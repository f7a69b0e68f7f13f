-------------------------------- MODULE Hydro --------------------------------
(***************************************************************************)
(* Hydrodynamic forces (libgadget/hydra.c) and the predictions they use    *)
(* (density.c).  The force on a particle takes the entropy, density,       *)
(* pressure and velocity of its neighbours at the current time, predicted  *)
(* from their last kick.  Depending on how many particles are active,      *)
(* entropies are predicted for all gas before the densities, or for the    *)
(* active gas and for others when a thread first needs them, or whenever   *)
(* they are needed.                                                        *)
(*                                                                         *)
(* Particles lie on a line, number 1 leftmost.  The powers in entropy and  *)
(* pressure and the kernel are left out: equal values stay equal.  Each    *)
(* neighbour is one step of a thread.  The walk has up to two rounds, and  *)
(* the ranks begin a round together, see TreeWalk.                         *)
(***************************************************************************)
EXTENDS Integers, Sequences, FiniteSets, FiniteSetsExt, Functions, TLC

CONSTANTS
  NTask, NThread,
  HydroWorlds      (* the gas, and how many other particles a rank has      *)

VARIABLES
  fluid,           (* the world                                             *)
  hphase,          (* "start", "density", "walk" or "ended"                 *)
  stored,          (* per rank: is there an array EntVarPred                *)
  EntVarPred,      (* 0 where nothing has been predicted                    *)
  Pressures,       (* PressurePred                                          *)
  flow,            (* HydroAccel, DtEntropy and MaxSignalVel of SPHP(i)     *)
  round, at,       (* at[r]: "send", "primary", "secondary", "reduce"       *)
  query, unseen,   (* per <<i, rank>>: the query, the neighbours to visit   *)
  result,          (* O                                                     *)
  seen             (* what i has used for itself and for neighbour j        *)

hydroVars == <<fluid, hphase, stored, EntVarPred, Pressures, flow, round, at,
               query, unseen, result, seen>>

Gas       == DOMAIN fluid.gas
Locals    == 1..NTask
G(i)      == fluid.gas[i]
On(r)     == {i \in Gas : G(i).rank = r}
Active(i) == G(i).active
Between(S, f(_)) == MapThenSumSet(f, S)

\* winds_is_particle_decoupled
Decoupled(i) == G(i).wind

---------------------------------------------------------------------------
(* Predictions.  "ahead" is the time from the kick of the particle's bin   *)
(* to now, "drift" from the last step of an inactive bin.                  *)

\* SPH_EntVarPred, from the entropy's rate of change as it is in memory.
SPH_EntVarPred(i, DtEntropy) ==
  Max({0, G(i).entropy \div 20, G(i).entropy + DtEntropy * G(i).ahead})

SPH_VelPred(i, HydroAccel) == G(i).vel + HydroAccel * G(i).ahead

\* SPH_DensityPred.
SPH_DensityPred(i, drift) ==
  LET pred == G(i).density - G(i).div * G(i).density * drift
  IN  IF 1000000 * pred >= G(i).density THEN pred ELSE G(i).density \div 1000000

Drift(i) == IF Active(i) THEN 0 ELSE G(i).drift

PressurePred(density, entropy) ==
  IF entropy * density <= 0 THEN 0 ELSE entropy * density

---------------------------------------------------------------------------
\* The numbers of active and of all particles decide; the variant takes those
\* of the rank alone.
CountsOf(R) ==
  [active |-> Between(R, LAMBDA r : fluid.busy[r] + Cardinality({i \in On(r) : Active(i)})),
   all    |-> Between(R, LAMBDA r : fluid.slots[r])]

LocalCounts(r) == CountsOf({r})

GlobalCounts(r) == CountsOf(Locals)

Regime(counts) ==
  IF ~fluid.list \/ 10 * counts.active > counts.all THEN "all"
  ELSE IF 10000 * counts.active > counts.all THEN "active" ELSE "none"

HydroInit ==
  /\ fluid \in HydroWorlds
  /\ hphase = "start"
  /\ stored = <<>> /\ EntVarPred = <<>> /\ Pressures = <<>> /\ flow = <<>>
  /\ round = 1 /\ at = <<>>
  /\ query = <<>> /\ unseen = <<>> /\ result = <<>> /\ seen = <<>>

\* density begins.
PredictEntropy ==
  /\ hphase = "start"
  /\ hphase' = "density"
  /\ flow' = [i \in Gas |-> [accel |-> G(i).accel, dt |-> G(i).dt, signal |-> 0]]
  /\ LET what == [r \in Locals |-> Regime(GlobalCounts(r))]
         Now(i) == what[G(i).rank] = "all" \/ (what[G(i).rank] = "active" /\ Active(i))
     IN  /\ stored' = [r \in Locals |-> what[r] # "none"]
         /\ EntVarPred' = [i \in Gas |-> IF Now(i) THEN SPH_EntVarPred(i, G(i).dt) ELSE 0]
  /\ UNCHANGED <<fluid, Pressures, round, at, query, unseen, result, seen>>

\* density_ngbiter predicts what is near an active particle, whose rate of
\* change is still the last one; hydro_force then has the pressure of whatever
\* is predicted.
NearActive(j) == \E i \in Gas : Active(i) /\ j \in G(i).within

Lazily(i) == IF EntVarPred[i] = 0 /\ NearActive(i) /\ stored[G(i).rank]
             THEN SPH_EntVarPred(i, flow[i].dt) ELSE EntVarPred[i]

PressureOf(i, entropy) == PressurePred(SPH_DensityPred(i, Drift(i)), entropy)

hydro_force ==
  /\ hphase = "density"
  /\ hphase' = "walk"
  /\ EntVarPred' = [i \in Gas |-> Lazily(i)]
  /\ Pressures' = [i \in Gas |-> IF stored[G(i).rank] THEN PressureOf(i, Lazily(i)) ELSE 0]
  /\ at' = [r \in Locals |-> "send"]
  /\ UNCHANGED <<fluid, stored, flow, round, query, unseen, result, seen>>

---------------------------------------------------------------------------
\* Symmetric: whatever is within either's radius.
Neighbours(i) == {j \in Gas \ {i} : j \in G(i).within \/ i \in G(j).within}
Near(i, r)    == Neighbours(i) \cap On(r)

hydro_haswork(i) == Active(i)

\* hydro_copy, as things are in memory.
Entropy(i) == IF stored[G(i).rank] THEN EntVarPred[i] ELSE SPH_EntVarPred(i, flow[i].dt)

hydro_copy(i) ==
  [entropy  |-> Entropy(i),
   density  |-> G(i).density,
   pressure |-> IF stored[G(i).rank] THEN Pressures[i] ELSE PressurePred(G(i).density, Entropy(i)),
   vel      |-> SPH_VelPred(i, flow[i].accel)]

\* Queries for other ranks are filled when they are sent, in the round the
\* buffer had room for them.
Exported(r, n) ==
  {q \in On(r) \X (Locals \ {r}) :
     hydro_haswork(q[1]) /\ Near(q[1], q[2]) # {} /\ (q[1] \in fluid.late <=> n = 2)}

Begun(qs) ==
  /\ query'  = [q \in qs |-> hydro_copy(q[1])] @@ query
  /\ unseen' = [q \in qs |-> Near(q[1], q[2])] @@ unseen
  /\ result' = [q \in qs |-> [acc |-> 0, dt |-> 0, signal |-> hydro_copy(q[1]).pressure]] @@ result

Send(r) ==
  /\ hphase = "walk" /\ at[r] = "send"
  /\ Begun(Exported(r, round))
  /\ at' = [at EXCEPT ![r] = IF round = 1 THEN "primary" ELSE "secondary"]
  /\ UNCHANGED <<fluid, hphase, stored, EntVarPred, Pressures, flow, round, seen>>

\* A thread takes a particle of its rank.
Primary(i)  == <<i, G(i).rank>>
Mine(r)     == {i \in On(r) : hydro_haswork(i)}
Working(r)  == {q \in DOMAIN unseen : q[2] = r /\ (G(q[1]).rank = r \/ at[r] = "secondary")}

TakeTarget(i) ==
  LET r == G(i).rank
  IN  /\ hphase = "walk" /\ at[r] = "primary" /\ hydro_haswork(i)
      /\ Primary(i) \notin DOMAIN query
      /\ Cardinality(Working(r)) < NThread
      /\ Begun({Primary(i)})
      /\ UNCHANGED <<fluid, hphase, stored, EntVarPred, Pressures, flow, round, at, seen>>

\* hydro_ngbiter for neighbour j on its rank.  What is not there is predicted
\* and put in its place; threads that do so together write the same.
NgbEntropy(j) ==
  IF stored[G(j).rank] /\ EntVarPred[j] # 0 THEN EntVarPred[j] ELSE SPH_EntVarPred(j, flow[j].dt)

NgbPressure(j) ==
  IF stored[G(j).rank] /\ Pressures[j] # 0 THEN Pressures[j] ELSE PressureOf(j, NgbEntropy(j))

Neighbour(j) ==
  [entropy |-> NgbEntropy(j), density |-> SPH_DensityPred(j, Drift(j)),
   pressure |-> NgbPressure(j), vel |-> SPH_VelPred(j, flow[j].accel)]

\* The pressure pushes them apart; where they approach, viscosity heats.
Push(i, j, a, b) == IF i < j THEN -(a.pressure + b.pressure) ELSE a.pressure + b.pressure
Heat(i, j, a, b) == Max({0, IF i < j THEN a.vel - b.vel ELSE b.vel - a.vel})

hydro_ngbiter(q, j) ==
  /\ hphase = "walk" /\ q \in Working(q[2]) /\ j \in unseen[q]
  /\ unseen' = [unseen EXCEPT ![q] = @ \ {j}]
  /\ IF Decoupled(j) THEN UNCHANGED <<EntVarPred, Pressures, result, seen>>
     ELSE LET i == q[1]  me == query[q]  other == Neighbour(j)
          IN  /\ result' = [result EXCEPT ![q] =
                   [acc |-> @.acc + Push(i, j, me, other), dt |-> @.dt + Heat(i, j, me, other),
                    signal |-> Max({@.signal, me.pressure + other.pressure})]]
              /\ seen' = <<i, j>> :> [self |-> me, other |-> other] @@ seen
              /\ IF stored[q[2]]
                 THEN /\ EntVarPred' = [EntVarPred EXCEPT ![j] = other.entropy]
                      /\ Pressures' = [Pressures EXCEPT ![j] = other.pressure]
                 ELSE UNCHANGED <<EntVarPred, Pressures>>
  /\ UNCHANGED <<fluid, hphase, stored, flow, round, at, query>>

\* hydro_reduce: the primary result is assigned, others are added; the largest
\* signal velocity stays.
LargestSignal(old, new, primary) == IF primary \/ old < new THEN new ELSE old

Without(f, q) == [x \in DOMAIN f \ {q} |-> f[x]]

hydro_reduce(q) ==
  LET i == q[1]  o == result[q]  primary == q = Primary(i)
  IN  /\ flow' = [flow EXCEPT ![i] =
           [accel  |-> IF primary THEN o.acc ELSE @.accel + o.acc,
            dt     |-> IF primary THEN o.dt ELSE @.dt + o.dt,
            signal |-> LargestSignal(@.signal, o.signal, primary)]]
      /\ unseen' = Without(unseen, q) /\ result' = Without(result, q)
      /\ UNCHANGED <<fluid, hphase, stored, EntVarPred, Pressures, round, at, query, seen>>

Over(q) == q \in DOMAIN unseen /\ unseen[q] = {}

ReducePrimary(i) ==
  /\ hphase = "walk" /\ Over(Primary(i))
  /\ hydro_reduce(Primary(i))

\* Results of other ranks, when the own secondary walk is over.
ReduceExport(q) ==
  /\ hphase = "walk" /\ Over(q) /\ q # Primary(q[1])
  /\ at[G(q[1]).rank] = "reduce"
  /\ hydro_reduce(q)

EndPrimary(r) ==
  /\ hphase = "walk" /\ at[r] = "primary"
  /\ \A i \in Mine(r) : Primary(i) \in DOMAIN query \ DOMAIN unseen
  /\ at' = [at EXCEPT ![r] = "secondary"]
  /\ UNCHANGED <<fluid, hphase, stored, EntVarPred, Pressures, flow, round, query, unseen,
                 result, seen>>

\* All queries of the round for this rank have come and are answered.
EndSecondary(r) ==
  /\ hphase = "walk" /\ at[r] = "secondary"
  /\ \A s \in Locals \ {r} : \A q \in Exported(s, round) : q[2] = r => Over(q) \/ q \in DOMAIN query \ DOMAIN unseen
  /\ at' = [at EXCEPT ![r] = "reduce"]
  /\ UNCHANGED <<fluid, hphase, stored, EntVarPred, Pressures, flow, round, query, unseen,
                 result, seen>>

RoundOver == hphase = "walk" /\ unseen = <<>> /\ \A r \in Locals : at[r] = "reduce"

NextRound ==
  /\ RoundOver /\ round = 1 /\ \E r \in Locals : Exported(r, 2) # {}
  /\ round' = 2
  /\ at' = [r \in Locals |-> "send"]
  /\ UNCHANGED <<fluid, hphase, stored, EntVarPred, Pressures, flow, query, unseen, result, seen>>

\* hydro_postprocess: wind particles move freely (winds_decoupled_hydro).
WindSpeed == 20
winds_decoupled_hydro(f) == [accel |-> 0, dt |-> 0, signal |-> Max({2 * WindSpeed, f.signal})]

hydro_postprocess ==
  /\ RoundOver /\ (round = 2 \/ \A r \in Locals : Exported(r, 2) = {})
  /\ hphase' = "ended"
  /\ flow' = [i \in Gas |->
       IF Active(i) /\ Decoupled(i) THEN winds_decoupled_hydro(flow[i]) ELSE flow[i]]
  /\ UNCHANGED <<fluid, stored, EntVarPred, Pressures, round, at, query, unseen, result, seen>>

HydroNext ==
  \/ PredictEntropy \/ hydro_force
  \/ \E r \in Locals : Send(r) \/ EndPrimary(r) \/ EndSecondary(r)
  \/ \E i \in Gas : TakeTarget(i) \/ ReducePrimary(i)
  \/ \E q \in DOMAIN unseen : ReduceExport(q) \/ \E j \in unseen[q] : hydro_ngbiter(q, j)
  \/ NextRound \/ hydro_postprocess

HydroSpec == HydroInit /\ [][HydroNext]_hydroVars

---------------------------------------------------------------------------
State(i) == [entropy |-> SPH_EntVarPred(i, G(i).dt), density |-> SPH_DensityPred(i, Drift(i)),
             pressure |-> PressureOf(i, SPH_EntVarPred(i, G(i).dt))]
Used(s)  == [entropy |-> s.entropy, density |-> s.density, pressure |-> s.pressure]

\* Unless so few particles are active that nothing is stored, the entropy,
\* density and pressure a force is computed from are those predicted for the
\* current time, on whatever rank, by whatever thread and in whatever round:
\* the forces of the walk, which replace what the predictions come from, do not
\* change them.
AsPredicted ==
  Regime(CountsOf(Locals)) # "none" =>
    \A p \in DOMAIN seen : Used(seen[p].self) = State(p[1]) /\ Used(seen[p].other) = State(p[2])

\* The signal velocity that limits the time step is the largest of a particle's
\* pairs, on all ranks, and each pair counts once in its acceleration, unless
\* it is in the wind.
ForcesWhole ==
  /\ AsPredicted
  /\ hphase = "ended" => \A i \in Gas : Active(i) /\ ~Decoupled(i) =>
      LET pairs == {j \in Neighbours(i) : ~Decoupled(j)}
          p(j)  == seen[<<i, j>>]
          All   == {p(j).self.pressure + p(j).other.pressure : j \in pairs}
          own   == query[Primary(i)].pressure
      IN  /\ flow[i].signal = Max(All \cup {own})
          /\ flow[i].accel = MapThenSumSet(LAMBDA j : Push(i, j, p(j).self, p(j).other), pairs)

\* The two halves of a pair use the same entropy, density and pressure ("Make
\* the decision collectively so that every rank uses the same pressure
\* prediction convention in hydro: otherwise the two halves of a symmetric
\* interaction pair straddling a rank boundary may use different pressures",
\* density.c:289).
HalvesAgree ==
  \A p \in DOMAIN seen :
    <<p[2], p[1]>> \in DOMAIN seen =>
      LET q == seen[<<p[2], p[1]>>]
      IN  Used(seen[p].self) = Used(q.other)
=============================================================================
