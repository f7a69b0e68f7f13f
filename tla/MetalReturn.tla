---------------------------- MODULE MetalReturn ----------------------------
(***************************************************************************)
(* metal_return (libgadget/metal_return.c), on top of the tree walk: each  *)
(* star of a rank gives the mass it returns in this step to the gas near   *)
(* it, on its own rank in the primary walk and on others through queries.  *)
(* A gas particle that would become too heavy takes nothing, so what has   *)
(* really been given is reported back and taken from the star.             *)
(*                                                                         *)
(* All gas near a star takes the same share of what the query says; the    *)
(* metals, which go the same way as the mass, are left out.                *)
(***************************************************************************)
EXTENDS TreeWalk, Functions

CONSTANTS
  Gas,         (* gas particles                                             *)
  Near,        (* Near[r][p]: those near star p of rank r, on its own rank  *)
  Reach,       (* Reach[r][p][n]: those the n-th entry of the star reaches  *)
  StarMass, GasMass,   (* at the start of the walk                          *)
  Generated,   (* Generated[r][p]: MassReturn before the walk               *)
  MaxGasMass

\* A gas particle is in the tree of one rank, below one of its leaves.
ASSUME MetalReturnAssumption ==
  /\ IsFiniteSet(Gas) /\ GasMass \in [Gas -> Nat] /\ MaxGasMass \in Nat
  /\ DOMAIN StarMass = Ranks /\ DOMAIN Generated = Ranks
  /\ \A r \in Ranks :
       /\ Len(Near[r]) = Len(Work[r]) /\ Len(Reach[r]) = Len(Work[r])
       /\ StarMass[r] \in [DOMAIN Work[r] -> Nat] /\ Generated[r] \in [DOMAIN Work[r] -> Nat]
       /\ \A p \in DOMAIN Work[r] :
            /\ Generated[r][p] <= StarMass[r][p]
            /\ Near[r][p] \subseteq Gas /\ DOMAIN Reach[r][p] = DOMAIN Work[r][p]
            /\ \A m, n \in DOMAIN Work[r][p] :
                 /\ Reach[r][p][n] \subseteq Gas /\ Reach[r][p][n] \cap Near[r][p] = {}
                 /\ m # n => Reach[r][p][m] \cap Reach[r][p][n] = {}

VARIABLES
  gas,            (* P[other].Mass of the gas                               *)
  star,           (* P[place].Mass of the stars, per rank                   *)
  MassReturn,     (* per rank and star                                      *)
  MassGenerated,  (* per rank and entry, as the query for it was filled     *)
  given,          (* per rank and entry, MassReturn of the answer           *)
  returned        (* ranks whose postprocessing is over                     *)

masses == <<gas, star, MassReturn, MassGenerated, given, returned>>

Stars(r) == DOMAIN Work[r]
Own(p)   == <<p, 0>>

\* The gas visited for entry e of rank r, or on the own rank.
Visited(r, e) == IF e[2] = 0 THEN Near[r][e[1]] ELSE Reach[r][e[1]][e[2]]

Neighbours(r, p) ==
  Near[r][p] \cup UNION {Reach[r][p][n] : n \in DOMAIN Work[r][p]}

MetalInit ==
  /\ Init
  /\ gas = GasMass /\ star = StarMass
  /\ MassReturn = Generated
  /\ MassGenerated = [r \in Ranks |-> [e \in Exports(r) |-> 0]]
  /\ given = MassGenerated
  /\ returned = {}

\* metal_return_copy fills the queries of the round.
SendStars(r) ==
  /\ ev_send_recv_export_import(r)
  /\ MassGenerated' = [MassGenerated EXCEPT ![r] = [e \in Exports(r) |->
       IF e \in ToSet(table[r]) THEN MassReturn[r][e[1]] ELSE @[e]]]
  /\ UNCHANGED <<gas, star, MassReturn, given, returned>>

\* What a particle has room for.
Accepted(have, this) == IF have + this > MaxGasMass THEN 0 ELSE this

\* metal_return_ngbiter for one neighbour, under its lock.  w is a visit: the
\* neighbour, the entry it is for and the share that entry offers.
metal_return_ngbiter(s, w) ==
  LET have == s.gas[w.other]
  IN  [gas  |-> [s.gas EXCEPT ![w.other] =
                   IF have + w.share > MaxGasMass THEN @ ELSE @ + w.share],
       mass |-> [s.mass EXCEPT ![w.entry] = @ + Accepted(have, w.share)]]

Visits(r, entries, generated) ==
  UNION {{[entry |-> e, other |-> g,
           share |-> generated[e] \div Cardinality(Neighbours(r, e[1]))]
            : g \in Visited(r, e)} : e \in entries}

\* The threads make the visits in any order.
Enriched(order, entries) ==
  LET start == [gas |-> gas, mass |-> [e \in entries |-> 0]]
      s[n \in 0..Len(order)] ==
        IF n = 0 THEN start ELSE metal_return_ngbiter(s[n - 1], order[n])
  IN  s[Len(order)]

\* ev_primary, with metal_return_reduce in primary mode: an assignment.
GiveAtHome(r) ==
  /\ ev_primary(r)
  /\ IF InFirstRound(r)
     THEN LET entries   == {Own(p) : p \in Stars(r)}
              generated == [e \in entries |-> MassReturn[r][e[1]]]
          IN  \E order \in SetToSeqs(Visits(r, entries, generated)) :
                LET after == Enriched(order, entries)
                IN  /\ gas' = after.gas
                    /\ MassReturn' = [MassReturn EXCEPT ![r] =
                         [p \in Stars(r) |-> after.mass[Own(p)]]]
     ELSE UNCHANGED <<gas, MassReturn>>
  /\ UNCHANGED <<star, MassGenerated, given, returned>>

\* ev_secondary, for the queries of rank q.
GiveAbroad(r, q) ==
  /\ Answer(r, q)
  /\ LET entries == ToSet(Head(queries[q][r]).entries)
     IN  \E order \in SetToSeqs(Visits(q, entries, MassGenerated[q])) :
           LET after == Enriched(order, entries)
           IN  /\ gas' = after.gas
               /\ given' = [given EXCEPT ![q] = [e \in Exports(q) |->
                    IF e \in entries THEN after.mass[e] ELSE @[e]]]
  /\ UNCHANGED <<star, MassReturn, MassGenerated, returned>>

\* metal_return_reduce in ghost mode adds an answer; the variant assigns it.
Assigned(have, answer) == answer

Added(have, answer) == have + answer

AnswerOf(r, k) == IF Result(r, k) = Unreceived THEN 0 ELSE given[r][Result(r, k)]

\* The answers to all entries of the table, one after the other.
WithAnswers(r) ==
  LET m[k \in 0..Len(table[r])] ==
        IF k = 0 THEN MassReturn[r]
        ELSE [m[k - 1] EXCEPT ![table[r][k][1]] = Added(@, AnswerOf(r, k))]
  IN  m[Len(table[r])]

\* ev_reduce_export_result
ReduceStars(r) ==
  /\ ev_reduce_export_result(r)
  /\ MassReturn' = [MassReturn EXCEPT ![r] = WithAnswers(r)]
  /\ UNCHANGED <<gas, star, MassGenerated, given, returned>>

\* metal_return_postprocess
metal_return_postprocess(r) ==
  /\ pc[r] = "finished" /\ r \notin returned
  /\ star' = [star EXCEPT ![r] = [p \in Stars(r) |-> @[p] - MassReturn[r][p]]]
  /\ returned' = returned \cup {r}
  /\ UNCHANGED <<vars, gas, MassReturn, MassGenerated, given>>

MetalStep(r) ==
  \/ ev_toptree(r) /\ UNCHANGED masses
  \/ SendStars(r) \/ GiveAtHome(r) \/ ReduceStars(r)
  \/ \E q \in Ranks : GiveAbroad(r, q)
  \/ EndSecondary(r) /\ UNCHANGED masses
  \/ metal_return_postprocess(r)

Counts   == ev_export_import_counts /\ UNCHANGED masses
Leave(r) == EndRound(r) /\ UNCHANGED masses

MetalNext == Counts \/ \E r \in Ranks : MetalStep(r) \/ Leave(r)

MetalFairness ==
  /\ WF_<<vars, masses>>(Counts)
  /\ \A r \in Ranks :
       /\ WF_<<vars, masses>>(MetalStep(r))
       /\ WF_<<vars, masses>>(Leave(r) /\ SendsOver(r))

MetalSpec == MetalInit /\ [][MetalNext]_<<vars, masses>> /\ MetalFairness

----------------------------------------------------------------------------

AllStars == UNION {{r} \X Stars(r) : r \in Ranks}

StarTotal(m) == SumFunction([s \in AllStars |-> m[s[1]][s[2]]])

\* When all ranks are through, what the gas has gained is what the stars have
\* lost, whichever gas particles were too heavy and in however many rounds the
\* answers came; no star has lost more than it was to return.
MassKept ==
  /\ \A r \in returned : \A p \in Stars(r) :
       StarMass[r][p] - star[r][p] \in 0..Generated[r][p]
  /\ returned = Ranks => SumFunction(gas) + StarTotal(star) = SumFunction(GasMass) + StarTotal(StarMass)

\* What a star offers its neighbours is the total mass it returns in this
\* step, in whichever round the query is sent ("it computes the total amount of
\* metals to be returned in this timestep", metal_return.c:577).
GivenInFull ==
  \A r \in Ranks : \A m \in UNION {ToSet(queries[r][q]) : q \in Ranks} :
    \A e \in ToSet(m.entries) : MassGenerated[r][e] = Generated[r][e[1]]
=============================================================================
