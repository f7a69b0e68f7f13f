------------------------------ MODULE BlackHole ------------------------------
(***************************************************************************)
(* blackhole (libgadget/blackhole.c, bhdynfric.c) in one step: the active  *)
(* black holes look for the lowest potential around them, then two walks   *)
(* follow.  In the accretion walk a black hole claims the gas and the      *)
(* black holes it will swallow; in the feedback walk those that nobody has *)
(* claimed swallow what is theirs and heat or kick the other gas.          *)
(*                                                                         *)
(* A visit <<i, type, n>> is what black hole i does with particle n of     *)
(* that type.  It runs on the rank of n: those for black holes of the rank *)
(* in the primary walk, the others after it, at most one per query and     *)
(* thread at a time.  How queries and results travel is in TreeWalk; a     *)
(* walk starts with a collective call, so the ranks enter it together.     *)
(***************************************************************************)
EXTENDS Integers, Sequences, FiniteSets, FiniteSetsExt, Functions, TLC

CONSTANTS
  NTask, NThread,
  BHWorlds,        (* the black holes and the gas around them               *)
  MaxEntropy,      (* the cap on the temperature                            *)
  TIMEBINS

VARIABLES
  holes,           (* the world: what is near what, and who is active       *)
  phase,           (* "start", "dynfric", "accretion", "feedback", "ended"   *)
  bh,              (* P[i] and BHP(i) of the black holes                    *)
  sph,             (* P[i] and SPHP(i) of the gas                           *)
  BH_SwallowID, SPH_SwallowID,
  todo,            (* visits not begun                                      *)
  doing,           (* visits in progress, with the value they have read     *)
  out              (* O of each black hole and rank                         *)

bhVars == <<holes, phase, bh, sph, BH_SwallowID, SPH_SwallowID, todo, doing, out>>

BHs     == DOMAIN holes.bh
GasOf   == DOMAIN holes.gas
Hosts   == 1..NTask
ID(i)   == holes.bh[i].id
SeedBHDynMass == holes.seed   \* negative when it is not used
Home(i) == holes.bh[i].rank
Who(v)  == v[1]
OnRank(v)   == IF v[2] = "bh" THEN Home(v[3]) ELSE holes.gas[v[3]].rank
Primary(v)  == OnRank(v) = Home(Who(v))
Pots(i)     == {<<i, "pot", r>> : r \in Hosts}

\* blackhole_haswork, when the list of active black holes is built.
ActiveBlackHoles == {i \in BHs : holes.bh[i].active /\ ~holes.bh[i].swallowed}

\* Dynamical friction finds the potential of those whose own time bin for it
\* is active; without it repositioning does so for all.
DynFricWork ==
  IF holes.dynfric THEN {i \in ActiveBlackHoles : holes.bh[i].dfactive}
  ELSE IF holes.reposition THEN ActiveBlackHoles ELSE {}

BHInit ==
  /\ holes \in BHWorlds
  /\ phase = "start"
  /\ bh = <<>> /\ sph = <<>>
  /\ BH_SwallowID = <<>> /\ SPH_SwallowID = <<>>
  /\ todo = {} /\ doing = <<>> /\ out = <<>>

NewHole(w) ==
  [mass |-> w.mass, bhmass |-> w.bhmass, track |-> w.track, swallowed |-> w.swallowed,
   encounter |-> FALSE, minTimeBin |-> TIMEBINS, progs |-> 1, kinetic |-> w.kinetic,
   KEflag |-> 0, weight |-> 0, minpot |-> w.potential, jump |-> FALSE]

\* blackhole begins: nothing is claimed.
blackhole ==
  /\ phase = "start"
  /\ phase' = "dynfric"
  /\ bh' = [i \in BHs |-> NewHole(holes.bh[i])]
  /\ sph' = [g \in GasOf |-> [mass |-> holes.gas[g].mass, entropy |-> holes.gas[g].entropy,
                              vel |-> 0, flags |-> {}]]
  /\ BH_SwallowID' = [i \in BHs |-> 0]
  /\ SPH_SwallowID' = [g \in GasOf |-> 0]
  /\ todo' = UNION {Pots(i) : i \in DynFricWork}
  /\ UNCHANGED <<holes, doing, out>>

\* blackhole_repos_reduce: the result of one rank for black hole i, the own
\* rank's first.
ReposReduce(i, pot) ==
  IF bh[i].minpot > pot
  THEN [bh[i] EXCEPT !.minpot = pot, !.jump = holes.reposition] ELSE bh[i]

blackhole_repos_reduce(i, r) ==
  /\ phase = "dynfric" /\ <<i, "pot", r>> \in todo
  /\ <<i, "pot", Home(i)>> \in todo => r = Home(i)
  /\ bh' = [bh EXCEPT ![i] = ReposReduce(i, holes.bh[i].pots[r])]
  /\ todo' = todo \ {<<i, "pot", r>>}
  /\ UNCHANGED <<holes, phase, sph, BH_SwallowID, SPH_SwallowID, doing, out>>

----------------------------------------------------------------------------

\* The rank's threads: ghosts wait for the primary walk to be over.
CanStart(v) ==
  /\ v \in todo
  /\ LET here == {u \in DOMAIN doing : OnRank(u) = OnRank(v)}
     IN  /\ Cardinality(here) < NThread
         /\ \A u \in here : Who(u) # Who(v)
  /\ Primary(v) \/ ~\E u \in todo \cup DOMAIN doing : OnRank(u) = OnRank(v) /\ Primary(u)

Finished(v)   == doing' = [u \in DOMAIN doing \ {v} |-> doing[u]]
Going(v, rec) == doing' = v :> rec @@ doing

\* Symmetric: each finds the other if either's radius reaches.
BHVisits(i)  == {<<i, "bh", j>>  : j \in {k \in holes.meet[i] : ~holes.bh[k].swallowed} \ {i}}
GasVisits(i) == {<<i, "gas", g>> : g \in {h \in holes.near[i] : ~holes.gas[h].wind}}

NoResult == [encounter |-> FALSE, weight |-> 0, mass |-> 0, bhmass |-> 0, progs |-> 0,
             minTimeBin |-> TIMEBINS]

BeginWalk(who) ==
  /\ todo' = UNION {BHVisits(i) \cup GasVisits(i) : i \in who}
  /\ out' = [i \in who |-> [r \in Hosts |-> NoResult]]

DynFricOver ==
  /\ phase = "dynfric" /\ todo = {}
  /\ phase' = "accretion"
  /\ BeginWalk(ActiveBlackHoles)
  /\ UNCHANGED <<holes, bh, sph, BH_SwallowID, SPH_SwallowID, doing>>

SwallowID(v) == IF v[2] = "bh" THEN BH_SwallowID[v[3]] ELSE SPH_SwallowID[v[3]]

\* It may claim what is bound to it, or the gas chance has given it ...
Wants(v) == IF v[2] = "bh" THEN v[3] \in holes.bound[v[1]] ELSE v[3] \in holes.drawn[v[1]]

\* ... and not claimed by a larger ID.
Claims(v, readid) ==
  LET other == holes.bh[v[3]]
  IN  IF v[2] = "gas" THEN readid < ID(v[1]) + 1
      ELSE \/ readid # 0 /\ readid < ID(v[1])
           \/ readid = 0 /\ (other.id < ID(v[1]) \/ ~other.active)

\* blackhole_accretion_ngbiter up to the read of the claim.
AccretionVisit(v) ==
  /\ phase = "accretion" /\ CanStart(v)
  /\ todo' = todo \ {v}
  /\ out' = IF v[2] = "bh" THEN [out EXCEPT ![v[1]][OnRank(v)].encounter = TRUE]
            ELSE [out EXCEPT ![v[1]][OnRank(v)].weight = @ + sph[v[3]].mass]
  /\ IF Wants(v) /\ Claims(v, SwallowID(v))
     THEN Going(v, [at |-> "claim", seen |-> SwallowID(v)]) ELSE UNCHANGED doing
  /\ UNCHANGED <<holes, phase, bh, sph, BH_SwallowID, SPH_SwallowID>>

\* The compare and exchange of the claim; the variant writes whatever is there.
PlainClaim(v, seen) == TRUE

Unclaimed(v, seen) == SwallowID(v) = seen

Claim(v) ==
  /\ phase = "accretion" /\ v \in DOMAIN doing
  /\ IF Unclaimed(v, doing[v].seen)
     THEN /\ IF v[2] = "bh"
             THEN BH_SwallowID' = [BH_SwallowID EXCEPT ![v[3]] = ID(v[1]) + 1] /\ UNCHANGED SPH_SwallowID
             ELSE SPH_SwallowID' = [SPH_SwallowID EXCEPT ![v[3]] = ID(v[1]) + 1] /\ UNCHANGED BH_SwallowID
          /\ Finished(v)
     ELSE /\ IF Claims(v, SwallowID(v)) THEN Going(v, [doing[v] EXCEPT !.seen = SwallowID(v)])
             ELSE Finished(v)
          /\ UNCHANGED <<BH_SwallowID, SPH_SwallowID>>
  /\ UNCHANGED <<holes, phase, bh, sph, todo, out>>

\* TREEWALK_REDUCE: the primary result is assigned, the others are added.
Reduced(i, Field(_)) == MapThenSumSet(LAMBDA r : Field(out[i][r]), Hosts)

Gathered(i) ==
  holes.bh[i].kinetic + (IF holes.bh[i].low THEN holes.bh[i].growth ELSE 0)

\* blackhole_accretion_reduce and blackhole_accretion_postprocess: growth is
\* Mdot times the step.  Kinetic feedback gathers energy while the accretion
\* is low and is released above a threshold.
accretion_postprocess(i) ==
  LET b    == bh[i]
      w    == holes.bh[i]
      kept == Gathered(i)
  IN  [b EXCEPT !.encounter = \E r \in Hosts : out[i][r].encounter,
                !.weight    = Reduced(i, LAMBDA o : o.weight),
                !.bhmass    = @ + w.growth,
                !.kinetic   = IF holes.kineticOn THEN kept ELSE @,
                !.KEflag    = IF ~holes.kineticOn THEN 0
                              ELSE IF kept > holes.threshold THEN 2
                              ELSE IF w.low THEN 1 ELSE 0]

\* blackhole_feedback_haswork; the variant lets all active ones swallow.
EvenClaimed(i) == TRUE

feedback_haswork(i) == BH_SwallowID[i] = 0

AccretionOver ==
  /\ phase = "accretion" /\ todo = {} /\ doing = <<>>
  /\ phase' = "feedback"
  /\ bh' = [i \in BHs |-> IF i \in ActiveBlackHoles THEN accretion_postprocess(i) ELSE bh[i]]
  /\ BeginWalk({i \in ActiveBlackHoles : feedback_haswork(i)})
  /\ UNCHANGED <<holes, sph, BH_SwallowID, SPH_SwallowID, doing>>

----------------------------------------------------------------------------

Mine(v)      == SwallowID(v) = ID(v[1]) + 1
IsGarbage(g) == "IsGarbage" \in sph[g].flags

\* Only gas that nobody swallows is heated; the variant heats all.
HeatsAll(v) == TRUE

Heats(v) == SPH_SwallowID[v[3]] = 0

\* The mass of a swallowed black hole.  The query's Mtrack is not set: whether
\* it is positive is up to what was in its place.
OtherMass(j, tracked) ==
  IF tracked /\ bh[j].track < SeedBHDynMass THEN bh[j].track ELSE bh[j].mass

\* blackhole_feedback_ngbiter for a black hole.
SwallowBH(v) ==
  /\ phase = "feedback" /\ v[2] = "bh" /\ CanStart(v)
  /\ todo' = todo \ {v}
  /\ IF Mine(v)
     THEN \E tracked \in (IF SeedBHDynMass > 0 THEN BOOLEAN ELSE {FALSE}) :
            /\ bh' = [bh EXCEPT ![v[3]].swallowed = TRUE, ![v[3]].encounter = FALSE]
            /\ out' = [out EXCEPT ![v[1]][OnRank(v)].progs  = @ + bh[v[3]].progs,
                                  ![v[1]][OnRank(v)].bhmass = @ + bh[v[3]].bhmass,
                                  ![v[1]][OnRank(v)].mass   = @ + OtherMass(v[3], tracked)]
     ELSE UNCHANGED <<bh, out>>
  /\ UNCHANGED <<holes, phase, sph, BH_SwallowID, SPH_SwallowID, doing>>

\* blackhole_feedback_copy: kinetic feedback takes the place of thermal one.
Kinetic(i)  == bh[i].KEflag > 0
Released(i) == IF bh[i].KEflag = 2 THEN bh[i].kinetic ELSE 0
Injected(i) == IF Kinetic(i) \/ bh[i].weight = 0 THEN 0 ELSE holes.bh[i].energy \div bh[i].weight

\* For gas that is not swallowed: a kick is an atomic update, heat begins with
\* the read of the flags, or of the entropy where they need not change.
FeedGas(v) ==
  /\ phase = "feedback" /\ v[2] = "gas" /\ CanStart(v)
  /\ Heats(v) /\ ~IsGarbage(v[3])
  /\ todo' = todo \ {v}
  /\ LET i == v[1]  g == v[3]
     IN  /\ out' = [out EXCEPT ![i][OnRank(v)].minTimeBin = Min({@, holes.gas[g].bin})]
         /\ sph' = IF Kinetic(i) THEN [sph EXCEPT ![g].vel = @ + Released(i)] ELSE sph
         /\ IF Injected(i) = 0 THEN UNCHANGED doing
            ELSE IF holes.gas[g].eeqos THEN Going(v, [at |-> "BHHeated", seen |-> sph[g].flags])
            ELSE Going(v, [at |-> "entropy", seen |-> sph[g].entropy])
  /\ UNCHANGED <<holes, phase, bh, BH_SwallowID, SPH_SwallowID>>

\* A bit of a bit field is set by writing all of it; BHHeated is set before the
\* entropy is read.
SetFlag(v) ==
  /\ v \in DOMAIN doing /\ doing[v].at \in {"BHHeated", "IsGarbage"}
  /\ sph' = [sph EXCEPT ![v[3]].flags = doing[v].seen \cup {doing[v].at}]
  /\ IF doing[v].at = "BHHeated"
     THEN Going(v, [at |-> "entropy", seen |-> sph[v[3]].entropy]) ELSE Finished(v)
  /\ UNCHANGED <<holes, phase, bh, BH_SwallowID, SPH_SwallowID, todo, out>>

\* add_injected_BH_energy caps the temperature.
Heated(entropy, injected) == Min({MaxEntropy, entropy + injected})

\* The compare and exchange of the entropy.
SameEntropy(v) == sph[v[3]].entropy = doing[v].seen

AddHeat(v) ==
  /\ v \in DOMAIN doing /\ doing[v].at = "entropy"
  /\ IF SameEntropy(v)
     THEN sph' = [sph EXCEPT ![v[3]].entropy = Heated(doing[v].seen, Injected(v[1]))] /\ Finished(v)
     ELSE Going(v, [doing[v] EXCEPT !.seen = sph[v[3]].entropy]) /\ UNCHANGED sph
  /\ UNCHANGED <<holes, phase, bh, BH_SwallowID, SPH_SwallowID, todo, out>>

\* Gas that is swallowed, by the one that claimed it, or by nobody if that one
\* is swallowed itself.
SwallowGas(v) ==
  /\ phase = "feedback" /\ v[2] = "gas" /\ CanStart(v)
  /\ ~Heats(v) \/ IsGarbage(v[3])
  /\ todo' = todo \ {v}
  /\ IF Mine(v) /\ ~IsGarbage(v[3])
     THEN /\ out' = [out EXCEPT ![v[1]][OnRank(v)].mass = @ + sph[v[3]].mass]
          /\ Going(v, [at |-> "IsGarbage", seen |-> sph[v[3]].flags])
     ELSE UNCHANGED <<out, doing>>
  /\ UNCHANGED <<holes, phase, bh, sph, BH_SwallowID, SPH_SwallowID>>

\* blackhole_feedback_reduce and blackhole_feedback_postprocess: accreted mass
\* goes to the tracer until that has reached SeedBHDynMass.
feedback_postprocess(i) ==
  LET b    == [bh[i] EXCEPT
                !.progs      = Reduced(i, LAMBDA o : o.progs),
                !.minTimeBin = Min({out[i][r].minTimeBin : r \in Hosts}),
                !.bhmass     = @ + Reduced(i, LAMBDA o : o.bhmass),
                !.kinetic    = IF bh[i].KEflag = 2 THEN 0 ELSE @]
      acc  == Reduced(i, LAMBDA o : o.mass)
  IN  IF acc = 0 THEN b
      ELSE IF b.track + acc < SeedBHDynMass THEN [b EXCEPT !.track = @ + acc]
      ELSE IF b.track < SeedBHDynMass THEN [b EXCEPT !.mass = b.track + acc, !.track = SeedBHDynMass]
      ELSE [b EXCEPT !.mass = @ + acc]

FeedbackOver ==
  /\ phase = "feedback" /\ todo = {} /\ doing = <<>>
  /\ phase' = "ended"
  /\ bh' = [i \in BHs |-> IF i \in DOMAIN out THEN feedback_postprocess(i) ELSE bh[i]]
  /\ out' = <<>>
  /\ UNCHANGED <<holes, sph, BH_SwallowID, SPH_SwallowID, todo, doing>>

Visit(v) ==
  \/ AccretionVisit(v) \/ Claim(v) \/ SwallowBH(v)
  \/ FeedGas(v) \/ SetFlag(v) \/ AddHeat(v) \/ SwallowGas(v)

BHNext ==
  \/ blackhole
  \/ \E i \in BHs, r \in Hosts : blackhole_repos_reduce(i, r)
  \/ DynFricOver \/ AccretionOver \/ FeedbackOver
  \/ \E v \in todo \cup DOMAIN doing : Visit(v)

BHSpec == BHInit /\ [][BHNext]_bhVars

----------------------------------------------------------------------------

\* Those that may swallow a particle.
Suitors(v) ==
  {i \in ActiveBlackHoles :
     LET u == <<i, v[2], v[3]>>
     IN  u \in BHVisits(i) \cup GasVisits(i) /\ Wants(u) /\ Claims(u, 0)}

\* In whatever order threads and ranks claim it, a particle goes to one of
\* them, and none of the others has an ID larger by more than slack.
SwallowedByLargest(v, slack) ==
  IF Suitors(v) = {} THEN SwallowID(v) = 0
  ELSE \E i \in Suitors(v) :
         /\ SwallowID(v) = ID(i) + 1
         /\ \A j \in Suitors(v) : ID(j) <= ID(i) + slack

OfBH  == BHs \X {"bh"} \X BHs
OfGas == BHs \X {"gas"} \X GasOf

\* "the BH with the largest ID will be selected by the SwallowID search"
\* (blackhole.c:329).  It does not hold: a black hole's claim on another is
\* ID + 1, and is compared with the bare ID of the next.
LargestSwallows ==
  phase \in {"feedback", "ended"} => \A v \in OfBH \cup OfGas : SwallowedByLargest(v, 0)

\* Gas goes to the largest ID, a black hole to the largest or, if the IDs
\* follow each other, to the one just below it.
LargestOrNextSwallows ==
  phase \in {"feedback", "ended"} =>
    /\ \A v \in OfBH : SwallowedByLargest(v, 1)
    /\ \A v \in OfGas : SwallowedByLargest(v, 0)

\* Nothing is swallowed twice, in part or by one that is swallowed itself: the
\* mass of gas and black holes is what it was, the holes' own mass has grown
\* by what they accreted.  A merger of holes below the seed mass is left out.
Alive == {i \in BHs : ~bh[i].swallowed}
Left  == {g \in GasOf : ~IsGarbage(g)}
Dynamic(b) == IF b.track < SeedBHDynMass THEN b.track ELSE b.mass
Merged == {i \in BHs : bh[i].swallowed /\ ~holes.bh[i].swallowed}

SwallowedWhole ==
  phase = "ended" /\ (\A i \in Merged : bh[i].track >= SeedBHDynMass) =>
    /\ MapThenSumSet(LAMBDA i : Dynamic(bh[i]), Alive) + MapThenSumSet(LAMBDA g : sph[g].mass, Left)
       = MapThenSumSet(LAMBDA i : Dynamic(holes.bh[i]), {i \in BHs : ~holes.bh[i].swallowed})
         + MapThenSumSet(LAMBDA g : holes.gas[g].mass, GasOf)
    /\ MapThenSumSet(LAMBDA i : bh[i].bhmass, Alive)
       = MapThenSumSet(LAMBDA i : holes.bh[i].bhmass, {i \in BHs : ~holes.bh[i].swallowed})
         + MapThenSumSet(LAMBDA i : holes.bh[i].growth, ActiveBlackHoles)

\* Though threads heat a particle together, it gets the heat and the kicks of
\* all that reach it, up to the cap, and keeps its flags: gas marked as garbage
\* stays so ("we are careful not to do this with a swallowed particle (as this
\* can race with IsGarbage being set)", blackhole.c:848).
Feeding(g) ==
  {i \in ActiveBlackHoles : BH_SwallowID[i] = 0 /\ <<i, "gas", g>> \in GasVisits(i)}

AllHeatKept ==
  phase = "ended" =>
    \A g \in GasOf :
      LET warm == {i \in Feeding(g) : Injected(i) > 0}
          heat == MapThenSumSet(Injected, warm)
          kick == MapThenSumSet(LAMBDA i : IF bh[i].KEflag = 2 THEN Gathered(i) ELSE 0, Feeding(g))
      IN  IF \E i \in Feeding(g) : SPH_SwallowID[g] = ID(i) + 1
          THEN "IsGarbage" \in sph[g].flags
          ELSE IF SPH_SwallowID[g] # 0 THEN sph[g].flags = {} /\ sph[g].entropy = holes.gas[g].entropy
          ELSE /\ sph[g].entropy =
                    IF warm = {} THEN holes.gas[g].entropy ELSE Heated(holes.gas[g].entropy, heat)
               /\ sph[g].flags = IF warm # {} /\ holes.gas[g].eeqos THEN {"BHHeated"} ELSE {}
               /\ sph[g].vel = kick
=============================================================================
