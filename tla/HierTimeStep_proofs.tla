------------------------ MODULE HierTimeStep_proofs ------------------------
(***************************************************************************)
(* Proofs about HierTimeStep for every timeline, every smallest step and   *)
(* every set of particles whose run is set up as Setting says.             *)
(*                                                                         *)
(* The invariant says where every kick time is in each phase.  For a bin b *)
(* that ends a step now that is half a step back before the closing kick,  *)
(* now between the kicks, half a step ahead after the opening kick, and on *)
(* a ladder the half step of the rung the particle was last kicked on more *)
(* than before the ladder.  For any other bin it is the middle of its step.*)
(***************************************************************************)
EXTENDS HierTimeStep, TimeStep_proofs

(***************************************************************************)
(* The run starts at a step boundary, and there are no black holes without *)
(* gas.  What the theorems claim, they claim as long as neither of the two *)
(* circumstances named at the end of HierTimeStep has arisen.              *)
(***************************************************************************)
Setting ==
  /\ AlignedStart
  /\ GasEnabled \/ \A p \in Part : InitType[p] # "bh"

HierOrder == PMEndsOnGrid /\ BottomRungEmpty

ClosingPhases == {"kick_end", "top_rung", "rungs", "kicked"}
MeetingPhases == {"physics", "timesteps", "new_rungs", "hydro", "kick_begin",
                  "hydro_kicked"}

\* Before the first gravity bins, or the first hydro bins, are given out.
Unset      == firstStep /\ pc \in {"advance", "physics", "timesteps"} \cup ClosingPhases
HydroUnset == firstStep /\ pc \notin {"kick_begin", "hydro_kicked"}

\* The kick time of bin b at time t: in the middle of a step, before the
\* closing kick, between the kicks, and after the opening kick.
Half(b)      == Dti[b] \div 2
Mid(b, t)    == StepStart(b, t) + Half(b)
Before(b, t) == IF IsActive(b, t) THEN t - Half(b) ELSE Mid(b, t)
Meet(b, t)   == IF IsActive(b, t) THEN t ELSE Mid(b, t)
After(b, t)  == IF IsActive(b, t) THEN t + Half(b) ELSE Mid(b, t)

\* What a ladder that has come down to rung r has added for bin b.
Rise(b, r, t) ==
  IF IsActive(b, t) THEN Half(IF b > r THEN b ELSE r) ELSE 0

----------------------------------------------------------------------------
(* The inductive invariant.                                                *)

UnsetInv ==
  Unset =>
    /\ mintimebin = 0 /\ maxtimebin = 0 /\ mingravtimebin = 0
    /\ PM_length = 0 /\ PM_start = Ti_Current /\ PM_kick = Ti_Current
    /\ Aligned(Ti_Current)
    /\ pc # "advance" => isPM
    /\ pc = "rungs" => ti = -1
    /\ pc \notin MeetingPhases => \A b \in Bins : Ti_kick[b] = Ti_Current
    /\ \A p \in Part : TimeBinGravity[p] = 0

\* The table of kick times; the bins below the shortest one go with it.
TableInv ==
  /\ pc \in MeetingPhases =>
       \A b \in 1..TIMEBINS : Ti_kick[b] = Meet(b, Ti_Current)
  /\ ~Unset => \A b \in 1..TIMEBINS :
       /\ pc \in ClosingPhases =>
            Ti_kick[b] = IF b >= mintimebin THEN Before(b, Ti_Current)
                         ELSE Ti_Current - Half(mintimebin)
       /\ pc = "advance" =>
            Ti_kick[b] = IF b >= mintimebin THEN After(b, Ti_Current)
                         ELSE Ti_Current + Half(mintimebin)

\* The ladder reaches down to every gravity bin, and the next kick is where
\* some step ends and none is stepped over.
MinInv ==
  ~Unset /\ pc # "new_rungs" =>
    /\ 1 <= mintimebin /\ mintimebin <= mingravtimebin
    /\ Dti[mingravtimebin] <= PM_length
    /\ IsActive(mintimebin, Ti_Current)
    /\ \A p \in Live : mingravtimebin <= TimeBinGravity[p]
    /\ pc # "hydro" =>
         \A p \in Live : HasHydro(p) => mintimebin <= TimeBinHydro[p]

\* The long-range step has two equal halves, each of a unit at least.
PMPlaced ==
  /\ PM_length \in Nat /\ 2 <= PM_length
  /\ PM_length = PM_length \div 2 + PM_length \div 2

PMInv ==
  ~Unset =>
    /\ PMPlaced
    /\ PM_start \in Nat /\ PM_start <= Ti_Current
    /\ IF pc \in ClosingPhases \cup {"physics", "timesteps"}
       THEN Ti_Current <= PMEnd /\ (isPM <=> Ti_Current = PMEnd)
       ELSE Ti_Current < PMEnd
    /\ pc \in MeetingPhases \ {"physics", "timesteps"} /\ isPM =>
         PM_start = Ti_Current
    /\ PM_kick = IF isPM /\ pc \in MeetingPhases THEN Ti_Current
                 ELSE PM_start + PM_length \div 2

GravityKick(g, t) ==
  IF pc \in {"kick_end", "top_rung"} THEN Before(g, t)
  ELSE IF pc = "rungs" THEN Before(g, t) + Rise(g, ti + 1, t)
  ELSE IF pc \in {"kicked", "physics", "timesteps"} THEN Meet(g, t)
  ELSE IF pc = "new_rungs" THEN Meet(g, t) + Rise(g, ti + 1, t)
  ELSE After(g, t)

GravityInv ==
  \A p \in Live :
    /\ ~Unset => /\ 2 <= TimeBinGravity[p]
                 /\ Dti[TimeBinGravity[p]] <= PM_length
    /\ Ti_kick_grav[p] = GravityKick(TimeBinGravity[p], Ti_Current)
    /\ pc # "advance" /\ IsActive(TimeBinGravity[p], Ti_Current) => p \in Act

HydroKick(h, t) ==
  IF pc = "kick_end" THEN Before(h, t)
  ELSE IF pc \in {"advance", "hydro_kicked"} THEN After(h, t)
  ELSE Meet(h, t)

HydroInv ==
  \A p \in Part : HasHydro(p) =>
    /\ GasEnabled
    /\ HydroUnset => TimeBinHydro[p] = 0
    /\ p \in Live =>
         /\ ~HydroUnset => 1 <= TimeBinHydro[p]
         /\ \/ TimeBinHydro[p] <= TimeBinGravity[p]
            \/ /\ pc \in {"new_rungs", "hydro"}
               /\ IsActive(TimeBinGravity[p], Ti_Current)
         /\ Ti_kick_hydro[p] = HydroKick(TimeBinHydro[p], Ti_Current)
         /\ pc # "advance" =>
              (p \in Act <=> IsActive(TimeBinHydro[p], Ti_Current))

\* The table of last active times, for the bins of particles and for those
\* that end a step now.
DriftInv ==
  /\ \A p \in Live : TimeBinGravity[p] >= 1 =>
       Ti_lastactivedrift[TimeBinGravity[p]] =
         StepStart(TimeBinGravity[p], Ti_Current)
  /\ \A p \in Live : HasHydro(p) /\ TimeBinHydro[p] >= 1 =>
       Ti_lastactivedrift[TimeBinHydro[p]] =
         StepStart(TimeBinHydro[p], Ti_Current)
  /\ pc # "advance" => \A b \in 1..TIMEBINS :
       IsActive(b, Ti_Current) => Ti_lastactivedrift[b] = Ti_Current

\* Who is still on the ladder.
RungInv ==
  /\ pc \in {"rungs", "new_rungs"} /\ ~Unset =>
       /\ 0 <= ti /\ ti < largest_active
       /\ \A p \in Live : p \in lastact <=>
            /\ IsActive(TimeBinGravity[p], Ti_Current)
            /\ TimeBinGravity[p] <= ti + 1
  /\ pc = "new_rungs" =>
       /\ 2 <= ti + 1
       /\ IsActive(largest_active, Ti_Current)
       /\ Dti[largest_active] <= PM_length
       /\ lastact \subseteq Live

\* A particle that was swallowed stays in the list of active particles, with
\* the bin it had.
ActListInv ==
  /\ Live # {}
  /\ ~Unset /\ pc \in ClosingPhases \cup {"physics", "timesteps"} =>
       \A p \in Act : /\ 2 <= TimeBinGravity[p]
                      /\ Dti[TimeBinGravity[p]] <= PM_length

Running ==
  /\ UnsetInv /\ TableInv /\ MinInv /\ PMInv
  /\ GravityInv /\ HydroInv /\ DriftInv /\ RungInv /\ ActListInv

Inv ==
  /\ HierTypeOK
  /\ pc \notin Asserts \cup {"passed_PM"}
  /\ pc \notin Ends => badstep = FALSE /\ Running

----------------------------------------------------------------------------
(* Kick times of the bins.                                                 *)

\* Bins are natural numbers,
LEMMA BinsNat == Bins \subseteq Nat
<1>1. TIMEBINS \in Nat
  BY TimelineAssumption
<1>2. QED
  BY <1>1 DEF Bins

\* so they are ordered,
LEMMA BinsOrder ==
  ASSUME NEW a \in Bins, NEW b \in Bins
  PROVE  /\ a <= b <=> ~(a > b)
         /\ a <= b <=> ~(b < a)
         /\ a <= b <=> a < b \/ a = b
         /\ b > a <=> a < b
         /\ b >= a <=> a <= b
<1>1. a \in Int /\ b \in Int
  BY BinsNat
<1>2. QED
  BY <1>1

\* in a line,
LEMMA BinsTrans ==
  ASSUME NEW a \in Bins, NEW b \in Bins, NEW c \in Bins, a <= b, b <= c
  PROVE  a <= c
<1>1. a \in Int /\ b \in Int /\ c \in Int
  BY BinsNat
<1>2. QED
  BY <1>1

\* without a bin between one and the next.
LEMMA BinsStep ==
  ASSUME NEW a \in Bins, NEW r \in Nat
  PROVE  /\ a <= r + 1 <=> a <= r \/ a = r + 1
         /\ a <= r <=> a < r + 1
         /\ ~(a <= r) <=> r + 1 <= a
<1>1. a \in Int
  BY BinsNat
<1>2. QED
  BY <1>1

\* Half a step is a natural number of units.
LEMMA HalfType ==
  ASSUME NEW b \in Bins
  PROVE  Half(b) \in Nat
  BY DtiType DEF Half

\* From bin 1 on a step has two equal halves of at least one unit.
LEMMA Halves ==
  ASSUME NEW b \in 1..TIMEBINS
  PROVE  Half(b) \in Nat \ {0} /\ Dti[b] = Half(b) + Half(b)
  BY DtiHalves DEF Half

\* Bin 0 has no extent: its kick time is the drift time.
LEMMA BinZero ==
  ASSUME NEW t \in Nat
  PROVE  /\ 0 \in Bins /\ Dti[0] = 0 /\ Half(0) = 0 /\ IsActive(0, t)
         /\ Before(0, t) = t /\ Meet(0, t) = t /\ After(0, t) = t
<1>1. 0 \in Bins /\ Dti[0] = 0
  BY TimelineAssumption DEF Bins
<1>2. Half(0) = 0
  BY <1>1, Z3 DEF Half
<1>3. IsActive(0, t)
  BY DEF IsActive
<1>4. QED
  BY <1>1, <1>2, <1>3 DEF Before, Meet, After

\* Kick times are integers.
LEMMA KickTypes ==
  ASSUME NEW b \in Bins, NEW t \in Nat
  PROVE  Before(b, t) \in Int /\ Meet(b, t) \in Int /\ After(b, t) \in Int
<1>1. Half(b) \in Nat
  BY HalfType
<1>2. CASE b = 0
  BY <1>2, BinZero
<1>3. CASE b # 0
  <2>1. b \in 1..TIMEBINS
    BY <1>3 DEF Bins
  <2>2. StepStart(b, t) \in Nat
    BY <2>1, StepStartFacts
  <2>3. QED
    BY <1>1, <2>2 DEF Before, Meet, After, Mid
<1>4. QED
  BY <1>2, <1>3

\* A half kick of the active bins leads from one time to the next.
LEMMA HalfKicks ==
  ASSUME NEW b \in Bins, NEW t \in Nat
  PROVE  /\ IsActive(b, t) => /\ Before(b, t) + Half(b) = Meet(b, t)
                              /\ Meet(b, t) + Half(b) = After(b, t)
                              /\ Meet(b, t) = t
         /\ ~IsActive(b, t) => /\ Before(b, t) = Meet(b, t)
                               /\ Meet(b, t) = After(b, t)
<1>1. Half(b) \in Nat
    BY HalfType
  <1>2. QED
    BY <1>1 DEF Before, Meet, After

\* A ladder that has come down to the particle's own bin has added half a
\* step of that bin.
LEMMA RiseType ==
  ASSUME NEW b \in Bins, NEW r \in Bins, NEW t \in Nat
  PROVE  /\ Rise(b, r, t) \in Nat
         /\ r <= b => /\ Before(b, t) + Rise(b, r, t) = Meet(b, t)
                      /\ Meet(b, t) + Rise(b, r, t) = After(b, t)
<1>1. Half(b) \in Nat /\ Half(r) \in Nat
  BY HalfType
<1>2. Rise(b, r, t) \in Nat
  BY <1>1 DEF Rise
<1>3. ASSUME r <= b PROVE Rise(b, r, t) = IF IsActive(b, t) THEN Half(b) ELSE 0
  <2>1. b > r \/ b = r
    BY <1>3 DEF Bins
  <2>2. QED
    BY <2>1 DEF Rise
<1>4. Before(b, t) \in Int /\ Meet(b, t) \in Int
  BY KickTypes
<1>5. QED
  BY <1>2, <1>3, <1>4, HalfKicks

\* One rung further down, the bins below the rung follow it and the others
\* have been left.
LEMMA RungDown ==
  ASSUME NEW b \in Bins, NEW r \in Nat, r + 1 \in Bins, NEW t \in Nat,
         IsActive(b, t)
  PROVE  Rise(b, r, t) = IF b <= r THEN Rise(b, r + 1, t) + Half(r) - Half(r + 1)
                                   ELSE Rise(b, r + 1, t)
<1>1. r \in Bins /\ b \in Int
  BY TimelineAssumption DEF Bins
<1>2. Half(r) \in Nat /\ Half(r + 1) \in Nat /\ Half(b) \in Nat
  BY <1>1, HalfType
<1>3. CASE b <= r
  <2>1. ~(b > r) /\ ~(b > r + 1)
    BY <1>1, <1>3
  <2>2. Rise(b, r, t) = Half(r) /\ Rise(b, r + 1, t) = Half(r + 1)
    BY <2>1 DEF Rise
  <2>3. QED
    BY <1>2, <1>3, <2>2
<1>4. CASE b = r + 1
  <2>1. b > r /\ ~(b > r + 1) /\ ~(b <= r)
    BY <1>1, <1>4
  <2>2. QED
    BY <1>4, <2>1 DEF Rise
<1>5. CASE b > r + 1
  <2>1. b > r /\ ~(b <= r)
    BY <1>1, <1>5
  <2>2. QED
    BY <1>5, <2>1 DEF Rise
<1>6. QED
  BY <1>1, <1>3, <1>4, <1>5

\* When a step of bin a is over, a bin that is no shorter has its kick time
\* where it was: ahead of the old time, and behind the new one if it ends.
LEMMA AfterIsBefore ==
  ASSUME NEW a \in 1..TIMEBINS, NEW b \in 1..TIMEBINS, NEW t \in Nat,
         a <= b, IsActive(a, t)
  PROVE  /\ After(b, t) = Before(b, t + Dti[a])
         /\ t + Half(a) = (t + Dti[a]) - Half(a)
         /\ ~IsActive(b, t + Dti[a]) =>
              StepStart(b, t + Dti[a]) = StepStart(b, t)
<1> DEFINE u == t + Dti[a]
<1>1. Half(a) \in Nat /\ Dti[a] = Half(a) + Half(a)
  BY Halves
<1>2. Half(b) \in Nat /\ Dti[b] = Half(b) + Half(b)
  BY Halves
<1>3. u \in Nat
  BY <1>1
<1>4. /\ StepStart(b, t) \in Nat
      /\ IsActive(b, t) => StepStart(b, t) = t
  BY StepStartFacts
<1>5. After(b, t) = StepStart(b, t) + Half(b)
  BY <1>4 DEF After, Mid
<1>6. IF IsActive(b, u) THEN StepStart(b, t) + Dti[b] = u
                        ELSE StepStart(b, u) = StepStart(b, t)
  BY LongerStep
<1> HIDE DEF u
<1>7. After(b, t) = Before(b, u)
  BY <1>2, <1>3, <1>4, <1>5, <1>6 DEF Before, Mid
<1>8. t + Half(a) = u - Half(a)
  BY <1>1 DEF u
<1>9. QED
  BY <1>6, <1>7, <1>8 DEF u

\* Where the run starts, the kick time of every bin is the starting time.
LEMMA AlignedMeets ==
  ASSUME NEW t \in Nat, Aligned(t), NEW b \in 1..TIMEBINS
  PROVE  Meet(b, t) = t
<1> DEFINE r == t % Dti[b]
<1>1. r = 0 \/ r = Half(b)
  BY DEF Aligned, Half
<1>2. IsActive(b, t) <=> r = 0
  BY ActiveMod
<1>3. StepStart(b, t) = t - r
  BY DEF StepStart
<1>4. Half(b) \in Nat
  BY Halves
<1> HIDE DEF r
<1>5. QED
  BY <1>1, <1>2, <1>3, <1>4 DEF Meet, Mid

\* And steps of all bins but the longest end there.
LEMMA AlignedActive ==
  ASSUME NEW t \in Nat, Aligned(t), NEW b \in 1..TIMEBINS-1
  PROVE  IsActive(b, t)
<1>1. b \in 1..TIMEBINS /\ b + 1 \in 1..TIMEBINS /\ b <= b + 1
  BY TimelineAssumption
<1>2. Dti[b+1] = 2 * Dti[b] /\ Dti[b] \in Nat \ {0} /\ Dti[b+1] \in Nat \ {0}
  BY <1>1, TimelineAssumption, DtiHalves
<1>3. Half(b+1) = Dti[b]
  BY <1>1, <1>2, Halves
<1> DEFINE r == t % Dti[b+1]
<1>4. r = 0 \/ r = Half(b+1)
  BY <1>1 DEF Aligned, Half
<1>5. CASE r = 0
  <2>1. IsActive(b+1, t)
    BY <1>1, <1>5, ActiveMod
  <2>2. QED
    BY <1>1, <2>1, ActiveDown
<1>6. CASE r = Half(b+1)
  <2>1. StepStart(b+1, t) = t - Dti[b]
    BY <1>3, <1>6 DEF StepStart
  <2>2. StepStart(b+1, t) \in Nat
    BY <1>1, StepStartFacts
  <2>3. PICK s \in Nat : s = t - Dti[b]
    BY <2>1, <2>2
  <2>4. t % Dti[b+1] = Dti[b] /\ Dti[b] < Dti[b+1]
    BY <1>2, <1>3, <1>6
  <2>5. s % Dti[b+1] = 0
    <3> DEFINE d == Dti[b+1]
    <3>1. PICK q \in Nat, x \in 0..d-1 : t = d*q + x /\ t % d = x
      BY <1>2, DivMod
    <3>2. d \in Nat \ {0} /\ x = Dti[b] /\ Dti[b] \in Nat
      BY <1>2, <2>4, <3>1
    <3> HIDE DEF d
    <3> DEFINE m == d*q
    <3>3. m \in Nat /\ t = m + x
      BY <3>1, <3>2
    <3> HIDE DEF m
    <3>4. s = m + 0 /\ 0 \in 0..d-1
      BY <2>3, <3>2, <3>3
    <3>5. s % d = 0
      BY <3>2, <3>4, ModUnique DEF m
    <3>6. QED
      BY <3>5 DEF d
  <2>6. IsActive(b+1, s)
    BY <1>1, <2>5, ActiveMod
  <2>7. IsActive(b, s)
    BY <1>1, <2>6, ActiveDown
  <2>8. t = s + Dti[b]
    BY <1>2, <2>3
  <2>9. QED
    BY <1>1, <2>7, <2>8, ActiveStep
<1>7. QED
  BY <1>4, <1>5, <1>6

\* There is a bin 1, of two units.
LEMMA BinOne ==
  /\ TIMEBINS \in Nat /\ 1 <= TIMEBINS
  /\ 1 \in Bins /\ 1 \in 1..TIMEBINS /\ Dti[1] = 2
<1>1. TIMEBINS \in Nat /\ 1 <= TIMEBINS /\ Dti[1] = 2
  BY TimelineAssumption
<1>2. QED
  BY <1>1 DEF Bins

\* Bins other than bin 0 have a positive step.
LEMMA ShortestUp ==
  ASSUME NEW b \in Bins, 1 <= b \/ 2 <= b
  PROVE  b \in 1..TIMEBINS /\ 1 <= b
<1>1. b \in Int /\ b <= TIMEBINS
  BY BinOne DEF Bins
<1>2. QED
  BY <1>1, BinOne

----------------------------------------------------------------------------
(* The longest bin of a set.                                               *)

\* Every set of bins that is not empty has a longest bin.
LEMMA LongestBin ==
  ASSUME NEW S, S \subseteq Bins, S # {}
  PROVE  Longest(S) \in S /\ \A c \in S : c <= Longest(S)
<1>1. TIMEBINS \in Nat /\ S \subseteq Int
  BY TimelineAssumption DEF Bins
<1> DEFINE D == {TIMEBINS - b : b \in S}
<1>2. D \subseteq Nat /\ D # {}
  <2>1. \A b \in S : TIMEBINS - b \in Nat
    BY <1>1 DEF Bins
  <2>2. QED
    BY <2>1
<1>3. PICK d \in D : \A e \in D : d <= e
  BY <1>2, LeastNat
<1>4. PICK b \in S : d = TIMEBINS - b
  BY <1>3
<1>5. ASSUME NEW c \in S PROVE c <= b
  <2>1. d <= TIMEBINS - c
    BY <1>3
  <2>2. QED
    BY <1>1, <1>4, <2>1
<1>6. \E x \in S : \A c \in S : c <= x
  BY <1>5
<1>7. QED
  BY <1>6 DEF Longest

\* The top rung: a step of it ends now, and of no longer bin that fits into
\* the long-range step.
LEMMA LargestActiveBin ==
  ASSUME NEW pm \in Nat, Ti_Current \in Nat
  PROVE  LET top == LargestActive(pm) IN
         /\ top \in Bins /\ IsActive(top, Ti_Current) /\ Dti[top] <= pm
         /\ \A b \in Bins : IsActive(b, Ti_Current) /\ Dti[b] <= pm => b <= top
<1> DEFINE S == {b \in Bins : IsActive(b, Ti_Current) /\ Dti[b] <= pm}
<1>1. 0 \in S
  BY BinZero
<1>2. S \subseteq Bins /\ S # {}
  BY <1>1
<1>3. Longest(S) \in S /\ \A c \in S : c <= Longest(S)
  BY <1>2, LongestBin
<1>4. QED
  BY <1>3 DEF LargestActive

\* Before any bins are given out it is bin 0.
LEMMA LargestActiveNone ==
  ASSUME Ti_Current \in Nat
  PROVE  LargestActive(0) = 0
<1> DEFINE top == LargestActive(0)
<1>1. top \in Bins /\ Dti[top] <= 0
  BY LargestActiveBin
<1> HIDE DEF top
<1>2. top \in 1..TIMEBINS => Dti[top] > 0
  BY DtiHalves
<1>3. top = 0
  BY <1>1, <1>2, TimelineAssumption DEF Bins
<1>4. QED
  BY <1>3 DEF top

\* Active particles stay in the list, with their bins, until bins are given out.
LEMMA ActListKept ==
  ASSUME ActListInv, UNCHANGED <<Live, Act, TimeBinGravity, PM_length>>,
         ~Unset' /\ pc' \in ClosingPhases \cup {"physics", "timesteps"} =>
           ~Unset /\ pc \in ClosingPhases \cup {"physics", "timesteps"}
  PROVE  ActListInv'
  BY DEF ActListInv

----------------------------------------------------------------------------
(* The start, and the advance to the next kick.                            *)

\* Everything starts at the time the run starts.
LEMMA InvInit == Setting /\ HierInit => Inv
<1> SUFFICES ASSUME Setting, HierInit PROVE Inv
  OBVIOUS
<1>1. /\ Ti_Current \in Nat /\ Aligned(Ti_Current) /\ 0 \in Bins
      /\ TIMEBINS \in Nat
  BY SetupAssumption, TimelineAssumption, BinZero
  DEF HierInit, Init, Setting, AlignedStart
<1>2. pc = "advance" /\ firstStep /\ Unset /\ HydroUnset
  BY DEF HierInit, Init, Unset, HydroUnset
<1>3. HierTypeOK
  <2>1. Type \in [Part -> Types] /\ Live \subseteq Part /\ Act \subseteq Part
    BY SetupAssumption DEF HierInit, Init
  <2>2. Ti_kick \in [Bins -> Nat] /\ Ti_lastactivedrift \in [Bins -> Nat]
    BY <1>1 DEF HierInit, Init
  <2>3. /\ TimeBinHydro \in [Part -> Bins] /\ TimeBinGravity \in [Part -> Bins]
        /\ Ti_kick_grav \in [Part -> Int] /\ Ti_kick_hydro \in [Part -> Int]
    BY <1>1 DEF HierInit, Init
  <2>4. /\ ti \in -1..TIMEBINS /\ largest_active \in Bins /\ lastact \subseteq Part
        /\ mintimebin \in Bins /\ maxtimebin \in Bins /\ mingravtimebin \in Bins
        /\ PM_length \in Int /\ PM_start \in Int /\ PM_kick \in Int
    BY <1>1 DEF HierInit, Init
  <2>5. pc \in Phases /\ isPM \in BOOLEAN /\ firstStep \in BOOLEAN /\ badstep \in BOOLEAN
    BY DEF HierInit, Init, Phases
  <2>6. QED
    BY <1>1, <2>1, <2>2, <2>3, <2>4, <2>5 DEF HierTypeOK
<1>4. UnsetInv
  BY <1>1, <1>2 DEF HierInit, Init, UnsetInv
<1>5. ASSUME NEW p \in Part
      PROVE  /\ TimeBinGravity[p] = 0 /\ TimeBinHydro[p] = 0
             /\ Ti_kick_grav[p] = Ti_Current /\ Ti_kick_hydro[p] = Ti_Current
             /\ HasHydro(p) => GasEnabled
  BY DEF HierInit, Init, Setting, HasHydro, GasEnabled
<1>6. After(0, Ti_Current) = Ti_Current
  BY <1>1, BinZero
<1>7. GravityInv
  BY <1>2, <1>3, <1>5, <1>6 DEF GravityInv, GravityKick, HierTypeOK
<1>8. HydroInv
  BY <1>1, <1>2, <1>3, <1>5, <1>6 DEF HydroInv, HydroKick, HierTypeOK
<1>9. DriftInv
  BY <1>2, <1>3, <1>5 DEF DriftInv, HierTypeOK
<1>10. TableInv /\ MinInv /\ PMInv /\ RungInv /\ ActListInv
  BY <1>2, SetupAssumption
  DEF TableInv, MinInv, PMInv, RungInv, ActListInv, MeetingPhases, HierInit, Init
<1>11. QED
  BY <1>2, <1>3, <1>4, <1>7, <1>8, <1>9, <1>10
  DEF Inv, Running, HierInit, Asserts

\* Advancing keeps the types.
LEMMA AdvanceType ==
  ASSUME HierTypeOK, HierAdvance
  PROVE  HierTypeOK'
<1> USE DEF HierTypeOK
<1>1. NextKick \in Nat
  BY DtiType DEF NextKick
<1>2. Act' \subseteq Part /\ isPM' \in BOOLEAN
  BY DEF HierAdvance, Advance, ActiveParticles
<1>3. Ti_lastactivedrift' \in [Bins -> Nat]
  BY <1>1 DEF HierAdvance, Advance, LastActive
<1>4. pc' \in Phases \cup Ends
  BY DEF HierAdvance, Advance, Phases, Ends
<1>5. QED
  BY <1>1, <1>2, <1>3, <1>4
  DEF HierAdvance, Advance, binTimes, pmTimes, kinds, partBins, kicks, hierVars,
      rungVars

\* The first advance goes nowhere, and starts a long-range step.
LEMMA AdvanceUnset ==
  ASSUME HierTypeOK, Running, Unset, HierAdvance
  PROVE  Running' /\ pc' = "kick_end"
<1> USE DEF HierTypeOK, Running
<1> DEFINE t == Ti_Current
<1>1. pc = "advance" /\ firstStep
  BY DEF HierAdvance, Advance, Unset
<1>2. /\ mintimebin = 0 /\ maxtimebin = 0 /\ mingravtimebin = 0
      /\ PM_length = 0 /\ PM_start = t /\ PM_kick = t /\ Aligned(t)
      /\ \A b \in Bins : Ti_kick[b] = t
      /\ \A p \in Part : TimeBinGravity[p] = 0
  BY <1>1 DEF UnsetInv, MeetingPhases
<1>3. NextKick = t /\ PMEnd = t
  BY <1>2, BinZero DEF NextKick, PMEnd
<1>4. /\ pc' = "kick_end" /\ t' = t /\ isPM'
      /\ Act' = ActiveParticles(isPM', t)
      /\ Ti_lastactivedrift' = [b \in Bins |-> LastActive(b, t)]
  <2>1. ~(NextKick > PMEnd) /\ (NextKick = PMEnd)
    BY <1>3
  <2>2. /\ pc' = "kick_end" /\ t' = NextKick
        /\ isPM' = (NextKick = PMEnd)
        /\ Act' = ActiveParticles(isPM', NextKick)
        /\ Ti_lastactivedrift' = [b \in Bins |-> LastActive(b, NextKick)]
    BY <2>1 DEF HierAdvance, Advance
  <2>3. isPM'
    BY <2>1, <2>2
  <2>4. QED
    BY <1>3, <2>2, <2>3
<1>5. /\ UNCHANGED <<firstStep, mintimebin, maxtimebin, PM_length, PM_start,
                     PM_kick, Ti_kick, Live, Type, TimeBinHydro,
                     TimeBinGravity, Ti_kick_grav, Ti_kick_hydro>>
      /\ UNCHANGED <<mingravtimebin, largest_active, ti, lastact, badstep>>
  BY DEF HierAdvance, Advance, binTimes, pmTimes, kinds, partBins, kicks,
    hierVars, rungVars
<1>6. Act' = Live
  BY <1>4 DEF ActiveParticles
<1>7. Unset' /\ HydroUnset' /\ HydroUnset
  BY <1>1, <1>4, <1>5 DEF Unset, HydroUnset, ClosingPhases
<1>8. /\ 0 \in Bins /\ IsActive(0, t) /\ Before(0, t) = t /\ After(0, t) = t
  BY BinZero
<1>9. UnsetInv'
  BY <1>2, <1>4, <1>5, <1>7 DEF UnsetInv, MeetingPhases
<1>10. TableInv' /\ MinInv' /\ PMInv' /\ RungInv' /\ ActListInv'
  BY <1>4, <1>5, <1>7 DEF TableInv, MinInv, PMInv, RungInv, ActListInv, MeetingPhases
<1>11. GravityInv'
  BY <1>1, <1>2, <1>4, <1>5, <1>6, <1>7, <1>8 DEF GravityInv, GravityKick
<1>12. HydroInv'
  BY <1>1, <1>4, <1>5, <1>6, <1>7, <1>8 DEF HydroInv, HydroKick, HasHydro
<1>13. DriftInv'
  <2>1. \A b \in Bins : IsActive(b, t) => Ti_lastactivedrift'[b] = t
    BY <1>4 DEF LastActive
  <2>2. \A p \in Part : HasHydro(p)' => TimeBinHydro'[p] = 0
    BY <1>5, <1>7 DEF HydroInv, HasHydro
  <2>3. \A b \in 1..TIMEBINS : b \in Bins
    BY BinsUp
  <2>4. QED
    BY <1>2, <1>4, <1>5, <2>1, <2>2, <2>3 DEF DriftInv
<1>14. QED
  BY <1>4, <1>9, <1>10, <1>11, <1>12, <1>13

\* As long as the long-range step ends on the grid, the steps of all bins that
\* fit into it end with it.
LEMMA PMStepEnd ==
  ASSUME PMEndsOnGrid, PMPlaced, PM_start \in Nat
  PROVE  /\ PM_length \in Nat \ {0} /\ PMEnd \in Nat
         /\ \A b \in 1..TIMEBINS : Dti[b] <= PM_length => IsActive(b, PMEnd)
<1>1. PM_length \in Nat \ {0}
  BY DEF PMPlaced
<1>2. PMEnd \in Nat
  BY <1>1 DEF PMEnd
<1>3. ASSUME NEW b \in 1..TIMEBINS, Dti[b] <= PM_length
      PROVE  IsActive(b, PMEnd)
  BY <1>2, <1>3, ActiveMod DEF PMEndsOnGrid
<1>4. QED
  BY <1>1, <1>2, <1>3

\* A step of the shortest bin ends at the next kick, which is within the
\* long-range step.
LEMMA NextKickFits ==
  ASSUME PMEndsOnGrid, HierTypeOK, Running, ~Unset, pc = "advance"
  PROVE  /\ mintimebin \in 1..TIMEBINS
         /\ IsActive(mintimebin, Ti_Current) /\ IsActive(mintimebin, NextKick)
         /\ NextKick = Ti_Current + Dti[mintimebin]
         /\ NextKick \in Nat /\ Ti_Current < NextKick /\ NextKick <= PMEnd
         /\ PMEnd \in Nat
<1> USE DEF HierTypeOK, Running
<1> DEFINE m == mintimebin
<1>1. /\ 1 <= m /\ m <= mingravtimebin
      /\ Dti[mingravtimebin] <= PM_length
      /\ IsActive(m, Ti_Current)
  BY DEF MinInv
<1>2. m \in 1..TIMEBINS /\ m \in Bins
  BY <1>1, ShortestUp
<1>3. PMPlaced /\ PM_start \in Nat /\ Ti_Current < PMEnd
  BY DEF PMInv, ClosingPhases
<1>4. /\ PM_length \in Nat \ {0} /\ PMEnd \in Nat
      /\ \A b \in 1..TIMEBINS : Dti[b] <= PM_length => IsActive(b, PMEnd)
  BY <1>3, PMStepEnd
<1>5. Dti[m] <= PM_length
  <2>1. Dti[m] <= Dti[mingravtimebin]
    BY <1>1, <1>2, DtiMonotone
  <2>2. Dti[m] \in Nat /\ Dti[mingravtimebin] \in Nat
    BY <1>2, DtiType
  <2>3. QED
    BY <1>1, <1>4, <2>1, <2>2
<1>6. NextKick = Ti_Current + Dti[m]
  BY DEF NextKick
<1>7. NextKick <= PMEnd
  BY <1>1, <1>2, <1>3, <1>4, <1>5, <1>6, ActiveBetween
<1>8. Dti[m] \in Nat \ {0} /\ IsActive(m, NextKick)
  BY <1>1, <1>2, <1>6, DtiHalves, ActiveStep
<1>9. QED
  BY <1>1, <1>2, <1>4, <1>6, <1>7, <1>8

\* A later one goes to the end of the shortest step, which is behind
\* the kick time of every bin.
LEMMA AdvanceSet ==
  ASSUME PMEndsOnGrid, HierTypeOK, Running, ~Unset, HierAdvance
  PROVE  Running' /\ pc' = "kick_end"
<1> USE DEF HierTypeOK, Running
<1> DEFINE t == Ti_Current
           u == NextKick
           m == mintimebin
<1>1. pc = "advance" /\ ~firstStep /\ ~HydroUnset
  BY DEF HierAdvance, Advance, Unset, HydroUnset
<1>2. /\ m \in 1..TIMEBINS /\ IsActive(m, t) /\ IsActive(m, u)
      /\ u = t + Dti[m] /\ u \in Nat /\ t < u /\ u <= PMEnd /\ PMEnd \in Nat
  BY <1>1, NextKickFits
<1>3. /\ pc' = "kick_end" /\ t' = u
      /\ isPM' = (u = PMEnd)
      /\ Act' = ActiveParticles(isPM', u)
      /\ Ti_lastactivedrift' = [b \in Bins |-> LastActive(b, u)]
  <2>1. ~(u > PMEnd)
    BY <1>2
  <2>2. QED
    BY <2>1 DEF HierAdvance, Advance
<1>4. /\ UNCHANGED <<firstStep, mintimebin, maxtimebin, PM_length, PM_start,
                     PM_kick, Ti_kick, Live, Type, TimeBinHydro,
                     TimeBinGravity, Ti_kick_grav, Ti_kick_hydro>>
      /\ UNCHANGED <<mingravtimebin, largest_active, ti, lastact, badstep>>
  BY DEF HierAdvance, Advance, binTimes, pmTimes, kinds, partBins, kicks,
    hierVars, rungVars
<1>5. ~Unset' /\ ~HydroUnset'
  BY <1>1, <1>4 DEF Unset, HydroUnset
<1>6. ASSUME NEW b \in 1..TIMEBINS, m <= b
      PROVE  /\ After(b, t) = Before(b, u)
             /\ ~IsActive(b, u) => StepStart(b, u) = StepStart(b, t)
  BY <1>2, <1>6, AfterIsBefore
<1>7. t + Half(m) = u - Half(m)
  BY <1>2, AfterIsBefore
<1>8. ASSUME NEW p \in Live
      PROVE  /\ TimeBinGravity[p] \in 1..TIMEBINS /\ m <= TimeBinGravity[p]
             /\ Dti[TimeBinGravity[p]] <= PM_length
             /\ HasHydro(p) => /\ TimeBinHydro[p] \in 1..TIMEBINS
                               /\ m <= TimeBinHydro[p]
                               /\ TimeBinHydro[p] <= TimeBinGravity[p]
  <2>1. /\ mingravtimebin <= TimeBinGravity[p] /\ m <= mingravtimebin
        /\ HasHydro(p) => m <= TimeBinHydro[p]
    BY <1>1 DEF MinInv
  <2>2. /\ Dti[TimeBinGravity[p]] <= PM_length
        /\ HasHydro(p) => TimeBinHydro[p] <= TimeBinGravity[p]
    BY <1>1 DEF GravityInv, HydroInv
  <2>3. /\ TimeBinGravity[p] \in Bins /\ TimeBinHydro[p] \in Bins
        /\ mingravtimebin \in Bins /\ m \in Bins
    OBVIOUS
  <2>4. m <= TimeBinGravity[p]
    BY <2>1, <2>3, BinsTrans
  <2>5. ASSUME NEW b \in Bins, m <= b PROVE b \in 1..TIMEBINS
    BY <1>2, <2>5, TimelineAssumption DEF Bins
  <2> HIDE DEF m
  <2>6. QED
    BY <2>1, <2>2, <2>3, <2>4, <2>5
<1>9. \A p \in Part : HasHydro(p)' <=> HasHydro(p)
  BY <1>4 DEF HasHydro
<1> HIDE DEF u
<1>10. ASSUME NEW p \in Live, HasHydro(p)
       PROVE  p \in Act' <=> IsActive(TimeBinHydro[p], u)
  <2>1. p \in Act' <=> \/ isPM'
                       \/ IsActive(TimeBinGravity[p], u)
                       \/ IsActive(TimeBinHydro[p], u)
    BY <1>3, <1>10 DEF ActiveParticles
  <2>2. isPM' => IsActive(TimeBinGravity[p], u)
    <3>1. PMPlaced /\ PM_start \in Nat
      BY DEF PMInv
    <3>2. IsActive(TimeBinGravity[p], PMEnd)
      BY <1>8, <3>1, PMStepEnd
    <3>3. QED
      BY <1>3, <3>2
  <2>3. IsActive(TimeBinGravity[p], u) => IsActive(TimeBinHydro[p], u)
    BY <1>2, <1>8, <1>10, ActiveDown
  <2>4. QED
    BY <2>1, <2>2, <2>3
<1>11. UnsetInv' /\ RungInv'
  BY <1>3, <1>5 DEF UnsetInv, RungInv
<1>12. TableInv'
  <2>1. ASSUME NEW b \in 1..TIMEBINS
        PROVE  Ti_kick[b] = IF b >= m THEN Before(b, u) ELSE u - Half(m)
    <3>1. Ti_kick[b] = IF b >= m THEN After(b, t) ELSE t + Half(m)
      BY <1>1 DEF TableInv
    <3>2. QED
      BY <1>2, <1>6, <1>7, <3>1
  <2>2. QED
    BY <1>3, <1>4, <2>1 DEF TableInv, ClosingPhases, MeetingPhases
<1>13. MinInv'
  BY <1>1, <1>2, <1>3, <1>4, <1>9 DEF MinInv
<1>14. PMInv'
  <2>1. PMEnd' = PMEnd /\ (PMPlaced' <=> PMPlaced)
    BY <1>4 DEF PMEnd, PMPlaced
  <2>2. /\ PMPlaced /\ PM_start \in Nat /\ PM_start <= t
        /\ PM_kick = PM_start + PM_length \div 2
    BY <1>1 DEF PMInv, MeetingPhases
  <2>3. isPM' <=> u = PMEnd
    BY <1>3
  <2>4. PM_start <= u
    BY <1>2, <2>2
  <2>5. QED
    BY <1>2, <1>3, <1>4, <2>1, <2>2, <2>3, <2>4 DEF PMInv, ClosingPhases, MeetingPhases
<1>15. GravityInv'
  <2>1. ASSUME NEW p \in Live
        PROVE  /\ Ti_kick_grav[p] = Before(TimeBinGravity[p], u)
               /\ IsActive(TimeBinGravity[p], u) => p \in Act'
               /\ 2 <= TimeBinGravity[p]
    BY <1>1, <1>3, <1>6, <1>8 DEF GravityInv, GravityKick, ActiveParticles
  <2>2. QED
    BY <1>3, <1>4, <1>8, <2>1 DEF GravityInv, GravityKick
<1>16. HydroInv'
  <2>1. ASSUME NEW p \in Live, HasHydro(p)
        PROVE  /\ Ti_kick_hydro[p] = Before(TimeBinHydro[p], u)
               /\ 1 <= TimeBinHydro[p]
    BY <1>1, <1>6, <1>8, <2>1 DEF HydroInv, HydroKick
  <2>2. \A p \in Part : HasHydro(p) => GasEnabled
    BY DEF HydroInv
  <2>3. QED
    BY <1>3, <1>4, <1>5, <1>8, <1>9, <1>10, <2>1, <2>2 DEF HydroInv, HydroKick
<1>17. DriftInv'
  <2>1. \A b \in Bins : Ti_lastactivedrift'[b] =
          IF IsActive(b, u) THEN u ELSE Ti_lastactivedrift[b]
    BY <1>3 DEF LastActive
  <2>2. ASSUME NEW b \in 1..TIMEBINS, m <= b,
               Ti_lastactivedrift[b] = StepStart(b, t)
        PROVE  Ti_lastactivedrift'[b] = StepStart(b, u)
    <3>1. IsActive(b, u) => StepStart(b, u) = u
      BY <1>2, StepStartFacts
    <3>2. QED
      BY <1>6, <2>1, <2>2, <3>1, BinsUp
  <2>3. ASSUME NEW p \in Live
        PROVE  Ti_lastactivedrift'[TimeBinGravity[p]] =
                 StepStart(TimeBinGravity[p], u)
    BY <1>8, <2>2 DEF DriftInv
  <2>4. ASSUME NEW p \in Live, HasHydro(p)
        PROVE  Ti_lastactivedrift'[TimeBinHydro[p]] =
                 StepStart(TimeBinHydro[p], u)
    BY <1>8, <2>2, <2>4 DEF DriftInv
  <2>5. \A b \in 1..TIMEBINS : IsActive(b, u) => Ti_lastactivedrift'[b] = u
    BY <2>1, BinsUp
  <2>6. QED
    BY <1>3, <1>4, <1>9, <2>3, <2>4, <2>5 DEF DriftInv
<1>18. ActListInv'
  <2>1. Act' \subseteq Live /\ Live # {}
    BY <1>3 DEF ActiveParticles, ActListInv
  <2>2. \A p \in Live : 2 <= TimeBinGravity[p]
    BY <1>1 DEF GravityInv
  <2>3. QED
    BY <1>4, <1>8, <2>1, <2>2 DEF ActListInv
<1>19. QED
  BY <1>3, <1>11, <1>12, <1>13, <1>14, <1>15, <1>16, <1>17, <1>18

----------------------------------------------------------------------------
(* The hydro half kicks.                                                   *)

\* The hydro kicks keep the types.
LEMMA HydroHalfKickType ==
  ASSUME HierTypeOK, HydroHalfKick
  PROVE  HierTypeOK'
<1> USE DEF HierTypeOK
<1>1. \A b \in Bins : Ti_kick[b] + Dti[b] \div 2 \in Int
  BY DtiType
<1>2. Ti_kick_hydro' \in [Part -> Int]
  BY <1>1 DEF HydroHalfKick
<1>3. pc' \in LadderPhases \cup Asserts
  BY DEF HydroHalfKick, LadderPhases, Asserts
<1>4. QED
  BY <1>2, <1>3
  DEF HydroHalfKick, clock, binTimes, pmTimes, kinds, partBins, hierVars, rungVars

\* The velocity of a particle that is kicked is where the table says, before
\* and after, and the assertion holds.
LEMMA HydroHalfKickInv ==
  ASSUME HierTypeOK, Running, HydroHalfKick
  PROVE  Running' /\ pc' \in {"top_rung", "hydro_kicked"}
<1> USE DEF HierTypeOK, Running
<1> DEFINE t == Ti_Current
           kicked == {p \in Active : GasEnabled /\ HasHydro(p)}
           Old(b) == IF pc = "kick_end" THEN Before(b, t) ELSE Meet(b, t)
           New(b) == IF pc = "kick_end" THEN Meet(b, t) ELSE After(b, t)
<1>1. /\ pc \in {"kick_end", "kick_begin"}
      /\ Ti_kick_hydro' = [p \in Part |->
           IF p \in kicked
           THEN Ti_kick[TimeBinHydro[p]] + Half(TimeBinHydro[p])
           ELSE Ti_kick_hydro[p]]
      /\ pc' = IF \E p \in kicked : Ti_kick_hydro[p] # Ti_kick[TimeBinHydro[p]]
               THEN "had_hydro_kick_time"
               ELSE IF pc = "kick_end" THEN "top_rung" ELSE "hydro_kicked"
  BY DEF HydroHalfKick, Half
<1>2. /\ UNCHANGED <<Ti_Current, isPM, firstStep, Act, Ti_lastactivedrift,
                     Ti_kick, mintimebin, maxtimebin, PM_length, PM_start>>
      /\ UNCHANGED <<PM_kick, Live, Type, TimeBinHydro, TimeBinGravity,
                     Ti_kick_grav>>
      /\ UNCHANGED <<mingravtimebin, largest_active, ti, lastact, badstep>>
  BY DEF HydroHalfKick, clock, binTimes, pmTimes, kinds, partBins, hierVars,
    rungVars
<1>3. ASSUME NEW p \in Live, HasHydro(p)
      PROVE  /\ GasEnabled /\ TimeBinHydro[p] \in Bins
             /\ Ti_kick_hydro[p] = Old(TimeBinHydro[p])
             /\ p \in Act <=> IsActive(TimeBinHydro[p], t)
  BY <1>1, <1>3 DEF HydroInv, HydroKick
<1>4. ASSUME NEW p \in Live, HasHydro(p)
      PROVE  Ti_kick[TimeBinHydro[p]] = Old(TimeBinHydro[p])
  <2> DEFINE h == TimeBinHydro[p]
  <2>1. CASE Unset
    <3>1. pc = "kick_end" /\ HydroUnset
      BY <1>1, <2>1 DEF Unset, HydroUnset, ClosingPhases
    <3>2. h = 0
      BY <1>4, <3>1 DEF HydroInv
    <3>3. Ti_kick[0] = t
      BY <2>1, <3>1, BinZero DEF UnsetInv, MeetingPhases
    <3>4. QED
      BY <3>1, <3>2, <3>3, BinZero
  <2>2. CASE ~Unset
    <3>1. ~HydroUnset
      BY <1>1, <2>2 DEF Unset, HydroUnset, ClosingPhases
    <3>2. 1 <= h /\ mintimebin <= h
      BY <1>1, <1>4, <2>2, <3>1 DEF HydroInv, MinInv
    <3>3. h \in 1..TIMEBINS
      BY <1>3, <1>4, <3>2, ShortestUp
    <3>4. h >= mintimebin
      BY <1>3, <1>4, <3>2, BinsOrder
    <3> HIDE DEF h
    <3>5. pc = "kick_end" => Ti_kick[h] = Before(h, t)
      <4>1. SUFFICES ASSUME pc = "kick_end" PROVE Ti_kick[h] = Before(h, t)
        OBVIOUS
      <4>2. \A b \in 1..TIMEBINS : b >= mintimebin => Ti_kick[b] = Before(b, t)
        BY <2>2, <4>1 DEF TableInv, ClosingPhases
      <4>3. QED
        BY <3>3, <3>4, <4>2
    <3>6. pc = "kick_begin" => Ti_kick[h] = Meet(h, t)
      <4>1. SUFFICES ASSUME pc = "kick_begin" PROVE Ti_kick[h] = Meet(h, t)
        OBVIOUS
      <4>2. \A b \in 1..TIMEBINS : Ti_kick[b] = Meet(b, t)
        BY <4>1 DEF TableInv, MeetingPhases
      <4>3. QED
        BY <3>3, <4>2
    <3>7. Ti_kick[h] = Old(h)
      BY <1>1, <3>5, <3>6
    <3>8. QED
      BY <3>7 DEF h
  <2>3. QED
    BY <2>1, <2>2
<1>5. \A p \in kicked : Ti_kick_hydro[p] = Ti_kick[TimeBinHydro[p]]
  BY <1>3, <1>4 DEF Active
<1>6. pc' = IF pc = "kick_end" THEN "top_rung" ELSE "hydro_kicked"
  BY <1>1, <1>5
<1>7. ASSUME NEW p \in Live, HasHydro(p)
      PROVE  Ti_kick_hydro'[p] = New(TimeBinHydro[p])
  <2> DEFINE h == TimeBinHydro[p]
  <2>1. h \in Bins
    BY <1>3, <1>7
  <2>2. p \in Part /\ (p \in kicked <=> IsActive(h, t))
    BY <1>3, <1>7 DEF Active
  <2>3. Ti_kick_hydro'[p] = IF IsActive(h, t) THEN Old(h) + Half(h) ELSE Old(h)
    BY <1>1, <1>3, <1>4, <1>7, <2>2
  <2> HIDE DEF h
  <2>4. Ti_kick_hydro'[p] = New(h)
    BY <2>1, <2>3, HalfKicks
  <2>5. QED
    BY <2>4 DEF h
<1>8. \A p \in Part : HasHydro(p)' <=> HasHydro(p)
  BY <1>2 DEF HasHydro
<1> HIDE DEF kicked
<1>9. (Unset' <=> Unset) /\ (HydroUnset' <=> HydroUnset)
  BY <1>1, <1>2, <1>6 DEF Unset, HydroUnset, ClosingPhases
<1>10. /\ pc' \in ClosingPhases <=> pc \in ClosingPhases
       /\ pc' \in MeetingPhases <=> pc \in MeetingPhases
       /\ pc' \notin {"physics", "timesteps", "rungs", "new_rungs", "hydro", "advance"}
       /\ pc \notin {"physics", "timesteps", "rungs", "new_rungs", "hydro", "advance"}
  BY <1>1, <1>6 DEF ClosingPhases, MeetingPhases
<1>11. UnsetInv'
  BY <1>2, <1>9, <1>10 DEF UnsetInv
<1>12. TableInv'
  BY <1>2, <1>9, <1>10 DEF TableInv
<1>13. MinInv'
  BY <1>2, <1>8, <1>9, <1>10 DEF MinInv
<1>14. PMInv'
  <2>1. PMEnd' = PMEnd /\ (PMPlaced' <=> PMPlaced)
    BY <1>2 DEF PMEnd, PMPlaced
  <2>2. pc' \in ClosingPhases \cup {"physics", "timesteps"} <=>
          pc \in ClosingPhases \cup {"physics", "timesteps"}
    BY <1>10
  <2>3. pc' \in MeetingPhases \ {"physics", "timesteps"} <=>
          pc \in MeetingPhases \ {"physics", "timesteps"}
    BY <1>10
  <2>4. QED
    BY <1>2, <1>9, <1>10, <2>1, <2>2, <2>3 DEF PMInv
<1>15. GravityInv'
  <2>1. CASE pc = "kick_end"
    <3>1. \A p \in Live : Ti_kick_grav[p] = Before(TimeBinGravity[p], t)
      BY <2>1 DEF GravityInv, GravityKick
    <3>2. pc' = "top_rung"
      BY <1>6, <2>1
    <3>3. QED
      BY <1>2, <1>9, <2>1, <3>1, <3>2 DEF GravityInv, GravityKick
  <2>2. CASE pc = "kick_begin"
    <3>1. \A p \in Live : Ti_kick_grav[p] = After(TimeBinGravity[p], t)
      BY <2>2 DEF GravityInv, GravityKick
    <3>2. pc' = "hydro_kicked"
      BY <1>6, <2>2
    <3>3. QED
      BY <1>2, <1>9, <2>2, <3>1, <3>2 DEF GravityInv, GravityKick
  <2>3. QED
    BY <1>1, <2>1, <2>2
<1>16. HydroInv'
  BY <1>1, <1>2, <1>6, <1>7, <1>8, <1>9 DEF HydroInv, HydroKick
<1>17. DriftInv'
  BY <1>2, <1>8, <1>10 DEF DriftInv
<1>18. RungInv'
  BY <1>10 DEF RungInv
<1>19. ActListInv'
  <2>1. pc' \in ClosingPhases => pc \in ClosingPhases
    BY <1>10
  <2>2. QED
    BY <1>2, <1>9, <1>10, <2>1, ActListKept
<1>20. QED
  BY <1>6, <1>11, <1>12, <1>13, <1>14, <1>15, <1>16, <1>17, <1>18, <1>19

----------------------------------------------------------------------------
(* The closing ladder.                                                     *)

\* On a PM step a step of every particle ends.
LEMMA PMAllActive ==
  ASSUME PMEndsOnGrid, HierTypeOK, Running, isPM,
         pc \in ClosingPhases \cup {"physics", "timesteps"},
         NEW p \in Live
  PROVE  IsActive(TimeBinGravity[p], Ti_Current) /\ p \in Act
<1> USE DEF HierTypeOK, Running
<1>1. IsActive(TimeBinGravity[p], Ti_Current)
  <2>1. CASE Unset
    BY <2>1, BinZero DEF UnsetInv
  <2>2. CASE ~Unset
    <3>1. PMPlaced /\ PM_start \in Nat /\ Ti_Current = PMEnd
      BY <2>2 DEF PMInv
    <3>2. /\ 2 <= TimeBinGravity[p]
          /\ Dti[TimeBinGravity[p]] <= PM_length
          /\ TimeBinGravity[p] \in Bins
      BY <2>2 DEF GravityInv
    <3>3. TimeBinGravity[p] \in 1..TIMEBINS
      BY <3>2, ShortestUp
    <3>4. QED
      BY <3>1, <3>2, <3>3, PMStepEnd
  <2>3. QED
    BY <2>1, <2>2
<1>2. pc # "advance"
  BY DEF ClosingPhases
<1>3. QED
  BY <1>1, <1>2 DEF GravityInv

\* The list of the top rung: the particles whose gravity step ends now.
LEMMA TopListActive ==
  ASSUME PMEndsOnGrid, HierTypeOK, Running,
         pc \in ClosingPhases \cup {"physics", "timesteps"},
         NEW top \in Bins,
         \A p \in Live : IsActive(TimeBinGravity[p], Ti_Current) =>
           TimeBinGravity[p] <= top
  PROVE  /\ TopList(top) \subseteq Active
         /\ \A p \in Live :
              p \in TopList(top) <=> IsActive(TimeBinGravity[p], Ti_Current)
<1>1. pc # "advance"
  BY DEF ClosingPhases
<1>2. ASSUME NEW p \in Live, IsActive(TimeBinGravity[p], Ti_Current)
      PROVE  p \in Active /\ TimeBinGravity[p] <= top
  BY <1>1, <1>2 DEF Running, GravityInv, Active
<1>3. CASE AllGravityActive
  <2>1. TopList(top) = Active
    BY <1>3 DEF TopList
  <2>2. ASSUME NEW p \in Active PROVE IsActive(TimeBinGravity[p], Ti_Current)
    BY <1>3, PMAllActive DEF AllGravityActive, Active
  <2>3. QED
    BY <1>2, <2>1, <2>2
<1>4. CASE ~AllGravityActive
  <2>1. TopList(top) = {p \in Active :
                          /\ TimeBinGravity[p] <= top
                          /\ IsActive(TimeBinGravity[p], Ti_Current)}
    BY <1>4 DEF TopList, Sublist
  <2>2. QED
    BY <1>2, <2>1
<1>5. QED
  BY <1>3, <1>4

\* Nobody ends a gravity step if the ladder is skipped.
LEMMA SkippedLadder ==
  ASSUME HierTypeOK, Running, pc # "advance", ~SomeGravityActive, NEW p \in Live
  PROVE  ~IsActive(TimeBinGravity[p], Ti_Current)
  BY DEF Running, GravityInv, SomeGravityActive

\* The kick of a rung, with the half step above taken back.
LEMMA RungKickType ==
  ASSUME NEW r \in Bins, NEW top \in Bins
  PROVE  /\ RungKick(r, top) \in Int
         /\ r < top => r + 1 \in Bins /\ RungKick(r, top) = Half(r) - Half(r + 1)
         /\ RungKick(top, top) = Half(top)
<1>1. TIMEBINS \in Nat /\ r \in Int /\ top \in Int
  BY TimelineAssumption DEF Bins
<1>2. r < top => r + 1 \in Bins
  BY <1>1 DEF Bins
<1>3. Half(r) \in Nat /\ Half(top) \in Nat /\ (r < top => Half(r + 1) \in Nat)
  BY <1>2, HalfType
<1>4. RungKick(r, top) = Half(r) - (IF r < top THEN Half(r + 1) ELSE 0)
  BY DEF RungKick, Half
<1>5. RungKick(top, top) = Half(top)
  <2>1. ~(top < top)
    BY <1>1
  <2>2. RungKick(top, top) = Half(top) - 0
    BY <2>1 DEF RungKick, Half
  <2>3. QED
    BY <1>3, <2>2
<1>6. QED
  BY <1>2, <1>3, <1>4, <1>5

\* The top rung keeps the types.
LEMMA TopRungType ==
  ASSUME HierTypeOK, PM_length \in Nat, TopRung
  PROVE  HierTypeOK'
<1> USE DEF HierTypeOK
<1>1. pc' \in LadderPhases \cup Asserts
  BY DEF TopRung, LadderPhases, Asserts
<1>2. CASE SomeGravityActive
  <2> DEFINE top == LargestActive(PM_length)
  <2>1. top \in Bins
    BY LargestActiveBin
  <2>2. /\ largest_active' = top /\ ti' = top - 1 /\ lastact' = TopList(top)
        /\ KickRung(TopList(top), top, top)
    BY <1>2 DEF TopRung
  <2> HIDE DEF top
  <2>3. RungKick(top, top) \in Int
    BY <2>1, RungKickType
  <2>4. Ti_kick_grav' \in [Part -> Int]
    BY <2>2, <2>3 DEF KickRung
  <2>5. lastact' \subseteq Part
    BY <2>2 DEF TopList, Sublist, Active
  <2>6. ti' \in -1..TIMEBINS
    BY <2>1, <2>2, TimelineAssumption DEF Bins
  <2>7. QED
    BY <1>1, <2>1, <2>2, <2>4, <2>5, <2>6
    DEF TopRung, clock, binTimes, pmTimes, kinds, partBins
<1>3. CASE ~SomeGravityActive
  BY <1>1, <1>3
  DEF TopRung, clock, binTimes, pmTimes, kinds, partBins, rungVars
<1>4. QED
  BY <1>2, <1>3

\* A step of bin 1 fits into the long-range step, and one ends now.
LEMMA ShortestFits ==
  ASSUME HierTypeOK, Running
  PROVE  /\ PM_length \in Nat
         /\ ~Unset => Dti[1] <= PM_length
         /\ ~Unset /\ pc # "new_rungs" => IsActive(1, Ti_Current)
<1> USE DEF HierTypeOK, Running
<1>1. CASE Unset
  BY <1>1 DEF UnsetInv
<1>2. CASE ~Unset
  <2>1. PM_length \in Nat /\ Dti[1] <= PM_length
    BY <1>2, BinOne DEF PMInv, PMPlaced
  <2>2. pc # "new_rungs" => 1 <= mintimebin /\ IsActive(mintimebin, Ti_Current)
    BY <1>2 DEF MinInv
  <2>3. 1 <= mintimebin => mintimebin \in 1..TIMEBINS
    BY ShortestUp
  <2>4. pc # "new_rungs" => IsActive(1, Ti_Current)
    BY <2>2, <2>3, BinOne, ActiveDown
  <2>5. QED
    BY <2>1, <2>4
<1>3. QED
  BY <1>1, <1>2

\* Before any bins are given out the ladder has no extent.
LEMMA TopRungUnset ==
  ASSUME HierTypeOK, Running, Unset, TopRung
  PROVE  Running' /\ pc' = "rungs"
<1> USE DEF HierTypeOK, Running
<1> DEFINE t == Ti_Current
<1>1. pc = "top_rung" /\ firstStep
  BY DEF TopRung, Unset
<1>2. /\ mintimebin = 0 /\ maxtimebin = 0 /\ mingravtimebin = 0
      /\ PM_length = 0 /\ PM_start = t /\ PM_kick = t /\ Aligned(t) /\ isPM
      /\ \A b \in Bins : Ti_kick[b] = t
      /\ \A p \in Part : TimeBinGravity[p] = 0
  BY <1>1 DEF UnsetInv, MeetingPhases
<1>3. LargestActive(PM_length) = 0 /\ SomeGravityActive
  BY <1>2, LargestActiveNone DEF SomeGravityActive
<1>4. /\ 0 \in Bins /\ Half(0) = 0 /\ IsActive(0, t)
      /\ Before(0, t) = t /\ Meet(0, t) = t
  BY BinZero
<1>5. TopList(0) \subseteq Active
  BY DEF TopList, Sublist
<1>6. \A p \in Live : Ti_kick_grav[p] = t
  BY <1>1, <1>2, <1>4 DEF GravityInv, GravityKick
<1>7. TopKickTimesMatch(TopList(0), TimeBinGravity)
  BY <1>2, <1>4, <1>5, <1>6 DEF TopKickTimesMatch, Active
<1>8. /\ pc' = "rungs" /\ largest_active' = 0 /\ ti' = -1
      /\ KickRung(TopList(0), 0, 0)
  BY <1>3, <1>7 DEF TopRung
<1>9. RungKick(0, 0) = 0
  BY <1>4, RungKickType
<1>10. \A p \in Live : Ti_kick_grav'[p] = t
  BY <1>6, <1>8, <1>9 DEF KickRung
<1>11. /\ UNCHANGED <<Ti_Current, isPM, firstStep, Act, Ti_lastactivedrift,
                      Ti_kick, mintimebin, maxtimebin, PM_length, PM_start>>
       /\ UNCHANGED <<PM_kick, Live, Type, TimeBinHydro, TimeBinGravity,
                      Ti_kick_hydro, mingravtimebin, badstep>>
  BY DEF TopRung, clock, binTimes, pmTimes, kinds, partBins
<1>12. Unset' /\ HydroUnset' /\ HydroUnset
  BY <1>1, <1>8, <1>11 DEF Unset, HydroUnset, ClosingPhases
<1>13. UnsetInv'
  BY <1>2, <1>8, <1>11 DEF UnsetInv
<1>14. TableInv' /\ MinInv' /\ PMInv' /\ RungInv' /\ ActListInv'
  BY <1>8, <1>11, <1>12
  DEF TableInv, MinInv, PMInv, RungInv, ActListInv, MeetingPhases
<1>15. GravityInv'
  <2>1. ti' + 1 = 0
    BY <1>8
  <2>2. Before(0, t) + Rise(0, 0, t) = t
    BY <1>4, RiseType
  <2>3. ASSUME NEW p \in Live
        PROVE  /\ TimeBinGravity'[p] = 0 /\ p \in Act
               /\ Ti_kick_grav'[p] = Before(0, t) + Rise(0, ti' + 1, t)
    BY <1>1, <1>2, <1>4, <1>10, <1>11, <2>1, <2>2 DEF GravityInv
  <2>4. QED
    BY <1>8, <1>11, <1>12, <2>3 DEF GravityInv, GravityKick
<1>16. HydroInv'
  BY <1>1, <1>8, <1>11, <1>12 DEF HydroInv, HydroKick, HasHydro
<1>17. DriftInv'
  BY <1>1, <1>8, <1>11 DEF DriftInv, HasHydro
<1>18. QED
  BY <1>8, <1>13, <1>14, <1>15, <1>16, <1>17

\* Otherwise the particles whose step ends now are kicked half a step of
\* the longest such bin.
LEMMA TopRungSet ==
  ASSUME PMEndsOnGrid, HierTypeOK, Running, ~Unset, TopRung
  PROVE  Running' /\ pc' \in {"rungs", "kicked"}
<1> USE DEF HierTypeOK, Running
<1> DEFINE t == Ti_Current
           top == LargestActive(PM_length)
<1>1. pc = "top_rung" /\ ~firstStep
  BY DEF TopRung, Unset, ClosingPhases
<1>2. /\ UNCHANGED <<Ti_Current, isPM, firstStep, Act, Ti_lastactivedrift,
                     Ti_kick, mintimebin, maxtimebin, PM_length, PM_start>>
      /\ UNCHANGED <<PM_kick, Live, Type, TimeBinHydro, TimeBinGravity,
                     Ti_kick_hydro, mingravtimebin, badstep>>
  BY DEF TopRung, clock, binTimes, pmTimes, kinds, partBins
<1>3. ASSUME NEW p \in Live
      PROVE  /\ TimeBinGravity[p] \in 1..TIMEBINS /\ TimeBinGravity[p] \in Bins
             /\ Dti[TimeBinGravity[p]] <= PM_length
             /\ mintimebin <= TimeBinGravity[p]
             /\ Ti_kick_grav[p] = Before(TimeBinGravity[p], t)
             /\ p \in Part
  <2>1. /\ 2 <= TimeBinGravity[p] /\ Dti[TimeBinGravity[p]] <= PM_length
        /\ Ti_kick_grav[p] = Before(TimeBinGravity[p], t)
    BY <1>1 DEF GravityInv, GravityKick
  <2>2. mintimebin <= mingravtimebin /\ mingravtimebin <= TimeBinGravity[p]
    BY <1>1 DEF MinInv
  <2>3. TimeBinGravity[p] \in Bins /\ mintimebin \in Bins /\ mingravtimebin \in Bins
    OBVIOUS
  <2>4. TimeBinGravity[p] \in 1..TIMEBINS
    BY <2>1, <2>3, ShortestUp
  <2>5. mintimebin <= TimeBinGravity[p]
    BY <2>2, <2>3, BinsTrans
  <2>6. QED
    BY <2>1, <2>3, <2>4, <2>5
<1>4. /\ top \in Bins /\ 1 <= top
      /\ \A b \in Bins : IsActive(b, t) /\ Dti[b] <= PM_length => b <= top
  BY <1>1, BinOne, ShortestFits, LargestActiveBin
<1> HIDE DEF top
<1>5. CASE SomeGravityActive
  <2> DEFINE list == TopList(top)
  <2>1. \A p \in Live : IsActive(TimeBinGravity[p], t) => TimeBinGravity[p] <= top
    BY <1>3, <1>4
  <2>2. list \subseteq Active /\ \A p \in Live : p \in list <=> IsActive(TimeBinGravity[p], t)
    BY <1>1, <1>4, <2>1, TopListActive DEF ClosingPhases
  <2> HIDE DEF list
  <2>3. TopKickTimesMatch(list, TimeBinGravity)
    <3>1. ASSUME NEW p \in list
          PROVE  Ti_kick_grav[p] = Ti_kick[TimeBinGravity[p]]
      <4>1. p \in Live
        BY <2>2 DEF Active
      <4>2. \A b \in 1..TIMEBINS : b >= mintimebin => Ti_kick[b] = Before(b, t)
        BY <1>1 DEF TableInv, ClosingPhases
      <4>3. QED
        BY <1>3, <4>1, <4>2
    <3>2. QED
      BY <3>1 DEF TopKickTimesMatch
  <2>4. /\ pc' = "rungs" /\ largest_active' = top /\ ti' = top - 1
        /\ lastact' = list /\ KickRung(list, top, top)
    BY <1>5, <2>3 DEF TopRung, top, list
  <2>5. ~Unset' /\ ~HydroUnset' /\ ~HydroUnset
    BY <1>1, <1>2 DEF Unset, HydroUnset
  <2>6. top \in Int /\ ti' \in Int /\ ti' + 1 = top /\ 0 <= ti' /\ ti' < top
    BY <1>4, <2>4, BinOne DEF Bins
  <2>7. ASSUME NEW p \in Live
        PROVE  Ti_kick_grav'[p] = Before(TimeBinGravity[p], t)
                                    + Rise(TimeBinGravity[p], top, t)
    <3> DEFINE g == TimeBinGravity[p]
    <3>1. g \in Bins /\ Ti_kick_grav[p] = Before(g, t) /\ p \in Part
      BY <1>3
    <3>2. RungKick(top, top) = Half(top)
      BY <1>4, RungKickType
    <3>3. IsActive(g, t) => Rise(g, top, t) = Half(top)
      <4>1. IsActive(g, t) => ~(g > top)
        BY <1>4, <2>1, <3>1, BinsOrder
      <4>2. QED
        BY <4>1 DEF Rise
    <3>4. ~IsActive(g, t) => Rise(g, top, t) = 0
      BY DEF Rise
    <3>5. Ti_kick_grav'[p] = IF IsActive(g, t) THEN Before(g, t) + Half(top)
                                               ELSE Before(g, t)
      BY <2>2, <2>4, <3>1, <3>2 DEF KickRung
    <3>6. Before(g, t) \in Int
      BY <3>1, KickTypes
    <3> HIDE DEF g
    <3>7. Ti_kick_grav'[p] = Before(g, t) + Rise(g, top, t)
      BY <3>3, <3>4, <3>5, <3>6
    <3>8. QED
      BY <3>7 DEF g
  <2>8. UnsetInv' /\ HydroInv' /\ DriftInv'
    BY <1>1, <1>2, <2>4, <2>5 DEF UnsetInv, HydroInv, HydroKick, DriftInv, HasHydro
  <2>9. TableInv' /\ MinInv'
    BY <1>1, <1>2, <2>4, <2>5
    DEF TableInv, MinInv, ClosingPhases, MeetingPhases, HasHydro
  <2>10. PMInv'
    BY <1>1, <1>2, <2>4, <2>5 DEF PMInv, PMEnd, PMPlaced, ClosingPhases, MeetingPhases
  <2>11. GravityInv'
    <3>1. ASSUME NEW p \in Live
          PROVE  /\ 2 <= TimeBinGravity[p]
                 /\ IsActive(TimeBinGravity[p], t) => p \in Act
      BY <1>1 DEF GravityInv
    <3>2. QED
      BY <1>2, <1>3, <2>4, <2>5, <2>6, <2>7, <3>1 DEF GravityInv, GravityKick
  <2>12. RungInv'
    <3>1. \A p \in Live : p \in lastact' <=>
            IsActive(TimeBinGravity[p], t) /\ TimeBinGravity[p] <= ti' + 1
      BY <2>1, <2>2, <2>4, <2>6
    <3>2. QED
      BY <1>2, <2>4, <2>6, <3>1 DEF RungInv
  <2>13. ActListInv'
    BY <1>1, <1>2, <2>5, ActListKept DEF Unset, ClosingPhases
  <2>14. QED
    BY <2>4, <2>8, <2>9, <2>10, <2>11, <2>12, <2>13
<1>6. CASE ~SomeGravityActive
  <2>1. pc' = "kicked" /\ UNCHANGED <<largest_active, ti, lastact, Ti_kick_grav>>
    BY <1>6 DEF TopRung, rungVars
  <2>2. ~Unset' /\ ~HydroUnset' /\ ~HydroUnset
    BY <1>1, <1>2 DEF Unset, HydroUnset
  <2>3. \A p \in Live : Ti_kick_grav[p] = Meet(TimeBinGravity[p], t)
    BY <1>1, <1>3, <1>6, SkippedLadder, HalfKicks
  <2>4. UnsetInv' /\ HydroInv' /\ DriftInv' /\ RungInv'
    BY <1>1, <1>2, <2>1, <2>2
    DEF UnsetInv, HydroInv, HydroKick, DriftInv, RungInv, HasHydro
  <2>5. TableInv' /\ MinInv'
    BY <1>1, <1>2, <2>1, <2>2
    DEF TableInv, MinInv, ClosingPhases, MeetingPhases, HasHydro
  <2>6. PMInv'
    BY <1>1, <1>2, <2>1, <2>2 DEF PMInv, PMEnd, PMPlaced, ClosingPhases, MeetingPhases
  <2>7. GravityInv'
    <3>1. ASSUME NEW p \in Live
          PROVE  /\ 2 <= TimeBinGravity[p]
                 /\ IsActive(TimeBinGravity[p], t) => p \in Act
      BY <1>1 DEF GravityInv
    <3>2. QED
      BY <1>2, <1>3, <2>1, <2>2, <2>3, <3>1 DEF GravityInv, GravityKick
  <2>8. ActListInv'
    BY <1>1, <1>2, <2>2, ActListKept DEF Unset, ClosingPhases
  <2>9. QED
    BY <2>1, <2>4, <2>5, <2>6, <2>7, <2>8
<1>7. QED
  BY <1>5, <1>6

\* A rung keeps the types.
LEMMA RungType ==
  ASSUME HierTypeOK, Rung
  PROVE  HierTypeOK'
<1> USE DEF HierTypeOK
<1>1. pc' \in LadderPhases
  BY DEF Rung, LadderPhases
<1>2. CASE ti >= mingravtimebin
  <2>1. /\ ti' = ti - 1 /\ lastact' = Sublist(lastact, ti)
        /\ KickRung(lastact', ti, largest_active)
    BY <1>2 DEF Rung
  <2>2. ti \in Bins /\ ti' \in -1..TIMEBINS
    <3>1. TIMEBINS \in Nat /\ mingravtimebin \in Nat
      BY TimelineAssumption, BinsNat
    <3>2. QED
      BY <1>2, <2>1, <3>1 DEF Bins
  <2>3. RungKick(ti, largest_active) \in Int
    BY <2>2, RungKickType
  <2>4. Ti_kick_grav' \in [Part -> Int]
    BY <2>1, <2>3 DEF KickRung
  <2>5. lastact' \subseteq Part
    BY <2>1 DEF Sublist
  <2>6. QED
    BY <1>1, <2>2, <2>4, <2>5
    DEF Rung, clock, binTimes, pmTimes, kinds, partBins
<1>3. CASE ~(ti >= mingravtimebin)
  BY <1>1, <1>3
  DEF Rung, clock, binTimes, pmTimes, kinds, partBins
<1>4. QED
  BY <1>2, <1>3

\* A particle that is still on the ladder is kicked from the rung above to
\* this one, and the others have been left at their own.
LEMMA RungKicks ==
  ASSUME NEW g \in Bins, NEW r \in Nat, NEW top \in Bins, r < top,
         NEW t \in Nat, NEW x \in Int, NEW k \in Int,
         k = x + Rise(g, r + 1, t)
  PROVE  (IF IsActive(g, t) /\ g <= r THEN k + RungKick(r, top) ELSE k)
           = x + Rise(g, r, t)
<1>1. r \in Bins /\ r + 1 \in Bins /\ top \in Int
  <2>1. TIMEBINS \in Nat
    BY TimelineAssumption
  <2>2. QED
    BY <2>1 DEF Bins
<1>2. RungKick(r, top) = Half(r) - Half(r + 1)
  BY <1>1, RungKickType
<1>3. Half(r) \in Nat /\ Half(r + 1) \in Nat
  BY <1>1, HalfType
<1>4. Rise(g, r, t) \in Nat /\ Rise(g, r + 1, t) \in Nat
  BY <1>1, RiseType
<1>5. CASE IsActive(g, t)
  BY <1>1, <1>2, <1>3, <1>4, <1>5, RungDown
<1>6. CASE ~IsActive(g, t)
  BY <1>6 DEF Rise
<1>7. QED
  BY <1>5, <1>6

\* One rung of the closing ladder.
LEMMA RungInvDown ==
  ASSUME HierTypeOK, Running, Rung, ti >= mingravtimebin
  PROVE  Running' /\ pc' = "rungs"
<1> USE DEF HierTypeOK, Running
<1> DEFINE t == Ti_Current
<1>1. pc = "rungs" /\ pc' = "rungs"
  BY DEF Rung
<1>2. ~Unset /\ ~firstStep
  <2>1. ~Unset
    BY <1>1 DEF UnsetInv
  <2>2. QED
    BY <1>1, <2>1 DEF Unset, ClosingPhases
<1>3. /\ UNCHANGED <<Ti_Current, isPM, firstStep, Act, Ti_lastactivedrift,
                     Ti_kick, mintimebin, maxtimebin, PM_length, PM_start>>
      /\ UNCHANGED <<PM_kick, Live, Type, TimeBinHydro, TimeBinGravity,
                     Ti_kick_hydro, mingravtimebin, largest_active, badstep>>
  BY DEF Rung, clock, binTimes, pmTimes, kinds, partBins
<1>4. /\ ti' = ti - 1 /\ lastact' = Sublist(lastact, ti)
      /\ KickRung(lastact', ti, largest_active)
  BY DEF Rung
<1>5. ~Unset' /\ ~HydroUnset' /\ ~HydroUnset
  BY <1>2, <1>3 DEF Unset, HydroUnset
<1>6. /\ 0 <= ti /\ ti < largest_active
      /\ \A p \in Live : p \in lastact <=>
           IsActive(TimeBinGravity[p], t) /\ TimeBinGravity[p] <= ti + 1
  BY <1>1, <1>2 DEF RungInv
<1>7. ti \in Nat /\ ti \in Bins /\ ti' \in Int /\ ti' + 1 = ti /\ mingravtimebin \in Nat
      /\ ti' < largest_active
  BY <1>4, <1>6, BinsNat, TimelineAssumption DEF Bins
<1>8. 0 <= ti'
  <2>1. 1 <= mingravtimebin
    <3>1. 1 <= mintimebin /\ mintimebin <= mingravtimebin
      BY <1>1, <1>2 DEF MinInv
    <3>2. mintimebin \in Nat
      BY BinsNat
    <3>3. QED
      BY <1>7, <3>1, <3>2
  <2>2. QED
    BY <1>4, <1>7, <2>1
<1>9. ASSUME NEW p \in Live
      PROVE  /\ TimeBinGravity[p] \in Bins /\ 2 <= TimeBinGravity[p]
             /\ Dti[TimeBinGravity[p]] <= PM_length
             /\ Ti_kick_grav[p] = Before(TimeBinGravity[p], t)
                                    + Rise(TimeBinGravity[p], ti + 1, t)
             /\ IsActive(TimeBinGravity[p], t) => p \in Act
  BY <1>1, <1>2 DEF GravityInv, GravityKick
<1>10. ASSUME NEW p \in Live
       PROVE  p \in lastact' <=>
                IsActive(TimeBinGravity[p], t) /\ TimeBinGravity[p] <= ti
  <2>1. TimeBinGravity[p] <= ti => TimeBinGravity[p] <= ti + 1
    BY <1>7, <1>9, BinsStep
  <2>2. QED
    BY <1>4, <1>6, <2>1 DEF Sublist
<1>11. ASSUME NEW p \in Live
       PROVE  Ti_kick_grav'[p] = Before(TimeBinGravity[p], t)
                                   + Rise(TimeBinGravity[p], ti' + 1, t)
  <2> DEFINE g == TimeBinGravity[p]
             k == Ti_kick_grav[p]
  <2>1. Ti_kick_grav'[p] = IF IsActive(g, t) /\ g <= ti
                           THEN k + RungKick(ti, largest_active) ELSE k
    BY <1>4, <1>10 DEF KickRung
  <2>2. g \in Bins /\ Before(g, t) \in Int /\ k \in Int
    BY <1>9, KickTypes
  <2>3. k = Before(g, t) + Rise(g, ti + 1, t)
    BY <1>9
  <2> HIDE DEF g, k
  <2>4. Ti_kick_grav'[p] = Before(g, t) + Rise(g, ti, t)
    BY <1>6, <1>7, <2>1, <2>2, <2>3, RungKicks
  <2>5. Ti_kick_grav'[p] = Before(g, t) + Rise(g, ti' + 1, t)
    BY <1>7, <2>4
  <2>6. QED
    BY <2>5 DEF g
<1>12. UnsetInv' /\ HydroInv' /\ DriftInv'
  BY <1>1, <1>2, <1>3, <1>5 DEF UnsetInv, HydroInv, HydroKick, DriftInv, HasHydro
<1>13. TableInv' /\ MinInv'
  BY <1>1, <1>2, <1>3, <1>5 DEF TableInv, MinInv, HasHydro
<1>14. PMInv'
  BY <1>1, <1>2, <1>3, <1>5 DEF PMInv, PMEnd, PMPlaced
<1>15. GravityInv'
  BY <1>1, <1>3, <1>5, <1>9, <1>11 DEF GravityInv, GravityKick
<1>16. RungInv'
  <2>1. \A p \in Live : p \in lastact' <=>
          IsActive(TimeBinGravity[p], t) /\ TimeBinGravity[p] <= ti' + 1
    BY <1>7, <1>10
  <2>2. QED
    BY <1>1, <1>3, <1>7, <1>8, <2>1 DEF RungInv
<1>17. ActListInv'
  BY <1>1, <1>2, <1>3, ActListKept DEF ClosingPhases
<1>18. QED
  BY <1>1, <1>12, <1>13, <1>14, <1>15, <1>16, <1>17

\* Where the ladder ends it has been down to the bin of every particle.
LEMMA RungInvDone ==
  ASSUME HierTypeOK, Running, Rung, ~(ti >= mingravtimebin)
  PROVE  Running' /\ pc' = "kicked"
<1> USE DEF HierTypeOK, Running
<1> DEFINE t == Ti_Current
<1>1. pc = "rungs" /\ pc' = "kicked"
  BY DEF Rung
<1>2. /\ UNCHANGED <<Ti_Current, isPM, firstStep, Act, Ti_lastactivedrift,
                     Ti_kick, mintimebin, maxtimebin, PM_length, PM_start>>
      /\ UNCHANGED <<PM_kick, Live, Type, TimeBinHydro, TimeBinGravity,
                     Ti_kick_hydro, mingravtimebin, largest_active, badstep>>
      /\ UNCHANGED <<ti, lastact, Ti_kick_grav>>
  BY DEF Rung, clock, binTimes, pmTimes, kinds, partBins
<1>3. (Unset' <=> Unset) /\ (HydroUnset' <=> HydroUnset)
  BY <1>1, <1>2 DEF Unset, HydroUnset, ClosingPhases
<1>4. ti + 1 \in Bins /\ mingravtimebin \in Nat /\ ti + 1 <= mingravtimebin
  <2>1. mingravtimebin \in Nat /\ TIMEBINS \in Nat /\ ti \in -1..TIMEBINS
        /\ mingravtimebin <= TIMEBINS
    BY BinsNat, TimelineAssumption DEF Bins
  <2>2. QED
    BY <2>1 DEF Bins
<1>5. ASSUME NEW p \in Live
      PROVE  Ti_kick_grav[p] = Meet(TimeBinGravity[p], t)
  <2> DEFINE g == TimeBinGravity[p]
  <2>1. g \in Bins /\ Ti_kick_grav[p] = Before(g, t) + Rise(g, ti + 1, t)
    BY <1>1 DEF GravityInv, GravityKick
  <2>2. mingravtimebin <= g
    <3>1. CASE Unset
      BY <1>1, <3>1 DEF UnsetInv
    <3>2. CASE ~Unset
      BY <1>1, <3>2 DEF MinInv
    <3>3. QED
      BY <3>1, <3>2
  <2>3. ti + 1 <= g
    BY <1>4, <2>1, <2>2, BinsTrans
  <2> HIDE DEF g
  <2>4. Ti_kick_grav[p] = Meet(g, t)
    BY <1>4, <2>1, <2>3, RiseType
  <2>5. QED
    BY <2>4 DEF g
<1>6. UnsetInv' /\ HydroInv' /\ DriftInv'
  BY <1>1, <1>2, <1>3
  DEF UnsetInv, HydroInv, HydroKick, DriftInv, HasHydro, MeetingPhases
<1>7. TableInv' /\ MinInv'
  BY <1>1, <1>2, <1>3 DEF TableInv, MinInv, HasHydro, ClosingPhases, MeetingPhases
<1>8. PMInv'
  BY <1>1, <1>2, <1>3 DEF PMInv, PMEnd, PMPlaced, ClosingPhases, MeetingPhases
<1>9. GravityInv'
  <2>1. ASSUME NEW p \in Live
        PROVE  /\ ~Unset => /\ 2 <= TimeBinGravity[p]
                            /\ Dti[TimeBinGravity[p]] <= PM_length
               /\ IsActive(TimeBinGravity[p], t) => p \in Act
    BY <1>1 DEF GravityInv
  <2>2. QED
    BY <1>1, <1>2, <1>3, <1>5, <2>1 DEF GravityInv, GravityKick
<1>10. RungInv' /\ ActListInv'
  BY <1>1, <1>2, <1>3, ActListKept DEF RungInv, ClosingPhases
<1>11. QED
  BY <1>1, <1>6, <1>7, <1>8, <1>9, <1>10

----------------------------------------------------------------------------
(* The table of kick times and the long-range kick.                        *)

\* Moving the kick times keeps the types.
LEMMA MoveKickTimesType ==
  ASSUME HierTypeOK, MoveKickTimes
  PROVE  HierTypeOK'
<1> USE DEF HierTypeOK
<1>1. \A b \in Bins : Ti_kick[b] \in Nat /\ Dti[b] \div 2 \in Nat
  BY DtiType
<1>2. \A b \in Bins : UpdatedKick(b) \in Nat
  BY <1>1 DEF UpdatedKick
<1>3. Ti_kick' \in [Bins -> Nat]
  BY <1>2 DEF MoveKickTimes, UpdateKickTimes
<1>4. PM_length \div 2 \in Int
  OBVIOUS
<1>5. PM_kick' \in Int /\ PM_length' \in Int /\ PM_start' \in Int
  BY <1>4 DEF MoveKickTimes, PMHalfKick
<1>6. firstStep' \in BOOLEAN /\ pc' \in Phases
  BY DEF MoveKickTimes, Phases
<1>7. QED
  BY <1>3, <1>5, <1>6
  DEF MoveKickTimes, kinds, partBins, kicks, hierVars, rungVars

\* The closing kick takes the kick time of each bin to where its particles
\* are, the opening kick half a step beyond; bins below the shortest one are
\* carried along with it.
LEMMA TableMoves ==
  ASSUME HierTypeOK, Running, ~Unset, pc \in {"kicked", "hydro_kicked"},
         NEW b \in 1..TIMEBINS
  PROVE  UpdatedKick(b) =
           IF pc = "kicked" THEN Meet(b, Ti_Current)
           ELSE IF b >= mintimebin THEN After(b, Ti_Current)
                ELSE Ti_Current + Half(mintimebin)
<1> USE DEF HierTypeOK, Running
<1> DEFINE t == Ti_Current
           m == mintimebin
<1>1. /\ m \in 1..TIMEBINS /\ m \in Bins /\ IsActive(m, t) /\ b \in Bins /\ m # 0
      /\ b >= 1
  <2>1. 1 <= m /\ IsActive(m, t) /\ m \in Bins
    BY DEF MinInv
  <2>2. m \in 1..TIMEBINS
    BY <2>1, ShortestUp
  <2>3. QED
    BY <2>1, <2>2, BinsUp
<1>2. Half(m) \in Nat /\ Half(b) \in Nat
  BY <1>1, HalfType
<1>3. UpdatedKick(b) = IF b >= m THEN IF IsActive(b, t) THEN Ti_kick[b] + Half(b)
                                                        ELSE Ti_kick[b]
                       ELSE Ti_kick[b] + Half(m)
  BY <1>1 DEF UpdatedKick, Half
<1>4. ~(b >= m) => IsActive(b, t)
  <2>1. b >= m \/ b <= m
    BY <1>1, BinsOrder
  <2>2. QED
    BY <1>1, <2>1, ActiveDown
<1>5. CASE pc = "kicked"
  <2>1. Ti_kick[b] = IF b >= m THEN Before(b, t) ELSE t - Half(m)
    BY <1>5 DEF TableInv, ClosingPhases
  <2> HIDE DEF m
  <2>2. CASE b >= m
    BY <1>1, <1>3, <1>5, <2>1, <2>2, HalfKicks
  <2>3. CASE ~(b >= m)
    <3>1. Meet(b, t) = t
      BY <1>1, <1>4, <2>3, HalfKicks
    <3>2. UpdatedKick(b) = (t - Half(m)) + Half(m)
      BY <1>3, <2>1, <2>3
    <3>3. (t - Half(m)) + Half(m) = t
      BY <1>2
    <3>4. QED
      BY <1>5, <3>1, <3>2, <3>3
  <2>4. QED
    BY <2>2, <2>3
<1>6. CASE pc = "hydro_kicked"
  <2>1. Ti_kick[b] = Meet(b, t)
    BY <1>6 DEF TableInv, MeetingPhases
  <2> HIDE DEF m
  <2>2. CASE b >= m
    BY <1>1, <1>3, <1>6, <2>1, <2>2, HalfKicks DEF m
  <2>3. CASE ~(b >= m)
    <3>1. Meet(b, t) = t
      BY <1>1, <1>4, <2>3, HalfKicks
    <3>2. QED
      BY <1>3, <1>6, <2>1, <2>3, <3>1 DEF m
  <2>4. QED
    BY <2>2, <2>3
<1>7. QED
  BY <1>5, <1>6

\* The long-range kick goes to the end of the long-range step, and to its
\* middle from where the next one started.
LEMMA PMMoves ==
  ASSUME HierTypeOK, Running, ~Unset, pc \in {"kicked", "hydro_kicked"},
         PMHalfKick
  PROVE  PM_kick' = IF isPM /\ pc = "kicked" THEN Ti_Current
                    ELSE PM_start + PM_length \div 2
<1> USE DEF HierTypeOK, Running
<1>1. /\ PMPlaced /\ PM_start \in Nat
      /\ pc = "kicked" /\ isPM => Ti_Current = PMEnd
      /\ pc = "hydro_kicked" /\ isPM => PM_start = Ti_Current
      /\ PM_kick = IF isPM /\ pc = "hydro_kicked" THEN Ti_Current
                   ELSE PM_start + PM_length \div 2
  BY DEF PMInv, ClosingPhases, MeetingPhases
<1> DEFINE h == PM_length \div 2
<1>2. PM_length \in Nat /\ PM_length = h + h /\ h \in Int
  BY <1>1 DEF PMPlaced
<1>3. PM_kick' = IF isPM THEN PM_kick + h ELSE PM_kick
  BY DEF PMHalfKick
<1>4. PMEnd = PM_start + PM_length
  BY DEF PMEnd
<1> HIDE DEF h
<1>5. (PM_start + h) + h = PMEnd
  BY <1>1, <1>2, <1>4
<1>6. PM_kick' = IF isPM /\ pc = "kicked" THEN Ti_Current ELSE PM_start + h
  BY <1>1, <1>3, <1>5 DEF h
<1>7. QED
  BY <1>6 DEF h

\* The table meets the velocities after both kicks.
LEMMA MoveKickTimesInv ==
  ASSUME HierTypeOK, Running, MoveKickTimes
  PROVE  Running' /\ pc' \in {"physics", "advance"}
<1> USE DEF HierTypeOK, Running
<1> DEFINE t == Ti_Current
<1>1. /\ pc \in {"kicked", "hydro_kicked"} /\ PMHalfKick
      /\ pc' = IF pc = "kicked" THEN "physics" ELSE "advance"
      /\ firstStep' = (firstStep /\ pc = "kicked")
      /\ Ti_kick' = [b \in Bins |-> UpdatedKick(b)]
  BY DEF MoveKickTimes, UpdateKickTimes
<1>2. /\ UNCHANGED <<Ti_Current, isPM, Act, Ti_lastactivedrift,
                     mintimebin, maxtimebin, PM_length, PM_start>>
      /\ UNCHANGED <<Live, Type, TimeBinHydro, TimeBinGravity, Ti_kick_grav,
                     Ti_kick_hydro, mingravtimebin, largest_active, ti, lastact,
                     badstep>>
  BY DEF MoveKickTimes, PMHalfKick, kinds, partBins, kicks, hierVars, rungVars
<1>3. (Unset' <=> Unset) /\ (HydroUnset' <=> HydroUnset)
  BY <1>1 DEF Unset, HydroUnset, ClosingPhases
<1>4. \A p \in Part : HasHydro(p)' <=> HasHydro(p)
  BY <1>2 DEF HasHydro
<1>5. Unset => pc = "kicked"
  BY <1>1 DEF Unset, ClosingPhases
<1>6. UnsetInv'
  <2>1. SUFFICES ASSUME Unset PROVE UnsetInv'
    BY <1>3 DEF UnsetInv
  <2>2. PM_length = 0 /\ isPM /\ PM_kick = t
    BY <1>5, <2>1 DEF UnsetInv
  <2>3. 0 \div 2 = 0
    OBVIOUS
  <2>4. PM_kick' = t
    BY <1>1, <2>2, <2>3 DEF PMHalfKick
  <2>5. QED
    BY <1>1, <1>2, <1>5, <2>1, <2>4 DEF UnsetInv, MeetingPhases
<1>7. TableInv'
  <2>1. ASSUME Unset, NEW b \in 1..TIMEBINS PROVE Ti_kick'[b] = Meet(b, t)
    <3>1. /\ mintimebin = 0 /\ maxtimebin = 0 /\ Aligned(t) /\ b \in Bins
          /\ \A c \in Bins : Ti_kick[c] = t
      BY <1>5, <2>1, BinsUp DEF UnsetInv, MeetingPhases
    <3>2. Ti_kick'[b] = t
      BY <1>1, <3>1 DEF UpdatedKick
    <3>3. QED
      BY <3>1, <3>2, AlignedMeets
  <2>2. ASSUME ~Unset, NEW b \in 1..TIMEBINS
        PROVE  Ti_kick'[b] = IF pc = "kicked" THEN Meet(b, t)
                             ELSE IF b >= mintimebin THEN After(b, t)
                                  ELSE t + Half(mintimebin)
    BY <1>1, <2>2, TableMoves, BinsUp
  <2>3. QED
    BY <1>1, <1>2, <1>3, <1>5, <2>1, <2>2 DEF TableInv, ClosingPhases, MeetingPhases
<1>8. MinInv'
  BY <1>1, <1>2, <1>3, <1>4 DEF MinInv
<1>9. PMInv'
  <2>1. SUFFICES ASSUME ~Unset PROVE PMInv'
    BY <1>3 DEF PMInv
  <2>2. PM_kick' = IF isPM /\ pc = "kicked" THEN t
                   ELSE PM_start + PM_length \div 2
    BY <1>1, <2>1, PMMoves
  <2>3. PMEnd' = PMEnd /\ (PMPlaced' <=> PMPlaced)
    BY <1>2 DEF PMEnd, PMPlaced
  <2>4. QED
    BY <1>1, <1>2, <1>3, <2>1, <2>2, <2>3 DEF PMInv, ClosingPhases, MeetingPhases
<1>10. GravityInv'
  <2>1. \A g : GravityKick(g, t) = IF pc = "kicked" THEN Meet(g, t) ELSE After(g, t)
    BY <1>1 DEF GravityKick
  <2>2. \A g : GravityKick(g, t)' = GravityKick(g, t)
    BY <1>1, <1>2, <2>1 DEF GravityKick, Meet, After, Mid, Half, StepStart, IsActive
  <2>3. pc' # "advance" => pc # "advance"
    BY <1>1
  <2>4. QED
    BY <1>2, <1>3, <2>2, <2>3 DEF GravityInv
<1>11. HydroInv'
  <2>1. \A h : HydroKick(h, t) = IF pc = "kicked" THEN Meet(h, t) ELSE After(h, t)
    BY <1>1 DEF HydroKick
  <2>2. \A h : HydroKick(h, t)' = HydroKick(h, t)
    BY <1>1, <1>2, <2>1 DEF HydroKick, Meet, After, Mid, Half, StepStart, IsActive
  <2>3. pc' # "advance" => pc # "advance"
    BY <1>1
  <2>4. pc \notin {"new_rungs", "hydro"}
    BY <1>1
  <2>5. QED
    BY <1>2, <1>3, <1>4, <2>2, <2>3, <2>4 DEF HydroInv
<1>12. DriftInv' /\ RungInv' /\ ActListInv'
  BY <1>1, <1>2, <1>3, <1>4, ActListKept DEF DriftInv, RungInv, ClosingPhases
<1>13. QED
  BY <1>1, <1>6, <1>7, <1>8, <1>9, <1>10, <1>11, <1>12

----------------------------------------------------------------------------
(* The physics: particles disappear and change their types.                *)

\* The physics keeps the types.
LEMMA HierPhysicsType ==
  ASSUME HierTypeOK, HierPhysics
  PROVE  HierTypeOK'
<1> USE DEF HierTypeOK
<1>1. PICK seeds \in SUBSET {p \in Live : Type[p] = "gas"} :
      \E stars \in SUBSET {p \in Active : Type[p] = "gas" /\ p \notin seeds} :
      \E eaten \in SUBSET {p \in Live : HasHydro(p) /\ p \notin stars} :
        /\ Live' = Live \ eaten
        /\ Type' = [p \in Part |-> IF p \in seeds THEN "bh"
                                   ELSE IF p \in stars THEN "star" ELSE Type[p]]
  BY DEF HierPhysics, Physics
<1>2. Live' \subseteq Part
  BY <1>1
<1>3. Type' \in [Part -> Types]
  BY <1>1 DEF Types
<1>4. pc' \in Phases \cup Ends
  BY DEF HierPhysics, Physics, Phases, Ends
<1>5. QED
  BY <1>2, <1>3, <1>4
  DEF HierPhysics, Physics, clock, binTimes, pmTimes, partBins, kicks, hierVars,
      rungVars

\* Only gas gives black holes and stars, so no particle gains hydro.
LEMMA HierPhysicsInv ==
  ASSUME HierTypeOK, Running, HierPhysics
  PROVE  /\ pc' \in {"timesteps", "done"}
         /\ pc' = "timesteps" => Running'
<1> USE DEF HierTypeOK, Running
<1>1. pc = "physics" /\ pc' \in {"timesteps", "done"}
  BY DEF HierPhysics, Physics
<1>2. /\ Live' \subseteq Live /\ Live' # {}
      /\ \A p \in Part : HasHydro(p)' => HasHydro(p)
  <2>1. PICK seeds \in SUBSET {p \in Live : Type[p] = "gas"} :
        \E stars \in SUBSET {p \in Active : Type[p] = "gas" /\ p \notin seeds} :
        \E eaten \in SUBSET {p \in Live : HasHydro(p) /\ p \notin stars} :
          /\ eaten # {} => \E h \in Active \ eaten : Type[h] = "bh" \/ h \in seeds
          /\ Live' = Live \ eaten
          /\ Type' = [p \in Part |-> IF p \in seeds THEN "bh"
                                     ELSE IF p \in stars THEN "star" ELSE Type[p]]
    BY DEF HierPhysics, Physics
  <2>2. PICK stars, eaten :
          /\ eaten # {} => \E h \in Active \ eaten : TRUE
          /\ Live' = Live \ eaten
          /\ Type' = [p \in Part |-> IF p \in seeds THEN "bh"
                                     ELSE IF p \in stars THEN "star" ELSE Type[p]]
    BY <2>1
  <2>3. \A p \in seeds : Type[p] = "gas"
    BY <2>1
  <2>4. Live' # {}
    BY <2>2 DEF ActListInv, Active
  <2>5. QED
    BY <2>2, <2>3, <2>4 DEF HasHydro
<1>3. /\ UNCHANGED <<Ti_Current, isPM, firstStep, Act, Ti_lastactivedrift,
                     Ti_kick, mintimebin, maxtimebin, PM_length, PM_start>>
      /\ UNCHANGED <<PM_kick, TimeBinHydro, TimeBinGravity, Ti_kick_grav,
                     Ti_kick_hydro, mingravtimebin, largest_active, ti, lastact,
                     badstep>>
  BY DEF HierPhysics, Physics, clock, binTimes, pmTimes, partBins, kicks,
         hierVars, rungVars
<1>4. SUFFICES ASSUME pc' = "timesteps" PROVE Running'
  BY <1>1
<1>5. (Unset' <=> Unset) /\ (HydroUnset' <=> HydroUnset)
  BY <1>1, <1>3, <1>4 DEF Unset, HydroUnset
<1>6. UnsetInv' /\ TableInv'
  BY <1>1, <1>3, <1>4, <1>5 DEF UnsetInv, TableInv, MeetingPhases, ClosingPhases
<1>7. MinInv'
  BY <1>1, <1>2, <1>3, <1>4, <1>5 DEF MinInv
<1>8. PMInv'
  BY <1>1, <1>3, <1>4, <1>5 DEF PMInv, PMEnd, PMPlaced, MeetingPhases
<1>9. GravityInv'
  BY <1>1, <1>2, <1>3, <1>4, <1>5 DEF GravityInv, GravityKick
<1>10. HydroInv'
  BY <1>1, <1>2, <1>3, <1>4, <1>5 DEF HydroInv, HydroKick
<1>11. DriftInv' /\ RungInv' /\ ActListInv'
  BY <1>1, <1>2, <1>3, <1>4, <1>5 DEF DriftInv, RungInv, ActListInv
<1>12. QED
  BY <1>6, <1>7, <1>8, <1>9, <1>10, <1>11

----------------------------------------------------------------------------
(* The top rung of the opening ladder.                                     *)

\* The shorter of two bins.
LEMMA LowerBin ==
  ASSUME NEW a \in Bins, NEW b \in Bins
  PROVE  /\ Lower(a, b) \in Bins /\ Lower(a, b) <= a /\ Lower(a, b) <= b
         /\ \A c \in Bins : c <= a /\ c <= b => c <= Lower(a, b)
<1>1. a \in Int /\ b \in Int
  BY BinsNat
<1>2. QED
  BY <1>1 DEF Lower

\* The top rung is lowered to the longest occupied bin, if one is occupied.
LEMMA OccupiedTopFound ==
  ASSUME NEW list, NEW longest \in Bins, NEW bin \in [list -> Bins]
  PROVE  LET top == OccupiedTop(bin, longest) IN
         top \in Bins /\ top <= longest /\ (list = {} => top = longest)
<1> DEFINE used == {b \in 1..longest : \E p \in DOMAIN bin : bin[p] = b}
<1>1. longest \in Nat /\ longest <= longest
  BY BinsNat
<1>2. CASE used = {}
  BY <1>1, <1>2 DEF OccupiedTop
<1>3. CASE used # {}
  <2>1. used \subseteq Bins /\ list # {}
    BY <1>3
  <2>2. Longest(used) \in used
    BY <1>3, <2>1, LongestBin
  <2>3. OccupiedTop(bin, longest) = Longest(used)
    BY <1>3 DEF OccupiedTop
  <2>4. OccupiedTop(bin, longest) \in used
    BY <2>2, <2>3
  <2>5. QED
    BY <2>1, <2>4
<1>4. QED
  BY <1>2, <1>3

\* Only on a PM step are particles pushed down from it.
LEMMA PushedDown ==
  ASSUME NEW list, NEW occ \in Bins, NEW bin \in [list -> Bins]
  PROVE  LET top == PushDown(bin, occ) IN
         top \in Bins /\ top <= occ /\ (~isPM => top = occ)
<1> DEFINE S == {b \in 0..occ : StaysAt(b, bin)}
<1>1. occ \in Nat /\ occ <= occ /\ TIMEBINS \in Nat /\ occ <= TIMEBINS
  BY BinsNat, BinOne DEF Bins
<1>2. CASE ~isPM
  BY <1>1, <1>2 DEF PushDown
<1>3. CASE isPM
  <2>1. 0 \in S /\ S \subseteq Bins
    BY <1>1 DEF StaysAt, Bins
  <2>2. Longest(S) \in S
    BY <2>1, LongestBin
  <2>3. PICK top \in S : top = PushDown(bin, occ)
    BY <1>3, <2>2 DEF PushDown
  <2>4. top \in Bins /\ top <= occ
    BY <1>1, <2>1
  <2>5. QED
    BY <1>3, <2>3, <2>4
<1>4. QED
  BY <1>2, <1>3

\* The long-range step that is chosen now, or goes on.
LEMMA PMAtTimesteps ==
  ASSUME HierTypeOK, Running, pc = "timesteps",
         NEW pm \in (IF isPM THEN HierPMLengths ELSE {PM_length})
  PROVE  /\ pm \in Nat
         /\ isPM => PM_kick = Ti_Current
         /\ ~isPM => pm = PM_length /\ ~Unset
<1> USE DEF HierTypeOK, Running
<1>1. isPM => PM_kick = Ti_Current
  BY DEF UnsetInv, PMInv, MeetingPhases
<1>2. ~isPM => pm = PM_length /\ ~Unset
  BY DEF UnsetInv
<1>3. CASE isPM
  <2>1. PICK n \in SyncTimes :
          /\ IsNextSync(n, Ti_Current)
          /\ pm \in {IF d > n - PM_kick THEN n - PM_kick ELSE d :
                       d \in {1} \cup {Dti[b] : b \in Bins}}
    BY <1>3 DEF HierPMLengths, PMLengths
  <2>2. n \in Nat /\ n > Ti_Current
    BY <2>1, BinOne, SyncActive DEF IsNextSync
  <2>3. n - PM_kick \in Nat
    BY <1>1, <1>3, <2>2
  <2>4. \A d \in {1} \cup {Dti[b] : b \in Bins} : d \in Nat
    BY DtiType
  <2>5. QED
    BY <1>1, <1>3, <2>1, <2>3, <2>4
<1>4. CASE ~isPM
  BY <1>1, <1>2, <1>4, ShortestFits
<1>5. QED
  BY <1>3, <1>4

\* The list of the top rung: the particles whose gravity step ends now.
LEMMA NewTopList ==
  ASSUME PMEndsOnGrid, HierTypeOK, Running, pc = "timesteps",
         NEW pm \in (IF isPM THEN HierPMLengths ELSE {PM_length})
  PROVE  LET list == TopList(LargestActive(pm)) IN
         /\ list \subseteq Active
         /\ \A p \in Live : p \in list <=> IsActive(TimeBinGravity[p], Ti_Current)
<1> USE DEF HierTypeOK
<1> DEFINE top == LargestActive(pm)
<1>1. CASE isPM
  <2>1. TopList(top) = Active
    BY <1>1 DEF TopList, AllGravityActive
  <2>2. \A p \in Live : p \in Act /\ IsActive(TimeBinGravity[p], Ti_Current)
    BY <1>1, PMAllActive
  <2>3. QED
    BY <2>1, <2>2 DEF Active
<1>2. CASE ~isPM
  <2>1. pm = PM_length /\ pm \in Nat /\ ~Unset
    BY <1>2, PMAtTimesteps
  <2>2. /\ top \in Bins
        /\ \A b \in Bins : IsActive(b, Ti_Current) /\ Dti[b] <= pm => b <= top
    BY <2>1, LargestActiveBin
  <2>3. \A p \in Live : IsActive(TimeBinGravity[p], Ti_Current) =>
          TimeBinGravity[p] <= top
    BY <2>1, <2>2 DEF Running, GravityInv
  <2>4. QED
    BY <2>2, <2>3, TopListActive
<1>3. QED
  BY <1>1, <1>2

\* What the rung leaves behind, whatever the particles ask for.
TopAssigned(pm, top, list, new) ==
  /\ PM_length' = pm
  /\ PM_start' = IF isPM THEN PM_kick ELSE PM_start
  /\ TimeBinGravity' = new
  /\ maxtimebin' = top /\ largest_active' = top /\ ti' = top - 1
  /\ lastact' = list
  /\ KickRung(list, top, top)
  /\ pc' = IF top = 0 THEN "bad_timestep"
           ELSE IF TopKickTimesMatch(list, new)
           THEN "new_rungs" ELSE "had_grav_kick_time"
  /\ list \subseteq Active
  /\ \A p \in Live : p \in list <=> IsActive(TimeBinGravity[p], Ti_Current)
  /\ IsActive(top, Ti_Current) /\ Dti[top] <= pm
  /\ \A p \in list : new[p] <= top
  /\ list = {} /\ ~isPM =>
       \A b \in Bins : IsActive(b, Ti_Current) /\ Dti[b] <= pm => b <= top
  /\ \A p \in Part \ list : new[p] = TimeBinGravity[p]

\* The top rung of the opening ladder does that.
LEMMA NewTopRungAssigns ==
  ASSUME PMEndsOnGrid, HierTypeOK, Running, NewTopRung, SomeGravityActive
  PROVE  \E pm \in (IF isPM THEN HierPMLengths ELSE {PM_length}) :
         \E top \in Bins : \E list \in SUBSET Part : \E new \in [Part -> Bins] :
           TopAssigned(pm, top, list, new)
<1> USE DEF HierTypeOK
<1>1. PICK pm \in (IF isPM THEN HierPMLengths ELSE {PM_length}) :
        /\ PM_length' = pm
        /\ PM_start' = IF isPM THEN PM_kick ELSE PM_start
        /\ AssignTopRung(pm)
  BY DEF NewTopRung
<1>2. pc = "timesteps"
  BY DEF NewTopRung
<1>3. pm \in Nat
  BY <1>2, PMAtTimesteps
<1> DEFINE longest == LargestActive(pm)
           list    == TopList(longest)
<1>4. PICK asked \in [list -> AskedBins(pm)] :
        LET bin == [p \in list |-> Lower(asked[p], longest)]
            top == PushDown(bin, OccupiedTop(bin, longest))
            new == [p \in Part |-> IF p \in list THEN Lower(bin[p], top)
                                                 ELSE TimeBinGravity[p]]
        IN  /\ TimeBinGravity' = new
            /\ maxtimebin' = top
            /\ largest_active' = top
            /\ ti' = top - 1
            /\ lastact' = list
            /\ KickRung(list, top, top)
            /\ pc' = IF top = 0 THEN "bad_timestep"
                     ELSE IF TopKickTimesMatch(list, new)
                     THEN "new_rungs" ELSE "had_grav_kick_time"
  BY <1>1 DEF AssignTopRung
<1> DEFINE bin == [p \in list |-> Lower(asked[p], longest)]
           top == PushDown(bin, OccupiedTop(bin, longest))
           new == [p \in Part |-> IF p \in list THEN Lower(bin[p], top)
                                                ELSE TimeBinGravity[p]]
<1>5. /\ list \subseteq Active /\ list \subseteq Part
      /\ \A p \in Live : p \in list <=> IsActive(TimeBinGravity[p], Ti_Current)
  BY <1>2, NewTopList DEF Active
<1>6. /\ longest \in Bins /\ IsActive(longest, Ti_Current) /\ Dti[longest] <= pm
      /\ \A b \in Bins : IsActive(b, Ti_Current) /\ Dti[b] <= pm => b <= longest
  BY <1>3, LargestActiveBin
<1> HIDE DEF longest, list
<1>7. ASSUME NEW p \in list PROVE Lower(asked[p], longest) \in Bins
  <2>1. asked[p] \in Bins
    BY DEF AskedBins, WantedBins
  <2>2. QED
    BY <1>6, <2>1, LowerBin
<1>8. bin \in [list -> Bins]
  BY <1>7
<1> HIDE DEF bin
<1>9. /\ top \in Bins /\ top <= longest
      /\ list = {} /\ ~isPM => top = longest
  <2> DEFINE occ == OccupiedTop(bin, longest)
  <2>1. occ \in Bins /\ occ <= longest /\ (list = {} => occ = longest)
    BY <1>6, <1>8, OccupiedTopFound
  <2>2. top \in Bins /\ top <= occ /\ (~isPM => top = occ)
    BY <1>8, <2>1, PushedDown
  <2> HIDE DEF occ, top
  <2>3. QED
    BY <1>6, <2>1, <2>2, BinsTrans
<1>10. /\ TimeBinGravity' = new
       /\ maxtimebin' = top /\ largest_active' = top /\ ti' = top - 1
       /\ lastact' = list
       /\ KickRung(list, top, top)
       /\ pc' = IF top = 0 THEN "bad_timestep"
                ELSE IF TopKickTimesMatch(list, new)
                THEN "new_rungs" ELSE "had_grav_kick_time"
  BY <1>4 DEF list, bin, longest
<1> HIDE DEF top
<1>11. new \in [Part -> Bins] /\ \A p \in list : new[p] <= top
  <2>1. \A p \in list : Lower(bin[p], top) \in Bins /\ Lower(bin[p], top) <= top
    BY <1>8, <1>9, LowerBin
  <2>2. QED
    BY <1>5, <2>1
<1>12. IsActive(top, Ti_Current) /\ Dti[top] <= pm
  <2>1. CASE top = 0
    BY <1>3, <2>1, BinZero
  <2>2. CASE top # 0
    <3>1. top \in 1..TIMEBINS /\ longest \in 1..TIMEBINS
      BY <1>6, <1>9, <2>2, BinOne DEF Bins
    <3>2. IsActive(top, Ti_Current)
      BY <1>6, <1>9, <3>1, ActiveDown
    <3>3. Dti[top] <= Dti[longest] /\ Dti[top] \in Nat /\ Dti[longest] \in Nat
      BY <1>6, <1>9, DtiMonotone, DtiType
    <3>4. QED
      BY <1>3, <1>6, <3>2, <3>3
  <2>3. QED
    BY <2>1, <2>2
<1>13. list = {} /\ ~isPM =>
         \A b \in Bins : IsActive(b, Ti_Current) /\ Dti[b] <= pm => b <= top
  BY <1>6, <1>9
<1>14. \A p \in Part \ list : new[p] = TimeBinGravity[p]
  OBVIOUS
<1> HIDE DEF new
<1>15. TopAssigned(pm, top, list, new)
  BY <1>1, <1>5, <1>10, <1>11, <1>12, <1>13, <1>14 DEF TopAssigned
<1>16. QED
  BY <1>5, <1>9, <1>11, <1>15

\* It keeps the types.
LEMMA NewTopRungType ==
  ASSUME PMEndsOnGrid, HierTypeOK, Running, NewTopRung
  PROVE  HierTypeOK'
<1> USE DEF HierTypeOK
<1>1. /\ UNCHANGED <<Ti_Current, isPM, firstStep, Act, Ti_lastactivedrift,
                     Ti_kick, mintimebin, PM_kick, Live, Type, TimeBinHydro,
                     Ti_kick_hydro, mingravtimebin, badstep>>
      /\ pc = "timesteps"
  BY DEF NewTopRung, clock, kinds
<1>2. CASE SomeGravityActive
  <2>1. PICK pm \in (IF isPM THEN HierPMLengths ELSE {PM_length}),
             top \in Bins, list \in SUBSET Part, new \in [Part -> Bins] :
          TopAssigned(pm, top, list, new)
    BY <1>2, NewTopRungAssigns
  <2>2. pm \in Nat
    BY <1>1, PMAtTimesteps
  <2>3. RungKick(top, top) \in Int
    BY RungKickType
  <2>4. Ti_kick_grav' \in [Part -> Int]
    BY <2>1, <2>3 DEF TopAssigned, KickRung
  <2>5. top - 1 \in -1..TIMEBINS
    BY TimelineAssumption DEF Bins
  <2>6. pc' \in LadderPhases \cup Ends \cup Asserts
    BY <2>1 DEF TopAssigned, LadderPhases, Ends, Asserts
  <2>7. PM_length' \in Int /\ PM_start' \in Int
    BY <2>1, <2>2 DEF TopAssigned
  <2>8. /\ TimeBinGravity' \in [Part -> Bins] /\ maxtimebin' \in Bins
        /\ largest_active' \in Bins /\ ti' \in -1..TIMEBINS /\ lastact' \subseteq Part
    BY <2>1, <2>5 DEF TopAssigned
  <2>9. QED
    BY <1>1, <2>4, <2>6, <2>7, <2>8
<1>3. CASE ~SomeGravityActive
  <2>1. /\ pc' = "hydro"
        /\ UNCHANGED <<TimeBinGravity, maxtimebin, largest_active, ti, lastact,
                       PM_length, PM_start, Ti_kick_grav>>
    BY <1>3 DEF NewTopRung, rungVars
  <2>2. QED
    BY <1>1, <2>1 DEF LadderPhases
<1>4. QED
  BY <1>2, <1>3

\* Without particles whose gravity step ends now nothing happens.
LEMMA NewTopRungSkipped ==
  ASSUME HierTypeOK, Running, NewTopRung, ~SomeGravityActive
  PROVE  Running' /\ pc' = "hydro"
<1> USE DEF HierTypeOK, Running
<1> DEFINE t == Ti_Current
<1>1. /\ UNCHANGED <<Ti_Current, isPM, firstStep, Act, Ti_lastactivedrift,
                     Ti_kick, mintimebin, PM_kick, Live, Type, TimeBinHydro,
                     Ti_kick_hydro, mingravtimebin, badstep>>
      /\ UNCHANGED <<TimeBinGravity, maxtimebin, largest_active, ti, lastact,
                     PM_length, PM_start, Ti_kick_grav>>
      /\ pc = "timesteps" /\ pc' = "hydro"
  BY DEF NewTopRung, clock, kinds, rungVars
<1>2. ~isPM
  BY DEF SomeGravityActive
<1>3. ~firstStep /\ ~Unset
  BY <1>1, <1>2 DEF UnsetInv, Unset
<1>4. ~Unset' /\ ~HydroUnset /\ ~HydroUnset'
  BY <1>1, <1>3 DEF Unset, HydroUnset
<1>5. UnsetInv' /\ TableInv' /\ RungInv'
  BY <1>1, <1>3, <1>4 DEF UnsetInv, TableInv, RungInv, MeetingPhases, ClosingPhases
<1>6. MinInv'
  BY <1>1, <1>3, <1>4 DEF MinInv, HasHydro
<1>7. PMInv'
  <2>1. /\ PMPlaced /\ PM_start \in Nat /\ PM_start <= t /\ t <= PMEnd /\ t # PMEnd
        /\ PM_kick = PM_start + PM_length \div 2
    BY <1>1, <1>2, <1>3 DEF PMInv
  <2>2. PMEnd \in Int
    BY DEF PMEnd
  <2>3. t < PMEnd
    BY <2>1, <2>2
  <2>4. PMEnd' = PMEnd /\ (PMPlaced' <=> PMPlaced)
    BY <1>1 DEF PMEnd, PMPlaced
  <2>5. QED
    BY <1>1, <1>2, <1>4, <2>1, <2>3, <2>4 DEF PMInv, ClosingPhases
<1>8. GravityInv'
  <2>1. ASSUME NEW p \in Live
        PROVE  /\ Ti_kick_grav[p] = After(TimeBinGravity[p], t)
               /\ ~IsActive(TimeBinGravity[p], t)
    <3>1. ~IsActive(TimeBinGravity[p], t) /\ TimeBinGravity[p] \in Bins
      BY <1>1, SkippedLadder
    <3>2. Ti_kick_grav[p] = Meet(TimeBinGravity[p], t)
      BY <1>1 DEF GravityInv, GravityKick
    <3>3. QED
      BY <3>1, <3>2, HalfKicks
  <2>2. QED
    BY <1>1, <1>3, <1>4, <2>1 DEF GravityInv, GravityKick
<1>9. HydroInv' /\ DriftInv' /\ ActListInv'
  BY <1>1, <1>3, <1>4
  DEF HydroInv, HydroKick, DriftInv, HasHydro, ActListInv, ClosingPhases
<1>10. QED
  BY <1>1, <1>5, <1>6, <1>7, <1>8, <1>9

\* The first rung assigns bins of steps that end now, and starts from where
\* the velocities are.
LEMMA NewTopRungInv ==
  ASSUME Setting, HierOrder, HierOrder', HierTypeOK, Running, NewTopRung,
         SomeGravityActive
  PROVE  pc' \in {"new_rungs", "bad_timestep"} /\ (pc' = "new_rungs" => Running')
<1> USE DEF HierTypeOK, Running
<1> DEFINE t == Ti_Current
<1>1. /\ UNCHANGED <<Ti_Current, isPM, firstStep, Act, Ti_lastactivedrift,
                     Ti_kick, mintimebin, PM_kick, Live, Type, TimeBinHydro,
                     Ti_kick_hydro, mingravtimebin, badstep>>
      /\ pc = "timesteps"
  BY DEF NewTopRung, clock, kinds
<1>2. PICK pm \in (IF isPM THEN HierPMLengths ELSE {PM_length}),
           top \in Bins, list \in SUBSET Part, new \in [Part -> Bins] :
        TopAssigned(pm, top, list, new)
  BY NewTopRungAssigns DEF HierOrder
<1>3. /\ PM_length' = pm /\ TimeBinGravity' = new /\ largest_active' = top
      /\ ti' = top - 1 /\ lastact' = list /\ KickRung(list, top, top)
      /\ PM_start' = IF isPM THEN PM_kick ELSE PM_start
      /\ pc' = IF top = 0 THEN "bad_timestep"
               ELSE IF TopKickTimesMatch(list, new)
               THEN "new_rungs" ELSE "had_grav_kick_time"
      /\ list \subseteq Live /\ list \subseteq Act
      /\ \A p \in Live : p \in list <=> IsActive(TimeBinGravity[p], t)
      /\ \A p \in Part \ list : new[p] = TimeBinGravity[p]
  BY <1>2 DEF TopAssigned, Active
<1>4. CASE top = 0
  BY <1>3, <1>4
<1>5. CASE top # 0
  <2>1. /\ 2 <= top /\ IsActive(top, t) /\ Dti[top] <= pm
        /\ \A p \in list : 2 <= new[p] /\ new[p] <= top
    <3>1. top \in Nat /\ top > 0 /\ TIMEBINS \in Nat
      BY <1>5, BinsNat, BinOne
    <3>2. /\ IsActive(top, t) /\ Dti[top] <= pm
          /\ \A p \in list : new[p] <= top
          /\ list = {} /\ ~isPM =>
               \A b \in Bins : IsActive(b, t) /\ Dti[b] <= pm => b <= top
      BY <1>2 DEF TopAssigned
    <3>3. \A p \in Live : new[p] > 1
      BY <1>1, <1>3, <3>1 DEF HierOrder, BottomRungEmpty
    <3>4. \A p \in list : 2 <= new[p]
      <4>1. \A p \in list : new[p] \in Nat /\ new[p] > 1
        BY <1>3, <3>3, BinsNat
      <4>2. QED
        BY <4>1
    <3>5. CASE list # {}
      <4>1. PICK p \in list : TRUE
        BY <3>5
      <4>2. new[p] \in Nat /\ 2 <= new[p] /\ new[p] <= top
        BY <3>2, <3>4, <4>1, BinsNat
      <4>3. QED
        BY <3>1, <3>2, <3>4, <4>2
    <3>6. CASE list = {}
      <4>1. ~isPM
        BY <1>1, <1>3, <3>6, PMAllActive DEF HierOrder, ActListInv
      <4>2. pm = PM_length /\ ~Unset
        BY <1>1, <4>1, PMAtTimesteps
      <4>3. PICK p \in Act : IsActive(TimeBinGravity[p], t)
        BY <4>1 DEF SomeGravityActive
      <4>4. /\ TimeBinGravity[p] \in Bins /\ 2 <= TimeBinGravity[p]
            /\ Dti[TimeBinGravity[p]] <= pm
        BY <1>1, <4>2 DEF ActListInv
      <4>5. TimeBinGravity[p] <= top
        BY <3>2, <3>6, <4>1, <4>3, <4>4
      <4>6. TimeBinGravity[p] \in Nat
        BY <4>4, BinsNat
      <4>7. QED
        BY <3>1, <3>2, <3>6, <4>4, <4>5, <4>6
    <3>7. QED
      BY <3>5, <3>6
  <2>2. top \in 1..TIMEBINS /\ top \in Nat /\ ti' \in Int /\ ti' + 1 = top
        /\ 0 <= ti' /\ ti' < top
    <3>1. top \in 1..TIMEBINS /\ TIMEBINS \in Nat
      BY <2>1, ShortestUp, BinOne
    <3>2. QED
      BY <1>3, <3>1
  <2>3. /\ pm \in Nat /\ 2 <= pm
        /\ isPM => PM_kick = t
        /\ ~isPM => pm = PM_length /\ ~Unset
    <3>1. Dti[1] <= Dti[top] /\ Dti[1] = 2 /\ Dti[top] \in Nat
      BY <2>1, <2>2, BinOne, DtiMonotone, DtiType
    <3>2. QED
      BY <1>1, <2>1, <3>1, PMAtTimesteps
  <2>4. ASSUME NEW p \in list
        PROVE  /\ new[p] \in 1..TIMEBINS /\ IsActive(new[p], t)
               /\ Dti[new[p]] <= pm /\ p \in Live /\ p \in Act
               /\ Ti_kick_grav[p] = t /\ Meet(new[p], t) = t
               /\ Ti_kick[new[p]] = t
    <3>1. new[p] \in Bins /\ 2 <= new[p] /\ new[p] <= top
      BY <2>1
    <3>2. new[p] \in 1..TIMEBINS
      BY <3>1, ShortestUp
    <3>3. IsActive(new[p], t)
      BY <2>1, <2>2, <3>1, <3>2, ActiveDown
    <3>4. Dti[new[p]] <= pm
      <4>1. /\ Dti[new[p]] <= Dti[top] /\ Dti[new[p]] \in Nat /\ Dti[top] \in Nat
        BY <3>1, DtiMonotone, DtiType
      <4>2. QED
        BY <2>1, <2>3, <4>1
    <3>5. p \in Live /\ p \in Act /\ IsActive(TimeBinGravity[p], t)
          /\ TimeBinGravity[p] \in Bins
      BY <1>3
    <3>6. Ti_kick_grav[p] = Meet(TimeBinGravity[p], t)
      BY <1>1, <3>5 DEF GravityInv, GravityKick
    <3>7. Ti_kick_grav[p] = t /\ Meet(new[p], t) = t
      BY <3>1, <3>3, <3>5, <3>6, HalfKicks
    <3>8. Ti_kick[new[p]] = t
      BY <1>1, <3>2, <3>7 DEF TableInv, MeetingPhases
    <3>9. QED
      BY <3>2, <3>3, <3>4, <3>5, <3>7, <3>8
  <2>5. TopKickTimesMatch(list, new)
    BY <2>4 DEF TopKickTimesMatch
  <2>6. pc' = "new_rungs"
    BY <1>3, <1>5, <2>5
  <2>7. ~Unset' /\ (HydroUnset' <=> HydroUnset)
    BY <1>1, <2>6 DEF Unset, HydroUnset, ClosingPhases
  <2>8. ASSUME NEW p \in Live, p \notin list
        PROVE  /\ new[p] = TimeBinGravity[p] /\ ~IsActive(new[p], t)
               /\ ~isPM /\ ~Unset /\ pm = PM_length
    <3>1. new[p] = TimeBinGravity[p] /\ ~IsActive(new[p], t)
      BY <1>3, <2>8
    <3>2. ~isPM
      BY <1>1, <3>1, PMAllActive DEF HierOrder
    <3>3. QED
      BY <2>3, <3>1, <3>2
  <2>9. UnsetInv' /\ MinInv'
    BY <2>6, <2>7 DEF UnsetInv, MinInv
  <2>10. TableInv'
    BY <1>1, <2>6 DEF TableInv, MeetingPhases, ClosingPhases
  <2>11. PMInv'
    <3>1. PMPlaced' /\ PM_start' \in Nat /\ PM_start' <= t /\ t < PMEnd'
      <4>1. CASE isPM
        <5>1. PM_start' = t /\ PM_length' = pm
          BY <1>3, <2>3, <4>1
        <5>2. PMEnd' = t + pm
          BY <5>1 DEF PMEnd
        <5>3. PMPlaced'
          <6>1. IsActive(1, t)
            <7>1. 1 \in 1..TIMEBINS-1 \/ ~Unset
              BY <2>1, <2>2, BinOne
            <7>2. Unset => Aligned(t)
              BY DEF UnsetInv
            <7>3. QED
              BY <1>1, <2>1, <2>2, <7>1, <7>2, BinOne, ShortestFits, AlignedActive
          <6>2. t % 2 = 0
            BY <6>1, BinOne, ActiveMod
          <6>3. (t + pm) % 2 = 0
            <7>1. Dti[1] <= PM_length'
              BY <2>3, <5>1, BinOne
            <7>2. QED
              BY <5>2, <7>1, BinOne DEF HierOrder, PMEndsOnGrid
          <6>4. pm = pm \div 2 + pm \div 2
            BY <2>3, <6>2, <6>3, Z3
          <6>5. QED
            BY <2>3, <5>1, <6>4 DEF PMPlaced
        <5>4. QED
          BY <2>3, <5>1, <5>2, <5>3
      <4>2. CASE ~isPM
        <5>1. PM_start' = PM_start /\ PM_length' = PM_length
          BY <1>3, <4>2
        <5>2. PMEnd' = PMEnd /\ (PMPlaced' <=> PMPlaced)
          BY <5>1 DEF PMEnd, PMPlaced
        <5>3. PMPlaced /\ PM_start \in Nat /\ PM_start <= t /\ t <= PMEnd /\ t # PMEnd
          BY <1>1, <2>3, <4>2 DEF PMInv
        <5>4. PMEnd \in Int
          BY DEF PMEnd
        <5>5. QED
          BY <5>1, <5>2, <5>3, <5>4
      <4>3. QED
        BY <4>1, <4>2
    <3>2. isPM => PM_start' = t /\ PM_kick' = t
      BY <1>1, <1>3, <2>3
    <3>3. ~isPM => PM_kick' = PM_start' + PM_length' \div 2
      <4>1. SUFFICES ASSUME ~isPM PROVE PM_kick' = PM_start' + PM_length' \div 2
        OBVIOUS
      <4>2. PM_start' = PM_start /\ PM_length' = PM_length /\ PM_kick' = PM_kick
        BY <1>1, <1>3, <4>1
      <4>3. PM_kick = PM_start + PM_length \div 2
        BY <2>3, <4>1 DEF PMInv
      <4>4. QED
        BY <4>2, <4>3
    <3>4. QED
      BY <1>1, <2>6, <3>1, <3>2, <3>3 DEF PMInv, ClosingPhases, MeetingPhases
  <2>12. ASSUME NEW p \in Live
         PROVE  Ti_kick_grav'[p] = Meet(new[p], t) + Rise(new[p], top, t)
    <3>1. CASE p \in list
      <4>1. Rise(new[p], top, t) = Half(top)
        <5>1. ~(new[p] > top)
          BY <2>1, <3>1, BinsOrder
        <5>2. QED
          BY <2>4, <3>1, <5>1 DEF Rise
      <4>2. Ti_kick_grav'[p] = t + Half(top)
        BY <1>3, <2>4, <3>1, RungKickType DEF KickRung
      <4>3. QED
        BY <2>4, <3>1, <4>1, <4>2
    <3>2. CASE p \notin list
      <4>1. Rise(new[p], top, t) = 0 /\ Ti_kick_grav'[p] = Ti_kick_grav[p]
        BY <1>3, <2>8, <3>2 DEF Rise, KickRung
      <4>2. Ti_kick_grav[p] = Meet(new[p], t) /\ Ti_kick_grav[p] \in Int
        BY <1>1, <2>8, <3>2 DEF GravityInv, GravityKick
      <4>3. QED
        BY <4>1, <4>2
    <3>3. QED
      BY <3>1, <3>2
  <2>13. GravityInv'
    <3>1. ASSUME NEW p \in Live
          PROVE  /\ 2 <= new[p] /\ Dti[new[p]] <= pm
                 /\ IsActive(new[p], t) => p \in Act
      <4>1. CASE p \in list
        BY <2>1, <2>4, <4>1
      <4>2. CASE p \notin list
        BY <1>1, <2>8, <4>2 DEF GravityInv
      <4>3. QED
        BY <4>1, <4>2
    <3>2. QED
      BY <1>1, <1>3, <2>2, <2>6, <2>7, <2>12, <3>1 DEF GravityInv, GravityKick
  <2>14. HydroInv'
    <3>1. ASSUME NEW p \in Live, HasHydro(p)
          PROVE  TimeBinHydro[p] <= new[p] \/ IsActive(new[p], t)
      <4>1. CASE p \in list
        BY <2>4, <4>1
      <4>2. CASE p \notin list
        BY <1>1, <2>8, <3>1, <4>2 DEF HydroInv
      <4>3. QED
        BY <4>1, <4>2
    <3>2. QED
      BY <1>1, <1>3, <2>6, <2>7, <3>1 DEF HydroInv, HydroKick, HasHydro
  <2>15. DriftInv'
    <3>1. \A b \in 1..TIMEBINS : IsActive(b, t) => Ti_lastactivedrift[b] = t
      BY <1>1 DEF DriftInv
    <3>2. ASSUME NEW p \in Live, new[p] >= 1
          PROVE  Ti_lastactivedrift[new[p]] = StepStart(new[p], t)
      <4>1. CASE p \in list
        BY <2>4, <3>1, <4>1, StepStartFacts
      <4>2. CASE p \notin list
        BY <2>8, <3>2, <4>2 DEF DriftInv
      <4>3. QED
        BY <4>1, <4>2
    <3>3. QED
      BY <1>1, <1>3, <2>6, <3>1, <3>2 DEF DriftInv, HasHydro
  <2>16. RungInv'
    <3>1. \A p \in Live : p \in lastact' <=> IsActive(new[p], t) /\ new[p] <= ti' + 1
      BY <1>3, <2>1, <2>2, <2>4, <2>8
    <3>2. QED
      BY <1>1, <1>3, <2>1, <2>2, <3>1 DEF RungInv
  <2>17. ActListInv'
    BY <1>1, <2>6 DEF ActListInv, ClosingPhases
  <2>18. QED
    BY <2>6, <2>9, <2>10, <2>11, <2>13, <2>14, <2>15, <2>16, <2>17
<1>6. QED
  BY <1>4, <1>5

----------------------------------------------------------------------------
(* The rungs of the opening ladder.                                        *)

\* A rung of the opening ladder keeps the types.
LEMMA NewRungType ==
  ASSUME HierTypeOK, Running, NewRung
  PROVE  HierTypeOK'
<1> USE DEF HierTypeOK
<1>1. /\ UNCHANGED <<Ti_Current, isPM, firstStep, Act, Ti_lastactivedrift, Ti_kick,
                     maxtimebin, PM_length, PM_start, PM_kick, Live, Type>>
      /\ UNCHANGED <<TimeBinHydro, Ti_kick_hydro, largest_active>>
      /\ pc = "new_rungs" /\ ~Unset
  BY DEF NewRung, clock, pmTimes, kinds, Unset, ClosingPhases
<1>2. 0 <= ti /\ ti < largest_active
  BY <1>1 DEF Running, RungInv
<1>3. /\ ti \in Bins /\ ti + 1 \in Bins /\ ti - 1 \in -1..TIMEBINS
      /\ ti > 0 => ti - 1 \in Bins
  <2>1. TIMEBINS \in Nat /\ largest_active \in 0..TIMEBINS /\ ti \in -1..TIMEBINS
    BY TimelineAssumption DEF Bins
  <2>2. QED
    BY <1>2, <2>1 DEF Bins
<1> DEFINE list == IF ti > 0 THEN Sublist(lastact, ti) ELSE {}
<1>4. list \subseteq Part
  BY DEF Sublist
<1>5. CASE list # {}
  <2>1. ti > 0
    BY <1>5
  <2>2. PICK reduced \in SUBSET list :
          /\ TimeBinGravity' = [p \in Part |-> IF p \in reduced THEN ti - 1
                                               ELSE TimeBinGravity[p]]
          /\ badstep' = (badstep \/ (ti = 1 /\ reduced # {}))
          /\ KickRung(list, ti, largest_active)
          /\ lastact' = list
          /\ ti' = ti - 1
          /\ UNCHANGED <<mingravtimebin, mintimebin, pc>>
    BY <1>5 DEF NewRung
  <2>3. RungKick(ti, largest_active) \in Int
    BY <1>3, RungKickType
  <2>4. Ti_kick_grav' \in [Part -> Int]
    BY <2>2, <2>3 DEF KickRung
  <2> HIDE DEF list
  <2>5. TimeBinGravity' \in [Part -> Bins] /\ badstep' \in BOOLEAN
    BY <1>3, <2>1, <2>2
  <2>6. QED
    BY <1>1, <1>3, <1>4, <2>2, <2>4, <2>5
<1>6. CASE list = {}
  <2>1. /\ mingravtimebin' = IF ti > 0 THEN ti + 1 ELSE mingravtimebin
        /\ mintimebin' = mingravtimebin'
        /\ pc' = "hydro"
        /\ UNCHANGED <<TimeBinGravity, Ti_kick_grav, lastact, ti, badstep>>
    BY <1>6 DEF NewRung
  <2>2. QED
    BY <1>1, <1>3, <2>1 DEF LadderPhases
<1>7. QED
  BY <1>5, <1>6

\* What one rung does, whichever particles go down from it.
RungDescends(list, reduced) ==
  /\ list \subseteq Live /\ reduced \subseteq list
  /\ \A p \in Live : p \in list <=>
       IsActive(TimeBinGravity[p], Ti_Current) /\ TimeBinGravity[p] <= ti
  /\ reduced # {} => 2 <= ti - 1
  /\ 2 <= ti
  /\ TimeBinGravity' = [p \in Part |-> IF p \in reduced THEN ti - 1
                                       ELSE TimeBinGravity[p]]
  /\ KickRung(list, ti, largest_active)
  /\ lastact' = list /\ ti' = ti - 1 /\ pc' = "new_rungs"
  /\ UNCHANGED <<mingravtimebin, mintimebin, badstep>>

\* A rung that is not empty does that: as long as nobody goes down to bin 1,
\* nobody goes below it, so the run goes on.
LEMMA NewRungDescends ==
  ASSUME BottomRungEmpty', HierTypeOK, Running, NewRung, badstep = FALSE,
         pc' = "new_rungs"
  PROVE  \E list \in SUBSET Part : \E reduced \in SUBSET Part :
           RungDescends(list, reduced)
<1> USE DEF HierTypeOK, Running
<1>1. pc = "new_rungs" /\ ~Unset
  BY DEF NewRung, Unset, ClosingPhases
<1> DEFINE list == IF ti > 0 THEN Sublist(lastact, ti) ELSE {}
<1>2. list # {}
  BY DEF NewRung
<1>3. ti > 0 /\ list = Sublist(lastact, ti)
  BY <1>2
<1>4. PICK reduced \in SUBSET list :
        /\ reduced # {} => \E b \in AskedBins(PM_length) : b < ti
        /\ TimeBinGravity' = [p \in Part |-> IF p \in reduced THEN ti - 1
                                             ELSE TimeBinGravity[p]]
        /\ badstep' = (badstep \/ (ti = 1 /\ reduced # {}))
        /\ KickRung(list, ti, largest_active)
        /\ lastact' = list
        /\ ti' = ti - 1
        /\ UNCHANGED <<mingravtimebin, mintimebin, pc>>
  BY <1>2 DEF NewRung
<1>5. /\ lastact \subseteq Live
      /\ \A p \in Live : p \in lastact <=>
           IsActive(TimeBinGravity[p], Ti_Current) /\ TimeBinGravity[p] <= ti + 1
  BY <1>1 DEF RungInv
<1>6. ti \in Nat /\ ti \in Int
  BY <1>3
<1>7. \A p \in Live : p \in list <=>
        IsActive(TimeBinGravity[p], Ti_Current) /\ TimeBinGravity[p] <= ti
  <2>1. ASSUME NEW p \in Live PROVE TimeBinGravity[p] <= ti => TimeBinGravity[p] <= ti + 1
    BY <1>6, BinsStep
  <2>2. QED
    BY <1>3, <1>5, <2>1 DEF Sublist
<1>8. list \subseteq Live
  BY <1>3, <1>5 DEF Sublist
<1> HIDE DEF list
<1>9. /\ largest_active' = largest_active /\ largest_active \in Nat
      /\ ti < largest_active /\ Live' = Live
  BY <1>1, BinsNat DEF NewRung, RungInv, kinds
<1>10. 2 <= ti
  <2>1. PICK p \in list : TRUE
    BY <1>2
  <2>2. /\ 2 <= TimeBinGravity[p] /\ TimeBinGravity[p] <= ti
        /\ TimeBinGravity[p] \in Nat
    BY <1>1, <1>7, <1>8, <2>1, BinsNat DEF GravityInv
  <2>3. QED
    BY <1>6, <2>2
<1>11. reduced # {} => 2 <= ti - 1
  <2>1. SUFFICES ASSUME NEW p \in reduced PROVE 2 <= ti - 1
    OBVIOUS
  <2>2. p \in Live /\ p \in Part /\ TimeBinGravity'[p] = ti - 1
    BY <1>4, <1>8, <2>1
  <2>3. largest_active' > 0
    BY <1>3, <1>6, <1>9
  <2>4. ti - 1 > 1
    BY <1>9, <2>2, <2>3 DEF BottomRungEmpty
  <2>5. QED
    BY <1>6, <2>4
<1>12. badstep' = badstep
  BY <1>4, <1>6, <1>10
<1>13. RungDescends(list, reduced)
  BY <1>1, <1>4, <1>7, <1>8, <1>10, <1>11, <1>12 DEF RungDescends
<1>14. QED
  BY <1>8, <1>13

\* The particles that go down from a rung leave it with the kick of the rung,
\* to bins of steps that end now.
LEMMA NewRungInvDown ==
  ASSUME BottomRungEmpty', HierTypeOK, Running, NewRung, badstep = FALSE,
         pc' = "new_rungs"
  PROVE  Running'
<1> USE DEF HierTypeOK, Running
<1> DEFINE t == Ti_Current
           g == TimeBinGravity
           h == TimeBinGravity'
<1>1. /\ UNCHANGED <<Ti_Current, isPM, firstStep, Act, Ti_lastactivedrift, Ti_kick,
                     maxtimebin, PM_length, PM_start, PM_kick, Live, Type>>
      /\ UNCHANGED <<TimeBinHydro, Ti_kick_hydro, largest_active>>
      /\ pc = "new_rungs" /\ ~Unset /\ ~Unset'
  BY DEF NewRung, clock, pmTimes, kinds, Unset, ClosingPhases
<1>2. PICK list \in SUBSET Part, reduced \in SUBSET Part :
        RungDescends(list, reduced)
  BY NewRungDescends
<1>3. /\ list \subseteq Live /\ reduced \subseteq list
      /\ \A p \in Live : p \in list <=> IsActive(g[p], t) /\ g[p] <= ti
      /\ reduced # {} => 2 <= ti - 1
      /\ 2 <= ti
      /\ TimeBinGravity' = [p \in Part |-> IF p \in reduced THEN ti - 1 ELSE g[p]]
      /\ KickRung(list, ti, largest_active)
      /\ lastact' = list /\ ti' = ti - 1
      /\ UNCHANGED <<mingravtimebin, mintimebin>>
  BY <1>2 DEF RungDescends
<1>4. /\ 0 <= ti /\ ti < largest_active
      /\ IsActive(largest_active, t) /\ Dti[largest_active] <= PM_length
      /\ largest_active \in Bins
  BY <1>1 DEF RungInv
<1>5. /\ ti \in Nat /\ ti \in 1..TIMEBINS /\ ti \in Bins /\ ti + 1 \in Bins
      /\ ti' \in Int /\ ti' + 1 = ti /\ 0 <= ti' /\ ti' < largest_active
      /\ largest_active \in 1..TIMEBINS /\ ti - 1 <= largest_active
      /\ ti - 1 \in Bins /\ ti - 1 <= ti
  <2>1. TIMEBINS \in Nat /\ largest_active \in 0..TIMEBINS
    BY <1>4, BinOne DEF Bins
  <2>2. ti \in Nat
    BY <1>4
  <2>3. QED
    BY <1>3, <1>4, <2>1, <2>2 DEF Bins
<1>6. ASSUME NEW p \in Live
      PROVE  /\ p \in Part /\ g[p] \in Bins
             /\ 2 <= g[p] /\ Dti[g[p]] <= PM_length
             /\ Ti_kick_grav[p] = Meet(g[p], t) + Rise(g[p], ti + 1, t)
             /\ IsActive(g[p], t) => p \in Act
  BY <1>1 DEF GravityInv, GravityKick
<1>7. ASSUME NEW p \in reduced
      PROVE  /\ h[p] = ti - 1 /\ p \in Live /\ p \in list
             /\ ti - 1 \in 1..TIMEBINS /\ IsActive(ti - 1, t)
             /\ 2 <= ti - 1 /\ Dti[ti - 1] <= PM_length
             /\ IsActive(g[p], t) /\ g[p] <= ti /\ p \in Act
  <2>1. h[p] = ti - 1 /\ p \in Live /\ p \in list /\ 2 <= ti - 1
    BY <1>3
  <2>2. IsActive(g[p], t) /\ g[p] <= ti /\ p \in Act
    BY <1>3, <1>6, <2>1
  <2>3. ti - 1 \in 1..TIMEBINS
    BY <1>5, <2>1, ShortestUp
  <2>4. IsActive(ti - 1, t)
    BY <1>4, <1>5, <2>3, ActiveDown
  <2>5. Dti[ti - 1] <= PM_length
    <3>1. Dti[ti - 1] <= Dti[largest_active]
      BY <1>4, <1>5, DtiMonotone
    <3>2. Dti[ti - 1] \in Nat /\ Dti[largest_active] \in Nat
      BY <1>4, <1>5, DtiType
    <3>3. QED
      BY <1>4, <3>1, <3>2
  <2>6. QED
    BY <2>1, <2>2, <2>3, <2>4, <2>5
<1>8. ASSUME NEW p \in Live, p \notin reduced PROVE h[p] = g[p]
  BY <1>3, <1>8
<1>9. ASSUME NEW p \in Live
      PROVE  Ti_kick_grav'[p] = Meet(g[p], t) + Rise(g[p], ti, t)
  <2> DEFINE b == g[p]
             k == Ti_kick_grav[p]
  <2>1. Ti_kick_grav'[p] = IF IsActive(b, t) /\ b <= ti
                           THEN k + RungKick(ti, largest_active) ELSE k
    BY <1>3, <1>6 DEF KickRung
  <2>2. b \in Bins /\ Meet(b, t) \in Int /\ k \in Int
    BY <1>6, KickTypes
  <2>3. k = Meet(b, t) + Rise(b, ti + 1, t)
    BY <1>6
  <2> HIDE DEF b, k
  <2>4. ti \in Nat /\ ti < largest_active /\ largest_active \in Bins
    BY <1>4, <1>5
  <2>5. (IF IsActive(b, t) /\ b <= ti THEN k + RungKick(ti, largest_active) ELSE k)
          = Meet(b, t) + Rise(b, ti, t)
    BY <2>2, <2>3, <2>4, RungKicks
  <2>6. Ti_kick_grav'[p] = Meet(b, t) + Rise(b, ti, t)
    BY <2>1, <2>5
  <2>7. QED
    BY <2>6 DEF b
<1>10. ASSUME NEW p \in reduced
       PROVE  Meet(g[p], t) = Meet(ti - 1, t) /\ Rise(g[p], ti, t) = Rise(ti - 1, ti, t)
  <2>1. /\ g[p] \in Bins /\ IsActive(g[p], t) /\ IsActive(ti - 1, t)
        /\ g[p] <= ti /\ ti - 1 <= ti /\ ti - 1 \in Bins
    BY <1>5, <1>6, <1>7
  <2>2. ~(g[p] > ti) /\ ~(ti - 1 > ti)
    BY <1>5, <2>1, BinsOrder
  <2>3. QED
    BY <2>1, <2>2 DEF Meet, Rise
<1> HIDE DEF g, h
<1>11. \A p \in Live : Ti_kick_grav'[p] = Meet(h[p], t) + Rise(h[p], ti' + 1, t)
  BY <1>5, <1>7, <1>8, <1>9, <1>10
<1>12. UnsetInv' /\ MinInv' /\ (HydroUnset' <=> HydroUnset)
  BY <1>1 DEF UnsetInv, MinInv, HydroUnset
<1>13. TableInv' /\ PMInv'
  BY <1>1, <1>3 DEF TableInv, PMInv, PMEnd, PMPlaced, ClosingPhases
<1>14. GravityInv'
  <2>1. ASSUME NEW p \in Live
        PROVE  /\ 2 <= h[p] /\ Dti[h[p]] <= PM_length
               /\ IsActive(h[p], t) => p \in Act
    BY <1>6, <1>7, <1>8
  <2>2. QED
    BY <1>1, <1>11, <2>1 DEF GravityInv, GravityKick, h
<1>15. HydroInv'
  <2>1. ASSUME NEW p \in Live, HasHydro(p)
        PROVE  TimeBinHydro[p] <= h[p] \/ IsActive(h[p], t)
    <3>1. TimeBinHydro[p] <= g[p] \/ IsActive(g[p], t)
      BY <2>1 DEF HydroInv, g
    <3>2. QED
      BY <1>7, <1>8, <3>1
  <2>2. QED
    BY <1>1, <1>12, <2>1 DEF HydroInv, HydroKick, HasHydro, h
<1>16. DriftInv'
  <2>1. \A b \in 1..TIMEBINS : IsActive(b, t) => Ti_lastactivedrift[b] = t
    BY <1>1 DEF DriftInv
  <2>2. ASSUME NEW p \in Live, h[p] >= 1
        PROVE  Ti_lastactivedrift[h[p]] = StepStart(h[p], t)
    <3>1. CASE p \in reduced
      BY <1>7, <2>1, <3>1, StepStartFacts
    <3>2. CASE p \notin reduced
      BY <1>8, <2>2, <3>2 DEF DriftInv, g
    <3>3. QED
      BY <3>1, <3>2
  <2>3. QED
    BY <1>1, <2>1, <2>2 DEF DriftInv, HasHydro, h
<1>17. RungInv'
  <2>1. ASSUME NEW p \in Live
        PROVE  p \in list <=> IsActive(h[p], t) /\ h[p] <= ti' + 1
    <3>1. CASE p \in reduced
      BY <1>5, <1>7, <3>1
    <3>2. CASE p \notin reduced
      BY <1>3, <1>5, <1>8, <3>2 DEF g
    <3>3. QED
      BY <3>1, <3>2
  <2>2. QED
    BY <1>1, <1>3, <1>4, <1>5, <2>1 DEF RungInv, h
<1>18. ActListInv'
  BY <1>1 DEF ActListInv, ClosingPhases
<1>19. QED
  BY <1>12, <1>13, <1>14, <1>15, <1>16, <1>17, <1>18

\* Where the ladder ends, the rung above is the shortest bin of all.
LEMMA NewRungInvDone ==
  ASSUME HierTypeOK, Running, NewRung, pc' # "new_rungs"
  PROVE  Running' /\ pc' = "hydro" /\ UNCHANGED badstep
<1> USE DEF HierTypeOK, Running
<1> DEFINE t == Ti_Current
           m == ti + 1
<1>1. /\ UNCHANGED <<Ti_Current, isPM, firstStep, Act, Ti_lastactivedrift, Ti_kick,
                     maxtimebin, PM_length, PM_start, PM_kick, Live, Type>>
      /\ UNCHANGED <<TimeBinHydro, Ti_kick_hydro, largest_active>>
      /\ pc = "new_rungs" /\ ~Unset
  BY DEF NewRung, clock, pmTimes, kinds, Unset, ClosingPhases
<1>2. /\ 0 <= ti /\ ti < largest_active
      /\ IsActive(largest_active, t) /\ Dti[largest_active] <= PM_length
      /\ largest_active \in Bins /\ 2 <= ti + 1
      /\ \A p \in Live : p \in lastact <=>
           IsActive(TimeBinGravity[p], t) /\ TimeBinGravity[p] <= ti + 1
  BY <1>1 DEF RungInv
<1>3. /\ ti \in Nat /\ ti > 0 /\ m \in Bins /\ m \in 1..TIMEBINS
      /\ largest_active \in 1..TIMEBINS /\ m <= largest_active
  <2>1. TIMEBINS \in Nat /\ largest_active \in 0..TIMEBINS
    BY <1>2, BinOne DEF Bins
  <2>2. ti \in Nat
    BY <1>2
  <2>3. QED
    BY <1>2, <2>1, <2>2 DEF Bins
<1>4. /\ Sublist(lastact, ti) = {}
      /\ mingravtimebin' = m /\ mintimebin' = m /\ pc' = "hydro"
      /\ UNCHANGED <<TimeBinGravity, Ti_kick_grav, lastact, ti, badstep>>
  BY <1>1, <1>3 DEF NewRung
<1>5. IsActive(m, t) /\ Dti[m] <= PM_length
  <2>1. IsActive(m, t)
    BY <1>2, <1>3, ActiveDown
  <2>2. Dti[m] <= Dti[largest_active] /\ Dti[m] \in Nat /\ Dti[largest_active] \in Nat
    BY <1>2, <1>3, DtiMonotone, DtiType
  <2>3. QED
    BY <1>2, <2>1, <2>2
<1>6. ASSUME NEW p \in Live
      PROVE  /\ TimeBinGravity[p] \in Bins /\ m <= TimeBinGravity[p]
             /\ 2 <= TimeBinGravity[p]
             /\ Dti[TimeBinGravity[p]] <= PM_length
             /\ Ti_kick_grav[p] = After(TimeBinGravity[p], t)
             /\ IsActive(TimeBinGravity[p], t) => p \in Act
  <2> DEFINE g == TimeBinGravity[p]
  <2>1. /\ g \in Bins /\ 2 <= g /\ Dti[g] <= PM_length
        /\ Ti_kick_grav[p] = Meet(g, t) + Rise(g, m, t)
        /\ IsActive(g, t) => p \in Act
    BY <1>1 DEF GravityInv, GravityKick
  <2>2. ~(IsActive(g, t) /\ g <= ti)
    <3>1. SUFFICES ASSUME IsActive(g, t), g <= ti PROVE FALSE
      OBVIOUS
    <3>2. g <= ti + 1
      BY <1>3, <2>1, <3>1, BinsStep
    <3>3. p \in Sublist(lastact, ti)
      BY <1>2, <3>1, <3>2 DEF Sublist
    <3>4. QED
      BY <1>4, <3>3
  <2>3. m <= g
    <3>1. CASE IsActive(g, t)
      BY <1>3, <2>1, <2>2, <3>1, BinsStep
    <3>2. CASE ~IsActive(g, t)
      <4>1. g \in 1..TIMEBINS
        BY <2>1, ShortestUp
      <4>2. ~(g <= m)
        BY <1>3, <1>5, <3>2, <4>1, ActiveDown
      <4>3. QED
        BY <1>3, <2>1, <4>2, BinsOrder
    <3>3. QED
      BY <3>1, <3>2
  <2> HIDE DEF g, m
  <2>4. Ti_kick_grav[p] = After(g, t)
    BY <1>3, <2>1, <2>3, RiseType
  <2>5. QED
    BY <2>1, <2>3, <2>4 DEF g
<1>7. (HydroUnset' <=> HydroUnset) /\ ~Unset'
  BY <1>1, <1>4 DEF HydroUnset, Unset, ClosingPhases
<1>8. UnsetInv' /\ TableInv' /\ RungInv'
  BY <1>1, <1>4, <1>7 DEF UnsetInv, TableInv, RungInv, MeetingPhases, ClosingPhases
<1>9. MinInv'
  <2>1. m <= m /\ 1 <= m
    BY <1>3
  <2>2. QED
    BY <1>1, <1>2, <1>4, <1>5, <1>6, <2>1 DEF MinInv
<1>10. PMInv'
  BY <1>1, <1>4, <1>7 DEF PMInv, PMEnd, PMPlaced, ClosingPhases, MeetingPhases
<1>11. GravityInv'
  BY <1>1, <1>4, <1>6, <1>7 DEF GravityInv, GravityKick
<1>12. HydroInv' /\ DriftInv' /\ ActListInv'
  BY <1>1, <1>4, <1>7
  DEF HydroInv, HydroKick, DriftInv, HasHydro, ActListInv, ClosingPhases
<1>13. QED
  BY <1>4, <1>8, <1>9, <1>10, <1>11, <1>12

----------------------------------------------------------------------------
(* The hydro bins.                                                         *)

\* A particle whose hydro step ends now gets a bin of steps that end now, if
\* it gets one above bin 0.
LEMMA HydroBinActive ==
  ASSUME HierTypeOK, Running, pc = "hydro",
         NEW p \in Active, HasHydro(p),
         NEW asked \in AskedBins(PM_length), NEW b \in Bins,
         IsNewBin(b, asked, TimeBinHydro[p]), 1 <= HydroBin(b, p)
  PROVE  IsActive(HydroBin(b, p), Ti_Current) /\ HydroBin(b, p) <= TimeBinGravity[p]
<1> USE DEF HierTypeOK, Running
<1> DEFINE t == Ti_Current
           old == TimeBinHydro[p]
           g == TimeBinGravity[p]
           new == Lower(b, g)
<1>1. /\ p \in Live /\ p \in Part /\ old \in Bins /\ g \in Bins
      /\ IsActive(old, t) /\ ~Unset
  BY DEF Active, HydroInv, Unset, ClosingPhases
<1>2. asked \in Bins
  BY DEF AskedBins, WantedBins
<1>3. t % Dti[1] = 0
  <2>1. IsActive(1, t)
    BY <1>1, ShortestFits
  <2>2. QED
    BY <2>1, BinOne, ActiveMod
<1> HIDE DEF old, g
<1>4. new \in Bins /\ new <= b /\ new <= g /\ 1 <= new
  BY <1>1, LowerBin DEF HydroBin, g
<1> HIDE DEF new
<1>5. b \in 1..TIMEBINS /\ new \in 1..TIMEBINS
  BY <1>4, BinOne, BinsTrans, ShortestUp
<1>6. IsActive(b, t)
  BY <1>1, <1>2, <1>3, <1>5, NewBinActive DEF old
<1>7. IsActive(new, t)
  BY <1>4, <1>5, <1>6, ActiveDown
<1>8. QED
  BY <1>4, <1>7 DEF HydroBin, new, g

\* The least element of a set of natural numbers.
LEMMA LeastChosen ==
  ASSUME NEW U, U \subseteq Nat, U # {}
  PROVE  LET m == CHOOSE b \in U : \A c \in U : b <= c IN
         m \in U /\ \A c \in U : m <= c
<1>1. \E b \in U : \A c \in U : b <= c
  BY LeastNat
<1>2. QED
  BY <1>1

\* The shortest bin that goes on ends a step now, and is no longer than any
\* that was given out.
LEMMA NextHydroBinFound ==
  ASSUME HierTypeOK, Running, pc = "hydro",
         NEW D, NEW new \in [D -> Bins],
         \A p \in D : 1 <= new[p] /\ IsActive(new[p], Ti_Current)
  PROVE  LET m == NextHydroBin(new) IN
         /\ m \in Bins /\ 1 <= m /\ IsActive(m, Ti_Current)
         /\ \A p \in D : m <= new[p]
<1> USE DEF HierTypeOK, Running
<1> DEFINE used == {new[p] : p \in DOMAIN new} \cup {TIMEBINS}
           m == CHOOSE b \in used : \A c \in used : b <= c
<1>1. TIMEBINS \in Nat /\ TIMEBINS \in Bins /\ 1 <= TIMEBINS /\ 1 \in Bins
  BY BinOne DEF Bins
<1>2. used \subseteq Bins /\ used # {} /\ \A b \in used : 1 <= b
  BY <1>1
<1>3. used \subseteq Nat
  BY <1>2, BinsNat
<1>4. m \in used /\ \A c \in used : m <= c
  <2>1. used # {} /\ used \subseteq Nat
    BY <1>2, <1>3
  <2> HIDE DEF used
  <2>2. QED
    BY <2>1, LeastChosen
<1>5. m \in Bins /\ 1 <= m /\ \A p \in D : m <= new[p]
  <2>1. \A p \in D : new[p] \in used
    OBVIOUS
  <2> HIDE DEF used, m
  <2>2. QED
    BY <1>2, <1>4, <2>1
<1> HIDE DEF used
<1>6. NextHydroBin(new) =
        IF IsActive(m, Ti_Current) THEN m
        ELSE IF mintimebin + 1 \in Bins /\ IsActive(mintimebin + 1, Ti_Current)
        THEN mintimebin + 1 ELSE mintimebin
  BY DEF NextHydroBin, used
<1> HIDE DEF m
<1>7. ASSUME NEW p \in D PROVE IsActive(m, Ti_Current)
  <2>1. /\ m \in 1..TIMEBINS /\ new[p] \in 1..TIMEBINS /\ m <= new[p]
        /\ IsActive(new[p], Ti_Current)
    BY <1>5, ShortestUp
  <2>2. QED
    BY <2>1, ActiveDown
<1>8. CASE IsActive(m, Ti_Current)
  BY <1>5, <1>6, <1>8
<1>9. CASE ~IsActive(m, Ti_Current)
  <2>1. D = {}
    BY <1>7, <1>9
  <2>2. /\ 1 <= mintimebin /\ IsActive(mintimebin, Ti_Current)
        /\ mintimebin \in Bins
    BY DEF MinInv, Unset, ClosingPhases
  <2>3. 1 <= mintimebin + 1
    BY <1>1, <2>2, BinsNat, BinsStep
  <2>4. QED
    BY <1>6, <1>9, <2>1, <2>2, <2>3
<1>10. QED
  BY <1>8, <1>9

\* A gravity bin that is shorter still wins.
LEMMA MinBinFound ==
  ASSUME HierTypeOK, Running, pc = "hydro",
         NEW m \in Bins, 1 <= m, IsActive(m, Ti_Current)
  PROVE  LET r == MinBin(m) IN
         /\ r \in Bins /\ 1 <= r /\ IsActive(r, Ti_Current)
         /\ r <= m /\ r <= mingravtimebin
<1> USE DEF HierTypeOK, Running
<1> DEFINE n == mingravtimebin
<1>1. /\ n \in Bins /\ 1 <= mintimebin /\ mintimebin <= n
      /\ mintimebin \in Bins /\ 1 \in Bins
  BY BinOne DEF MinInv, Unset, ClosingPhases, Bins
<1>2. 1 <= n
  BY <1>1, BinsTrans
<1>3. n \in 1..TIMEBINS /\ m \in 1..TIMEBINS
  BY <1>1, <1>2, ShortestUp
<1>4. m <= m /\ n <= n /\ n > 0
  BY <1>3
<1>5. CASE m > n
  <2>1. n <= m
    BY <1>1, <1>5, BinsOrder
  <2>2. IsActive(n, Ti_Current)
    BY <1>3, <2>1, ActiveDown
  <2>3. MinBin(m) = n
    BY <1>4, <1>5 DEF MinBin
  <2>4. QED
    BY <1>1, <1>2, <1>4, <2>1, <2>2, <2>3
<1>6. CASE ~(m > n)
  <2>1. m <= n
    BY <1>1, <1>6, BinsOrder
  <2>2. MinBin(m) = m
    BY <1>6 DEF MinBin
  <2>3. QED
    BY <1>4, <2>1, <2>2
<1>7. QED
  BY <1>5, <1>6

\* Hydro bins are bins.
LEMMA FindHydroType ==
  ASSUME HierTypeOK, FindHydroTimesteps
  PROVE  HierTypeOK'
<1> USE DEF HierTypeOK
<1>1. /\ UNCHANGED <<Ti_Current, isPM, firstStep, Act, Ti_lastactivedrift,
                     Ti_kick, maxtimebin, PM_length, PM_start, PM_kick, Live>>
      /\ UNCHANGED <<Type, TimeBinGravity, Ti_kick_grav, Ti_kick_hydro,
                     mingravtimebin, largest_active, ti, lastact>>
      /\ pc' \in Phases \cup Ends
  BY DEF FindHydroTimesteps, clock, pmTimes, kinds, kicks, rungVars, Phases, Ends
<1>2. CASE GasEnabled
  <2>1. PICK new \in [{p \in Active : HasHydro(p)} -> Bins] : AssignHydroBins(new)
    BY <1>2 DEF FindHydroTimesteps
  <2> DEFINE m == NextHydroBin(new)
  <2>2. m \in Bins
    <3> DEFINE used == {new[p] : p \in DOMAIN new} \cup {TIMEBINS}
               n == CHOOSE b \in used : \A c \in used : b <= c
    <3>1. TIMEBINS \in Bins
      BY TimelineAssumption DEF Bins
    <3>2. used \subseteq Bins /\ used # {}
      BY <3>1
    <3>3. \E b \in used : \A c \in used : b <= c
      BY <3>2, BinsNat, LeastNat
    <3>4. n \in Bins
      BY <3>2, <3>3
    <3>5. QED
      BY <3>4 DEF NextHydroBin
  <2>3. MinBin(m) \in Bins
    BY <2>2 DEF MinBin
  <2>4. /\ TimeBinHydro' = [p \in Part |->
             IF firstStep /\ Type[p] = "bh" THEN m
             ELSE IF /\ p \in DOMAIN new
                     /\ IsActive(TimeBinHydro[p], Ti_Current)
                     /\ IsActive(new[p], Ti_Current)
             THEN new[p] ELSE TimeBinHydro[p]]
        /\ mintimebin' = MinBin(m) /\ badstep' \in BOOLEAN
    BY <2>1 DEF AssignHydroBins
  <2> HIDE DEF m
  <2>5. TimeBinHydro' \in [Part -> Bins]
    BY <2>2, <2>4
  <2>6. QED
    BY <1>1, <2>3, <2>4, <2>5
<1>3. CASE ~GasEnabled
  BY <1>1, <1>3 DEF FindHydroTimesteps
<1>4. QED
  BY <1>2, <1>3

\* What find_hydro_timesteps does if there is gas: m is the bin of the black
\* holes of the first step.
HydroAssigned(m) ==
  /\ m \in Bins /\ 1 <= m /\ IsActive(m, Ti_Current)
  /\ mintimebin' = MinBin(m)
  /\ \A p \in Live : HasHydro(p) =>
       IF p \in Act
       THEN /\ 1 <= TimeBinHydro'[p] /\ IsActive(TimeBinHydro'[p], Ti_Current)
            /\ m <= TimeBinHydro'[p] /\ TimeBinHydro'[p] <= TimeBinGravity[p]
       ELSE TimeBinHydro'[p] = TimeBinHydro[p]

\* With gas it does that, if no bin is too short.
LEMMA FindHydroAssigns ==
  ASSUME HierTypeOK, Running, FindHydroTimesteps, GasEnabled, ~badstep'
  PROVE  \E m \in Bins : HydroAssigned(m)
<1> USE DEF HierTypeOK, Running
<1> DEFINE D == {p \in Active : HasHydro(p)}
           t == Ti_Current
<1>1. pc = "hydro"
  BY DEF FindHydroTimesteps
<1>2. PICK new \in [D -> Bins] :
        /\ \A p \in D : \E asked \in AskedBins(PM_length) : \E b \in Bins :
             IsNewBin(b, asked, TimeBinHydro[p]) /\ new[p] = HydroBin(b, p)
        /\ AssignHydroBins(new)
  BY DEF FindHydroTimesteps
<1>3. ASSUME NEW p \in D
      PROVE  /\ new[p] \in Bins /\ 1 <= new[p] /\ IsActive(new[p], t)
             /\ new[p] <= TimeBinGravity[p]
  <2>1. PICK asked \in AskedBins(PM_length), b \in Bins :
          IsNewBin(b, asked, TimeBinHydro[p]) /\ new[p] = HydroBin(b, p)
    BY <1>2
  <2>2. p \in Active /\ HasHydro(p)
    OBVIOUS
  <2>3. new[p] \in Nat /\ ~(new[p] < 1)
    BY <1>2, BinsNat DEF AssignHydroBins
  <2>4. 1 <= HydroBin(b, p)
    BY <2>1, <2>3
  <2>5. QED
    BY <1>1, <2>1, <2>2, <2>4, HydroBinActive
<1> DEFINE m == NextHydroBin(new)
<1>4. /\ m \in Bins /\ 1 <= m /\ IsActive(m, t)
      /\ \A p \in D : m <= new[p]
  BY <1>1, <1>3, NextHydroBinFound
<1>5. /\ TimeBinHydro' = [p \in Part |->
           IF firstStep /\ Type[p] = "bh" THEN m
           ELSE IF /\ p \in DOMAIN new
                   /\ IsActive(TimeBinHydro[p], t)
                   /\ IsActive(new[p], t)
           THEN new[p] ELSE TimeBinHydro[p]]
      /\ mintimebin' = MinBin(m)
  BY <1>2 DEF AssignHydroBins
<1> HIDE DEF m
<1>6. ASSUME NEW p \in Live, HasHydro(p)
      PROVE  /\ p \in Act => p \in D /\ IsActive(TimeBinHydro[p], t)
             /\ p \notin Act => ~firstStep
             /\ p \in Part /\ TimeBinGravity[p] \in Bins
  <2>1. p \in Act <=> IsActive(TimeBinHydro[p], t)
    BY <1>1, <1>6 DEF HydroInv
  <2>2. firstStep => TimeBinHydro[p] = 0
    BY <1>1, <1>6 DEF HydroInv, HydroUnset
  <2>3. QED
    BY <1>6, <2>1, <2>2, BinZero DEF Active
<1>7. ASSUME NEW p \in Live, HasHydro(p), p \in Act
      PROVE  /\ 1 <= TimeBinHydro'[p] /\ IsActive(TimeBinHydro'[p], t)
             /\ m <= TimeBinHydro'[p] /\ TimeBinHydro'[p] <= TimeBinGravity[p]
  <2>1. p \in D /\ IsActive(TimeBinHydro[p], t) /\ TimeBinGravity[p] \in Bins /\ p \in Part
    BY <1>6, <1>7
  <2>2. /\ new[p] \in Bins /\ 1 <= new[p] /\ IsActive(new[p], t)
        /\ new[p] <= TimeBinGravity[p] /\ m <= new[p]
    BY <1>3, <1>4, <2>1
  <2>3. TimeBinHydro'[p] = IF firstStep /\ Type[p] = "bh" THEN m ELSE new[p]
    BY <1>5, <2>1, <2>2
  <2>4. m <= m /\ m <= TimeBinGravity[p]
    BY <1>4, <2>1, <2>2, BinsTrans, BinsOrder
  <2>5. QED
    BY <1>4, <2>2, <2>3, <2>4
<1>8. ASSUME NEW p \in Live, HasHydro(p), p \notin Act
      PROVE  TimeBinHydro'[p] = TimeBinHydro[p]
  <2>1. ~firstStep /\ p \notin DOMAIN new /\ p \in Part
    BY <1>6, <1>8 DEF Active
  <2>2. QED
    BY <1>5, <2>1
<1>9. HydroAssigned(m)
  BY <1>4, <1>5, <1>7, <1>8 DEF HydroAssigned
<1>10. QED
  BY <1>4, <1>9

\* The new hydro bins are within the gravity bins, and no shorter than the
\* bin of the next kick.
LEMMA FindHydroInvGas ==
  ASSUME HierTypeOK, Running, FindHydroTimesteps, GasEnabled, ~badstep'
  PROVE  Running' /\ pc' = "kick_begin"
<1> USE DEF HierTypeOK, Running
<1> DEFINE t == Ti_Current
           h == TimeBinHydro
           n == TimeBinHydro'
<1>1. /\ UNCHANGED <<Ti_Current, isPM, firstStep, Act, Ti_lastactivedrift,
                     Ti_kick, maxtimebin, PM_length, PM_start, PM_kick, Live>>
      /\ UNCHANGED <<Type, TimeBinGravity, Ti_kick_grav, Ti_kick_hydro,
                     mingravtimebin, largest_active, ti, lastact>>
      /\ pc = "hydro" /\ ~Unset
  BY DEF FindHydroTimesteps, clock, pmTimes, kinds, kicks, rungVars, Unset,
         ClosingPhases
<1>2. pc' = "kick_begin"
  BY DEF FindHydroTimesteps
<1>3. PICK m \in Bins : HydroAssigned(m)
  BY FindHydroAssigns
<1> DEFINE r == MinBin(m)
<1>4. /\ r \in Bins /\ 1 <= r /\ IsActive(r, t) /\ r <= m
      /\ r <= mingravtimebin /\ mintimebin' = r
  BY <1>1, <1>3, MinBinFound DEF HydroAssigned
<1> HIDE DEF r
<1>5. HierTypeOK'
  BY FindHydroType
<1>6. n \in [Part -> Bins] /\ h \in [Part -> Bins]
  BY <1>5
<1>7. ASSUME NEW p \in Live, HasHydro(p)
      PROVE  /\ 1 <= n[p] /\ n[p] <= TimeBinGravity[p]
             /\ n[p] \in 1..TIMEBINS /\ p \in Part
             /\ p \in Act <=> IsActive(n[p], t)
             /\ Ti_kick_hydro[p] = Meet(n[p], t)
             /\ Ti_lastactivedrift[n[p]] = StepStart(n[p], t)
             /\ r <= n[p]
  <2>1. /\ p \in Part /\ h[p] \in Bins /\ n[p] \in Bins /\ TimeBinGravity[p] \in Bins
        /\ Ti_kick_hydro[p] = Meet(h[p], t)
        /\ p \in Act <=> IsActive(h[p], t)
    BY <1>1, <1>6, <1>7 DEF HydroInv, HydroKick
  <2>2. CASE p \in Act
    <3>1. /\ 1 <= n[p] /\ IsActive(n[p], t)
          /\ m <= n[p] /\ n[p] <= TimeBinGravity[p]
      BY <1>3, <1>7, <2>2 DEF HydroAssigned
    <3>2. n[p] \in 1..TIMEBINS
      BY <2>1, <3>1, ShortestUp
    <3>3. Meet(h[p], t) = t /\ Meet(n[p], t) = t
      BY <2>1, <2>2, <3>1, HalfKicks
    <3>4. Ti_lastactivedrift[n[p]] = t
      BY <1>1, <3>1, <3>2 DEF DriftInv
    <3>5. StepStart(n[p], t) = t
      BY <3>1, <3>2, StepStartFacts
    <3>6. r <= n[p]
      BY <1>4, <2>1, <3>1, BinsTrans
    <3> HIDE DEF n, h
    <3>7. QED
      BY <2>1, <2>2, <3>1, <3>2, <3>3, <3>4, <3>5, <3>6
  <2>3. CASE p \notin Act
    <3>1. n[p] = h[p] /\ ~IsActive(h[p], t)
      BY <1>3, <1>7, <2>1, <2>3 DEF HydroAssigned
    <3>2. 1 <= h[p]
      <4>1. ~HydroUnset
        BY <1>1, <1>7, <3>1, BinZero DEF HydroInv
      <4>2. QED
        BY <1>7, <4>1 DEF HydroInv
    <3>3. h[p] \in 1..TIMEBINS
      BY <2>1, <3>2, ShortestUp
    <3>4. h[p] <= TimeBinGravity[p]
      <4>1. ~IsActive(TimeBinGravity[p], t)
        BY <1>1, <2>3 DEF GravityInv
      <4>2. QED
        BY <1>7, <4>1 DEF HydroInv
    <3>5. Ti_lastactivedrift[h[p]] = StepStart(h[p], t)
      BY <1>7, <3>3 DEF DriftInv
    <3>6. r <= h[p]
      <4>1. r \in 1..TIMEBINS
        BY <1>4, ShortestUp
      <4>2. ~(h[p] <= r)
        BY <1>4, <3>1, <3>3, <4>1, ActiveDown
      <4>3. QED
        BY <1>4, <2>1, <4>2, BinsOrder
    <3> HIDE DEF n, h
    <3>7. QED
      BY <2>1, <2>3, <3>1, <3>2, <3>3, <3>4, <3>5, <3>6
  <2>4. QED
    BY <2>2, <2>3
<1>8. ~Unset' /\ ~HydroUnset'
  BY <1>2 DEF Unset, HydroUnset, ClosingPhases
<1>9. UnsetInv' /\ TableInv' /\ RungInv'
  BY <1>1, <1>2, <1>8 DEF UnsetInv, TableInv, RungInv, MeetingPhases, ClosingPhases
<1>10. MinInv'
  <2>1. /\ Dti[mingravtimebin] <= PM_length
        /\ \A p \in Live : mingravtimebin <= TimeBinGravity[p]
    BY <1>1 DEF MinInv
  <2>2. QED
    BY <1>1, <1>2, <1>4, <1>7, <2>1 DEF MinInv, HasHydro
<1>11. PMInv'
  BY <1>1, <1>2, <1>8 DEF PMInv, PMEnd, PMPlaced, ClosingPhases, MeetingPhases
<1>12. GravityInv'
  BY <1>1, <1>2, <1>8 DEF GravityInv, GravityKick
<1>13. HydroInv'
  BY <1>1, <1>2, <1>7, <1>8 DEF HydroInv, HydroKick, HasHydro
<1>14. DriftInv'
  BY <1>1, <1>2, <1>7 DEF DriftInv, HasHydro
<1>15. ActListInv'
  BY <1>1, <1>2 DEF ActListInv, ClosingPhases
<1>16. QED
  BY <1>2, <1>9, <1>10, <1>11, <1>12, <1>13, <1>14, <1>15

\* Without gas nothing has hydro bins.
LEMMA FindHydroInvNoGas ==
  ASSUME HierTypeOK, Running, FindHydroTimesteps, ~GasEnabled, ~badstep'
  PROVE  Running' /\ pc' = "kick_begin"
<1> USE DEF HierTypeOK, Running
<1>1. /\ UNCHANGED <<Ti_Current, isPM, firstStep, Act, Ti_lastactivedrift,
                     Ti_kick, maxtimebin, PM_length, PM_start, PM_kick, Live>>
      /\ UNCHANGED <<Type, TimeBinGravity, Ti_kick_grav, Ti_kick_hydro,
                     mingravtimebin, largest_active, ti, lastact>>
      /\ UNCHANGED <<TimeBinHydro, mintimebin, badstep>>
      /\ pc = "hydro" /\ ~Unset /\ pc' = "kick_begin"
  BY DEF FindHydroTimesteps, clock, pmTimes, kinds, kicks, rungVars, Unset,
         ClosingPhases
<1>2. \A p \in Part : ~HasHydro(p) /\ ~HasHydro(p)'
  BY <1>1 DEF HydroInv, HasHydro
<1>3. ~Unset' /\ ~HydroUnset'
  BY <1>1 DEF Unset, HydroUnset, ClosingPhases
<1>4. UnsetInv' /\ TableInv' /\ RungInv'
  BY <1>1, <1>3 DEF UnsetInv, TableInv, RungInv, MeetingPhases, ClosingPhases
<1>5. MinInv'
  BY <1>1, <1>2 DEF MinInv
<1>6. PMInv'
  BY <1>1, <1>3 DEF PMInv, PMEnd, PMPlaced, ClosingPhases, MeetingPhases
<1>7. GravityInv'
  BY <1>1, <1>3 DEF GravityInv, GravityKick
<1>8. HydroInv' /\ DriftInv' /\ ActListInv'
  BY <1>1, <1>2 DEF HydroInv, DriftInv, ActListInv, ClosingPhases
<1>9. QED
  BY <1>1, <1>4, <1>5, <1>6, <1>7, <1>8

----------------------------------------------------------------------------
(* The invariant.                                                          *)

\* A step that changes nothing keeps the invariant.
LEMMA InvStutter ==
  ASSUME Inv, UNCHANGED allVars
  PROVE  Inv'
<1>1. /\ UNCHANGED <<pc, Ti_Current, isPM, firstStep, Act, Ti_lastactivedrift,
                     Ti_kick, mintimebin, maxtimebin, PM_length, PM_start>>
      /\ UNCHANGED <<PM_kick, Live, Type, TimeBinHydro, TimeBinGravity,
                     Ti_kick_grav, Ti_kick_hydro, mingravtimebin>>
      /\ UNCHANGED <<largest_active, ti, lastact, badstep>>
  BY DEF allVars, vars, clock, binTimes, pmTimes, kinds, partBins, kicks,
         hierVars, rungVars
<1>2. HierTypeOK'
  BY <1>1 DEF Inv, HierTypeOK
<1>3. CASE pc \in Ends
  BY <1>1, <1>2, <1>3 DEF Inv
<1>4. CASE pc \notin Ends
  <2>1. Running /\ badstep = FALSE
    BY <1>4 DEF Inv
  <2>2. (Unset' <=> Unset) /\ (HydroUnset' <=> HydroUnset)
    BY <1>1 DEF Unset, HydroUnset
  <2>3. \A p \in Part : HasHydro(p)' <=> HasHydro(p)
    BY <1>1 DEF HasHydro
  <2>4. UnsetInv' /\ TableInv'
    BY <1>1, <2>1, <2>2 DEF Running, UnsetInv, TableInv
  <2>5. MinInv' /\ RungInv'
    BY <1>1, <2>1, <2>2 DEF Running, MinInv, RungInv, HasHydro
  <2>6. PMInv'
    BY <1>1, <2>1, <2>2 DEF Running, PMInv, PMEnd, PMPlaced
  <2>7. GravityInv'
    BY <1>1, <2>1, <2>2 DEF Running, GravityInv, GravityKick
  <2>8. HydroInv' /\ DriftInv'
    BY <1>1, <2>1, <2>2 DEF Running, HydroInv, HydroKick, DriftInv, HasHydro
  <2>9. ActListInv'
    BY <1>1, <2>1, <2>2, ActListKept DEF Running
  <2>10. QED
    BY <1>1, <1>2, <2>1, <2>4, <2>5, <2>6, <2>7, <2>8, <2>9 DEF Inv, Running
<1>5. QED
  BY <1>3, <1>4

\* Each action keeps the invariant.
LEMMA InvStep ==
  ASSUME Setting
  PROVE  Inv /\ HierOrder /\ HierOrder' /\ [HierNext]_allVars => Inv'
<1> SUFFICES ASSUME Inv, HierOrder, HierOrder', [HierNext]_allVars PROVE Inv'
  OBVIOUS
<1>1. /\ HierTypeOK /\ PMEndsOnGrid /\ BottomRungEmpty'
      /\ pc \notin Ends => Running /\ badstep = FALSE
  BY DEF Inv, HierOrder
<1>2. CASE HierAdvance
  <2>1. pc \notin Ends /\ badstep' = badstep
    BY <1>2 DEF HierAdvance, Advance, Ends, hierVars
  <2>2. HierTypeOK'
    BY <1>1, <1>2, AdvanceType
  <2>3. Running' /\ pc' = "kick_end"
    BY <1>1, <1>2, <2>1, AdvanceUnset, AdvanceSet
  <2>4. QED
    BY <1>1, <2>1, <2>2, <2>3 DEF Inv, Asserts
<1>3. CASE HydroHalfKick
  <2>1. pc \notin Ends /\ badstep' = badstep
    BY <1>3 DEF HydroHalfKick, Ends, hierVars
  <2>2. HierTypeOK'
    BY <1>1, <1>3, HydroHalfKickType
  <2>3. Running' /\ pc' \in {"top_rung", "hydro_kicked"}
    BY <1>1, <1>3, <2>1, HydroHalfKickInv
  <2>4. QED
    BY <1>1, <2>1, <2>2, <2>3 DEF Inv, Asserts
<1>4. CASE TopRung
  <2>1. pc \notin Ends /\ badstep' = badstep
    BY <1>4 DEF TopRung, Ends
  <2>2. HierTypeOK'
    BY <1>1, <1>4, <2>1, ShortestFits, TopRungType
  <2>3. Running' /\ pc' \in {"rungs", "kicked"}
    BY <1>1, <1>4, <2>1, TopRungUnset, TopRungSet
  <2>4. QED
    BY <1>1, <2>1, <2>2, <2>3 DEF Inv, Asserts
<1>5. CASE Rung
  <2>1. pc \notin Ends /\ badstep' = badstep
    BY <1>5 DEF Rung, Ends
  <2>2. HierTypeOK'
    BY <1>1, <1>5, RungType
  <2>3. Running' /\ pc' \in {"rungs", "kicked"}
    BY <1>1, <1>5, <2>1, RungInvDown, RungInvDone
  <2>4. QED
    BY <1>1, <2>1, <2>2, <2>3 DEF Inv, Asserts
<1>6. CASE MoveKickTimes
  <2>1. pc \notin Ends /\ badstep' = badstep
    BY <1>6 DEF MoveKickTimes, Ends, hierVars
  <2>2. HierTypeOK'
    BY <1>1, <1>6, MoveKickTimesType
  <2>3. Running' /\ pc' \in {"physics", "advance"}
    BY <1>1, <1>6, <2>1, MoveKickTimesInv
  <2>4. QED
    BY <1>1, <2>1, <2>2, <2>3 DEF Inv, Asserts
<1>7. CASE HierPhysics
  <2>1. pc \notin Ends /\ badstep' = badstep
    BY <1>7 DEF HierPhysics, Physics, Ends, hierVars
  <2>2. HierTypeOK'
    BY <1>1, <1>7, HierPhysicsType
  <2>3. pc' \in {"timesteps", "done"} /\ (pc' = "timesteps" => Running')
    BY <1>1, <1>7, <2>1, HierPhysicsInv
  <2>4. QED
    BY <1>1, <2>1, <2>2, <2>3 DEF Inv, Asserts, Ends
<1>8. CASE NewTopRung
  <2>1. pc \notin Ends /\ badstep' = badstep
    BY <1>8 DEF NewTopRung, Ends
  <2>2. HierTypeOK'
    BY <1>1, <1>8, <2>1, NewTopRungType
  <2>3. /\ pc' \in {"new_rungs", "hydro", "bad_timestep"}
        /\ pc' \in {"new_rungs", "hydro"} => Running'
    BY <1>1, <1>8, <2>1, NewTopRungInv, NewTopRungSkipped
  <2>4. QED
    BY <1>1, <2>1, <2>2, <2>3 DEF Inv, Asserts, Ends
<1>9. CASE NewRung
  <2>1. pc \notin Ends
    BY <1>9 DEF NewRung, Ends
  <2>2. HierTypeOK'
    BY <1>1, <1>9, <2>1, NewRungType
  <2>3. CASE pc' = "new_rungs"
    <3>1. badstep' = FALSE
      <4>1. PICK list \in SUBSET Part, reduced \in SUBSET Part :
              RungDescends(list, reduced)
        BY <1>1, <1>9, <2>1, <2>3, NewRungDescends
      <4>2. QED
        BY <1>1, <2>1, <4>1 DEF RungDescends
    <3>2. Running'
      BY <1>1, <1>9, <2>1, <2>3, NewRungInvDown
    <3>3. QED
      BY <2>2, <2>3, <3>1, <3>2 DEF Inv, Asserts
  <2>4. CASE pc' # "new_rungs"
    <3>1. Running' /\ pc' = "hydro" /\ badstep' = badstep
      BY <1>1, <1>9, <2>1, <2>4, NewRungInvDone
    <3>2. QED
      BY <1>1, <2>1, <2>2, <3>1 DEF Inv, Asserts
  <2>5. QED
    BY <2>3, <2>4
<1>10. CASE FindHydroTimesteps
  <2>1. pc \notin Ends
    BY <1>10 DEF FindHydroTimesteps, Ends
  <2>2. HierTypeOK'
    BY <1>1, <1>10, FindHydroType
  <2>3. CASE badstep'
    <3>1. pc' = "bad_timestep"
      BY <1>10, <2>3 DEF FindHydroTimesteps
    <3>2. QED
      BY <2>2, <3>1 DEF Inv, Asserts, Ends
  <2>4. CASE ~badstep'
    <3>1. Running' /\ pc' = "kick_begin"
      BY <1>1, <1>10, <2>1, <2>4, FindHydroInvGas, FindHydroInvNoGas
    <3>2. badstep' = FALSE
      BY <2>2, <2>4 DEF HierTypeOK
    <3>3. QED
      BY <2>2, <3>1, <3>2 DEF Inv, Asserts
  <2>5. QED
    BY <2>3, <2>4
<1>11. CASE UNCHANGED allVars
  BY <1>11, InvStutter
<1>12. QED
  BY <1>2, <1>3, <1>4, <1>5, <1>6, <1>7, <1>8, <1>9, <1>10, <1>11
  DEF HierNext, HierStopped

\* Whatever the particles ask for, the main loop with hierarchical gravity
\* keeps Inv: every kick time is where the phase wants it, no assertion of a
\* kick fires and the long-range step is not passed, as long as PM steps end
\* on the grid and no particle comes down to the last rung.
THEOREM HierInvariance ==
  ASSUME Setting
  PROVE  HierSpec /\ [](PMEndsOnGrid /\ BottomRungEmpty) => []Inv
<1>1. HierInit => Inv
  BY InvInit
<1>2. Inv /\ HierOrder /\ HierOrder' /\ [HierNext]_allVars => Inv'
  BY InvStep
<1>3. QED
  BY <1>1, <1>2, PTL DEF HierSpec, HierOrder

----------------------------------------------------------------------------
(* What follows from it.                                                   *)

\* The assertions of the ladders and of the hydro kicks hold: every kick
\* starts where the last one ended.
THEOREM KicksInPlace ==
  ASSUME Setting
  PROVE  HierSpec => KicksInOrder
<1>1. Inv => KicksStartInPlace
  BY DEF Inv, KicksStartInPlace
<1>2. QED
  BY <1>1, HierInvariance, PTL DEF KicksInOrder

\* Where the physics runs, velocities meet positions,
LEMMA InvSynchronised == PMEndsOnGrid /\ Inv => HierSynchronised
<1> SUFFICES ASSUME PMEndsOnGrid, Inv, pc \in {"physics", "timesteps"}
             PROVE  /\ \A p \in Active :
                         /\ IsActive(TimeBinGravity[p], Ti_Current) =>
                              Ti_kick_grav[p] = Ti_Current
                         /\ HasHydro(p) => Ti_kick_hydro[p] = Ti_Current
                    /\ isPM => /\ PM_kick = Ti_Current
                               /\ \A p \in Live : Ti_kick_grav[p] = Ti_Current
  BY DEF HierSynchronised
<1>1. Running /\ HierTypeOK
  BY DEF Inv, Ends
<1>2. ASSUME NEW p \in Live, IsActive(TimeBinGravity[p], Ti_Current)
      PROVE  Ti_kick_grav[p] = Ti_Current
  <2>1. Ti_kick_grav[p] = Meet(TimeBinGravity[p], Ti_Current)
    BY <1>1 DEF Running, GravityInv, GravityKick
  <2>2. TimeBinGravity[p] \in Bins /\ Ti_Current \in Nat
    BY <1>1 DEF HierTypeOK
  <2>3. QED
    BY <1>2, <2>1, <2>2, HalfKicks
<1>3. ASSUME NEW p \in Live, p \in Act, HasHydro(p)
      PROVE  Ti_kick_hydro[p] = Ti_Current
  <2>1. /\ Ti_kick_hydro[p] = Meet(TimeBinHydro[p], Ti_Current)
        /\ IsActive(TimeBinHydro[p], Ti_Current)
    BY <1>1, <1>3 DEF Running, HydroInv, HydroKick, HierTypeOK
  <2>2. TimeBinHydro[p] \in Bins /\ Ti_Current \in Nat
    BY <1>1 DEF HierTypeOK
  <2>3. QED
    BY <2>1, <2>2, HalfKicks
<1>4. isPM => PM_kick = Ti_Current
  BY <1>1 DEF Running, UnsetInv, PMInv, MeetingPhases
<1>5. isPM => \A p \in Live : IsActive(TimeBinGravity[p], Ti_Current)
  BY <1>1, PMAllActive
<1>6. QED
  BY <1>2, <1>3, <1>4, <1>5 DEF Active

\* Between two steps the kick time of a bin is in the middle of its step, and
\* the next kick is no later than its end.
LEMMA StepReaches ==
  ASSUME PMEndsOnGrid, HierTypeOK, Running, ~Unset, pc = "advance",
         NEW b \in Bins, mintimebin <= b
  PROVE  /\ StepStart(b, Ti_Current) = After(b, Ti_Current) - Half(b)
         /\ NextKick <= After(b, Ti_Current) + Half(b)
<1> USE DEF HierTypeOK
<1> DEFINE t == Ti_Current
           u == NextKick
           m == mintimebin
<1>1. /\ m \in 1..TIMEBINS /\ IsActive(m, t) /\ u = t + Dti[m] /\ u \in Nat
  BY NextKickFits
<1>2. b \in 1..TIMEBINS
  BY <1>1, BinsNat DEF Bins
<1>3. Half(b) \in Nat /\ Dti[b] = Half(b) + Half(b)
  BY <1>2, Halves
<1>4. /\ StepStart(b, t) \in Nat
      /\ IsActive(b, t) => StepStart(b, t) = t
  BY <1>2, StepStartFacts
<1>5. After(b, t) = StepStart(b, t) + Half(b)
  BY <1>4 DEF After, Mid
<1>6. IF IsActive(b, u) THEN StepStart(b, t) + Dti[b] = u
                        ELSE StepStart(b, u) = StepStart(b, t)
  BY <1>1, <1>2, LongerStep
<1>7. StepStart(b, u) \in Nat /\ u < StepStart(b, u) + Dti[b]
  BY <1>1, <1>2, StepStartFacts
<1> HIDE DEF u
<1>8. u <= StepStart(b, t) + Dti[b]
  BY <1>1, <1>3, <1>4, <1>6, <1>7
<1>9. QED
  BY <1>1, <1>3, <1>4, <1>5, <1>8 DEF u

\* and no step is missed.
LEMMA InvNoStepMissed == PMEndsOnGrid /\ Inv => HierNoStepMissed
<1> SUFFICES ASSUME PMEndsOnGrid, Inv, pc = "advance", ~firstStep, NEW p \in Live
             PROVE  LET g == TimeBinGravity[p]  h == TimeBinHydro[p] IN
                    /\ Ti_lastactivedrift[g] = Ti_kick_grav[p] - Dti[g] \div 2
                    /\ NextKick <= Ti_kick_grav[p] + Dti[g] \div 2
                    /\ HasHydro(p) =>
                         /\ Ti_lastactivedrift[h] = Ti_kick_hydro[p] - Dti[h] \div 2
                         /\ NextKick <= Ti_kick_hydro[p] + Dti[h] \div 2
  BY DEF HierNoStepMissed
<1> DEFINE g == TimeBinGravity[p]
           h == TimeBinHydro[p]
           t == Ti_Current
<1>1. Running /\ HierTypeOK /\ ~Unset /\ ~HydroUnset
  BY DEF Inv, Ends, Unset, HydroUnset
<1>2. /\ g \in Bins /\ h \in Bins /\ p \in Part /\ mintimebin \in Bins
      /\ mingravtimebin \in Bins
  BY <1>1 DEF HierTypeOK
<1>3. /\ 2 <= g /\ mintimebin <= mingravtimebin /\ mingravtimebin <= g
      /\ Ti_kick_grav[p] = After(g, t)
  BY <1>1 DEF Running, GravityInv, GravityKick, MinInv
<1>4. g \in 1..TIMEBINS /\ mintimebin <= g
  BY <1>2, <1>3, ShortestUp, BinsTrans
<1>5. Ti_lastactivedrift[g] = StepStart(g, t)
  BY <1>1, <1>4 DEF Running, DriftInv
<1>6. /\ Ti_lastactivedrift[g] = Ti_kick_grav[p] - Half(g)
      /\ NextKick <= Ti_kick_grav[p] + Half(g)
  <2> HIDE DEF g
  <2>1. QED
    BY <1>1, <1>2, <1>3, <1>4, <1>5, StepReaches
<1>7. ASSUME HasHydro(p)
      PROVE  /\ Ti_lastactivedrift[h] = Ti_kick_hydro[p] - Half(h)
             /\ NextKick <= Ti_kick_hydro[p] + Half(h)
  <2>1. 1 <= h /\ mintimebin <= h /\ Ti_kick_hydro[p] = After(h, t)
    BY <1>1, <1>2, <1>7 DEF Running, HydroInv, HydroKick, MinInv
  <2>2. h \in 1..TIMEBINS
    BY <1>2, <2>1, ShortestUp
  <2>3. Ti_lastactivedrift[h] = StepStart(h, t)
    BY <1>1, <1>7, <2>2 DEF Running, DriftInv
  <2> HIDE DEF h
  <2>4. QED
    BY <1>1, <1>2, <2>1, <2>3, StepReaches
<1>8. QED
  BY <1>6, <1>7 DEF Half

\* The shortest bins that the clock and the ladders go by are known after the
\* first step, and no particle has a shorter one.
LEMMA InvShortestBin ==
  ASSUME Inv
  PROVE  ShortestBinKnown
<1>1. SUFFICES ASSUME pc = "advance", ~firstStep
               PROVE  /\ mintimebin > 0 /\ mingravtimebin > 0
                      /\ \A p \in Live :
                           /\ mingravtimebin <= TimeBinGravity[p]
                           /\ mintimebin <= TimeBinGravity[p]
                           /\ HasHydro(p) => mintimebin <= TimeBinHydro[p]
  BY DEF ShortestBinKnown
<1>2. /\ 1 <= mintimebin /\ mintimebin <= mingravtimebin
      /\ \A p \in Live : mingravtimebin <= TimeBinGravity[p]
      /\ \A p \in Live : HasHydro(p) => mintimebin <= TimeBinHydro[p]
  BY <1>1 DEF Inv, Ends, Running, MinInv, Unset
<1>3. HierTypeOK /\ mintimebin \in Nat /\ mingravtimebin \in Nat
  BY BinsNat DEF Inv, HierTypeOK
<1>4. ASSUME NEW p \in Live PROVE mintimebin <= TimeBinGravity[p]
  <2>1. TimeBinGravity[p] \in Nat
    BY <1>3, BinsNat DEF HierTypeOK
  <2>2. mintimebin <= mingravtimebin /\ mingravtimebin <= TimeBinGravity[p]
    BY <1>2
  <2>3. QED
    BY <1>3, <2>1, <2>2
<1>5. mintimebin > 0 /\ mingravtimebin > 0
  BY <1>2, <1>3
<1>6. QED
  BY <1>2, <1>4, <1>5

\* With gravity kicked rung by rung, velocities meet positions when the
\* physics runs, no step is missed in gravity or in hydro, the long-range step
\* is not stepped over, and the clock goes by the shortest step: as long as PM
\* steps end on the grid and no particle comes down to the last rung.
THEOREM HierarchyHolds ==
  ASSUME Setting
  PROVE  HierSpec => HierInOrder
<1>1. Inv => HierPMNeverPassed
  BY DEF Inv, HierPMNeverPassed
<1>2. PMEndsOnGrid /\ Inv => HierStepsHold
  BY <1>1, InvSynchronised, InvNoStepMissed, InvShortestBin DEF HierStepsHold
<1>3. QED
  BY <1>2, HierInvariance, PTL DEF HierInOrder

=============================================================================
