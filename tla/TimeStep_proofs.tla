-------------------------- MODULE TimeStep_proofs --------------------------
(***************************************************************************)
(* Proofs about TimeStep for every timeline and every set of particles.    *)
(*                                                                         *)
(* KickSync needs that no black hole exists before the first time bins are *)
(* given out and that the run starts where each bin's step starts or is    *)
(* half over; the definitions MCBH and MCQuarter of MCTimeStep are starts  *)
(* with which the code goes wrong without either.                          *)
(*                                                                         *)
(* The lemmas about the integer timeline come first: steps of a bin start  *)
(* and end at multiples of its length, and a shorter step divides a longer *)
(* one.  HierTimeStep_proofs rests on them too.                            *)
(***************************************************************************)
EXTENDS TimeStep, DataLemmas

\* When the step of bin b that contains time t started.
StepStart(b, t) == t - (t % Dti[b])

\* A run that starts where the step of each bin starts or is half over.
Aligned(t) == \A b \in 1..TIMEBINS : t % Dti[b] \in {0, Dti[b] \div 2}

AlignedStart == \A t \in InitTimes : Aligned(t)

----------------------------------------------------------------------------
(* The lengths of the bins.                                                *)

\* Bins from 1 on are bins.
LEMMA BinsUp ==
  ASSUME NEW b \in 1..TIMEBINS
  PROVE  b \in Bins
  BY DEF Bins

\* The step of each bin has a natural number of units.
LEMMA DtiType ==
  ASSUME NEW b \in Bins
  PROVE  Dti[b] \in Nat /\ Dti[b] \div 2 \in Nat
<1>1. Dti[b] \in Nat
  BY TimelineAssumption
<1>2. QED
  BY <1>1, Z3

\* From bin 1 on each bin is twice as long as the one below it, so by
\* induction from a on: longer bins are longer, and multiples.
LEMMA DtiUp ==
  ASSUME NEW a \in 1..TIMEBINS, Dti[a] \in Nat \ {0}, NEW b \in a..TIMEBINS
  PROVE  /\ Dti[b] \in Nat
         /\ Dti[a] <= Dti[b]
         /\ a < b => Dti[a] < Dti[b]
         /\ Dti[b] % Dti[a] = 0
<1> DEFINE Above(n) == /\ Dti[a + n] \in Nat
                       /\ Dti[a] <= Dti[a + n]
                       /\ n # 0 => Dti[a] < Dti[a + n]
                       /\ Dti[a + n] % Dti[a] = 0
<1> DEFINE T == {n \in Nat : a + n <= TIMEBINS => Above(n)}
<1>1. TIMEBINS \in Nat /\ a \in Nat /\ b \in Nat /\ a >= 1
  BY TimelineAssumption
<1>2. 0 \in T
  <2>1. Dti[a] % Dti[a] = 0
    BY Z3
  <2>2. a + 0 = a
    BY <1>1
  <2>3. QED
    BY <2>1, <2>2
<1>3. ASSUME NEW n \in Nat, n \in T PROVE n + 1 \in T
  <2>. SUFFICES ASSUME a + (n + 1) <= TIMEBINS PROVE Above(n + 1)
    OBVIOUS
  <2>1. a + n \in 1..TIMEBINS-1 /\ a + (n + 1) = (a + n) + 1 /\ a + n <= TIMEBINS
    BY <1>1
  <2>2. Dti[a + (n + 1)] = Dti[a + n] + Dti[a + n] /\ Above(n)
    BY <2>1, <1>3, TimelineAssumption
  <2>3. (Dti[a + n] + Dti[a + n]) % Dti[a] = 0
    BY <2>2, ModTwice
  <2> HIDE DEF T
  <2>4. QED
    BY <2>2, <2>3
<1>4. \A n \in Nat : n \in T
  <2> HIDE DEF T
  <2>1. QED
    BY <1>2, <1>3, NatSetInduction
<1>5. b - a \in Nat /\ a + (b - a) = b /\ b <= TIMEBINS /\ (a < b => b - a # 0)
  BY <1>1
<1>6. Above(b - a)
  BY <1>4, <1>5
<1>7. QED
  BY <1>5, <1>6

\* From bin 1 on it has two equal halves.
LEMMA DtiHalves ==
  ASSUME NEW b \in 1..TIMEBINS
  PROVE  /\ Dti[b] \in Nat \ {0}
         /\ Dti[b] \div 2 \in Nat \ {0}
         /\ Dti[b] = Dti[b] \div 2 + Dti[b] \div 2
<1>1. 1 \in 1..TIMEBINS /\ b \in 1..TIMEBINS /\ Dti[1] = 2
  BY TimelineAssumption
<1>2. Dti[b] \in Nat /\ 2 <= Dti[b] /\ Dti[b] % 2 = 0
  BY <1>1, DtiUp
<1>3. QED
  BY <1>2, Z3

\* The step of a bin divides that of a longer one.
LEMMA DtiDivides ==
  ASSUME NEW a \in 1..TIMEBINS, NEW b \in 1..TIMEBINS, a <= b
  PROVE  Dti[b] % Dti[a] = 0
<1>1. b \in a..TIMEBINS
  BY TimelineAssumption
<1>2. QED
  BY <1>1, DtiHalves, DtiUp

\* Longer bins have longer steps.
LEMMA DtiGrows ==
  ASSUME NEW a \in Bins, NEW b \in Bins, a < b
  PROVE  Dti[a] < Dti[b]
<1>1. /\ b \in 1..TIMEBINS
      /\ a # 0 => a \in 1..TIMEBINS /\ b \in a..TIMEBINS
  BY TimelineAssumption DEF Bins
<1>2. Dti[0] = 0 /\ Dti[b] \in Nat \ {0}
  BY <1>1, DtiHalves, TimelineAssumption
<1>3. CASE a = 0
  BY <1>2, <1>3
<1>4. CASE a # 0
  BY <1>1, <1>4, DtiHalves, DtiUp
<1>5. QED
  BY <1>3, <1>4

\* A bin whose step is no longer than that of k is not above k.
LEMMA DtiOrder ==
  ASSUME NEW b \in Bins, NEW k \in Bins, Dti[b] <= Dti[k]
  PROVE  b <= k
<1>1. b \in Int /\ k \in Int /\ Dti[b] \in Nat /\ Dti[k] \in Nat
  BY TimelineAssumption DEF Bins
<1>2. k < b => Dti[k] < Dti[b]
  BY DtiGrows
<1>3. QED
  BY <1>1, <1>2

\* A longer bin has a longer step.
LEMMA DtiMonotone ==
  ASSUME NEW b \in Bins, NEW k \in Bins, b <= k
  PROVE  Dti[b] <= Dti[k]
<1>1. b \in Int /\ k \in Int /\ Dti[b] \in Nat /\ Dti[k] \in Nat
  BY TimelineAssumption DEF Bins
<1>2. b < k => Dti[b] < Dti[k]
  BY DtiGrows
<1>3. QED
  BY <1>1, <1>2

----------------------------------------------------------------------------
(* Which bins are active, and when their steps start.                      *)

\* A bin is active at the multiples of its step.
LEMMA ActiveMod ==
  ASSUME NEW b \in 1..TIMEBINS, NEW t \in Nat
  PROVE  IsActive(b, t) <=> t % Dti[b] = 0
<1>1. 0 % Dti[b] = 0
  BY DtiHalves, Z3
<1>2. QED
  BY <1>1 DEF IsActive

\* A time lies in the step that starts at StepStart.
LEMMA StepStartFacts ==
  ASSUME NEW b \in 1..TIMEBINS, NEW t \in Nat
  PROVE  /\ StepStart(b, t) \in Nat
         /\ StepStart(b, t) <= t
         /\ t < StepStart(b, t) + Dti[b]
         /\ IsActive(b, t) <=> StepStart(b, t) = t
<1> DEFINE r == t % Dti[b]
<1>1. Dti[b] \in Nat \ {0}
  BY DtiHalves
<1>2. r \in Nat /\ r < Dti[b] /\ r <= t
  BY <1>1, ModRange
<1>3. IsActive(b, t) <=> r = 0
  BY ActiveMod
<1>4. StepStart(b, t) = t - r
  BY DEF StepStart
<1> HIDE DEF r
<1>5. QED
  BY <1>1, <1>2, <1>3, <1>4

\* Where a step ends, every shorter one does.
LEMMA ActiveDown ==
  ASSUME NEW a \in 1..TIMEBINS, NEW b \in 1..TIMEBINS, NEW t \in Nat,
         a <= b, IsActive(b, t)
  PROVE  IsActive(a, t)
  BY DtiHalves, DtiDivides, ActiveMod, ModTrans

\* A step of bin b takes the time from one activity of b to the next.
LEMMA ActiveStep ==
  ASSUME NEW b \in 1..TIMEBINS, NEW t \in Nat, IsActive(b, t)
  PROVE  IsActive(b, t + Dti[b])
  BY DtiHalves, ActiveMod, ModStep

\* Between two times when a bin is active lies a step of it.
LEMMA ActiveBetween ==
  ASSUME NEW b \in 1..TIMEBINS, NEW t \in Nat, NEW s \in Nat,
         IsActive(b, t), IsActive(b, s), t < s
  PROVE  t + Dti[b] <= s
  BY DtiHalves, ActiveMod, ModBetween

\* Steps of all bins end at the sync points.
LEMMA SyncActive ==
  ASSUME NEW b \in 1..TIMEBINS, NEW s \in SyncTimes
  PROVE  s \in Nat /\ IsActive(b, s)
<1>1. TIMEBINS \in 1..TIMEBINS
  BY TimelineAssumption
<1>2. TIMEBASE \in Nat \ {0}
  BY <1>1, DtiHalves DEF TIMEBASE
<1>3. PICK i \in Nat : s = i * TIMEBASE
  BY SetupAssumption DEF SyncTimes
<1>4. s \in Nat
  BY <1>2, <1>3
<1>5. s = TIMEBASE * i + 0
  BY <1>2, <1>3
<1>6. s % TIMEBASE = 0
  BY <1>2, <1>5, ModUnique
<1>7. IsActive(TIMEBINS, s)
  BY <1>1, <1>4, <1>6, ActiveMod DEF TIMEBASE
<1>8. QED
  BY <1>1, <1>4, <1>7, ActiveDown, TimelineAssumption

\* After a step of bin a, a longer step either ends too, or is still the one
\* it was.
LEMMA LongerStep ==
  ASSUME NEW a \in 1..TIMEBINS, NEW b \in 1..TIMEBINS, NEW t \in Nat,
         a <= b, IsActive(a, t)
  PROVE  LET u == t + Dti[a] IN
         IF IsActive(b, u) THEN StepStart(b, t) + Dti[b] = u
                           ELSE StepStart(b, u) = StepStart(b, t)
<1> DEFINE u == t + Dti[a]
           r == t % Dti[b]
           s == u % Dti[b]
<1>1. Dti[b] \in Nat \ {0} /\ Dti[a] \in Nat \ {0}
  BY DtiHalves
<1>2. Dti[b] % Dti[a] = 0 /\ t % Dti[a] = 0
  BY DtiDivides, ActiveMod
<1>3. \/ s = 0 /\ r + Dti[a] = Dti[b]
     \/ s = r + Dti[a]
  BY <1>1, <1>2, ModLonger
<1>4. r \in Nat
  BY <1>1, ModRange
<1>5. u \in Nat
  BY <1>1
<1>6. IsActive(b, u) <=> s = 0
  BY <1>5, ActiveMod
<1>7. StepStart(b, t) = t - r /\ StepStart(b, u) = u - s
  BY DEF StepStart
<1> HIDE DEF r, s
<1>8. QED
  BY <1>1, <1>3, <1>4, <1>6, <1>7

----------------------------------------------------------------------------
(* The choice of bins and of the long-range step.                          *)

\* Sync points are integer times.
LEMMA SyncType == SyncTimes \subseteq Int
<1>1. TIMEBASE \in Int
  BY TimelineAssumption DEF TIMEBASE, Bins
<1>2. ASSUME NEW i \in 0..NSyncPoints-1 PROVE i * TIMEBASE \in Int
  BY <1>1, SetupAssumption
<1>3. QED
  BY <1>2 DEF SyncTimes

\* The lengths the long-range step may get are integers.
LEMMA PMLengthsType ==
  ASSUME PM_kick \in Int
  PROVE  PMLengths \subseteq Int
<1>1. \A n \in SyncTimes : n - PM_kick \in Int
  BY SyncType
<1>2. \A b \in Bins : Dti[b] \in Int
  BY DtiType
<1>3. QED
  BY <1>1, <1>2 DEF PMLengths

\* A bin that a step of the old one leads to is one whose step ends now.
LEMMA NewBinActive ==
  ASSUME Ti_Current \in Nat, Ti_Current % Dti[1] = 0,
         NEW old \in Bins, NEW w \in Bins, NEW b \in 1..TIMEBINS,
         IsActive(old, Ti_Current), IsNewBin(b, w, old)
  PROVE  IsActive(b, Ti_Current) /\ b <= w
<1>1. 1 \in 1..TIMEBINS /\ IsActive(1, Ti_Current)
  BY TimelineAssumption, ActiveMod
<1>2. CASE w <= old
  <2>1. b = w /\ b <= old /\ old \in 1..TIMEBINS
    BY <1>2 DEF IsNewBin, Bins
  <2>2. QED
    BY <2>1, ActiveDown
<1>3. CASE w > old
  <2>1. b \in Settled(old) /\ b <= w
    BY <1>3 DEF IsNewBin, Bins
  <2>2. b = old \/ b = 1 \/ IsActive(b, Ti_Current)
    BY <2>1 DEF Settled
  <2>3. QED
    BY <1>1, <2>1, <2>2
<1>4. QED
  BY <1>2, <1>3 DEF Bins

----------------------------------------------------------------------------
(* The flat integrator.                                                    *)

NoBHAtStart == ~SeedAtStart /\ \A p \in Part : InitType[p] # "bh"

\* Before the first time bins are given out.
Fresh == firstStep /\ pc # "kick_begin"

FreshInv ==
  /\ mintimebin = 0 /\ maxtimebin = 0
  /\ PM_length = 0 /\ PM_start = Ti_Current /\ PM_kick = Ti_Current
  /\ Aligned(Ti_Current)
  /\ \A b \in Bins : Ti_kick[b] = Ti_Current
  /\ \A b \in Bins : Ti_lastactivedrift[b] = Ti_Current
  /\ pc # "advance" => isPM /\ Live \subseteq Act
  /\ pc \in {"advance", "kick_end", "physics", "timesteps"}
  /\ \A p \in Part : /\ TimeBinGravity[p] = 0 /\ TimeBinHydro[p] = 0
                     /\ Type[p] # "bh"
                     /\ Ti_kick_grav[p] = Ti_Current
                     /\ Ti_kick_hydro[p] = Ti_Current

\* The kick time the table has for bin b in each phase.
FlatTableInv ==
  \A b \in 1..TIMEBINS :
    LET half == Dti[b] \div 2
        open == StepStart(b, Ti_Current) + half IN
    CASE pc = "advance" ->
           Ti_kick[b] = IF b >= mintimebin THEN open
                        ELSE Ti_Current + Dti[mintimebin] \div 2
      [] pc = "kick_end" ->
           Ti_kick[b] = IF b >= mintimebin
                        THEN IF IsActive(b, Ti_Current) THEN Ti_Current - half
                                                        ELSE open
                        ELSE Ti_Current - Dti[mintimebin] \div 2
      [] OTHER ->
           Ti_kick[b] = IF IsActive(b, Ti_Current) THEN Ti_Current ELSE open

FlatMinInv ==
  pc \in {"advance", "kick_end", "kick_begin"} =>
    /\ mintimebin >= 1
    /\ IsActive(mintimebin, Ti_Current)
    /\ \A p \in Live : mintimebin <= TimeBinGravity[p]
    /\ \E p \in Live : TimeBinGravity[p] = mintimebin

FlatPMInv ==
  /\ \E k \in 1..TIMEBINS :
       /\ PM_length = Dti[k]
       /\ PM_start % Dti[k] = 0
       /\ \A p \in Live : TimeBinGravity[p] <= k
  /\ PM_start \in Nat /\ PM_start <= Ti_Current
  /\ \A s \in SyncTimes : PM_start < s => PMEnd <= s
  /\ pc = "advance" => Ti_Current < PMEnd
  /\ pc \in {"kick_end", "physics", "timesteps"} =>
       Ti_Current <= PMEnd /\ (isPM <=> Ti_Current = PMEnd)
  /\ pc = "kick_begin" => Ti_Current < PMEnd /\ (isPM => PM_start = Ti_Current)
  /\ PM_kick = IF isPM /\ pc \in {"physics", "timesteps"} THEN Ti_Current
               ELSE IF isPM /\ pc = "kick_begin" THEN Ti_Current
               ELSE PM_start + PM_length \div 2

PartInv ==
  \A p \in Live :
    LET bin == TimeBinGravity[p] IN
    /\ bin >= 1
    /\ TimeBinHydro[p] = bin
    /\ Ti_kick_grav[p] = Ti_kick[bin]
    /\ HasHydro(p) => Ti_kick_hydro[p] = Ti_kick[bin]
    /\ Ti_lastactivedrift[bin] = StepStart(bin, Ti_Current)
    /\ pc # "advance" => (p \in Act <=> IsActive(bin, Ti_Current))

ActInv ==
  pc # "advance" =>
    /\ \A b \in 1..TIMEBINS :
         IsActive(b, Ti_Current) => Ti_lastactivedrift[b] = Ti_Current
    /\ Active # {}

RunInv == FlatTableInv /\ FlatMinInv /\ FlatPMInv /\ PartInv /\ ActInv

FlatInv ==
  /\ TypeOK
  /\ pc # "passed_PM"
  /\ Ti_Current % Dti[1] = 0
  /\ Live # {}
  /\ pc \notin Ends => IF Fresh THEN FreshInv ELSE RunInv

----------------------------------------------------------------------------

\* The kicks of a half kick leave every kick time a natural number.
LEMMA HalfKickType ==
  ASSUME TypeOK, HalfKick
  PROVE  TypeOK'
<1> USE DEF TypeOK
<1>1. Ti_kick' \in [Bins -> Nat]
  <2>1. ASSUME NEW b \in Bins PROVE UpdatedKick(b) \in Nat
    BY DtiType DEF UpdatedKick
  <2>2. QED
    BY <2>1 DEF HalfKick, UpdateKickTimes
<1>2. ASSUME NEW b \in Bins, NEW c \in Bins
      PROVE  Ti_kick[b] + Dti[c] \div 2 \in Nat
  BY DtiType
<1>3. Ti_kick_grav' \in [Part -> Nat] /\ Ti_kick_hydro' \in [Part -> Nat]
  BY <1>2 DEF HalfKick, KickParticles
<1>4. PM_length' \in Int /\ PM_start' \in Int
  BY DEF HalfKick, PMHalfKick
<1>5. PM_kick' \in Int
  <2>1. PM_length \div 2 \in Int
    BY Z3
  <2>2. QED
    BY <2>1 DEF HalfKick, PMHalfKick
<1>6. pc' \in Phases
  BY DEF HalfKick, AfterKick, Phases
<1>7. firstStep' \in BOOLEAN
  BY DEF HalfKick
<1>8. QED
  BY <1>1, <1>3, <1>4, <1>5, <1>6, <1>7 DEF HalfKick, kinds, partBins

\* Assigning bins keeps the types.
LEMMA FindTimestepsType ==
  ASSUME TypeOK, FindTimesteps
  PROVE  TypeOK'
<1> USE DEF TypeOK
<1>1. PICK pm \in (IF isPM THEN PMLengths ELSE {PM_length}),
           new \in [Active -> Bins] : AssignBins(new, pm)
  BY DEF FindTimesteps
<1>2. pm \in Int
  BY <1>1, PMLengthsType
<1>3. mintimebin' \in Bins /\ maxtimebin' \in Bins
  BY <1>1 DEF AssignBins
<1>4. TimeBinHydro' \in [Part -> Bins] /\ TimeBinGravity' \in [Part -> Bins]
  BY <1>1 DEF AssignBins
<1>5. PM_length' \in Int
  BY <1>1, <1>2, DtiType DEF AssignBins, ShrunkPM
<1>6. PM_start' \in Int
  BY DEF FindTimesteps
<1>7. pc' \in Phases \cup Ends
  BY DEF FindTimesteps, Phases, Ends
<1>8. QED
  BY <1>3, <1>4, <1>5, <1>6, <1>7 DEF FindTimesteps, clock, kinds, kicks

\* The types hold at the start,
LEMMA TypeInit == Init => TypeOK
<1> SUFFICES ASSUME Init PROVE TypeOK
  OBVIOUS
<1>1. Ti_Current \in Nat
  BY SetupAssumption DEF Init
<1>2. 0 \in Bins
  BY TimelineAssumption DEF Bins
<1>3. Ti_kick \in [Bins -> Nat] /\ Ti_lastactivedrift \in [Bins -> Nat]
  BY <1>1 DEF Init
<1>4. Type \in [Part -> Types] /\ Live \subseteq Part /\ Act \subseteq Part
  BY SetupAssumption DEF Init
<1>5. TimeBinHydro \in [Part -> Bins] /\ TimeBinGravity \in [Part -> Bins]
  BY <1>2 DEF Init
<1>6. Ti_kick_grav \in [Part -> Nat] /\ Ti_kick_hydro \in [Part -> Nat]
  BY <1>1 DEF Init
<1>7. pc \in Phases /\ isPM \in BOOLEAN /\ firstStep \in BOOLEAN
  BY DEF Init, Phases
<1>8. QED
  BY <1>1, <1>2, <1>3, <1>4, <1>5, <1>6, <1>7 DEF Init, TypeOK

\* and after each step.
LEMMA TypeStep == TypeOK /\ [Next]_vars => TypeOK'
<1> SUFFICES ASSUME TypeOK, [Next]_vars PROVE TypeOK'
  OBVIOUS
<1>1. CASE Advance
  <2>1. NextKick \in Nat
    BY DtiType DEF NextKick, TypeOK
  <2>2. Act' \subseteq Part /\ isPM' \in BOOLEAN
    BY <1>1 DEF Advance, ActiveParticles, TypeOK
  <2>3. Ti_lastactivedrift' \in [Bins -> Nat]
    BY <1>1, <2>1 DEF Advance, LastActive, TypeOK
  <2>4. QED
    BY <1>1, <2>1, <2>2, <2>3
    DEF Advance, TypeOK, Phases, Ends, binTimes, pmTimes, kinds, partBins, kicks
<1>2. CASE HalfKick
  BY <1>2, HalfKickType
<1>3. CASE Physics
  <2>1. Live' \subseteq Part /\ pc' \in Phases \cup Ends
    BY <1>3 DEF Physics, TypeOK, Phases, Ends
  <2>2. Type' \in [Part -> Types]
    BY <1>3 DEF Physics, TypeOK, Types
  <2>3. QED
    BY <1>3, <2>1, <2>2
    DEF Physics, TypeOK, clock, binTimes, pmTimes, partBins, kicks
<1>4. CASE FindTimesteps
  BY <1>4, FindTimestepsType
<1>5. CASE UNCHANGED vars
  BY <1>5
  DEF TypeOK, vars, clock, binTimes, pmTimes, kinds, partBins, kicks
<1>6. QED
  BY <1>1, <1>2, <1>3, <1>4, <1>5 DEF Next, Stopped

\* Every variable of the main loop keeps its type.
THEOREM TypeCorrect == Spec => []TypeOK
  BY TypeInit, TypeStep, PTL DEF Spec

----------------------------------------------------------------------------

\* What an assignment of time bins achieves when a step of the bins of each
\* active particle ends now: the new bins are those the particles asked for,
\* a step of each ends now, and none is longer than the long-range step.
Assigned(new) ==
  /\ new \in [Active -> 1..TIMEBINS]
  /\ \A p \in Active : IsActive(new[p], Ti_Current)
  /\ TimeBinGravity' =
       [p \in Part |-> IF p \in Active THEN new[p] ELSE TimeBinGravity[p]]
  /\ TimeBinHydro' =
       [p \in Part |-> IF p \in Active THEN new[p] ELSE TimeBinHydro[p]]
  /\ mintimebin' \in 1..TIMEBINS
  /\ \A p \in Active : mintimebin' <= new[p]
  /\ \E p \in Active : mintimebin' = new[p]
  /\ IF isPM THEN \E k \in 1..TIMEBINS :
                    /\ PM_length' = Dti[k]
                    /\ IsActive(k, Ti_Current)
                    /\ \A p \in Active : new[p] <= k
             ELSE /\ PM_length' = PM_length
                  /\ \A p \in Active : Dti[new[p]] <= PM_length

Assignable ==
  /\ TypeOK
  /\ Active # {}
  /\ Ti_Current % Dti[1] = 0
  /\ \A p \in Active : IsActive(TimeBinHydro[p], Ti_Current)
  /\ \A p \in Part : ~IsBHFirst(p)

\* Only particles whose step ends change their bin, and mintimebin becomes
\* the least occupied one.
LEMMA FindTimestepsAssigns ==
  ASSUME Assignable, FindTimesteps, pc' = "kick_begin"
  PROVE  \E new : Assigned(new)
<1> USE DEF Assignable, TypeOK
<1>1. PICK pm \in (IF isPM THEN PMLengths ELSE {PM_length}),
           new \in [Active -> Bins] :
        /\ \A p \in Active : new[p] \in NewBins(p, pm)
        /\ AssignBins(new, pm)
        /\ \A p \in Active : ~(new[p] < 1)
  BY DEF FindTimesteps
<1>2. new \in [Active -> 1..TIMEBINS]
  BY <1>1 DEF Bins
<1>3. ASSUME NEW p \in Active
      PROVE  /\ IsActive(new[p], Ti_Current)
             /\ Dti[new[p]] <= pm
             /\ MayChange(p, new[p])
  <2>1. PICK w \in WantedBins(pm) : IsNewBin(new[p], w, TimeBinHydro[p])
    BY <1>1 DEF NewBins
  <2>2. w \in Bins /\ Dti[w] <= pm /\ TimeBinHydro[p] \in Bins
    BY <2>1 DEF WantedBins, Active
  <2>3. new[p] \in 1..TIMEBINS /\ new[p] \in Bins
    BY <1>1, <1>2
  <2>4. IsActive(new[p], Ti_Current) /\ new[p] <= w
    BY <2>1, <2>2, <2>3, NewBinActive
  <2>5. Dti[new[p]] <= Dti[w]
    BY <2>2, <2>3, <2>4, DtiMonotone
  <2>6. pm \in Int
    BY <1>1, PMLengthsType
  <2>7. Dti[w] \in Nat /\ Dti[new[p]] \in Nat
    BY <2>2, <2>3, DtiType
  <2>8. QED
    BY <2>2, <2>4, <2>5, <2>6, <2>7 DEF MayChange
<1>4. PICK lo \in Bins, hi \in Bins :
        /\ IsShortest(lo, new)
        /\ IsLongest(hi, new)
        /\ mintimebin' = lo
        /\ maxtimebin' = hi
        /\ TimeBinGravity' = [p \in Part |->
             IF p \in Active /\ MayChange(p, new[p]) THEN new[p]
             ELSE TimeBinGravity[p]]
        /\ TimeBinHydro' = [p \in Part |->
             IF IsBHFirst(p) THEN lo
             ELSE IF p \in Active /\ MayChange(p, new[p]) THEN new[p]
             ELSE TimeBinHydro[p]]
        /\ PM_length' = ShrunkPM(pm, hi)
  BY <1>1 DEF AssignBins
<1>5. TimeBinGravity' =
        [p \in Part |-> IF p \in Active THEN new[p] ELSE TimeBinGravity[p]]
  BY <1>3, <1>4
<1>6. TimeBinHydro' =
        [p \in Part |-> IF p \in Active THEN new[p] ELSE TimeBinHydro[p]]
  BY <1>3, <1>4
<1>7. PICK x \in Active : TRUE
  OBVIOUS
<1>8. /\ mintimebin' \in 1..TIMEBINS
      /\ \A p \in Active : mintimebin' <= new[p]
      /\ \E p \in Active : mintimebin' = new[p]
  <2>1. \A p \in Active : lo <= new[p]
    BY <1>4 DEF IsShortest
  <2>2. lo \in {new[p] : p \in Active} \/ lo = TIMEBINS
    BY <1>4 DEF IsShortest
  <2>3. new[x] \in 1..TIMEBINS /\ lo <= new[x]
    BY <1>2, <1>7, <2>1
  <2>4. lo = TIMEBINS => new[x] = lo
    <3> DEFINE y == new[x]
    <3>1. y \in 1..TIMEBINS /\ lo <= y /\ TIMEBINS \in Nat
      BY <2>3, TimelineAssumption
    <3> HIDE DEF y
    <3>2. lo = TIMEBINS => y = lo
      BY <3>1
    <3>3. QED
      BY <3>2 DEF y
  <2>5. \E p \in Active : lo = new[p]
    BY <1>7, <2>2, <2>4
  <2>6. QED
    BY <1>2, <1>4, <2>1, <2>5
<1>9. /\ hi \in 1..TIMEBINS
      /\ \A p \in Active : new[p] <= hi
      /\ \E p \in Active : hi = new[p]
  <2>1. \A p \in Active : new[p] <= hi
    BY <1>4 DEF IsLongest
  <2>2. hi \in {new[p] : p \in Active} \/ hi = 0
    BY <1>4 DEF IsLongest
  <2>3. new[x] \in 1..TIMEBINS /\ new[x] <= hi
    BY <1>2, <1>7, <2>1
  <2>4. \E p \in Active : hi = new[p]
    BY <2>2, <2>3
  <2>5. QED
    BY <1>2, <2>1, <2>4
<1>10. CASE isPM
  <2>1. Dti[hi] <= pm /\ IsActive(hi, Ti_Current)
    BY <1>3, <1>9
  <2>2. pm \in Int /\ Dti[hi] \in Nat
    BY <1>1, <1>4, PMLengthsType, DtiType
  <2>3. PM_length' = Dti[hi]
    BY <1>4, <1>10, <2>1, <2>2 DEF ShrunkPM
  <2>4. QED
    BY <1>2, <1>3, <1>5, <1>6, <1>8, <1>9, <1>10, <2>1, <2>3 DEF Assigned
<1>11. CASE ~isPM
  <2>1. pm = PM_length /\ PM_length' = PM_length
    BY <1>1, <1>4, <1>11 DEF ShrunkPM
  <2>2. QED
    BY <1>2, <1>3, <1>5, <1>6, <1>8, <1>11, <2>1 DEF Assigned
<1>12. QED
  BY <1>10, <1>11

----------------------------------------------------------------------------
(* The first trip round the loop, up to the first time bins.               *)

\* Everything starts at the time the run starts.
LEMMA FlatInvInit ==
  ASSUME NoBHAtStart, AlignedStart, Init
  PROVE  FlatInv
<1>1. TypeOK
  BY TypeInit
<1>2. pc = "advance" /\ Fresh
  BY DEF Init, Fresh
<1>3. Ti_Current % Dti[1] = 0 /\ Aligned(Ti_Current)
  BY SetupAssumption DEF Init, AlignedStart
<1>4. Live # {}
  BY SetupAssumption DEF Init
<1>5. 0 \in Bins
  BY TimelineAssumption DEF Bins
<1>6. FreshInv
  BY <1>3, <1>5 DEF Init, FreshInv, NoBHAtStart
<1>7. QED
  BY <1>1, <1>2, <1>3, <1>4, <1>6 DEF FlatInv

\* Before the first bins are given out no time passes,
LEMMA FreshAdvance ==
  ASSUME TypeOK, Fresh, FreshInv, Advance
  PROVE  Fresh' /\ FreshInv' /\ pc' = "kick_end" /\ Ti_Current' = Ti_Current
<1> USE DEF TypeOK
<1>1. Dti[mintimebin] = 0
  BY TimelineAssumption DEF FreshInv
<1>2. NextKick = Ti_Current /\ PMEnd = Ti_Current
  BY <1>1 DEF NextKick, PMEnd, FreshInv
<1>3. /\ pc' = "kick_end" /\ Ti_Current' = Ti_Current
      /\ isPM' = (NextKick = PMEnd)
      /\ Act' = ActiveParticles(isPM', NextKick)
      /\ Ti_lastactivedrift' = [b \in Bins |->
           IF IsActive(b, NextKick) THEN NextKick ELSE Ti_lastactivedrift[b]]
  <2>1. ~(NextKick > PMEnd)
    BY <1>2
  <2>2. QED
    BY <1>2, <2>1 DEF Advance, LastActive
<1>4. isPM' /\ Act' = Live
  <2>1. isPM' = TRUE
    BY <1>2, <1>3
  <2>2. QED
    BY <1>3, <2>1 DEF ActiveParticles
<1>5. \A b \in Bins : Ti_lastactivedrift'[b] = Ti_Current
  BY <1>2, <1>3 DEF FreshInv
<1>6. /\ UNCHANGED <<firstStep, mintimebin, maxtimebin, PM_length, PM_start,
                     PM_kick, Ti_kick, Live, Type>>
      /\ UNCHANGED <<TimeBinHydro, TimeBinGravity, Ti_kick_grav, Ti_kick_hydro>>
  BY DEF Advance, binTimes, pmTimes, kinds, partBins, kicks
<1>7. QED
  BY <1>3, <1>4, <1>5, <1>6 DEF FreshInv, Fresh

\* the half kicks have no length,
LEMMA FreshHalfKick ==
  ASSUME TypeOK, Fresh, FreshInv, HalfKick
  PROVE  Fresh' /\ FreshInv' /\ pc' = "physics"
<1> USE DEF TypeOK
<1>1. pc = "kick_end" /\ firstStep
  BY DEF HalfKick, Fresh
<1>2. 0 \in Bins /\ Dti[0] \div 2 = 0 /\ PM_length \div 2 = 0
  BY TimelineAssumption, Z3 DEF Bins, FreshInv
<1>3. Ti_kick_grav' = [p \in Part |-> Ti_Current]
  BY <1>2 DEF HalfKick, KickParticles, FreshInv
<1>4. Ti_kick_hydro' = [p \in Part |-> Ti_Current]
  BY <1>2 DEF HalfKick, KickParticles, FreshInv
<1>5. \A b \in Bins : Ti_kick'[b] = Ti_Current
  BY DEF HalfKick, UpdateKickTimes, UpdatedKick, FreshInv
<1>6. PM_kick' = PM_kick /\ PM_length' = PM_length /\ PM_start' = PM_start
  BY <1>2 DEF HalfKick, PMHalfKick, FreshInv
<1>7. pc' = "physics" /\ firstStep'
  BY <1>1 DEF HalfKick, AfterKick
<1>8. UNCHANGED <<Ti_Current, isPM, Act, Ti_lastactivedrift, mintimebin,
                  maxtimebin, Live, Type, TimeBinHydro, TimeBinGravity>>
  BY DEF HalfKick, kinds, partBins
<1>9. isPM /\ Live \subseteq Act
  BY <1>1 DEF FreshInv
<1>10. /\ mintimebin' = 0 /\ maxtimebin' = 0
       /\ PM_length' = 0 /\ PM_start' = Ti_Current' /\ PM_kick' = Ti_Current'
       /\ Aligned(Ti_Current')
       /\ \A b \in Bins : Ti_lastactivedrift'[b] = Ti_Current'
  BY <1>6, <1>8 DEF FreshInv
<1>11. \A p \in Part : /\ TimeBinGravity'[p] = 0 /\ TimeBinHydro'[p] = 0
                       /\ Type'[p] # "bh"
                       /\ Ti_kick_grav'[p] = Ti_Current'
                       /\ Ti_kick_hydro'[p] = Ti_Current'
  BY <1>3, <1>4, <1>8 DEF FreshInv
<1>12. Fresh'
  BY <1>7 DEF Fresh
<1>13. (\A b \in Bins : Ti_kick'[b] = Ti_Current') /\ isPM' /\ Live' \subseteq Act'
  BY <1>5, <1>8, <1>9
<1>14. FreshInv'
  BY <1>7, <1>10, <1>11, <1>13 DEF FreshInv
<1>15. QED
  BY <1>7, <1>12, <1>14

\* Some active particle survives the physics.
LEMMA PhysicsSurvivor ==
  ASSUME TypeOK, Physics, Active # {}
  PROVE  Live' \subseteq Live /\ Active' # {} /\ Live' # {}
<1>1. PICK seeds \in SUBSET {p \in Live : Type[p] = "gas"} :
      \E stars \in SUBSET {p \in Active : Type[p] = "gas" /\ p \notin seeds} :
      \E eaten \in SUBSET {p \in Live : HasHydro(p) /\ p \notin stars} :
        /\ eaten # {} => \E h \in Active \ eaten : Type[h] = "bh" \/ h \in seeds
        /\ Live' = Live \ eaten
  BY DEF Physics
<1>2. PICK eaten \in SUBSET Live :
        /\ eaten # {} => \E h \in Active \ eaten : TRUE
        /\ Live' = Live \ eaten
  BY <1>1
<1>3. Act' = Act
  BY DEF Physics, clock
<1>4. PICK h \in Active : h \notin eaten
  BY <1>2
<1>5. QED
  BY <1>2, <1>3, <1>4 DEF Active

\* the physics changes no time,
LEMMA FreshPhysics ==
  ASSUME NoBHAtStart, TypeOK, Fresh, FreshInv, Physics
  PROVE  \/ Fresh' /\ FreshInv'
         \/ pc' \in Ends
<1> USE DEF TypeOK
<1>1. PICK seeds \in SUBSET {p \in Live : Type[p] = "gas"} :
      \E stars \in SUBSET {p \in Active : Type[p] = "gas" /\ p \notin seeds} :
      \E eaten \in SUBSET {p \in Live : HasHydro(p) /\ p \notin stars} :
       /\ seeds # {} => isPM /\ (firstStep => SeedAtStart)
       /\ Live' = Live \ eaten
       /\ Type' = [p \in Part |-> IF p \in seeds THEN "bh"
                                  ELSE IF p \in stars THEN "star" ELSE Type[p]]
  BY DEF Physics
<1>2. seeds = {}
  BY <1>1 DEF Fresh, NoBHAtStart
<1>3. \A p \in Part : Type'[p] # "bh"
  BY <1>1, <1>2 DEF FreshInv
<1>4. Live' \subseteq Live
  BY <1>1
<1>5. pc' = "timesteps" \/ pc' \in Ends
  BY DEF Physics, Ends
<1>6. /\ UNCHANGED <<Ti_Current, isPM, firstStep, Act, Ti_lastactivedrift,
                     Ti_kick, mintimebin, maxtimebin, PM_length, PM_start>>
      /\ UNCHANGED <<PM_kick, TimeBinHydro, TimeBinGravity, Ti_kick_grav,
                     Ti_kick_hydro>>
  BY DEF Physics, clock, binTimes, pmTimes, partBins, kicks
<1>7. isPM /\ Live \subseteq Act
  BY DEF Physics, FreshInv
<1>8. QED
  BY <1>3, <1>4, <1>5, <1>6, <1>7 DEF FreshInv, Fresh

----------------------------------------------------------------------------
(* New time bins.                                                          *)

\* What both the first and a later assignment of time bins start from.
Ready ==
  /\ Assignable
  /\ FlatTableInv /\ ActInv /\ pc = "timesteps"
  /\ \A p \in Active : /\ Ti_kick_grav[p] = Ti_Current
                       /\ HasHydro(p) => Ti_kick_hydro[p] = Ti_Current
  /\ \A p \in Live \ Act :
       LET bin == TimeBinGravity[p] IN
       /\ bin \in 1..TIMEBINS /\ TimeBinHydro[p] = bin
       /\ ~IsActive(bin, Ti_Current)
       /\ Ti_kick_grav[p] = Ti_kick[bin]
       /\ HasHydro(p) => Ti_kick_hydro[p] = Ti_kick[bin]
       /\ Ti_lastactivedrift[bin] = StepStart(bin, Ti_Current)
  /\ isPM  => PM_kick = Ti_Current /\ Live \subseteq Act
  /\ ~isPM => FlatPMInv /\ Ti_Current < PMEnd

\* and every particle is at the start of its step.
LEMMA FreshReady ==
  ASSUME Fresh, FreshInv, TypeOK, Live # {}, Ti_Current % Dti[1] = 0,
         FindTimesteps
  PROVE  Ready
<1> USE DEF TypeOK
<1>1. pc = "timesteps"
  BY DEF FindTimesteps
<1>2. isPM /\ Live \subseteq Act
  BY <1>1 DEF FreshInv
<1>3. Active = Live
  BY <1>2 DEF Active
<1>4. Assignable
  BY <1>3 DEF Assignable, FreshInv, IsActive, IsBHFirst, Active
<1>5. FlatTableInv
  <2>1. ASSUME NEW b \in 1..TIMEBINS
        PROVE  Ti_kick[b] = IF IsActive(b, Ti_Current) THEN Ti_Current
                            ELSE StepStart(b, Ti_Current) + Dti[b] \div 2
    <3> DEFINE r == Ti_Current % Dti[b]
    <3>1. r = 0 \/ r = Dti[b] \div 2
      BY DEF FreshInv, Aligned
    <3>2. IsActive(b, Ti_Current) <=> r = 0
      BY ActiveMod
    <3>3. StepStart(b, Ti_Current) = Ti_Current - r
      BY DEF StepStart
    <3>4. b \in Bins /\ Ti_kick[b] = Ti_Current
      BY DEF FreshInv, Bins
    <3>5. Dti[b] \div 2 \in Nat
      BY DtiHalves
    <3> HIDE DEF r
    <3>6. QED
      BY <3>1, <3>2, <3>3, <3>4, <3>5
  <2>2. QED
    BY <1>1, <2>1 DEF FlatTableInv
<1>6. ActInv
  BY <1>3 DEF ActInv, FreshInv, Bins
<1>7. \A p \in Active : /\ Ti_kick_grav[p] = Ti_Current
                        /\ HasHydro(p) => Ti_kick_hydro[p] = Ti_Current
  BY DEF FreshInv, Active
<1>8. PM_kick = Ti_Current /\ Live \ Act = {}
  BY <1>2 DEF FreshInv
<1>9. QED
  BY <1>1, <1>2, <1>4, <1>5, <1>6, <1>7, <1>8 DEF Ready

\* At the end of the long-range step a step of every particle ends.
LEMMA FlatPMAllActive ==
  ASSUME TypeOK, FlatPMInv, PartInv, Ti_Current = PMEnd
  PROVE  \A p \in Live : IsActive(TimeBinGravity[p], Ti_Current)
<1>1. PICK k \in 1..TIMEBINS :
        /\ PM_length = Dti[k]
        /\ PM_start % Dti[k] = 0
        /\ \A p \in Live : TimeBinGravity[p] <= k
  BY DEF FlatPMInv
<1>2. PM_start \in Nat
  BY DEF FlatPMInv
<1>3. IsActive(k, Ti_Current)
  BY <1>1, <1>2, ActiveMod, ActiveStep DEF PMEnd
<1>4. ASSUME NEW p \in Live PROVE TimeBinGravity[p] \in 1..TIMEBINS
  BY DEF PartInv, TypeOK, Bins
<1>5. QED
  BY <1>1, <1>3, <1>4, ActiveDown DEF TypeOK

\* The same where later steps end,
LEMMA RunReady ==
  ASSUME ~Fresh, RunInv, TypeOK, Ti_Current % Dti[1] = 0, FindTimesteps
  PROVE  Ready
<1> USE DEF TypeOK, RunInv
<1>1. pc = "timesteps" /\ ~firstStep
  BY DEF FindTimesteps, Fresh
<1>2. ASSUME NEW p \in Live
      PROVE  /\ TimeBinGravity[p] \in 1..TIMEBINS
             /\ TimeBinHydro[p] = TimeBinGravity[p]
             /\ p \in Act <=> IsActive(TimeBinGravity[p], Ti_Current)
             /\ Ti_kick_grav[p] = Ti_kick[TimeBinGravity[p]]
             /\ HasHydro(p) => Ti_kick_hydro[p] = Ti_kick[TimeBinGravity[p]]
             /\ Ti_lastactivedrift[TimeBinGravity[p]] =
                  StepStart(TimeBinGravity[p], Ti_Current)
  BY <1>1 DEF PartInv, Bins
<1>3. ASSUME NEW b \in 1..TIMEBINS, IsActive(b, Ti_Current)
      PROVE  Ti_kick[b] = Ti_Current
  BY <1>1, <1>3 DEF FlatTableInv
<1>4. Assignable
  BY <1>1, <1>2 DEF Assignable, ActInv, Active, IsBHFirst
<1>5. \A p \in Active : /\ Ti_kick_grav[p] = Ti_Current
                        /\ HasHydro(p) => Ti_kick_hydro[p] = Ti_Current
  BY <1>2, <1>3 DEF Active
<1>6. isPM => PM_kick = Ti_Current /\ Live \subseteq Act
  BY <1>1, <1>2, FlatPMAllActive DEF FlatPMInv
<1>7. ~isPM => FlatPMInv /\ Ti_Current < PMEnd
  BY <1>1 DEF FlatPMInv, PMEnd
<1>8. QED
  BY <1>1, <1>2, <1>4, <1>5, <1>6, <1>7 DEF Ready

\* so that new bins start in step with the table.
LEMMA ReadyFind ==
  ASSUME Ready, FindTimesteps, pc' = "kick_begin"
  PROVE  RunInv'
<1> USE DEF Ready, Assignable, TypeOK
<1>1. PICK new : Assigned(new)
  BY FindTimestepsAssigns
<1>2. /\ UNCHANGED <<Ti_Current, isPM, firstStep, Act, Ti_lastactivedrift,
                     Ti_kick, PM_kick, Live, Type, Ti_kick_grav,
                     Ti_kick_hydro>>
      /\ PM_start' = IF isPM THEN PM_kick ELSE PM_start
  BY DEF FindTimesteps, clock, kinds, kicks
<1>3. ASSUME NEW p \in Active
      PROVE  /\ new[p] \in 1..TIMEBINS
             /\ IsActive(new[p], Ti_Current)
             /\ TimeBinGravity'[p] = new[p] /\ TimeBinHydro'[p] = new[p]
             /\ p \in Part /\ p \in Live /\ p \in Act
  BY <1>1 DEF Assigned, Active
<1>4. ASSUME NEW p \in Live \ Act
      PROVE  /\ TimeBinGravity'[p] = TimeBinGravity[p]
             /\ TimeBinHydro'[p] = TimeBinHydro[p]
             /\ p \in Part
  BY <1>1 DEF Assigned, Active
<1>5. Live = Active \cup (Live \ Act)
  BY DEF Active
<1>6. FlatTableInv'
  BY <1>2 DEF FlatTableInv
<1>7. FlatMinInv'
  <2>1. PICK x \in Active : mintimebin' = new[x]
    BY <1>1 DEF Assigned
  <2>2. mintimebin' \in 1..TIMEBINS /\ IsActive(mintimebin', Ti_Current)
    BY <1>3, <2>1
  <2>3. x \in Live /\ TimeBinGravity'[x] = mintimebin'
    BY <1>3, <2>1
  <2>4. ASSUME NEW p \in Live
        PROVE  mintimebin' <= TimeBinGravity'[p]
    <3>1. CASE p \in Active
      BY <1>1, <1>3, <3>1 DEF Assigned
    <3>2. CASE p \in Live \ Act
      <4> DEFINE bin == TimeBinGravity[p]
      <4>1. bin \in 1..TIMEBINS /\ ~IsActive(bin, Ti_Current)
        BY <3>2
      <4>2. ~(bin <= mintimebin')
        BY <2>2, <4>1, ActiveDown
      <4>3. TimeBinGravity'[p] = bin
        BY <1>4, <3>2
      <4> HIDE DEF bin
      <4>4. QED
        BY <2>2, <4>1, <4>2, <4>3
    <3>3. QED
      BY <1>5, <3>1, <3>2
  <2>5. QED
    BY <1>2, <2>2, <2>3, <2>4 DEF FlatMinInv
<1>8. FlatPMInv'
  <2>1. CASE isPM
    <3>1. PICK k \in 1..TIMEBINS :
            /\ PM_length' = Dti[k]
            /\ IsActive(k, Ti_Current)
            /\ \A p \in Active : new[p] <= k
      BY <1>1, <2>1 DEF Assigned
    <3>2. PM_start' = Ti_Current /\ PM_kick' = Ti_Current
      BY <1>2, <2>1
    <3>3. PM_start' % Dti[k] = 0
      BY <3>1, <3>2, ActiveMod
    <3>4. \A p \in Live' : TimeBinGravity'[p] <= k
      BY <1>2, <1>3, <1>5, <2>1, <3>1
    <3>5. PMEnd' = Ti_Current + Dti[k] /\ Dti[k] \in Nat \ {0}
      BY <3>1, <3>2, DtiHalves DEF PMEnd
    <3>6. ASSUME NEW s \in SyncTimes, PM_start' < s
          PROVE  PMEnd' <= s
      BY <3>1, <3>2, <3>5, <3>6, SyncActive, ActiveBetween
    <3>7. Ti_Current' < PMEnd'
      BY <1>2, <3>5
    <3>8. isPM' /\ Ti_Current' = Ti_Current
      BY <1>2, <2>1
    <3>9. QED
      BY <3>1, <3>2, <3>3, <3>4, <3>6, <3>7, <3>8 DEF FlatPMInv
  <2>2. CASE ~isPM
    <3>1. UNCHANGED <<PM_length, PM_start, PM_kick, isPM, Ti_Current, Live>>
      BY <1>1, <1>2, <2>2 DEF Assigned
    <3>2. PICK k \in 1..TIMEBINS :
            /\ PM_length = Dti[k]
            /\ PM_start % Dti[k] = 0
            /\ \A p \in Live : TimeBinGravity[p] <= k
      BY <2>2 DEF FlatPMInv
    <3>3. ASSUME NEW p \in Live
          PROVE  TimeBinGravity'[p] <= k
      <4>1. CASE p \in Active
        <5>1. Dti[new[p]] <= Dti[k]
          BY <1>1, <2>2, <3>2, <4>1 DEF Assigned
        <5>2. new[p] \in Bins /\ k \in Bins
          BY <1>3, <4>1, BinsUp
        <5>3. new[p] <= k
          BY <5>1, <5>2, DtiOrder
        <5>4. QED
          BY <1>3, <4>1, <5>3
      <4>2. CASE p \in Live \ Act
        BY <1>4, <3>2, <4>2
      <4>3. QED
        BY <1>5, <4>1, <4>2
    <3>4. PMEnd' = PMEnd
      BY <3>1 DEF PMEnd
    <3>5. \E j \in 1..TIMEBINS :
            /\ PM_length' = Dti[j]
            /\ PM_start' % Dti[j] = 0
            /\ \A p \in Live' : TimeBinGravity'[p] <= j
      BY <3>1, <3>2, <3>3
    <3>6. QED
      BY <2>2, <3>1, <3>4, <3>5 DEF FlatPMInv
  <2>3. QED
    BY <2>1, <2>2
<1>9. PartInv'
  <2>1. ASSUME NEW p \in Active
        PROVE  LET bin == TimeBinGravity'[p] IN
               /\ bin >= 1
               /\ TimeBinHydro'[p] = bin
               /\ Ti_kick_grav'[p] = Ti_kick'[bin]
               /\ HasHydro(p)' => Ti_kick_hydro'[p] = Ti_kick'[bin]
               /\ Ti_lastactivedrift'[bin] = StepStart(bin, Ti_Current')
               /\ p \in Act' <=> IsActive(bin, Ti_Current')
    <3> DEFINE b == new[p]
    <3>1. b \in 1..TIMEBINS /\ IsActive(b, Ti_Current)
      BY <1>3
    <3>2. Ti_kick[b] = Ti_Current
      BY <3>1 DEF FlatTableInv
    <3>3. Ti_lastactivedrift[b] = Ti_Current
      BY <3>1 DEF ActInv
    <3>4. StepStart(b, Ti_Current) = Ti_Current
      BY <3>1, StepStartFacts
    <3>5. TimeBinGravity'[p] = b /\ TimeBinHydro'[p] = b /\ p \in Act
      BY <1>3
    <3> HIDE DEF b
    <3>6. QED
      BY <1>2, <3>1, <3>2, <3>3, <3>4, <3>5 DEF HasHydro
  <2>2. ASSUME NEW p \in Live \ Act
        PROVE  LET bin == TimeBinGravity'[p] IN
               /\ bin >= 1
               /\ TimeBinHydro'[p] = bin
               /\ Ti_kick_grav'[p] = Ti_kick'[bin]
               /\ HasHydro(p)' => Ti_kick_hydro'[p] = Ti_kick'[bin]
               /\ Ti_lastactivedrift'[bin] = StepStart(bin, Ti_Current')
               /\ p \in Act' <=> IsActive(bin, Ti_Current')
    BY <1>2, <1>4 DEF HasHydro
  <2>3. QED
    BY <1>2, <1>5, <2>1, <2>2 DEF PartInv
<1>10. ActInv'
  BY <1>2 DEF ActInv, Active
<1>11. QED
  BY <1>6, <1>7, <1>8, <1>9, <1>10 DEF RunInv

----------------------------------------------------------------------------
(* Every later trip round the loop.                                        *)

\* The next kick is within the long-range step, and a step of the shortest
\* occupied bin ends there.
LEMMA NextKickBound ==
  ASSUME TypeOK, RunInv, pc = "advance"
  PROVE  /\ mintimebin \in 1..TIMEBINS
         /\ NextKick \in Nat /\ Ti_Current < NextKick /\ NextKick <= PMEnd
         /\ IsActive(mintimebin, NextKick)
<1> USE DEF TypeOK, RunInv
<1>1. /\ mintimebin \in 1..TIMEBINS
      /\ IsActive(mintimebin, Ti_Current)
      /\ \A p \in Live : mintimebin <= TimeBinGravity[p]
      /\ \E p \in Live : TimeBinGravity[p] = mintimebin
  BY DEF FlatMinInv, Bins
<1>2. PICK k \in 1..TIMEBINS :
        /\ PM_length = Dti[k]
        /\ PM_start % Dti[k] = 0
        /\ \A p \in Live : TimeBinGravity[p] <= k
  BY DEF FlatPMInv
<1>3. mintimebin <= k
  BY <1>1, <1>2
<1>4. PM_start \in Nat /\ Ti_Current < PMEnd
  BY DEF FlatPMInv
<1>5. PMEnd \in Nat /\ IsActive(k, PMEnd)
  <2>1. PMEnd = PM_start + Dti[k] /\ Dti[k] \in Nat
    BY <1>2, DtiHalves DEF PMEnd
  <2>2. IsActive(k, PM_start)
    BY <1>2, <1>4, ActiveMod
  <2>3. QED
    BY <1>4, <2>1, <2>2, ActiveStep
<1>6. IsActive(mintimebin, PMEnd)
  BY <1>1, <1>2, <1>3, <1>5, ActiveDown
<1>7. NextKick <= PMEnd
  BY <1>1, <1>4, <1>5, <1>6, ActiveBetween DEF NextKick
<1>8. Dti[mintimebin] \in Nat \ {0} /\ IsActive(mintimebin, NextKick)
  BY <1>1, DtiHalves, ActiveStep DEF NextKick
<1>9. QED
  BY <1>1, <1>7, <1>8 DEF NextKick

\* The clock goes to the next kick of the shortest occupied bin.
LEMMA RunAdvance ==
  ASSUME TypeOK, RunInv, Advance
  PROVE  RunInv' /\ pc' = "kick_end" /\ Ti_Current' % Dti[1] = 0
<1> USE DEF TypeOK, RunInv
<1> DEFINE u == NextKick
           m == mintimebin
<1>1. pc = "advance"
  BY DEF Advance
<1>2. /\ m \in 1..TIMEBINS
      /\ u \in Nat /\ Ti_Current < u /\ u <= PMEnd
      /\ IsActive(m, u)
      /\ u = Ti_Current + Dti[m]
  BY <1>1, NextKickBound DEF NextKick
<1>3. /\ pc' = "kick_end" /\ Ti_Current' = u
      /\ isPM' = (u = PMEnd)
      /\ Act' = ActiveParticles(isPM', u)
      /\ Ti_lastactivedrift' = [b \in Bins |->
           IF IsActive(b, u) THEN u ELSE Ti_lastactivedrift[b]]
  <2>1. ~(u > PMEnd)
    BY <1>2 DEF PMEnd
  <2>2. QED
    BY <2>1 DEF Advance, LastActive
<1>4. /\ UNCHANGED <<firstStep, mintimebin, maxtimebin, PM_length, PM_start,
                     PM_kick, Ti_kick, Live, Type>>
      /\ UNCHANGED <<TimeBinHydro, TimeBinGravity, Ti_kick_grav, Ti_kick_hydro>>
  BY DEF Advance, binTimes, pmTimes, kinds, partBins, kicks
<1>5. IsActive(m, Ti_Current) /\ \A p \in Live : m <= TimeBinGravity[p]
  BY <1>1 DEF FlatMinInv
<1>6. ASSUME NEW b \in 1..TIMEBINS, m <= b
      PROVE  IF IsActive(b, u) THEN StepStart(b, Ti_Current) + Dti[b] = u
             ELSE StepStart(b, u) = StepStart(b, Ti_Current)
  BY <1>2, <1>5, <1>6, LongerStep
<1>7. \A p \in Live : TimeBinGravity[p] \in 1..TIMEBINS
  BY DEF PartInv, Bins
<1> HIDE DEF u
<1>8. FlatTableInv'
  <2>1. ASSUME NEW b \in 1..TIMEBINS
        PROVE  Ti_kick[b] = IF b >= m
                            THEN IF IsActive(b, u) THEN u - Dti[b] \div 2
                                 ELSE StepStart(b, u) + Dti[b] \div 2
                            ELSE u - Dti[m] \div 2
    <3>1. Ti_kick[b] = IF b >= m
                       THEN StepStart(b, Ti_Current) + Dti[b] \div 2
                       ELSE Ti_Current + Dti[m] \div 2
      BY <1>1 DEF FlatTableInv
    <3>2. /\ Dti[b] \div 2 \in Nat /\ Dti[b] = Dti[b] \div 2 + Dti[b] \div 2
          /\ Dti[m] \div 2 \in Nat /\ Dti[m] = Dti[m] \div 2 + Dti[m] \div 2
      BY <1>2, DtiHalves
    <3>3. StepStart(b, Ti_Current) \in Nat
      BY StepStartFacts
    <3>4. CASE b >= m
      BY <1>2, <1>6, <3>1, <3>2, <3>3, <3>4
    <3>5. CASE ~(b >= m)
      BY <1>2, <3>1, <3>2, <3>5
    <3>6. QED
      BY <3>4, <3>5
  <2>2. QED
    BY <1>3, <1>4, <2>1 DEF FlatTableInv
<1>9. FlatMinInv'
  BY <1>1, <1>2, <1>3, <1>4 DEF FlatMinInv
<1>10. PMEnd' = PMEnd
  BY <1>4 DEF PMEnd
<1>11. FlatPMInv'
  <2>1. /\ PM_start \in Nat /\ PM_start <= u
        /\ \A s \in SyncTimes : PM_start < s => PMEnd <= s
        /\ PM_kick = PM_start + PM_length \div 2
    BY <1>1, <1>2 DEF FlatPMInv
  <2>2. u <= PMEnd /\ (isPM' <=> u = PMEnd)
    BY <1>2, <1>3
  <2>3. QED
    BY <1>3, <1>4, <1>10, <2>1, <2>2 DEF FlatPMInv
<1>12. ASSUME NEW p \in Live
       PROVE  p \in Act' <=> IsActive(TimeBinGravity[p], u)
  <2>1. isPM' => IsActive(TimeBinGravity[p], u)
    <3>1. PICK k \in 1..TIMEBINS :
            /\ PM_length = Dti[k]
            /\ PM_start % Dti[k] = 0
            /\ \A q \in Live : TimeBinGravity[q] <= k
      BY DEF FlatPMInv
    <3>2. PM_start \in Nat
      BY DEF FlatPMInv
    <3>3. IsActive(k, PMEnd)
      BY <3>1, <3>2, ActiveMod, ActiveStep DEF PMEnd
    <3>4. isPM' => u = PMEnd
      BY <1>3
    <3>5. QED
      BY <1>2, <1>7, <3>1, <3>3, <3>4, ActiveDown
  <2>2. TimeBinHydro[p] = TimeBinGravity[p]
    BY DEF PartInv
  <2>3. p \in Act' <=> \/ isPM'
                       \/ IsActive(TimeBinGravity[p], u)
                       \/ HasHydro(p) /\ IsActive(TimeBinHydro[p], u)
    BY <1>3 DEF ActiveParticles
  <2>4. QED
    BY <2>1, <2>2, <2>3
<1>13. PartInv'
  <2>1. ASSUME NEW p \in Live
        PROVE  LET bin == TimeBinGravity[p] IN
               /\ bin >= 1 /\ TimeBinHydro[p] = bin
               /\ Ti_kick_grav[p] = Ti_kick[bin]
               /\ HasHydro(p)' => Ti_kick_hydro[p] = Ti_kick[bin]
               /\ Ti_lastactivedrift'[bin] = StepStart(bin, u)
    <3> DEFINE b == TimeBinGravity[p]
    <3>1. /\ TimeBinHydro[p] = b
          /\ Ti_kick_grav[p] = Ti_kick[b]
          /\ HasHydro(p)' => Ti_kick_hydro[p] = Ti_kick[b]
          /\ Ti_lastactivedrift[b] = StepStart(b, Ti_Current)
      BY <1>4 DEF PartInv, HasHydro
    <3>2. b \in 1..TIMEBINS /\ b \in Bins /\ m <= b
      BY <1>5, <1>7, BinsUp
    <3>3. IsActive(b, u) => StepStart(b, u) = u
      BY <1>2, <3>2, StepStartFacts
    <3>4. Ti_lastactivedrift'[b] = StepStart(b, u)
      BY <1>3, <1>6, <3>1, <3>2, <3>3
    <3>5. QED
      BY <3>1, <3>2, <3>4
  <2>2. QED
    BY <1>3, <1>4, <1>12, <2>1 DEF PartInv
<1>14. ActInv'
  <2>1. \A b \in 1..TIMEBINS : IsActive(b, u) => Ti_lastactivedrift'[b] = u
    BY <1>3, BinsUp
  <2>2. PICK p \in Live : TimeBinGravity[p] = m
    BY <1>1 DEF FlatMinInv
  <2>3. p \in Act'
    BY <1>2, <1>12, <2>2
  <2>4. QED
    BY <1>3, <1>4, <2>1, <2>2, <2>3 DEF ActInv, Active
<1>15. u % Dti[1] = 0
  <2>1. 1 \in 1..TIMEBINS /\ 1 <= m
    BY <1>2, TimelineAssumption
  <2>2. IsActive(1, u)
    BY <1>2, <2>1, ActiveDown
  <2>3. QED
    BY <1>2, <2>1, <2>2, ActiveMod
<1>16. QED
  BY <1>3, <1>8, <1>9, <1>11, <1>13, <1>14, <1>15

\* A half kick moves each particle as it moves the table of its bin.
LEMMA RunHalfKick ==
  ASSUME TypeOK, ~Fresh, RunInv, HalfKick
  PROVE  RunInv' /\ pc' = AfterKick
<1> USE DEF TypeOK, RunInv
<1> DEFINE m == mintimebin
           t == Ti_Current
<1>1. pc \in {"kick_end", "kick_begin"} /\ pc' = AfterKick
  BY DEF HalfKick
<1>2. UNCHANGED <<Ti_Current, isPM, Act, Ti_lastactivedrift, mintimebin,
                  maxtimebin, Live, Type, TimeBinHydro, TimeBinGravity>>
  BY DEF HalfKick, kinds, partBins
<1>3. m \in 1..TIMEBINS /\ IsActive(m, t) /\ \A p \in Live : m <= TimeBinGravity[p]
  BY <1>1 DEF FlatMinInv, Bins
<1>4. ASSUME NEW b \in 1..TIMEBINS
      PROVE  Ti_kick'[b] = IF b >= m
                           THEN IF IsActive(b, t) THEN Ti_kick[b] + Dti[b] \div 2
                                                  ELSE Ti_kick[b]
                           ELSE Ti_kick[b] + Dti[m] \div 2
  <2>1. b \in Bins /\ b >= 1 /\ ~(m = 0)
    BY <1>3, BinsUp
  <2>2. QED
    BY <2>1 DEF HalfKick, UpdateKickTimes, UpdatedKick
<1>5. ASSUME NEW p \in Live
      PROVE  /\ TimeBinGravity[p] \in 1..TIMEBINS
             /\ TimeBinHydro[p] = TimeBinGravity[p]
             /\ Ti_kick_grav[p] = Ti_kick[TimeBinGravity[p]]
             /\ HasHydro(p) => Ti_kick_hydro[p] = Ti_kick[TimeBinGravity[p]]
             /\ p \in Act <=> IsActive(TimeBinGravity[p], t)
  BY <1>1 DEF PartInv, Bins
<1>6. FlatTableInv'
  <2>1. ASSUME NEW b \in 1..TIMEBINS
        PROVE  Ti_kick'[b] =
                 IF pc = "kick_begin"
                 THEN IF b >= m THEN StepStart(b, t) + Dti[b] \div 2
                                ELSE t + Dti[m] \div 2
                 ELSE IF IsActive(b, t) THEN t
                                        ELSE StepStart(b, t) + Dti[b] \div 2
    <3>1. /\ Dti[b] \div 2 \in Nat
          /\ Dti[m] \div 2 \in Nat
      BY <1>3, DtiHalves
    <3>2. IsActive(b, t) => StepStart(b, t) = t
      BY StepStartFacts
    <3>3. b < m => IsActive(b, t)
      BY <1>3, ActiveDown
    <3>4. CASE pc = "kick_begin"
      <4>1. Ti_kick[b] = IF IsActive(b, t) THEN t
                         ELSE StepStart(b, t) + Dti[b] \div 2
        BY <3>4 DEF FlatTableInv
      <4>2. QED
        BY <1>3, <1>4, <3>1, <3>2, <3>3, <3>4, <4>1
    <3>5. CASE pc = "kick_end"
      <4>1. Ti_kick[b] = IF b >= m
                         THEN IF IsActive(b, t) THEN t - Dti[b] \div 2
                              ELSE StepStart(b, t) + Dti[b] \div 2
                         ELSE t - Dti[m] \div 2
        BY <3>5 DEF FlatTableInv
      <4>2. QED
        BY <1>3, <1>4, <3>1, <3>2, <3>3, <3>5, <4>1
    <3>6. QED
      BY <1>1, <3>4, <3>5
  <2>2. QED
    BY <1>1, <1>2, <2>1 DEF FlatTableInv, AfterKick
<1>7. FlatMinInv'
  BY <1>1, <1>2 DEF FlatMinInv
<1>8. PMEnd' = PMEnd /\ PM_length' = PM_length /\ PM_start' = PM_start
  BY DEF HalfKick, PMHalfKick, PMEnd
<1>9. FlatPMInv'
  <2>1. PICK k \in 1..TIMEBINS :
          /\ PM_length = Dti[k]
          /\ PM_start % Dti[k] = 0
          /\ \A p \in Live : TimeBinGravity[p] <= k
    BY DEF FlatPMInv
  <2>2. PM_length = PM_length \div 2 + PM_length \div 2 /\ PM_length \div 2 \in Nat
    BY <2>1, DtiHalves
  <2>3. PM_kick' = IF isPM THEN PM_kick + PM_length \div 2 ELSE PM_kick
    BY DEF HalfKick, PMHalfKick
  <2>4. PM_kick' = IF isPM /\ pc = "kick_end" THEN Ti_Current
                   ELSE PM_start + PM_length \div 2
    <3>1. CASE pc = "kick_end"
      <4>1. PM_kick = PM_start + PM_length \div 2 /\ (isPM <=> Ti_Current = PMEnd)
        BY <3>1 DEF FlatPMInv
      <4>2. QED
        BY <2>2, <2>3, <3>1, <4>1 DEF PMEnd, FlatPMInv
    <3>2. CASE pc = "kick_begin"
      <4>1. PM_kick = IF isPM THEN Ti_Current ELSE PM_start + PM_length \div 2
        BY <3>2 DEF FlatPMInv
      <4>2. isPM => PM_start = Ti_Current
        BY <3>2 DEF FlatPMInv
      <4>3. QED
        BY <2>3, <3>2, <4>1, <4>2
    <3>3. QED
      BY <1>1, <3>1, <3>2
  <2>5. /\ \E j \in 1..TIMEBINS :
             /\ PM_length' = Dti[j]
             /\ PM_start' % Dti[j] = 0
             /\ \A p \in Live' : TimeBinGravity'[p] <= j
        /\ PM_start' \in Nat /\ PM_start' <= Ti_Current'
        /\ \A s \in SyncTimes : PM_start' < s => PMEnd' <= s
    BY <1>2, <1>8, <2>1 DEF FlatPMInv
  <2>6. CASE pc = "kick_end"
    <3>1. pc' = "physics"
      BY <1>1, <2>6 DEF AfterKick
    <3>2. Ti_Current <= PMEnd /\ (isPM <=> Ti_Current = PMEnd)
      BY <2>6 DEF FlatPMInv
    <3>3. QED
      BY <1>2, <1>8, <2>4, <2>5, <2>6, <3>1, <3>2 DEF FlatPMInv
  <2>7. CASE pc = "kick_begin"
    <3>1. pc' = "advance"
      BY <1>1, <2>7 DEF AfterKick
    <3>2. Ti_Current < PMEnd
      BY <2>7 DEF FlatPMInv
    <3>3. QED
      BY <1>2, <1>8, <2>4, <2>5, <2>7, <3>1, <3>2 DEF FlatPMInv
  <2>8. QED
    BY <1>1, <2>6, <2>7
<1>10. PartInv'
  <2>1. ASSUME NEW p \in Live
        PROVE  /\ Ti_kick_grav'[p] = Ti_kick'[TimeBinGravity[p]]
               /\ HasHydro(p) => Ti_kick_hydro'[p] = Ti_kick'[TimeBinGravity[p]]
    <3> DEFINE b == TimeBinGravity[p]
    <3>1. /\ b \in 1..TIMEBINS /\ TimeBinHydro[p] = b
          /\ Ti_kick_grav[p] = Ti_kick[b]
          /\ HasHydro(p) => Ti_kick_hydro[p] = Ti_kick[b]
          /\ p \in Act <=> IsActive(b, t)
          /\ p \in Part
      BY <1>5
    <3>2. Ti_kick'[b] = IF IsActive(b, t) THEN Ti_kick[b] + Dti[b] \div 2
                                          ELSE Ti_kick[b]
      BY <1>3, <1>4, <3>1
    <3>3. Ti_kick_grav'[p] = IF p \in Act /\ IsActive(b, t)
                             THEN Ti_kick[b] + Dti[b] \div 2
                             ELSE Ti_kick_grav[p]
      BY <3>1 DEF HalfKick, KickParticles, Active
    <3>4. Ti_kick_hydro'[p] = IF p \in Act /\ HasHydro(p)
                              THEN Ti_kick[b] + Dti[b] \div 2
                              ELSE Ti_kick_hydro[p]
      BY <3>1 DEF HalfKick, KickParticles, Active
    <3> HIDE DEF b
    <3>5. Ti_kick_grav'[p] = Ti_kick'[b]
      BY <3>1, <3>2, <3>3
    <3>6. HasHydro(p) => Ti_kick_hydro'[p] = Ti_kick'[b]
      BY <3>1, <3>2, <3>4
    <3>7. QED
      BY <3>5, <3>6 DEF b
  <2>2. \A p \in Live : /\ TimeBinGravity[p] >= 1
                        /\ Ti_lastactivedrift[TimeBinGravity[p]] =
                             StepStart(TimeBinGravity[p], t)
    BY DEF PartInv
  <2>3. \A p \in Live : HasHydro(p)' <=> HasHydro(p)
    BY <1>2 DEF HasHydro
  <2>4. QED
    BY <1>2, <1>5, <2>1, <2>2, <2>3 DEF PartInv
<1>11. ActInv'
  BY <1>1, <1>2 DEF ActInv, Active
<1>12. QED
  BY <1>1, <1>6, <1>7, <1>9, <1>10, <1>11

\* The physics leaves kick times alone, and new particles have the bins of
\* their parents.
LEMMA RunPhysics ==
  ASSUME TypeOK, ~Fresh, RunInv, Physics
  PROVE  RunInv' \/ pc' \in Ends
<1> USE DEF TypeOK, RunInv
<1>1. pc = "physics" /\ (pc' = "timesteps" \/ pc' \in Ends)
  BY DEF Physics, Ends
<1>2. /\ UNCHANGED <<Ti_Current, isPM, firstStep, Act, Ti_lastactivedrift,
                     Ti_kick, mintimebin, maxtimebin, PM_length, PM_start>>
      /\ UNCHANGED <<PM_kick, TimeBinHydro, TimeBinGravity, Ti_kick_grav,
                     Ti_kick_hydro>>
  BY DEF Physics, clock, binTimes, pmTimes, partBins, kicks
<1>3. Live' \subseteq Live /\ Active' # {}
  BY <1>1, PhysicsSurvivor DEF ActInv
<1>4. ASSUME NEW p \in Live, HasHydro(p)'
      PROVE  HasHydro(p)
  <2>1. PICK seeds \in SUBSET {q \in Live : Type[q] = "gas"} :
        \E stars \in SUBSET {q \in Active : Type[q] = "gas" /\ q \notin seeds} :
          Type' = [q \in Part |-> IF q \in seeds THEN "bh"
                                  ELSE IF q \in stars THEN "star" ELSE Type[q]]
    BY DEF Physics
  <2>2. p \in Part /\ (p \in seeds => Type[p] = "gas")
    BY <2>1
  <2>3. p \notin seeds => Type'[p] = "star" \/ Type'[p] = Type[p]
    BY <2>1, <2>2
  <2>4. QED
    BY <1>4, <2>2, <2>3 DEF HasHydro
<1>5. CASE pc' = "timesteps"
  <2>1. FlatTableInv'
    BY <1>1, <1>2, <1>5 DEF FlatTableInv
  <2>2. FlatMinInv'
    BY <1>5 DEF FlatMinInv
  <2>3. PMEnd' = PMEnd
    BY <1>2 DEF PMEnd
  <2>4. FlatPMInv'
    BY <1>1, <1>2, <1>3, <1>5, <2>3 DEF FlatPMInv
  <2>5. PartInv'
    BY <1>1, <1>2, <1>3, <1>4, <1>5 DEF PartInv
  <2>6. ActInv'
    BY <1>1, <1>2, <1>3 DEF ActInv
  <2>7. QED
    BY <2>1, <2>2, <2>4, <2>5, <2>6
<1>6. QED
  BY <1>1, <1>5

----------------------------------------------------------------------------
(* The invariant and what follows from it.                                 *)

\* Each action keeps the invariant.
LEMMA FlatInvStep ==
  ASSUME NoBHAtStart, FlatInv, [Next]_vars
  PROVE  FlatInv'
<1>1. TypeOK /\ TypeOK'
  BY TypeStep DEF FlatInv
<1>2. CASE UNCHANGED vars
  BY <1>2 DEF vars, clock, binTimes, pmTimes, kinds, partBins, kicks, FlatInv,
    Fresh, FreshInv, RunInv, TypeOK, FlatTableInv, FlatMinInv, FlatPMInv, PMEnd, PartInv,
    ActInv, Active, HasHydro
<1>3. CASE Advance
  <2>1. pc = "advance" /\ Live' = Live
    BY <1>3 DEF Advance, kinds
  <2>2. CASE Fresh
    <3>1. Fresh' /\ FreshInv' /\ pc' = "kick_end" /\ Ti_Current' = Ti_Current
      BY <1>1, <1>3, <2>1, <2>2, FreshAdvance DEF FlatInv, Ends
    <3>2. QED
      BY <1>1, <2>1, <3>1 DEF FlatInv
  <2>3. CASE ~Fresh
    <3>1. RunInv' /\ pc' = "kick_end" /\ Ti_Current' % Dti[1] = 0
      BY <1>1, <1>3, <2>1, <2>3, RunAdvance DEF FlatInv, Ends
    <3>2. ~Fresh'
      BY <1>3, <2>1, <2>3 DEF Advance, Fresh
    <3>3. QED
      BY <1>1, <2>1, <3>1, <3>2 DEF FlatInv
  <2>4. QED
    BY <2>2, <2>3
<1>4. CASE HalfKick
  <2>1. /\ pc \in {"kick_end", "kick_begin"} /\ pc' \in {"physics", "advance"}
        /\ Live' = Live /\ Ti_Current' = Ti_Current
    BY <1>4 DEF HalfKick, AfterKick, kinds
  <2>2. CASE Fresh
    <3>1. Fresh' /\ FreshInv'
      BY <1>1, <1>4, <2>1, <2>2, FreshHalfKick DEF FlatInv, Ends
    <3>2. QED
      BY <1>1, <2>1, <3>1 DEF FlatInv
  <2>3. CASE ~Fresh
    <3>1. RunInv'
      BY <1>1, <1>4, <2>1, <2>3, RunHalfKick DEF FlatInv, Ends
    <3>2. ~Fresh'
      BY <1>4, <2>1, <2>3 DEF HalfKick, Fresh
    <3>3. QED
      BY <1>1, <2>1, <3>1, <3>2 DEF FlatInv
  <2>4. QED
    BY <2>2, <2>3
<1>5. CASE Physics
  <2>1. pc = "physics" /\ pc' \in {"timesteps", "done"} /\ Ti_Current' = Ti_Current
    BY <1>5 DEF Physics, clock
  <2>2. Active # {}
    BY <1>1, <2>1 DEF FlatInv, Ends, RunInv, ActInv, FreshInv, Active
  <2>3. Live' # {}
    BY <1>1, <1>5, <2>2, PhysicsSurvivor
  <2>4. Fresh' <=> Fresh
    BY <1>5, <2>1 DEF Fresh, Physics, clock
  <2>5. CASE Fresh
    <3>1. FreshInv' \/ pc' \in Ends
      BY <1>1, <1>5, <2>1, <2>5, FreshPhysics DEF FlatInv, Ends
    <3>2. QED
      BY <1>1, <2>1, <2>3, <2>4, <2>5, <3>1 DEF FlatInv
  <2>6. CASE ~Fresh
    <3>1. RunInv' \/ pc' \in Ends
      BY <1>1, <1>5, <2>1, <2>6, RunPhysics DEF FlatInv, Ends
    <3>2. QED
      BY <1>1, <2>1, <2>3, <2>4, <2>6, <3>1 DEF FlatInv
  <2>7. QED
    BY <2>5, <2>6
<1>6. CASE FindTimesteps
  <2>1. /\ pc = "timesteps" /\ pc' \in {"bad_timestep", "kick_begin"}
        /\ Ti_Current' = Ti_Current /\ Live' = Live
    BY <1>6 DEF FindTimesteps, clock, kinds
  <2>2. Ready
    BY <1>1, <1>6, <2>1, FreshReady, RunReady DEF FlatInv, Ends
  <2>3. pc' = "kick_begin" => RunInv' /\ ~Fresh'
    BY <1>6, <2>2, ReadyFind DEF Fresh
  <2>4. QED
    BY <1>1, <2>1, <2>3 DEF FlatInv, Ends
<1>7. QED
  BY <1>2, <1>3, <1>4, <1>5, <1>6 DEF Next, Stopped

\* A run that starts without black holes at a step boundary keeps FlatInv.
THEOREM Invariance ==
  ASSUME NoBHAtStart, AlignedStart
  PROVE  Spec => []FlatInv
<1>1. Init => FlatInv
  BY FlatInvInit
<1>2. FlatInv /\ [Next]_vars => FlatInv'
  BY FlatInvStep
<1>3. QED
  BY <1>1, <1>2, PTL DEF Spec

\* The kick table agrees with the particles in it,
LEMMA InvKickTimes == FlatInv => KickTimesMatch
<1> SUFFICES ASSUME FlatInv, pc \in {"kick_end", "kick_begin"}, NEW p \in Active
             PROVE  /\ IsActive(TimeBinGravity[p], Ti_Current) =>
                         Ti_kick_grav[p] = Ti_kick[TimeBinGravity[p]]
                    /\ HasHydro(p) =>
                         Ti_kick_hydro[p] = Ti_kick[TimeBinHydro[p]]
  BY DEF KickTimesMatch
<1>1. CASE Fresh
  <2>1. FreshInv /\ p \in Part
    BY <1>1 DEF FlatInv, Ends, Active, TypeOK
  <2>2. 0 \in Bins
    BY TimelineAssumption DEF Bins
  <2>3. QED
    BY <2>1, <2>2 DEF FreshInv
<1>2. CASE ~Fresh
  BY <1>2 DEF FlatInv, Ends, RunInv, PartInv, Active
<1>3. QED
  BY <1>1, <1>2

\* velocities meet positions,
LEMMA FlatSynchronised == FlatInv => Synchronised
<1> SUFFICES ASSUME FlatInv, pc \in {"physics", "timesteps"}
             PROVE  /\ \A p \in Active :
                         /\ IsActive(TimeBinGravity[p], Ti_Current) =>
                              Ti_kick_grav[p] = Ti_Current
                         /\ HasHydro(p) => Ti_kick_hydro[p] = Ti_Current
                    /\ isPM => /\ PM_kick = Ti_Current
                               /\ \A p \in Live : Ti_kick_grav[p] = Ti_Current
  BY DEF Synchronised
<1>1. CASE Fresh
  BY <1>1 DEF FlatInv, Ends, FreshInv, Active, TypeOK
<1>2. CASE ~Fresh
  <2>1. RunInv /\ TypeOK
    BY <1>2 DEF FlatInv, Ends
  <2>2. ASSUME NEW p \in Live
        PROVE  /\ TimeBinGravity[p] \in 1..TIMEBINS
               /\ p \in Act <=> IsActive(TimeBinGravity[p], Ti_Current)
               /\ Ti_kick_grav[p] = Ti_kick[TimeBinGravity[p]]
               /\ HasHydro(p) => Ti_kick_hydro[p] = Ti_kick[TimeBinGravity[p]]
    BY <2>1 DEF RunInv, PartInv, TypeOK, Bins
  <2>3. ASSUME NEW p \in Live, IsActive(TimeBinGravity[p], Ti_Current)
        PROVE  Ti_kick[TimeBinGravity[p]] = Ti_Current
    BY <2>1, <2>2, <2>3 DEF RunInv, FlatTableInv
  <2>4. isPM => PM_kick = Ti_Current /\ Ti_Current = PMEnd
    BY <2>1 DEF RunInv, FlatPMInv
  <2>5. isPM => \A p \in Live : IsActive(TimeBinGravity[p], Ti_Current)
    BY <2>1, <2>4, FlatPMAllActive DEF RunInv
  <2>6. QED
    BY <2>2, <2>3, <2>4, <2>5 DEF Active
<1>3. QED
  BY <1>1, <1>2

\* and no step is missed.
LEMMA FlatNoStepMissed == FlatInv => NoStepMissed
<1> SUFFICES ASSUME FlatInv, pc = "advance", ~firstStep, NEW p \in Live
             PROVE  LET bin == TimeBinGravity[p] IN
                    /\ Ti_lastactivedrift[bin] =
                         Ti_kick_grav[p] - Dti[bin] \div 2
                    /\ Ti_Current < Ti_kick_grav[p] + Dti[bin] \div 2
                    /\ HasHydro(p) => Ti_kick_hydro[p] = Ti_kick_grav[p]
  BY DEF NoStepMissed
<1> DEFINE b == TimeBinGravity[p]
<1>1. RunInv /\ TypeOK
  BY DEF FlatInv, Ends, Fresh
<1>2. /\ b \in 1..TIMEBINS
      /\ Ti_kick_grav[p] = Ti_kick[b]
      /\ HasHydro(p) => Ti_kick_hydro[p] = Ti_kick[b]
      /\ Ti_lastactivedrift[b] = StepStart(b, Ti_Current)
      /\ mintimebin <= b
  BY <1>1 DEF RunInv, PartInv, FlatMinInv, TypeOK, Bins
<1>3. Ti_kick[b] = StepStart(b, Ti_Current) + Dti[b] \div 2
  BY <1>1, <1>2 DEF RunInv, FlatTableInv, TypeOK, Bins
<1>4. /\ StepStart(b, Ti_Current) \in Nat
      /\ Ti_Current < StepStart(b, Ti_Current) + Dti[b]
  BY <1>1, <1>2, StepStartFacts DEF TypeOK
<1>5. Dti[b] \div 2 \in Nat /\ Dti[b] = Dti[b] \div 2 + Dti[b] \div 2
  BY <1>2, DtiHalves
<1> HIDE DEF b
<1>6. /\ Ti_lastactivedrift[b] = Ti_kick_grav[p] - Dti[b] \div 2
      /\ Ti_Current < Ti_kick_grav[p] + Dti[b] \div 2
      /\ HasHydro(p) => Ti_kick_hydro[p] = Ti_kick_grav[p]
  BY <1>1, <1>2, <1>3, <1>4, <1>5 DEF TypeOK
<1>7. QED
  BY <1>6 DEF b

\* Every half kick starts where the velocity of each particle it kicks is.
THEOREM KickSync ==
  ASSUME NoBHAtStart, AlignedStart
  PROVE  Spec => []KickTimesMatch
  BY InvKickTimes, Invariance, PTL

\* The velocities of the active particles, and on a long-range step those of
\* all particles, are at the time of the positions while the physics runs.
THEOREM PhysicsSynchronised ==
  ASSUME NoBHAtStart, AlignedStart
  PROVE  Spec => []Synchronised
  BY FlatSynchronised, Invariance, PTL

\* Between two steps every velocity is in the middle of its particle's step.
THEOREM NoParticleMissed ==
  ASSUME NoBHAtStart, AlignedStart
  PROVE  Spec => []NoStepMissed
  BY FlatNoStepMissed, Invariance, PTL

\* The loop does not step over the end of a long-range step.
THEOREM PMBoundaryKept ==
  ASSUME NoBHAtStart, AlignedStart
  PROVE  Spec => []PMNeverPassed
<1>1. FlatInv => PMNeverPassed
  BY DEF FlatInv, PMNeverPassed
<1>2. QED
  BY <1>1, Invariance, PTL

\* Each trip round the loop but the first moves the clock.
THEOREM ClockAdvances ==
  ASSUME NoBHAtStart, AlignedStart
  PROVE  Spec => TimeAdvances
<1>1. ASSUME FlatInv, [Next]_vars, pc = "advance", pc' # pc, ~firstStep
      PROVE  Ti_Current' > Ti_Current
  <2>1. Ti_Current' = NextKick
    BY <1>1 DEF Next, Advance, HalfKick, Physics, FindTimesteps, Stopped, Ends,
      vars
  <2>2. TypeOK /\ RunInv
    BY <1>1 DEF FlatInv, Ends, Fresh
  <2>3. QED
    BY <1>1, <2>1, <2>2, NextKickBound DEF TypeOK
<1>2. QED
  BY <1>1, Invariance, PTL DEF Spec, TimeAdvances

\* The loop stops at every sync point, with a long-range step.
THEOREM StopsAtSyncPoints ==
  ASSUME NoBHAtStart, AlignedStart
  PROVE  Spec => SyncPointsVisited
<1>1. ASSUME FlatInv, [Next]_vars, NEW s \in SyncTimes,
             Ti_Current < s, s <= Ti_Current'
      PROVE  s = Ti_Current' /\ isPM'
  <2>1. TypeOK /\ s \in Nat
    BY <1>1, SyncActive, TimelineAssumption DEF FlatInv
  <2>2. Advance
    <3>1. Ti_Current' # Ti_Current
      BY <1>1, <2>1 DEF TypeOK
    <3>2. QED
      BY <1>1, <3>1 DEF Next, HalfKick, Physics, FindTimesteps, Stopped, vars, clock
  <2>3. pc = "advance"
    BY <2>2 DEF Advance
  <2>4. CASE Fresh
    <3>1. FreshInv
      BY <1>1, <2>3, <2>4 DEF FlatInv, Ends
    <3>2. Ti_Current' = Ti_Current
      BY <2>1, <2>2, <2>4, <3>1, FreshAdvance
    <3>3. QED
      BY <1>1, <2>1, <3>2 DEF TypeOK
  <2>5. CASE ~Fresh
    <3>1. RunInv
      BY <1>1, <2>3, <2>5 DEF FlatInv, Ends
    <3>2. NextKick \in Nat /\ NextKick <= PMEnd /\ Ti_Current' = NextKick
      BY <2>1, <2>2, <2>3, <3>1, NextKickBound DEF Advance
    <3>3. PM_start < s
      BY <1>1, <2>1, <3>1 DEF RunInv, FlatPMInv, TypeOK
    <3>4. PMEnd <= s
      BY <3>1, <3>3 DEF RunInv, FlatPMInv
    <3>5. PMEnd \in Int
      BY <2>1 DEF PMEnd, TypeOK
    <3>6. NextKick = PMEnd /\ s = NextKick
      BY <1>1, <2>1, <3>2, <3>4, <3>5
    <3>7. isPM' = (NextKick = PMEnd)
      BY <2>2, <3>6, <3>5 DEF Advance
    <3>8. QED
      BY <3>2, <3>6, <3>7
  <2>6. QED
    BY <2>4, <2>5
<1>2. ASSUME FlatInv, [Next]_vars
      PROVE  \A s \in SyncTimes : Ti_Current < s /\ s <= Ti_Current' =>
               s = Ti_Current' /\ isPM'
  BY <1>1, <1>2
<1>3. QED
  BY <1>2, Invariance, PTL DEF Spec, SyncPointsVisited

=============================================================================
