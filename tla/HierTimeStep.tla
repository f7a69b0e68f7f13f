---------------------------- MODULE HierTimeStep ----------------------------
(***************************************************************************)
(* The main loop with HierarchicalGravity = 1: gravity and hydro have time *)
(* bins of their own, and gravity is kicked along a ladder of time bins.   *)
(*                                                                         *)
(* On each rung ti a tree is built of the active particles whose bin is no *)
(* longer than ti, and they are kicked half a step of bin ti forward and,  *)
(* below the top rung, half a step of bin ti+1 back.  Over the whole       *)
(* ladder a particle in bin b has moved half a step of bin b.  The ladder  *)
(* of the closing kick follows the bins as they are; the ladder of the     *)
(* opening kick also assigns them, from the forces found on each rung.     *)
(***************************************************************************)
EXTENDS DriftKick, FiniteSets

CONSTANTS
  ShortestBin,    (* the bin of MinSizeTimestep                             *)
  PushDownRatio   (* 3 in the source: see PushDown                          *)

ASSUME LadderAssumption ==
  /\ ShortestBin \in Bins
  /\ PushDownRatio \in Nat \ {0}

VARIABLES
  mingravtimebin,  (* lowest rung of the last opening ladder                *)
  largest_active,  (* top rung of the current ladder                        *)
  ti,              (* rung the ladder has reached                           *)
  lastact,         (* particles kicked on the rung above                    *)
  badstep          (* badtimestep                                           *)

rungVars == <<largest_active, ti, lastact>>
hierVars == <<mingravtimebin, rungVars, badstep>>
allVars  == <<vars, hierVars>>

LadderPhases == {"top_rung", "rungs", "kicked", "new_rungs", "hydro", "hydro_kicked"}
Asserts      == {"had_grav_kick_time", "had_hydro_kick_time"}

----------------------------------------------------------------------------

Longest(bins) == CHOOSE b \in bins : \A c \in bins : c <= b

\* The longest bin that ends a step now and fits into the PM step.
LargestActive(pm) ==
  Longest({b \in Bins : IsActive(b, Ti_Current) /\ Dti[b] <= pm})

\* build_active_sublist
Sublist(list, maxbin) ==
  {p \in list : TimeBinGravity[p] <= maxbin /\ IsActive(TimeBinGravity[p], Ti_Current)}

\* totgravactive # 0, and NumActiveGravity = NumActiveParticle: both as they
\* were when the list of active particles was built.
SomeGravityActive == isPM \/ \E p \in Act : IsActive(TimeBinGravity[p], Ti_Current)
AllGravityActive  == isPM \/ \A p \in Act : IsActive(TimeBinGravity[p], Ti_Current)

TopList(top) == IF AllGravityActive THEN Active ELSE Sublist(Active, top)

\* apply_hierarchical_grav_kick on rung r of a ladder from top: the half step
\* of the rung above is taken back.
RungKick(r, top) ==
  Dti[r] \div 2 - (IF r < top THEN Dti[r+1] \div 2 ELSE 0)

KickRung(list, r, top) ==
  Ti_kick_grav' = [p \in Part |-> IF p \in list
                                  THEN Ti_kick_grav[p] + RungKick(r, top)
                                  ELSE Ti_kick_grav[p]]

\* The assertion of the top rung, for particles in the given bins.
TopKickTimesMatch(list, bin) == \A p \in list : Ti_kick_grav[p] = Ti_kick[bin[p]]

----------------------------------------------------------------------------

HierInit ==
  /\ Init
  /\ mingravtimebin = 0
  /\ largest_active = 0
  /\ ti = 0
  /\ lastact = {}
  /\ badstep = FALSE

HierAdvance == Advance /\ UNCHANGED hierVars

\* apply_hydro_half_kick, before the closing gravity ladder and after the
\* opening one.
HydroHalfKick ==
  /\ pc \in {"kick_end", "kick_begin"}
  /\ LET kicked == {p \in Active : GasEnabled /\ HasHydro(p)}
         after  == IF pc = "kick_end" THEN "top_rung" ELSE "hydro_kicked"
     IN  /\ Ti_kick_hydro' = [p \in Part |->
              IF p \in kicked
              THEN Ti_kick[TimeBinHydro[p]] + Dti[TimeBinHydro[p]] \div 2
              ELSE Ti_kick_hydro[p]]
         /\ pc' = IF \E p \in kicked : Ti_kick_hydro[p] # Ti_kick[TimeBinHydro[p]]
                  THEN "had_hydro_kick_time" ELSE after
  /\ UNCHANGED <<clock, binTimes, pmTimes, kinds, partBins, Ti_kick_grav,
                 hierVars>>

----------------------------------------------------------------------------
(* The closing ladder: hierarchical_gravity_accelerations.                 *)

TopRung ==
  /\ pc = "top_rung"
  /\ IF SomeGravityActive
     THEN LET top  == LargestActive(PM_length)
              list == TopList(top)
          IN  /\ largest_active' = top
              /\ ti' = top - 1
              /\ lastact' = list
              /\ KickRung(list, top, top)
              /\ pc' = IF TopKickTimesMatch(list, TimeBinGravity)
                       THEN "rungs" ELSE "had_grav_kick_time"
     ELSE pc' = "kicked" /\ UNCHANGED <<rungVars, Ti_kick_grav>>
  /\ UNCHANGED <<clock, binTimes, pmTimes, kinds, partBins, Ti_kick_hydro,
                 mingravtimebin, badstep>>

Rung ==
  /\ pc = "rungs"
  /\ IF ti >= mingravtimebin
     THEN /\ lastact' = Sublist(lastact, ti)
          /\ KickRung(lastact', ti, largest_active)
          /\ ti' = ti - 1
          /\ UNCHANGED pc
     ELSE pc' = "kicked" /\ UNCHANGED <<lastact, ti, Ti_kick_grav>>
  /\ UNCHANGED <<clock, binTimes, pmTimes, kinds, partBins, Ti_kick_hydro,
                 mingravtimebin, badstep, largest_active>>

\* The table of kick times follows, after the closing and the opening kick.
MoveKickTimes ==
  /\ pc \in {"kicked", "hydro_kicked"}
  /\ UpdateKickTimes
  /\ PMHalfKick
  /\ pc' = IF pc = "kicked" THEN "physics" ELSE "advance"
  /\ firstStep' = (firstStep /\ pc = "kicked")
  /\ UNCHANGED <<Ti_Current, isPM, Act, Ti_lastactivedrift, mintimebin,
                 maxtimebin, kinds, partBins, kicks, hierVars>>

HierPhysics == Physics /\ UNCHANGED hierVars

----------------------------------------------------------------------------
(* The opening ladder: hierarchical_gravity_and_timesteps.                 *)

\* Long-range steps, no shorter than the smallest step if there is room.
HierPMLengths ==
  {d \in PMLengths : d >= Dti[ShortestBin] \/ \A e \in PMLengths : e <= d}

\* Bins the acceleration of a particle may ask for: no shorter than the
\* smallest step, unless the PM step is.
AskedBins(dti_max) ==
  {b \in WantedBins(dti_max) :
     b >= ShortestBin \/ \A c \in WantedBins(dti_max) : c <= b}

Lower(a, b) == IF a < b THEN a ELSE b

\* The longest occupied bin, if any bin is occupied.
OccupiedTop(bin, top) ==
  LET used == {b \in 1..top : \E p \in DOMAIN bin : bin[p] = b}
  IN  IF used = {} THEN top ELSE Longest(used)

\* On a PM step the top bin is emptied into the one below until it holds
\* enough of the particles, PushDownRatio times those of the one below.
StaysAt(b, bin) ==
  \/ b = 0
  \/ Cardinality({p \in DOMAIN bin : bin[p] >= b}) \div PushDownRatio
       > Cardinality({p \in DOMAIN bin : bin[p] = b - 1})

PushDown(bin, top) ==
  IF isPM
  THEN Longest({b \in 0..top : StaysAt(b, bin)})
  ELSE top

\* Bins from the stored accelerations, and the kick of the top rung.
AssignTopRung(pm) ==
  LET longest == LargestActive(pm)
      list    == TopList(longest)
  IN  \E asked \in [list -> AskedBins(pm)] :
        LET bin == [p \in list |-> Lower(asked[p], longest)]
            top == PushDown(bin, OccupiedTop(bin, longest))
            new == [p \in Part |-> IF p \in list THEN Lower(bin[p], top)
                                                 ELSE TimeBinGravity[p]]
        IN  /\ TimeBinGravity' = new
            /\ maxtimebin' = top
            /\ largest_active' = top
            /\ ti' = top - 1
            /\ lastact' = list
            /\ KickRung(list, top, top)
            /\ pc' = IF top = 0 THEN "bad_timestep"
                     ELSE IF TopKickTimesMatch(list, new)
                     THEN "new_rungs" ELSE "had_grav_kick_time"

NewTopRung ==
  /\ pc = "timesteps"
  /\ IF SomeGravityActive
     THEN \E pm \in (IF isPM THEN HierPMLengths ELSE {PM_length}) :
            /\ PM_length' = pm
            /\ PM_start' = IF isPM THEN PM_kick ELSE PM_start
            /\ AssignTopRung(pm)
     ELSE /\ pc' = "hydro"
          /\ UNCHANGED <<TimeBinGravity, maxtimebin, rungVars, PM_length,
                         PM_start, Ti_kick_grav>>
  /\ UNCHANGED <<clock, Ti_kick, mintimebin, PM_kick, kinds, TimeBinHydro,
                 Ti_kick_hydro, mingravtimebin, badstep>>

\* A lower rung: the particles that the force on this rung wants in a shorter
\* bin go one bin down.  The ladder ends at an empty rung, or below bin 1; in
\* that case mingravtimebin stays what it was.
NewRung ==
  /\ pc = "new_rungs"
  /\ LET list == IF ti > 0 THEN Sublist(lastact, ti) ELSE {} IN
     IF list # {}
     THEN \E reduced \in SUBSET list :
          /\ reduced # {} => \E b \in AskedBins(PM_length) : b < ti
          /\ TimeBinGravity' = [p \in Part |-> IF p \in reduced THEN ti - 1
                                               ELSE TimeBinGravity[p]]
          /\ badstep' = (badstep \/ (ti = 1 /\ reduced # {}))
          /\ KickRung(list, ti, largest_active)
          /\ lastact' = list
          /\ ti' = ti - 1
          /\ UNCHANGED <<mingravtimebin, mintimebin, pc>>
     ELSE /\ mingravtimebin' = IF ti > 0 THEN ti + 1 ELSE mingravtimebin
          /\ mintimebin' = mingravtimebin'
          /\ pc' = "hydro"
          /\ UNCHANGED <<TimeBinGravity, Ti_kick_grav, lastact, ti, badstep>>
  /\ UNCHANGED <<clock, Ti_kick, maxtimebin, pmTimes, kinds, TimeBinHydro,
                 Ti_kick_hydro, largest_active>>

----------------------------------------------------------------------------

\* The bin of find_hydro_timesteps for a particle: never longer than its
\* gravity bin.
HydroBin(new, p) == Lower(new, TimeBinGravity[p])

\* The shortest new hydro bin, or if no gas is active any more the shortest
\* bin there was, one longer if that one ends a step too.
NextHydroBin(new) ==
  LET used == {new[p] : p \in DOMAIN new} \cup {TIMEBINS}
      m    == CHOOSE b \in used : \A c \in used : b <= c
  IN  IF IsActive(m, Ti_Current) THEN m
      ELSE IF mintimebin + 1 \in Bins /\ IsActive(mintimebin + 1, Ti_Current)
      THEN mintimebin + 1 ELSE mintimebin

\* The shortest step is one of dark matter: the gravity bin wins.  The
\* variant forgets it.
HydroMinBin(m) == m

MinBin(m) == IF m > mingravtimebin /\ mingravtimebin > 0 THEN mingravtimebin ELSE m

AssignHydroBins(new) ==
  LET m == NextHydroBin(new) IN
  /\ TimeBinHydro' = [p \in Part |->
       IF firstStep /\ Type[p] = "bh" THEN m
       ELSE IF /\ p \in DOMAIN new
               /\ IsActive(TimeBinHydro[p], Ti_Current)
               /\ IsActive(new[p], Ti_Current)
       THEN new[p] ELSE TimeBinHydro[p]]
  /\ mintimebin' = MinBin(m)
  /\ badstep' = (badstep \/ \E p \in DOMAIN new : new[p] < 1)

\* find_hydro_timesteps
FindHydroTimesteps ==
  /\ pc = "hydro"
  /\ IF GasEnabled
     THEN \E new \in [{p \in Active : HasHydro(p)} -> Bins] :
          /\ \A p \in DOMAIN new :
               \E asked \in AskedBins(PM_length) : \E b \in Bins :
                 /\ IsNewBin(b, asked, TimeBinHydro[p])
                 /\ new[p] = HydroBin(b, p)
          /\ AssignHydroBins(new)
     ELSE UNCHANGED <<TimeBinHydro, mintimebin, badstep>>
  /\ pc' = IF badstep' THEN "bad_timestep" ELSE "kick_begin"
  /\ UNCHANGED <<clock, Ti_kick, maxtimebin, pmTimes, kinds, TimeBinGravity,
                 kicks, mingravtimebin, rungVars>>

----------------------------------------------------------------------------

HierStopped == pc \in Ends \cup Asserts /\ UNCHANGED allVars

HierNext ==
  \/ HierAdvance \/ HydroHalfKick \/ TopRung \/ Rung \/ MoveKickTimes
  \/ HierPhysics \/ NewTopRung \/ NewRung \/ FindHydroTimesteps
  \/ HierStopped

HierSpec == HierInit /\ [][HierNext]_allVars

----------------------------------------------------------------------------

\* Every variable has its type.
HierTypeOK ==
  /\ pc \in Phases \cup Ends \cup LadderPhases \cup Asserts
  /\ isPM \in BOOLEAN /\ firstStep \in BOOLEAN /\ badstep \in BOOLEAN
  /\ Act \subseteq Part /\ Live \subseteq Part /\ lastact \subseteq Part
  /\ Ti_Current \in Nat
  /\ Ti_kick \in [Bins -> Nat] /\ Ti_lastactivedrift \in [Bins -> Nat]
  /\ mintimebin \in Bins /\ maxtimebin \in Bins /\ mingravtimebin \in Bins
  /\ largest_active \in Bins /\ ti \in -1..TIMEBINS
  /\ PM_length \in Int /\ PM_start \in Int /\ PM_kick \in Int
  /\ Type \in [Part -> Types]
  /\ TimeBinHydro \in [Part -> Bins] /\ TimeBinGravity \in [Part -> Bins]
  /\ Ti_kick_grav \in [Part -> Int] /\ Ti_kick_hydro \in [Part -> Int]

\* The two circumstances in which the loop can leave its order.  Nothing in
\* the code keeps it out of either: LadderAssumption allows both, and TLC
\* reaches both.
\*
\* The PM step may grow where no step of its new length starts: then it ends
\* in the middle of the steps of the longest bins that fit into it.
PMEndsOnGrid ==
  \A b \in 1..TIMEBINS : Dti[b] <= PM_length => PMEnd % Dti[b] = 0

\* MinSizeTimestep may be so small that particles come down to bin 1, the last
\* rung, which the opening ladder leaves without noting how far it came.
BottomRungEmpty ==
  largest_active > 0 => \A p \in Live : TimeBinGravity[p] > 1

----------------------------------------------------------------------------

\* Where a step ends, every bin that ends a step, occupied or not, has its
\* kick time at the drift time.  The rungs of both ladders, empty ones too,
\* integrate from or to that time, so a particle is kicked over one interval
\* without gap or overlap whatever rungs it shares with others.
RungsMeet ==
  pc \in {"physics", "timesteps"} => \A b \in 1..TIMEBINS :
    IsActive(b, Ti_Current) => Ti_kick[b] = Ti_Current

\* The checks "had grav kick time" and "had hydro kick time" of the kicks do
\* not stop the run: the first rung of each ladder, and each hydro kick,
\* starts at the time the velocities of its particles have reached.
KicksStartInPlace == pc \notin Asserts

\* While the physics runs the velocities of all active particles are at the
\* time of their positions (check_kick_drift_times).
HierSynchronised ==
  pc \in {"physics", "timesteps"} =>
    /\ \A p \in Active :
         /\ IsActive(TimeBinGravity[p], Ti_Current) => Ti_kick_grav[p] = Ti_Current
         /\ HasHydro(p) => Ti_kick_hydro[p] = Ti_Current
    /\ isPM => PM_kick = Ti_Current /\ \A p \in Live : Ti_kick_grav[p] = Ti_Current

\* Between two steps the next kick is no later than the end of the step of
\* any particle, in gravity and in hydro, and the table of last active times
\* holds the start of that step.
HierNoStepMissed ==
  pc = "advance" /\ ~firstStep => \A p \in Live :
    LET g == TimeBinGravity[p]  h == TimeBinHydro[p] IN
    /\ Ti_lastactivedrift[g] = Ti_kick_grav[p] - Dti[g] \div 2
    /\ NextKick <= Ti_kick_grav[p] + Dti[g] \div 2
    /\ HasHydro(p) =>
         /\ Ti_lastactivedrift[h] = Ti_kick_hydro[p] - Dti[h] \div 2
         /\ NextKick <= Ti_kick_hydro[p] + Dti[h] \div 2

\* The loop never steps over the end of a PM step: is_PM_timestep would stop
\* the run with "Passed end of PM step!".  The comment of the routines that
\* set the steps says they "also shrink the PM timestep to the longest
\* short-range timestep"; they do not, and with a PM step that grows off the
\* grid the property is violated.
HierPMNeverPassed == pc # "passed_PM"

\* "Minimum and maximum active and occupied timebins. Initially (but never
\* again) zero" (timestep.h:12).  Violated when the ladder comes down to bin
\* 1: then mingravtimebin stays zero, and the clock stands still.
NeverZeroAgain ==
  pc = "advance" /\ ~firstStep =>
    mintimebin > 0 /\ maxtimebin > 0 /\ mingravtimebin > 0

\* After the first step the shortest bin in gravity and the shortest of all
\* are known, and no particle has a shorter one.
ShortestBinKnown ==
  pc = "advance" /\ ~firstStep =>
    /\ mintimebin > 0 /\ mingravtimebin > 0
    /\ \A p \in Live : /\ mingravtimebin <= TimeBinGravity[p]
                       /\ mintimebin <= TimeBinGravity[p]
                       /\ HasHydro(p) => mintimebin <= TimeBinHydro[p]

HierStepsHold ==
  /\ HierSynchronised /\ HierNoStepMissed /\ HierPMNeverPassed
  /\ ShortestBinKnown

\* As long as neither circumstance has arisen: with gravity integrated rung by
\* rung, as with one force per step, all velocities are at the time of the
\* positions when the physics runs, no step is missed in gravity or in hydro,
\* none reaches over the end of the PM step, and the clock goes by the
\* shortest step there is.
HierInOrder == [](PMEndsOnGrid /\ BottomRungEmpty) => []HierStepsHold

\* And every kick starts where the last one ended.
KicksInOrder == [](PMEndsOnGrid /\ BottomRungEmpty) => []KicksStartInPlace
=============================================================================
