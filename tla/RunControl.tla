----------------------------- MODULE RunControl -----------------------------
(***************************************************************************)
(* A run from its start to its end, and the runs that continue it: the     *)
(* table of sync points (timebinmgr.c), the requests of the operator, who  *)
(* creates files in the output directory (hci.c), what is written at the   *)
(* end of a PM step (run.c, checkpoint.c, petaio.c, fofpetaio.c), and the  *)
(* restart from the last snapshot (main.c, init.c, checkpoint.c).          *)
(*                                                                         *)
(* Only PM steps are steps here: requests are read and output is written   *)
(* in no other.  The process may die between any two writes; what it has   *)
(* written stays.  Times stand for log a; all ranks act together.          *)
(* The excursion set model of reionization is off.                         *)
(***************************************************************************)
EXTENDS Integers, Sequences, FiniteSets, SequencesExt

CONSTANTS
  TimeIC, TimeMax,     \* of the simulation
  OutputList,          \* times of planned snapshots, in the order given
  PlaneOutputList,     \* times of planned lensing planes, in the order given
  PlaneTol,            \* planes this close to a sync point are written there
  SnapshotWithFOF,     \* groups are found for every snapshot
  TIMEBASE,            \* integer time between sync points
  AutoSnapshotTime, TimeLimitCPU,  \* in units of the clock
  MaxTick,             \* bound: the longest time between two queries
  Blocks,              \* number of blocks of a snapshot
  MaxStarts,           \* bound: how often the program is started
  MaxRequests          \* bound: how many files the operator creates

\* Times are log a, scaled so that all of them are positive.
ASSUME RunAssumption ==
  /\ TimeIC \in Nat \ {0} /\ TimeMax \in Nat /\ TimeIC < TimeMax
  /\ OutputList \in Seq(Nat) /\ PlaneOutputList \in Seq(Nat)
  /\ PlaneTol \in Nat /\ SnapshotWithFOF \in BOOLEAN
  /\ TIMEBASE \in Nat \ {0} /\ Blocks \in Nat

Files    == {"reconfigure", "checkpoint", "plane", "stop", "terminate"}
\* The order in which hci_query looks for them.
Priority == <<"reconfigure", "checkpoint", "plane", "stop", "terminate">>

VARIABLES
  \* the file system
  requests,            \* files in the output directory
  made,                \* how many the operator has created so far
  dir,                 \* directories of snapshots and of group catalogues
  Snapshots,           \* Snapshots.txt
  torn,                \* its last line is not complete
  \* the process
  pc, starts,
  SyncPoints, Ti_Current, NumCurrentTiStep,
  SnapshotFileCount,
  action, stop,        \* HCIAction and the result of hci_query
  Write,               \* WriteSnapshot, WriteFOF, WritePlane
  block,               \* the next block of the directory being written
  clock                \* HCIManager

disk    == <<requests, made, dir, Snapshots, torn>>
process == <<pc, starts, SyncPoints, Ti_Current, NumCurrentTiStep,
             SnapshotFileCount, action, stop, Write, block, clock>>
vars    == <<disk, process>>

----------------------------------------------------------------------------
(* Sync points                                                             *)

Blank(a) == [a |-> a, write_snapshot |-> FALSE, write_fof |-> FALSE,
             write_plane |-> FALSE, plane_snapnum |-> -1]

\* The first sync point that is not before a.
Place(points, a) ==
  CHOOSE j \in DOMAIN points :
    a <= points[j].a /\ \A k \in 1..(j - 1) : points[k].a < a

\* Mutant: a restarted run plans no outputs.
SkipAddOutput(TimeStart, no_snapshot_until_time, points, a) ==
  LET j == Place(points, a)
      p == IF points[j].a = a THEN points ELSE InsertAt(points, j, Blank(a))
      wanted == no_snapshot_until_time = 0
  IN IF a < TimeStart \/ a > TimeMax THEN points
     ELSE [p EXCEPT ![j].write_snapshot = @ \/ wanted,
                    ![j].write_fof = @ \/ (wanted /\ SnapshotWithFOF),
                    ![j].plane_snapnum = -1]

AddOutput(TimeStart, no_snapshot_until_time, points, a) ==
  LET j == Place(points, a)
      p == IF points[j].a = a THEN points ELSE InsertAt(points, j, Blank(a))
      wanted == a > no_snapshot_until_time
  IN IF a < TimeStart \/ a > TimeMax THEN points
     ELSE [p EXCEPT ![j].write_snapshot = @ \/ wanted,
                    ![j].write_fof = @ \/ (wanted /\ SnapshotWithFOF),
                    ![j].plane_snapnum = -1]

\* Only the sync point after the plane is compared with it.
AddPlane(TimeStart, points, i) ==
  LET a == PlaneOutputList[i]
      j == Place(points, a)
      p == IF points[j].a - a > PlaneTol
           THEN InsertAt(points, j, Blank(a)) ELSE points
  IN IF a < TimeStart \/ a > TimeMax THEN points
     ELSE [p EXCEPT ![j].write_plane = TRUE, ![j].plane_snapnum = i - 1]

\* The first and the last sync point, and then the planned snapshots.  Sorting
\* the lists first has no effect on the times: each entry is put in its place.
OutputPoints(TimeStart, no_snapshot_until_time) ==
  LET points[n \in 0..Len(OutputList)] ==
        IF n = 0
        THEN <<Blank(TimeStart), [Blank(TimeMax) EXCEPT !.write_snapshot = TRUE,
                                                        !.write_fof = TRUE]>>
        ELSE AddOutput(TimeStart, no_snapshot_until_time, points[n - 1], OutputList[n])
  IN points[Len(OutputList)]

setup_sync_points(TimeStart, no_snapshot_until_time) ==
  LET points[n \in 0..Len(PlaneOutputList)] ==
        IF n = 0 THEN OutputPoints(TimeStart, no_snapshot_until_time)
                 ELSE AddPlane(TimeStart, points[n - 1], n)
  IN points[Len(PlaneOutputList)]

\* Sync point n of the code is point n + 1 here; its ti is n * TIMEBASE.
loga_from_ti(points, ti) ==
  LET last == (ti \div TIMEBASE) + 1
      dti  == ti % TIMEBASE
  IN IF last = Len(points) THEN points[last].a
     ELSE points[last].a
          + (dti * (points[last + 1].a - points[last].a)) \div TIMEBASE

ti_from_loga(points, loga) ==
  LET later == {i \in 2..(Len(points) - 1) : points[i].a > loga}
      i     == IF later = {} THEN Len(points)
               ELSE CHOOSE k \in later : \A l \in later : k <= l
  IN (i - 2) * TIMEBASE
     + ((loga - points[i - 1].a) * TIMEBASE)
         \div (points[i].a - points[i - 1].a)

IsPowerOfTwoPart(dti) == dti = 0 \/ \E k \in 0..20 : dti * 2^k = TIMEBASE

find_next_sync_point(ti)    == \E n \in DOMAIN SyncPoints : (n - 1) * TIMEBASE > ti
find_current_sync_point(ti) == {n \in DOMAIN SyncPoints : (n - 1) * TIMEBASE = ti}

\* A snapshot whose time is not at a power of two starts a new timeline.
init_timeline(TimeSnapshot, restart) ==
  IF ~restart THEN setup_sync_points(TimeIC, 0)
  ELSE LET same == setup_sync_points(TimeIC, TimeSnapshot)
       IN IF IsPowerOfTwoPart(ti_from_loga(same, TimeSnapshot) % TIMEBASE)
          THEN same ELSE setup_sync_points(TimeSnapshot, TimeSnapshot)

----------------------------------------------------------------------------
(* Snapshots on disk: a directory has a header and blocks.  Each carries   *)
(* the start of the program that has written it, and the time.             *)

Stamp  == <<starts, loga_from_ti(SyncPoints, Ti_Current)>>
Time   == Stamp[2]
None   == <<0, 0>>
Empty  == [header |-> None, blocks |-> [b \in 1..Blocks |-> None]]

IsWhole(d)   == d.header # None /\ \A b \in 1..Blocks : d.blocks[b] = d.header
Exists(name) == name \in DOMAIN dir
On(name)     == IF Exists(name) THEN dir[name] ELSE Empty
Put(name, d) == dir' = [n \in DOMAIN dir \cup {name} |->
                          IF n = name THEN d ELSE dir[n]]

\* petaio_get_snapshot_fname, and the name fof_save_groups makes.
PART(num) == <<"PART", num>>
PIG(num)  == <<"PIG", num>>

\* Mutant: the number of the first line is taken.
StaleLastSnapnum == IF Snapshots = <<>> THEN -1 ELSE Snapshots[1].num

\* The last line of Snapshots.txt, or -1 when there is none.
find_last_snapnum == IF Snapshots = <<>> THEN -1 ELSE Last(Snapshots).num

----------------------------------------------------------------------------

NoAction == [type |-> "none", write_snapshot |-> FALSE, write_fof |-> FALSE,
             write_plane |-> FALSE]
NoWrite  == [snapshot |-> FALSE, fof |-> FALSE, plane |-> FALSE]

\* hci_init.  Time is measured from the start of the program.
FreshClock == [query |-> 0, longest |-> 0, checkpoint |-> 0]

Init ==
  /\ requests = {} /\ made = 0
  /\ dir = [n \in {} |-> Empty] /\ Snapshots = <<>> /\ torn = FALSE
  /\ pc = "down" /\ starts = 0
  /\ SyncPoints = <<>> /\ Ti_Current = 0 /\ NumCurrentTiStep = 0
  /\ SnapshotFileCount = -1
  /\ action = NoAction /\ stop = FALSE /\ Write = NoWrite
  /\ block = 0 /\ clock = FreshClock

\* The operator creates a file, at any time.
Request(file) ==
  /\ made < MaxRequests
  /\ file \notin requests
  /\ requests' = requests \cup {file}
  /\ made' = made + 1
  /\ UNCHANGED <<dir, Snapshots, torn, process>>

\* main with RestartFlag 1, begrun and the beginning of run.  A line that
\* cannot be parsed ends the program.
Start ==
  /\ pc = "down"
  /\ starts < MaxStarts
  /\ ~torn
  /\ starts' = starts + 1
  /\ LET num     == find_last_snapnum
         restart == num >= 0
         time    == IF restart THEN dir[PART(num)].header[2] ELSE TimeIC
     IN /\ SyncPoints' = init_timeline(time, restart)
        /\ Ti_Current' = ti_from_loga(SyncPoints', time)
        /\ SnapshotFileCount' = num
  /\ NumCurrentTiStep' = 0
  /\ clock' = FreshClock
  /\ pc' = "advance"
  /\ UNCHANGED <<disk, action, stop, Write, block>>

\* The process dies, or the machine does.
Crash ==
  /\ pc # "down"
  /\ pc' = "down"
  /\ UNCHANGED <<disk, starts, SyncPoints, Ti_Current, NumCurrentTiStep,
                 SnapshotFileCount, action, stop, Write, block, clock>>

\* The lengths get_PM_timestep_ti allows: powers of two that divide the
\* time since the last sync point, up to the next.
PMLengths == {d \in 1..TIMEBASE : /\ IsPowerOfTwoPart(d)
                                  /\ (Ti_Current % TIMEBASE) % d = 0}

\* The top of the loop: the first step of a run is at the time it starts.
\* All steps until the end of the PM step are taken at once.
Advance ==
  /\ pc = "advance"
  /\ \/ NumCurrentTiStep = 0 /\ UNCHANGED Ti_Current
     \/ NumCurrentTiStep > 0 /\ \E d \in PMLengths : Ti_Current' = Ti_Current + d
  /\ NumCurrentTiStep' = 1
  /\ action' = NoAction
  /\ stop' = FALSE
  /\ Write' = NoWrite
  /\ pc' = "query"
  /\ UNCHANGED <<disk, starts, SyncPoints, SnapshotFileCount, block, clock>>

\* hci_update_query_timer, when d has passed since the last query.
Ticked(d) == [clock EXCEPT !.query = @ + d,
                           !.longest = IF d > @ THEN d ELSE @]
\* Would the next query come too late?  The limit has a margin of 5 %.
TimedOut(c)  == 20 * (c.query + c.longest) >= 19 * TimeLimitCPU
AutoDue(c)   == /\ AutoSnapshotTime > 0
                /\ c.query - c.checkpoint >= AutoSnapshotTime
Saving(type) == [NoAction EXCEPT !.type = type, !.write_snapshot = TRUE,
                                 !.write_fof = SnapshotWithFOF]

\* hci_query: at most one request is answered, and its file is removed.
Timeout(c) ==
  /\ TimedOut(c)
  /\ action' = Saving("timeout")
  /\ stop' = TRUE
  /\ clock' = c
  /\ UNCHANGED requests

Answer(c, k) ==
  LET file == Priority[k] IN
  /\ ~TimedOut(c)
  /\ file \in requests
  /\ \A l \in 1..(k - 1) : Priority[l] \notin requests
  /\ requests' = requests \ {file}
  /\ action' = CASE file = "reconfigure" -> NoAction
                 [] file = "checkpoint"  -> Saving(file)
                 [] file = "plane"       -> [NoAction EXCEPT !.type = file,
                                               !.write_plane = TRUE]
                 [] file = "stop"        -> [NoAction EXCEPT !.type = file,
                                               !.write_snapshot = TRUE]
                 [] file = "terminate"   -> [NoAction EXCEPT !.type = file]
  /\ stop' = (file \in {"plane", "stop", "terminate"})
  /\ clock' = IF file = "checkpoint" THEN [c EXCEPT !.checkpoint = c.query] ELSE c

NoRequest(c) ==
  /\ ~TimedOut(c)
  /\ requests = {}
  /\ stop' = FALSE
  /\ action' = IF AutoDue(c) THEN Saving("auto") ELSE NoAction
  /\ clock' = IF AutoDue(c) THEN [c EXCEPT !.checkpoint = c.query] ELSE c
  /\ UNCHANGED requests

Query ==
  /\ pc = "query"
  /\ \E d \in 1..MaxTick : LET c == Ticked(d) IN
       Timeout(c) \/ (\E k \in DOMAIN Priority : Answer(c, k)) \/ NoRequest(c)
  /\ pc' = IF action'.type = "terminate" THEN "down" ELSE "physics"
  /\ UNCHANGED <<made, dir, Snapshots, torn, starts, SyncPoints, Ti_Current,
                 NumCurrentTiStep, SnapshotFileCount, Write, block>>

\* What the sync point plans and what has been asked for are both written.
Plan ==
  LET planned(flag) == \E n \in find_current_sync_point(Ti_Current) :
                         SyncPoints[n][flag]
  IN [snapshot |-> planned("write_snapshot") \/ action.write_snapshot,
      fof      |-> planned("write_fof") \/ action.write_fof,
      plane    |-> planned("write_plane") \/ action.write_plane]

\* From the query to the output.
Physics ==
  /\ pc = "physics"
  /\ Write' = Plan
  /\ SnapshotFileCount' = SnapshotFileCount
                          + (IF Plan.snapshot \/ Plan.fof THEN 1 ELSE 0)
  /\ block' = 0
  /\ pc' = IF Plan.snapshot THEN "snapshot"
           ELSE IF Plan.fof THEN "groups" ELSE "plane"
  /\ UNCHANGED <<disk, starts, SyncPoints, Ti_Current, NumCurrentTiStep,
                 action, stop, clock>>

\* petaio_save_snapshot and fof_save_particles: the header first, then one
\* block after the other.  What the directory held before is written over.
Save(name) ==
  /\ Put(name, IF block = 0 THEN [On(name) EXCEPT !.header = Stamp]
               ELSE [On(name) EXCEPT !.blocks[block] = Stamp])
  /\ block' = block + 1
  /\ UNCHANGED <<requests, made, Snapshots, torn, pc, starts, SyncPoints,
                 Ti_Current, NumCurrentTiStep, SnapshotFileCount, action, stop,
                 Write, clock>>

SaveSnapshot ==
  /\ pc = "snapshot"
  /\ block <= Blocks
  /\ Save(PART(SnapshotFileCount))

\* Mutant: the line in Snapshots.txt is written before the last block.
EarlyListSnapshot ==
  /\ pc = "snapshot"
  /\ block >= Blocks
  /\ Snapshots' = Append(Snapshots, [num |-> SnapshotFileCount, time |-> Time])
  /\ block' = 0
  /\ pc' = IF Write.fof THEN "groups" ELSE "plane"
  /\ UNCHANGED <<requests, made, dir, torn, starts, SyncPoints, Ti_Current,
                 NumCurrentTiStep, SnapshotFileCount, action, stop, Write, clock>>

\* The end of write_checkpoint: the line in Snapshots.txt.
ListSnapshot ==
  /\ pc = "snapshot"
  /\ block > Blocks
  /\ Snapshots' = Append(Snapshots, [num |-> SnapshotFileCount, time |-> Time])
  /\ block' = 0
  /\ pc' = IF Write.fof THEN "groups" ELSE "plane"
  /\ UNCHANGED <<requests, made, dir, torn, starts, SyncPoints, Ti_Current,
                 NumCurrentTiStep, SnapshotFileCount, action, stop, Write, clock>>

\* The process dies while the line is written.
TearLine ==
  /\ pc = "snapshot"
  /\ block > Blocks
  /\ torn' = TRUE
  /\ pc' = "down"
  /\ UNCHANGED <<requests, made, dir, Snapshots, starts, SyncPoints, Ti_Current,
                 NumCurrentTiStep, SnapshotFileCount, action, stop, Write, block,
                 clock>>

SaveGroups ==
  /\ pc = "groups"
  /\ block <= Blocks
  /\ Save(PIG(SnapshotFileCount))

GroupsSaved ==
  /\ pc = "groups"
  /\ block > Blocks
  /\ pc' = "plane"
  /\ UNCHANGED <<disk, starts, SyncPoints, Ti_Current, NumCurrentTiStep,
                 SnapshotFileCount, action, stop, Write, block, clock>>

\* write_plane takes the number of the plane from the sync point, and there
\* is one only at sync points.
WritePlane ==
  /\ pc = "plane"
  /\ pc' = IF Write.plane /\ find_current_sync_point(Ti_Current) = {}
           THEN "down" ELSE "decide"
  /\ UNCHANGED <<disk, starts, SyncPoints, Ti_Current, NumCurrentTiStep,
                 SnapshotFileCount, action, stop, Write, block, clock>>

\* The end of the loop: stop, or find time steps.
Decide ==
  /\ pc = "decide"
  /\ pc' = IF stop \/ ~find_next_sync_point(Ti_Current) THEN "down" ELSE "advance"
  /\ UNCHANGED <<disk, starts, SyncPoints, Ti_Current, NumCurrentTiStep,
                 SnapshotFileCount, action, stop, Write, block, clock>>

\* No time step can be found: a dump is written and the program ends.
BadTimestep ==
  /\ pc = "decide"
  /\ ~stop /\ find_next_sync_point(Ti_Current)
  /\ Put(<<"TIMESTEP-DUMP", 0>>, [Empty EXCEPT !.header = Stamp])
  /\ pc' = "down"
  /\ UNCHANGED <<requests, made, Snapshots, torn, starts, SyncPoints, Ti_Current,
                 NumCurrentTiStep, SnapshotFileCount, action, stop, Write, block,
                 clock>>

Run == \/ Advance \/ Query \/ Physics \/ SaveSnapshot \/ ListSnapshot
       \/ SaveGroups \/ GroupsSaved \/ WritePlane \/ Decide

Next ==
  \/ \E file \in Files : Request(file)
  \/ Start \/ Run
  \/ Crash \/ TearLine \/ BadTimestep

Spec == Init /\ [][Next]_vars /\ WF_vars(Run) /\ WF_vars(Start)

----------------------------------------------------------------------------
(* Properties                                                              *)

Names == {"PART", "PIG", "TIMESTEP-DUMP"} \X (0..(MaxStarts * (Len(SyncPoints) + 1) * TIMEBASE))

\* Every variable has the values the code can give it.
TypeOK ==
  /\ requests \subseteq Files /\ made \in 0..MaxRequests
  /\ \A name \in DOMAIN dir : name \in Names /\ DOMAIN dir[name].blocks = 1..Blocks
  /\ \A i \in DOMAIN Snapshots : Snapshots[i].num >= 0
  /\ torn \in BOOLEAN /\ stop \in BOOLEAN
  /\ starts \in 0..MaxStarts /\ NumCurrentTiStep \in {0, 1}
  /\ Ti_Current \in 0..(Len(SyncPoints) * TIMEBASE)
  /\ action.type \in Files \cup {"none", "timeout", "auto"}
  /\ block \in 0..(Blocks + 1)

\* A crash at any point leaves something to restart from: every snapshot
\* that is listed has all its blocks, written by one process at one time, and
\* the time that is listed.  Its groups, as far as they are written, are of
\* the same moment (checkpoint.c:30-44, run.c:703-709).
ListedIsWhole ==
  \A i \in DOMAIN Snapshots :
    LET num  == Snapshots[i].num
        part == dir[PART(num)]
        pig  == On(PIG(num))
    IN /\ IsWhole(part)
       /\ part.header[2] = Snapshots[i].time
       /\ \A b \in 1..Blocks : pig.blocks[b] \in {None, part.header}

\* No run writes over a snapshot that is listed, whatever the order of
\* restarts and requests (find_last_snapnum, SnapshotFileCount of run.c).
ListedIsKept ==
  [][\A i \in DOMAIN Snapshots :
       LET num == Snapshots[i].num IN dir'[PART(num)] = dir[PART(num)]]_vars

\* A simulation that has come to its end has every snapshot that was planned
\* on disk, at its time, also when it was interrupted, stopped, or restarted
\* on another timeline (setup_sync_points, init_timeline).
PlannedIsWritten ==
  pc = "decide" /\ ~find_next_sync_point(Ti_Current) =>
    \A i \in DOMAIN OutputList :
      OutputList[i] \in TimeIC..TimeMax
        => \E s \in Range(Snapshots) : s.time = OutputList[i]

\* Whoever asks for a snapshot has it before the next time step: when the
\* end of a PM step is reached with such a request, from a file or from the
\* clock, the last listed snapshot is of this moment (hci.c, run.c:682-704).
RequestIsServed ==
  pc = "decide" /\ (action.write_snapshot \/ action.type \in {"checkpoint", "stop", "timeout", "auto"}) =>
    Snapshots # <<>> /\ dir[PART(Last(Snapshots).num)].header = Stamp

\* So a snapshot is there when it is due, planned or asked for.
WrittenWhenDue == PlannedIsWritten /\ RequestIsServed

\* hci.c:204: "will write a lensing plane in this PM timestep, then continue".
PlaneThenContinues ==
  [][pc = "decide" /\ action.type = "plane" /\ find_next_sync_point(Ti_Current)
       /\ Decide => pc' = "advance"]_vars

----------------------------------------------------------------------------
(* Values for TLC: two planned snapshots, given in the wrong order, one    *)
(* beyond the end, and a plane close to a sync point and one at a place of *)
(* its own.                                                                *)
Outputs == <<256, 192, 400>>
Planes  == <<190, 128>>
=============================================================================
