# TLA+ models of MP-Gadget

MP-Gadget is an MPI + OpenMP cosmological simulation code.  Every rank runs the
same main loop (`libgadget/run.c`); particles belong to one rank at a time, and
ranks meet in collective calls (`MPI_Allreduce`, `MPI_Alltoallv`) and in the
point-to-point exchanges of the tree walk.  This directory holds TLA+ models of
the parts of the program whose correctness is a matter of protocol and order
rather than of physics, TLC instances that check them, and TLAPS proofs of what
matters most.  Paths below are relative to `src/libgadget` unless they begin
with `src/`.

## 1. Inventory

| component | state | operations | hard | correct when |
|---|---|---|---|---|
| Main loop and kicks (`run.c`, `timestep.c`) | integer clock, per-bin kick and drift times, PM step, per-particle time bins and kick times | advance, half kicks, PM kick, physics, assign time bins | two bins per particle, bins change only at step ends, PM step end must be hit exactly, special first step | each kick starts where the velocity is; velocities meet positions at step ends; no boundary is jumped |
| Hierarchical gravity (`timestep.c`) | the same plus `mingravtimebin` and the accelerations kept from the closing kick | a ladder of kicks, one per time bin | bins assigned while the ladder is walked; loop exits; empty bins | the telescoped kicks add up to one half step |
| Integer timeline (`timebinmgr.c`, `init.c`) | sync point table | build from output lists, time conversions | restart in the middle of an interval, overflow of dti | the timeline is the same after a restart, or consistently rebased |
| Run control (`hci.c`, `run.c`) | files in the output directory, checkpoint clock | query, stop, terminate, checkpoint, plane, reconfigure | files appear at any time, several at once, one answered per query | what is due is written; no request is lost |
| Checkpoint and restart (`checkpoint.c`, `petaio.c`, `init.c`) | snapshot directories, `Snapshots.txt`, `SnapshotFileCount` | write, find last, load | crash between the writes | a restart finds a complete snapshot and gets back what was saved |
| bigfile (`src/depends/bigfile/src`) | blocks: files, headers, attributes, checksums | create, write, read, flush in segments of ranks | one rank fails while others succeed | calls stay matched; a row is written by one rank; an error reaches all |
| Particles and slots (`partmanager.c`, `slotsmanager.c`) | particle table, per-type slot tables, PI / ReverseLink | split, convert, mark garbage, garbage-collect, sort, reserve | linked tables compacted in place, garbage in both, limits | PI is a bijection of particles with slots onto non-garbage slots |
| Exchange (`exchange.c`) | export lists, receive offsets | plan, pack, alltoall, unpack | memory limits force several rounds, rank full, garbage in between | no particle lost or duplicated; it arrives with its own slot |
| Domain decomposition (`domain.c`) | top-level tree, TopLeaves to task | full decomposition, maintenance | trees of ranks merged, balance, retry with other policies | every key has exactly one owner, the same on all ranks |
| Tree walk (`treewalk.c`) | work queue, export tables, receive buffers | primary walk, export, secondary, reduce, repeat with other radii | thread chunks, export buffer full, restart of the chunk, out-of-order receives | every particle is processed once locally and once per remote leaf |
| Force tree (`forcetree.c`) | nodes taken in batches, one copy of the top leaves per thread | concurrent insertion, merge, moments, pseudo-particles | node exhaustion, sibling links by tasks, `hmax` raised by threads | a walk meets every particle once; moments and `hmax` cover what is below |
| Friends of friends (`fof.c`, `fofpetaio.c`) | `Head`, `HaloLabel`, group tables | link primaries, rounds across ranks, number, save | concurrent union, remote merges in rounds | same group exactly when connected; one number and one catalogue entry per group |
| Density and hydro (`density.c`, `hydra.c`) | left/right brackets, redo queue, predicted entropies | iterate to a neighbour count, predict, sum forces | brackets, maximum rounds, predictions made lazily by threads, results overwrite what predictions come from | the search ends in its bracket; all use the same prediction |
| Black holes (`blackhole.c`, `bhdynfric.c`) | swallow ids, accumulated mass and heat | reposition, claim, swallow, feed back | claims of several holes on one particle in threads and ranks | the largest claim wins, what is swallowed is counted once |
| Star formation and winds (`sfr_eff.c`, `winds.c`, `veldisp.c`) | new stars, list of kicks, delay times | convert or split, count, append kicks, kick | lists sized by an earlier count, several stars near one particle | slots suffice; the nearest star kicks, once |
| Metal return (`metal_return.c`) | mass due from each star | find neighbours, give mass under locks, reduce | given and due mass share an array | mass is conserved |
| Parallel sort (`utils/mpsort.c`) | pivots, segments of ranks | gather, histogram search, layout, exchange, scatter | ties, uneven and empty ranks | a sorted permutation |
| Memory allocator (`utils/memory.c`) | two-ended stack | malloc, free, realloc | order of frees | blocks disjoint |
| Parameter parser (`utils/paramset.c`) | values, defaults | parse, validate | order of declaration | every required parameter is set |

`PROJECT.json` lists all components, modelled or not, with the reason for what
is left out, and the hazards of the code at the line where they bite.

## 2. Modules

```
DriftKick ─┬─ TimeStep ────── MCTimeStep     Slots ─┬─ ParticleStep
           └─ HierTimeStep ── MCHierTimeStep        └─ Exchange
                                                         │ implements
                                                     Relocation

WorkRounds <- implements - TopTree
           <- implements - TreeWalk ── MetalReturn ── MCTreeWalk

RunControl        CollectiveIO ── SnapshotIO ── MCSnapshotIO
Domain, ForceTree ── Trees ── MCTrees

ParallelSort ── FofGroups ──┐
HsmlLoop, Hydro,            ├─ GasPhysics ── MCGasPhysics
BlackHole, Winds ───────────┘

Selection ─┬─ Slots
           └─ CollectiveIO

DataLemmas ─┬─ TimeStep_proofs ── HierTimeStep_proofs
            ├─ TreeWalk_proofs
            ├─ TopTree_proofs
            ├─ RunControl_proofs
            ├─ Slots_proofs
            └─ SnapshotIO_proofs
```

A module of proofs also extends the module it is about; `TreeWalk_proofs`
extends `MetalReturn`, so that its theorems hold for the walk alone and for the
metal return on top of it; `HierTimeStep_proofs` takes the lemmas about the
timeline from `TimeStep_proofs`; `Slots_proofs` extends both users of the tables,
`Exchange` and `ParticleStep`, whose specifications are `Spec` and `StepSpec`.

**DriftKick** holds what the two gravity integrators share: the integer
timeline (`Dti[b]` is `dti_from_timebin(b)`), the advance to the next kick, the
table `Ti_kick` of the kick time of each bin (`update_kick_times`), the
long-range kick, and the physics, which changes the types of particles.  Time is
`inttime_t` as in the code.  A particle's position is at `Ti_Current`; how far
its velocity has come is `Ti_kick_grav`, `Ti_kick_hydro`, fields that the code
has in DEBUG builds.  All ranks hold the same clock: what enters it is reduced
with `MPI_Allreduce`, so one clock and the particles of all ranks together are
enough.

**TimeStep** is the loop of `run()` with one tree force per step: `HalfKick`
(`apply_half_kick`, both half kicks of a step), `FindTimesteps`
(`find_timesteps`), `Next`.  `pc` is the place in the loop.  The step a particle
asks for is any bin its criteria could give.

**HierTimeStep** is the loop with `HierarchicalGravity`: `TopRung` and `Rung`
are `hierarchical_gravity_accelerations`, `NewTopRung` and `NewRung` are
`hierarchical_gravity_and_timesteps`, one action per rung of the ladder,
`FindHydroTimesteps` is `find_hydro_timesteps`.  As in the code a PM step may have
any length up to the next sync point, and the smallest step allowed
(`ShortestBin`, from `MinSizeTimestep`) may be 0.  Two circumstances can then
break the order of the loop, and have names at the end of the module: a PM step
that ends where steps of the bins it covers do not (`PMEndsOnGrid` is false), and
particles on the last rung (`BottomRungEmpty` is false).  What the module claims
of the loop it claims until one of them arises; what happens then is in 6.

**RunControl** is a run at its PM steps and the runs that continue it: the sync
points built from the output lists (`timebinmgr.c`), requests that the operator
leaves as files and `hci_query` removes, answers one per query, the time-outs,
the snapshot block by block, its line in `Snapshots.txt`, the halo catalogue, and
the restart.  The process may die between any two writes; files stay.

**CollectiveIO** has bigfile's layout, checksums and attributes as operators and the
collective calls of `bigfile-mpi.c`, where groups of ranks take turns, one
segment's leader writes for all, and any call of the file system may fail.  Rows
go to a file without a buffer (bigfile.c:1938), so that a row that cannot be
written makes `fwrite` fail; headers and attributes stay in a buffer until an
`fclose` that nobody looks at (`TryBuffered`).  **SnapshotIO** is what `petaio.c`
writes to a snapshot and reads back on another number of ranks, with a crash and
another start in between.

**Slots** is the particle table and its slots as operators on one record, one
operator for each function of `slotsmanager.c`.  `slots_gc_compact` is modelled
by its result: the entries that are not garbage, in their order (`SelectAt` of
**Selection**, which the reading and writing of snapshots uses too).
The sort of the particles is any order by type; the slots follow their
particles (`InParticleOrder`).

**ParticleStep** runs them in the order of the main loop on one rank, together
with the list of active particles and the stored accelerations, which hold
particle indices while particles move: `BeginStep` (domain decomposition and
`build_active_particles`), `Gravity`, `SeedBlackHoles` (`fof_seed`), `Swallow`,
`FormStar` and `MakeStars` (`cooling_and_starformation`), `Output`, `Timesteps`.
A step of it ends in one of `Stops` where the code calls `endrun`.

**Exchange** is `domain_exchange` on all ranks.  Each rank has a program
counter; work between collective calls is a step of that rank, and a collective
call is one step of all, enabled when all have arrived, so that ranks that
disagree on the next call deadlock the model as they would the program.  How
much memory is free is a choice: `FindSpace` sends any part of the list.
**Relocation** is what its callers rely on: particles go only to their targets,
and success is for all ranks and all particles.

**Domain** has the top-level tree as the code's array of nodes (refinement
around a sample, merge of two ranks' trees, leaves, assignment of segments) and
runs it on all ranks: the policies and retries of `domain_decompose_full`,
`domain_maintain`, and garbage in between.  A position is its Peano-Hilbert key.
The exchange inside it is what `Exchange` shows.

**ForceTree** is the array of nodes, the operations on it, and the build: nodes of
the top-level tree, threads that insert below their own copies of the leaves and
share only the counter of nodes, the merge of the copies, the retry with more
nodes, the moments by tasks, pseudo-particles, and the threads of `density()` that
raise `hmax`.  A tree cuts a line in 2 where the code cuts a cube in 8.  **Trees**
lets the two run one after the other, as the main loop does; the force tree
starts from worlds of its own.

**TopTree** is `ev_toptree` with its threads: `Grab` (a chunk of the queue, or
the rest of one that was broken off), `Visit`, `BufferFull`, `ChunkDone`,
`Join` (the end of the parallel region), `Exchange` (all that happens before
the next pass).  **TreeWalk** is `treewalk_run` on all ranks, with queries and
results as messages between them.  Both implement **WorkRounds**: each piece of
work is taken once, and the walk ends when none is left.  In `TreeWalk` the
action `ev_toptree` is what `TopTree` has been shown to do.  **MetalReturn**
puts the visits of `metal_return.c` on top of it: what a query asks for and what
the reduction does with the answers, entry by entry of the table and round by
round.

**GasPhysics** makes the calls of one sync point in the order of `run()`; each
returns before the next, so that each starts from any of its worlds:

* **HsmlLoop**, `treewalk_do_hsml_loop` for gas and black holes (`density.c`),
  stars (`metal_return.c`) and winds (`veldisp.c`): which particles are searched
  again, with what radius, on all ranks.  A radius is kept as its volume.
* **Hydro**, which entropies are predicted when, and the walk of the force with
  its queries, threads and rounds.
* **FofGroups**: threads that join groups by compare and exchange, rounds across
  ranks whose first batch of queries is filled before the local walk, the group tables, their numbers by a parallel
  sort (**ParallelSort**, a function of the ranks' items), seeding, and the
  particles of the catalogue.
* **BlackHole** and **Winds**: threads and ranks that claim, swallow and
  heat, or put kicks on a list, each access to shared words a step.

## 3. Runs

The `MC` modules define the constants that a configuration cannot write down;
`Exchange`, `RunControl` and `ParticleStep` have theirs at their end, and `TopTree`
needs none.

| run | instance | shows |
|---|---|---|
| `timestep` | bins 0..3, three sync points, two gas particles and one of dark matter | kicks start where velocities are, velocities meet positions, no step or PM step or sync point is jumped |
| `hier` | bins 0..4, a gas and a dark matter particle, start at or half way between sync points, PM steps of any length, steps down to bin 1 | kick times of all rungs meet at step ends; until a PM step ends off the grid or the last rung is used, kicks start in place, velocities meet positions, no step or PM step is jumped, the shortest bin is known |
| `hier_pm` | the same, no step below bin 2 | **violation** of `HierPMNeverPassed`, 6.3 |
| `run_control` | planned snapshots and planes, two of them close together, two files of the operator, two starts | what is in `Snapshots.txt` is whole and stays; what is due is written |
| `snapshot` | three ranks write, three read, two failing calls | what is read is what was saved; the rows of a snapshot announced are complete; no row is written by two |
| `particles` | table of 5, two gas particles and a black hole, one generation of stars | slots belong to their particles, IDs are unique, the list of active particles holds what it should, once, but not within its room: 6.4 |
| `exchange` | 3 ranks with room for 2 each, particles of a type with slots and of one without, one of them garbage, one or two rounds and a failing third | no particle lost or doubled, each with its slot, no lack of room, `Relocation` |
| `trees` | `Domain`: 3 ranks with room for 5 each, keys of 3 bits, 3 policies, two steps; then `ForceTree`: 2 ranks, 2 threads, batches of 4 nodes | each key has one owner on all ranks, trees are sound, particles are at home; walks meet each particle once, moments are sums, `hmax` covers what is below |
| `toptree` | 2 threads, 6 particles with 0..2 exports, tables of 2 | entries of a particle stay together and in order; every particle is handed over once, and the walk ends unless the run stops with "Not enough export space"; `WorkRounds` |
| `treewalk` | 3 ranks, 6 exported particles, gas near the full mass | each result once and in its place, rounds do not mix, all ranks finish, mass is kept, `WorkRounds` |
| `metal_rounds` | the same | **violation** of `GivenInFull`, 6.7 |
| `gas_physics` | small worlds of each component: 2 particles searched, 4 in the force, up to 4 black holes, 4 new stars, 9 particles on 3 ranks for the groups | see `PROJECT.json`; `SortsRight` is an assumption that TLC evaluates: the parallel sort of any items of three ranks, at most two each, is a sorted permutation |

Why the bounds are enough.  *Bins*: three or four non-zero bins are the fewest
with a bin that is active, one that is not, and one between the shortest
occupied bin and the longest; a timeline of three sync points has a first, an
inner and a last interval; the runs are finite because the timeline is.  `hier`
has two particles: what one of them may do on a rung does not depend on a third,
and its four bins have a rung between the two they are on, above them and below.
*Run control*: `MaxStarts` 2 gives a run that continues another; `MaxRequests` 2
puts two files of the operator next to all that the clock and the lists make
due, so that one of them waits while the other is answered, across a crash too;
`MaxTick` 1 against limits of 3 and 6 lets each pass before, at and between
the queries.  *Snapshot*: three rows on three ranks with segments of two rows
give a leader with followers and one alone; two faults allow a failure while
another is being handled.  *Table of 5*: room for the two stars each run can
spawn before the table is full, and for it to be full.  `Increase` is 2 and no
slot is free at the start, so that slots run short at once.  `GenWrap` is 3: the
generations that fit are used up.  *Exchange*: with room for two particles on
each of three ranks and four particles, one rank can be full before, during or
after the exchange, and three ranks are the fewest with a third party.
*Domain*: three ranks are merged as two and one; eight keys refine to trees that
differ; two steps make a decomposition start from the leavings of another.
*Force tree*: batches of four nodes are used up in the middle of an insertion and
the first allocation is too small, so that the build is made again.
*TopTree*: tables of two entries overflow on the second or third particle;
six particles in chunks of up to three let a pass break off inside a chunk and
the next in the same chunk, all threads at once too, when the run stops.
*Gas physics*: two ranks of two threads are the fewest with a remote query and a
race; the search has worlds whose neighbours are all too near, all too far,
tied, or more than the bracket can part; black holes have IDs that follow each
other and IDs that do not; the groups form chains that tie three
ranks together.

Deadlock is checked in every run but `treewalk`, `metal_rounds` and `run_control`,
whose ranks or programs really stop at the end; `DoesAllWork` in `treewalk`,
which no stuck state satisfies, does the same.

Fairness is assumed in the two tree walk modules only.  In `TopTree`: each thread
goes on (OpenMP threads are not suspended for ever), and so does the rank after
them.  In `TreeWalk` and `MetalReturn`: each rank goes on when it can, and a wait
for a message that has been sent to a posted receive ends, which is MPI's progress
rule.  The wait for sends may end sooner than fairness demands, since MPI may
buffer.

Every property that a run checks has a mutant in `PROJECT.json`: a variant of a
definition, next to it in the module, with a mistake the code might have, under
which TLC finds the property violated.  Some properties have named parts
(`HierInOrder`, `AllEntriesTogether`, `TreesSound`); the `TypeOK` of a module is
the type of its state, for the proofs and the reader, and `TimeStep`'s is proved,
the others' are part of the inductive invariants.

## 4. Proofs

| module | theorem | states |
|---|---|---|
| `TimeStep_proofs` | `TypeCorrect`, `KickSync`, `PhysicsSynchronised`, `NoParticleMissed`, `PMBoundaryKept`, `ClockAdvances`, `StopsAtSyncPoints` | the flat integrator: all properties of the run `timestep`, and that the clock advances |
| `HierTimeStep_proofs` | `HierInvariance`, `KicksInPlace`, `HierarchyHolds` | the hierarchical integrator until a PM step ends off the grid or the last rung is used: its invariant, `KicksInOrder`, `HierInOrder` |
| `TreeWalk_proofs` | `ResultsAddedOnce`, `RoundsNeverMeet`, `WalkImplementsRounds` | the walk of all ranks: each result once, rounds apart, the safety part of `WorkRounds` |
| `TreeWalk_proofs` | `MassIsKept` | metal return: no mass is made or lost, and no star loses more than it was to return |
| `TopTree_proofs` | `EntriesGoTogether`, `TopTreeImplementsRounds` | the threads' walk over the top-level tree: all entries of a particle in one pass, in order, and the safety part of `WorkRounds` |
| `Slots_proofs` | `NoneEverLost`, `ExchangeRelocates` | the exchange: no particle lost or doubled, no lack of room, each with its slot, and the whole of `Relocation` |
| `Slots_proofs` | `SlotsAlwaysMatchHolds`, `IDsAlwaysUniqueHolds`, `ActiveListAlwaysHolds` | the tables through the main loop: all properties of the run `particles` |
| `RunControl_proofs` | `ListedSnapshotsAreWhole`, `ListedSnapshotsAreKept`, `SnapshotsAreWrittenWhenDue` | crashes and restarts: all properties of the run `run_control` |
| `SnapshotIO_proofs` | `WritersApartHolds` | snapshots: not more ranks access the files of a block than the call allows, and no two of them the same row |

All hold for every value of the constants: any number of bins, particles, sync
points, ranks, entries, tables, planned outputs, files, restarts and crashes.  What
they assume of the constants are the named assumptions of the modules
(`TimelineAssumption`, `SetupAssumption`, `SnapshotAssumption`, ...), which TLC
evaluates in the runs, and the hypotheses given below.

**Data.**  `DataLemmas` proves induction over the natural numbers from the
well-foundedness of `<` (`LeastNat`, `NatSetInduction`: a set that has 0, and
n + 1 with each n, has them all; a set, because the provers cannot instantiate a
predicate), then division with remainder, that a function given by a recurrence
exists, what `InsertAt`, `FlattenSeq` and `SumFunctionOnSet` of the community
modules return, that `Orderings` of a set have each element once, and what is
picked in increasing order from a table: exactly the set, each once, in order
(`InOrderProperties`, `SelectAtProperties`).  `TimeStep_proofs` derives from
`Dti[b+1] = 2 * Dti[b]` by that induction that longer bins are longer and are
multiples of shorter ones (`DtiUp`), and from it where steps start and which bins
are active together.

**The flat integrator.**  `FlatInv` has two halves.  Before the first bins are given
out everything is at the starting time (`FreshInv`).  Afterwards `RunInv` says,
per phase of the loop, what `Ti_kick[b]` is for each bin, which the code never
says: for a bin that is not shorter than `mintimebin` it is the middle of its
current step, or the current time where a step ends; the shorter, empty bins
travel with the shortest occupied one (`FlatTableInv`).  `PartInv` ties each
particle to its bin's entry, `FlatMinInv` says that `mintimebin` is active and
occupied, `FlatPMInv` that the long-range step is a bin's step no shorter than that
of any particle and does not reach over a sync point.  None of the properties is
inductive: that the next kick does not jump over a step needs `mintimebin` to
be the least of the occupied bins, which needs the bins assigned on the way down
to be active, which needs the divisibility of the timeline.  All but
`TypeCorrect` need two hypotheses on the start of the run, both necessary (see
6.1 and 6.2): no black hole exists before the first bins are given out
(`NoBHAtStart`), and the run starts where every bin's step starts or is half over
(`AlignedStart`).

**The hierarchical integrator.**  `Inv` says where every kick time is on every
rung: `Before`, `Meet` and `After` are the three places the kick time of a bin
that ends a step now can have (half a step back, now, half a step ahead), and on
a ladder a particle is where the rung it was last kicked on has left it, because
each rung takes back the half step of the rung above and adds its own
(`RungInv`).  That a ladder starts in place is not inductive: it needs that the
last ladder ended in the particle's own bin, which needs the ladder to stop no
later than the shortest occupied bin (`MinInv`), the bins given on the way down to
be active, and the hydro bin to be no longer than the gravity bin (`HydroInv`).
The long-range step and the bins are chosen apart, and nothing in the code keeps
a PM step from ending off the grid of the bins it covers, or particles from the
last rung; the theorems therefore say `[](PMEndsOnGrid /\ BottomRungEmpty) => ...`
of a behaviour, whatever `ShortestBin` is and however the PM step grows, instead of
ruling such behaviours out by constants.  The invariant survives a step if the
two hold before and after it (`InvStep`); in particular a PM step may grow at
any place where the new one ends on the grid again.  That both are needed is what
6.3, a run, and 6.12 show.  `Setting` is what is left to assume of the start:
it is aligned, as above, and there are no black holes in a run without gas.
Black holes at the start are allowed: unlike the flat integrator this one tests
the right bin.

**Tree walk.**  Each rank's table is filled, sent, answered and reduced, and the
ranks are in different rounds at the same time.  The invariant follows the
entries: what is on the way between two ranks is exactly the part of the table
of the one for the other, in the order in which the reduction will look for it
(`PackedInPlace`, `ResultIsEntry`), it is on the way only between the exchange
of counts and the reduction, and an entry is still to be exported, or in the
table, or reduced, and only one of these.  `RoundsApart` follows because the
exchange of counts waits for all ranks while the sender of a message still
waits for its answer.  `WalkImplementsRounds` maps each step of each rank
(`RoundsTake`, `RoundsSend`, `RoundsEnd`, else a stutter).

**Metal return.**  The mass is a sum over the gas and the stars of all ranks, so
`DataLemmas` shows what `SumFunction` does when one value changes (`SumPoint`) and
when an amount is added at each of several places (`SumSpread`).  That mass is kept
is not inductive, because it speaks of the end: in between a neighbour has gained
what its star does not know of.  `LedgerInv` counts that as well: the gas has
gained what the stars have been told (`Paid`) and what answers say that are not
reduced (`Pledged`).  A step moves an amount into one of them or from one to the
other, which needs of the walk's invariant that each entry is answered once and
reduced once.  When all ranks are through nothing is pledged.  That no star gives too
much (`ShareInv`) does not follow from what the queries ask for: one that is filled
in a later round asks for less than one filled in the first (6.7), and
`GivenInFull` is violated for that.  It holds because every query offers at most the
star's first share to each particle, and the particles that have been answered for
(`Covered`) are neighbours of the star, each in one place of the walk only.  That
is the last part of `MetalReturnAssumption`: a gas particle is in the tree of one
rank, below one leaf of the top-level tree, and the walk over that tree puts each
leaf it meets into one entry of the table (`NodeList`, `treewalk.c:352`), so that
no particle is reached by two entries of one star or by an entry and the walk at
home.  `WithAnswers` is a recursion over the table, followed
by an induction over its entries.

**Top-level tree.**  At any moment the queue divides into what nobody has taken,
what some thread has in hand (the rest of its chunk, or of the chunk it broke
off when its table was full: `Held`) and what has been dealt with.  What threads
have in hand is apart (`HeldApart`), and a particle has no entries before it has
been dealt with and all of them afterwards, in one table or exchanged
(`EntriesInv`).  That no chunk is lost between two passes needs that a chunk
broken off is taken up before the thread does anything else (`ThreadInv`), and
that the walk ends only with an empty queue needs that a thread stops without a
full table only there.  A particle that does not fit into an empty table would
break the order check; the assumption `MaxExports <= BunchSize` rules that out.
The code refuses tables of fewer than 100 entries (`treewalk.c:129`) and otherwise
relies on a particle needing fewer entries than a table holds, without testing
it.  The order of the queue stands for the order of particle indices: the queues
are built with static schedules that keep them increasing (`treewalk.c:217`).

**Tables and slots.**  `Slots_proofs` first shows what each operator of `Slots`
does to a sound table: every live particle of a type with slots owns a slot in
use with its own data that no other has (`SlotsMatch`), and a slot nobody owns is
marked as garbage (`OrphansMarked`), without which a compaction would carry
slots of particles that are gone and a slot count would never shrink.  That both
survive a collection rests on the facts about picking elements in increasing
order (`InOrder`, `SelectAt`), got by induction over the number of elements.  The
two modules that use the tables then rely on these facts alone.

**Particle exchange.**  Ranks stand between the same two collective calls, or some
have gone on to the next round, and only the last failure lets some return
before the others (`StageInv`).  Each particle is at one index of one table or in
one buffer (`CopiesInv`); that is not inductive by itself: a rank marks as
garbage what it has packed by the plan it has made, so the list and the layouts
must still describe the table they are used on (`PlanInv`), and what is on its
way must be what *both* ranks count with, since the receiver reserves slots
from the layouts and not from what arrives (`SentInv`).  That a rank never runs
out of room is `RoomInv`, place by place: the test before packing counts live
particles, and it covers what arrives only because all ranks collect garbage in
between as soon as one has too little room as its table stands.  In
`ExchangeRelocates` the packing of a rank is the `Move` of `Relocation`; the
reductions that end the loop are its `Succeed`; giving up on a rank that is
full, or on the number of rounds, is its `Fail`; every other step stutters.  That
`Succeed` is right needs the last clause of `PlanInv`: after a round in which the
whole list was sent, all that is left is at home.

**The particle step.**  A star that is split off has no slot between
`slots_split_particle` and `slots_convert`, so that slots match only for the others
in between (`SlotInv`), and the pairs of new stars and the gas particles they form
from must be apart, new ones behind all older ones (`StarsInv`).  The list of
active particles stays one of distinct live indices because what is appended
to it lies behind everything it had at the start of the step (`ListInv`), which in
turn needs that nothing moves particles between `build_active_particles` and
the end of star formation.  IDs are unique because the generation counted
in a gas particle is not below that of any particle with its base (`IDInv`);
the proof needs `Generations + 1 < GenWrap`, that the count does not wrap.  The code
ends a run with more than 14 generations (`sfr_eff.c:164`), and the field has 4 bits
(`partmanager.h:23`).

**Run control.**  The invariant says that a listed snapshot has all blocks of
one process at one time, that a process writes to a number above all listed
ones (`find_last_snapnum`, `SnapshotFileCount`), that every planned output up to
the current time is listed or is being written, and that a restart finds a sync
point table in which what was planned and not written still is.  The last needs
what the insertion sort of `setup_sync_points` does for every list of outputs
(`AddOutputFacts`, `OutputPointsFacts`, `SetupFacts`, by induction over the lists)
and that integer times and scale factors keep the order of the sync points
(`PlaceOrder`, `LogaFacts`, `TiFacts`).

**Snapshots.**  That no two ranks write the same row is not inductive: where the
leader of a group is after a chunk follows from a seek relative to where it was.
The invariant says that its place in the block plus the rows it has still to move
is the end of its segment (`SegmentInv`), which a seek keeps because the bisection
ends at the file that holds the offset, empty files or not (`BisectedFacts`,
`SeekFacts`), and which needs that all ranks know the same files (`BlockInv`).
Segments of two groups have no row in common because the segmenter numbers
segments up with the ranks, whatever the counts (`ColorFacts`), and gives a
segment to one group only (`Segmented`); the groups with rows are numbered below
the number of writers, so that there are not too many at work.  A rank without
rows is in a segment and a group of its own kind, which the proof must set apart.
The sizes and the numbers of files are types of the run's data (`RunInv`),
through the header as it is written and read back (`ReadNTotalType`).  No
hypothesis is needed but `SnapshotAssumption`: whole numbers of ranks, rows and
bytes, and limits that are not zero where the code divides by them.

## 5. Only model-checked, or not modelled

Model-checked only: of `SnapshotIO` all but `WritersApart`; `Domain`,
`ForceTree`, and `GasPhysics` with its components; and of the components with
theorems `RungsMeet`, which holds outside the hypotheses of the theorems too, the liveness (`DoesAllWork`, `HandsOverOnce`), and with it the fairness of
`WorkRounds`.  Liveness is out of the provers' reach.  `Domain`, `ForceTree`,
`FofGroups` and `ParallelSort` are written with recursive operators, which the
provers cannot use in any module that reaches them; what these compute is an
induction over trees or over groups.  `RestartRoundTrip` is an induction over the
rows of a file.

What the models leave out:

* numerical work: forces, kernels, cooling, PM gravity and its FFTs, cosmology,
  initial conditions, the physical sums of groups, yields of metals.  Where a
  decision hangs on a number, the number is a choice or an integer that keeps
  the order;
* the memory allocator, whose protocol violation ends the run at its first use,
  and the parameter parser, which runs once;
* in `ParticleStep`, all active particles are on the top rung of gravity, and other
  ranks enter only through the garbage an exchange leaves;
* in `TreeWalk`, what a query does in the tree of the other rank is its answer;
* in `Domain`, the cost of a particle, which equals its count, and positions on
  the face of a leaf, which the force tree counts inside both;
* in `ForceTree`, ranks build one after another (they share nothing), an
  insertion is one step, and the centre of mass goes where the mass goes;
* in `FofGroups`, the exchange that moves a catalogue's particles succeeds or
  fails as a whole;
* in `HsmlLoop`, a neighbour counts one whatever its weight, and the write of
  `Hsml` in `effhsml` (metal_return.c:786) for a radius that has become zero is
  left out, as no radius does here;
* conversions of units and of types on output.

## 6. Where the code departs from what it says

Two of these, 3 and 7, are runs that end in the violation; their findings in
`PROJECT.json` quote the lines that the code departs from.  The others are described
by a property in the module named, which no run checks: TLC violates it when it is
put in the configuration of the module's run, with the constants given here.

1. `TimeStep`, `GravityStepsComplete`, with `InitType <- MCBH`: `find_timesteps`
   (timestep.c:816) tests the hydro bin where its comment (813) speaks of the
   gravity bin.  The two differ after `set_bh_first_timestep`, and a gravity bin
   changes in the middle of a step.
2. `TimeStep`, `KickTimesMatch` with `MCQuarter` for `InitTimes`: `init_timeline`
   (init.c:72) keeps the timeline for a start a quarter of the way between sync
   points, where the first half steps of the bins are not whole; the kick times of
   two tables then differ (timestep.c:905).
3. `HierTimeStep`, `HierPMNeverPassed` (run `hier_pm`): the hierarchical integrator
   does not shrink the PM step to the longest occupied bin (timestep.c:306, 615).
   A PM step that grows where no step of its new length starts ends in the middle of
   the steps of the longest bins, and the run ends with "Passed end of PM step!".
   Where a shorter bin stops the clock there in time, `HierSynchronised` is
   violated instead: the particles of the longer bins take part in a PM step
   with their velocities ahead of their positions, and in a DEBUG build a later kick
   of theirs finds the wrong time ("had grav kick time").
4. `ParticleStep`, `ActiveListFits`: `sfr_reserve_slots` (sfr_eff.c:441) allocates
   the list of active particles again with too few entries (comment at 1128).
5. `ParticleStep`, `StoredAccelIsOwn`: accelerations stored by index (run.c:541)
   are used after particles may have moved (run.c:693, timestep.c:353).
6. `TopTree`, `StopsOnlyWithoutProgress`: the check for
   progress in `ev_toptree` (treewalk.c:500) does not see particles of continued
   chunks.
7. `MetalReturn`, `GivenInFull` (run `metal_rounds`): `metal_return_reduce`
   (metal_return.c:615) stores what a star has given in the array that queries of
   later rounds are filled from.
8. `Domain`, `MemoryBoundRespected` (`MCTails` for `Placements`): the check of the
   load (domain.c:505) passes for shares beyond what its caller's comment (422)
   promises.  A failed check also leaves two temporary arrays allocated
   (domain.c:548).
9. `RunControl`, `PlaneThenContinues`: a plane asked for by a file stops the run
   (hci.c:204 against 208), and away from a sync point run.c:727 uses a sync point
   that is not there.
10. `HsmlLoop`, `NeverFails`: the search of a star whose neighbours sit at one
   distance never ends inside its bracket (metal_return.c:854).
11. `Hydro`, `HalvesAgree`: where at most one in ten thousand particles is active
   nothing is predicted beforehand; `hydro_reduce` then overwrites the rate of
   change that the prediction of another particle's neighbour needs, against the
   comment in density.c:289.  Predicted velocities are exposed to it at any time.
12. `HierTimeStep`, `NeverZeroAgain`: the ladder that opens
   a step stores the shortest gravity bin where it meets an empty rung
   (timestep.c:448); with particles on rung 1 it meets none, and the value stays
   that of an earlier step, 0 at the first (timestep.h:12: "never again").
   `MinSizeTimestep` is 0 by default and does not rule such steps out.
13. `BlackHole`, `LargestSwallows`: a claim on a black hole is the
   claimant's ID plus one and is compared with the next claimant's bare ID
   (blackhole.c:548), so that of two black holes with consecutive IDs the larger
   does not take the claim over, as the comment at 329 says it would.  What does
   hold is `LargestOrNextSwallows`; claims on gas are compared as they should
   be (607).
14. `SnapshotIO`, `SavedIsReadable`: the header of a block and
   the attributes of the snapshot's header are written through a buffer, and
   what `fclose` returns is not looked at (bigfile.c:606, 1624): when that write
   fails the snapshot counts as saved, is listed, and cannot be read.  The rows
   are not concerned: their files have no buffer (bigfile.c:1938), so that the
   unchecked `fclose` after them (957) has nothing to lose.

Met on the way, without a property: `CountProgs` loses the hole's own count in the primary reduction
(blackhole.c:951); rank 0 sends its first ID where the last is meant in
`domain_test_id_uniqueness` (exchange.c); a failed distribution leaves the
catalogue's file open (fofpetaio.c); an attribute without members can be written
but not read back (bigfile.c); the repair of siblings (forcetree.c:578) has no
effect; indices of slots and of particles are mixed in `bhinfo.c`.

## 7. Plan

1. Proofs: `RowsAreComplete` and `RestartRoundTrip` of `SnapshotIO`; claims of
   `BlackHole` (`LargestOrNextSwallows`), for which its actions have to stand in a
   module without recursive operators; recursive functions in place of the
   recursive operators of `Domain`, and then `TreesSound`.
2. Larger instances: three ranks in `ForceTree`, four bins in `TimeStep`.
3. Pure modules still missing: the allocator and the parameter parser.
