------------------------------ MODULE FofGroups ------------------------------
(***************************************************************************)
(* From labels to groups (fof.c) and to the halo catalogue (fofpetaio.c).  *)
(* A group lives on every rank that holds one of its members; the rank of  *)
(* the particle with its smallest ID hosts it ("prime"), the others hold   *)
(* "ghosts".  fof_reduce_groups adds up the parts, fof_assign_grnr numbers *)
(* the groups by a parallel sort, fof_seed turns the densest gas particle  *)
(* of a group into a black hole, and fof_save_particles moves the members  *)
(* so that the ranks, one after the other, hold them in group order.       *)
(***************************************************************************)
EXTENDS Integers, Sequences, FiniteSets, SequencesExt, FiniteSetsExt

(***************************************************************************)
(* How friends-of-friends groups are labelled (fof.c): fof_label_primary   *)
(* joins the primary (dark matter) particles of a rank that lie within a   *)
(* linking length, several threads at once and without a common lock, and  *)
(* then carries the smallest ID of every group across the ranks in rounds; *)
(* fof_label_secondary gives every other particle the label of the nearest *)
(* primary one.                                                            *)
(*                                                                         *)
(* A particle is a record; "pos" is its place on a line in tenths of the   *)
(* linking length.  The local index of a particle is its place in the      *)
(* sequence of its rank.  Every access of a thread to a shared word is a   *)
(* step, and so is every section under a spin lock; the ranks share        *)
(* nothing during their walks, which are taken one after the other.        *)
(***************************************************************************)

CONSTANTS
  NTask,       (* number of ranks                                           *)
  NThread,     (* threads of a rank                                         *)
  MaxBatch,    (* particles of a rank that its export buffer holds          *)
  Worlds       (* the particles of every rank at the start                  *)

Link == 10                 (* FOFHaloComovingLinkingLength                  *)
LARGE == 1000
Tasks == 0..(NTask - 1)
Threads == 1..NThread

VARIABLES
  P,           (* the particles of every rank                               *)
  HaloLabel,   (* [MinID, MinIDTask] of every particle                      *)
  Heads,       (* Head of every particle: an index of the same rank         *)
  OldMinID,
  PrimaryActive,
  walking,     (* the rank that is walking its tree                         *)
  next,        (* its next particle no thread has taken                     *)
  thread,      (* what every thread of that rank is doing                   *)
  sent,        (* of every rank, the last particle exported in this round   *)
  queries,     (* exported particles that are still to be handled           *)
  distance,    (* of the secondary particles, to the nearest primary one    *)
  hsml,        (* the radius they search                                    *)
  phase

linkVars == <<P, HaloLabel, Heads, OldMinID, PrimaryActive, walking, next,
              thread, sent, queries, distance, hsml, phase>>

---------------------------------------------------------------------------
NumPart(k) == Len(P[k])
Present(p) == ~p.swallowed
IsPrimary(p) == p.type = 1 /\ Present(p)
IsSecondary(p) == p.type \in {0, 4, 5} /\ Present(p)
Apart(p, q) == IF p.pos > q.pos THEN p.pos - q.pos ELSE q.pos - p.pos
Linked(p, q) == IsPrimary(p) /\ IsPrimary(q) /\ Apart(p, q) <= Link

Idle == [pc |-> "idle", target |-> 0, rest |-> <<>>, other |-> 0, at |-> 0,
         h1 |-> 0, h2 |-> 0, saved |-> [MinID |-> 0, MinIDTask |-> 0]]

\* The smaller of two labels.
Lower(l, m) == IF m.MinID < l.MinID THEN m ELSE l

\* The root above i.
HEAD(k, i) ==
  LET RECURSIVE Up(_)
      Up(r) == IF Heads[k][r] = r THEN r ELSE Up(Heads[k][r])
  IN Up(i)

\* Particle i of rank k has to walk.
fof_primary_haswork(k, i) == IsPrimary(P[k][i]) /\ PrimaryActive[k][i]

\* The local particles target is merged with, each pair from its lower side.
\* Merging a particle with itself reads the way to its head and changes nothing.
fof_primary_ngbiter(k, target) ==
  SelectSeq([j \in 1..NumPart(k) |-> j],
            LAMBDA j : target < j /\ Linked(P[k][target], P[k][j]))

\* The next step of a thread after its pair is done.
Onward(th) ==
  IF th.rest = <<>> THEN Idle
  ELSE [Idle EXCEPT !.pc = "head1", !.target = th.target, !.at = th.target,
                    !.other = th.rest[1], !.rest = Tail(th.rest)]

Becomes(t, th) == thread' = [thread EXCEPT ![t] = th]

---------------------------------------------------------------------------
Init ==
  /\ P \in Worlds
  /\ HaloLabel = <<>> /\ Heads = <<>> /\ OldMinID = <<>> /\ PrimaryActive = <<>>
  /\ walking = 0 /\ next = 1 /\ thread = [t \in Threads |-> Idle]
  /\ sent = <<>> /\ queries = {} /\ distance = <<>> /\ hsml = <<>>
  /\ phase = "start"

\* fof_fof labels every particle with its own ID and fof_label_primary makes it
\* its own head; the search of the others begins at 0.4 linking lengths, or at
\* half their smoothing length if that is more.
FirstRadius(q) == IF q.type \in {0, 4, 5} /\ q.sml > 8 THEN q.sml \div 2 ELSE 4

fof_begin ==
  /\ phase = "start"
  /\ LET Each(f(_, _)) == [k \in Tasks |-> [i \in 1..NumPart(k) |-> f(k, i)]]
     IN /\ HaloLabel' = Each(LAMBDA k, i : [MinID |-> P[k][i].ID, MinIDTask |-> k])
        /\ Heads' = Each(LAMBDA k, i : i)
        /\ OldMinID' = Each(LAMBDA k, i : P[k][i].ID)
        /\ PrimaryActive' = Each(LAMBDA k, i : TRUE)
        /\ distance' = Each(LAMBDA k, i : LARGE)
        /\ hsml' = Each(LAMBDA k, i : FirstRadius(P[k][i]))
  /\ sent' = [k \in Tasks |-> 0]
  /\ phase' = "export"
  /\ UNCHANGED <<P, walking, next, thread, queries>>

\* Particles of rank k that some other rank holds a neighbour of and that are
\* still to be exported in this round, and those of them the buffer has room
\* for.
Exporting(k) ==
  {i \in (sent[k] + 1)..NumPart(k) :
     fof_primary_haswork(k, i)
       /\ \E m \in Tasks \ {k} : \E j \in 1..NumPart(m) : Linked(P[k][i], P[m][j])}

Batch(k) == {i \in Exporting(k) : Cardinality({j \in Exporting(k) : j < i}) < MaxBatch}

\* The label an exported particle takes along: that of its head, now.
fof_primary_copy(k, i) == HaloLabel[k][HEAD(k, i)]

\* Every rank fills the queries of its next batch.  That of the first batch of a
\* round comes before the local walk, so its labels are those of the last
\* round; that of a later one when all ranks have handled the batch before.
FillQueries ==
  /\ \/ phase = "export"
     \/ phase = "ghosts" /\ queries = {} /\ \E k \in Tasks : Exporting(k) # {}
  /\ queries' = UNION {UNION {
       {[task |-> m, at |-> j, label |-> fof_primary_copy(k, i)] :
          m \in {n \in Tasks \ {k} : j \in 1..NumPart(n) /\ Linked(P[k][i], P[n][j])}} :
       <<i, j>> \in Batch(k) \X (1..Max({NumPart(n) : n \in Tasks}))} : k \in Tasks}
  /\ sent' = [k \in Tasks |-> Max(Batch(k) \cup {sent[k]})]
  /\ phase' = IF phase = "export" THEN "walk" ELSE "ghosts"
  /\ UNCHANGED <<P, HaloLabel, Heads, OldMinID, PrimaryActive, walking, next, thread,
                 distance, hsml>>

\* A thread without work takes the next particle that has some.
TakeTarget(t) ==
  /\ phase = "walk" /\ thread[t].pc = "idle"
  /\ \E i \in next..NumPart(walking) :
       LET others == fof_primary_ngbiter(walking, i)
           Work(j) == fof_primary_haswork(walking, j)
                        /\ fof_primary_ngbiter(walking, j) # <<>>
       IN /\ Work(i) /\ \A j \in next..(i - 1) : ~Work(j)
          /\ next' = i + 1
          /\ Becomes(t, Onward([Idle EXCEPT !.target = i, !.rest = others]))
  /\ UNCHANGED <<P, HaloLabel, Heads, OldMinID, PrimaryActive, walking, sent, queries,
                 distance, hsml, phase>>

\* One read on the way from target to its head; at the head the way from other
\* starts, which ends at once where it meets that head.
HEADl(th, above) ==
  CASE th.pc = "head1" /\ above # th.at -> [th EXCEPT !.at = above]
    [] th.pc = "head1" /\ above = th.at ->
         IF th.other = above THEN Onward(th)
         ELSE [th EXCEPT !.h1 = above, !.at = th.other, !.pc = "head2"]
    [] th.pc = "head2" /\ above = th.h1 -> Onward(th)
    [] th.pc = "head2" /\ above # th.h1 /\ above # th.at -> [th EXCEPT !.at = above]
    [] th.pc = "head2" /\ above # th.h1 /\ above = th.at ->
         [th EXCEPT !.h1 = Min({th.h1, above}), !.h2 = Max({th.h1, above}), !.pc = "join"]

ReadHead(t) ==
  /\ thread[t].pc \in {"head1", "head2"}
  /\ Becomes(t, HEADl(thread[t], Heads[walking][thread[t].at]))
  /\ UNCHANGED <<P, HaloLabel, Heads, OldMinID, PrimaryActive, walking, next, sent, queries,
                 distance, hsml, phase>>

\* Mutant: h2 is put below h1 without looking whether it still is a head.
PlainStore(heads, h2) == TRUE

\* The compare and exchange: is h2 still a head?
StillHead(heads, h2) == heads[h2] = h2

\* The higher head is put below the lower one, if it still is a head; if not,
\* both ways are read again.
fofp_merge(t) ==
  /\ thread[t].pc = "join"
  /\ LET th == thread[t] IN
     IF StillHead(Heads[walking], th.h2)
     THEN /\ Heads' = [Heads EXCEPT ![walking][th.h2] = th.h1]
          /\ Becomes(t, [th EXCEPT !.pc = "copy"])
     ELSE /\ Becomes(t, [th EXCEPT !.pc = "head1", !.at = th.target])
          /\ UNCHANGED Heads
  /\ UNCHANGED <<P, HaloLabel, OldMinID, PrimaryActive, walking, next, sent, queries,
                 distance, hsml, phase>>

\* The label of h2 is copied under its lock, and put on h1 under the lock of h1
\* if it is lower.
CopyLabel(t) ==
  /\ thread[t].pc = "copy"
  /\ Becomes(t, [thread[t] EXCEPT !.saved = HaloLabel[walking][thread[t].h2], !.pc = "put"])
  /\ UNCHANGED <<P, HaloLabel, Heads, OldMinID, PrimaryActive, walking, next, sent, queries,
                 distance, hsml, phase>>

PutLabel(t) ==
  /\ thread[t].pc = "put"
  /\ HaloLabel' = [HaloLabel EXCEPT ![walking][thread[t].h1] = Lower(@, thread[t].saved)]
  /\ Becomes(t, [thread[t] EXCEPT !.at = thread[t].target, !.pc = "splay1"])
  /\ UNCHANGED <<P, Heads, OldMinID, PrimaryActive, walking, next, sent, queries,
                 distance, hsml, phase>>

\* Mutant: update_root also writes the entry of the root itself.
WritesRoot(i, r) == FALSE

\* update_root writes nothing when it is called for the root itself.
AlreadyRoot(i, r) == i = r

\* One turn of update_root: the entry of the particle at hand becomes the head,
\* and its old value is next, unless it was itself or not above the head.
update_root(t) ==
  /\ thread[t].pc \in {"splay1", "splay2"}
  /\ LET th == thread[t]
         r == th.h1
         above == Heads[walking][th.at]
         done == IF th.pc = "splay1"
                 THEN [th EXCEPT !.pc = "splay2", !.at = th.other] ELSE Onward(th)
     IN IF AlreadyRoot(th.at, r)
        THEN Becomes(t, done) /\ UNCHANGED Heads
        ELSE /\ Heads' = [Heads EXCEPT ![walking][th.at] = r]
             /\ Becomes(t, IF above # th.at /\ above > r THEN [th EXCEPT !.at = above] ELSE done)
  /\ UNCHANGED <<P, HaloLabel, OldMinID, PrimaryActive, walking, next, sent, queries,
                 distance, hsml, phase>>

\* A rank has walked its tree; after the last one the queries are handled.
WalkDone ==
  /\ phase = "walk" /\ \A t \in Threads : thread[t].pc = "idle"
  /\ \A i \in next..NumPart(walking) :
       ~fof_primary_haswork(walking, i) \/ fof_primary_ngbiter(walking, i) = <<>>
  /\ next' = 1
  /\ IF walking = NTask - 1
     THEN walking' = 0 /\ phase' = "ghosts"
     ELSE walking' = walking + 1 /\ UNCHANGED phase
  /\ UNCHANGED <<P, HaloLabel, Heads, OldMinID, PrimaryActive, thread, sent, queries,
                 distance, hsml>>

\* A rank handles an exported particle: the head of its neighbour may get its
\* label.
Ghost ==
  /\ phase = "ghosts"
  /\ \E q \in queries :
       /\ queries' = queries \ {q}
       /\ HaloLabel' = [HaloLabel EXCEPT ![q.task][HEAD(q.task, q.at)] = Lower(@, q.label)]
  /\ UNCHANGED <<P, Heads, OldMinID, PrimaryActive, walking, next, thread, sent, distance,
                 hsml, phase>>

\* The lowest label below a head: a thread may have put a label on a particle
\* that was no head any more.
LowestBelow(k, h) ==
  HaloLabel[k][CHOOSE i \in 1..NumPart(k) :
    /\ HEAD(k, i) = h
    /\ \A j \in 1..NumPart(k) : HEAD(k, j) = h => HaloLabel[k][i].MinID <= HaloLabel[k][j].MinID]

\* Is another round needed?  Every rank says how many labels changed.
LinksAcross(changed) == \E k \in Tasks : \E i \in DOMAIN changed[k] : changed[k][i]

\* After the exchange every particle gets the lowest label of its group; those
\* whose label changed walk again, until none has on any rank.
fof_label_primary ==
  /\ phase = "ghosts" /\ queries = {} /\ \A k \in Tasks : Exporting(k) = {}
  /\ LET label == [k \in Tasks |-> [i \in 1..NumPart(k) |-> LowestBelow(k, HEAD(k, i))]]
         changed == [k \in Tasks |-> [i \in 1..NumPart(k) |-> label[k][i].MinID # OldMinID[k][i]]]
     IN /\ HaloLabel' = label
        /\ PrimaryActive' = changed
        /\ OldMinID' = [k \in Tasks |-> [i \in 1..NumPart(k) |-> label[k][i].MinID]]
        /\ phase' = IF LinksAcross(changed) THEN "export" ELSE "attach"
  /\ sent' = [k \in Tasks |-> 0]
  /\ UNCHANGED <<P, Heads, walking, next, thread, queries, distance, hsml>>

---------------------------------------------------------------------------
\* Secondary particles that have not found a primary one.
fof_secondary_haswork(k, i) == IsSecondary(P[k][i]) /\ distance[k][i] = LARGE

\* The primary particles of any rank particle i of rank k reaches.
Reached(k, i) ==
  {x \in UNION {{m} \X (1..NumPart(m)) : m \in Tasks} :
     IsPrimary(P[x[1]][x[2]]) /\ Apart(P[k][i], P[x[1]][x[2]]) <= hsml[k][i]}

\* The nearest of them; of equally near ones that of the own rank.
fof_secondary_ngbiter(k, i) ==
  LET Far(x) == Apart(P[k][i], P[x[1]][x[2]])
  IN CHOOSE x \in Reached(k, i) :
       \A y \in Reached(k, i) : /\ Far(x) <= Far(y)
                                /\ (Far(x) = Far(y) /\ y[1] = k) => x[1] = k

\* One round of the search: found, or searched further out next time, or given
\* up.
fof_label_secondary ==
  /\ phase = "attach"
  /\ LET found(k, i) == fof_secondary_haswork(k, i) /\ Reached(k, i) # {}
         again(k, i) == fof_secondary_haswork(k, i) /\ Reached(k, i) = {}
                          /\ hsml[k][i] < 4 * Link
         near(k, i) == fof_secondary_ngbiter(k, i)
     IN /\ HaloLabel' = [k \in Tasks |-> [i \in 1..NumPart(k) |->
              IF found(k, i) THEN HaloLabel[near(k, i)[1]][near(k, i)[2]] ELSE HaloLabel[k][i]]]
        /\ distance' = [k \in Tasks |-> [i \in 1..NumPart(k) |->
              IF found(k, i) THEN Apart(P[k][i], P[near(k, i)[1]][near(k, i)[2]])
              ELSE IF fof_secondary_haswork(k, i) /\ ~again(k, i) THEN -1
              ELSE distance[k][i]]]
        /\ hsml' = [k \in Tasks |-> [i \in 1..NumPart(k) |->
              IF again(k, i) THEN 2 * hsml[k][i] ELSE hsml[k][i]]]
        /\ phase' = IF \E k \in Tasks : \E i \in 1..NumPart(k) : again(k, i)
                    THEN "attach" ELSE "labelled"
  /\ UNCHANGED <<P, Heads, OldMinID, PrimaryActive, walking, next, thread, sent, queries>>

LinkNext ==
  \/ \E t \in Threads : \/ TakeTarget(t) \/ ReadHead(t) \/ fofp_merge(t)
                        \/ CopyLabel(t) \/ PutLabel(t) \/ update_root(t)
  \/ FillQueries \/ WalkDone \/ Ghost \/ fof_label_primary \/ fof_label_secondary

-----------------------------------------------------------------------------
CONSTANTS
  FOFHaloMinLength,
  MinSeedLength,      (* MinFoFMassForNewSeed, in particles                 *)
  MinStarLength,      (* MinMStarForNewSeed, in stars                       *)
  NSortThread, SegmentSize,
  MaxID               (* above every ID                                     *)

Sort == INSTANCE ParallelSort

ASSUME FofGroupsAssumption ==
  /\ NTask \in Nat \ {0} /\ NSortThread \in Nat \ {0} /\ SegmentSize \in Nat

VARIABLES
  base,      (* groups of every rank, as fof_compile_base and on make them  *)
  GrNr,      (* group number of every particle, -1 outside groups           *)
  Group,     (* the catalogue of every rank                                 *)
  halo,      (* the members of groups in the order they are written         *)
  made       (* black holes made: <<rank, index>> of the gas particle       *)

groupVars == <<base, GrNr, Group, halo, made>>
vars == <<linkVars, groupVars>>

LessByID(a, b) == a.MinID < b.MinID
Seqn(n) == [i \in 1..n |-> i]

---------------------------------------------------------------------------
(* Groups that span ranks.                                                 *)

\* What the rank k hosts, in the order of the IDs, and what it holds of others,
\* in the order of their ranks.
Prime(groups, k) == SortSeq(SelectSeq(groups[k], LAMBDA g : g.MinIDTask = k), LessByID)
Ghosts(groups, k) ==
  SortSeq(SelectSeq(groups[k], LAMBDA g : g.MinIDTask # k),
          LAMBDA a, b : a.MinIDTask < b.MinIDTask
                          \/ (a.MinIDTask = b.MinIDTask /\ a.MinID < b.MinID))

\* The parts of a group the other ranks send to its host, in their order.
Images(groups, m, id) ==
  FlattenSeq([k \in 1..NTask |->
                SelectSeq(Ghosts(groups, k - 1),
                          LAMBDA g : g.MinIDTask = m /\ g.MinID = id)])

\* Mutant: the seed of the host's own part stays.
KeepsOwnSeed(parts) ==
  [parts[1] EXCEPT !.Length = FoldLeft(LAMBDA acc, g : acc + g.Length, 0, parts),
                   !.LenStar = FoldLeft(LAMBDA acc, g : acc + g.LenStar, 0, parts),
                   !.LenBH = FoldLeft(LAMBDA acc, g : acc + g.LenBH, 0, parts)]

\* Adding up the parts of a group: their sizes, and the densest gas particle,
\* the first of equally dense ones.
fof_reduce_group(parts) ==
  LET dens == Max({parts[n].MaxDens : n \in DOMAIN parts})
      best == CHOOSE n \in DOMAIN parts :
                parts[n].MaxDens = dens /\ \A m \in 1..(n - 1) : parts[m].MaxDens # dens
      Total(f(_)) == FoldLeft(LAMBDA acc, g : acc + f(g), 0, parts)
  IN [parts[1] EXCEPT !.Length = Total(LAMBDA g : g.Length),
                      !.LenStar = Total(LAMBDA g : g.LenStar),
                      !.LenBH = Total(LAMBDA g : g.LenBH),
                      !.MaxDens = dens,
                      !.seed = parts[best].seed]

\* The whole group at its host.
Whole(groups, m, id) ==
  fof_reduce_group(SelectSeq(Prime(groups, m), LAMBDA g : g.MinID = id) \o Images(groups, m, id))

\* Every rank's list afterwards: its own groups first, and of every group it
\* holds the whole.
fof_reduce_groups(groups) ==
  Sort!PerTask(LAMBDA k :
    LET held == Prime(groups, k) \o Ghosts(groups, k)
    IN Sort!Listed(Len(held), LAMBDA i : Whole(groups, held[i].MinIDTask, held[i].MinID)))

---------------------------------------------------------------------------
\* The particles of rank k with a label, in the order of their indices.
Members(k, id) == SelectSeq(Seqn(NumPart(k)), LAMBDA i : HaloLabel[k][i].MinID = id)

EmptyGroup(k, id) ==
  [MinID |-> id,
   MinIDTask |-> HaloLabel[k][Members(k, id)[1]].MinIDTask,
   Length |-> 0, LenStar |-> 0, LenBH |-> 0, MaxDens |-> 0, seed |-> <<-1, -1>>, GrNr |-> 0, OriginalTask |-> k]

\* The labels of rank k, in order.
Labels(k) ==
  LET ids == {HaloLabel[k][i].MinID : i \in 1..NumPart(k)}
  IN SortSeq(SelectSeq(Seqn(NumPart(k)),
                       LAMBDA i : \A j \in 1..(i - 1) : HaloLabel[k][j].MinID # HaloLabel[k][i].MinID),
             LAMBDA i, j : HaloLabel[k][i].MinID < HaloLabel[k][j].MinID)

\* The groups that are not too short once their parts are added up.
fof_compile_base ==
  /\ phase = "labelled"
  /\ LET local == Sort!PerTask(LAMBDA k : Sort!Listed(Len(Labels(k)), LAMBDA n :
                     LET id == HaloLabel[k][Labels(k)[n]].MinID
                     IN [EmptyGroup(k, id) EXCEPT !.Length = Len(Members(k, id))]))
         all == fof_reduce_groups(local)
     IN base' = [k \in Tasks |-> SelectSeq(all[k], LAMBDA g : g.Length >= FOFHaloMinLength)]
  /\ phase' = "number"
  /\ UNCHANGED <<P, HaloLabel, Heads, OldMinID, PrimaryActive, walking, next, thread,
                 sent, queries, distance, hsml, GrNr, Group, halo, made>>

\* Mutant: the parts of a group come in the order of the ranks.
HostInRankOrder(g) == (((MaxID - g.Length) * MaxID + g.MinID) * NTask) + g.OriginalTask

\* The order of the numbers: longer groups first, then by ID, the host's part
\* before the ghosts.
fof_radix_Group_TotalCountTaskDiffMinID(g) ==
  ((MaxID - g.Length) * MaxID + g.MinID) * NTask
    + (IF g.OriginalTask > g.MinIDTask THEN g.OriginalTask - g.MinIDTask
       ELSE g.MinIDTask - g.OriginalTask)

fof_radix_Group_OriginalTaskMinID(g) == g.OriginalTask * MaxID + g.MinID

Keyed(data, Key(_)) ==
  Sort!PerTask(LAMBDA k : Sort!Listed(Len(data[k]), LAMBDA i :
    [key |-> Key(data[k][i]), item |-> data[k][i]]))
Items(data) ==
  Sort!PerTask(LAMBDA k : Sort!Listed(Len(data[k]), LAMBDA i : data[k][i].item))

\* Hosts among the first n groups of a list.
HostsIn(list, n) ==
  Cardinality({i \in 1..n : list[i].OriginalTask = list[i].MinIDTask})

SortedBy(data, Key(_)) == Items(Sort!mpsort_mpi(Keyed(data, Key)))

\* Groups are numbered by their hosts' parts, ghosts get the number of the part
\* before them.
Numbered(byLength) ==
  LET Offset(k) == Sort!SumOver([t \in Tasks |-> HostsIn(byLength[t], Len(byLength[t]))], 0..(k - 1))
  IN Sort!PerTask(LAMBDA k : Sort!Listed(Len(byLength[k]), LAMBDA i :
       [byLength[k][i] EXCEPT !.GrNr = HostsIn(byLength[k], i) + Offset(k)]))

\* Then every list goes back to its rank.
fof_assign_grnr ==
  /\ phase = "number"
  /\ LET marked == Sort!PerTask(LAMBDA k : Sort!Listed(Len(base[k]), LAMBDA i :
                     [base[k][i] EXCEPT !.OriginalTask = k]))
     IN base' = SortedBy(Numbered(SortedBy(marked, fof_radix_Group_TotalCountTaskDiffMinID)),
                         fof_radix_Group_OriginalTaskMinID)
  /\ phase' = "catalogue"
  /\ UNCHANGED <<P, HaloLabel, Heads, OldMinID, PrimaryActive, walking, next, thread,
                 sent, queries, distance, hsml, GrNr, Group, halo, made>>

\* A group of the catalogue gets the particles of the rank: they are counted, and
\* the densest gas particle that is not in a wind, the first of equals, may
\* become its seed.
add_particle_to_group(k, g) ==
  LET members == {i \in 1..NumPart(k) : HaloLabel[k][i].MinID = g.MinID}
      able == {i \in members : P[k][i].type = 0 /\ ~P[k][i].wind}
      dens == Max({P[k][i].dens : i \in able} \cup {0})
  IN [g EXCEPT !.Length = Cardinality(members),
               !.LenStar = Cardinality({i \in members : P[k][i].type = 4}),
               !.LenBH = Cardinality({i \in members : P[k][i].type = 5}),
               !.MaxDens = dens,
               !.seed = IF dens = 0 THEN <<-1, -1>>
                        ELSE <<k, Min({i \in able : P[k][i].dens = dens})>>]

\* The particles are given the numbers of their groups and the catalogue is
\* made of them.
fof_compile_catalogue ==
  /\ phase = "catalogue"
  /\ GrNr' = [k \in Tasks |-> [i \in 1..NumPart(k) |->
       LET of == {n \in DOMAIN base[k] : base[k][n].MinID = HaloLabel[k][i].MinID}
       IN IF of = {} THEN -1 ELSE base[k][CHOOSE n \in of : TRUE].GrNr]]
  /\ Group' = fof_reduce_groups(Sort!PerTask(LAMBDA k : Sort!Listed(Len(base[k]), LAMBDA n :
       add_particle_to_group(k, base[k][n]))))
  /\ phase' = "found"
  /\ UNCHANGED <<P, HaloLabel, Heads, OldMinID, PrimaryActive, walking, next, thread,
                 sent, queries, distance, hsml, base, halo, made>>

Hosted(k) == SelectSeq(Group[k], LAMBDA g : g.MinIDTask = k)

---------------------------------------------------------------------------
\* A group the host finds heavy enough, with enough stars and without a black
\* hole, gets one; the host sends it to the rank of its densest gas particle.
Marked(g) ==
  /\ g.Length >= MinSeedLength /\ g.LenStar >= MinStarLength
  /\ g.LenBH = 0 /\ g.seed[2] >= 0

fof_seed ==
  /\ phase = "found"
  /\ LET exports == UNION {{Hosted(k)[n] : n \in DOMAIN Hosted(k)} : k \in Tasks}
         seeds == {g.seed : g \in {h \in exports : Marked(h)}}
     IN /\ made' = made \cup seeds
        /\ P' = [k \in Tasks |-> [i \in 1..NumPart(k) |->
                   IF <<k, i>> \in seeds THEN [P[k][i] EXCEPT !.type = 5] ELSE P[k][i]]]
  /\ phase' = "seeded"
  /\ UNCHANGED <<HaloLabel, Heads, OldMinID, PrimaryActive, walking, next, thread,
                 sent, queries, distance, hsml, base, GrNr, Group, halo>>

\* The particles of groups: <<rank, index>>, with the number of their group.
PartIndex(k) ==
  LET grouped == SelectSeq(Seqn(NumPart(k)), LAMBDA i : GrNr[k][i] >= 0)
  IN Sort!Listed(Len(grouped), LAMBDA n :
       [sortKey |-> GrNr[k][grouped[n]], origin |-> (k * MaxID) + grouped[n], targetTask |-> k])

\* Two parallel sorts: by group, to see on which rank a particle would be, and
\* back to where it is now.
Told(byGroup) ==
  Sort!PerTask(LAMBDA k : Sort!Listed(Len(byGroup[k]), LAMBDA i :
    [byGroup[k][i] EXCEPT !.targetTask = k]))

fof_find_target_task ==
  SortedBy(Told(SortedBy([k \in Tasks |-> PartIndex(k)], LAMBDA q : q.sortKey)),
           LAMBDA q : q.origin)

\* Where every particle of rank k must go; those outside groups stay.
fof_copy_target_task(told, k) ==
  Sort!Listed(NumPart(k), LAMBDA i :
     IF GrNr[k][i] < 0 THEN k
     ELSE told[k][CHOOSE n \in DOMAIN told[k] : told[k][n].origin % MaxID = i].targetTask)

\* After the exchange every rank orders what it got by type and group.
order_by_type_and_grnr(a, b) ==
  P[a[1]][a[2]].type < P[b[1]][b[2]].type
    \/ (P[a[1]][a[2]].type = P[b[1]][b[2]].type /\ GrNr[a[1]][a[2]] < GrNr[b[1]][b[2]])

Everyone == FlattenSeq([k \in 1..NTask |-> [i \in 1..NumPart(k - 1) |-> <<k - 1, i>>]])

\* What is written of them.
fof_select_func(k, i) == GrNr[k][i] >= 0 /\ ~P[k][i].swallowed

\* The particles of every rank afterwards.
Distributed(target) ==
  [k \in Tasks |->
     SortSeq(SelectSeq(Everyone, LAMBDA x : /\ target[x[1]][x[2]] = k
                                            /\ fof_select_func(x[1], x[2])),
             order_by_type_and_grnr)]

Targets(told) == Sort!PerTask(LAMBDA k : fof_copy_target_task(told, k))

fof_distribute_particles == Distributed(Targets(fof_find_target_task))

\* The catalogue with its members is written; if the exchange of the particles
\* fails the groups are written without them.
fof_save_particles ==
  /\ phase = "found"
  /\ \/ halo' = fof_distribute_particles
     \/ UNCHANGED halo
  /\ phase' = "saved"
  /\ UNCHANGED <<P, HaloLabel, Heads, OldMinID, PrimaryActive, walking, next, thread,
                 sent, queries, distance, hsml, base, GrNr, Group, made>>

---------------------------------------------------------------------------
GroupsInit ==
  /\ Init
  /\ base = <<>> /\ Group = <<>> /\ halo = <<>> /\ GrNr = <<>> /\ made = {}

fof_fof ==
  /\ fof_begin
  /\ base' = [k \in Tasks |-> <<>>]
  /\ Group' = [k \in Tasks |-> <<>>]
  /\ halo' = [k \in Tasks |-> <<>>]
  /\ GrNr' = [k \in Tasks |-> [i \in 1..NumPart(k) |-> -1]]
  /\ UNCHANGED made

fof_find ==
  \/ fof_fof
  \/ LinkNext /\ UNCHANGED groupVars
  \/ fof_compile_base \/ fof_assign_grnr \/ fof_compile_catalogue

Next == fof_find \/ fof_seed \/ fof_save_particles

Spec == GroupsInit /\ [][Next]_vars

---------------------------------------------------------------------------
All == UNION {{k} \X (1..NumPart(k)) : k \in Tasks}
Primaries == {x \in All : P[x[1]][x[2]].type = 1 /\ ~P[x[1]][x[2]].swallowed}
Of(x) == P[x[1]][x[2]]
LabelOf(x) == HaloLabel[x[1]][x[2]]

\* Friends of friends, by definition: the smallest set that holds x and every
\* primary particle linked to one of its members.
RECURSIVE Grown(_)
Grown(S) ==
  LET more == {y \in Primaries : \E x \in S : Linked(Of(x), Of(y))} \cup S
  IN IF more = S THEN S ELSE Grown(more)
Friends(x) == Grown({x})

Founder(S) == CHOOSE x \in S : \A y \in S : Of(x).ID <= Of(y).ID

\* When the rounds end (fof_label_primary), whatever the threads did to the
\* heads and in whatever order the ranks handled each other's particles, every
\* dark matter particle has the smallest ID among its friends of friends on all
\* ranks, and the rank that particle is on.
LabelsRight ==
  phase \in {"attach", "labelled"} =>
    \A x \in Primaries :
      LabelOf(x) = [MinID |-> Of(Founder(Friends(x))).ID, MinIDTask |-> Founder(Friends(x))[1]]

\* Particles that share a head share one ever after: no step of a thread, in
\* fofp_merge or in update_root, undoes what another thread joined.
NeverParted ==
  [][phase = "walk" => \A k \in Tasks : \A i, j \in 1..NumPart(k) :
       HEAD(k, i) = HEAD(k, j) => HEAD(k, i)' = HEAD(k, j)']_Heads

\* The members a group should have: friends, and what was attached to them.
MembersOf(id) == {x \in All : LabelOf(x).MinID = id}
Long == {id \in {LabelOf(x).MinID : x \in All} : Cardinality(MembersOf(id)) >= FOFHaloMinLength}

\* Written rank after rank, the particles of one type are in the order of their
\* groups (fof_save_particles): each group's members lie together, and each is
\* written once.
WrittenInOrder ==
  phase = "saved" /\ halo # [k \in Tasks |-> <<>>] =>
    \A type \in {0, 1, 4, 5} :
      LET rows == SelectSeq(FlattenSeq([k \in 1..NTask |-> halo[k - 1]]),
                            LAMBDA x : Of(x).type = type)
      IN /\ \A m, n \in DOMAIN rows : m < n => GrNr[rows[m][1]][rows[m][2]] <= GrNr[rows[n][1]][rows[n][2]]
         /\ Len(rows) = Cardinality({x \in All : fof_select_func(x[1], x[2]) /\ Of(x).type = type})
         /\ Cardinality(Range(rows)) = Len(rows)

\* Every rank that holds a member of a long enough group has it in its
\* catalogue, with the length and the number all other ranks have; the numbers
\* are 1, 2, ... in the order of the lengths and no two groups share one; its
\* members, and no other particles, carry it.
CatalogueAgrees ==
  /\ WrittenInOrder
  /\ phase \in {"found", "saved"} =>
    LET entries == UNION {{[MinID |-> Group[k][n].MinID, Length |-> Group[k][n].Length,
                            GrNr |-> Group[k][n].GrNr] : n \in DOMAIN Group[k]} : k \in Tasks}
    IN /\ {e.MinID : e \in entries} = Long
       /\ {e.GrNr : e \in entries} = 1..Cardinality(Long)
       /\ Cardinality(entries) = Cardinality(Long)
       /\ \A e \in entries :
            /\ e.Length = Cardinality(MembersOf(e.MinID))
            /\ \A f \in entries : f.Length > e.Length => f.GrNr < e.GrNr
            /\ {x \in All : GrNr[x[1]][x[2]] = e.GrNr} = MembersOf(e.MinID)

\* Seeding makes one black hole in every group that is heavy enough, has enough
\* stars and no black hole, out of the densest gas particle of the group that is not in a wind,
\* whatever rank that is on, and touches no other particle.
SeededOnce ==
  phase = "seeded" =>
    LET Gas(id) == {x \in MembersOf(id) : (Of(x).type = 0 \/ x \in made) /\ ~Of(x).wind}
        Due == {id \in Long : /\ Cardinality(MembersOf(id)) >= MinSeedLength
                              /\ Cardinality({x \in MembersOf(id) : Of(x).type = 4}) >= MinStarLength
                              /\ Gas(id) # {}
                              /\ ~\E x \in MembersOf(id) : Of(x).type = 5 /\ x \notin made}
    IN /\ \A id \in Due : \E x \in Gas(id) \cap made : \A y \in Gas(id) : Of(y).dens <= Of(x).dens
       /\ Cardinality(made) = Cardinality(Due)
=============================================================================
