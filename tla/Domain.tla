------------------------------- MODULE Domain -------------------------------
(***************************************************************************)
(* The domain decomposition, libgadget/domain.c, on NTask ranks: the full  *)
(* decomposition with its policies and retries, the cheap one that keeps   *)
(* the leaves and moves the particles that left their leaf, and what the   *)
(* main loop and the friends-of-friends output do in between.              *)
(*                                                                         *)
(* Ranks run the same code and meet in a collective call after every part  *)
(* of it, so an action is one such part on all ranks; what a rank decides  *)
(* before the collective is kept per rank.  A position is its Peano key.   *)
(* The exchange is the result of Exchange.tla: all particles that must go, *)
(* or a failure after some of them went.                                   *)
(***************************************************************************)
EXTENDS Integers, Sequences, SequencesExt, FiniteSetsExt, TLC

(***************************************************************************)
(* The top-level tree of the domain decomposition, libgadget/domain.c: how *)
(* a rank refines it around a sample of its particles, how the trees of    *)
(* two ranks are merged, how the result is cut into leaves, and how the    *)
(* leaves are given to ranks.                                              *)
(*                                                                         *)
(* A tree is the code's array of local_topnode_data: a sequence of nodes,  *)
(* the root first, the NSub daughters of a node stored together.  A link   *)
(* that the code writes as -1 is 0 here.  The code cuts a node in 8 by     *)
(* three bits of the Peano key; SubBits is that number of bits, so that a  *)
(* small instance can cut it in 2.  The code keeps a Cost beside every     *)
(* Count; a sample costs one, so the two are the same number everywhere    *)
(* and only Count is kept.                                                 *)
(***************************************************************************)

CONSTANTS SubBits,    \* bits of the key used up by one level: 3 in the code
          KeyBits     \* bits of a key: 3 * BITS_PER_DIMENSION in the code

ASSUME DomainTreeAssumption ==
    /\ SubBits \in Nat \ {0}
    /\ KeyBits \in Nat \ {0} /\ KeyBits % SubBits = 0

NSub == 2 ^ SubBits
Key == 0 .. 2 ^ KeyBits - 1

(* What a step returns when the code stops at one of its own checks.       *)
Fine == "fine"

Node(shift, start, parent, count) ==
    [Shift |-> shift, StartKey |-> start, Daughter |-> 0, Parent |-> parent,
     Count |-> count]

RootOnly == << Node(KeyBits, 0, 0, 0) >>

IsTopLeaf(tree, no) == tree[no].Daughter = 0

(* The daughters of a node, as indices.                                    *)
Daughters(tree, no) ==
    IF IsTopLeaf(tree, no) THEN <<>> ELSE [j \in 1 .. NSub |-> tree[no].Daughter + j - 1]

Holds(node, key) == key >= node.StartKey /\ key < node.StartKey + 2 ^ node.Shift

-----------------------------------------------------------------------------
(* Refinement on one rank.                                                 *)

RECURSIVE Descend(_, _, _)
Descend(tree, no, key) ==
    IF IsTopLeaf(tree, no) THEN no
    ELSE Descend(tree,
                 tree[no].Daughter
                     + (key - tree[no].StartKey) \div 2 ^ (tree[no].Shift - SubBits),
                 key)

domain_toptree_get_subnode(tree, key) == Descend(tree, 1, key)

domain_toptree_insert(tree, key) ==
    [tree EXCEPT ![domain_toptree_get_subnode(tree, key)].Count = @ + 1]

(* NSub new nodes at the end of the array, the j-th with counts[j].        *)
Attach(tree, i, counts) ==
    LET shift == tree[i].Shift - SubBits
    IN  [tree EXCEPT ![i].Daughter = Len(tree) + 1]
            \o [j \in 1 .. NSub |->
                   Node(shift, tree[i].StartKey + (j - 1) * 2 ^ shift, i, counts[j])]

domain_toptree_split(tree, i) == Attach(tree, i, [j \in 1 .. NSub |-> 0])

(* The skeleton: a leaf in which the last sample already lies is split     *)
(* until the two part or the key is used up.  "full" is the return value   *)
(* 1, "order" the check that no finished node is met again.                *)
RECURSIVE Skeleton(_, _, _, _, _, _)
Skeleton(tree, LP, i, last_key, last_leaf, MaxTopNodes) ==
    IF i > Len(LP) THEN [tree |-> tree, status |-> Fine]
    ELSE LET leaf == domain_toptree_get_subnode(tree, LP[i]) IN
         IF leaf = last_leaf /\ tree[leaf].Shift >= SubBits
         THEN IF Len(tree) + NSub > MaxTopNodes
              THEN [tree |-> tree, status |-> "full"]
              ELSE LET cut == [domain_toptree_split(tree, leaf) EXCEPT ![leaf].Count = 0]
                   IN  Skeleton(domain_toptree_insert(cut, last_key), LP, i, last_key,
                                domain_toptree_get_subnode(cut, last_key), MaxTopNodes)
         ELSE IF tree[leaf].Count # 0 /\ leaf # last_leaf
              THEN [tree |-> tree, status |-> "order"]
              ELSE Skeleton(domain_toptree_insert(tree, LP[i]), LP, i + 1,
                            LP[i], leaf, MaxTopNodes)

(* Count of a node with the counts of everything below it.                 *)
RECURSIVE Below(_, _)
Below(tree, no) ==
    tree[no].Count
        + MapThenSumSet(LAMBDA j : Below(tree, j), ToSet(Daughters(tree, no)))

domain_toptree_update_cost(tree) ==
    [no \in DOMAIN tree |-> [tree[no] EXCEPT !.Count = Below(tree, no)]]

(* The refinement around the sorted samples LP: the skeleton is built,     *)
(* emptied, and filled with all samples.                                   *)
domain_check_for_local_refine_subsample(LP, MaxTopNodes) ==
    LET skeleton == Skeleton(RootOnly, LP, 1, -1, 0, MaxTopNodes)
        empty == [no \in DOMAIN skeleton.tree |-> [skeleton.tree[no] EXCEPT !.Count = 0]]
    IN  IF skeleton.status # Fine THEN skeleton
        ELSE [skeleton EXCEPT
                 !.tree = domain_toptree_update_cost(FoldLeft(domain_toptree_insert, empty, LP))]

-----------------------------------------------------------------------------
(* Cheap branches are cut off, and the nodes that are left are moved to    *)
(* the head of the array, in place.                                        *)

domain_toptree_truncate_r(tree, countlimit) ==
    [no \in DOMAIN tree |->
        IF tree[no].Count < countlimit THEN [tree[no] EXCEPT !.Daughter = 0] ELSE tree[no]]

RECURSIVE domain_toptree_garbage_collection(_, _)
Block(first) == [j \in 1 .. NSub |-> first + j - 1]

(* The daughters of start now begin at last_free.                          *)
CopiedOnly(st, start) ==
    LET from == st.tree[start].Daughter - st.last_free
    IN  [no \in DOMAIN st.tree |->
            IF no = start THEN [st.tree[no] EXCEPT !.Daughter = st.last_free]
            ELSE IF no \in ToSet(Block(st.last_free)) THEN st.tree[no + from]
            ELSE st.tree[no]]
MovedUp(st, start) ==
    LET from == st.tree[start].Daughter - st.last_free
    IN  [no \in DOMAIN st.tree |->
            IF no = start THEN [st.tree[no] EXCEPT !.Daughter = st.last_free]
            ELSE IF no \in ToSet(Block(st.last_free))
                 THEN [st.tree[no + from] EXCEPT !.Parent = start]
            ELSE st.tree[no]]

domain_toptree_garbage_collection(st, start) ==
    IF IsTopLeaf(st.tree, start) THEN st
    ELSE FoldLeft(domain_toptree_garbage_collection,
                  [tree |-> MovedUp(st, start), last_free |-> st.last_free + NSub],
                  Block(st.last_free))

domain_toptree_truncate(tree, countlimit) ==
    LET st == domain_toptree_garbage_collection(
                  [tree |-> domain_toptree_truncate_r(tree, countlimit), last_free |-> 2], 1)
    IN  SubSeq(st.tree, 1, st.last_free - 1)

-----------------------------------------------------------------------------
(* treeB is merged into treeA: st is [tree, status].  "room" is the check  *)
(* that there was space enough, "corrupt" the check on treeB.              *)

(* The part of A's count that B's parent did not bring is shared out.      *)
Shared(count) == [j \in 1 .. NSub |-> (j * count) \div NSub - ((j - 1) * count) \div NSub]

RECURSIVE domain_toptree_merge(_, _, _, _, _)
domain_toptree_merge(st, treeB, noA, noB, MaxTopNodes) ==
    LET a == st.tree[noA]
        b == treeB[noB]
        Into(s, sub) == domain_toptree_merge(s, treeB, sub, noB, MaxTopNodes)
        From(s, sub) == IF treeB[sub].Shift >= b.Shift THEN [s EXCEPT !.status = "corrupt"]
                        ELSE domain_toptree_merge(s, treeB, noA, sub, MaxTopNodes)
        Added(c) == [st EXCEPT !.tree[noA].Count = @ + c]
    IN  CASE st.status # Fine -> st
          [] b.Shift < a.Shift /\ a.Daughter = 0 /\ Len(st.tree) + NSub >= MaxTopNodes ->
                 [st EXCEPT !.status = "room"]
          [] b.Shift < a.Shift ->
                 LET cut == IF a.Daughter # 0 THEN st.tree
                            ELSE Attach(st.tree, noA, Shared(a.Count - treeB[b.Parent].Count))
                 IN  Into([st EXCEPT !.tree = cut],
                          cut[noA].Daughter
                              + (b.StartKey - a.StartKey) \div 2 ^ (a.Shift - SubBits))
          [] b.Shift = a.Shift ->
                 IF b.Daughter # 0
                 THEN FoldLeft(From, Added(b.Count), Daughters(treeB, noB))
                 ELSE FoldLeft(Into, Added(b.Count), Daughters(st.tree, noA))
          [] b.Shift > a.Shift + 60 -> st
          [] OTHER -> FoldLeft(Into, Added(b.Count \div 2 ^ (b.Shift - a.Shift)),
                               Daughters(st.tree, noA))

(* Leaves with too much are cut further, the new ones included.            *)
RECURSIVE RefineFrom(_, _, _, _)
RefineFrom(tree, i, MaxTopNodes, countlimit) ==
    IF i > Len(tree) THEN [tree |-> tree, status |-> Fine]
    ELSE IF tree[i].Daughter # 0 \/ tree[i].Shift <= 0 \/ tree[i].Count < countlimit
         THEN RefineFrom(tree, i + 1, MaxTopNodes, countlimit)
         ELSE IF Len(tree) + NSub > MaxTopNodes THEN [tree |-> tree, status |-> "full"]
              ELSE RefineFrom(Attach(tree, i, [j \in 1 .. NSub |-> tree[i].Count \div NSub]),
                              i + 1, MaxTopNodes, countlimit)

domain_global_refine(tree, MaxTopNodes, countlimit) ==
    RefineFrom(tree, 1, MaxTopNodes, countlimit)

-----------------------------------------------------------------------------
(* The leaves and the ranks.                                               *)

(* The leaves below a node, in the order of their keys.                    *)
RECURSIVE domain_create_topleaves(_, _)
domain_create_topleaves(tree, no) ==
    IF IsTopLeaf(tree, no) THEN <<no>>
    ELSE FlattenSeq([j \in 1 .. NSub |-> domain_create_topleaves(tree, tree[no].Daughter + j - 1)])

(* One turn of the loop that gives leaves to segments and segments to      *)
(* tasks.  Means are kept as the cost they divide: mean_expected is        *)
(* st.mean / Nsegment, mean_task is st.mean / NTask.                       *)
TotalCost(cost) == MapThenSumSet(LAMBDA i : cost[i], DOMAIN cost)

Appends(st, cost, Nsegment) ==
    /\ st.curleaf < Len(cost)
    /\ \/ Len(cost) - st.curleaf = Nsegment - st.curseg
       \/ 2 * (st.mean * (st.curseg + 1) - (st.assigned + st.curload) * Nsegment)
              > cost[st.curleaf + 1] * Nsegment
       \/ st.curload = 0

Advances(st, cost, Nsegment) ==
    \/ st.curleaf = Len(cost)
    \/ Len(cost) - st.curleaf = Nsegment - st.curseg
    \/ ~ Appends(st, cost, Nsegment)

Appended(st, cost) ==
    [st EXCEPT !.curload = @ + cost[st.curleaf + 1], !.curleaf = @ + 1,
               !.Task = Append(@, st.curtask)]

Advanced(st, cost, Nsegment, NTask) ==
    LET load == st.curtaskload + st.curload
        next == \/ 2 * (st.mean * Nsegment - load * NTask * Nsegment) < st.mean * NTask
                \/ Nsegment - st.curseg <= NTask - st.curtask
        round == next /\ st.curtask + 1 = NTask
        total == TotalCost(cost)
    IN  [st EXCEPT !.curtaskload = IF next THEN 0 ELSE load,
                   !.curtask = IF round THEN 0 ELSE IF next THEN @ + 1 ELSE @,
                   !.assigned = @ + st.curload,
                   !.curload = 0,
                   !.curseg = @ + 1,
                   !.mean = IF round THEN total - st.assigned - st.curload ELSE @,
                   !.nrounds = IF round THEN @ + 1 ELSE @,
                   !.done = st.curleaf = Len(cost)]

RECURSIVE Assign(_, _, _, _)
Assign(st, cost, Nsegment, NTask) ==
    IF st.done \/ st.nrounds >= Len(cost) THEN st
    ELSE LET first == IF Appends(st, cost, Nsegment) THEN Appended(st, cost) ELSE st
         IN  Assign(IF Advances(st, cost, Nsegment)
                    THEN Advanced(first, cost, Nsegment, NTask) ELSE first,
                    cost, Nsegment, NTask)

(* Where a sequence of leaf numbers goes when it is sorted by task and     *)
(* then by key; a leaf that no turn of the loop reached has task -1.       *)
ByTaskAndKey(Task, NTask) ==
    FlattenSeq([t \in 1 .. NTask + 1 |->
                   SelectSeq([i \in DOMAIN Task |-> i], LAMBDA i : Task[i] = t - 2)])

(* leaves is the list of create_topleaves, cost the particles in each.     *)
(* "segments" and "cost" are the two checks after the loop.                *)
domain_assign_topleaves_balanced(leaves, cost, NsegmentPerTask, NTask) ==
    LET Nsegment == NTask * NsegmentPerTask
        st == Assign([curleaf |-> 0, curseg |-> 0, curtask |-> 0, nrounds |-> 0,
                      curload |-> 0, curtaskload |-> 0, assigned |-> 0,
                      mean |-> TotalCost(cost), Task |-> <<>>, done |-> FALSE],
                     cost, Nsegment, NTask)
        Task == [i \in DOMAIN leaves |-> IF i <= Len(st.Task) THEN st.Task[i] ELSE -1]
        order == ByTaskAndKey(Task, NTask)
    IN  [status |-> CASE st.curseg < Nsegment -> "segments"
                      [] st.assigned # TotalCost(cost) -> "cost"
                      [] OTHER -> Fine,
         TopLeaves |-> [i \in DOMAIN leaves |->
                           [Task |-> Task[order[i]], topnode |-> leaves[order[i]]]]]

(* First and one-past-last leaf of every task; TopLeaves is sorted.        *)
domain_set_task_leafs(TopLeaves, NTask) ==
    LET NLower(t) == Cardinality({i \in DOMAIN TopLeaves : TopLeaves[i].Task < t})
    IN  [t \in 0 .. NTask - 1 |-> [StartLeaf |-> NLower(t) + 1, EndLeaf |-> NLower(t + 1) + 1]]

(* The heaviest load, summed as the code sums it: over the leaves between  *)
(* a task's bounds, of counts in the order of create_topleaves.            *)
MaxLoad(Tasks, TopLeafCount) ==
    Max({MapThenSumSet(LAMBDA i : TopLeafCount[i], Tasks[t].StartLeaf .. Tasks[t].EndLeaf - 1) :
            t \in DOMAIN Tasks})

(* The leaf of a key in a finished decomposition.                          *)
domain_get_topleaf(key, dd) == dd.Leaf[domain_toptree_get_subnode(dd.TopNodes, key)]

-----------------------------------------------------------------------------
(* What a well-built tree is: the daughters of a node come after it, name  *)
(* it as their parent and cut its range of keys between them.              *)
WellBuilt(tree) ==
    \A no \in DOMAIN tree :
        \A j \in DOMAIN Daughters(tree, no) :
            LET sub == Daughters(tree, no)[j]
            IN  /\ sub > no /\ sub \in DOMAIN tree
                /\ tree[sub].Parent = no
                /\ tree[sub].Shift = tree[no].Shift - SubBits
                /\ tree[sub].StartKey = tree[no].StartKey + (j - 1) * 2 ^ tree[sub].Shift

(* Every node of the array is the root or a daughter of one node.          *)
NoLooseNode(tree) ==
    \A no \in DOMAIN tree \ {1} :
        Cardinality({p \in DOMAIN tree : no \in ToSet(Daughters(tree, p))}) = 1

-----------------------------------------------------------------------------
CONSTANTS NTask,              \* MPI ranks
          MaxPart,            \* particles a rank has room for
          DomainOverDecompositionFactor,
          DomainUseGlobalSorting,
          SetAsidePercent,    \* SetAsideFactor, in percent
          FirstAllocFactor,   \* TopNodeAllocFactor at the start, in thousandths
          MaxAllocFactor,     \* where the code gives up: 10, in thousandths
          NPolicy,            \* policies: 16 in the code
          FirstDistance,      \* SubSampleDistance of the first: 256 in the code
          Placements,         \* sequences of keys, per rank, at the start
          Drifters,           \* sets of ids that may move together
          DriftKeys,          \* where they move to
          DarkMatter,         \* ids that may sit out a step when inactive
          Perishable,         \* ids that may become garbage
          MaxSteps,           \* bound: steps of the main loop
          MaxFailures         \* bound: exchanges that fail though all fits

Rank == 0 .. NTask - 1

ASSUME DomainAssumption ==
    /\ NTask \in Nat \ {0} /\ MaxPart \in Nat \ {0}
    /\ DomainOverDecompositionFactor \in Nat \ {0}
    /\ DomainUseGlobalSorting \in BOOLEAN
    /\ NPolicy \in Nat \ {0} /\ FirstDistance \in Nat \ {0}
    /\ \A p \in Placements : p \in [Rank -> Seq(Key)]

VARIABLES parts,       \* per rank, its particle table
          dd,          \* per rank, its DomainDecomp, or NoDomain
          topTree,     \* per rank, the tree it builds
          pc,          \* the part of the code all ranks are in
          sep,         \* distance of the ranks that combine trees next
          failed,      \* per rank, its errorflag
          countlimit,  \* when a branch is cheap
          policy,      \* the policy tried, from 0
          LastSuccessfulPolicy,
          TopNodeAllocFactor,
          lazy,        \* ids left where they are by the last domain_maintain
          fatal,       \* why the run was ended, or Fine
          steps, failures

vars == <<parts, dd, topTree, pc, sep, failed, countlimit, policy,
          LastSuccessfulPolicy, TopNodeAllocFactor, lazy, fatal, steps, failures>>

NoDomain == [TopNodes |-> <<>>, Leaf |-> <<>>, TopLeaves |-> <<>>, Tasks |-> <<>>]

NoTree == [r \in Rank |-> <<>>]
NoneFailed == [r \in Rank |-> FALSE]
MPIU_Any(flag) == \E r \in Rank : flag[r]

Init ==
    /\ \E p \in Placements :
          parts = [r \in Rank |->
                      [i \in DOMAIN p[r] |->
                          [id |-> <<r, i>>, key |-> p[r][i], TopLeaf |-> 0, garbage |-> FALSE]]]
    /\ dd = [r \in Rank |-> NoDomain]
    /\ topTree = NoTree /\ failed = NoneFailed
    /\ pc = "attempt" /\ sep = 1 /\ countlimit = 0
    /\ policy = 0 /\ LastSuccessfulPolicy = 0
    /\ TopNodeAllocFactor = FirstAllocFactor
    /\ lazy = {} /\ fatal = Fine
    /\ steps = 0 /\ failures = 0

Live(r) == SelectSeq(parts[r], LAMBDA p : ~ p.garbage)
Keys(s) == [i \in DOMAIN s |-> s[i].key]
Ids(s) == [i \in DOMAIN s |-> s[i].id]
Sorted(s) == SortSeq(s, <)

End(why) ==
    /\ pc' = "ended" /\ fatal' = why
    /\ UNCHANGED <<parts, dd, topTree, sep, failed, countlimit, policy, LastSuccessfulPolicy,
                   TopNodeAllocFactor, lazy, steps, failures>>

-----------------------------------------------------------------------------
(* domain_policies_init.                                                   *)
PreSort(i) == i >= 2
SubSampleDistance(i) ==
    LET halved[k \in 0 .. NPolicy] ==
            IF k <= 4 THEN FirstDistance
            ELSE IF halved[k - 1] > 2 THEN halved[k - 1] \div 2 ELSE FirstDistance
    IN  halved[i]
NTopLeaves(i) == DomainOverDecompositionFactor * NTask * (i + 1)

(* domain_allocate.                                                        *)
MaxTopNodes(r) == (TopNodeAllocFactor * (Len(parts[r]) + 1)) \div 1000

(* More room for top nodes, or the end of the run.                         *)
Retry ==
    LET factor == (TopNodeAllocFactor * 6) \div 5
    IN  /\ TopNodeAllocFactor' = factor
        /\ dd' = [r \in Rank |-> NoDomain]
        /\ topTree' = NoTree /\ failed' = NoneFailed
        /\ IF factor > MaxAllocFactor
           THEN pc' = "ended" /\ fatal' = "factor"
           ELSE pc' = "attempt" /\ fatal' = fatal
        /\ UNCHANGED <<parts, sep, countlimit, policy, LastSuccessfulPolicy, lazy, steps, failures>>

(* The samples of a rank, before they are sorted.                          *)
Sampled(s, distance) ==
    LET n == IF s # <<>> /\ Len(s) \div distance = 0 THEN 1 ELSE Len(s) \div distance
    IN  [i \in 1 .. n |-> s[(i - 1) * distance + 1]]

Subsample(r) ==
    Sampled(IF PreSort(policy) THEN Sorted(Keys(Live(r))) ELSE Keys(parts[r]),
            SubSampleDistance(policy))

(* LP of every rank, sorted on the rank or across all ranks; mpsort leaves *)
(* every rank as many as it had.                                           *)
LP ==
    LET mine == [r \in Rank |-> Subsample(r)]
        all == Sorted(FlattenSeq([k \in 1 .. NTask |-> mine[k - 1]]))
        before[r \in 0 .. NTask] == IF r = 0 THEN 0 ELSE before[r - 1] + Len(mine[r - 1])
    IN  IF DomainUseGlobalSorting
        THEN [r \in Rank |-> SubSeq(all, before[r] + 1, before[r + 1])]
        ELSE [r \in Rank |-> Sorted(mine[r])]

(* domain_determine_global_toptree up to the combination of the trees.     *)
LocalRefine ==
    LET lp == LP
        local == [r \in Rank |-> domain_check_for_local_refine_subsample(lp[r], MaxTopNodes(r))]
        TotCount == MapThenSumSet(LAMBDA r : local[r].tree[1].Count, Rank)
        limit == TotCount \div NTopLeaves(policy)
    IN  /\ pc = "attempt"
        /\ IF \E r \in Rank : local[r].status = "order" THEN End("order")
           ELSE IF MPIU_Any([r \in Rank |-> local[r].status = "full"]) THEN Retry
           ELSE /\ countlimit' = limit
                /\ topTree' = [r \in Rank |-> domain_toptree_truncate(local[r].tree, limit)]
                /\ failed' = NoneFailed /\ sep' = 1 /\ pc' = "combine"
                /\ UNCHANGED <<parts, dd, policy, LastSuccessfulPolicy, TopNodeAllocFactor,
                               lazy, fatal, steps, failures>>

(* One turn of domain_nonrecursively_combine_topTree: every second rank    *)
(* takes in the tree of the rank at distance sep, if both fit.             *)
Receives(r) == r % (2 * sep) = 0 /\ r + sep < NTask
Sends(r) == r % (2 * sep) = sep
Fits(r) == Len(topTree[r]) + Len(topTree[r + sep]) <= MaxTopNodes(r)

Combine ==
    LET merged == [r \in {x \in Rank : Receives(x) /\ Fits(x)} |->
                      domain_toptree_merge([tree |-> topTree[r], status |-> Fine],
                                           topTree[r + sep], 1, 1, MaxTopNodes(r))]
        bad == {merged[r].status : r \in DOMAIN merged} \ {Fine}
    IN  /\ pc = "combine" /\ sep < NTask
        /\ IF bad # {} THEN End(CHOOSE b \in bad : TRUE)
           ELSE /\ topTree' = [r \in Rank |-> IF r \in DOMAIN merged THEN merged[r].tree
                                             ELSE IF Sends(r) THEN <<>> ELSE topTree[r]]
                /\ failed' = [r \in Rank |-> failed[r] \/ (Receives(r) /\ ~ Fits(r))]
                /\ sep' = 2 * sep
                /\ UNCHANGED <<parts, dd, pc, countlimit, policy, LastSuccessfulPolicy,
                               TopNodeAllocFactor, lazy, fatal, steps, failures>>

(* Its end, and the global refinement: rank 0 sends its tree to all, every *)
(* rank checks it against its own room and refines it.                     *)
GlobalRefine ==
    LET combined == topTree[0]
        errorflag == [r \in Rank |-> failed[r] \/ Len(combined) >= MaxTopNodes(r)]
        refined == [r \in Rank |-> domain_global_refine(combined, MaxTopNodes(r), countlimit)]
    IN  /\ pc = "combine" /\ sep >= NTask
        /\ IF MPIU_Any(errorflag) \/ MPIU_Any([r \in Rank |-> refined[r].status = "full"])
           THEN Retry
           ELSE /\ topTree' = [r \in Rank |-> refined[r].tree]
                /\ pc' = "balance"
                /\ UNCHANGED <<parts, dd, sep, failed, countlimit, policy, LastSuccessfulPolicy,
                               TopNodeAllocFactor, lazy, fatal, steps, failures>>

(* domain_compute_costs: live particles of all ranks, per leaf.            *)
domain_compute_costs(tree, leaves) ==
    [i \in DOMAIN leaves |->
        MapThenSumSet(LAMBDA r : Len(SelectSeq(Live(r), LAMBDA p : Holds(tree[leaves[i]], p.key))),
                      Rank)]

(* The leaf number of every top node that is a leaf.                       *)
LeafOf(tree, TopLeaves) ==
    [no \in DOMAIN tree |->
        IF IsTopLeaf(tree, no) THEN CHOOSE i \in DOMAIN TopLeaves : TopLeaves[i].topnode = no
        ELSE 0]

(* The decomposition a rank makes of its tree, and the check on its loads. *)
Decomposed(r) ==
    LET tree == topTree[r]
        leaves == domain_create_topleaves(tree, 1)
        TopLeafCount == domain_compute_costs(tree, leaves)
        given == domain_assign_topleaves_balanced(leaves, TopLeafCount, 1, NTask)
        Tasks == domain_set_task_leafs(given.TopLeaves, NTask)
    IN  [status |-> IF Len(leaves) < NTask THEN "fewleaves" ELSE given.status,
         TooMuch |-> MaxLoad(Tasks, TopLeafCount) * 100 > MaxPart * SetAsidePercent,
         dd |-> [TopNodes |-> tree, Leaf |-> LeafOf(tree, given.TopLeaves),
                 TopLeaves |-> given.TopLeaves, Tasks |-> Tasks]]

NextPolicy ==
    /\ policy' = policy + 1
    /\ dd' = [r \in Rank |-> NoDomain] /\ topTree' = NoTree
    /\ pc' = "attempt"
    /\ UNCHANGED <<sep, failed, countlimit, LastSuccessfulPolicy, TopNodeAllocFactor,
                   lazy, fatal, steps>>

WithLeaf(p, d) == IF p.garbage THEN p ELSE [p EXCEPT !.TopLeaf = domain_get_topleaf(p.key, d)]

(* domain_attempt_decompose after the tree, domain_balance, and the leaf   *)
(* stored in every particle.  A load over the limit means the next policy, *)
(* unless this is the last.                                                *)
Balance ==
    LET mine == [r \in Rank |-> Decomposed(r)]
        bad == {mine[r].status : r \in Rank} \ {Fine}
    IN  /\ pc = "balance"
        /\ IF bad # {} THEN End(CHOOSE b \in bad : TRUE)
           ELSE IF mine[0].TooMuch /\ policy < NPolicy - 1
           THEN NextPolicy /\ UNCHANGED <<parts, failures>>
           ELSE /\ dd' = [r \in Rank |-> mine[r].dd]
                /\ parts' = [r \in Rank |-> [i \in DOMAIN parts[r] |->
                                WithLeaf(parts[r][i], mine[r].dd)]]
                /\ topTree' = NoTree /\ pc' = "exchange"
                /\ UNCHANGED <<sep, failed, countlimit, policy, LastSuccessfulPolicy,
                               TopNodeAllocFactor, lazy, fatal, steps, failures>>

-----------------------------------------------------------------------------
(* Where the particles of table t end up, when those named in gone go to   *)
(* the rank that owns their leaf.                                          *)
domain_layoutfunc(r, p) == dd[r].TopLeaves[p.TopLeaf].Task

(* The exchange list of a rank, in the order of its table.                 *)
ExchangeList(t, r) ==
    Ids(SelectSeq(t[r], LAMBDA p : ~ p.garbage /\ domain_layoutfunc(r, p) # r))
Movers(t) == UNION {ToSet(ExchangeList(t, r)) : r \in Rank}

Sent(t, Dest(_, _)) ==
    [r \in Rank |->
        SelectSeq(t[r], LAMBDA p : Dest(r, p) = r)
            \o FlattenSeq([k \in 1 .. NTask |->
                  IF k - 1 = r THEN <<>> ELSE SelectSeq(t[k - 1], LAMBDA p : Dest(k - 1, p) = r)])]

Moved(t, gone) == Sent(t, LAMBDA r, p : IF p.id \in gone THEN domain_layoutfunc(r, p) ELSE r)
AllMoved(t) == Moved(t, Movers(t))

Holdable(t) == \A r \in Rank : Len(SelectSeq(t[r], LAMBDA p : ~ p.garbage)) <= MaxPart

(* slots_gc_sorted.                                                        *)
Collected(t) ==
    [r \in Rank |-> SortSeq(SelectSeq(t[r], LAMBDA p : ~ p.garbage), LAMBDA a, b : a.key < b.key)]

(* What an exchange that gives up leaves: every rank sent the head of its  *)
(* list, not all of them all of it.  The count of failures that nothing    *)
(* forced is bounded.                                                      *)
Heads(t) ==
    LET list == [r \in Rank |-> ExchangeList(t, r)]
        Head1(r) == {ToSet(SubSeq(list[r], 1, n)) : n \in 0 .. Len(list[r])}
        heads[r \in 0 .. NTask] ==
            IF r = 0 THEN {{}} ELSE {a \cup b : a \in heads[r - 1], b \in Head1(r - 1)}
    IN  heads[NTask]

GivenUp(t) ==
    IF Holdable(AllMoved(t)) /\ failures >= MaxFailures THEN {}
    ELSE {after \in {Moved(t, gone) : gone \in Heads(t) \ {Movers(t)}} : Holdable(after)}

CountFailure(t) == failures' = IF Holdable(AllMoved(t)) THEN failures + 1 ELSE failures

(* domain_decompose_full: the exchange and its outcome.                    *)
ExchangeAll ==
    /\ pc = "exchange"
    /\ Holdable(AllMoved(parts))
    /\ parts' = Collected(AllMoved(parts))
    /\ LastSuccessfulPolicy' = policy
    /\ lazy' = {} /\ pc' = "idle"
    /\ UNCHANGED <<dd, topTree, sep, failed, countlimit, policy, TopNodeAllocFactor, fatal,
                   steps, failures>>

ExchangeFails ==
    /\ pc = "exchange"
    /\ parts' \in GivenUp(parts)
    /\ CountFailure(parts)
    /\ IF policy = NPolicy - 1
       THEN /\ pc' = "ended" /\ fatal' = "policies"
            /\ UNCHANGED <<dd, topTree, sep, failed, countlimit, policy,
                           LastSuccessfulPolicy, TopNodeAllocFactor, lazy, steps>>
       ELSE NextPolicy

-----------------------------------------------------------------------------
(* The main loop.  The particles named in ids drift to one place, or one   *)
(* is eaten or spent and becomes garbage.                                  *)
Drifted(ids, key) ==
    [r \in Rank |-> [i \in DOMAIN parts[r] |->
        IF parts[r][i].id \in ids THEN [parts[r][i] EXCEPT !.key = key] ELSE parts[r][i]]]

Spent(id) ==
    [r \in Rank |-> [i \in DOMAIN parts[r] |->
        IF parts[r][i].id = id THEN [parts[r][i] EXCEPT !.garbage = TRUE] ELSE parts[r][i]]]

BecomeGarbage ==
    /\ pc = "idle" /\ steps < MaxSteps
    /\ \A r \in Rank : Len(Live(r)) = Len(parts[r])
    /\ \E id \in Perishable : parts' = Spent(id)
    /\ UNCHANGED <<dd, topTree, pc, sep, failed, countlimit, policy, LastSuccessfulPolicy,
                   TopNodeAllocFactor, lazy, fatal, steps, failures>>

(* A step on which the domain is decomposed anew, from the last policy     *)
(* that worked.                                                            *)
StartFull ==
    /\ policy' = LastSuccessfulPolicy
    /\ dd' = [r \in Rank |-> NoDomain] /\ pc' = "attempt"
    /\ UNCHANGED <<topTree, sep, failed, countlimit, LastSuccessfulPolicy, TopNodeAllocFactor,
                   fatal>>

FullStep ==
    /\ pc = "idle" /\ steps < MaxSteps
    /\ \E ids \in Drifters, key \in DriftKeys : parts' = Drifted(ids, key)
    /\ steps' = steps + 1
    /\ StartFull /\ UNCHANGED <<lazy, failures>>

(* domain_maintain: particles outside their leaf get the right one, except *)
(* those that sit this step out.                                           *)
KnownLeaf(topleaf, key, d) == topleaf \in DOMAIN d.TopLeaves
inside_topleaf(topleaf, key, d) ==
    /\ topleaf \in DOMAIN d.TopLeaves
    /\ Holds(d.TopNodes[d.TopLeaves[topleaf].topnode], key)

Relabelled(t, resting) ==
    [r \in Rank |-> [i \in DOMAIN t[r] |->
        LET p == t[r][i]
        IN  IF p.garbage \/ p.id \in resting \/ inside_topleaf(p.TopLeaf, p.key, dd[r])
            THEN p ELSE WithLeaf(p, dd[r])]]

Maintained(t) ==
    /\ Holdable(AllMoved(t))
    /\ parts' \in {AllMoved(t), Collected(AllMoved(t))}
    /\ UNCHANGED <<dd, topTree, pc, sep, failed, countlimit, policy, LastSuccessfulPolicy,
                   TopNodeAllocFactor, fatal, failures>>

(* A step between: inactive dark matter rests.  If the exchange gives up   *)
(* the caller decomposes anew.                                             *)
MaintainStep ==
    /\ pc = "idle" /\ steps < MaxSteps
    /\ steps' = steps + 1
    /\ \E ids \in Drifters, key \in DriftKeys, resting \in SUBSET DarkMatter :
          LET t == Relabelled(Drifted(ids, key), resting)
          IN  /\ lazy' = resting
              /\ \/ Maintained(t)
                 \/ parts' \in GivenUp(t) /\ CountFailure(t) /\ StartFull

(* Groups were written from the particle table itself: the particles named *)
(* in ids were sent to rank to, TopLeaf was used for the target, and all   *)
(* are brought back.  All particles are active then.                       *)
Regrouped(ids, to) ==
    LET t == Sent(parts, LAMBDA r, p : IF p.id \in ids THEN to ELSE r)
    IN  [r \in Rank |-> [i \in DOMAIN t[r] |-> [t[r][i] EXCEPT !.TopLeaf = r + 1]]]

GroupsWritten ==
    /\ pc = "idle" /\ steps < MaxSteps
    /\ steps' = steps + 1
    /\ \E ids \in Drifters, to \in Rank :
          LET t == Relabelled(Collected(Regrouped(ids, to)), {})
          IN  /\ Holdable(Regrouped(ids, to))
              /\ lazy' = {}
              /\ \/ Maintained(t)
                 \/ /\ parts' \in GivenUp(t) /\ CountFailure(t)
                    /\ pc' = "ended" /\ fatal' = "maintain"
                    /\ UNCHANGED <<dd, topTree, sep, failed, countlimit, policy,
                                   LastSuccessfulPolicy, TopNodeAllocFactor>>

(* The run has ended, or the bound on steps is reached.                    *)
Ended == (pc = "ended" \/ (pc = "idle" /\ steps = MaxSteps)) /\ UNCHANGED vars

Next ==
    \/ LocalRefine \/ Combine \/ GlobalRefine \/ Balance \/ ExchangeAll \/ ExchangeFails
    \/ BecomeGarbage \/ FullStep \/ MaintainStep \/ GroupsWritten \/ Ended

Spec == Init /\ [][Next]_vars

-----------------------------------------------------------------------------
(* The trees are well built at every stage: after the refinement and the   *)
(* in-place truncation on a rank, after every merge, and after the global  *)
(* refinement; and while they are combined no sample is counted twice or   *)
(* forgotten at the roots.  The code's own checks of what shall not happen *)
(* hold: samples out of order, no room in a merge, a corrupt tree, too few *)
(* segments, a cost not given out.                                         *)
TreesSound ==
    /\ \A r \in Rank : topTree[r] # <<>> => WellBuilt(topTree[r]) /\ NoLooseNode(topTree[r])
    /\ pc = "combine" /\ ~ MPIU_Any(failed) =>
          LET held == {r \in Rank : topTree[r] # <<>>}
          IN  MapThenSumSet(LAMBDA r : topTree[r][1].Count, held) =
              MapThenSumSet(LAMBDA r : Len(Subsample(r)), Rank)
    /\ fatal \notin {"order", "room", "corrupt", "segments", "cost"}

(* When the main loop goes on every rank has the same top nodes, leaves    *)
(* and bounds; the leaves cut the keys between them; every task has at     *)
(* least one leaf, and its leaves are those between its bounds.            *)
RanksAgree ==
    pc \in {"exchange", "idle"} =>
        LET d == dd[0]
            Cut == {i \in DOMAIN d.TopNodes : IsTopLeaf(d.TopNodes, i)}
        IN  /\ \A r \in Rank : dd[r] = d
            /\ \A key \in Key : Cardinality({i \in Cut : Holds(d.TopNodes[i], key)}) = 1
            /\ {d.TopLeaves[i].topnode : i \in DOMAIN d.TopLeaves} = Cut
            /\ \A t \in Rank :
                  LET own == {i \in DOMAIN d.TopLeaves : d.TopLeaves[i].Task = t}
                  IN  own # {} /\ own = d.Tasks[t].StartLeaf .. d.Tasks[t].EndLeaf - 1

(* Between decompositions every particle is on the rank that owns its      *)
(* stored leaf and the leaf holds its key; a particle that sat a step out  *)
(* may have left its leaf, but not its rank.                               *)
AtHome ==
    /\ RanksAgree
    /\ pc = "idle" =>
        \A r \in Rank : \A p \in ToSet(Live(r)) :
            /\ domain_layoutfunc(r, p) = r
            /\ p.id \notin lazy =>
                  Holds(dd[r].TopNodes[dd[r].TopLeaves[p.TopLeaf].topnode], p.key)

(* "The decomposition will respect the maximum allowed memory-imbalance    *)
(* given by the value of PartAllocFactor": when the check on the loads     *)
(* passed, no rank is given more particles than the limit.                 *)
MemoryBoundRespected ==
    pc = "exchange" /\ policy < NPolicy - 1 =>
        \A r \in Rank :
            MapThenSumSet(LAMBDA s : Len(SelectSeq(Live(s), LAMBDA p : domain_layoutfunc(s, p) = r)),
                          Rank) * 100 <= MaxPart * SetAsidePercent
=============================================================================
