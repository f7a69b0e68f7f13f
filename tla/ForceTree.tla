------------------------------- MODULE ForceTree -------------------------------
(***************************************************************************)
(* How the force tree is built, libgadget/forcetree.c: on every rank       *)
(* threads insert particles below their own copies of the local top-level  *)
(* leaves, sharing only the counter nnext; then each leaf's copies are     *)
(* merged by one thread; if the nodes did not suffice all is done again    *)
(* with more.  Threads of density() then raise hmax, and the moments are   *)
(* summed, exchanged between ranks and carried to the root.                *)
(*                                                                         *)
(* Up to the exchange ranks have nothing in common, so they build one      *)
(* after another.  A thread's particle is one step: it shares no node.     *)
(***************************************************************************)
EXTENDS Integers, Sequences, SequencesExt, FiniteSetsExt, TLC

(***************************************************************************)
(* The force tree of libgadget/forcetree.c as a data structure: an array   *)
(* of nodes linked by suns, sibling and father, built below the nodes of   *)
(* the domain's top-level tree, and the operations on it.                  *)
(*                                                                         *)
(* A tree here cuts a line in NSuns = 2 where the code cuts a cube in 8; a *)
(* node holds as many particles as it may have daughters, as in the code.  *)
(* As in the code an index below firstnode is a particle, one from         *)
(* lastnode on is a leaf of another rank, and -1 is nothing.  The centre   *)
(* of mass is summed wherever the mass is, and only the mass is kept.      *)
(***************************************************************************)

CONSTANTS firstnode,       \* MaxPart: particles are 0 .. firstnode - 1
          NODECACHE_SIZE,  \* nodes a thread takes at a time: 96 in the code
          BoxSize,         \* length of the root
          TopNodes,        \* the domain: a sequence of [Daughter, Leaf, back]
          TopTasks         \* per rank, its StartLeaf and EndLeaf

NSuns == 2
TreeRank == DOMAIN TopTasks
LocalLeaves(r) == TopTasks[r].StartLeaf .. TopTasks[r].EndLeaf - 1
NLeaf == Cardinality({i \in DOMAIN TopNodes : TopNodes[i].Daughter = 0})

ASSUME ForceTreeAssumption ==
    /\ firstnode \in Nat \ {0}
    /\ NODECACHE_SIZE \in Nat \ {0} /\ NODECACHE_SIZE % NSuns = 0
    /\ \A i \in DOMAIN TopNodes : TopNodes[i].Daughter \in {0} \cup (i + 1 .. Len(TopNodes) - 1)
    /\ UNION {LocalLeaves(r) : r \in TreeRank} = 0 .. NLeaf - 1

Particles == "particles"   \* ChildType PARTICLE_NODE_TYPE
NodeNode == "nodes"        \* NODE_NODE_TYPE
Pseudo == "pseudo"         \* PSEUDO_NODE_TYPE

NoSuns == [j \in 1 .. NSuns |-> -1]

-----------------------------------------------------------------------------
(* The geometry of a node: lo is its lower end.                            *)
get_subnode(node, pos) == IF 2 * pos > 2 * node.lo + node.len THEN 2 ELSE 1
inside_node(node, pos) == node.lo <= pos /\ pos <= node.lo + node.len

(* How far a particle reaches out of a node, at least nothing.             *)
Pokes(node, p) ==
    Max({0, node.lo - p.pos + p.Hsml, p.pos + p.Hsml - node.lo - node.len})

init_internal_node(parent, father, sub) ==
    [lo |-> parent.lo + (sub - 1) * (parent.len \div NSuns), len |-> parent.len \div NSuns,
     sibling |-> -10, father |-> father, TopLevel |-> FALSE, InternalTopLevel |-> FALSE,
     ChildType |-> Particles, suns |-> NoSuns, noccupied |-> 0, mass |-> 0, hmax |-> 0]

Root == [init_internal_node([lo |-> 0, len |-> NSuns * BoxSize], -1, 1) EXCEPT
             !.sibling = -1, !.TopLevel = TRUE]

-----------------------------------------------------------------------------
(* The nodes of the top-level tree: node no stands for TopNodes[top].  The *)
(* result also has the tree node of every leaf.  A leaf holds the number   *)
(* of its pseudo-particle, which the first local particle overwrites.      *)
Sub(top, j) == TopNodes[top].Daughter + (IF TopNodes[top].back THEN NSuns - j ELSE j - 1)

TopNode(g, no, top, j, r, lastnode) ==
    LET sub == Sub(top, j)
        new == [init_internal_node(g.nodes[no], no, j) EXCEPT !.TopLevel = TRUE,
                    !.sibling = IF j < NSuns THEN g.next + j ELSE g.nodes[no].sibling]
    IN  IF TopNodes[sub].Daughter # 0 THEN new
        ELSE [new EXCEPT !.suns[1] = TopNodes[sub].Leaf + lastnode,
                         !.ChildType = IF TopNodes[sub].Leaf \in LocalLeaves(r)
                                       THEN Particles ELSE Pseudo]

RECURSIVE force_create_node_for_topnode(_, _, _, _, _)
force_create_node_for_topnode(g, no, top, r, lastnode) ==
    IF TopNodes[top].Daughter = 0 THEN g
    ELSE LET row == [k \in g.next .. g.next + NSuns - 1 |->
                        TopNode(g, no, top, k - g.next + 1, r, lastnode)]
             split == [g.nodes EXCEPT ![no].suns = [j \in 1 .. NSuns |-> g.next + j - 1],
                                      ![no].InternalTopLevel = TRUE,
                                      ![no].ChildType = NodeNode]
             leaves == {j \in 1 .. NSuns : TopNodes[Sub(top, j)].Daughter = 0}
             here == [l \in {TopNodes[Sub(top, j)].Leaf : j \in leaves} |->
                         g.next + (CHOOSE j \in leaves : TopNodes[Sub(top, j)].Leaf = l) - 1]
         IN  FoldLeft(LAMBDA h, j : force_create_node_for_topnode(h, g.next + j - 1, Sub(top, j),
                                                                  r, lastnode),
                      [nodes |-> row @@ split, treenode |-> here @@ g.treenode,
                       next |-> g.next + NSuns],
                      [j \in 1 .. NSuns |-> j])

force_tree_create_topnodes(r, lastnode) ==
    force_create_node_for_topnode(
        [nodes |-> firstnode :> Root, treenode |-> 0 :> firstnode, next |-> firstnode + 1],
        firstnode, 1, r, lastnode)

-----------------------------------------------------------------------------
(* Insertion.  st is what a thread works on: the particles, nodes, Father, *)
(* the shared nnext, its own cache, lastnode, the row of nodes it got      *)
(* last, and cur, the node its last particle went to, or -1 when there was *)
(* no node left for it.                                                    *)

(* A row of NSuns nodes, from the thread's cache or a new cache.            *)
get_freenode(st) ==
    IF st.nrem_thread < NSuns
    THEN [st EXCEPT !.row = st.nnext, !.nnext_thread = st.nnext + NSuns,
                    !.nrem_thread = NODECACHE_SIZE - NSuns, !.nnext = @ + NODECACHE_SIZE]
    ELSE [st EXCEPT !.row = st.nnext_thread, !.nnext_thread = @ + NSuns, !.nrem_thread = @ - NSuns]

(* add_particle_moment_to_node: active gas sets hmax later, after its      *)
(* smoothing length is known.                                              *)
add_particle_moment_to_node(node, p) ==
    [node EXCEPT !.mass = @ + p.Mass,
                 !.hmax = IF p.gas /\ ~ p.active THEN Max({@, Pokes(node, p)}) ELSE @]

(* Particle i goes to a free place of a node.                              *)
modify_internal_node(st, no, i) ==
    LET node == st.nodes[no]
    IN  [st EXCEPT !.Father[i] = no,
                   !.nodes[no] = [add_particle_moment_to_node(node, st.part[i]) EXCEPT
                                     !.suns[node.noccupied + 1] = i,
                                     !.noccupied = @ + 1]]

(* Node no with its new daughters, and nothing of its own any more.        *)
OpenedAsItIs(nodes, no, first) ==
    [nodes EXCEPT ![no].suns = [j \in 1 .. NSuns |-> first + j - 1], ![no].ChildType = NodeNode]
Opened(nodes, no, first) ==
    [nodes EXCEPT ![no].suns = [j \in 1 .. NSuns |-> first + j - 1],
                  ![no].ChildType = NodeNode, ![no].mass = 0, ![no].hmax = 0]

(* A layer below the full node no: its particles move to the new nodes.    *)
Layer(st, no) ==
    LET first == st.row
        row == [k \in first .. first + NSuns - 1 |->
                   [init_internal_node(st.nodes[no], no, k - first + 1) EXCEPT
                       !.sibling = IF k < first + NSuns - 1 THEN k + 1 ELSE st.nodes[no].sibling]]
    IN  FoldLeft(LAMBDA s, i : modify_internal_node(s,
                     first + get_subnode(st.nodes[no], st.part[i].pos) - 1, i),
                 [st EXCEPT !.nodes = row @@ Opened(st.nodes, no, first)], st.nodes[no].suns)

NoNodeLeft(st) == [st EXCEPT !.nnext_thread = st.lastnode + 10 * NODECACHE_SIZE, !.cur = -1]

RECURSIVE create_new_node_layer(_, _, _)
create_new_node_layer(st, no, i) ==
    LET got == get_freenode(st)
        cut == Layer(got, no)
        child == got.row + get_subnode(st.nodes[no], st.part[i].pos) - 1
    IN  IF got.nnext_thread >= st.lastnode THEN NoNodeLeft(got)
        ELSE IF cut.nodes[child].noccupied < NSuns THEN modify_internal_node(cut, child, i)
        ELSE create_new_node_layer(cut, child, i)

RECURSIVE WalkDown(_, _, _)
WalkDown(nodes, no, pos) ==
    IF nodes[no].ChildType # NodeNode THEN no
    ELSE WalkDown(nodes, nodes[no].suns[get_subnode(nodes[no], pos)], pos)

add_particle_to_tree(st, i, cur_start) ==
    LET cur == WalkDown(st.nodes, cur_start, st.part[i].pos)
        in == [st EXCEPT !.cur = cur]
    IN  IF st.nodes[cur].noccupied < NSuns THEN modify_internal_node(in, cur, i)
        ELSE create_new_node_layer(in, cur, i)

(* All of the particles, until there is no node left.                      *)
AddAll(st, is, cur_start) ==
    FoldLeft(LAMBDA s, i : IF s.cur = -1 THEN s ELSE add_particle_to_tree(s, i, cur_start), st, is)

-----------------------------------------------------------------------------
(* One turn of merge_partial_force_trees, which walks two trees over the   *)
(* same interval: left is in the real tree, right in a thread's copy whose *)
(* top is righttop.  The particles of a node that holds particles go into  *)
(* the other tree; if that is the right one, its daughters go left.        *)

(* The walks go on with these nodes; nodes after the turn.                 *)
Onward(st, left, right) == [st |-> st, left |-> left, right |-> right]

BothDown(st, left, right) ==
    Onward(st, st.nodes[left].suns[1], st.nodes[right].suns[1])

Held(node) == SubSeq(node.suns, 1, node.noccupied)

(* The node before right, in right's father, no longer leads to it.        *)
LedAround(nodes, left, right, righttop) ==
    LET suns == nodes[nodes[right].father].suns
        loc == CHOOSE j \in 1 .. NSuns : suns[j] = right
    IN  IF right <= righttop \/ loc = 1 \/ nodes[suns[loc - 1]].sibling # right THEN nodes
        ELSE [nodes EXCEPT ![suns[loc - 1]].sibling = left]

RightInto(st, left, right, righttop) ==
    LET added == AddAll(st, Held(st.nodes[right]), left)
    IN  Onward([added EXCEPT !.nodes = [LedAround(added.nodes, left, right, righttop)
                                            EXCEPT ![right].father = -5]],
               st.nodes[left].sibling, st.nodes[right].sibling)

(* The last daughter of no, its last daughter, and so on.                  *)
LastOnly(nodes, no) == {nodes[no].suns[NSuns]}
RECURSIVE LastBelow(_, _)
LastBelow(nodes, no) ==
    IF nodes[no].ChildType # NodeNode THEN {}
    ELSE {nodes[no].suns[NSuns]} \cup LastBelow(nodes, nodes[no].suns[NSuns])

LeftInto(st, left, right) ==
    LET added == AddAll(st, Held(st.nodes[left]), right)
        suns == added.nodes[right].suns
        copied == [added.nodes EXCEPT
                      ![left].suns = suns, ![left].noccupied = added.nodes[right].noccupied,
                      ![left].ChildType = NodeNode, ![left].mass = 0, ![left].hmax = 0,
                      ![right].father = -5]
        last == LastBelow(copied, left)
        relinked == [no \in DOMAIN copied |->
                        [copied[no] EXCEPT
                            !.father = IF no \in ToSet(suns) THEN left ELSE @,
                            !.sibling = IF no \in last THEN copied[left].sibling ELSE @]]
    IN  IF added.cur = -1 THEN Onward(added, left, right)
        ELSE Onward([added EXCEPT !.nodes = relinked],
                    st.nodes[left].sibling, st.nodes[right].sibling)

MergeTurn(st, left, right, righttop) ==
    CASE st.nodes[left].ChildType = NodeNode /\ st.nodes[right].ChildType = NodeNode ->
             BothDown(st, left, right)
      [] st.nodes[right].ChildType = Particles -> RightInto(st, left, right, righttop)
      [] OTHER -> LeftInto(st, left, right)

-----------------------------------------------------------------------------
(* Moments.                                                                *)

(* The suns of a node without empty daughters, kept ones first.            *)
Compacted(nodes, no) ==
    LET Kept(s) == nodes[s].TopLevel \/ nodes[s].ChildType # Particles \/ nodes[s].noccupied > 0
        kept == SelectSeq(nodes[no].suns, Kept)
    IN  [j \in 1 .. NSuns |-> IF j <= Len(kept) THEN kept[j] ELSE -1]

force_get_sibling(sib, j, suns) ==
    IF \E jj \in j + 1 .. NSuns : suns[jj] >= 0
    THEN suns[CHOOSE jj \in j + 1 .. NSuns :
                 suns[jj] >= 0 /\ \A k \in j + 1 .. jj - 1 : suns[k] < 0]
    ELSE sib

(* What the daughters of a node have, added to what it has.                *)
Summed(nodes, no, daughters) ==
    [nodes EXCEPT ![no].mass = @ + MapThenSumSet(LAMBDA d : nodes[d].mass, daughters),
                  ![no].hmax = Max({@} \cup {nodes[d].hmax : d \in daughters})]

RECURSIVE force_update_node_recursive(_, _)
force_update_node_recursive(nodes, no) ==
    LET suns == Compacted(nodes, no)
        linked == [n \in DOMAIN nodes |->
                      IF n = no THEN [nodes[n] EXCEPT !.suns = suns]
                      ELSE IF n \in ToSet(suns)
                      THEN [nodes[n] EXCEPT !.sibling =
                               force_get_sibling(nodes[no].sibling,
                                                 CHOOSE j \in 1 .. NSuns : suns[j] = n, suns)]
                      ELSE nodes[n]]
        below == FoldLeft(LAMBDA ns, d :
                              IF ns[d].ChildType = NodeNode THEN force_update_node_recursive(ns, d)
                              ELSE ns,
                          linked, SelectSeq(suns, LAMBDA d : d >= 0))
    IN  Summed(below, no, ToSet(suns) \ {-1})

(* The moments of every local leaf.                                        *)
force_update_node_parallel(nodes, treenode, r) ==
    FoldLeft(LAMBDA ns, leaf :
                 IF ns[treenode[leaf]].ChildType = NodeNode
                 THEN force_update_node_recursive(ns, treenode[leaf]) ELSE ns,
             nodes, SetToSortSeq(LocalLeaves(r), <))

RECURSIVE force_treeupdate_pseudos(_, _)
force_treeupdate_pseudos(nodes, no) ==
    IF ~ nodes[no].InternalTopLevel THEN nodes
    ELSE LET below == FoldLeft(force_treeupdate_pseudos, nodes, nodes[no].suns)
         IN  Summed([below EXCEPT ![no].mass = 0, ![no].hmax = 0], no, ToSet(nodes[no].suns))

-----------------------------------------------------------------------------
(* What a walk meets: the nodes below no in the order in which a walk that *)
(* opens every node must meet them, and the particles in them.             *)
RECURSIVE Preorder(_, _)
Preorder(nodes, no) ==
    IF nodes[no].ChildType # NodeNode THEN <<no>>
    ELSE <<no>> \o FlattenSeq([j \in 1 .. NSuns |->
                                  IF nodes[no].suns[j] < 0 THEN <<>>
                                  ELSE Preorder(nodes, nodes[no].suns[j])])

(* Every reachable node leads on to the first node after all it contains,  *)
(* and its daughters name it as their father.                              *)
WalkComplete(nodes) ==
    LET order == Preorder(nodes, firstnode)
    IN  /\ IsInjective(order)
        /\ \A k \in DOMAIN order : nodes[order[k]].ChildType = NodeNode =>
              \A d \in ToSet(nodes[order[k]].suns) \ {-1} : nodes[d].father = order[k]
        /\ \A k \in DOMAIN order :
              LET after == k + Len(Preorder(nodes, order[k]))
              IN  nodes[order[k]].sibling = IF after <= Len(order) THEN order[after] ELSE -1

(* Every particle of the set is held once, by a node around it that it     *)
(* names as its father; and nothing else is held.                          *)
HeldOnce(nodes, Father, part, these) ==
    LET leaves == {no \in ToSet(Preorder(nodes, firstnode)) : nodes[no].ChildType = Particles}
    IN  /\ \A no \in leaves : /\ IsInjective(Held(nodes[no]))
                              /\ ToSet(Held(nodes[no])) \subseteq these
        /\ \A i \in these : {no \in leaves : i \in ToSet(Held(nodes[no]))} = {Father[i]}
        /\ \A no \in leaves : \A i \in ToSet(Held(nodes[no])) :
              inside_node(nodes[no], part[i].pos)

-----------------------------------------------------------------------------
CONSTANTS NThread,
          Chunk,           \* chnksz: particles a thread takes in turn
          FirstFactor,     \* TreeAllocFactor, in percent
          MaxFactor,       \* 3.0, where the run is ended
          Kinds,           \* which trees are built: gas, full, active
          TreePlacements   \* the particles: per rank and index, a record

Thread == 0 .. NThread - 1

ASSUME BuildAssumption == NThread \in Nat \ {0} /\ Chunk \in Nat \ {0}

VARIABLES particle, \* per rank and index: pos, Mass, Hsml, gas, active, IsGarbage
          kind,     \* force_tree_rebuild_mask, force_tree_full or _active_moments
          factor,   \* per rank, TreeAllocFactor
          tree,     \* per rank, the tree, or EmptyTree
          th,       \* per thread, its node cache and what it has to do
          rank,     \* the rank that builds
          phase, treefatal

treeVars == <<particle, kind, factor, tree, th, rank, phase, treefatal>>

EmptyTree == [nodes |-> <<>>, treenode |-> <<>>, Father |-> <<>>, nnext |-> 0, lastnode |-> 0]
Idle == [nnext_thread |-> 0, nrem_thread |-> 0, this_acc |-> 0, todo |-> <<>>,
         left |-> -1, right |-> -1, readhmax |-> -1]

NumPart(r) == Cardinality(DOMAIN particle[r])
P(r, i) == particle[r][i]
Index(r) == [j \in 1 .. NumPart(r) |-> j - 1]

(* The list the build runs over, and whether it takes a particle.          *)
ActList(r) ==
    IF kind = "active" THEN SelectSeq(Index(r), LAMBDA i : P(r, i).active) ELSE Index(r)
Takes(r, i) == (kind = "gas" => P(r, i).gas) /\ ~ P(r, i).IsGarbage
Included(r) == {i \in ToSet(ActList(r)) : Takes(r, i)}

(* P[i].TopLeaf, set by the domain from the Peano key: a position between  *)
(* two cells belongs to the upper one.                                     *)
RECURSIVE LeafAt(_, _, _, _)
LeafAt(top, lo, len, pos) ==
    IF TopNodes[top].Daughter = 0 THEN TopNodes[top].Leaf
    ELSE LET j == IF 2 * pos >= 2 * lo + len THEN 2 ELSE 1
         IN  LeafAt(Sub(top, j), lo + (j - 1) * (len \div NSuns), len \div NSuns, pos)
TopLeaf(r, i) == LeafAt(1, 0, BoxSize, P(r, i).pos)

TreeInit ==
    /\ particle = [r \in TreeRank |-> <<>>] /\ kind = "none"
    /\ factor = [r \in TreeRank |-> FirstFactor]
    /\ tree = [r \in TreeRank |-> EmptyTree]
    /\ th = [t \in Thread |-> Idle]
    /\ rank = 0 /\ phase = "idle" /\ treefatal = "no"

-----------------------------------------------------------------------------
(* What a thread works on, as ForceTree has it, and its result.            *)
Work(t) ==
    [part |-> particle[rank], nodes |-> tree[rank].nodes, Father |-> tree[rank].Father,
     nnext |-> tree[rank].nnext, lastnode |-> tree[rank].lastnode,
     nnext_thread |-> th[t].nnext_thread, nrem_thread |-> th[t].nrem_thread,
     row |-> 0, cur |-> 0]

Worked(st) ==
    tree' = [tree EXCEPT ![rank].nodes = st.nodes, ![rank].Father = st.Father,
                         ![rank].nnext = st.nnext]

NoNode(t) == th[t].nnext_thread >= tree[rank].lastnode

(* force_treeallocate and the first half of force_tree_create_nodes: the   *)
(* top-level nodes, and for every thread but the first a copy of the local *)
(* leaves.  Copy t of local leaf j is node Copies(r, at, t)[j].            *)
maxnodes(r) == (factor[r] * NumPart(r)) \div 100 + Len(TopNodes)
NLocal(r) == TopTasks[r].EndLeaf - TopTasks[r].StartLeaf

Top(g, r, t, leaf) ==
    IF t = 0 THEN g.treenode[leaf] ELSE g.next + (t - 1) * NLocal(r) + leaf - TopTasks[r].StartLeaf

(* The particles of a thread: chunks of the list in turn.                  *)
Share(t) ==
    LET list == ActList(rank)
        mine == SelectSeq([j \in DOMAIN list |-> j], LAMBDA j : ((j - 1) \div Chunk) % NThread = t)
    IN  SelectSeq([k \in DOMAIN mine |-> list[mine[k]]], LAMBDA i : Takes(rank, i))

Started(lastnode, g) ==
    LET copied == [n \in g.next .. g.next + (NThread - 1) * NLocal(rank) - 1 |->
                      g.nodes[g.treenode[TopTasks[rank].StartLeaf + ((n - g.next) % NLocal(rank))]]]
        first_free == g.next + (NThread - 1) * NLocal(rank)
    IN  /\ tree' = [tree EXCEPT ![rank] =
                        [nodes |-> copied @@ g.nodes, treenode |-> g.treenode,
                         Father |-> [i \in DOMAIN particle[rank] |-> -1],
                         nnext |-> first_free + NThread * NODECACHE_SIZE, lastnode |-> lastnode]]
        /\ th' = [t \in Thread |->
                     [Idle EXCEPT !.nnext_thread = first_free + t * NODECACHE_SIZE,
                                  !.nrem_thread = NODECACHE_SIZE,
                                  !.this_acc = Top(g, rank, t, TopTasks[rank].StartLeaf),
                                  !.todo = Share(t)]]
        /\ phase' = "insert" /\ UNCHANGED treefatal

(* force_tree_rebuild_mask, force_tree_full or force_tree_active_moments   *)
(* is called with what the particle tables then hold.                      *)
CallTree ==
    /\ phase = "idle" /\ phase' = "start"
    /\ particle' \in TreePlacements /\ kind' \in Kinds
    /\ UNCHANGED <<factor, tree, th, rank, treefatal>>

StartBuild ==
    LET lastnode == firstnode + maxnodes(rank)
        g == force_tree_create_topnodes(rank, lastnode)
    IN  /\ phase = "start"
        /\ IF g.next >= lastnode
           THEN phase' = "ended" /\ treefatal' = "topgrid" /\ UNCHANGED <<tree, th>>
           ELSE Started(lastnode, g)
        /\ UNCHANGED <<particle, kind, factor, rank>>

(* The top-level leaf of thread t, from where Started put it.              *)
LocalTop(t, leaf) ==
    Top([treenode |-> tree[rank].treenode, next |-> firstnode + Len(TopNodes)], rank, t, leaf)

(* A thread inserts its next particle.                                     *)
Insert(t) ==
    LET i == Head(th[t].todo)
        near == inside_node(tree[rank].nodes[th[t].this_acc], P(rank, i).pos)
        st == add_particle_to_tree(Work(t), i, IF near THEN th[t].this_acc
                                               ELSE LocalTop(t, TopLeaf(rank, i)))
    IN  /\ phase = "insert" /\ th[t].todo # <<>>
        /\ IF NoNode(t)
           THEN th' = [th EXCEPT ![t].todo = <<>>] /\ UNCHANGED tree
           ELSE /\ Worked(st)
                /\ th' = [th EXCEPT ![t].todo = Tail(@), ![t].this_acc = st.cur,
                                    ![t].nnext_thread = st.nnext_thread,
                                    ![t].nrem_thread = st.nrem_thread]
        /\ UNCHANGED <<particle, kind, factor, rank, phase, treefatal>>

(* The barrier; then leaf j is merged by thread j % NThread.               *)
Pairs(t) ==
    LET mine == SelectSeq(SetToSortSeq(LocalLeaves(rank), <),
                          LAMBDA l : (l - TopTasks[rank].StartLeaf) % NThread = t)
    IN  FlattenSeq([k \in DOMAIN mine |->
            [u \in 1 .. NThread - 1 |-> <<LocalTop(0, mine[k]), LocalTop(u, mine[k])>>]])

StartMerge ==
    /\ phase = "insert" /\ \A t \in Thread : th[t].todo = <<>>
    /\ phase' = "merge"
    /\ th' = [t \in Thread |-> [th[t] EXCEPT !.todo = Pairs(t), !.left = -1, !.right = -1]]
    /\ UNCHANGED <<particle, kind, factor, tree, rank, treefatal>>

(* One turn of the merge of the pair at the head of todo.  When a walk     *)
(* comes to the end of its tree the next pair follows.                     *)
Merge(t) ==
    LET top == Head(th[t].todo)
        nodes == tree[rank].nodes
        left == IF th[t].left = -1 THEN top[1] ELSE th[t].left
        right == IF th[t].right = -1 THEN top[2] ELSE th[t].right
        turn == MergeTurn(Work(t), left, right, top[2])
        ends == \/ turn.left = nodes[top[1]].sibling
                \/ turn.right = nodes[top[2]].sibling
    IN  /\ phase = "merge" /\ th[t].todo # <<>>
        /\ IF NoNode(t)
           THEN th' = [th EXCEPT ![t].todo = <<>>] /\ UNCHANGED tree
           ELSE /\ Worked(turn.st)
                /\ th' = [th EXCEPT ![t].todo = IF turn.st.cur = -1 \/ ends THEN Tail(@) ELSE @,
                                    ![t].left = IF ends THEN -1 ELSE turn.left,
                                    ![t].right = IF ends THEN -1 ELSE turn.right,
                                    ![t].nnext_thread = turn.st.nnext_thread,
                                    ![t].nrem_thread = turn.st.nrem_thread]
        /\ UNCHANGED <<particle, kind, factor, rank, phase, treefatal>>

(* Too few nodes: more of them, or the end of the run.                     *)
EndBuild ==
    LET more == (factor[rank] * 115) \div 100
    IN  /\ phase = "merge" /\ \A t \in Thread : th[t].todo = <<>>
        /\ th' = [t \in Thread |-> Idle]
        /\ IF tree[rank].nnext >= tree[rank].lastnode
           THEN /\ factor' = [factor EXCEPT ![rank] = more]
                /\ tree' = [tree EXCEPT ![rank] = EmptyTree]
                /\ IF more > MaxFactor THEN phase' = "ended" /\ treefatal' = "factor"
                   ELSE phase' = "start" /\ UNCHANGED treefatal
                /\ UNCHANGED rank
           ELSE /\ IF rank + 1 \in TreeRank THEN rank' = rank + 1 /\ phase' = "start"
                   ELSE /\ rank' = 0
                        /\ phase' = IF kind = "gas" THEN "density" ELSE "moments"
                /\ UNCHANGED <<factor, tree, treefatal>>
        /\ UNCHANGED <<particle, kind>>

-----------------------------------------------------------------------------
(* density(): every active gas particle has its smoothing length, and its  *)
(* thread raises hmax of the node that holds it, with a compare and swap.  *)
StartDensity ==
    /\ phase = "density"
    /\ th' = [t \in Thread |-> [Idle EXCEPT !.todo =
                 SelectSeq(Index(rank), LAMBDA i : i \in Included(rank) /\ P(rank, i).active
                                                      /\ i % NThread = t)]]
    /\ phase' = "hmax"
    /\ UNCHANGED <<particle, kind, factor, tree, rank, treefatal>>

(* update_tree_hmax_father: the particle at the head of todo.              *)
FatherOf(t) == tree[rank].Father[Head(th[t].todo)]
newhmax(t) == Pokes(tree[rank].nodes[FatherOf(t)], P(rank, Head(th[t].todo)))
CurrentHmax(t) == tree[rank].nodes[FatherOf(t)].hmax

(* readhmax is what the thread knows; with nothing to raise it is done.    *)
Knows(t, value) ==
    th' = [th EXCEPT ![t] = IF newhmax(t) <= value
                            THEN [@ EXCEPT !.todo = Tail(@), !.readhmax = -1]
                            ELSE [@ EXCEPT !.readhmax = value]]

ReadHmax(t) ==
    /\ phase = "hmax" /\ th[t].todo # <<>> /\ th[t].readhmax = -1
    /\ Knows(t, CurrentHmax(t))
    /\ UNCHANGED <<particle, kind, factor, tree, rank, phase, treefatal>>

PlainStore(t) ==
    /\ tree' = [tree EXCEPT ![rank].nodes[FatherOf(t)].hmax = newhmax(t)]
    /\ th' = [th EXCEPT ![t].todo = Tail(@), ![t].readhmax = -1]
CompareExchange(t) ==
    IF CurrentHmax(t) = th[t].readhmax
    THEN /\ tree' = [tree EXCEPT ![rank].nodes[FatherOf(t)].hmax = newhmax(t)]
         /\ th' = [th EXCEPT ![t].todo = Tail(@), ![t].readhmax = -1]
    ELSE Knows(t, CurrentHmax(t)) /\ UNCHANGED tree

SwapHmax(t) ==
    /\ phase = "hmax" /\ th[t].todo # <<>> /\ th[t].readhmax # -1
    /\ CompareExchange(t)
    /\ UNCHANGED <<particle, kind, factor, rank, phase, treefatal>>

EndDensity ==
    /\ phase = "hmax" /\ \A t \in Thread : th[t].todo = <<>>
    /\ IF rank + 1 \in TreeRank THEN rank' = rank + 1 /\ phase' = "density"
       ELSE rank' = 0 /\ phase' = "moments"
    /\ UNCHANGED <<particle, kind, factor, tree, th, treefatal>>

-----------------------------------------------------------------------------
(* force_tree_calc_moments, in three parts on all ranks.                   *)
ForAllTrees(F(_)) == tree' = [r \in TreeRank |-> [tree[r] EXCEPT !.nodes = F(r)]]

UpdateNodes ==
    /\ phase = "moments" /\ phase' = "exchange"
    /\ ForAllTrees(LAMBDA r : force_update_node_parallel(tree[r].nodes, tree[r].treenode, r))
    /\ UNCHANGED <<particle, kind, factor, th, rank, treefatal>>

(* force_exchange_pseudodata: the moments of the other ranks' leaves.      *)
OwnerOf(leaf) == CHOOSE r \in TreeRank : leaf \in LocalLeaves(r)
Received(r) ==
    [no \in DOMAIN tree[r].nodes |->
        LET leaves == {l \in 0 .. NLeaf - 1 :
                           OwnerOf(l) # r /\ tree[r].treenode[l] = no}
            there(l) == tree[OwnerOf(l)].nodes[tree[OwnerOf(l)].treenode[l]]
        IN  IF leaves = {} THEN tree[r].nodes[no]
            ELSE [tree[r].nodes[no] EXCEPT !.mass = there(Max(leaves)).mass,
                                           !.hmax = there(Max(leaves)).hmax]]

ExchangePseudodata ==
    /\ phase = "exchange" /\ phase' = "pseudos"
    /\ ForAllTrees(Received)
    /\ UNCHANGED <<particle, kind, factor, th, rank, treefatal>>

UpdatePseudos ==
    /\ phase = "pseudos" /\ phase' = "done"
    /\ ForAllTrees(LAMBDA r : force_treeupdate_pseudos(tree[r].nodes, firstnode))
    /\ UNCHANGED <<particle, kind, factor, th, rank, treefatal>>

TreeOver == phase \in {"done", "ended"} /\ UNCHANGED treeVars

TreeNext ==
    \/ StartBuild \/ StartMerge \/ EndBuild
    \/ StartDensity \/ EndDensity
    \/ UpdateNodes \/ ExchangePseudodata \/ UpdatePseudos \/ TreeOver
    \/ \E t \in Thread : Insert(t) \/ Merge(t) \/ ReadHmax(t) \/ SwapHmax(t)

-----------------------------------------------------------------------------
Built(r) ==
    \/ phase \in {"density", "hmax", "moments", "exchange", "pseudos", "done"}
    \/ phase # "ended" /\ r < rank

(* A finished tree holds every particle it should, once, in a node around  *)
(* it which is the particle's father, whichever threads inserted what and  *)
(* however the copies were merged; before and after the moments.           *)
HoldsAllOnce ==
    \A r \in TreeRank : Built(r) =>
        HeldOnce(tree[r].nodes, tree[r].Father, particle[r], Included(r))

(* A walk over a finished tree, whatever it opens, misses no node, meets   *)
(* none twice and ends at the root's sibling: the links survive the merge  *)
(* and the removal of empty nodes.                                         *)
WalksComplete ==
    HoldsAllOnce /\ \A r \in TreeRank : Built(r) => WalkComplete(tree[r].nodes)

(* The particles below a node, as the trees of their own ranks hold them.  *)
HeldIn(r, nodes) ==
    {<<r, i>> : i \in UNION {ToSet(Held(tree[r].nodes[n])) :
                                 n \in {m \in nodes : tree[r].nodes[m].ChildType = Particles}}}
FarLeaves(r, nodes) ==
    {tree[r].nodes[n].suns[1] - tree[r].lastnode :
        n \in {m \in nodes : tree[r].nodes[m].ChildType = Pseudo}}
Reach(r, no) == ToSet(Preorder(tree[r].nodes, no))

UnderNode(r, no) ==
    HeldIn(r, Reach(r, no))
        \cup UNION {LET q == OwnerOf(l) IN HeldIn(q, Reach(q, tree[q].treenode[l])) :
                       l \in FarLeaves(r, Reach(r, no))}

(* On every rank every node ends with the mass of all the particles below  *)
(* it, other ranks' included.                                              *)
MomentsRight ==
    phase = "done" =>
        \A r \in TreeRank : \A no \in Reach(r, firstnode) :
            tree[r].nodes[no].mass =
                MapThenSumSet(LAMBDA b : P(b[1], b[2]).Mass, UnderNode(r, no))

(* On every rank hmax of a node covers how far any gas particle below it   *)
(* reaches out of it, those whose smoothing length was set after the build *)
(* included.                                                               *)
HmaxCovers ==
    phase = "done" =>
        \A r \in TreeRank : \A no \in Reach(r, firstnode) :
            \A b \in UnderNode(r, no) :
                P(b[1], b[2]).gas /\ (kind = "gas" \/ ~ P(b[1], b[2]).active) =>
                    tree[r].nodes[no].hmax >= Pokes(tree[r].nodes[no], P(b[1], b[2]))
=============================================================================
