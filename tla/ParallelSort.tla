----------------------------- MODULE ParallelSort -----------------------------
(***************************************************************************)
(* The sort of an array that is spread over the ranks (utils/mpsort.c) and *)
(* the threaded sort of one rank's array it is built on                    *)
(* (utils/openmpsort.c).  An item is a record with a field "key", the      *)
(* radix of the code as a number; a distributed array is a function from   *)
(* the ranks to sequences of items.                                        *)
(*                                                                         *)
(* Ranks with few items are gathered into segments, the leaders of the     *)
(* segments sort what they hold, look for the keys that split all items    *)
(* into the counts every leader must end with, share out the items that    *)
(* equal a splitting key, exchange, sort again and scatter.                *)
(***************************************************************************)
EXTENDS Integers, Sequences, FiniteSets, SequencesExt, FiniteSetsExt, Folds

CONSTANTS
  NTask,         (* number of ranks                                         *)
  NSortThread,   (* threads of a rank                                       *)
  SegmentSize    (* items a segment may hold before it is closed: NTask,    *)
                 (* less for large items, 0 when gathering is disabled      *)

Tasks == 0..(NTask - 1)

\* The array of n items, and the distributed array, that f makes.
Listed(n, f(_)) == SubSeq([i \in 1..n |-> f(i)], 1, n)
PerTask(f(_)) ==
  LET rows == Listed(NTask, LAMBDA i : f(i - 1)) IN [t \in Tasks |-> rows[t + 1]]

SumOver(f, S) == MapThenFoldSet(+, 0, LAMBDA x : f[x], LAMBDA T : CHOOSE x \in T : TRUE, S)

Keys(s) == {s[i].key : i \in DOMAIN s}
CountLT(s, P) == Cardinality({i \in DOMAIN s : s[i].key < P})
CountLE(s, P) == Cardinality({i \in DOMAIN s : s[i].key <= P})

---------------------------------------------------------------------------
(* The sort of one rank.                                                   *)

\* The merge sort of glibc on a thread's own part.
msort_with_tmp(s) == SortSeq(s, LAMBDA a, b : a.key < b.key)

\* Two sorted parts become one; of equal items those of the first come first.
merge(a, b) ==
  LET PlaceOfA(i) == i + CountLT(b, a[i].key)
      PlaceOfB(j) == j + CountLE(a, b[j].key)
      n == Len(a) + Len(b)
  IN Listed(n, LAMBDA p :
        IF \E i \in DOMAIN a : PlaceOfA(i) = p
        THEN a[CHOOSE i \in DOMAIN a : PlaceOfA(i) = p]
        ELSE b[CHOOSE j \in DOMAIN b : PlaceOfB(j) = p])

\* The part of thread tid.
ThreadPart(s, tid) ==
  SubSeq(s, ((tid * Len(s)) \div NSortThread) + 1,
            ((tid + 1) * Len(s)) \div NSortThread)

\* Threads sep apart merge in pairs, the lower one keeps the result.  A thread
\* without a partner keeps what it has.
RECURSIVE MergeUp(_, _)
MergeUp(parts, sep) ==
  IF sep >= NSortThread THEN parts[0]
  ELSE MergeUp([tid \in DOMAIN parts |->
                  IF tid % (2 * sep) # 0 THEN <<>>
                  ELSE IF tid + sep \in DOMAIN parts
                  THEN merge(parts[tid], parts[tid + sep])
                  ELSE parts[tid]], 2 * sep)

qsort_openmp(s) ==
  MergeUp([tid \in 0..(NSortThread - 1) |-> msort_with_tmp(ThreadPart(s, tid))], 1)

---------------------------------------------------------------------------
(* Segments of ranks.                                                      *)

\* The segment of every rank: one is closed when it holds more than
\* SegmentSize items.
_assign_colors(sizes) ==
  FoldLeft(LAMBDA acc, i :
             LET full == acc.size + sizes[i - 1] > SegmentSize
             IN [size |-> IF full THEN 0 ELSE acc.size + sizes[i - 1],
                 color |-> IF full THEN acc.color + 1 ELSE acc.color,
                 colors |-> Append(acc.colors, acc.color)],
           [size |-> 0, color |-> 0, colors |-> <<>>],
           [i \in 1..NTask |-> i]).colors

\* At most one segment makes a group; ranks that hold nothing make one of
\* their own.
GroupID(sizes, task) ==
  LET colors == _assign_colors(sizes)
  IN IF sizes[task] = 0 THEN NTask + 1
     ELSE (colors[task + 1] * NTask) \div (colors[NTask] + 1)

\* The ranks of a group, in order.
_create_segment_group(sizes, id) ==
  SelectSeq([i \in 1..NTask |-> i - 1], LAMBDA t : GroupID(sizes, t) = id)

\* The rank with most items leads its group.
MPIU_GetLoc(sizes, group) ==
  CHOOSE t \in Range(group) :
    /\ \A u \in Range(group) : sizes[u] <= sizes[t]
    /\ \A u \in Range(group) : sizes[u] = sizes[t] => t <= u

---------------------------------------------------------------------------
(* The search for the splitting keys.  It is among the leaders, 1..n.      *)

\* How many items the first k leaders must end with.
Wanted(out, k) == SumOver(out, 1..k)

\* Every splitting key starts between the smallest and the largest key.
_find_Pmax_Pmin(arrays) ==
  LET all == UNION {Keys(arrays[j]) : j \in DOMAIN arrays}
  IN [left |-> Min(all), right |-> Max(all), P |-> 0,
      narrow |-> FALSE, stable |-> FALSE]

\* The next key to try.  When halving no longer moves it, the right end is
\* tried once and taken.
piter_bisect(p) ==
  LET mid == p.left + ((p.right - p.left) \div 2)
  IN IF p.stable THEN p
     ELSE IF p.narrow THEN [p EXCEPT !.P = p.right, !.stable = TRUE]
     ELSE [p EXCEPT !.P = mid, !.narrow = (mid <= p.left)]

\* The key is right when as many items as wanted are not above it and fewer
\* are below it.
piter_accept(p, want, arrays) ==
  LET lt == SumOver([j \in DOMAIN arrays |-> CountLT(arrays[j], p.P)], DOMAIN arrays)
      le == SumOver([j \in DOMAIN arrays |-> CountLE(arrays[j], p.P)], DOMAIN arrays)
  IN IF lt < want /\ want <= le THEN [p EXCEPT !.stable = TRUE]
     ELSE IF lt >= want THEN [p EXCEPT !.right = p.P]
     ELSE [p EXCEPT !.left = p.P]

\* Both in turn, until the key is found.
Searching == [left : Nat, right : Nat, P : Nat, narrow : BOOLEAN, stable : BOOLEAN]
FindKey(want, arrays) ==
  LET Find[p \in Searching] ==
        IF p.stable THEN p.P ELSE Find[piter_accept(piter_bisect(p), want, arrays)]
  IN Find[_find_Pmax_Pmin(arrays)]

\* How many of its items every leader sends to the leaders up to i: those below
\* the i-th key, and of those that equal it as many as are still missing, taken
\* from the lower leaders first.
_solve_for_layout_mpi(arrays, P, i, want) ==
  LET n == Len(arrays)
      sure == [j \in 1..n |-> IF i = n THEN Len(arrays[j]) ELSE CountLT(arrays[j], P)]
      most == [j \in 1..n |-> IF i = n THEN Len(arrays[j]) ELSE CountLE(arrays[j], P)]
      missing(j) == want - SumOver(sure, 1..n)
                      - SumOver([k \in 1..n |-> most[k] - sure[k]], 1..(j - 1))
  IN Listed(n, LAMBDA j : sure[j] + Max({0, Min({most[j] - sure[j], missing(j)})}))

\* The sort among the leaders: what each ends with.
mpsort_mpi_histogram_sort(arrays, out) ==
  LET n == Len(arrays)
      mine == Listed(n, LAMBDA j : qsort_openmp(arrays[j]))
      layout == Listed(n, LAMBDA i :
                  _solve_for_layout_mpi(mine, IF i = n THEN 0 ELSE FindKey(Wanted(out, i), mine),
                                        i, Wanted(out, i)))
      sent(j, i) == SubSeq(mine[j], (IF i = 1 THEN 0 ELSE layout[i - 1][j]) + 1, layout[i][j])
  IN Listed(n, LAMBDA i : qsort_openmp(FlattenSeq([j \in 1..n |-> sent(j, i)])))

\* A group's arrays come to its leader one after the other, and the sorted array
\* is cut the same way.
MPIU_Gather(data, group) == FlattenSeq([i \in DOMAIN group |-> data[group[i]]])
MPIU_Scatter(array, group, sizes, t) ==
  LET before == SumOver(sizes, {u \in Range(group) : u < t})
  IN SubSeq(array, before + 1, before + sizes[t])

\* The whole sort, in place: every rank ends with as many items as it had.
mpsort_mpi(data) ==
  LET sizes == PerTask(LAMBDA t : Len(data[t]))
      GroupOf(t) == _create_segment_group(sizes, GroupID(sizes, t))
      leaders == SelectSeq([i \in 1..NTask |-> i - 1],
                           LAMBDA t : MPIU_GetLoc(sizes, GroupOf(t)) = t)
      gathered == Listed(Len(leaders), LAMBDA k :
                    MPIU_Gather(data, GroupOf(leaders[k])))
      sorted == mpsort_mpi_histogram_sort(gathered,
                                          [k \in DOMAIN leaders |-> Len(gathered[k])])
      Whole(t) == sorted[CHOOSE k \in DOMAIN leaders : leaders[k] \in Range(GroupOf(t))]
  IN PerTask(LAMBDA t : MPIU_Scatter(Whole(t), GroupOf(t), sizes, t))

\* What the sort promises.
SortedAcross(data) ==
  \A t, u \in Tasks : \A i \in DOMAIN data[t], j \in DOMAIN data[u] :
    (t < u \/ (t = u /\ i < j)) => data[t][i].key <= data[u][j].key
=============================================================================
