-------------------------- MODULE SnapshotIO_proofs -------------------------
(***************************************************************************)
(* Proofs about SnapshotIO for every number of ranks that write or read,   *)
(* every table of particles, and every limit of files, writers and faults. *)
(*                                                                         *)
(* WritersApart is about the leaders of the groups of a call.  Two of them *)
(* are apart because the rows a leader has still to move, counted from its *)
(* place in the block, end where its segment ends (SegmentInv), and the    *)
(* segments are intervals of ranks, so also of rows (Segmented).  There    *)
(* are not too many because each group has one leader, and the groups with *)
(* rows are numbered below the number of writers.                          *)
(***************************************************************************)
EXTENDS SnapshotIO, DataLemmas

----------------------------------------------------------------------------
(* Files of a block and places in it.                                      *)

\* Where the files of a block begin.
LEMMA FileOffsets ==
  ASSUME NEW fsize \in Seq(Nat)
  PROVE  /\ \A i \in 1..(Len(fsize) + 1) : foffset(fsize, i) \in Nat
         /\ foffset(fsize, 1) = 0
         /\ \A i \in 1..Len(fsize) : foffset(fsize, i + 1) = foffset(fsize, i) + fsize[i]
         /\ \A i, j \in 1..(Len(fsize) + 1) : i <= j => foffset(fsize, i) <= foffset(fsize, j)
<1>. DEFINE N == Len(fsize)
            D == 1..N
<1>1. N \in Nat /\ fsize \in [D -> Nat] /\ fsize \in [D -> Int] /\ IsFiniteSet(D)
  <2>1. N \in Nat
    OBVIOUS
  <2>2. IsFiniteSet(1..N)
    BY <2>1, FS_Interval
  <2>3. fsize \in [D -> Nat]
    OBVIOUS
  <2>. QED BY <2>1, <2>2, <2>3
<1>. HIDE DEF N
<1>2. ASSUME NEW i \in 1..(N + 1) PROVE 1..(i - 1) \in SUBSET D
  BY <1>1
<1>3. ASSUME NEW i \in 1..(N + 1) PROVE foffset(fsize, i) \in Nat
  <2>1. 1..(i - 1) \in SUBSET D
    BY <1>2
  <2>2. \A S \in SUBSET D : SumFunctionOnSet(fsize, S) \in Nat
    BY <1>1, SumParts
  <2>. QED BY <2>1, <2>2 DEF foffset
<1>4. foffset(fsize, 1) = 0
  <2>1. 1..(1 - 1) = {}
    OBVIOUS
  <2>2. SumFunctionOnSet(fsize, {}) = 0
    BY <1>1, SumParts
  <2>. QED BY <2>1, <2>2 DEF foffset
<1>5. ASSUME NEW i \in 1..N PROVE foffset(fsize, i + 1) = foffset(fsize, i) + fsize[i]
  <2>1. /\ 1..(i - 1) \in SUBSET D /\ {i} \in SUBSET D /\ i \in D
        /\ (1..(i - 1)) \cap {i} = {} /\ 1..((i + 1) - 1) = (1..(i - 1)) \cup {i}
    BY <1>1
  <2>. DEFINE Before == 1..(i - 1)
  <2>. HIDE DEF D, Before
  <2>2. SumFunctionOnSet(fsize, Before \cup {i})
          = SumFunctionOnSet(fsize, Before) + SumFunctionOnSet(fsize, {i})
    <3>1. Before \in SUBSET D /\ {i} \in SUBSET D /\ Before \cap {i} = {}
      BY <2>1 DEF Before
    <3>. QED BY <1>1, <3>1, SumUnion
  <2>. USE DEF D, Before
  <2>3. SumFunctionOnSet(fsize, {i}) = fsize[i]
    BY <1>1, <2>1, SumParts
  <2>. QED BY <2>1, <2>2, <2>3 DEF foffset
<1>6. ASSUME NEW i \in 1..(N + 1)
      PROVE  \A j \in 1..(N + 1) : i <= j => foffset(fsize, i) <= foffset(fsize, j)
  <2>. DEFINE T == {d \in Nat : i + d <= N + 1 => foffset(fsize, i) <= foffset(fsize, i + d)}
  <2>1. 0 \in T
    BY <1>3
  <2>2. ASSUME NEW d \in Nat, d \in T PROVE d + 1 \in T
    <3>. SUFFICES ASSUME i + (d + 1) <= N + 1
                  PROVE  foffset(fsize, i) <= foffset(fsize, i + (d + 1))
      OBVIOUS
    <3>1. i + d \in 1..N /\ i + d \in 1..(N + 1) /\ i + (d + 1) = (i + d) + 1
      BY <1>1
    <3>2. foffset(fsize, i) <= foffset(fsize, i + d)
      BY <1>1, <2>2, <3>1
    <3>3. foffset(fsize, i + (d + 1)) = foffset(fsize, i + d) + fsize[i + d]
      BY <1>5, <3>1
    <3>4. foffset(fsize, i) \in Nat /\ foffset(fsize, i + d) \in Nat /\ fsize[i + d] \in Nat
      BY <1>1, <1>3, <3>1
    <3>. QED BY <3>2, <3>3, <3>4
  <2>. HIDE DEF T
  <2>3. \A d \in Nat : d \in T
    BY <2>1, <2>2, NatSetInduction
  <2>4. ASSUME NEW j \in 1..(N + 1), i <= j PROVE foffset(fsize, i) <= foffset(fsize, j)
    <3>1. j - i \in Nat /\ i + (j - i) = j /\ j <= N + 1
      BY <1>1, <2>4
    <3>. QED BY <2>3, <3>1 DEF T
  <2>. QED BY <2>4
<1>. QED BY <1>3, <1>4, <1>5, <1>6 DEF N


\* big_file_mpi_create_block gives each file a size.
LEMMA FileSizesType ==
  ASSUME NEW size \in Nat, NEW Nfile \in Nat
  PROVE  FileSizes(size, Nfile) \in Seq(Nat)
<1>1. ASSUME NEW i \in 1..Nfile
      PROVE  (size * i) \div Nfile - (size * (i - 1)) \div Nfile \in Nat
  <2>. DEFINE a == size * (i - 1)
  <2>1. a \in Nat /\ size * i = a + size /\ Nfile \in Nat \ {0}
    <3>1. i - 1 \in Nat
      OBVIOUS
    <3>2. a \in Nat
      BY <3>1, Z3
    <3>3. size * i = a + size
      BY Z3
    <3>. QED BY <3>2, <3>3
  <2>. HIDE DEF a
  <2>2. a \div Nfile \in Int /\ (a + size) \div Nfile \in Int /\ a \div Nfile <= (a + size) \div Nfile
    BY <2>1, Z3
  <2>. QED BY <2>1, <2>2 DEF a
<1>. QED BY <1>1 DEF FileSizes

\* What the bisection looks for is between left and right.
Brackets(fsize, offset) ==
  {w \in [left : 1..(Len(fsize) + 1), right : 1..(Len(fsize) + 1)] :
     /\ w.left < w.right
     /\ foffset(fsize, w.left) <= offset
     /\ w.right <= Len(fsize) => offset < foffset(fsize, w.right)}

\* A turn of its loop keeps that, and brings them closer.
LEMMA HalvedFacts ==
  ASSUME NEW fsize \in Seq(Nat), NEW offset \in Nat, NEW w \in Brackets(fsize, offset)
  PROVE  /\ Halved(fsize, offset, w) \in Brackets(fsize, offset)
         /\ \/ Halved(fsize, offset, w) = w /\ w.right = w.left + 1
            \/ Halved(fsize, offset, w).right - Halved(fsize, offset, w).left
                 < w.right - w.left
<1>. DEFINE mid == (w.right - w.left) \div 2 + w.left
            v   == IF foffset(fsize, mid) <= offset THEN [w EXCEPT !.left = mid]
                                                    ELSE [w EXCEPT !.right = mid]
<1>1. /\ w \in [left : 1..(Len(fsize) + 1), right : 1..(Len(fsize) + 1)]
      /\ w.left \in Nat /\ w.right \in Nat /\ w.left < w.right /\ w.left >= 1
      /\ w.right <= Len(fsize) + 1 /\ Len(fsize) \in Nat
      /\ foffset(fsize, w.left) <= offset
      /\ w.right <= Len(fsize) => offset < foffset(fsize, w.right)
  BY DEF Brackets
<1>2. CASE w.right <= w.left + 1
  <2>1. Halved(fsize, offset, w) = w
    BY <1>2 DEF Halved
  <2>. QED BY <1>1, <1>2, <2>1
<1>3. CASE ~(w.right <= w.left + 1)
  <2>1. Halved(fsize, offset, w) = v
    BY <1>3 DEF Halved
  <2>2. mid \in Nat /\ w.left < mid /\ mid < w.right
    BY <1>1, <1>3, Z3
  <2>. HIDE DEF mid
  <2>3. mid \in 1..(Len(fsize) + 1) /\ mid \in 1..Len(fsize)
    BY <1>1, <2>2
  <2>4. foffset(fsize, mid) \in Nat
    BY <2>3, FileOffsets
  <2>5. CASE foffset(fsize, mid) <= offset
    <3>1. v \in [left : 1..(Len(fsize) + 1), right : 1..(Len(fsize) + 1)]
          /\ v.left = mid /\ v.right = w.right
      BY <1>1, <2>3, <2>5
    <3>. HIDE DEF v
    <3>. QED BY <1>1, <2>1, <2>2, <2>5, <3>1 DEF Brackets
  <2>6. CASE ~(foffset(fsize, mid) <= offset)
    <3>1. v \in [left : 1..(Len(fsize) + 1), right : 1..(Len(fsize) + 1)]
          /\ v.left = w.left /\ v.right = mid
      BY <1>1, <2>3, <2>6
    <3>. HIDE DEF v
    <3>. QED BY <1>1, <2>1, <2>2, <2>4, <2>6, <3>1 DEF Brackets
  <2>. QED BY <2>5, <2>6
<1>. QED BY <1>2, <1>3

\* So the search ends at the last file that does not begin after offset.
LEMMA BisectedFacts ==
  ASSUME NEW fsize \in Seq(Nat), NEW offset \in Nat, fsize # <<>>
  PROVE  /\ Bisected(fsize, offset) \in Brackets(fsize, offset)
         /\ Bisected(fsize, offset).right = Bisected(fsize, offset).left + 1
<1>. DEFINE N       == Len(fsize)
            S       == Brackets(fsize, offset)
            base    == [left |-> 1, right |-> N + 1]
            step    == [x \in S \X (1..N) |-> Halved(fsize, offset, x[1])]
            Good(w) == w = [n \in 0..N |-> IF n = 0 THEN base
                                           ELSE Halved(fsize, offset, w[n - 1])]
            F       == CHOOSE w : Good(w)
<1>1. N \in Nat \ {0} /\ base \in S
  <2>1. N \in Nat \ {0}
    OBVIOUS
  <2>2. 1 \in 1..(N + 1) /\ N + 1 \in 1..(N + 1)
    BY <2>1
  <2>3. foffset(fsize, 1) = 0
    BY FileOffsets
  <2>. HIDE DEF N
  <2>4. base \in [left : 1..(N + 1), right : 1..(N + 1)]
    BY <2>2
  <2>. QED BY <2>1, <2>3, <2>4 DEF Brackets, N
<1>2. \E w : Good(w)
  <2>1. step \in [S \X (1..N) -> S]
    BY HalvedFacts
  <2>2. PICK w : Unfolds(w, S, N, base, step)
    <3>. HIDE DEF step, S, N, base
    <3>. QED BY <1>1, <2>1, RecurrenceExists
  <2>3. w \in [0..N -> S] /\ w[0] = base /\ \A n \in 1..N : w[n] = step[<<w[n - 1], n>>]
    BY <2>2 DEF Unfolds
  <2>4. \A n \in 1..N : w[n] = Halved(fsize, offset, w[n - 1])
    <3>. SUFFICES ASSUME NEW n \in 1..N PROVE w[n] = Halved(fsize, offset, w[n - 1])
      OBVIOUS
    <3>1. n - 1 \in 0..N
      BY <1>1
    <3>. HIDE DEF S, N
    <3>2. w[n - 1] \in S
      BY <2>3, <3>1
    <3>. QED BY <2>3, <3>2
  <2>. HIDE DEF S, base
  <2>5. w = [n \in 0..N |-> IF n = 0 THEN base ELSE Halved(fsize, offset, w[n - 1])]
    BY <1>1, <2>3, <2>4
  <2>. QED BY <2>5
<1>3. Good(F)
  BY <1>2
<1>4. Bisected(fsize, offset) = F[N]
  BY DEF Bisected
<1>5. F[0] = base /\ \A n \in 1..N : F[n] = Halved(fsize, offset, F[n - 1])
  <2>1. \A n \in 0..N : F[n] = IF n = 0 THEN base ELSE Halved(fsize, offset, F[n - 1])
    <3>. HIDE DEF F, base
    <3>. QED BY <1>3
  <2>. HIDE DEF F, base, N
  <2>2. 0 \in 0..N /\ \A n \in 1..N : n \in 0..N /\ n # 0
    BY <1>1
  <2>. QED BY <2>1, <2>2
<1>. DEFINE T == {n \in Nat : n <= N =>
                    /\ F[n] \in S
                    /\ F[n].right = F[n].left + 1 \/ F[n].right - F[n].left <= N - n}
<1>. HIDE DEF F, Good, step
<1>6. 0 \in T
  <2>1. F[0].right - F[0].left <= N - 0
    BY <1>1, <1>5
  <2>. HIDE DEF N
  <2>. QED BY <1>1, <1>5, <2>1
<1>7. ASSUME NEW n \in Nat, n \in T PROVE n + 1 \in T
  <2>. SUFFICES ASSUME n + 1 <= N
                PROVE  /\ F[n+1] \in S
                       /\ \/ F[n+1].right = F[n+1].left + 1
                          \/ F[n+1].right - F[n+1].left <= N - (n + 1)
    OBVIOUS
  <2>1. /\ F[n] \in S
        /\ F[n].right = F[n].left + 1 \/ F[n].right - F[n].left <= N - n
    BY <1>1, <1>7
  <2>2. F[n+1] = Halved(fsize, offset, F[n])
    <3>1. n + 1 \in 1..N /\ (n + 1) - 1 = n
      BY <1>1
    <3>. QED BY <1>5, <3>1
  <2>3. PICK a \in S : a = F[n]
    BY <2>1
  <2>4. PICK b \in S : b = F[n+1] /\ b = Halved(fsize, offset, a)
    BY <2>2, <2>3, HalvedFacts
  <2>5. (b = a /\ a.right = a.left + 1) \/ b.right - b.left < a.right - a.left
    BY <2>4, HalvedFacts
  <2>6. a.right \in Nat /\ a.left \in Nat /\ b.right \in Nat /\ b.left \in Nat /\ b.left < b.right
    BY DEF Brackets
  <2>7. a.right = a.left + 1 \/ a.right - a.left <= N - n
    BY <2>1, <2>3, Zenon
  <2>8. b.right = b.left + 1 \/ b.right - b.left <= N - (n + 1)
    <3>. HIDE DEF N, S, T, base
    <3>1. N \in Int /\ n \in Int
      BY <1>1
    <3>2. CASE b = a /\ a.right = a.left + 1
      BY <3>2, Zenon
    <3>3. CASE b.right - b.left < a.right - a.left
      <4>1. PICK d, c \in Int : d = a.right - a.left /\ c = b.right - b.left
        BY <2>6
      <4>2. c > 0 /\ c < d /\ (d = 1 \/ d <= N - n)
        BY <2>6, <2>7, <3>3, <4>1
      <4>3. c <= N - (n + 1)
        BY <3>1, <4>2
      <4>. QED BY <4>1, <4>3
    <3>. QED BY <2>5, <3>2, <3>3
  <2>. QED BY <2>4, <2>8, Zenon
<1>8. N \in T
  <2>. HIDE DEF T
  <2>. QED BY <1>1, <1>6, <1>7, NatSetInduction
<1>9. PICK a \in S : a = F[N] /\ (a.right = a.left + 1 \/ a.right - a.left <= N - N)
  <2>1. N <= N
    <3>. HIDE DEF N
    <3>. QED BY <1>1
  <2>. HIDE DEF N
  <2>. QED BY <1>8, <2>1, Zenon
<1>10. a.right \in Nat /\ a.left \in Nat /\ a.left < a.right
  BY DEF Brackets
<1>. QED BY <1>1, <1>4, <1>9, <1>10

\* What a seek to an offset of the block finds.
LEMMA SeekFacts ==
  ASSUME NEW fsize \in Seq(Nat), NEW offset \in Nat, fsize # <<>>
  PROVE  LET p == big_block_seek(fsize, offset) IN
         /\ p.fileid \in 1..Len(fsize)
         /\ p.roffset \in Nat
         /\ foffset(fsize, p.fileid) + p.roffset = offset
         /\ offset <= SizeOf(fsize) => p.roffset <= fsize[p.fileid]
<1>. DEFINE w == Bisected(fsize, offset)
            f == w.left
<1>1. /\ w \in [left : 1..(Len(fsize) + 1), right : 1..(Len(fsize) + 1)]
      /\ w.left < w.right /\ w.right = w.left + 1
      /\ foffset(fsize, w.left) <= offset
      /\ w.right <= Len(fsize) => offset < foffset(fsize, w.right)
  BY BisectedFacts DEF Brackets
<1>. HIDE DEF w
<1>2. Len(fsize) \in Nat \ {0}
  OBVIOUS
<1>3. f \in 1..Len(fsize) /\ f \in 1..(Len(fsize) + 1)
      /\ foffset(fsize, f) <= offset /\ (f + 1 <= Len(fsize) => offset < foffset(fsize, f + 1))
  BY <1>1, <1>2
<1>4. /\ big_block_seek(fsize, offset).fileid = f
      /\ big_block_seek(fsize, offset).roffset = offset - foffset(fsize, f)
  BY <1>2 DEF big_block_seek, w
<1>. HIDE DEF f
<1>5. foffset(fsize, f) \in Nat /\ foffset(fsize, f + 1) = foffset(fsize, f) + fsize[f]
      /\ fsize[f] \in Nat
  BY <1>3, FileOffsets
<1>6. f + 1 <= Len(fsize) \/ f + 1 = Len(fsize) + 1
  BY <1>2, <1>3
<1>7. offset <= SizeOf(fsize) => offset - foffset(fsize, f) <= fsize[f]
  BY <1>3, <1>5, <1>6 DEF SizeOf
<1>. QED BY <1>3, <1>4, <1>5, <1>7

----------------------------------------------------------------------------
(* The segments of a collective call.                                      *)

\* Min and Max choose the least and the greatest element.
LEMMA MinMaxFacts ==
  ASSUME NEW S \in SUBSET Int, IsFiniteSet(S), S # {}
  PROVE  /\ Min(S) \in S /\ \A y \in S : Min(S) <= y
         /\ Max(S) \in S /\ \A y \in S : Max(S) >= y
<1>. DEFINE C == Cardinality(S)
<1>1. /\ C \in Nat
      /\ InOrder(S) \in [1..C -> S]
      /\ \A i \in S : CountTo(S, i) \in 1..C /\ InOrder(S)[CountTo(S, i)] = i
      /\ \A j, k \in 1..C : j < k => InOrder(S)[j] < InOrder(S)[k]
  BY InOrderProperties
<1>. HIDE DEF C
<1>2. 1 \in 1..C /\ C \in 1..C
  <2>1. PICK i \in S : CountTo(S, i) \in 1..C
    BY <1>1
  <2>. QED BY <1>1, <2>1
<1>3. ASSUME NEW y \in S PROVE InOrder(S)[1] <= y /\ InOrder(S)[C] >= y
  <2>1. PICK k \in 1..C : InOrder(S)[k] = y
    BY <1>1
  <2>2. 1 < k => InOrder(S)[1] < InOrder(S)[k]
    BY <1>1, <1>2
  <2>3. k < C => InOrder(S)[k] < InOrder(S)[C]
    BY <1>1, <1>2
  <2>4. k = 1 \/ 1 < k
    BY <1>1
  <2>5. k = C \/ k < C
    BY <1>1
  <2>6. InOrder(S)[1] \in Int /\ InOrder(S)[C] \in Int /\ y \in Int
    BY <1>1, <1>2
  <2>. QED BY <2>1, <2>2, <2>3, <2>4, <2>5, <2>6
<1>4. InOrder(S)[1] \in S /\ InOrder(S)[C] \in S
  BY <1>1, <1>2
<1>5. Min(S) \in S /\ \A y \in S : Min(S) <= y
  BY <1>3, <1>4 DEF Min
<1>6. Max(S) \in S /\ \A y \in S : Max(S) >= y
  BY <1>3, <1>4 DEF Max
<1>. QED BY <1>5, <1>6

\* The sum of a part of the counts, and of more of them.
LEMMA SumOfFacts ==
  ASSUME NTask \in Nat \ {0}, NEW count \in [Ranks -> Nat],
         NEW A \in SUBSET Ranks, NEW B \in SUBSET Ranks
  PROVE  /\ SumOf(count, A) \in Nat
         /\ A \cap B = {} => SumOf(count, A \cup B) = SumOf(count, A) + SumOf(count, B)
         /\ A \subseteq B => SumOf(count, A) <= SumOf(count, B)
         /\ (\A r \in A : count[r] = 0) => SumOf(count, A) = 0
<1>1. IsFiniteSet(Ranks) /\ count \in [Ranks -> Int]
  <2>1. NTask - 1 \in Int
    OBVIOUS
  <2>2. IsFiniteSet(0..(NTask - 1))
    BY <2>1, FS_Interval
  <2>. QED BY <2>2 DEF Ranks
<1>2. \A X \in SUBSET Ranks : SumOf(count, X) \in Nat
  BY <1>1, SumParts DEF SumOf
<1>3. \A X, Y \in SUBSET Ranks :
        X \cap Y = {} => SumOf(count, X \cup Y) = SumOf(count, X) + SumOf(count, Y)
  BY <1>1, SumUnion DEF SumOf
<1>4. ASSUME A \subseteq B PROVE SumOf(count, A) <= SumOf(count, B)
  <2>1. PICK C \in SUBSET Ranks : A \cap C = {} /\ A \cup C = B
    <3>1. B \ A \in SUBSET Ranks /\ A \cap (B \ A) = {} /\ A \cup (B \ A) = B
      BY <1>4
    <3>. QED BY <3>1
  <2>2. SumOf(count, B) = SumOf(count, A) + SumOf(count, C)
    BY <1>3, <2>1
  <2>3. SumOf(count, A) \in Nat /\ SumOf(count, C) \in Nat
    BY <1>2
  <2>. QED BY <2>2, <2>3
<1>5. ASSUME \A r \in A : count[r] = 0 PROVE SumOf(count, A) = 0
  <2>. DEFINE f == [r \in A |-> count[r]]
  <2>1. SumOf(count, A) = SumFunction(f)
    BY <1>1, SumOnSet DEF SumOf
  <2>2. IsFiniteSet(A) /\ f \in [A -> Int] /\ \A r \in A : f[r] = 0
    <3>1. IsFiniteSet(A)
      BY <1>1, FS_Subset
    <3>. QED BY <1>1, <1>5, <3>1
  <2>. HIDE DEF f
  <2>3. SumFunction(f) = 0
    BY <2>2, SumInt
  <2>. QED BY <2>1, <2>3
<1>. QED BY <1>2, <1>3, <1>4, <1>5

\* A color ends with a rank.
LEMMA ColorEndsType ==
  ASSUME NTask \in Nat \ {0}, NEW count, NEW avg
  PROVE  ColorEnds(count, avg) \in SUBSET Ranks
<1>. DEFINE S       == SUBSET Ranks
            More(X, n) == IF SumOf(count, Max(X \cup {-1}) + 1 .. n - 1) > avg
                          THEN X \cup {n - 1} ELSE X
            step    == [x \in S \X (1..NTask) |-> More(x[1], x[2])]
            Good(w) == w = [n \in 0..NTask |-> IF n = 0 THEN {} ELSE More(w[n - 1], n)]
            F       == CHOOSE w : Good(w)
<1>1. \A X \in S, n \in 1..NTask : More(X, n) \in S
  BY DEF Ranks
<1>. HIDE DEF More
<1>2. \E w : Good(w)
  <2>1. step \in [S \X (1..NTask) -> S]
    BY <1>1
  <2>2. PICK w : Unfolds(w, S, NTask, {}, step)
    <3>. HIDE DEF step
    <3>. QED BY <2>1, RecurrenceExists
  <2>3. w \in [0..NTask -> S] /\ w[0] = {} /\ \A n \in 1..NTask : w[n] = step[<<w[n - 1], n>>]
    BY <2>2 DEF Unfolds
  <2>4. \A n \in 1..NTask : w[n] = More(w[n - 1], n)
    <3>. SUFFICES ASSUME NEW n \in 1..NTask PROVE w[n] = More(w[n - 1], n)
      OBVIOUS
    <3>1. n - 1 \in 0..NTask
      OBVIOUS
    <3>. HIDE DEF S
    <3>2. w[n - 1] \in S
      BY <2>3, <3>1
    <3>. QED BY <2>3, <3>2
  <2>. HIDE DEF S
  <2>5. w = [n \in 0..NTask |-> IF n = 0 THEN {} ELSE More(w[n - 1], n)]
    BY <2>3, <2>4
  <2>. QED BY <2>5
<1>3. Good(F)
  BY <1>2
<1>4. ColorEnds(count, avg) = F[NTask]
  BY DEF ColorEnds, More
<1>5. \A n \in 0..NTask : F[n] = IF n = 0 THEN {} ELSE More(F[n - 1], n)
  <2>. HIDE DEF F
  <2>. QED BY <1>3
<1>. HIDE DEF F, Good, step
<1>. DEFINE T == {n \in Nat : n <= NTask => F[n] \in S}
<1>6. 0 \in T
  BY <1>5
<1>7. ASSUME NEW n \in Nat, n \in T PROVE n + 1 \in T
  <2>. SUFFICES ASSUME n + 1 <= NTask PROVE F[n+1] \in S
    OBVIOUS
  <2>1. n <= NTask /\ F[n] \in S /\ n + 1 \in 1..NTask /\ n + 1 \in 0..NTask
        /\ (n + 1) - 1 = n /\ n + 1 # 0
    BY <1>7
  <2>2. F[n+1] = More(F[n], n + 1)
    BY <1>5, <2>1
  <2>. QED BY <1>1, <2>1, <2>2
<1>8. NTask \in T
  <2>. HIDE DEF T
  <2>. QED BY <1>6, <1>7, NatSetInduction
<1>. QED BY <1>4, <1>8

\* The colors count up with the ranks.
LEMMA ColorFacts ==
  ASSUME NTask \in Nat \ {0}, NEW ends \in SUBSET Ranks
  PROVE  /\ \A r \in Ranks : Color(ends, r) \in 0..NTask
         /\ \A r, q \in Ranks : r <= q => Color(ends, r) <= Color(ends, q)
<1>1. IsFiniteSet(Ranks) /\ Cardinality(Ranks) = NTask
  <2>1. NTask - 1 \in Int /\ 0 \in Int /\ (NTask - 1) - 0 + 1 = NTask /\ ~(0 > NTask - 1)
    OBVIOUS
  <2>2. IsFiniteSet(0..(NTask - 1)) /\ Cardinality(0..(NTask - 1)) = (NTask - 1) - 0 + 1
    BY <2>1, FS_Interval
  <2>. QED BY <2>1, <2>2 DEF Ranks
<1>2. ASSUME NEW r \in Ranks PROVE Color(ends, r) \in 0..NTask
  <2>. DEFINE X == {e \in ends : e < r}
  <2>1. X \in SUBSET Ranks
    OBVIOUS
  <2>. HIDE DEF X
  <2>2. Cardinality(X) \in Nat /\ Cardinality(X) <= NTask
    BY <1>1, <2>1, FS_Subset, FS_CardinalityType
  <2>. QED BY <2>2 DEF Color, X
<1>3. ASSUME NEW r \in Ranks, NEW q \in Ranks, r <= q
      PROVE  Color(ends, r) <= Color(ends, q)
  <2>. DEFINE X == {e \in ends : e < r}
              Y == {e \in ends : e < q}
  <2>1. Y \in SUBSET Ranks /\ X \in SUBSET Y
    <3>1. \A e \in ends : e \in Int /\ e \in Ranks
      BY DEF Ranks
    <3>2. r \in Int /\ q \in Int
      BY DEF Ranks
    <3>3. \A e \in ends : e < r => e < q
      BY <1>3, <3>1, <3>2
    <3>. QED BY <3>1, <3>3
  <2>. HIDE DEF X, Y
  <2>2. IsFiniteSet(Y)
    BY <1>1, <2>1, FS_Subset
  <2>3. Cardinality(X) <= Cardinality(Y)
    BY <2>1, <2>2, FS_Subset
  <2>. QED BY <2>3 DEF Color, X, Y
<1>. QED BY <1>2, <1>3

\* Ranks with rows are in segments one after the other, and a segment is in one
\* of the groups.  Ranks without rows are apart.
Segmented(s, count, concurrency) ==
  /\ \A r \in Ranks : count[r] = 0 => /\ s.ThisSegment[r] = NTask + 1
                                      /\ s.GroupID[r] = concurrency + 1
  /\ \A r \in Ranks : count[r] # 0 => /\ s.ThisSegment[r] \in 0..NTask
                                      /\ s.GroupID[r] \in 0..(concurrency - 1)
  /\ \A r, q \in Ranks :
       count[r] # 0 /\ count[q] # 0 =>
         /\ s.ThisSegment[r] = s.ThisSegment[q] => s.GroupID[r] = s.GroupID[q]
         /\ s.ThisSegment[r] < s.ThisSegment[q] => r < q
  /\ \A r \in Ranks : s.myoffset[r] = SumOf(count, 0..(r - 1))
  /\ s.totalsize = SumOf(count, Ranks)
  /\ DOMAIN s.GroupID = Ranks

\* The segmenter divides them so.
LEMMA SegmenterFacts ==
  ASSUME NTask \in Nat \ {0}, NEW count \in [Ranks -> Nat], NEW concurrency \in Nat \ {0}
  PROVE  Segmented(Segmenter_init(count, concurrency), count, concurrency)
<1>. DEFINE s     == Segmenter_init(count, concurrency)
            sizes == collect_sizes(count)
            ends  == ColorEnds(count, avgsegsize(sizes.totalsize, concurrency))
            Nsegments == Color(ends, NTask - 1) + 1
            segment   == [r \in Ranks |-> IF count[r] = 0 THEN NTask + 1 ELSE Color(ends, r)]
            GroupID   == [r \in Ranks |-> IF count[r] = 0 THEN concurrency + 1
                                       ELSE GroupOf(segment[r], Nsegments, concurrency)]
<1>1. /\ s.ThisSegment = segment /\ s.GroupID = GroupID
      /\ s.myoffset = sizes.myoffset /\ s.totalsize = sizes.totalsize
  BY DEF Segmenter_init
<1>2. /\ \A r \in Ranks : sizes.myoffset[r] = SumOf(count, 0..(r - 1))
      /\ sizes.totalsize = SumOf(count, Ranks)
  BY DEF collect_sizes
<1>3. ends \in SUBSET Ranks
  BY ColorEndsType
<1>. HIDE DEF s, sizes, ends
<1>4. /\ \A r \in Ranks : Color(ends, r) \in 0..NTask
      /\ \A r, q \in Ranks : r <= q => Color(ends, r) <= Color(ends, q)
  BY <1>3, ColorFacts
<1>5. Nsegments \in Nat \ {0} /\ \A r \in Ranks : Color(ends, r) < Nsegments
  <2>1. NTask - 1 \in Ranks /\ \A r \in Ranks : r <= NTask - 1
    BY DEF Ranks
  <2>. QED BY <1>4, <2>1
<1>. HIDE DEF Nsegments
<1>6. ASSUME NEW r \in Ranks
      PROVE  GroupOf(Color(ends, r), Nsegments, concurrency) \in 0..(concurrency - 1)
  <2>1. Color(ends, r) \in 0..Nsegments /\ Color(ends, r) < Nsegments
    BY <1>4, <1>5
  <2>2. /\ Scaled(Color(ends, r), concurrency, Nsegments) \in 0..concurrency
        /\ Scaled(Color(ends, r), concurrency, Nsegments) < concurrency
    BY <1>5, <2>1, ScaleBounds
  <2>. QED BY <2>2 DEF GroupOf, Scaled
<1>7. ASSUME NEW r \in Ranks, count[r] = 0
      PROVE  segment[r] = NTask + 1 /\ GroupID[r] = concurrency + 1
  BY <1>7
<1>8. ASSUME NEW r \in Ranks, count[r] # 0
      PROVE  /\ segment[r] = Color(ends, r)
             /\ GroupID[r] = GroupOf(Color(ends, r), Nsegments, concurrency)
  BY <1>8
<1>. HIDE DEF segment, GroupID
<1>9. ASSUME NEW r \in Ranks, NEW q \in Ranks, count[r] # 0, count[q] # 0
      PROVE  /\ segment[r] = segment[q] => GroupID[r] = GroupID[q]
             /\ segment[r] < segment[q] => r < q
  <2>1. segment[r] = segment[q] => GroupID[r] = GroupID[q]
    BY <1>8, <1>9
  <2>2. segment[r] < segment[q] => r < q
    <3>1. q <= r => Color(ends, q) <= Color(ends, r)
      BY <1>4
    <3>2. Color(ends, q) \in Int /\ Color(ends, r) \in Int /\ q \in Int /\ r \in Int
      BY <1>4 DEF Ranks
    <3>3. segment[r] = Color(ends, r) /\ segment[q] = Color(ends, q)
      BY <1>8, <1>9
    <3>. QED BY <3>1, <3>2, <3>3
  <2>. QED BY <2>1, <2>2
<1>10. DOMAIN GroupID = Ranks
  BY DEF GroupID
<1>. QED BY <1>1, <1>2, <1>4, <1>6, <1>7, <1>8, <1>9, <1>10 DEF s, Segmented

----------------------------------------------------------------------------
(* The data of the run.                                                    *)

\* Min and Max of two numbers.
LEMMA MinMaxOfTwo ==
  ASSUME NEW a \in Int, NEW b \in Int
  PROVE  Min({a, b}) \in {a, b} /\ Max({a, b}) \in {a, b}
<1>1. IsFiniteSet({a, b})
  <2>1. IsFiniteSet({a}) /\ IsFiniteSet({a} \cup {b}) /\ {a} \cup {b} = {a, b}
    BY FS_AddElement, FS_Singleton
  <2>. QED BY <2>1
<1>. QED BY <1>1, MinMaxFacts

\* The least of three numbers.
LEMMA MinOfThree ==
  ASSUME NEW a \in Int, NEW b \in Int, NEW c \in Int
  PROVE  /\ Min({a, b, c}) \in {a, b, c}
         /\ Min({a, b, c}) <= a /\ Min({a, b, c}) <= b /\ Min({a, b, c}) <= c
<1>1. IsFiniteSet({a, b, c})
  <2>1. /\ IsFiniteSet({a}) /\ IsFiniteSet({a} \cup {b}) /\ IsFiniteSet({a} \cup {b} \cup {c})
        /\ {a} \cup {b} \cup {c} = {a, b, c}
    BY FS_AddElement, FS_Singleton
  <2>. QED BY <2>1
<1>2. Min({a, b, c}) \in {a, b, c} /\ \A y \in {a, b, c} : Min({a, b, c}) <= y
  BY <1>1, MinMaxFacts
<1>. QED BY <1>2

\* petaio_save_block asks for some number of files and of writers.
LEMMA FilesAndWritersType ==
  ASSUME starts \in 1..Len(Writers), NTask \in Nat \ {0}, NEW n \in Int
  PROVE  /\ FilesAndWriters(n).writers \in Int
         /\ n \in Nat => FilesAndWriters(n).files \in Nat
<1>. DEFINE NumWriters == IF Writers[starts] = 0 THEN NTask ELSE Writers[starts]
            files    == (n + BytesPerFile - 1) \div BytesPerFile
            writers  == Min({NumWriters, files * WritersPerFile})
            raised   == (MinNumWriters + WritersPerFile - 1) \div WritersPerFile
<1>1. /\ NumWriters \in Nat /\ BytesPerFile \in Nat \ {0} /\ WritersPerFile \in Nat \ {0}
      /\ MinNumWriters \in Nat
  BY SnapshotAssumption
<1>2. files \in Int /\ (n \in Nat => files \in Nat) /\ raised \in Nat
  BY <1>1, Z3
<1>. HIDE DEF files, raised, NumWriters
<1>3. files * WritersPerFile \in Int
  BY <1>1, <1>2, Z3
<1>4. writers \in Int /\ Max({writers, MinNumWriters}) \in Int
  <2>1. writers \in Int
    <3>. DEFINE v == files * WritersPerFile
    <3>1. v \in Int
      BY <1>3
    <3>. HIDE DEF v
    <3>2. Min({NumWriters, v}) \in {NumWriters, v}
      BY <1>1, <3>1, MinMaxOfTwo
    <3>3. Min({NumWriters, v}) \in Int
      BY <1>1, <3>1, <3>2
    <3>. QED BY <3>3 DEF v
  <2>. HIDE DEF writers
  <2>2. Max({writers, MinNumWriters}) \in {writers, MinNumWriters}
    BY <1>1, <2>1, MinMaxOfTwo
  <2>. QED BY <1>1, <2>1, <2>2
<1>. HIDE DEF writers
<1>5. FilesAndWriters(n).writers
        = IF EnableAggregatedIO THEN Max({writers, MinNumWriters}) ELSE NumWriters
  BY DEF FilesAndWriters, writers, files, NumWriters
<1>6. FilesAndWriters(n).files
        = IF n = 0 THEN 0
          ELSE IF ~EnableAggregatedIO THEN NumWriters
          ELSE IF writers < MinNumWriters THEN raised ELSE files
  BY DEF FilesAndWriters, writers, files, raised, NumWriters
<1>. QED BY <1>1, <1>2, <1>4, <1>5, <1>6

\* The table of a rank has positions.
Tables == \A r \in Ranks : DOMAIN parts[r] \in SUBSET Int /\ IsFiniteSet(DOMAIN parts[r])

\* So its particles of a type can be counted.
LEMMA CountsType ==
  ASSUME Tables, NEW t
  PROVE  Counts(t) \in [Ranks -> Nat]
<1>1. ASSUME NEW r \in Ranks PROVE Len(petaio_build_selection(r, t)) \in Nat
  <2>. DEFINE S == {i \in DOMAIN parts[r] : ~parts[r][i].IsGarbage /\ parts[r][i].Type = t}
  <2>1. S \in SUBSET DOMAIN parts[r] /\ S \in SUBSET Int /\ IsFiniteSet(DOMAIN parts[r])
    BY DEF Tables
  <2>. HIDE DEF S
  <2>2. IsFiniteSet(S)
    BY <2>1, FS_Subset
  <2>3. Cardinality(S) \in Nat /\ InOrder(S) \in [1..Cardinality(S) -> S]
    BY <2>1, <2>2, InOrderProperties
  <2>4. Len(InOrder(S)) \in Nat
    BY <2>3
  <2>. QED BY <2>4 DEF petaio_build_selection, S
<1>. QED BY <1>1 DEF Counts

\* Attributes, and the lines they are written as.
Attr == [name : Int, data : Seq(Int)]
Line == Int \X Nat \X Seq(Int)

\* A set of attributes stays one when an attribute is set.
LEMMA SetAttrType ==
  ASSUME NEW attrs \in Seq(Attr), NEW name \in Int, NEW data \in Seq(Int)
  PROVE  attrset_set_attr(attrs, name, data) \in Seq(Attr)
<1>1. \A S \in SUBSET (1..Len(attrs)) : SelectAt(attrs, S) \in Seq(Attr)
  BY SelectAtProperties
<1>2. /\ SelectAt(attrs, {i \in DOMAIN attrs : attrs[i].name < name}) \in Seq(Attr)
      /\ SelectAt(attrs, {i \in DOMAIN attrs : attrs[i].name > name}) \in Seq(Attr)
  BY <1>1
<1>3. <<[name |-> name, data |-> data]>> \in Seq(Attr)
  BY DEF Attr
<1>. HIDE DEF Attr
<1>. QED BY <1>2, <1>3 DEF attrset_set_attr

\* What is written of a set of attributes are lines.
LEMMA WriteAttrsType ==
  ASSUME NEW attrs \in Seq(Attr)
  PROVE  attrset_write_attr_set_v2(attrs) \in Seq(Line)
<1>1. \A i \in DOMAIN attrs : attrs[i].name \in Int /\ attrs[i].data \in Seq(Int)
  <2>1. \A i \in DOMAIN attrs : attrs[i] \in Attr
    OBVIOUS
  <2>. QED BY <2>1 DEF Attr
<1>2. \A i \in DOMAIN attrs : <<attrs[i].name, Len(attrs[i].data), attrs[i].data>> \in Line
  BY <1>1 DEF Line
<1>3. DOMAIN attrs = 1..Len(attrs) /\ Len(attrs) \in Nat
  OBVIOUS
<1>. HIDE DEF Line, Attr
<1>. QED BY <1>2, <1>3 DEF attrset_write_attr_set_v2

\* What is read of lines is a set of attributes.
LEMMA ReadAttrsType ==
  ASSUME NEW lines \in Seq(Line)
  PROVE  attrset_read_attr_set_v2(lines) \in Seq(Attr)
<1>. DEFINE S       == Seq(Attr)
            N       == Len(lines)
            Read(a, i) == attrset_set_attr(a, lines[i][1], lines[i][3])
            step    == [x \in S \X (1..N) |-> Read(x[1], x[2])]
            Good(w) == w = [i \in 0..N |-> IF i = 0 THEN <<>> ELSE Read(w[i - 1], i)]
            F       == CHOOSE w : Good(w)
<1>1. N \in Nat /\ \A a \in S, i \in 1..N : Read(a, i) \in S
  <2>1. \A i \in 1..N : lines[i][1] \in Int /\ lines[i][3] \in Seq(Int)
    BY DEF Line
  <2>. QED BY <2>1, SetAttrType
<1>a. <<>> \in S
  OBVIOUS
<1>. HIDE DEF Read, S, N
<1>2. \E w : Good(w)
  <2>1. step \in [S \X (1..N) -> S]
    BY <1>1
  <2>2. PICK w : Unfolds(w, S, N, <<>>, step)
    <3>. HIDE DEF step
    <3>. QED BY <1>1, <1>a, <2>1, RecurrenceExists
  <2>3. w \in [0..N -> S] /\ w[0] = <<>> /\ \A i \in 1..N : w[i] = step[<<w[i - 1], i>>]
    BY <2>2 DEF Unfolds
  <2>4. \A i \in 1..N : w[i] = Read(w[i - 1], i)
    <3>. SUFFICES ASSUME NEW i \in 1..N PROVE w[i] = Read(w[i - 1], i)
      OBVIOUS
    <3>1. i - 1 \in 0..N
      BY <1>1
    <3>2. w[i - 1] \in S
      BY <2>3, <3>1
    <3>. QED BY <2>3, <3>2
  <2>5. w = [i \in 0..N |-> IF i = 0 THEN <<>> ELSE Read(w[i - 1], i)]
    BY <1>1, <2>3, <2>4
  <2>. QED BY <2>5
<1>3. Good(F)
  BY <1>2
<1>4. attrset_read_attr_set_v2(lines) = F[N]
  BY DEF attrset_read_attr_set_v2, Read, N
<1>5. \A i \in 0..N : F[i] = IF i = 0 THEN <<>> ELSE Read(F[i - 1], i)
  <2>. HIDE DEF F
  <2>. QED BY <1>3
<1>. HIDE DEF F, Good, step
<1>. DEFINE T == {i \in Nat : i <= N => F[i] \in S}
<1>6. 0 \in T
  BY <1>1, <1>a, <1>5
<1>7. ASSUME NEW i \in Nat, i \in T PROVE i + 1 \in T
  <2>. SUFFICES ASSUME i + 1 <= N PROVE F[i+1] \in S
    OBVIOUS
  <2>1. i <= N /\ F[i] \in S /\ i + 1 \in 1..N /\ i + 1 \in 0..N
        /\ (i + 1) - 1 = i /\ i + 1 # 0
    BY <1>1, <1>7
  <2>2. F[i+1] = Read(F[i], i + 1)
    BY <1>5, <2>1
  <2>. QED BY <1>1, <2>1, <2>2
<1>8. N \in T
  <2>. HIDE DEF T
  <2>. QED BY <1>1, <1>6, <1>7, NatSetInduction
<1>9. F[N] \in S
  BY <1>1, <1>8
<1>. QED BY <1>4, <1>9 DEF S

\* So the numbers of particles in a header are numbers.
LEMMA ReadNTotalType ==
  ASSUME header \in Seq(Line)
  PROVE  ReadNTotal \in [Types -> Int]
<1>. DEFINE attrs == attrset_read_attr_set_v2(header)
            found == {i \in attrset_lookup_attr(attrs, TotNumPart) : Len(attrs[i].data) = 3}
            counts == attrset_get_attr(attrs, TotNumPart, 3, <<0, 0, 0>>)
<1>1. attrs \in Seq(Attr)
  BY ReadAttrsType
<1>. HIDE DEF attrs
<1>2. counts \in Seq(Int) /\ Len(counts) = 3
  <2>1. CASE found = {}
    <3>1. counts = <<0, 0, 0>>
      BY <2>1 DEF attrset_get_attr
    <3>. HIDE DEF counts
    <3>. QED BY <3>1
  <2>2. CASE found # {}
    <3>1. found \in SUBSET (1..Len(attrs)) /\ found \in SUBSET Int /\ Len(attrs) \in Nat
      BY <1>1 DEF attrset_lookup_attr
    <3>2. IsFiniteSet(found)
      <4>. HIDE DEF found
      <4>1. IsFiniteSet(1..Len(attrs))
        BY <3>1, FS_Interval
      <4>. QED BY <3>1, <4>1, FS_Subset
    <3>3. Min(found) \in found
      <4>. HIDE DEF found
      <4>. QED BY <2>2, <3>1, <3>2, MinMaxFacts
    <3>4. counts = attrs[Min(found)].data
      BY <2>2 DEF attrset_get_attr
    <3>5. PICK i \in 1..Len(attrs) : i = Min(found) /\ Len(attrs[i].data) = 3
      BY <3>1, <3>3
    <3>6. attrs[i].data \in Seq(Int)
      <4>1. attrs[i] \in Attr
        BY <1>1
      <4>. QED BY <4>1 DEF Attr
    <3>. HIDE DEF counts, found
    <3>. QED BY <3>4, <3>5, <3>6
  <2>. QED BY <2>1, <2>2
<1>. HIDE DEF counts
<1>3. \A i \in 1..3 : counts[i] \in Int
  <2>1. \A i \in 1..Len(counts) : counts[i] \in Int
    BY <1>2, ElementOfSeq, Zenon
  <2>. QED BY <1>2, <2>1
<1>4. ReadNTotal = [t \in Types |-> counts[IF t = 4 THEN 3 ELSE t + 1]]
  BY DEF ReadNTotal, counts, attrs
<1>5. \A t \in Types : (IF t = 4 THEN 3 ELSE t + 1) \in 1..3
  BY DEF Types
<1>. QED BY <1>3, <1>4, <1>5

\* The table a run sets up for them is a sequence.
LEMMA TopologyType ==
  ASSUME NEW r \in Nat, NEW n \in Nat \ {0}, NEW total \in [Types -> Int]
  PROVE  DOMAIN Topology(r, total, n) \in SUBSET Int /\ IsFiniteSet(DOMAIN Topology(r, total, n))
<1>. DEFINE U == {Unset(0), Unset(1), Unset(4)}
            OfKind(t) == [i \in 1..NLocal(r, total[t], n) |-> Unset(t)]
<1>1. ASSUME NEW t \in Types PROVE OfKind(t) \in Seq(U)
  <2>1. NLocal(r, total[t], n) \in Int
    <3>1. \A x \in Int : x \div n \in Int
      BY Z3
    <3>2. PICK m \in Int : m = total[t]
      OBVIOUS
    <3>3. (r + 1) * m \in Int /\ r * m \in Int
      BY Z3
    <3>4. ((r + 1) * m) \div n \in Int /\ (r * m) \div n \in Int
      BY <3>1, <3>3
    <3>. QED BY <3>2, <3>4 DEF NLocal
  <2>2. PICK k \in Int : k = NLocal(r, total[t], n)
    BY <2>1
  <2>3. PICK v \in U : v = Unset(t)
    BY DEF Types
  <2>4. OfKind(t) = [i \in 1..k |-> v]
    BY <2>2, <2>3
  <2>. HIDE DEF OfKind, U
  <2>5. [i \in 1..k |-> v] \in Seq(U)
    <3>1. CASE k >= 0
      BY <3>1
    <3>2. CASE k < 0
      <4>1. [i \in 1..k |-> v] = <<>>
        BY <3>2
      <4>. QED BY <4>1
    <3>. QED BY <3>1, <3>2
  <2>. QED BY <2>4, <2>5
<1>2. OfKind(0) \in Seq(U) /\ OfKind(1) \in Seq(U) /\ OfKind(4) \in Seq(U)
  BY <1>1 DEF Types
<1>3. Topology(r, total, n) = OfKind(0) \o OfKind(1) \o OfKind(4)
  BY DEF Topology
<1>. HIDE DEF OfKind, U
<1>4. Topology(r, total, n) \in Seq(U)
  BY <1>2, <1>3
<1>5. Len(Topology(r, total, n)) \in Nat
      /\ DOMAIN Topology(r, total, n) = 1..Len(Topology(r, total, n))
  BY <1>4
<1>6. IsFiniteSet(1..Len(Topology(r, total, n)))
  BY <1>5, FS_Interval
<1>. QED BY <1>5, <1>6

----------------------------------------------------------------------------
(* The inductive invariant.                                                *)

\* The phases of a call up to its transfer.
Busy == {"create", "open", "truncate", "transfer"}

\* The call has rows of each rank, which are in order.
CallInv ==
  /\ op.count \in [Ranks -> Nat]
  /\ op.concurrency \in Nat \ {0}
  /\ Segmented(op.seggrp, op.count, op.concurrency)

\* All ranks have the same files.
BlockInv ==
  /\ bb[0].fsize \in Seq(Nat)
  /\ DOMAIN bb = Ranks
  /\ \A r \in Ranks : "fsize" \in DOMAIN bb[r] /\ bb[r].fsize = bb[0].fsize

\* Where the leader of group g is in the block.
At(g) == foffset(bb[0].fsize, group[g].ptr.fileid) + group[g].ptr.roffset

Fields == {"segment", "moving", "ptr", "buf", "todo", "e"}

\* What it still has to move is the rest of the segment.
SegmentInv(g) ==
  LET ranks == InSegment(g, group[g].segment)
      first == SegmentOffset(ranks)
      size  == SumOf(op.count, ranks)
  IN /\ DOMAIN group[g] = Fields
     /\ group[g].moving =>
          /\ ranks # {}
          /\ group[g].todo \in Nat
          /\ group[g].todo > 0 /\ group[g].e = 0 =>
               /\ bb[0].fsize # <<>>
               /\ group[g].ptr.fileid \in 1..Len(bb[0].fsize)
               /\ group[g].ptr.roffset \in 0..bb[0].fsize[group[g].ptr.fileid]
               /\ first <= At(g)
               /\ At(g) + group[g].todo = first + size
               /\ first + size <= SizeOf(bb[0].fsize)

\* What holds while a call is under way.
IOInv ==
  /\ phase \in Busy => CallInv
  /\ phase \in {"truncate", "transfer"} => BlockInv
  /\ phase = "transfer" => DOMAIN group = Groups /\ \A g \in Groups : SegmentInv(g)

\* Each block of the directory has a header.
DiskInv == \A n \in DOMAIN disk : "fsize" \in DOMAIN disk[n] /\ disk[n].fsize \in Seq(Nat)

\* There is a call only while blocks are saved or read.
RunInv ==
  /\ NTask \in Nat \ {0}
  /\ pc \notin {"saving", "reading"} => phase = "idle"
  /\ starts \in 0..Len(Writers) /\ (pc # "dead" => starts # 0)
  /\ block \in Nat /\ (pc \in {"saving", "reading"} => block # 0)
  /\ NTotal \in [Types -> Int]
  /\ header \in Seq(Line)
  /\ Tables

\* The inductive invariant.
SnapInv == RunInv /\ DiskInv /\ IOInv

\* The ranks of a segment.
LEMMA SegmentRanks ==
  ASSUME NTask \in Nat \ {0}, CallInv, NEW g \in Groups, NEW s
  PROVE  /\ IsFiniteSet(Ranks) /\ Ranks \in SUBSET Int /\ 0 \in Ranks
         /\ Members(g) \in SUBSET Ranks /\ Min(Members(g)) \in Ranks
         /\ InSegment(g, s) \in SUBSET Ranks
         /\ SumOf(op.count, InSegment(g, s)) \in Nat
         /\ InSegment(g, s) # {} =>
              /\ Min(InSegment(g, s)) \in InSegment(g, s)
              /\ \A r \in InSegment(g, s) : Min(InSegment(g, s)) <= r
              /\ segment_leader(InSegment(g, s)) \in Ranks
              /\ SegmentOffset(InSegment(g, s)) \in Nat
              /\ SegmentOffset(InSegment(g, s))
                   = SumOf(op.count, 0..(Min(InSegment(g, s)) - 1))
<1>1. IsFiniteSet(Ranks) /\ Ranks \in SUBSET Int /\ 0 \in Ranks
  <2>1. NTask - 1 \in Int
    OBVIOUS
  <2>2. IsFiniteSet(0..(NTask - 1))
    BY <2>1, FS_Interval
  <2>. QED BY <2>2 DEF Ranks
<1>2. Members(g) \in SUBSET Ranks /\ InSegment(g, s) \in SUBSET Ranks
  BY DEF Members, InSegment
<1>3. Members(g) # {}
  BY DEF Groups, Range, Members, CallInv, Segmented
<1>4. \A X \in SUBSET Ranks : X # {} => /\ Min(X) \in X /\ Min(X) \in Ranks
                                        /\ \A r \in X : Min(X) <= r
  <2>. SUFFICES ASSUME NEW X \in SUBSET Ranks, X # {}
                PROVE  Min(X) \in X /\ Min(X) \in Ranks /\ \A r \in X : Min(X) <= r
    OBVIOUS
  <2>1. IsFiniteSet(X) /\ X \in SUBSET Int
    BY <1>1, FS_Subset
  <2>2. Min(X) \in X /\ \A r \in X : Min(X) <= r
    BY <2>1, MinMaxFacts
  <2>. QED BY <2>2
<1>5. SumOf(op.count, InSegment(g, s)) \in Nat
  BY <1>2, SumOfFacts DEF CallInv
<1>6. ASSUME InSegment(g, s) # {}
      PROVE  segment_leader(InSegment(g, s)) \in Ranks
  <2>. DEFINE X == InSegment(g, s)
              C == {op.count[r] : r \in X}
              L == {r \in X : \A q \in X : op.count[r] <= op.count[q]}
  <2>1. IsFiniteSet(X) /\ X # {} /\ X \in SUBSET Ranks
    BY <1>1, <1>2, <1>6, FS_Subset
  <2>. HIDE DEF X
  <2>2. C \subseteq Nat /\ C # {}
    BY <2>1 DEF CallInv
  <2>4. PICK m \in C : \A y \in C : m <= y
    <3>. HIDE DEF C
    <3>. QED BY <2>2, LeastNat
  <2>5. PICK r \in X : op.count[r] = m
    OBVIOUS
  <2>6. r \in L
    BY <2>4, <2>5
  <2>7. L \in SUBSET Ranks /\ L # {}
    BY <2>1, <2>6
  <2>. HIDE DEF L
  <2>8. Min(L) \in Ranks
    BY <1>4, <2>7
  <2>. QED BY <2>8 DEF segment_leader, L, X
<1>7. ASSUME InSegment(g, s) # {}
      PROVE  /\ SegmentOffset(InSegment(g, s)) \in Nat
             /\ SegmentOffset(InSegment(g, s)) = SumOf(op.count, 0..(Min(InSegment(g, s)) - 1))
  <2>1. PICK m \in Ranks : m = Min(InSegment(g, s))
    BY <1>2, <1>4, <1>7
  <2>2. SegmentOffset(InSegment(g, s)) = SumOf(op.count, 0..(m - 1))
    BY <2>1 DEF SegmentOffset, myoffset, CallInv, Segmented
  <2>3. 0..(m - 1) \in SUBSET Ranks
    BY DEF Ranks
  <2>4. SumOf(op.count, 0..(m - 1)) \in Nat
    BY <2>3, SumOfFacts DEF CallInv
  <2>. QED BY <2>1, <2>2, <2>4
<1>. QED BY <1>1, <1>2, <1>3, <1>4, <1>5, <1>6, <1>7

\* Two leaders are apart, and there are not more of them than the call allows.
LEMMA InvApart ==
  ASSUME SnapInv
  PROVE  WritersApart
<1>. SUFFICES ASSUME phase = "transfer"
              PROVE  /\ Cardinality(AtWork) <= op.concurrency
                     /\ \A g, h \in AtWork : g # h => RowsLeft(g) \cap RowsLeft(h) = {}
  BY DEF WritersApart
<1>1. /\ NTask \in Nat \ {0} /\ CallInv /\ BlockInv /\ DOMAIN group = Groups
      /\ \A g \in Groups : SegmentInv(g)
  BY DEF SnapInv, RunInv, IOInv, Busy
<1>. DEFINE first(g) == SegmentOffset(InSegment(g, group[g].segment))
            size(g)  == SumOf(op.count, InSegment(g, group[g].segment))
            seg(g)   == group[g].segment
<1>2. ASSUME NEW g \in AtWork
      PROVE  /\ g \in Groups /\ InSegment(g, seg(g)) # {}
             /\ InSegment(g, seg(g)) \in SUBSET Ranks
             /\ first(g) \in Nat /\ size(g) \in Nat \ {0}
             /\ At(g) \in Int /\ first(g) <= At(g) /\ group[g].todo \in Nat
             /\ At(g) + group[g].todo = first(g) + size(g)
  <2>1. g \in Groups /\ group[g].moving /\ group[g].todo > 0 /\ group[g].e = 0
    BY <1>1 DEF AtWork
  <2>2. /\ InSegment(g, seg(g)) # {} /\ group[g].todo \in Nat
        /\ group[g].ptr.fileid \in 1..Len(bb[0].fsize)
        /\ group[g].ptr.roffset \in 0..bb[0].fsize[group[g].ptr.fileid]
        /\ first(g) <= At(g)
        /\ At(g) + group[g].todo = first(g) + size(g)
    BY <1>1, <2>1 DEF SegmentInv
  <2>3. InSegment(g, seg(g)) \in SUBSET Ranks /\ first(g) \in Nat /\ size(g) \in Nat
    BY <1>1, <2>1, <2>2, SegmentRanks
  <2>4. At(g) \in Int
    <3>1. PICK f \in 1..(Len(bb[0].fsize) + 1) : f = group[g].ptr.fileid
      BY <2>2 DEF BlockInv
    <3>2. foffset(bb[0].fsize, f) \in Nat
      BY <1>1, <3>1, FileOffsets DEF BlockInv
    <3>. QED BY <2>2, <3>1, <3>2 DEF At
  <2>. HIDE DEF first, size
  <2>5. size(g) # 0
    BY <2>1, <2>2, <2>3, <2>4
  <2>. QED BY <2>1, <2>2, <2>3, <2>4, <2>5
<1>3. ASSUME NEW g \in AtWork
      PROVE  /\ g \in 0..(op.concurrency - 1)
             /\ \A r \in InSegment(g, seg(g)) :
                  op.count[r] # 0 /\ op.seggrp.ThisSegment[r] = seg(g) /\ op.seggrp.GroupID[r] = g
  <2>. DEFINE X == InSegment(g, seg(g))
  <2>1. \A r \in X : r \in Ranks /\ op.seggrp.ThisSegment[r] = seg(g) /\ op.seggrp.GroupID[r] = g
    BY DEF InSegment, Members
  <2>2. X \in SUBSET Ranks /\ SumOf(op.count, X) \in Nat \ {0}
    BY <1>2
  <2>. HIDE DEF X
  <2>3. PICK q \in X : op.count[q] # 0
    BY <1>1, <2>2, SumOfFacts DEF CallInv
  <2>4. g \in 0..(op.concurrency - 1) /\ seg(g) \in 0..NTask
    BY <1>1, <2>1, <2>3, Zenon DEF CallInv, Segmented
  <2>5. ASSUME NEW r \in X PROVE op.count[r] # 0
    <3>1. op.count[r] = 0 => seg(g) = NTask + 1
      BY <1>1, <2>1 DEF CallInv, Segmented
    <3>. QED BY <1>1, <2>4, <3>1
  <2>. QED BY <2>1, <2>4, <2>5 DEF X
<1>4. Cardinality(AtWork) <= op.concurrency
  <2>1. AtWork \in SUBSET (0..(op.concurrency - 1)) /\ op.concurrency - 1 \in Int
        /\ op.concurrency \in Nat \ {0}
    BY <1>1, <1>3 DEF CallInv
  <2>2. IsFiniteSet(0..(op.concurrency - 1)) /\ Cardinality(0..(op.concurrency - 1)) = op.concurrency
    BY <2>1, FS_Interval
  <2>. QED BY <2>1, <2>2, FS_Subset
<1>5. ASSUME NEW g \in AtWork, NEW h \in AtWork, seg(g) < seg(h)
      PROVE  first(g) + size(g) <= first(h)
  <2>. DEFINE X == InSegment(g, seg(g))
              Y == InSegment(h, seg(h))
              a == Min(X)
              b == Min(Y)
  <2>1. X \in SUBSET Ranks /\ Y \in SUBSET Ranks /\ a \in X /\ b \in Y /\ \A r \in X : a <= r
    BY <1>1, <1>2, SegmentRanks
  <2>2. first(g) = SumOf(op.count, 0..(a - 1)) /\ first(h) = SumOf(op.count, 0..(b - 1))
    BY <1>1, <1>2, SegmentRanks
  <2>3. ASSUME NEW r \in X PROVE r < b
    <3>1. r \in Ranks /\ b \in Ranks
      BY <2>1
    <3>2. op.count[r] # 0 /\ op.seggrp.ThisSegment[r] = seg(g)
      BY <1>3
    <3>3. op.count[b] # 0 /\ op.seggrp.ThisSegment[b] = seg(h)
      BY <1>3, <2>1
    <3>. HIDE DEF seg, X, Y, a, b
    <3>. QED BY <1>1, <1>5, <3>1, <3>2, <3>3 DEF CallInv, Segmented
  <2>4. size(g) = SumOf(op.count, X)
    OBVIOUS
  <2>. HIDE DEF X, Y, a, b, first, size, seg
  <2>5. /\ 0..(a - 1) \in SUBSET Ranks /\ 0..(b - 1) \in SUBSET Ranks
        /\ (0..(a - 1)) \cap X = {} /\ (0..(a - 1)) \cup X \subseteq 0..(b - 1)
        /\ (0..(a - 1)) \cup X \in SUBSET Ranks
    BY <1>1, <2>1, <2>3 DEF Ranks
  <2>6. PICK A \in SUBSET Ranks, B \in SUBSET Ranks : A = 0..(a - 1) /\ B = 0..(b - 1)
    BY <2>5
  <2>7. SumOf(op.count, A \cup X) = SumOf(op.count, A) + SumOf(op.count, X)
    BY <1>1, <2>1, <2>5, <2>6, SumOfFacts DEF CallInv
  <2>8. SumOf(op.count, A \cup X) <= SumOf(op.count, B)
    <3>1. A \cup X \in SUBSET Ranks /\ A \cup X \subseteq B
      BY <2>5, <2>6
    <3>. QED BY <1>1, <3>1, SumOfFacts DEF CallInv
  <2>. QED BY <2>2, <2>4, <2>6, <2>7, <2>8
<1>6. ASSUME NEW g \in AtWork, NEW h \in AtWork, seg(g) = seg(h)
      PROVE  g = h
  <2>1. PICK r \in Ranks : op.count[r] # 0 /\ op.seggrp.ThisSegment[r] = seg(g) /\ op.seggrp.GroupID[r] = g
    BY <1>2, <1>3
  <2>2. PICK q \in Ranks : op.count[q] # 0 /\ op.seggrp.ThisSegment[q] = seg(h) /\ op.seggrp.GroupID[q] = h
    BY <1>2, <1>3
  <2>. QED BY <1>1, <1>6, <2>1, <2>2 DEF CallInv, Segmented
<1>7. ASSUME NEW g \in AtWork, NEW h \in AtWork, seg(g) < seg(h)
      PROVE  RowsLeft(g) \cap RowsLeft(h) = {}
  <2>1. RowsLeft(g) = At(g)..(At(g) + group[g].todo - 1)
        /\ RowsLeft(h) = At(h)..(At(h) + group[h].todo - 1)
    BY DEF RowsLeft, At
  <2>2. At(g) + group[g].todo <= At(h)
    <3>1. At(g) + group[g].todo = first(g) + size(g) /\ first(h) <= At(h) /\ At(h) \in Int
          /\ first(h) \in Nat /\ first(g) \in Nat /\ size(g) \in Nat
      BY <1>2
    <3>2. first(g) + size(g) <= first(h)
      BY <1>5, <1>7
    <3>. HIDE DEF first, size
    <3>. QED BY <3>1, <3>2
  <2>3. At(g) \in Int /\ At(h) \in Int /\ group[g].todo \in Nat /\ group[h].todo \in Nat
    BY <1>2
  <2>. QED BY <2>1, <2>2, <2>3
<1>8. ASSUME NEW g \in AtWork PROVE seg(g) \in Int
  <2>1. PICK r \in Ranks : op.count[r] # 0 /\ op.seggrp.ThisSegment[r] = seg(g)
    BY <1>2, <1>3
  <2>2. op.seggrp.ThisSegment[r] \in 0..NTask
    BY <1>1, <2>1 DEF CallInv, Segmented
  <2>. QED BY <1>1, <2>1, <2>2
<1>9. ASSUME NEW g \in AtWork, NEW h \in AtWork, g # h
      PROVE  RowsLeft(g) \cap RowsLeft(h) = {}
  <2>1. seg(g) # seg(h)
    BY <1>6, <1>9
  <2>2. seg(g) \in Int /\ seg(h) \in Int
    BY <1>8
  <2>3. seg(g) < seg(h) \/ seg(h) < seg(g)
    <3>. HIDE DEF seg
    <3>. QED BY <2>1, <2>2
  <2>4. RowsLeft(g) \cap RowsLeft(h) = {} \/ RowsLeft(h) \cap RowsLeft(g) = {}
    BY <1>7, <2>3
  <2>. QED BY <2>4
<1>. QED BY <1>4, <1>9

----------------------------------------------------------------------------
(* The steps of a call.                                                    *)

\* The numbers of ranks are positive.
LEMMA TasksPositive == WriteTasks \in Nat \ {0} /\ ReadTasks \in Nat \ {0}
<1>1. WriteTasks \in Nat
  BY SnapshotAssumption, FS_CardinalityType DEF WriteTasks
<1>2. DOMAIN Particles # {} /\ DOMAIN Particles = 0..(WriteTasks - 1)
  BY SnapshotAssumption
<1>. QED BY <1>1, <1>2, SnapshotAssumption

\* A run begins with no call and an empty disk.
LEMMA SnapInit == Init => SnapInv
<1>. SUFFICES ASSUME Init PROVE SnapInv
  OBVIOUS
<1>1. RunInv
  <2>1. NTask \in Nat \ {0} /\ parts = Particles /\ Ranks = DOMAIN Particles
    BY TasksPositive, SnapshotAssumption DEF Init, Ranks
  <2>2. Tables
    <3>. SUFFICES ASSUME NEW r \in Ranks
                  PROVE  DOMAIN parts[r] \in SUBSET Int /\ IsFiniteSet(DOMAIN parts[r])
      BY DEF Tables
    <3>1. parts[r] \in Seq(Particle)
      BY <2>1, SnapshotAssumption
    <3>2. DOMAIN parts[r] = 1..Len(parts[r]) /\ Len(parts[r]) \in Nat
      BY <3>1
    <3>3. IsFiniteSet(1..Len(parts[r]))
      BY <3>2, FS_Interval
    <3>. QED BY <3>2, <3>3
  <2>3. header \in Seq(Line) /\ NTotal \in [Types -> Int]
    BY DEF Init
  <2>4. Len(Writers) \in Nat
    BY SnapshotAssumption
  <2>. QED BY <2>1, <2>2, <2>3, <2>4 DEF Init, RunInv
<1>2. DiskInv
  BY DEF Init, DiskInv
<1>3. IOInv
  BY DEF Init, IOInv, Busy
<1>. QED BY <1>1, <1>2, <1>3 DEF SnapInv

\* What the groups of a call are about does not change while it runs.
LEMMA SegmentKept ==
  ASSUME NEW g, SegmentInv(g), UNCHANGED <<NTask, op>>, bb[0]'.fsize = bb[0].fsize,
         group'[g] = group[g]
  PROVE  SegmentInv(g)'
<1>1. /\ \A s : InSegment(g, s)' = InSegment(g, s)
      /\ op' = op /\ bb'[0].fsize = bb[0].fsize
  BY DEF InSegment, Members, Ranks
<1>2. \A X : SegmentOffset(X)' = SegmentOffset(X)
  BY <1>1 DEF SegmentOffset, myoffset
<1>3. At(g)' = At(g)
  BY <1>1 DEF At
<1>. QED BY <1>1, <1>2, <1>3 DEF SegmentInv

\* Nor do the call and its groups.
LEMMA CallKept ==
  ASSUME UNCHANGED <<NTask, op>>, CallInv
  PROVE  CallInv' /\ Groups' = Groups /\ Ranks' = Ranks
BY DEF CallInv, Segmented, Groups, Ranks

\* A call divides the rows of the ranks.
LEMMA CallStep ==
  ASSUME NTask \in Nat \ {0}, DiskInv, NEW kind, NEW name, NEW count \in [Ranks -> Nat],
         NEW concurrency \in Int, NEW data, Call(kind, name, count, concurrency, data)
  PROVE  DiskInv' /\ IOInv' /\ NTask' = NTask
<1>. DEFINE writers == IF concurrency <= 0 THEN NTask ELSE concurrency
<1>1. writers \in Nat \ {0}
  OBVIOUS
<1>2. /\ op'.count = count /\ op'.concurrency = writers
      /\ op'.seggrp = Segmenter_init(count, writers)
      /\ phase' \in {"create", "open"} /\ UNCHANGED <<NTask, disk>>
  BY DEF Call
<1>. HIDE DEF writers
<1>3. Segmented(op'.seggrp, count, writers)
  BY <1>1, <1>2, SegmenterFacts
<1>4. CallInv'
  <2>1. Ranks' = Ranks
    BY <1>2 DEF Ranks
  <2>. QED BY <1>1, <1>2, <1>3, <2>1 DEF CallInv, Segmented
<1>5. DiskInv'
  BY <1>2 DEF DiskInv
<1>6. IOInv'
  BY <1>2, <1>4 DEF IOInv
<1>. QED BY <1>2, <1>5, <1>6

\* A step that ends a call, or begins the next one's wait.
LEMMA NotBusy ==
  ASSUME phase' \notin Busy, DiskInv, disk' = disk
  PROVE  DiskInv' /\ IOInv'
BY DEF IOInv, DiskInv, Busy

\* Rank 0 makes the header, and all ranks have it.
LEMMA CreateStep ==
  ASSUME NTask \in Nat \ {0}, DiskInv, IOInv, NEW Nfile \in Nat, CreateHeader(Nfile)
  PROVE  DiskInv' /\ IOInv'
<1>. DEFINE fsize == FileSizes(totalsize, Nfile)
<1>1. phase = "create" /\ UNCHANGED <<NTask, op>> /\ CallInv
  BY DEF CreateHeader, IOInv, Busy
<1>2. CallInv' /\ Ranks' = Ranks /\ 0 \in Ranks
  BY <1>1, CallKept DEF Ranks
<1>3. fsize \in Seq(Nat)
  <2>1. totalsize = SumOf(op.count, Ranks)
    BY <1>1 DEF CallInv, Segmented, totalsize
  <2>2. totalsize \in Nat
    BY <1>1, <2>1, SumOfFacts DEF CallInv
  <2>. QED BY <2>2, FileSizesType
<1>4. \/ /\ phase' = "truncate"
         /\ \E ok : Store([fsize |-> fsize, fchecksum |-> [i \in 1..Nfile |-> 0],
                            files |-> Files(fsize), header |-> ok])
         /\ bb' = [r \in Ranks |-> [fsize |-> fsize, fchecksum |-> [i \in 1..Nfile |-> 0],
                                    dirty |-> FALSE]]
      \/ phase' = "raised" /\ disk' = disk
  BY DEF CreateHeader
<1>. HIDE DEF fsize
<1>5. CASE phase' = "truncate"
  <2>0. PICK ok : Store([fsize |-> fsize, fchecksum |-> [i \in 1..Nfile |-> 0],
                         files |-> Files(fsize), header |-> ok])
    BY <1>4, <1>5
  <2>1. PICK b : /\ b = [fsize |-> fsize, fchecksum |-> [i \in 1..Nfile |-> 0],
                         files |-> Files(fsize), header |-> ok]
                 /\ Store(b)
    BY <2>0
  <2>2. "fsize" \in DOMAIN b /\ b.fsize = fsize
    BY <2>1
  <2>3. DiskInv'
    BY <1>3, <2>1, <2>2 DEF DiskInv, Store
  <2>4. PICK c : /\ c = [fsize |-> fsize, fchecksum |-> [i \in 1..Nfile |-> 0], dirty |-> FALSE]
                 /\ bb' = [r \in Ranks |-> c]
    BY <1>4, <1>5
  <2>5. "fsize" \in DOMAIN c /\ c.fsize = fsize
    BY <2>4
  <2>6. BlockInv'
    BY <1>2, <1>3, <2>4, <2>5 DEF BlockInv
  <2>. QED BY <1>2, <1>5, <2>3, <2>6 DEF IOInv
<1>6. CASE phase' = "raised" /\ disk' = disk
  BY <1>6, NotBusy DEF Busy
<1>. QED BY <1>4, <1>5, <1>6

\* What a step does that only changes the block or the disk in place.
LEMMA InPlace ==
  ASSUME DiskInv, IOInv, UNCHANGED <<NTask, op, phase>>, phase = "truncate", bb' = bb,
         DOMAIN disk' = DOMAIN disk,
         \A n \in DOMAIN disk : "fsize" \in DOMAIN disk'[n] /\ disk'[n].fsize = disk[n].fsize
  PROVE  DiskInv' /\ IOInv'
<1>1. CallInv /\ BlockInv
  BY DEF IOInv, Busy
<1>2. CallInv' /\ Ranks' = Ranks
  BY <1>1, CallKept
<1>3. BlockInv'
  BY <1>1, <1>2 DEF BlockInv
<1>4. DiskInv'
  BY DEF DiskInv
<1>. QED BY <1>2, <1>3, <1>4 DEF IOInv

\* A rank empties its files.
LEMMA TruncateStep ==
  ASSUME DiskInv, IOInv, NEW r, Truncate(r)
  PROVE  DiskInv' /\ IOInv'
<1>1. /\ phase = "truncate" /\ UNCHANGED <<NTask, op, phase, bb>>
      /\ \/ disk' = disk
         \/ \E new : disk' = [disk EXCEPT ![op.name].files = new]
  <2>1. /\ phase = "truncate" /\ UNCHANGED <<NTask, op, phase, bb>>
        /\ \/ disk' = disk
           \/ disk' = [disk EXCEPT ![op.name].files =
                         [i \in DOMAIN @ |-> IF i \in Share(r) THEN <<>> ELSE @[i]]]
    BY DEF Truncate
  <2>. QED BY <2>1
<1>2. /\ DOMAIN disk' = DOMAIN disk
      /\ \A n \in DOMAIN disk : "fsize" \in DOMAIN disk'[n] /\ disk'[n].fsize = disk[n].fsize
  <2>1. CASE disk' = disk
    BY <2>1 DEF DiskInv
  <2>2. ASSUME NEW new, disk' = [disk EXCEPT ![op.name].files = new]
        PROVE  /\ DOMAIN disk' = DOMAIN disk
               /\ \A n \in DOMAIN disk : /\ "fsize" \in DOMAIN disk'[n]
                                         /\ disk'[n].fsize = disk[n].fsize
    BY <2>2 DEF DiskInv
  <2>. QED BY <1>1, <2>1, <2>2
<1>. QED BY <1>1, <1>2, InPlace

\* The groups begin.
LEMMA FreshInv ==
  ASSUME NTask \in Nat \ {0}, UNCHANGED <<NTask, op>>, CallInv, BlockInv', group' = FreshGroups,
         phase' = "transfer", DiskInv'
  PROVE  DiskInv' /\ IOInv'
<1>1. CallInv' /\ Groups' = Groups
  BY CallKept
<1>2. DOMAIN group' = Groups /\ \A g \in Groups : DOMAIN group'[g] = Fields /\ ~group'[g].moving
  BY DEF FreshGroups, Fields
<1>3. \A g \in Groups : SegmentInv(g)'
  BY <1>2 DEF SegmentInv
<1>. QED BY <1>1, <1>2, <1>3 DEF IOInv

\* All files are empty, or a rank could not empty them.
LEMMA TruncatedStep ==
  ASSUME NTask \in Nat \ {0}, DiskInv, IOInv, Truncated
  PROVE  DiskInv' /\ IOInv'
<1>1. /\ phase = "truncate" /\ UNCHANGED <<NTask, op, bb, disk>> /\ group' = FreshGroups
      /\ phase' = "transfer" \/ phase' = "raised"
  BY DEF Truncated
<1>2. CallInv /\ BlockInv
  BY <1>1 DEF IOInv, Busy
<1>3. BlockInv' /\ DiskInv'
  BY <1>1, <1>2, CallKept DEF BlockInv, DiskInv
<1>4. CASE phase' = "transfer"
  BY <1>1, <1>2, <1>3, <1>4, FreshInv
<1>5. CASE phase' = "raised"
  BY <1>1, <1>5, NotBusy DEF Busy
<1>. QED BY <1>1, <1>4, <1>5

\* Rank 0 reads the header.
LEMMA OpenStep ==
  ASSUME NTask \in Nat \ {0}, DiskInv, IOInv, OpenHeader
  PROVE  DiskInv' /\ IOInv'
<1>1. /\ phase = "open" /\ UNCHANGED <<NTask, op, disk>> /\ group' = FreshGroups
      /\ \/ phase' = "raised"
         \/ /\ phase' = "transfer" /\ op.name \in DOMAIN disk
            /\ bb' = [r \in Ranks |-> [fsize |-> disk[op.name].fsize,
                                       fchecksum |-> disk[op.name].fchecksum,
                                       dirty |-> FALSE]]
  <2>1. PICK e \in {0, -1} :
          /\ ~HasHeader => e = -1
          /\ phase' = IF e = 0 THEN "transfer" ELSE "raised"
          /\ bb' = IF e = -1 THEN bb
                   ELSE [r \in Ranks |-> [fsize |-> disk[op.name].fsize,
                                          fchecksum |-> disk[op.name].fchecksum,
                                          dirty |-> FALSE]]
    BY DEF OpenHeader
  <2>2. phase = "open" /\ UNCHANGED <<NTask, op, disk>> /\ group' = FreshGroups
    BY DEF OpenHeader
  <2>3. CASE e = 0
    <3>1. e # -1
      BY <2>3
    <3>2. op.name \in DOMAIN disk
      BY <2>1, <3>1 DEF HasHeader
    <3>. QED BY <2>1, <2>2, <2>3, <3>1, <3>2
  <2>4. CASE e = -1
    <3>1. e # 0
      BY <2>4
    <3>. QED BY <2>1, <2>2, <2>4, <3>1
  <2>. QED BY <2>3, <2>4
<1>2. CallInv /\ CallInv' /\ Ranks' = Ranks /\ 0 \in Ranks
  BY <1>1, CallKept DEF IOInv, Busy, Ranks
<1>3. CASE phase' = "raised"
  BY <1>1, <1>3, NotBusy DEF Busy
<1>4. CASE phase' = "transfer"
  <2>1. /\ op.name \in DOMAIN disk
        /\ bb' = [r \in Ranks |-> [fsize |-> disk[op.name].fsize,
                                   fchecksum |-> disk[op.name].fchecksum,
                                   dirty |-> FALSE]]
    BY <1>1, <1>4
  <2>2. PICK c : /\ c = [fsize |-> disk[op.name].fsize, fchecksum |-> disk[op.name].fchecksum,
                         dirty |-> FALSE]
                 /\ bb' = [r \in Ranks |-> c]
    BY <2>1
  <2>3. "fsize" \in DOMAIN c /\ c.fsize \in Seq(Nat)
    BY <2>1, <2>2 DEF DiskInv
  <2>4. BlockInv'
    BY <1>2, <2>2, <2>3 DEF BlockInv
  <2>5. DiskInv'
    BY <1>1 DEF DiskInv
  <2>. QED BY <1>1, <1>2, <1>4, <2>4, <2>5, FreshInv
<1>. QED BY <1>1, <1>3, <1>4

\* The header is written at the end, and the transfer ends.
LEMMA CloseStep ==
  ASSUME DiskInv, IOInv, CloseBlock \/ EndTransfer
  PROVE  DiskInv' /\ IOInv'
<1>1. phase' \notin Busy
  BY DEF CloseBlock, EndTransfer, Busy
<1>2. \/ disk' = disk
      \/ \E new, ok : disk' = [disk EXCEPT ![op.name].fchecksum = new,
                                            ![op.name].header = ok]
  BY DEF CloseBlock, EndTransfer
<1>3. DiskInv'
  <2>1. CASE disk' = disk
    BY <2>1 DEF DiskInv
  <2>2. ASSUME NEW new, NEW ok,
               disk' = [disk EXCEPT ![op.name].fchecksum = new, ![op.name].header = ok]
        PROVE  DiskInv'
    BY <2>2 DEF DiskInv
  <2>. QED BY <1>2, <2>1, <2>2
<1>. QED BY <1>1, <1>3 DEF IOInv, Busy

\* A step of one group leaves the others as they are.
LEMMA OneGroup ==
  ASSUME IOInv, phase = "transfer", UNCHANGED <<NTask, op, phase>>, NEW g \in Groups,
         BlockInv', bb[0]'.fsize = bb[0].fsize, DiskInv', DOMAIN group' = DOMAIN group,
         \A h \in Groups : h # g => group'[h] = group[h], SegmentInv(g)'
  PROVE  DiskInv' /\ IOInv'
<1>1. CallInv /\ DOMAIN group = Groups /\ \A h \in Groups : SegmentInv(h)
  BY DEF IOInv, Busy
<1>2. CallInv' /\ Groups' = Groups
  BY <1>1, CallKept
<1>3. ASSUME NEW h \in Groups PROVE SegmentInv(h)'
  <2>1. CASE h = g
    BY <2>1
  <2>2. CASE h # g
    <3>1. group'[h] = group[h] /\ SegmentInv(h)
      BY <1>1, <2>2
    <3>. QED BY <3>1, SegmentKept
  <2>. QED BY <2>1, <2>2
<1>. QED BY <1>1, <1>2, <1>3 DEF IOInv

\* A group goes on to its next segment.
LEMMA NextSegmentInv ==
  ASSUME IOInv, phase = "transfer", UNCHANGED <<NTask, op, phase>>, NEW g \in Groups,
         BlockInv', bb[0]'.fsize = bb[0].fsize, DiskInv', group' = NextSegment(g)
  PROVE  DiskInv' /\ IOInv'
<1>1. DOMAIN group = Groups /\ SegmentInv(g)
  BY DEF IOInv
<1>2. /\ DOMAIN group' = DOMAIN group /\ \A h \in Groups : h # g => group'[h] = group[h]
      /\ DOMAIN group'[g] = Fields /\ ~group'[g].moving
  BY <1>1 DEF NextSegment, SegmentInv, Fields
<1>3. SegmentInv(g)'
  BY <1>2 DEF SegmentInv
<1>. QED BY <1>2, <1>3, OneGroup

\* The dirty flag and the checksums do not change where the files are.
LEMMA BlockKept ==
  ASSUME BlockInv, UNCHANGED NTask, 0 \in Ranks,
         \/ bb' = bb
         \/ \E r, new : bb' = [bb EXCEPT ![r].dirty = new]
         \/ \E r, f, new : bb' = [bb EXCEPT ![r].fchecksum[f] = new]
  PROVE  BlockInv' /\ bb[0]'.fsize = bb[0].fsize
<1>1. Ranks' = Ranks
  BY DEF Ranks
<1>2. CASE bb' = bb
  BY <1>1, <1>2 DEF BlockInv
<1>3. ASSUME NEW r, NEW new, bb' = [bb EXCEPT ![r].dirty = new]
      PROVE  BlockInv' /\ bb[0]'.fsize = bb[0].fsize
  <2>1. DOMAIN bb' = DOMAIN bb
    BY <1>3
  <2>2. \A q \in Ranks : "fsize" \in DOMAIN bb'[q] /\ bb'[q].fsize = bb[q].fsize
    BY <1>3 DEF BlockInv
  <2>. QED BY <1>1, <2>1, <2>2 DEF BlockInv
<1>4. ASSUME NEW r, NEW f, NEW new, bb' = [bb EXCEPT ![r].fchecksum[f] = new]
      PROVE  BlockInv' /\ bb[0]'.fsize = bb[0].fsize
  <2>1. DOMAIN bb' = DOMAIN bb
    BY <1>4
  <2>2. \A q \in Ranks : "fsize" \in DOMAIN bb'[q] /\ bb'[q].fsize = bb[q].fsize
    BY <1>4 DEF BlockInv
  <2>. QED BY <1>1, <2>1, <2>2 DEF BlockInv
<1>. QED BY <1>2, <1>3, <1>4

\* A leader seeks to the place of its segment, if this has one.
LEMMA EnterStep ==
  ASSUME NTask \in Nat \ {0}, DiskInv, IOInv, NEW g \in DOMAIN group, EnterSegment(g)
  PROVE  DiskInv' /\ IOInv'
<1>. DEFINE s     == group[g].segment
            ranks == InSegment(g, s)
            fsize == bb[0].fsize
            n     == SumOf(op.count, ranks)
            first == SegmentOffset(ranks)
            ptr   == big_block_seek(fsize, first)
            buf   == IF op.kind = "write" THEN Gathered(ranks) ELSE <<>>
            e     == IF Fits(fsize, first, n) THEN 0 ELSE -1
            w     == [segment |-> s, moving |-> TRUE,
                      ptr |-> [fileid |-> ptr.fileid, roffset |-> ptr.roffset],
                      buf |-> buf, todo |-> n, e |-> e]
<1>1. phase = "transfer" /\ UNCHANGED <<NTask, op, phase, disk>>
  BY DEF EnterSegment
<1>2. CallInv /\ BlockInv /\ g \in Groups /\ DOMAIN group = Groups /\ SegmentInv(g)
  BY <1>1 DEF IOInv, Busy
<1>3. /\ 0 \in Ranks /\ Min(Members(g)) \in Ranks /\ n \in Nat
      /\ ranks # {} => first \in Nat
  BY <1>2, SegmentRanks
<1>4. bb[Min(Members(g))].fsize = fsize /\ fsize \in Seq(Nat)
  BY <1>2, <1>3 DEF BlockInv
<1>5. DiskInv'
  BY <1>1 DEF DiskInv
<1>6. \/ group' = NextSegment(g) /\ bb' = bb
      \/ /\ ranks # {} /\ group' = [group EXCEPT ![g] = w]
         /\ bb' = bb \/ bb' = [bb EXCEPT ![segment_leader(ranks)].dirty = TRUE]
  BY <1>4 DEF EnterSegment
<1>7. BlockInv' /\ bb[0]'.fsize = fsize
  BY <1>1, <1>2, <1>3, <1>6, BlockKept
<1>8. CASE group' = NextSegment(g)
  BY <1>1, <1>2, <1>5, <1>7, <1>8, NextSegmentInv
<1>9. CASE ranks # {} /\ group' = [group EXCEPT ![g] = w]
  <2>1. /\ DOMAIN group' = DOMAIN group /\ \A h \in Groups : h # g => group'[h] = group[h]
        /\ group'[g] = w
    BY <1>2, <1>9
  <2>2. /\ DOMAIN w = Fields /\ w.segment = s /\ w.todo = n /\ w.e = e
        /\ w.ptr.fileid = ptr.fileid /\ w.ptr.roffset = ptr.roffset
    BY DEF Fields
  <2>. HIDE DEF w
  <2>3. ASSUME n > 0, e = 0
        PROVE  /\ fsize # <<>>
               /\ ptr.fileid \in 1..Len(fsize) /\ ptr.roffset \in 0..fsize[ptr.fileid]
               /\ foffset(fsize, ptr.fileid) + ptr.roffset = first
               /\ first + n <= SizeOf(fsize)
    <3>1. first + n <= SizeOf(fsize) /\ first \in Nat
      BY <1>3, <1>9, <2>3 DEF Fits
    <3>2. fsize # <<>>
      <4>1. SUFFICES ASSUME fsize = <<>> PROVE FALSE
        OBVIOUS
      <4>2. SizeOf(fsize) = 0
        <5>1. Len(fsize) + 1 = 1
          BY <4>1
        <5>2. foffset(fsize, 1) = 0
          BY <1>4, FileOffsets
        <5>. QED BY <5>1, <5>2 DEF SizeOf
      <4>. QED BY <1>3, <2>3, <3>1, <4>2
    <3>3. SizeOf(fsize) \in Nat
      <4>1. Len(fsize) + 1 \in 1..(Len(fsize) + 1)
        BY <1>4
      <4>. QED BY <1>4, <4>1, FileOffsets DEF SizeOf
    <3>4. first <= SizeOf(fsize)
      BY <1>3, <3>1, <3>3
    <3>5. PICK o \in Nat : o = first
      BY <3>1
    <3>6. LET p == big_block_seek(fsize, o) IN
          /\ p.fileid \in 1..Len(fsize) /\ p.roffset \in Nat
          /\ foffset(fsize, p.fileid) + p.roffset = o
          /\ o <= SizeOf(fsize) => p.roffset <= fsize[p.fileid]
      BY <1>4, <3>2, SeekFacts
    <3>7. fsize[ptr.fileid] \in Nat
      BY <1>4, <3>5, <3>6
    <3>. QED BY <3>1, <3>2, <3>4, <3>5, <3>6, <3>7
  <2>4. /\ InSegment(g, group[g].segment)' = ranks /\ op' = op /\ bb[0]'.fsize = fsize
        /\ SegmentOffset(InSegment(g, group[g].segment))' = first
    <3>1. group'[g].segment = s
      BY <2>1, <2>2
    <3>. HIDE DEF s
    <3>. QED BY <1>1, <1>7, <3>1 DEF InSegment, Members, Ranks, SegmentOffset, myoffset
  <2>5. group'[g].todo > 0 /\ group'[g].e = 0 =>
          /\ fsize # <<>> /\ group'[g].ptr.fileid \in 1..Len(fsize)
          /\ group'[g].ptr.roffset \in 0..fsize[group'[g].ptr.fileid]
          /\ foffset(fsize, group'[g].ptr.fileid) + group'[g].ptr.roffset = first
          /\ first + n <= SizeOf(fsize)
    <3>. HIDE DEF n, first, fsize, ptr, e
    <3>. QED BY <2>1, <2>2, <2>3
  <2>6. SegmentInv(g)'
    <3>1. /\ InSegment(g, group[g].segment)' = ranks
          /\ SegmentOffset(InSegment(g, group[g].segment))' = first
          /\ SumOf(op.count, InSegment(g, group[g].segment))' = n
          /\ group'[g].todo = n /\ DOMAIN group'[g] = Fields
      BY <2>1, <2>2, <2>4
    <3>2. first \in Nat /\ n \in Nat /\ ranks # {}
      BY <1>3, <1>9
    <3>. HIDE DEF n, first, ranks, fsize, ptr, e, s
    <3>. QED BY <1>7, <2>4, <2>5, <3>1, <3>2 DEF SegmentInv, At, fsize
  <2>. QED BY <1>1, <1>2, <1>5, <1>7, <2>1, <2>6, OneGroup
<1>. QED BY <1>6, <1>8, <1>9

\* A leader moves a chunk and seeks to the next one.
LEMMA MoveStep ==
  ASSUME NTask \in Nat \ {0}, DiskInv, IOInv, NEW g \in DOMAIN group, MoveChunk(g)
  PROVE  DiskInv' /\ IOInv'
<1>. DEFINE w      == group[g]
            ranks  == InSegment(g, w.segment)
            leader == segment_leader(ranks)
            fsize  == bb[0].fsize
            n      == ChunkSize(fsize, w.ptr, w.todo, CHUNK)
            f      == w.ptr.fileid
            next   == big_block_seek(fsize, foffset(fsize, f) + w.ptr.roffset + n)
            moved  == [w EXCEPT !.ptr  = [fileid |-> next.fileid, roffset |-> next.roffset],
                                !.todo = @ - n]
<1>1. phase = "transfer" /\ UNCHANGED <<NTask, op, phase>> /\ w.moving /\ w.todo > 0 /\ w.e = 0
  BY DEF MoveChunk
<1>2. CallInv /\ BlockInv /\ g \in Groups /\ DOMAIN group = Groups /\ SegmentInv(g)
  BY <1>1 DEF IOInv, Busy
<1>3. /\ DOMAIN w = Fields /\ ranks # {} /\ w.todo \in Nat /\ fsize # <<>>
      /\ f \in 1..Len(fsize) /\ w.ptr.roffset \in 0..fsize[f]
      /\ SegmentOffset(ranks) <= At(g)
      /\ At(g) + w.todo = SegmentOffset(ranks) + SumOf(op.count, ranks)
      /\ SegmentOffset(ranks) + SumOf(op.count, ranks) <= SizeOf(fsize)
  BY <1>1, <1>2 DEF SegmentInv
<1>4. /\ 0 \in Ranks /\ leader \in Ranks
      /\ SegmentOffset(ranks) \in Nat /\ SumOf(op.count, ranks) \in Nat
  BY <1>2, <1>3, SegmentRanks
<1>5. bb[leader].fsize = fsize /\ fsize \in Seq(Nat)
  BY <1>2, <1>4 DEF BlockInv
<1>6. bb' = bb \/ \E new : bb' = [bb EXCEPT ![leader].fchecksum[f] = new]
  BY DEF MoveChunk
<1>a. disk' = disk \/ \E new : disk' = [disk EXCEPT ![op.name].files[f] = new]
  <2>. HIDE DEF f, w
  <2>. QED BY DEF MoveChunk, f, w
<1>b. \/ group' = [group EXCEPT ![g].e = -1]
      \/ \E new : group' = [group EXCEPT ![g] = [moved EXCEPT !.buf = new]]
  <2>. DEFINE lsize  == bb[leader].fsize
              ln     == ChunkSize(lsize, w.ptr, w.todo, CHUNK)
              lnext  == big_block_seek(lsize, foffset(lsize, f) + w.ptr.roffset + ln)
              lmoved == [w EXCEPT !.ptr  = [fileid |-> lnext.fileid, roffset |-> lnext.roffset],
                                  !.todo = @ - ln]
  <2>1. \/ group' = [group EXCEPT ![g].e = -1]
        \/ \E new : group' = [group EXCEPT ![g] = [lmoved EXCEPT !.buf = new]]
    BY DEF MoveChunk
  <2>2. lmoved = moved
    BY <1>5
  <2>. HIDE DEF lmoved, moved
  <2>. QED BY <2>1, <2>2
<1>7. BlockInv' /\ bb[0]'.fsize = fsize
  <2>1. CASE bb' = bb
    BY <1>1, <1>2, <1>4, <2>1, BlockKept
  <2>2. ASSUME NEW new, bb' = [bb EXCEPT ![leader].fchecksum[f] = new]
        PROVE  BlockInv' /\ bb[0]'.fsize = fsize
    <3>1. \E r, i, v : bb' = [bb EXCEPT ![r].fchecksum[i] = v]
      BY <2>2
    <3>. QED BY <1>1, <1>2, <1>4, <3>1, BlockKept
  <2>. QED BY <1>6, <2>1, <2>2
<1>8. DiskInv'
  <2>1. CASE disk' = disk
    BY <2>1 DEF DiskInv
  <2>2. ASSUME NEW new, disk' = [disk EXCEPT ![op.name].files[f] = new]
        PROVE  DiskInv'
    BY <2>2 DEF DiskInv
  <2>. QED BY <1>a, <2>1, <2>2
<1>9. CASE group' = [group EXCEPT ![g].e = -1]
  <2>1. /\ DOMAIN group' = DOMAIN group /\ \A h \in Groups : h # g => group'[h] = group[h]
        /\ DOMAIN group'[g] = Fields /\ group'[g].segment = w.segment /\ group'[g].e = -1
        /\ group'[g].todo = w.todo
    BY <1>2, <1>3, <1>9 DEF Fields
  <2>2. InSegment(g, group[g].segment)' = ranks
    BY <1>1, <2>1 DEF InSegment, Members, Ranks
  <2>3. SegmentInv(g)'
    <3>1. group'[g].e # 0
      BY <2>1
    <3>. QED BY <1>3, <2>1, <2>2, <3>1 DEF SegmentInv
  <2>. QED BY <1>1, <1>2, <1>7, <1>8, <2>1, <2>3, OneGroup
<1>10. ASSUME NEW new, group' = [group EXCEPT ![g] = [moved EXCEPT !.buf = new]]
       PROVE  DiskInv' /\ IOInv'
  <2>1. /\ DOMAIN moved = Fields /\ moved.segment = w.segment /\ moved.todo = w.todo - n
        /\ moved.e = 0 /\ moved.moving
        /\ moved.ptr = [fileid |-> next.fileid, roffset |-> next.roffset]
    <3>. HIDE DEF n, next
    <3>. QED BY <1>1, <1>3 DEF Fields
  <2>. HIDE DEF moved
  <2>2. /\ DOMAIN group' = DOMAIN group /\ \A h \in Groups : h # g => group'[h] = group[h]
        /\ group'[g] = [moved EXCEPT !.buf = new]
    BY <1>2, <1>10
  <2>3. /\ DOMAIN group'[g] = Fields /\ group'[g].segment = w.segment
        /\ group'[g].todo = w.todo - n /\ group'[g].e = 0
        /\ group'[g].ptr = [fileid |-> next.fileid, roffset |-> next.roffset]
    BY <2>1, <2>2 DEF Fields
  <2>4. group'[g].ptr.fileid = next.fileid /\ group'[g].ptr.roffset = next.roffset
    <3>. HIDE DEF next
    <3>. QED BY <2>3
  <2>5. foffset(fsize, f) \in Nat /\ fsize[f] \in Nat
    <3>1. PICK k \in 1..Len(fsize) : k = f /\ k \in 1..(Len(fsize) + 1)
      BY <1>3, <1>5
    <3>2. foffset(fsize, k) \in Nat
      BY <1>5, <3>1, FileOffsets
    <3>3. fsize[k] \in Nat
      BY <1>5
    <3>. QED BY <3>1, <3>2, <3>3
  <2>6. n \in Nat /\ n <= w.todo
    <3>1. CHUNK \in Int /\ w.todo \in Int /\ fsize[f] - w.ptr.roffset \in Int
          /\ CHUNK >= 0 /\ fsize[f] - w.ptr.roffset >= 0
      <4>1. CHUNK \in Nat
        BY SnapshotAssumption
      <4>. HIDE DEF w, fsize, f
      <4>2. fsize[f] - w.ptr.roffset \in Int /\ fsize[f] - w.ptr.roffset >= 0
        BY <1>3, <2>5
      <4>. QED BY <1>3, <4>1, <4>2
    <3>2. n = Min({CHUNK, w.todo, fsize[f] - w.ptr.roffset})
      BY DEF ChunkSize
    <3>3. PICK c \in Int : c = fsize[f] - w.ptr.roffset /\ c >= 0
      BY <3>1
    <3>4. n = Min({CHUNK, w.todo, c})
      BY <3>2, <3>3
    <3>. HIDE DEF n
    <3>5. n \in {CHUNK, w.todo, c} /\ n <= w.todo
      BY <3>1, <3>4, MinOfThree
    <3>. QED BY <1>3, <3>1, <3>3, <3>5
  <2>7. PICK o \in Nat : o = At(g) + n /\ o = foffset(fsize, f) + w.ptr.roffset + n /\ o <= SizeOf(fsize)
    <3>1. At(g) = foffset(fsize, f) + w.ptr.roffset
      BY DEF At
    <3>2. At(g) \in Nat /\ At(g) + n = foffset(fsize, f) + w.ptr.roffset + n
      <4>. HIDE DEF n
      <4>. QED BY <1>3, <2>5, <2>6, <3>1
    <3>3. SizeOf(fsize) \in Nat
      <4>1. Len(fsize) + 1 \in 1..(Len(fsize) + 1)
        BY <1>5
      <4>. QED BY <1>5, <4>1, FileOffsets DEF SizeOf
    <3>. HIDE DEF n
    <3>4. At(g) + n <= SizeOf(fsize) /\ At(g) + n \in Nat
      BY <1>3, <1>4, <2>6, <3>2, <3>3
    <3>. QED BY <3>2, <3>4
  <2>8. /\ next.fileid \in 1..Len(fsize) /\ next.roffset \in 0..fsize[next.fileid]
        /\ foffset(fsize, next.fileid) + next.roffset = o
    <3>1. next = big_block_seek(fsize, o)
      BY <2>7
    <3>. HIDE DEF next
    <3>2. /\ next.fileid \in 1..Len(fsize) /\ next.roffset \in Nat
          /\ foffset(fsize, next.fileid) + next.roffset = o
          /\ next.roffset <= fsize[next.fileid]
      BY <1>3, <1>5, <2>7, <3>1, SeekFacts
    <3>3. fsize[next.fileid] \in Nat
      BY <1>5, <3>2
    <3>. QED BY <3>2, <3>3
  <2>9. InSegment(g, group[g].segment)' = ranks /\ op' = op
        /\ SegmentOffset(InSegment(g, group[g].segment))' = SegmentOffset(ranks)
    BY <1>1, <2>3 DEF InSegment, Members, Ranks, SegmentOffset, myoffset
  <2>10. At(g)' = o
    BY <1>7, <2>4, <2>8 DEF At
  <2>11. At(g) \in Int
    BY <1>3, <2>5 DEF At
  <2>12. SegmentInv(g)'
    <3>1. /\ group'[g].todo \in Nat /\ SegmentOffset(ranks) <= o
          /\ o + group'[g].todo = SegmentOffset(ranks) + SumOf(op.count, ranks)
      <4>. HIDE DEF n, ranks
      <4>. QED BY <1>3, <1>4, <2>3, <2>6, <2>7, <2>11
    <3>. HIDE DEF n, ranks, next, moved
    <3>. QED BY <1>3, <1>7, <2>3, <2>4, <2>8, <2>9, <2>10, <3>1 DEF SegmentInv
  <2>. QED BY <1>1, <1>2, <1>7, <1>8, <2>2, <2>12, OneGroup
<1>. QED BY <1>b, <1>9, <1>10

\* A segment is done.
LEMMA EndStep ==
  ASSUME NTask \in Nat \ {0}, DiskInv, IOInv, NEW g \in DOMAIN group, EndSegment(g)
  PROVE  DiskInv' /\ IOInv'
<1>1. phase = "transfer" /\ UNCHANGED <<NTask, op, phase, bb, disk>> /\ group' = NextSegment(g)
  BY DEF EndSegment
<1>2. BlockInv /\ g \in Groups
  BY <1>1 DEF IOInv
<1>3. BlockInv' /\ DiskInv'
  BY <1>1, <1>2 DEF BlockInv, DiskInv, Ranks
<1>. QED BY <1>1, <1>2, <1>3, NextSegmentInv

----------------------------------------------------------------------------
(* The steps of the run.                                                   *)

\* The blocks of the table are of particle types.
LEMMA IOTableType ==
  Len(IOTable) \in Nat /\ \A i \in 1..Len(IOTable) : IOTable[i].ptype \in Types
<1>. DEFINE names == {"ID", "Potential", "Density", "InternalEnergy", "DelayTime"}
            E == [ptype : Types, name : names, setter : BOOLEAN, required : BOOLEAN]
<1>1. Registered \in Seq(E)
  <2>1. /\ "ID" \in names /\ "Potential" \in names /\ "Density" \in names
        /\ "InternalEnergy" \in names /\ "DelayTime" \in names
    OBVIOUS
  <2>2. 0 \in Types /\ 1 \in Types /\ 4 \in Types
    BY DEF Types
  <2>3. \A t, n, s, r : t \in Types /\ n \in names /\ s \in BOOLEAN /\ r \in BOOLEAN
                        => Entry(t, n, s, r) \in E
    BY Zenon DEF Entry
  <2>. HIDE DEF E, names
  <2>4. /\ Entry(0, "ID", TRUE, TRUE) \in E /\ Entry(1, "ID", TRUE, TRUE) \in E
        /\ Entry(1, "Potential", FALSE, FALSE) \in E /\ Entry(4, "ID", TRUE, TRUE) \in E
        /\ Entry(0, "Density", TRUE, TRUE) \in E
        /\ Entry(0, "InternalEnergy", TRUE, TRUE) \in E
        /\ Entry(0, "DelayTime", TRUE, FALSE) \in E
    BY <2>1, <2>2, <2>3, Zenon
  <2>5. \A a, b, c, d, e, f, g \in E : <<a, b, c, d, e, f, g>> \in Seq(E)
    OBVIOUS
  <2>. QED BY <2>4, <2>5, Zenon DEF Registered
<1>. HIDE DEF E, names
<1>2. \A t : OfType(t) \in Seq(E)
  <2>. SUFFICES ASSUME NEW t PROVE OfType(t) \in Seq(E)
    OBVIOUS
  <2>1. PICK R \in Seq(E) : R = Registered
    BY <1>1
  <2>2. {i \in DOMAIN R : R[i].ptype = t} \in SUBSET (1..Len(R))
    OBVIOUS
  <2>3. SelectAt(R, {i \in DOMAIN R : R[i].ptype = t}) \in Seq(E)
    BY <2>2, SelectAtProperties
  <2>. QED BY <2>1, <2>3 DEF OfType
<1>3. IOTable \in Seq(E)
  <2>1. OfType(0) \in Seq(E) /\ OfType(1) \in Seq(E) /\ OfType(4) \in Seq(E)
    BY <1>2
  <2>. QED BY <2>1 DEF IOTable
<1>4. \A i \in 1..Len(IOTable) : IOTable[i] \in E
  BY <1>3, ElementOfSeq
<1>5. Len(IOTable) \in Nat
  BY <1>3
<1>. QED BY <1>4, <1>5 DEF E

\* Steps of the run that leave the disk alone and end any call.
LEMMA QuietStep ==
  ASSUME SnapInv, UNCHANGED <<disk, NTask, header, NTotal, parts>>, phase' \notin Busy,
         pc' \notin {"saving", "reading"} => phase' = "idle",
         starts' \in 0..Len(Writers) /\ (pc' # "dead" => starts' # 0),
         block' \in Nat /\ (pc' \in {"saving", "reading"} => block' # 0)
  PROVE  SnapInv'
<1>1. RunInv /\ DiskInv
  BY DEF SnapInv
<1>2. Tables'
  BY <1>1 DEF RunInv, Tables, Ranks
<1>3. RunInv'
  BY <1>1, <1>2 DEF RunInv
<1>. QED BY <1>1, <1>3, NotBusy DEF SnapInv

\* The steps of a call.
LEMMA CollectiveStep == SnapInv /\ Collective => SnapInv'
<1>. SUFFICES ASSUME SnapInv, Collective PROVE SnapInv'
  OBVIOUS
<1>1. /\ RunInv /\ DiskInv /\ IOInv /\ NTask \in Nat \ {0}
      /\ pc \in {"saving", "reading"} /\ Step(FilesAndWriters(totalsize).files)
      /\ UNCHANGED <<pc, starts, parts, NTotal, block, header>>
  BY DEF SnapInv, RunInv, Collective
<1>. DEFINE Nfile == FilesAndWriters(totalsize).files
<1>2. DiskInv' /\ IOInv' /\ NTask' = NTask
  <2>1. CASE CreateHeader(Nfile)
    <3>1. CallInv /\ NTask' = NTask
      BY <1>1, <2>1 DEF IOInv, Busy, CreateHeader
    <3>2. starts \in 1..Len(Writers)
      BY <1>1, SnapshotAssumption DEF RunInv
    <3>3. totalsize \in Nat
      <4>1. totalsize = SumOf(op.count, Ranks)
        BY <3>1 DEF CallInv, Segmented, totalsize
      <4>. QED BY <1>1, <3>1, <4>1, SumOfFacts DEF CallInv
    <3>4. Nfile \in Nat
      BY <1>1, <3>2, <3>3, FilesAndWritersType
    <3>. HIDE DEF Nfile
    <3>. QED BY <1>1, <2>1, <3>1, <3>4, CreateStep
  <2>2. CASE OpenHeader
    BY <1>1, <2>2, OpenStep DEF OpenHeader
  <2>3. CASE Truncated
    BY <1>1, <2>3, TruncatedStep DEF Truncated
  <2>4. CASE EndTransfer
    BY <1>1, <2>4, CloseStep DEF EndTransfer
  <2>5. CASE CloseBlock
    BY <1>1, <2>5, CloseStep DEF CloseBlock
  <2>6. ASSUME NEW r \in Ranks, Truncate(r) PROVE DiskInv' /\ IOInv' /\ NTask' = NTask
    BY <1>1, <2>6, TruncateStep DEF Truncate
  <2>7. ASSUME NEW g \in DOMAIN group, EnterSegment(g)
        PROVE  DiskInv' /\ IOInv' /\ NTask' = NTask
    <3>1. NTask' = NTask
      BY <2>7 DEF EnterSegment
    <3>. QED BY <1>1, <2>7, <3>1, EnterStep
  <2>8. ASSUME NEW g \in DOMAIN group, MoveChunk(g)
        PROVE  DiskInv' /\ IOInv' /\ NTask' = NTask
    <3>1. NTask' = NTask
      BY <2>8 DEF MoveChunk
    <3>. QED BY <1>1, <2>8, <3>1, MoveStep
  <2>9. ASSUME NEW g \in DOMAIN group, EndSegment(g)
        PROVE  DiskInv' /\ IOInv' /\ NTask' = NTask
    <3>1. NTask' = NTask
      BY <2>9 DEF EndSegment
    <3>. QED BY <1>1, <2>9, <3>1, EndStep
  <2>. QED BY <1>1, <2>1, <2>2, <2>3, <2>4, <2>5, <2>6, <2>7, <2>8, <2>9 DEF Step
<1>3. Tables'
  BY <1>1, <1>2 DEF RunInv, Tables, Ranks
<1>4. RunInv'
  BY <1>1, <1>2, <1>3 DEF RunInv
<1>. QED BY <1>2, <1>4 DEF SnapInv

\* A call to write a block.
LEMMA SaveBlockStep == SnapInv /\ SaveBlock => SnapInv'
<1>. SUFFICES ASSUME SnapInv, SaveBlock PROVE SnapInv'
  OBVIOUS
<1>. DEFINE e == IOTable[block]
            counts == Counts(e.ptype)
            writers == FilesAndWriters(NTotal[e.ptype]).writers
            data == [r \in Ranks |-> Buffer(r, e)]
<1>1. /\ RunInv /\ DiskInv /\ IOInv /\ NTask \in Nat \ {0} /\ pc = "saving"
      /\ phase \in {"idle", "closed"} /\ block \in 1..Len(IOTable) /\ block' = block + 1
      /\ UNCHANGED <<pc, starts, parts, NTotal, header>>
      /\ \/ Call("write", <<e.ptype, e.name>>, counts, writers, data)
         \/ UNCHANGED ioVars
  <2>1. /\ pc = "saving" /\ phase \in {"idle", "closed"} /\ block <= Len(IOTable)
        /\ block' = block + 1 /\ UNCHANGED <<pc, starts, parts, NTotal, header>>
        /\ \/ Call("write", <<e.ptype, e.name>>, counts, writers, data)
           \/ UNCHANGED ioVars
    BY DEF SaveBlock, Idle
  <2>2. RunInv /\ DiskInv /\ IOInv
    BY DEF SnapInv
  <2>3. block \in Nat /\ block # 0 /\ NTask \in Nat \ {0}
    BY <2>1, <2>2 DEF RunInv
  <2>4. Len(IOTable) \in Nat
    BY IOTableType
  <2>. QED BY <2>1, <2>2, <2>3, <2>4
<1>2. counts \in [Ranks -> Nat] /\ writers \in Int
  <2>1. starts \in 1..Len(Writers)
    BY <1>1, SnapshotAssumption DEF RunInv
  <2>2. e.ptype \in Types
    BY <1>1, IOTableType
  <2>. HIDE DEF e
  <2>3. NTotal[e.ptype] \in Int
    BY <1>1, <2>2 DEF RunInv
  <2>4. writers \in Int
    BY <1>1, <2>1, <2>3, FilesAndWritersType
  <2>. QED BY <1>1, <2>4, CountsType DEF RunInv
<1>3. DiskInv' /\ IOInv' /\ NTask' = NTask
  <2>1. CASE Call("write", <<e.ptype, e.name>>, counts, writers, data)
    <3>1. PICK name, c, w, d :
            c \in [Ranks -> Nat] /\ w \in Int /\ Call("write", name, c, w, d)
      <4>. HIDE DEF counts, writers, data, e
      <4>. QED BY <1>2, <2>1 DEF Call
    <3>. QED BY <1>1, <3>1, CallStep
  <2>2. CASE UNCHANGED ioVars
    <3>1. phase' = phase /\ disk' = disk /\ NTask' = NTask
      BY <2>2 DEF ioVars, io
    <3>. QED BY <1>1, <3>1, NotBusy DEF Busy
  <2>. QED BY <1>1, <2>1, <2>2
<1>4. Tables'
  BY <1>1, <1>3 DEF RunInv, Tables, Ranks
<1>5. RunInv'
  BY <1>1, <1>3, <1>4 DEF RunInv
<1>. QED BY <1>3, <1>5 DEF SnapInv

\* A call to read a block.
LEMMA ReadBlockStep == SnapInv /\ ReadBlock => SnapInv'
<1>. SUFFICES ASSUME SnapInv, ReadBlock PROVE SnapInv'
  OBVIOUS
<1>. DEFINE e == IOTable[block]
            n == [r \in Ranks |-> Len(petaio_build_selection(r, e.ptype))]
            data == [r \in Ranks |-> [i \in 1..n[r] |-> 0]]
<1>1. /\ RunInv /\ DiskInv /\ IOInv /\ NTask \in Nat \ {0} /\ pc = "reading"
      /\ phase = "idle" /\ block \in Nat /\ block # 0
      /\ UNCHANGED <<pc, starts, parts, NTotal, header>>
      /\ \/ Call("read", <<e.ptype, e.name>>, n, Writers[starts], data) /\ block' = block
         \/ UNCHANGED ioVars /\ block' = block + 1
  <2>1. /\ pc = "reading" /\ phase = "idle"
        /\ UNCHANGED <<pc, starts, parts, NTotal, header>>
        /\ \/ Call("read", <<e.ptype, e.name>>, n, Writers[starts], data) /\ block' = block
           \/ UNCHANGED ioVars /\ block' = block + 1
    BY DEF ReadBlock
  <2>2. RunInv /\ DiskInv /\ IOInv
    BY DEF SnapInv
  <2>. QED BY <2>1, <2>2 DEF RunInv
<1>2. n \in [Ranks -> Nat] /\ Writers[starts] \in Int
  <2>1. starts \in 1..Len(Writers)
    BY <1>1, SnapshotAssumption DEF RunInv
  <2>2. Writers[starts] \in Int
    BY <2>1, SnapshotAssumption
  <2>3. n = Counts(e.ptype)
    BY DEF Counts
  <2>4. Counts(e.ptype) \in [Ranks -> Nat]
    BY <1>1, CountsType DEF RunInv
  <2>. HIDE DEF n
  <2>. QED BY <2>2, <2>3, <2>4
<1>3. DiskInv' /\ IOInv' /\ NTask' = NTask
  <2>1. CASE Call("read", <<e.ptype, e.name>>, n, Writers[starts], data)
    <3>1. PICK name, c, w, d :
            c \in [Ranks -> Nat] /\ w \in Int /\ Call("read", name, c, w, d)
      <4>. HIDE DEF n, data, e
      <4>. QED BY <1>2, <2>1 DEF Call
    <3>. QED BY <1>1, <3>1, CallStep
  <2>2. CASE UNCHANGED ioVars
    <3>1. phase' = phase /\ disk' = disk /\ NTask' = NTask
      BY <2>2 DEF ioVars, io
    <3>. QED BY <1>1, <3>1, NotBusy DEF Busy
  <2>. QED BY <1>1, <2>1, <2>2
<1>4. Tables'
  BY <1>1, <1>3 DEF RunInv, Tables, Ranks
<1>5. RunInv'
  BY <1>1, <1>3, <1>4 DEF RunInv
<1>. QED BY <1>3, <1>5 DEF SnapInv

\* The header counts the particles of each type.
LEMMA WriteHeaderStep == SnapInv /\ WriteHeader => SnapInv'
<1>. SUFFICES ASSUME SnapInv, WriteHeader PROVE SnapInv'
  OBVIOUS
<1>1. /\ RunInv /\ DiskInv /\ NTask \in Nat \ {0} /\ phase = "idle" /\ pc = "header"
      /\ UNCHANGED <<NTask, io, disk, starts, parts>> /\ pc' \in {"dead", "saving"}
      /\ block' = 1
      /\ NTotal' = [t \in Types |-> SumFunction(Counts(t))]
      /\ \/ header' = <<>>
         \/ header' = attrset_write_attr_set_v2(
                        attrset_set_attr(attrset_set_attr(<<>>, TotNumPart,
                                           <<NTotal'[0], NTotal'[1], NTotal'[4]>>),
                          TotNumPartInit, <<NTotal'[0], NTotal'[1], NTotal'[4]>>))
  BY DEF SnapInv, RunInv, WriteHeader
<1>2. NTotal' \in [Types -> Int]
  <2>1. \A t \in Types : SumFunction(Counts(t)) \in Int
    <3>. SUFFICES ASSUME NEW t \in Types PROVE SumFunction(Counts(t)) \in Int
      OBVIOUS
    <3>1. PICK c \in [Ranks -> Nat] : c = Counts(t)
      BY <1>1, CountsType DEF RunInv
    <3>2. IsFiniteSet(Ranks)
      <4>1. NTask - 1 \in Int
        BY <1>1
      <4>. QED BY <4>1, FS_Interval DEF Ranks
    <3>3. c \in [Ranks -> Int]
      OBVIOUS
    <3>. QED BY <3>1, <3>2, <3>3, SumInt
  <2>. QED BY <1>1, <2>1
<1>3. header' \in Seq(Line)
  <2>1. PICK counts \in Seq(Int) : counts = <<NTotal'[0], NTotal'[1], NTotal'[4]>>
    <3>1. NTotal'[0] \in Int /\ NTotal'[1] \in Int /\ NTotal'[4] \in Int
      BY <1>2 DEF Types
    <3>2. <<NTotal'[0], NTotal'[1], NTotal'[4]>> \in Seq(Int)
      BY <3>1
    <3>. QED BY <3>2
  <2>2. TotNumPart \in Int /\ TotNumPartInit \in Int /\ <<>> \in Seq(Attr)
    BY DEF TotNumPart, TotNumPartInit
  <2>3. attrset_set_attr(<<>>, TotNumPart, counts) \in Seq(Attr)
    BY <2>2, SetAttrType
  <2>4. attrset_set_attr(attrset_set_attr(<<>>, TotNumPart, counts), TotNumPartInit, counts)
          \in Seq(Attr)
    BY <2>2, <2>3, SetAttrType
  <2>5. attrset_write_attr_set_v2(
          attrset_set_attr(attrset_set_attr(<<>>, TotNumPart, counts), TotNumPartInit, counts))
            \in Seq(Line)
    BY <2>4, WriteAttrsType
  <2>6. <<>> \in Seq(Line)
    OBVIOUS
  <2>7. \/ header' = <<>>
        \/ header' = attrset_write_attr_set_v2(
             attrset_set_attr(attrset_set_attr(<<>>, TotNumPart, counts), TotNumPartInit, counts))
    BY <1>1, <2>1
  <2>. QED BY <2>5, <2>6, <2>7
<1>4. phase' = phase /\ disk' = disk /\ NTask' = NTask
  BY <1>1 DEF io
<1>5. Tables'
  BY <1>1, <1>4 DEF RunInv, Tables, Ranks
<1>6. RunInv'
  BY <1>1, <1>2, <1>3, <1>4, <1>5 DEF RunInv
<1>. QED BY <1>1, <1>4, <1>6, NotBusy DEF SnapInv, Busy

\* The run that reads sets up its tables.
LEMMA BeginReadStep == SnapInv /\ BeginRead => SnapInv'
<1>. SUFFICES ASSUME SnapInv, BeginRead PROVE SnapInv'
  OBVIOUS
<1>1. /\ RunInv /\ DiskInv /\ pc = "saved" /\ phase = "idle" /\ NTask' = ReadTasks
      /\ NTotal' = ReadNTotal /\ block' = 1 /\ pc' = "reading"
      /\ parts' = [r \in 0..(ReadTasks - 1) |-> Topology(r, ReadNTotal, ReadTasks)]
      /\ UNCHANGED <<phase, disk, starts, header>>
  BY DEF SnapInv, RunInv, BeginRead
<1>2. header \in Seq(Line) /\ ReadTasks \in Nat \ {0}
  BY <1>1, TasksPositive DEF RunInv
<1>3. ReadNTotal \in [Types -> Int]
  BY <1>2, ReadNTotalType
<1>4. Tables'
  <2>1. Ranks' = 0..(ReadTasks - 1)
    BY <1>1 DEF Ranks
  <2>2. \A r \in 0..(ReadTasks - 1) :
          /\ DOMAIN Topology(r, ReadNTotal, ReadTasks) \in SUBSET Int
          /\ IsFiniteSet(DOMAIN Topology(r, ReadNTotal, ReadTasks))
    BY <1>2, <1>3, TopologyType
  <2>. QED BY <1>1, <2>1, <2>2 DEF Tables
<1>5. RunInv'
  BY <1>1, <1>2, <1>3, <1>4 DEF RunInv
<1>. QED BY <1>1, <1>5, NotBusy DEF SnapInv, Busy

\* The setters leave the particles where they are.
LEMMA ReadOutStep == SnapInv /\ ReadOut => SnapInv'
<1>. SUFFICES ASSUME SnapInv, ReadOut PROVE SnapInv'
  OBVIOUS
<1>1. /\ RunInv /\ DiskInv /\ pc = "reading" /\ block' = block + 1 /\ phase' = "idle"
      /\ parts' = [r \in Ranks |-> Readout(parts[r], IOTable[block], rows[r])]
      /\ UNCHANGED <<NTask, disk, pc, starts, NTotal, header>>
  BY DEF SnapInv, ReadOut
<1>2. Tables'
  <2>1. Ranks' = Ranks
    BY <1>1 DEF Ranks
  <2>2. \A r \in Ranks : DOMAIN parts'[r] = DOMAIN parts[r]
    BY <1>1 DEF Readout
  <2>. QED BY <1>1, <2>1, <2>2 DEF Tables, RunInv
<1>3. RunInv'
  BY <1>1, <1>2 DEF RunInv
<1>. QED BY <1>1, <1>3, NotBusy DEF SnapInv, Busy

\* Every step keeps the invariant.
LEMMA SnapStep == SnapInv /\ [Next]_vars => SnapInv'
<1>. SUFFICES ASSUME SnapInv, [Next]_vars PROVE SnapInv'
  OBVIOUS
<1>0. /\ NTask \in Nat \ {0} /\ starts \in 0..Len(Writers) /\ Len(Writers) \in Nat
      /\ block \in Nat /\ (pc # "dead" => starts # 0)
      /\ (pc \in {"saving", "reading"} => block # 0)
      /\ (pc \notin {"saving", "reading"} => phase = "idle")
  BY SnapshotAssumption DEF SnapInv, RunInv
<1>1. CASE StartAgain
  BY <1>0, <1>1, QuietStep DEF StartAgain, Busy
<1>2. CASE Saved
  BY <1>0, <1>2, QuietStep DEF Saved, Busy
<1>3. CASE Failed
  BY <1>0, <1>3, QuietStep DEF Failed, Busy
<1>4. CASE Crash
  BY <1>0, <1>4, QuietStep DEF Crash, Busy
<1>5. CASE SkipBlock
  BY <1>0, <1>5, QuietStep DEF SkipBlock, Busy
<1>6. CASE Restored
  <2>1. phase' = phase /\ disk' = disk /\ NTask' = NTask
    BY <1>6 DEF Restored, ioVars, io
  <2>. QED BY <1>0, <1>6, <2>1, QuietStep DEF Restored, Busy
<1>14. CASE NoHeader
  <2>1. phase' = phase /\ disk' = disk /\ NTask' = NTask
    BY <1>14 DEF NoHeader, ioVars, io
  <2>. QED BY <1>0, <1>14, <2>1, QuietStep DEF NoHeader, Busy
<1>7. CASE UNCHANGED vars
  <2>1. /\ UNCHANGED <<NTask, op, phase, left, bb, rows, rt, group, disk>>
        /\ UNCHANGED <<pc, starts, parts, NTotal, block, header>>
    BY <1>7 DEF vars, ioVars, io
  <2>2. RunInv' /\ DiskInv'
    BY <2>1 DEF SnapInv, RunInv, DiskInv, Tables, Ranks
  <2>3. \A g, r : Members(g)' = Members(g) /\ myoffset(r)' = myoffset(r) /\ Groups' = Groups
    BY <2>1 DEF Members, Ranks, myoffset, Groups
  <2>4. \A g, s : InSegment(g, s)' = InSegment(g, s)
    BY <2>1, <2>3 DEF InSegment
  <2>5. \A g : At(g)' = At(g)
    BY <2>1 DEF At
  <2>6. CallInv' = CallInv /\ BlockInv' = BlockInv
    BY <2>1 DEF CallInv, BlockInv, Segmented, Ranks
  <2>7. \A g : SegmentInv(g)' = SegmentInv(g)
    BY <2>1, <2>4, <2>5 DEF SegmentInv, SegmentOffset, myoffset
  <2>8. IOInv'
    BY <2>1, <2>3, <2>6, <2>7 DEF SnapInv, IOInv
  <2>. QED BY <2>2, <2>8 DEF SnapInv
<1>8. CASE WriteHeader
  BY <1>8, WriteHeaderStep
<1>9. CASE SaveBlock
  BY <1>9, SaveBlockStep
<1>10. CASE Collective
  BY <1>10, CollectiveStep
<1>11. CASE BeginRead
  BY <1>11, BeginReadStep
<1>12. CASE ReadBlock
  BY <1>12, ReadBlockStep
<1>13. CASE ReadOut
  BY <1>13, ReadOutStep
<1>. QED BY <1>1, <1>2, <1>3, <1>4, <1>5, <1>6, <1>7, <1>8, <1>9, <1>10, <1>11, <1>12, <1>13,
         <1>14 DEF Next, Work, Ended

\* However many ranks, files, writers and faults there are, in every state of
\* a snapshot that is written or read the ranks that access the files of a
\* block are not more than it allows, and no two of them have the same rows
\* before them.
THEOREM WritersApartHolds == Spec => []WritersApart
<1>1. Spec => []SnapInv
  BY SnapInit, SnapStep, PTL DEF Spec
<1>2. SnapInv => WritersApart
  BY InvApart
<1>. QED BY <1>1, <1>2, PTL

=============================================================================
