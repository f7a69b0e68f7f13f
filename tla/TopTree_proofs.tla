--------------------------- MODULE TopTree_proofs ---------------------------
(***************************************************************************)
(* Proofs about the walk over the top-level tree, for every number of      *)
(* threads, queue, size of the tables and of the chunks: the entries of a  *)
(* particle are all handed over in one pass, and the walk implements the   *)
(* rounds of work.                                                         *)
(***************************************************************************)
EXTENDS TopTree, DataLemmas

TypeInv ==
  /\ exports \in [Queue -> 0..MaxExports]
  /\ phase \in {"walk", "exchange", "done"} \cup Errors
  /\ pc \in [Threads -> {"grab", "visit", "out"}]
  /\ currentIndex \in Nat
  /\ chnk \in [Threads -> Nat] /\ k \in [Threads -> Nat] /\ end \in [Threads -> Nat]
  /\ chnksz \in [Threads -> 1..MaxChunk]
  /\ table \in [Threads -> Seq(Queue)]
  /\ full \in [Threads -> BOOLEAN]
  /\ QueueChunkRestart \in [Threads -> Nat]
  /\ QueueChunkEnd \in [Threads -> {-1} \cup 1..WorkSetSize]
  /\ Nexportfull \in Nat
  /\ sent \in [Queue -> Nat]

\* The part of the queue a thread has in hand: what is left of its chunk, or
\* of the chunk it has broken off.
Held(t) ==
  IF pc[t] = "visit" THEN k[t]..end[t]-1
  ELSE IF QueueChunkEnd[t] > 0 THEN QueueChunkRestart[t]..QueueChunkEnd[t]-1
  ELSE {}

\* Nobody has dealt with the particle yet.
Fresh(i) == currentIndex <= i \/ \E t \in Threads : i \in Held(t)

\* Where the entries of a particle are: EntriesOf counts them.
Places(i) == UNION {{<<t, n>> : n \in {m \in DOMAIN table[t] : table[t][m] = i}} : t \in Threads}

\* A thread goes through the queue upwards, and its table keeps that order.  A
\* chunk broken off is taken up again before anything else is exported.
ThreadInv(t) ==
  /\ Len(table[t]) <= BunchSize
  /\ \A n \in DOMAIN table[t] :
       /\ table[t][n] < currentIndex
       /\ pc[t] = "visit" => table[t][n] < k[t]
  /\ pc[t] = "visit" =>
       /\ end[t] <= WorkSetSize /\ end[t] <= currentIndex /\ chnk[t] <= currentIndex
       /\ QueueChunkEnd[t] = -1
  /\ QueueChunkEnd[t] > 0 =>
       /\ QueueChunkRestart[t] < QueueChunkEnd[t] /\ QueueChunkEnd[t] <= currentIndex
       /\ pc[t] = "grab" => Nexportfull > 0 /\ table[t] = <<>>
  /\ full[t] <=> pc[t] = "out" /\ QueueChunkEnd[t] > 0
  /\ pc[t] = "out" /\ ~full[t] => currentIndex >= WorkSetSize

\* No particle is in the hands of two threads.
HeldApart == \A t, u \in Threads : t # u => Held(t) \cap Held(u) = {}

PhaseInv ==
  /\ phase # "screwed_up"
  /\ phase = "exchange" => \A t \in Threads : pc[t] = "out"
  /\ phase = "done" =>
       /\ currentIndex >= WorkSetSize
       /\ \A t \in Threads : pc[t] = "grab" /\ QueueChunkEnd[t] = -1 /\ table[t] = <<>>

\* Each particle has none of its entries or all of them, in the tables or
\* exchanged, and none before a thread has dealt with it.
EntriesInv(i) ==
  /\ IsFiniteSet(Places(i))
  /\ IF Fresh(i) THEN sent[i] = 0 /\ Places(i) = {}
     ELSE \/ sent[i] = exports[i] /\ Places(i) = {}
          \/ sent[i] = 0 /\ EntriesOf(i) = exports[i]

Inv ==
  /\ TypeInv
  /\ \A t \in Threads : ThreadInv(t)
  /\ HeldApart
  /\ PhaseInv
  /\ \A i \in Queue : EntriesInv(i)

----------------------------------------------------------------------------
(* Sizes and tables.                                                       *)

\* The first chunk of a thread has at least one particle.
LEMMA FirstChunkType == FirstChunk \in 1..MaxChunk
<1>1. Cardinality(Threads) \in Nat \ {0}
  BY TopTreeAssumption, FS_CardinalityType, FS_EmptySet
<1>2. ChunksPerThread * Cardinality(Threads) \in Nat \ {0}
  BY <1>1, TopTreeAssumption
<1>3. WorkSetSize \div (ChunksPerThread * Cardinality(Threads)) \in Int
  BY <1>2, TopTreeAssumption
<1>. QED BY <1>3, TopTreeAssumption DEF FirstChunk, Lower

\* A chunk is halved but never empty.
LEMMA NextSizeType ==
  ASSUME NEW last, NEW size \in 1..MaxChunk
  PROVE  NextSize(last, size) \in 1..MaxChunk
BY TopTreeAssumption DEF NextSize

\* What Places contains.
LEMMA PlacesMembers ==
  ASSUME NEW i
  PROVE  /\ \A t \in Threads : \A n \in DOMAIN table[t] :
              <<t, n>> \in Places(i) <=> table[t][n] = i
         /\ \A x \in Places(i) :
              \E t \in Threads : \E n \in DOMAIN table[t] : x = <<t, n>> /\ table[t][n] = i
BY DEF Places

\* A table holds particles of the queue.
LEMMA QueueSeq ==
  ASSUME NEW s \in Seq(Queue)
  PROVE  /\ Len(s) \in Nat /\ DOMAIN s = 1..Len(s)
         /\ \A n \in DOMAIN s : s[n] \in Queue /\ s[n] \in Nat
<1>1. \A i \in Queue : i \in Nat
  BY TopTreeAssumption DEF Queue
<1>. HIDE DEF Queue
<1>. QED BY <1>1, LenProperties

\* So does the table of each thread.
LEMMA TableType ==
  ASSUME TypeInv, NEW t \in Threads
  PROVE  /\ table[t] \in Seq(Queue) /\ Len(table[t]) \in Nat
         /\ DOMAIN table[t] = 1..Len(table[t])
         /\ \A n \in DOMAIN table[t] : table[t][n] \in Queue /\ table[t][n] \in Nat
<1>1. table[t] \in Seq(Queue)
  BY DEF TypeInv
<1>. QED BY <1>1, QueueSeq

\* As many pairs as numbers.
LEMMA PairsCount ==
  ASSUME NEW t, NEW N, NEW S, IsFiniteSet(N),
         \A n \in N : <<t, n>> \in S,
         \A x \in S : \E n \in N : x = <<t, n>>
  PROVE  IsFiniteSet(S) /\ Cardinality(S) = Cardinality(N)
<1>. DEFINE f == [n \in N |-> <<t, n>>]
<1>1. f \in Bijection(N, S)
  <2>1. f \in [N -> S]
    OBVIOUS
  <2>2. \A n, m \in N : f[n] = f[m] => n = m
    OBVIOUS
  <2>3. \A x \in S : \E n \in N : f[n] = x
    OBVIOUS
  <2>. HIDE DEF f
  <2>4. f \in Injection(N, S)
    BY <2>1, <2>2 DEF Injection, IsInjective
  <2>5. f \in Surjection(N, S)
    BY <2>1, <2>3 DEF Surjection
  <2>. QED BY <2>4, <2>5 DEF Bijection
<1>. QED BY <1>1, FS_Bijection DEF ExistsBijection

\* A particle with no place has no entries.
LEMMA NoPlaces ==
  ASSUME NEW i, IsFiniteSet(Places(i))
  PROVE  EntriesOf(i) \in Nat /\ (EntriesOf(i) = 0 <=> Places(i) = {})
BY FS_CardinalityType, FS_EmptySet DEF EntriesOf, Places

\* The entries of a particle that fits come at the end of the table.
LEMMA Appended ==
  ASSUME Inv, NEW t \in Threads, NEW i \in Queue
  PROVE  /\ table[t] \o Entries(i) \in Seq(Queue)
         /\ Len(table[t] \o Entries(i)) = Len(table[t]) + exports[i]
         /\ \A n \in 1..Len(table[t]) : (table[t] \o Entries(i))[n] = table[t][n]
         /\ \A n \in Len(table[t]) + 1 .. Len(table[t]) + exports[i] :
              (table[t] \o Entries(i))[n] = i
<1>1. table[t] \in Seq(Queue) /\ exports[i] \in Nat
  BY TopTreeAssumption DEF Inv, TypeInv
<1>2. Entries(i) \in Seq(Queue) /\ Len(Entries(i)) = exports[i]
  BY <1>1 DEF Entries
<1>3. \A n \in 1..exports[i] : Entries(i)[n] = i
  BY DEF Entries
<1>. HIDE DEF Entries, Queue
<1>4. /\ table[t] \o Entries(i) \in Seq(Queue)
      /\ Len(table[t] \o Entries(i)) = Len(table[t]) + exports[i]
      /\ \A n \in 1..Len(table[t]) : (table[t] \o Entries(i))[n] = table[t][n]
      /\ \A n \in 1..Len(table[t] \o Entries(i)) : n > Len(table[t]) =>
           (table[t] \o Entries(i))[n] = Entries(i)[n - Len(table[t])]
  <2>. DEFINE a == table[t]
              b == Entries(i)
  <2>1. a \in Seq(Queue) /\ b \in Seq(Queue) /\ Len(b) = exports[i]
    BY <1>1, <1>2
  <2>. HIDE DEF a, b
  <2>2. /\ a \o b \in Seq(Queue) /\ Len(a \o b) = Len(a) + exports[i]
        /\ \A n \in 1..Len(a) : (a \o b)[n] = a[n]
        /\ \A n \in 1..Len(a \o b) : n > Len(a) => (a \o b)[n] = b[n - Len(a)]
    BY <2>1, ConcatProperties, LenProperties, SMTT(30)
  <2>. QED BY <2>2 DEF a, b
<1>5. \A n \in Len(table[t]) + 1 .. Len(table[t]) + exports[i] :
        n - Len(table[t]) \in 1..exports[i] /\ n > Len(table[t])
  BY <1>1
<1>. QED BY <1>1, <1>3, <1>4, <1>5

----------------------------------------------------------------------------
(* The invariant.                                                          *)

\* Nothing is in hand at the start.
LEMMA InvInit == Init => Inv
<1>. SUFFICES ASSUME Init PROVE Inv
  OBVIOUS
<1>. USE TopTreeAssumption DEF Init
<1>1. TypeInv
  <2>1. 0..MaxExports \subseteq Nat /\ -1 \in {-1} \cup 1..WorkSetSize
    OBVIOUS
  <2>2. chnksz \in [Threads -> 1..MaxChunk]
    BY FirstChunkType DEF Each
  <2>. QED BY <2>1, <2>2 DEF TypeInv, Each
<1>2. \A t \in Threads : ThreadInv(t) /\ Held(t) = {}
  BY DEF ThreadInv, Held, Each
<1>3. \A i \in Queue : Fresh(i)
  BY DEF Fresh, Queue
<1>4. \A i \in Queue : Places(i) = {}
  BY DEF Places, Each
<1>5. \A i \in Queue : EntriesInv(i)
  BY <1>3, <1>4, FS_EmptySet DEF EntriesInv
<1>. QED BY <1>1, <1>2, <1>5 DEF Inv, HeldApart, PhaseInv

\* Where neither the tables nor the parts in hand change, the entries are as
\* they were.
LEMMA EntriesKept ==
  ASSUME Inv, UNCHANGED <<exports, table, sent>>,
         \A i \in Queue : Fresh(i)' <=> Fresh(i)
  PROVE  \A i \in Queue : EntriesInv(i)'
<1>1. \A i \in Queue : EntriesInv(i)
  BY DEF Inv
<1>2. \A i \in Queue : Places(i)' = Places(i) /\ EntriesOf(i)' = EntriesOf(i)
  BY DEF Places, EntriesOf
<1>. QED BY <1>1, <1>2 DEF EntriesInv

\* What threads have in hand has been taken from the queue.
LEMMA HeldTaken ==
  ASSUME Inv, NEW t \in Threads, NEW i \in Held(t)
  PROVE  i \in Nat /\ i < currentIndex /\ i < WorkSetSize
<1>1. /\ ThreadInv(t) /\ k[t] \in Nat /\ end[t] \in Nat /\ QueueChunkRestart[t] \in Nat
      /\ QueueChunkEnd[t] \in {-1} \cup 1..WorkSetSize /\ currentIndex \in Nat
  BY DEF Inv, TypeInv
<1>. QED BY <1>1, TopTreeAssumption DEF Held, ThreadInv

\* A chunk taken up again is what the thread had in hand; a new one nobody had.
LEMMA GrabInv == ASSUME Inv, NEW t \in Threads, Grab(t) PROVE Inv'
<1>. USE DEF Grab
<1>a. TypeInv /\ ThreadInv(t) /\ QueueChunkEnd[t] \in {-1} \cup 1..WorkSetSize
  BY DEF Inv, TypeInv
<1>b. /\ phase = "walk" /\ pc[t] = "grab"
      /\ UNCHANGED <<exports, phase, table, full, QueueChunkRestart, WorkSetStart, Nexportfull, sent>>
  BY DEF passes
<1>c. WorkSetSize \in Nat /\ currentIndex \in Nat /\ chnksz[t] \in 1..MaxChunk /\ chnksz[t] \in Nat
  BY <1>a, TopTreeAssumption DEF TypeInv
<1>1. /\ chnk' = [chnk EXCEPT ![t] = chnk'[t]]
      /\ end' = [end EXCEPT ![t] = end'[t]]
      /\ k' = [k EXCEPT ![t] = chnk'[t]]
      /\ pc' = [pc EXCEPT ![t] = "visit"]
      /\ QueueChunkEnd' = [QueueChunkEnd EXCEPT ![t] = -1]
      /\ currentIndex' \in Nat /\ currentIndex <= currentIndex'
      /\ chnk'[t] \in Nat /\ end'[t] \in Nat
      /\ end'[t] <= WorkSetSize /\ end'[t] <= currentIndex' /\ chnk'[t] <= currentIndex'
      /\ \A n \in DOMAIN table[t] : table[t][n] < chnk'[t]
      /\ Held(t) \subseteq chnk'[t]..end'[t]-1
      /\ \A i \in chnk'[t]..end'[t]-1 : i \in Held(t) \/ i >= currentIndex
      /\ \A i \in Queue : i >= currentIndex =>
           i >= currentIndex' \/ i \in chnk'[t]..end'[t]-1
  <2>1. CASE MayResume(t)
    <3>1. /\ chnk'[t] = QueueChunkRestart[t] /\ end'[t] = QueueChunkEnd[t]
          /\ currentIndex' = currentIndex
          /\ chnk' = [chnk EXCEPT ![t] = chnk'[t]] /\ end' = [end EXCEPT ![t] = end'[t]]
          /\ QueueChunkEnd' = [QueueChunkEnd EXCEPT ![t] = -1]
      BY <1>a, <2>1 DEF RestartAt, TypeInv
    <3>2. /\ QueueChunkEnd[t] > 0 /\ QueueChunkEnd[t] <= currentIndex
          /\ QueueChunkRestart[t] < QueueChunkEnd[t] /\ table[t] = <<>>
      BY <1>a, <1>b, <2>1 DEF MayResume, ThreadInv
    <3>3. QueueChunkRestart[t] \in Nat
      BY <1>a DEF TypeInv
    <3>4. Held(t) = QueueChunkRestart[t]..QueueChunkEnd[t]-1
      BY <1>b, <3>2 DEF Held
    <3>5. k' = [k EXCEPT ![t] = chnk'[t]] /\ pc' = [pc EXCEPT ![t] = "visit"]
      OBVIOUS
    <3>. HIDE DEF Grab
    <3>. QED BY <1>a, <1>c, <3>1, <3>2, <3>3, <3>4, <3>5
  <2>2. CASE ~MayResume(t)
    <3>1. /\ chnk'[t] = currentIndex /\ end'[t] = Lower(currentIndex + chnksz[t], WorkSetSize)
          /\ currentIndex' = currentIndex + chnksz[t]
          /\ chnk' = [chnk EXCEPT ![t] = chnk'[t]] /\ end' = [end EXCEPT ![t] = end'[t]]
          /\ UNCHANGED QueueChunkEnd
      BY <1>a, <2>2 DEF TypeInv
    <3>2. QueueChunkEnd[t] = -1 /\ Held(t) = {}
      <4>1. ~(QueueChunkEnd[t] > 0)
        BY <1>a, <1>b, <2>2 DEF MayResume, ThreadInv
      <4>2. QueueChunkEnd[t] = -1
        BY <1>a, <4>1, TopTreeAssumption
      <4>. QED BY <1>b, <4>2 DEF Held
    <3>3. QueueChunkEnd' = [QueueChunkEnd EXCEPT ![t] = -1]
      BY <1>a, <3>1, <3>2 DEF TypeInv
    <3>4. \A n \in DOMAIN table[t] : table[t][n] < currentIndex
      BY <1>a DEF ThreadInv
    <3>5. k' = [k EXCEPT ![t] = chnk'[t]] /\ pc' = [pc EXCEPT ![t] = "visit"]
      OBVIOUS
    <3>. HIDE DEF Grab
    <3>6. /\ end'[t] \in Nat /\ end'[t] <= WorkSetSize /\ end'[t] <= currentIndex'
          /\ currentIndex' \in Nat /\ currentIndex <= currentIndex'
      BY <1>c, <3>1 DEF Lower
    <3>7. \A i \in Queue : i >= currentIndex =>
            i >= currentIndex' \/ i \in chnk'[t]..end'[t]-1
      BY <1>c, <3>1 DEF Lower, Queue
    <3>8. \A i \in chnk'[t]..end'[t]-1 : i >= currentIndex
      BY <1>c, <3>1, <3>6
    <3>9. chnk'[t] \in Nat /\ chnk'[t] <= currentIndex'
      BY <1>c, <3>1, <3>6
    <3>. QED BY <3>1, <3>2, <3>3, <3>4, <3>5, <3>6, <3>7, <3>8, <3>9
  <2>. QED BY <2>1, <2>2
<1>2. chnksz' = [chnksz EXCEPT ![t] = chnksz'[t]] /\ chnksz'[t] \in 1..MaxChunk
  BY <1>a, <1>c, NextSizeType DEF TypeInv
<1>. HIDE DEF Grab
<1>3. TypeInv'
  BY <1>a, <1>b, <1>1, <1>2 DEF TypeInv
<1>4. Held(t)' = chnk'[t]..end'[t]-1 /\ \A u \in Threads \ {t} : Held(u)' = Held(u)
  BY <1>a, <1>b, <1>1 DEF TypeInv, Held
<1>5. \A u \in Threads : ThreadInv(u)'
  <2>1. ThreadInv(t)'
    <3>1. /\ pc'[t] = "visit" /\ QueueChunkEnd'[t] = -1 /\ k'[t] = chnk'[t]
          /\ full'[t] = FALSE
      BY <1>a, <1>b, <1>1 DEF TypeInv, ThreadInv
    <3>2. \A n \in DOMAIN table[t] : table[t][n] \in Nat
      BY <1>a, TableType
    <3>3. /\ end'[t] <= WorkSetSize /\ end'[t] <= currentIndex' /\ chnk'[t] <= currentIndex'
          /\ \A n \in DOMAIN table[t] : table[t][n] < chnk'[t] /\ table[t][n] < currentIndex'
      BY <1>c, <1>1, <3>2
    <3>4. Len(table[t]) <= BunchSize /\ table' = table
      BY <1>a, <1>b DEF ThreadInv
    <3>5. ~(QueueChunkEnd'[t] > 0) /\ pc'[t] # "out" /\ ~full'[t]
      BY <3>1
    <3>. QED BY <3>1, <3>3, <3>4, <3>5 DEF ThreadInv
  <2>2. ASSUME NEW u \in Threads \ {t} PROVE ThreadInv(u)'
    <3>1. ThreadInv(u) /\ table[u] \in Seq(Queue) /\ QueueChunkEnd[u] \in {-1} \cup 1..WorkSetSize
      BY <1>a DEF Inv, TypeInv
    <3>2. \A n \in DOMAIN table[u] : table[u][n] \in Nat
      BY <1>a, TableType
    <3>3. /\ pc'[u] = pc[u] /\ QueueChunkEnd'[u] = QueueChunkEnd[u] /\ k'[u] = k[u]
          /\ full'[u] = full[u] /\ chnk'[u] = chnk[u] /\ end'[u] = end[u]
          /\ chnk[u] \in Nat /\ end[u] \in Nat
      BY <1>a, <1>b, <1>1 DEF TypeInv
    <3>. QED BY <1>a, <1>b, <1>c, <1>1, <3>1, <3>2, <3>3 DEF ThreadInv
  <2>. QED BY <2>1, <2>2
<1>6. HeldApart'
  <2>1. \A u \in Threads : \A i \in Held(u) : i \in Nat /\ i < currentIndex
    BY HeldTaken
  <2>. QED BY <1>1, <1>4, <2>1, <1>c DEF Inv, HeldApart
<1>7. \A i \in Queue : EntriesInv(i)'
  <2>1. \A i \in Queue : Fresh(i)' <=> Fresh(i)
    <3>1. ASSUME NEW i \in Queue, Fresh(i) PROVE Fresh(i)'
      BY <1>1, <1>4, <3>1, <1>c, TopTreeAssumption DEF Fresh, Queue
    <3>2. ASSUME NEW i \in Queue, Fresh(i)' PROVE Fresh(i)
      BY <1>1, <1>4, <3>2, <1>c, TopTreeAssumption DEF Fresh, Queue
    <3>. QED BY <3>1, <3>2
  <2>. QED BY <1>b, <2>1, EntriesKept
<1>8. PhaseInv'
  BY <1>b, <1>1 DEF Inv, PhaseInv
<1>. QED BY <1>3, <1>5, <1>6, <1>7, <1>8 DEF Inv

\* Where a particle is, when the table of one thread grows.
LEMMA PlacesGrow ==
  ASSUME Inv, NEW t \in Threads, NEW j \in Queue, Places(j) = {},
         table' = [table EXCEPT ![t] = @ \o Entries(j)], exports' = exports
  PROVE  /\ \A i \in Queue \ {j} : Places(i)' = Places(i)
         /\ IsFiniteSet(Places(j)') /\ EntriesOf(j)' = exports[j]
<1>1. TypeInv /\ exports[j] \in Nat /\ table \in [Threads -> Seq(Queue)]
  <2>1. exports[j] \in Nat
    BY TopTreeAssumption DEF Inv, TypeInv
  <2>. QED BY <2>1 DEF Inv, TypeInv
<1>2. /\ table'[t] \in Seq(Queue) /\ Len(table'[t]) = Len(table[t]) + exports[j]
      /\ \A n \in 1..Len(table[t]) : table'[t][n] = table[t][n]
      /\ \A n \in Len(table[t]) + 1 .. Len(table[t]) + exports[j] : table'[t][n] = j
  <2>1. table'[t] = table[t] \o Entries(j)
    BY <1>1
  <2>. QED BY <2>1, Appended
<1>3. \A u \in Threads \ {t} : table'[u] = table[u]
  BY <1>1
<1>4. DOMAIN table[t] = 1..Len(table[t]) /\ Len(table[t]) \in Nat
  BY <1>1, TableType
<1>5. DOMAIN table'[t] = 1..Len(table[t]) + exports[j]
  BY <1>2, LenProperties
<1>6. ASSUME NEW i \in Queue \ {j} PROVE Places(i)' = Places(i)
  <2>1. {m \in DOMAIN table'[t] : table'[t][m] = i} = {m \in DOMAIN table[t] : table[t][m] = i}
    BY <1>1, <1>2, <1>4, <1>5, <1>6
  <2>2. \A u \in Threads : {m \in DOMAIN table'[u] : table'[u][m] = i}
                           = {m \in DOMAIN table[u] : table[u][m] = i}
    BY <1>3, <2>1
  <2>. QED BY <2>2 DEF Places
<1>7. IsFiniteSet(Places(j)') /\ EntriesOf(j)' = exports[j]
  <2>. DEFINE N == Len(table[t]) + 1 .. Len(table[t]) + exports[j]
  <2>1. \A u \in Threads : \A m \in DOMAIN table[u] : table[u][m] # j
    BY PlacesMembers
  <2>2. \A u \in Threads \ {t} : {m \in DOMAIN table'[u] : table'[u][m] = j} = {}
    BY <1>3, <2>1
  <2>3. {m \in DOMAIN table'[t] : table'[t][m] = j} = N
    BY <1>1, <1>2, <1>4, <1>5, <2>1
  <2>4. /\ \A n \in N : <<t, n>> \in Places(j)'
        /\ \A x \in Places(j)' : \E n \in N : x = <<t, n>>
    BY <2>2, <2>3 DEF Places
  <2>5. IsFiniteSet(N) /\ Cardinality(N) = exports[j]
    <3>. DEFINE a == Len(table[t]) + 1
                b == Len(table[t]) + exports[j]
    <3>1. a \in Int /\ b \in Int /\ (IF a > b THEN 0 ELSE b-a+1) = exports[j]
      BY <1>1, <1>4
    <3>. HIDE DEF a, b
    <3>2. IsFiniteSet(a..b) /\ Cardinality(a..b) = exports[j]
      BY <3>1, FS_Interval
    <3>. QED BY <3>2 DEF a, b
  <2>. HIDE DEF N
  <2>6. IsFiniteSet(Places(j)') /\ Cardinality(Places(j)') = exports[j]
    BY <2>4, <2>5, PairsCount
  <2>. QED BY <2>6 DEF EntriesOf, Places
<1>. QED BY <1>6, <1>7

\* The entries of the particle the thread visits all go into its table.
LEMMA VisitInv == ASSUME Inv, NEW t \in Threads, Visit(t) PROVE Inv'
<1>a. /\ TypeInv /\ ThreadInv(t) /\ HeldApart
      /\ k[t] \in Nat /\ end[t] \in Nat /\ currentIndex \in Nat /\ WorkSetSize \in Nat
  BY TopTreeAssumption DEF Inv, TypeInv
<1>b. /\ phase = "walk" /\ pc[t] = "visit" /\ k[t] < end[t] /\ exports[k[t]] <= Room(t)
      /\ table' = [table EXCEPT ![t] = @ \o Entries(k[t])]
      /\ k' = [k EXCEPT ![t] = @ + 1]
      /\ UNCHANGED <<exports, phase, pc, currentIndex, chnk, end, chnksz, full,
                     QueueChunkRestart, QueueChunkEnd, WorkSetStart, Nexportfull, sent>>
  BY DEF Visit, resume, passes
<1>1. /\ end[t] <= WorkSetSize /\ end[t] <= currentIndex /\ QueueChunkEnd[t] = -1
      /\ \A n \in DOMAIN table[t] : table[t][n] < k[t]
      /\ k[t] \in Queue /\ Held(t) = k[t]..end[t]-1 /\ k[t] \in Held(t)
  BY <1>a, <1>b DEF ThreadInv, Held, Queue
<1>2. /\ table'[t] \in Seq(Queue) /\ Len(table'[t]) = Len(table[t]) + exports[k[t]]
      /\ \A n \in 1..Len(table[t]) : table'[t][n] = table[t][n]
      /\ \A n \in Len(table[t]) + 1 .. Len(table[t]) + exports[k[t]] : table'[t][n] = k[t]
  <2>1. table'[t] = table[t] \o Entries(k[t])
    BY <1>a, <1>b DEF TypeInv
  <2>2. /\ table[t] \o Entries(k[t]) \in Seq(Queue)
        /\ Len(table[t] \o Entries(k[t])) = Len(table[t]) + exports[k[t]]
        /\ \A n \in 1..Len(table[t]) : (table[t] \o Entries(k[t]))[n] = table[t][n]
        /\ \A n \in Len(table[t]) + 1 .. Len(table[t]) + exports[k[t]] :
             (table[t] \o Entries(k[t]))[n] = k[t]
    BY <1>1, Appended
  <2>. QED BY <2>1, <2>2
<1>3. exports[k[t]] \in Nat
  BY <1>a, <1>1, TopTreeAssumption DEF TypeInv
<1>4. TypeInv'
  <2>1. table' \in [Threads -> Seq(Queue)]
    BY <1>a, <1>b, <1>2 DEF TypeInv
  <2>2. k' \in [Threads -> Nat]
    BY <1>a, <1>b DEF TypeInv
  <2>. QED BY <1>a, <1>b, <2>1, <2>2 DEF TypeInv
<1>5. Held(t)' = Held(t) \ {k[t]} /\ \A u \in Threads \ {t} : Held(u)' = Held(u)
  <2>1. Held(t)' = k[t] + 1 .. end[t]-1
    BY <1>a, <1>b DEF Held, TypeInv
  <2>2. \A u \in Threads \ {t} : Held(u)' = Held(u)
    BY <1>a, <1>b DEF Held, TypeInv
  <2>. QED BY <1>a, <1>1, <2>1, <2>2
<1>6. \A u \in Threads : ThreadInv(u)'
  <2>1. ThreadInv(t)'
    <3>1. k'[t] = k[t] + 1
      BY <1>a, <1>b DEF TypeInv
    <3>2. Len(table'[t]) <= BunchSize
      BY <1>a, <1>b, <1>2, <1>3, TableType, TopTreeAssumption DEF Room
    <3>3. \A n \in DOMAIN table'[t] : table'[t][n] <= k[t]
      <4>1. DOMAIN table'[t] = 1..Len(table[t]) + exports[k[t]]
        BY <1>2, LenProperties
      <4>2. DOMAIN table[t] = 1..Len(table[t]) /\ Len(table[t]) \in Nat
            /\ \A n \in DOMAIN table[t] : table[t][n] \in Nat
        BY <1>a, TableType
      <4>3. ASSUME NEW n \in DOMAIN table'[t] PROVE table'[t][n] <= k[t]
        <5>1. CASE n \in 1..Len(table[t])
          BY <1>a, <1>1, <1>2, <4>2, <5>1
        <5>2. CASE n \in Len(table[t]) + 1 .. Len(table[t]) + exports[k[t]]
          BY <1>a, <1>2, <5>2
        <5>. QED BY <1>3, <4>1, <4>2, <4>3, <5>1, <5>2
      <4>. QED BY <4>3
    <3>4. \A n \in DOMAIN table'[t] : table'[t][n] < k[t] + 1 /\ table'[t][n] < currentIndex
      <4>1. \A n \in DOMAIN table'[t] : table'[t][n] \in Nat
        BY <1>2, QueueSeq
      <4>2. k[t] \in Nat /\ k[t] < currentIndex /\ currentIndex \in Nat
        BY <1>a, <1>b, <1>1
      <4>. QED BY <3>3, <4>1, <4>2
    <3>. QED BY <1>a, <1>b, <1>1, <3>1, <3>2, <3>4 DEF ThreadInv
  <2>2. ASSUME NEW u \in Threads \ {t} PROVE ThreadInv(u)'
    <3>1. ThreadInv(u)
      BY DEF Inv
    <3>2. table'[u] = table[u] /\ k'[u] = k[u]
      BY <1>a, <1>b DEF TypeInv
    <3>. QED BY <1>b, <3>1, <3>2 DEF ThreadInv
  <2>. QED BY <2>1, <2>2
<1>7. HeldApart'
  BY <1>a, <1>5 DEF HeldApart
<1>8. \A i \in Queue : EntriesInv(i)'
  <2>. PICK j \in Queue : j = k[t]
    BY <1>1
  <2>1. sent[j] = 0 /\ Places(j) = {}
    BY <1>1 DEF Inv, EntriesInv, Fresh
  <2>2. /\ \A i \in Queue \ {j} : Places(i)' = Places(i)
        /\ IsFiniteSet(Places(j)') /\ EntriesOf(j)' = exports[j]
    BY <1>b, <2>1, PlacesGrow
  <2>3. \A i \in Queue \ {j} : Fresh(i)' <=> Fresh(i)
    BY <1>b, <1>5 DEF Fresh
  <2>4. ~Fresh(j)'
    <3>1. \A u \in Threads \ {t} : j \notin Held(u)
      BY <1>a, <1>1 DEF HeldApart
    <3>. QED BY <1>a, <1>b, <1>1, <1>5, <3>1 DEF Fresh
  <2>5. EntriesInv(j)'
    BY <1>b, <2>1, <2>2, <2>4 DEF EntriesInv
  <2>6. ASSUME NEW i \in Queue \ {j} PROVE EntriesInv(i)'
    <3>1. EntriesInv(i) /\ EntriesOf(i)' = EntriesOf(i)
      BY <2>2 DEF Inv, EntriesOf, Places
    <3>. QED BY <1>b, <2>2, <2>3, <3>1 DEF EntriesInv
  <2>. QED BY <2>5, <2>6
<1>9. PhaseInv'
  BY <1>b DEF Inv, PhaseInv
<1>. QED BY <1>4, <1>6, <1>7, <1>8, <1>9 DEF Inv

\* What does not fit into an empty table fits into none, so the table holds
\* entries of earlier particles; the rest of the chunk stays in hand.
LEMMA BufferFullInv == ASSUME Inv, NEW t \in Threads, BufferFull(t) PROVE Inv'
<1>a. /\ TypeInv /\ ThreadInv(t)
      /\ k[t] \in Nat /\ end[t] \in Nat /\ currentIndex \in Nat /\ WorkSetSize \in Nat
  BY TopTreeAssumption DEF Inv, TypeInv
<1>b. /\ phase = "walk" /\ pc[t] = "visit" /\ k[t] < end[t] /\ exports[k[t]] > Room(t)
      /\ phase' = IF Room(t) > 0 /\ Last(table[t]) >= k[t] THEN "screwed_up" ELSE phase
      /\ full' = [full EXCEPT ![t] = TRUE]
      /\ QueueChunkRestart' = [QueueChunkRestart EXCEPT ![t] = k[t]]
      /\ QueueChunkEnd' = [QueueChunkEnd EXCEPT ![t] = end[t]]
      /\ pc' = [pc EXCEPT ![t] = "out"]
      /\ UNCHANGED <<exports, currentIndex, chnk, k, end, chnksz, WorkSetStart, Nexportfull, sent>>
  BY DEF BufferFull, chunks, passes
<1>c. table' = table
  BY <1>a DEF BufferFull, WithoutPartial, TypeInv
<1>1. /\ end[t] <= WorkSetSize /\ end[t] <= currentIndex /\ end[t] \in 1..WorkSetSize
      /\ \A n \in DOMAIN table[t] : table[t][n] < k[t]
      /\ k[t] \in Queue
  BY <1>a, <1>b DEF ThreadInv, Queue
<1>2. phase' = "walk"
  <2>1. ASSUME Room(t) > 0 PROVE ~(Last(table[t]) >= k[t])
    <3>1. exports[k[t]] \in Nat /\ exports[k[t]] <= BunchSize
      <4>1. exports[k[t]] \in 0..MaxExports
        BY <1>a, <1>1 DEF TypeInv
      <4>. QED BY <4>1, TopTreeAssumption
    <3>2. Len(table[t]) \in Nat /\ Len(table[t]) # 0
      BY <1>a, <1>b, <3>1, TableType, TopTreeAssumption DEF Room
    <3>3. Len(table[t]) \in DOMAIN table[t]
      BY <1>a, <3>2, TableType
    <3>4. Last(table[t]) = table[t][Len(table[t])]
      BY DEF Last
    <3>. QED BY <1>a, <1>1, <3>3, <3>4, TableType
  <2>. QED BY <1>b, <2>1
<1>3. TypeInv'
  BY <1>a, <1>b, <1>c, <1>1, <1>2 DEF TypeInv
<1>4. /\ pc'[t] = "out" /\ QueueChunkEnd'[t] = end[t] /\ QueueChunkRestart'[t] = k[t]
      /\ full'[t] = TRUE
      /\ \A u \in Threads \ {t} :
           /\ pc'[u] = pc[u] /\ QueueChunkEnd'[u] = QueueChunkEnd[u]
           /\ QueueChunkRestart'[u] = QueueChunkRestart[u] /\ full'[u] = full[u]
  BY <1>a, <1>b DEF TypeInv
<1>5. \A u \in Threads : Held(u)' = Held(u)
  BY <1>a, <1>b, <1>1, <1>4 DEF Held
<1>6. \A u \in Threads : ThreadInv(u)'
  <2>1. ThreadInv(t)'
    BY <1>a, <1>b, <1>c, <1>1, <1>4 DEF ThreadInv
  <2>2. ASSUME NEW u \in Threads \ {t} PROVE ThreadInv(u)'
    <3>1. ThreadInv(u)
      BY DEF Inv
    <3>. QED BY <1>b, <1>c, <1>4, <3>1 DEF ThreadInv
  <2>. QED BY <2>1, <2>2
<1>7. HeldApart'
  BY <1>5 DEF Inv, HeldApart
<1>8. \A i \in Queue : EntriesInv(i)'
  <2>1. \A i \in Queue : Fresh(i)' <=> Fresh(i)
    BY <1>b, <1>5 DEF Fresh
  <2>. QED BY <1>b, <1>c, <2>1, EntriesKept
<1>9. PhaseInv'
  BY <1>2 DEF PhaseInv
<1>. QED BY <1>3, <1>6, <1>7, <1>8, <1>9 DEF Inv

\* A thread that stops without a full table has found the queue empty.
LEMMA ChunkDoneInv == ASSUME Inv, NEW t \in Threads, ChunkDone(t) PROVE Inv'
<1>a. /\ TypeInv /\ ThreadInv(t)
      /\ k[t] \in Nat /\ end[t] \in Nat /\ currentIndex \in Nat /\ WorkSetSize \in Nat
      /\ chnk[t] \in Nat
  BY TopTreeAssumption DEF Inv, TypeInv
<1>b. /\ phase = "walk" /\ pc[t] = "visit" /\ k[t] >= end[t]
      /\ pc' = [pc EXCEPT ![t] = IF chnk[t] < WorkSetSize THEN "grab" ELSE "out"]
      /\ UNCHANGED <<exports, phase, currentIndex, chnk, k, end, chnksz, table, full,
                     QueueChunkRestart, QueueChunkEnd, WorkSetStart, Nexportfull, sent>>
  BY DEF ChunkDone, chunks, resume, passes
<1>1. TypeInv'
  BY <1>a, <1>b DEF TypeInv
<1>2. /\ pc'[t] = IF chnk[t] < WorkSetSize THEN "grab" ELSE "out"
      /\ \A u \in Threads \ {t} : pc'[u] = pc[u]
  BY <1>a, <1>b DEF TypeInv
<1>3. QueueChunkEnd[t] = -1 /\ chnk[t] <= currentIndex /\ full[t] = FALSE
  BY <1>a, <1>b DEF ThreadInv, TypeInv
<1>4. \A u \in Threads : Held(u)' = Held(u)
  <2>1. Held(t)' = {} /\ Held(t) = {}
    BY <1>a, <1>b, <1>2, <1>3 DEF Held
  <2>2. \A u \in Threads \ {t} : Held(u)' = Held(u)
    BY <1>b, <1>2 DEF Held
  <2>. QED BY <2>1, <2>2
<1>5. \A u \in Threads : ThreadInv(u)'
  <2>1. ThreadInv(t)'
    BY <1>a, <1>b, <1>2, <1>3 DEF ThreadInv
  <2>2. ASSUME NEW u \in Threads \ {t} PROVE ThreadInv(u)'
    <3>1. ThreadInv(u)
      BY DEF Inv
    <3>. QED BY <1>b, <1>2, <3>1 DEF ThreadInv
  <2>. QED BY <2>1, <2>2
<1>6. HeldApart'
  BY <1>4 DEF Inv, HeldApart
<1>7. \A i \in Queue : EntriesInv(i)'
  <2>1. \A i \in Queue : Fresh(i)' <=> Fresh(i)
    BY <1>b, <1>4 DEF Fresh
  <2>. QED BY <1>b, <2>1, EntriesKept
<1>8. PhaseInv'
  BY <1>b DEF Inv, PhaseInv
<1>. QED BY <1>1, <1>5, <1>6, <1>7, <1>8 DEF Inv

\* All threads have stopped: only what the rank does changes.
LEMMA JoinInv == ASSUME Inv, Join PROVE Inv'
<1>1. /\ phase' \in {"no_progress", "exchange"} /\ \A t \in Threads : pc[t] = "out"
      /\ UNCHANGED <<exports, pc, currentIndex, chnk, k, end, chnksz, table, full,
                     QueueChunkRestart, QueueChunkEnd, Nexportfull, sent>>
  BY DEF Join, chunks, resume
<1>2. TypeInv'
  BY <1>1 DEF Inv, TypeInv, Errors
<1>3. \A t \in Threads : ThreadInv(t)' /\ Held(t)' = Held(t)
  BY <1>1 DEF Inv, ThreadInv, Held
<1>4. HeldApart'
  BY <1>3 DEF Inv, HeldApart
<1>5. \A i \in Queue : EntriesInv(i)'
  <2>1. \A i \in Queue : Fresh(i)' <=> Fresh(i)
    BY <1>1, <1>3 DEF Fresh
  <2>. QED BY <1>1, <2>1, EntriesKept
<1>6. PhaseInv'
  BY <1>1 DEF PhaseInv
<1>. QED BY <1>2, <1>3, <1>4, <1>5, <1>6 DEF Inv

\* When no table was full, nothing is left of the queue.
LEMMA NothingFresh ==
  ASSUME Inv, phase = "exchange", ~AnyFull
  PROVE  /\ currentIndex >= WorkSetSize
         /\ \A t \in Threads : QueueChunkEnd[t] = -1 /\ Held(t) = {}
         /\ \A i \in Queue : ~Fresh(i)
<1>1. \A t \in Threads : pc[t] = "out" /\ full[t] = FALSE
  BY DEF Inv, PhaseInv, AnyFull, TypeInv
<1>2. \A t \in Threads : QueueChunkEnd[t] = -1 /\ Held(t) = {} /\ currentIndex >= WorkSetSize
  <2>. TAKE t \in Threads
  <2>1. ThreadInv(t) /\ QueueChunkEnd[t] \in {-1} \cup 1..WorkSetSize
    BY DEF Inv, TypeInv
  <2>2. ~(QueueChunkEnd[t] > 0) /\ currentIndex >= WorkSetSize
    BY <1>1, <2>1 DEF ThreadInv
  <2>3. QueueChunkEnd[t] = -1
    BY <2>1, <2>2, TopTreeAssumption
  <2>. QED BY <1>1, <2>2, <2>3 DEF Held
<1>3. currentIndex >= WorkSetSize
  BY <1>2, TopTreeAssumption
<1>4. \A i \in Queue : ~(currentIndex <= i)
  BY <1>3, TopTreeAssumption DEF Inv, TypeInv, Queue
<1>. QED BY <1>2, <1>3, <1>4 DEF Fresh

\* What was in the tables is exchanged, and the tables are empty.
LEMMA ExchangeInv == ASSUME Inv, Exchange PROVE Inv'
<1>a. TypeInv
  BY DEF Inv
<1>b. /\ phase = "exchange" /\ phase' \in {"walk", "done"} /\ (phase' = "done" => ~AnyFull)
      /\ sent' = [i \in Queue |-> sent[i] + EntriesOf(i)]
      /\ Nexportfull' = Nexportfull + 1
      /\ pc' = Each("grab") /\ chnksz' = Each(FirstChunk)
      /\ table' = Each(<<>>) /\ full' = Each(FALSE)
      /\ UNCHANGED <<exports, currentIndex, chnk, k, end, QueueChunkRestart, QueueChunkEnd>>
  BY DEF Exchange, Done, resume
<1>1. \A t \in Threads : pc[t] = "out"
  BY <1>b DEF Inv, PhaseInv
<1>2. \A i \in Queue : EntriesOf(i) \in Nat /\ IsFiniteSet(Places(i))
  BY NoPlaces DEF Inv, EntriesInv
<1>3. TypeInv'
  <2>1. sent' \in [Queue -> Nat]
    BY <1>a, <1>b, <1>2 DEF TypeInv
  <2>2. chnksz' \in [Threads -> 1..MaxChunk]
    BY <1>b, FirstChunkType DEF Each
  <2>3. /\ pc' \in [Threads -> {"grab", "visit", "out"}] /\ full' \in [Threads -> BOOLEAN]
        /\ table' \in [Threads -> Seq(Queue)]
    BY <1>b DEF Each
  <2>4. Nexportfull' \in Nat /\ phase' \in {"walk", "exchange", "done"} \cup Errors
    BY <1>a, <1>b DEF TypeInv
  <2>. QED BY <1>a, <1>b, <2>1, <2>2, <2>3, <2>4 DEF TypeInv
<1>4. \A t \in Threads : Held(t)' = Held(t)
  BY <1>b, <1>1 DEF Held, Each
<1>5. \A t \in Threads : ThreadInv(t)'
  <2>. TAKE t \in Threads
  <2>1. ThreadInv(t)
    BY DEF Inv
  <2>2. pc'[t] = "grab" /\ table'[t] = <<>> /\ full'[t] = FALSE
    BY <1>b DEF Each
  <2>3. Len(table'[t]) <= BunchSize /\ DOMAIN table'[t] = {} /\ Nexportfull' > 0
    <3>1. Len(table'[t]) = 0 /\ DOMAIN table'[t] = {}
      BY <2>2
    <3>2. Nexportfull' > 0
      BY <1>a, <1>b DEF TypeInv
    <3>. QED BY <3>1, <3>2, TopTreeAssumption
  <2>. QED BY <1>b, <2>1, <2>2, <2>3 DEF ThreadInv
<1>6. HeldApart'
  BY <1>4 DEF Inv, HeldApart
<1>7. \A i \in Queue : EntriesInv(i)'
  <2>. TAKE i \in Queue
  <2>1. EntriesInv(i) /\ sent[i] \in Nat /\ exports[i] \in Nat
    BY <1>a, TopTreeAssumption DEF Inv, TypeInv
  <2>2. Places(i)' = {} /\ IsFiniteSet(Places(i)')
    <3>1. Places(i)' = {}
      BY <1>b DEF Places, Each
    <3>. QED BY <3>1, FS_EmptySet
  <2>3. sent'[i] = sent[i] + EntriesOf(i)
    BY <1>b
  <2>4. Fresh(i)' <=> Fresh(i)
    BY <1>b, <1>4 DEF Fresh
  <2>5. Places(i) = {} => EntriesOf(i) = 0
    BY <1>2, NoPlaces
  <2>. QED BY <1>b, <1>2, <2>1, <2>2, <2>3, <2>4, <2>5 DEF EntriesInv
<1>8. PhaseInv'
  BY <1>b, NothingFresh DEF PhaseInv, Each
<1>. QED BY <1>3, <1>5, <1>6, <1>7, <1>8 DEF Inv

\* Every step keeps the invariant.
LEMMA InvStep == Inv /\ [Next]_vars => Inv'
<1>. SUFFICES ASSUME Inv, [Next]_vars PROVE Inv'
  OBVIOUS
<1>1. ASSUME NEW t \in Threads, Step(t) PROVE Inv'
  BY <1>1, GrabInv, VisitInv, BufferFullInv, ChunkDoneInv DEF Step
<1>2. CASE Join
  BY <1>2, JoinInv
<1>3. CASE Exchange
  BY <1>3, ExchangeInv
<1>4. CASE UNCHANGED vars
  <2>1. UNCHANGED <<exports, phase, pc, currentIndex, chnk, k, end, chnksz, table, full,
                    QueueChunkRestart, QueueChunkEnd, Nexportfull, sent>>
    BY <1>4 DEF vars, chunks, resume, passes
  <2>2. TypeInv' /\ PhaseInv'
    BY <2>1 DEF Inv, TypeInv, PhaseInv
  <2>3. \A t \in Threads : ThreadInv(t)' /\ Held(t)' = Held(t)
    BY <2>1 DEF Inv, ThreadInv, Held
  <2>4. HeldApart'
    BY <2>3 DEF Inv, HeldApart
  <2>5. \A i \in Queue : EntriesInv(i)'
    <3>1. \A i \in Queue : Fresh(i)' <=> Fresh(i)
      BY <2>1, <2>3 DEF Fresh
    <3>. QED BY <2>1, <3>1, EntriesKept
  <2>. QED BY <2>2, <2>3, <2>4, <2>5 DEF Inv
<1>. QED BY <1>1, <1>2, <1>3, <1>4 DEF Next, Over

\* What threads have in hand is apart, and each particle has all its entries
\* or none: the invariant of the walk.
THEOREM Invariance == Spec => []Inv
<1>. QED BY InvInit, InvStep, PTL DEF Spec

\* All entries of a particle are exchanged in the same pass, and in the order
\* of the queue: ev_toptree never ends in "Something screwed up in export
\* queue", and the walk does not end before all have been exchanged.
THEOREM EntriesGoTogether == Spec => []AllEntriesTogether
<1>1. Inv => AllEntriesTogether
  <2>. SUFFICES ASSUME Inv PROVE AllEntriesTogether
    OBVIOUS
  <2>1. phase # "screwed_up"
    BY DEF Inv, PhaseInv
  <2>2. \A i \in Queue : sent[i] \in {0, exports[i]}
    BY DEF Inv, EntriesInv
  <2>3. ASSUME phase = "done", NEW i \in Queue PROVE sent[i] = exports[i]
    <3>1. Places(i) = {} /\ EntriesOf(i) = 0
      <4>1. Places(i) = {}
        BY <2>3 DEF Inv, PhaseInv, Places
      <4>. QED BY <4>1, FS_EmptySet, NoPlaces
    <3>2. ~Fresh(i)
      <4>1. currentIndex >= WorkSetSize /\ \A t \in Threads : Held(t) = {}
        BY <2>3 DEF Inv, PhaseInv, Held
      <4>2. ~(currentIndex <= i)
        BY <4>1, TopTreeAssumption DEF Inv, TypeInv, Queue
      <4>. QED BY <4>1, <4>2 DEF Fresh
    <3>. QED BY <3>1, <3>2 DEF Inv, EntriesInv
  <2>. QED BY <2>1, <2>2, <2>3 DEF AllEntriesTogether
<1>. QED BY <1>1, Invariance, PTL

----------------------------------------------------------------------------
(* The walk implements the rounds of work.                                 *)

Work == {i \in Queue : exports[i] > 0}
Left == {i \in Queue : exports[i] > 0 /\ sent[i] = 0 /\ i \notin InBatch}

\* A particle has no entries, or waits for a thread, or is in the batch, or
\* has been exchanged.
LEMMA WorkDivides ==
  ASSUME Inv, NEW i \in Queue
  PROVE  /\ exports[i] \in Nat /\ sent[i] \in Nat /\ EntriesOf(i) \in Nat
         /\ Fresh(i) => sent[i] = 0 /\ EntriesOf(i) = 0
         /\ ~Fresh(i) => \/ sent[i] = exports[i] /\ EntriesOf(i) = 0
                         \/ sent[i] = 0 /\ EntriesOf(i) = exports[i]
<1>1. exports[i] \in Nat
  BY TopTreeAssumption DEF Inv, TypeInv
<1>2. sent[i] \in Nat
  BY DEF Inv, TypeInv
<1>3. EntriesInv(i)
  BY DEF Inv
<1>4. EntriesOf(i) \in Nat /\ (Places(i) = {} => EntriesOf(i) = 0)
  BY <1>3, NoPlaces DEF EntriesInv
<1>. QED BY <1>1, <1>2, <1>3, <1>4 DEF EntriesInv

\* At the start all the work is left.
LEMMA RoundsInit == Init => W!Init
<1>. SUFFICES ASSUME Init PROVE W!Init
  OBVIOUS
<1>1. IsFiniteSet(Queue)
  BY TopTreeAssumption, FS_Interval DEF Queue
<1>2. IsFiniteSet(Work)
  BY <1>1, FS_Subset DEF Work
<1>3. InBatch = {}
  <2>1. \A i \in Queue : Places(i) = {}
    BY DEF Init, Each, Places
  <2>2. \A i \in Queue : EntriesOf(i) = 0
    BY <2>1, FS_EmptySet DEF EntriesOf, Places
  <2>. QED BY <2>2 DEF InBatch
<1>4. Left = Work
  BY <1>3 DEF Left, Work, Init
<1>5. (phase = "done") = FALSE
  BY DEF Init
<1>6. W!IsFiniteSet(Work)
  BY <1>2, Zenon DEF IsFiniteSet, W!IsFiniteSet
<1>. QED BY <1>3, <1>4, <1>5, <1>6, Zenon DEF W!Init, Work, Left

\* What changes neither the tables nor what has been exchanged, nor ends the
\* walk, changes nothing of the rounds.
LEMMA RoundsStutter ==
  ASSUME UNCHANGED <<exports, table, sent>>, (phase = "done")' <=> phase = "done"
  PROVE  UNCHANGED W!vars
<1>1. InBatch' = InBatch
  BY DEF InBatch, EntriesOf
<1>. QED BY <1>1 DEF W!vars

\* A thread that visits a particle with entries takes it into the batch.
LEMMA RoundsTake == ASSUME Inv, Inv', NEW t \in Threads, Visit(t) PROVE [W!Next]_W!vars
<1>1. /\ phase = "walk" /\ pc[t] = "visit" /\ k[t] < end[t]
      /\ table' = [table EXCEPT ![t] = @ \o Entries(k[t])]
      /\ UNCHANGED <<exports, phase, sent>>
  BY DEF Visit, passes
<1>2. k[t] \in Queue /\ k[t] \in Held(t)
  <2>1. ThreadInv(t) /\ k[t] \in Nat /\ end[t] \in Nat
    BY DEF Inv, TypeInv
  <2>. QED BY <1>1, <2>1, TopTreeAssumption DEF ThreadInv, Held, Queue
<1>. PICK j \in Queue : j = k[t]
  BY <1>2
<1>3. Places(j) = {} /\ sent[j] = 0 /\ EntriesOf(j) = 0
  <2>1. Fresh(j)
    BY <1>2 DEF Fresh
  <2>. QED BY <2>1, WorkDivides DEF Inv, EntriesInv
<1>4. /\ \A i \in Queue \ {j} : Places(i)' = Places(i)
      /\ EntriesOf(j)' = exports[j]
  BY <1>1, <1>3, PlacesGrow
<1>5. \A i \in Queue \ {j} : EntriesOf(i)' = EntriesOf(i)
  BY <1>4 DEF EntriesOf, Places
<1>. DEFINE some == {j} \cap Left
<1>6. InBatch' = InBatch \cup some
  <2>1. j \in Left <=> exports[j] > 0
    BY <1>3, WorkDivides DEF Left, InBatch
  <2>. QED BY <1>3, <1>4, <1>5, <2>1 DEF InBatch
<1>7. Left' = Left \ some
  BY <1>1, <1>6 DEF Left
<1>8. some \in SUBSET Left
  OBVIOUS
<1>9. Work' = Work /\ (phase = "done") = FALSE /\ (phase' = "done") = FALSE
  BY <1>1 DEF Work
<1>. HIDE DEF some
<1>. QED BY <1>6, <1>7, <1>8, <1>9 DEF W!Next, W!Take, Work, Left

\* The exchange completes the batch, and is the last when nothing is left.
LEMMA RoundsSend == ASSUME Inv, Inv', Exchange PROVE [W!Next]_W!vars
<1>1. /\ phase = "exchange" /\ (phase' = "done" => ~AnyFull)
      /\ sent' = [i \in Queue |-> sent[i] + EntriesOf(i)]
      /\ table' = Each(<<>>) /\ exports' = exports
  BY DEF Exchange, Done
<1>2. InBatch' = {}
  <2>1. \A i \in Queue : Places(i)' = {}
    BY <1>1 DEF Places, Each
  <2>2. \A i \in Queue : EntriesOf(i)' = 0
    BY <2>1, FS_EmptySet DEF EntriesOf, Places
  <2>. QED BY <2>2 DEF InBatch
<1>3. \A i \in Queue : sent'[i] = 0 <=> sent[i] = 0 /\ i \notin InBatch
  BY <1>1, WorkDivides DEF InBatch
<1>4. Left' = Left
  BY <1>1, <1>2, <1>3 DEF Left
<1>5. phase' = "done" => Left = {}
  <2>1. ASSUME phase' = "done", NEW i \in Queue PROVE i \notin Left
    <3>1. ~Fresh(i)
      BY <1>1, <2>1, NothingFresh
    <3>. QED BY <3>1, WorkDivides DEF Left, InBatch
  <2>. QED BY <2>1 DEF Left
<1>6. Work' = Work /\ (phase = "done") = FALSE /\ (phase' = "done") \in BOOLEAN
  BY <1>1 DEF Work
<1>7. \E some \in SUBSET InBatch : InBatch' = InBatch \ some
  BY <1>2
<1>. QED BY <1>2, <1>4, <1>5, <1>6, <1>7 DEF W!Next, W!Send, Work, Left

\* Each step of the walk is one of the rounds of work, or changes none of it.
LEMMA RoundsStep == ASSUME Inv, Inv', [Next]_vars PROVE [W!Next]_W!vars
<1>1. ASSUME NEW t \in Threads, Step(t) PROVE [W!Next]_W!vars
  <2>1. CASE Visit(t)
    BY <2>1, RoundsTake
  <2>2. CASE Grab(t) \/ BufferFull(t) \/ ChunkDone(t)
    <3>1. UNCHANGED <<exports, table, sent>> /\ phase = "walk"
      BY <2>2 DEF Grab, BufferFull, ChunkDone, WithoutPartial, passes, Inv, TypeInv
    <3>2. phase' # "done"
      BY <2>2 DEF Grab, BufferFull, ChunkDone
    <3>. QED BY <3>1, <3>2, RoundsStutter
  <2>. QED BY <1>1, <2>1, <2>2 DEF Step
<1>2. CASE Join
  <2>1. UNCHANGED <<exports, table, sent>> /\ phase # "done" /\ phase' # "done"
    BY <1>2 DEF Join
  <2>. QED BY <2>1, RoundsStutter
<1>3. CASE Exchange
  BY <1>3, RoundsSend
<1>4. CASE UNCHANGED vars
  <2>1. UNCHANGED <<exports, table, sent, phase>>
    BY <1>4 DEF vars, passes
  <2>. QED BY <2>1, RoundsStutter
<1>. QED BY <1>1, <1>2, <1>3, <1>4 DEF Next, Over

\* The walk over the top-level tree implements the rounds of work: every
\* particle other ranks must see is handed over once, whichever thread has it
\* and wherever a pass breaks off, and the walk ends only when none is left.
\* That it does end (HandsOverOnce) needs fairness.
THEOREM TopTreeImplementsRounds == Spec => W!Spec
<1>1. Init => W!Init
  BY RoundsInit
<1>2. Inv /\ Inv' /\ [Next]_vars => [W!Next]_W!vars
  BY RoundsStep
<1>. QED BY <1>1, <1>2, Invariance, PTL DEF Spec, W!Spec
=============================================================================
