-------------------------- MODULE TreeWalk_proofs --------------------------
(***************************************************************************)
(* Proofs about the tree walk of all ranks, for every number of ranks and  *)
(* every distribution of exports: no result is added twice or to another   *)
(* particle, no messages of two rounds meet, and the walk implements the   *)
(* rounds of work.  They hold for the walk alone and for metal return.     *)
(* And metal return gives to the gas what it takes from the stars.         *)
(***************************************************************************)
EXTENDS MetalReturn, DataLemmas

Labels == {"toptree", "counts", "send", "primary", "secondary", "results",
           "sends", "finished"}

\* Between the exchange of the counts and the end of the round.
InRound(r) == pc[r] \in {"send", "primary", "secondary", "results", "sends"}

TypeInv ==
  /\ pc \in [Ranks -> Labels]
  /\ left \in [Ranks -> SUBSET (Nat \ {0})]
  /\ \A r \in Ranks : left[r] \subseteq Particles(r)
  /\ DOMAIN table = Ranks
  /\ \A r \in Ranks : table[r] \in Seq(Exports(r))
  /\ Nexportfull \in [Ranks -> Nat]
  /\ Ndone \in 0..NTask
  /\ primaries \in [Ranks -> Nat]
  /\ imports \in [Ranks -> SUBSET Ranks]
  /\ DOMAIN queries = Ranks /\ DOMAIN results = Ranks
  /\ \A r \in Ranks : DOMAIN queries[r] = Ranks /\ DOMAIN results[r] = Ranks
  /\ DOMAIN reduced = Ranks
  /\ \A r \in Ranks : DOMAIN reduced[r] = Exports(r)

\* A rank that has left the round is one ahead of those that have not.
RoundInv ==
  \A r, q \in Ranks :
    IF InRound(r) <=> InRound(q) THEN Nexportfull[r] = Nexportfull[q]
    ELSE InRound(r) => Nexportfull[q] = Nexportfull[r] + 1

\* Ndone is that of the last exchange of counts.
DoneInv ==
  /\ Ndone = NTask => \A r \in Ranks : left[r] = {}
  /\ \A r \in Ranks :
       /\ pc[r] = "finished" => Ndone = NTask /\ Nexportfull[r] > 0
       /\ pc[r] \in {"toptree", "counts"} /\ Nexportfull[r] > 0 => Ndone # NTask

\* There is nothing on the way from r to q and back.
Silent(r, q) == r \notin imports[q] /\ queries[r][q] = <<>> /\ results[q][r] = <<>>

Asked(r, q) ==
  /\ r \in imports[q]
  /\ queries[r][q] = <<Message(r, ForTask(r, q))>> /\ results[q][r] = <<>>

Answered(r, q) ==
  /\ r \notin imports[q]
  /\ queries[r][q] = <<>> /\ results[q][r] = <<Message(r, ForTask(r, q))>>

\* Where the query of r to q and its answer are, by what r does.
ChannelInv(r, q) ==
  /\ pc[r] \in {"toptree", "counts", "sends", "finished"} => Silent(r, q)
  /\ pc[r] = "send" =>
       /\ r \in imports[q] <=> q \in Targets(r)
       /\ queries[r][q] = <<>> /\ results[q][r] = <<>>
  /\ pc[r] \in {"primary", "secondary", "results"} =>
       IF q \in Targets(r) THEN Asked(r, q) \/ Answered(r, q) ELSE Silent(r, q)

ImportInv == \A q \in Ranks : imports[q] # {} => pc[q] \in {"send", "primary", "secondary"}

\* An entry has its result unless its particle is left or it is in the table.
EntryInv(r) ==
  /\ Distinct(table[r])
  /\ \A e \in ToSet(table[r]) : e[1] \notin left[r]
  /\ \A e \in Exports(r) :
       reduced[r][e] = IF e[1] \in left[r] \/ e \in ToSet(table[r]) THEN <<>> ELSE <<e>>
  /\ pc[r] \in {"toptree", "sends", "finished"} => table[r] = <<>>

PrimaryInv ==
  \A r \in Ranks :
    primaries[r] = IF Nexportfull[r] = 0 /\ pc[r] \in {"toptree", "counts", "send", "primary"}
                   THEN 0 ELSE 1

Inv ==
  /\ TypeInv /\ RoundInv /\ DoneInv /\ ImportInv /\ PrimaryInv
  /\ \A r, q \in Ranks : ChannelInv(r, q)
  /\ \A r \in Ranks : EntryInv(r)

----------------------------------------------------------------------------

\* The leaves a particle has to be sent to are entries of their own.
LEMMA WorkFacts ==
  ASSUME NEW r \in Ranks
  PROVE  /\ DOMAIN Work[r] \subseteq Nat \ {0}
         /\ \A p \in DOMAIN Work[r] :
              /\ Work[r][p] \in Seq(Ranks)
              /\ EntriesOf(r, p) \in Seq({p} \X DOMAIN Work[r][p])
              /\ ToSet(EntriesOf(r, p)) = {p} \X DOMAIN Work[r][p]
              /\ Distinct(EntriesOf(r, p))
<1>1. Work[r] \in Seq(Seq(Ranks))
  BY WorkAssumption
<1>2. ASSUME NEW p \in DOMAIN Work[r]
      PROVE  /\ Work[r][p] \in Seq(Ranks)
             /\ EntriesOf(r, p) \in Seq({p} \X DOMAIN Work[r][p])
             /\ ToSet(EntriesOf(r, p)) = {p} \X DOMAIN Work[r][p]
             /\ Distinct(EntriesOf(r, p))
  <2>1. Work[r][p] \in Seq(Ranks)
    BY <1>1, <1>2
  <2>2. DOMAIN Work[r][p] = 1..Len(Work[r][p]) /\ Len(Work[r][p]) \in Nat
    BY <2>1
  <2>3. EntriesOf(r, p) \in Seq({p} \X DOMAIN Work[r][p])
    BY <2>2 DEF EntriesOf
  <2>4. ToSet(EntriesOf(r, p)) = {p} \X DOMAIN Work[r][p]
    <3>1. ToSet(EntriesOf(r, p)) = {<<p, n>> : n \in DOMAIN Work[r][p]}
      BY Zenon DEF EntriesOf, ToSet
    <3>. QED BY <3>1
  <2>5. Distinct(EntriesOf(r, p))
    BY DEF EntriesOf, Distinct
  <2>. QED BY <2>1, <2>3, <2>4, <2>5
<1>3. DOMAIN Work[r] \subseteq Nat \ {0}
  BY <1>1
<1>. QED BY <1>2, <1>3, Zenon

\* What an entry is.
LEMMA ExportFacts ==
  ASSUME NEW r \in Ranks, NEW e
  PROVE  /\ e \in Exports(r) <=>
              /\ e = <<e[1], e[2]>>
              /\ e[1] \in DOMAIN Work[r] /\ e[2] \in DOMAIN Work[r][e[1]]
         /\ e \in Exports(r) => Task(r, e) \in Ranks /\ e[1] \in Particles(r)
<1>1. \A p \in DOMAIN Work[r] : /\ Work[r][p] \in Seq(Ranks)
                               /\ ToSet(EntriesOf(r, p)) = {p} \X DOMAIN Work[r][p]
  BY WorkFacts
<1>2. e \in Exports(r) <=> \E p \in DOMAIN Work[r] : e \in {p} \X DOMAIN Work[r][p]
  BY <1>1 DEF Exports
<1>3. e \in Exports(r) <=> /\ e = <<e[1], e[2]>>
                          /\ e[1] \in DOMAIN Work[r] /\ e[2] \in DOMAIN Work[r][e[1]]
  BY <1>2
<1>4. ASSUME e \in Exports(r) PROVE Task(r, e) \in Ranks /\ e[1] \in Particles(r)
  <2>1. Work[r][e[1]] \in Seq(Ranks) /\ e[2] \in DOMAIN Work[r][e[1]]
    BY <1>1, <1>3, <1>4
  <2>2. Work[r][e[1]] # <<>>
    BY <2>1
  <2>. QED BY <1>3, <1>4, <2>1, <2>2 DEF Task, Particles
<1>. QED BY <1>3, <1>4

\* Entries of the table are counted one by one.
LEMMA CountIncreases ==
  ASSUME NEW r \in Ranks, NEW q \in Ranks, table[r] \in Seq(Exports(r)),
         NEW k \in DOMAIN table[r], Task(r, table[r][k]) = q
  PROVE  /\ \A n \in 0..Len(table[r]) : CountFor(r, q, n) \in Nat
         /\ CountFor(r, q, k) \in 1..CountFor(r, q, Len(table[r]))
         /\ \A j \in 1..(k-1) : CountFor(r, q, j) < CountFor(r, q, k)
<1>. DEFINE Upto(n) == {m \in 1..n : Task(r, table[r][m]) = q}
<1>1. Len(table[r]) \in Nat /\ DOMAIN table[r] = 1..Len(table[r])
  OBVIOUS
<1>2. \A n \in 0..Len(table[r]) : IsFiniteSet(Upto(n))
  <2>. TAKE n \in 0..Len(table[r])
  <2>1. IsFiniteSet(1..n)
    BY <1>1, FS_Interval
  <2>. QED BY <2>1, FS_Subset
<1>3. \A n \in 0..Len(table[r]) : CountFor(r, q, n) = Cardinality(Upto(n))
  BY DEF CountFor
<1>4. \A n \in 0..Len(table[r]) : CountFor(r, q, n) \in Nat
  BY <1>2, <1>3, FS_CardinalityType
<1>5. Upto(k) \subseteq Upto(Len(table[r])) /\ k \in Upto(k) /\ k \in 0..Len(table[r])
  BY <1>1
<1>6. \A j \in 1..(k-1) : Upto(j) \subseteq Upto(k) /\ k \notin Upto(j) /\ j \in 0..Len(table[r])
  BY <1>1
<1>. HIDE DEF Upto
<1>7. CountFor(r, q, k) <= CountFor(r, q, Len(table[r]))
  BY <1>1, <1>2, <1>3, <1>5, FS_Subset, Len(table[r]) \in 0..Len(table[r])
<1>8. CountFor(r, q, k) # 0
  BY <1>1, <1>2, <1>3, <1>5, FS_EmptySet
<1>9. ASSUME NEW j \in 1..(k-1) PROVE CountFor(r, q, j) < CountFor(r, q, k)
  <2>1. Cardinality(Upto(j)) <= Cardinality(Upto(k)) /\ Cardinality(Upto(j)) # Cardinality(Upto(k))
    BY <1>2, <1>5, <1>6, FS_Subset
  <2>. QED BY <1>3, <1>4, <1>5, <1>6, <2>1
<1>. QED BY <1>1, <1>4, <1>5, <1>7, <1>8, <1>9

\* The place of an entry among those of its rank is where it was packed.
LEMMA PackedInPlace ==
  ASSUME NEW r \in Ranks, table[r] \in Seq(Exports(r)), NEW k \in DOMAIN table[r]
  PROVE  LET q == Task(r, table[r][k])
         IN  /\ q \in Targets(r)
             /\ InResults(r, k) \in 1..Len(ForTask(r, q))
             /\ ForTask(r, q)[InResults(r, k)] = table[r][k]
<1>. DEFINE q == Task(r, table[r][k])
            Here(m) == m \in DOMAIN table[r] /\ Task(r, table[r][m]) = q
                         /\ CountFor(r, q, m) = CountFor(r, q, k)
            place == CHOOSE m \in DOMAIN table[r] :
                       Task(r, table[r][m]) = q /\ CountFor(r, q, m) = CountFor(r, q, k)
<1>1. table[r][k] \in Exports(r) /\ Len(table[r]) \in Nat
  OBVIOUS
<1>2. q \in Ranks
  BY <1>1, ExportFacts
<1>3. /\ CountFor(r, q, Len(table[r])) \in Nat
      /\ CountFor(r, q, k) \in 1..CountFor(r, q, Len(table[r]))
  BY <1>1, <1>2, CountIncreases, Len(table[r]) \in 0..Len(table[r])
<1>4. ASSUME NEW m \in DOMAIN table[r], Here(m) PROVE m = k
  <2>. HIDE DEF q
  <2>1. /\ \A j \in 1..(k-1) : CountFor(r, q, j) < CountFor(r, q, k)
        /\ \A j \in 1..(m-1) : CountFor(r, q, j) < CountFor(r, q, m)
    BY <1>2, <1>4, CountIncreases DEF q
  <2>2. CountFor(r, q, k) \in Nat /\ CountFor(r, q, m) = CountFor(r, q, k)
    BY <1>3, <1>4
  <2>3. ~(m < k) /\ ~(k < m)
    BY <1>1, <2>1, <2>2
  <2>. QED BY <1>1, <2>3
<1>5. place = k
  <2>1. Here(k)
    OBVIOUS
  <2>2. Here(place)
    BY <2>1
  <2>. QED BY <1>4, <2>2
<1>6. /\ Len(ForTask(r, q)) = CountFor(r, q, Len(table[r]))
      /\ ForTask(r, q)[CountFor(r, q, k)] = table[r][place]
  BY <1>3 DEF ForTask
<1>7. ForTask(r, q) # <<>>
  BY <1>3, <1>6
<1>. QED BY <1>2, <1>3, <1>5, <1>6, <1>7 DEF Targets, InResults

\* So an answer that has come back gives each entry the result for itself.
LEMMA ResultIsEntry ==
  ASSUME NEW r \in Ranks, table[r] \in Seq(Exports(r)), NEW k \in DOMAIN table[r],
         \A q \in Targets(r) : results[q][r] = <<Message(r, ForTask(r, q))>>
  PROVE  Result(r, k) = table[r][k]
<1>. DEFINE q == Task(r, table[r][k])
<1>1. /\ q \in Targets(r)
      /\ InResults(r, k) \in 1..Len(ForTask(r, q))
      /\ ForTask(r, q)[InResults(r, k)] = table[r][k]
  BY PackedInPlace
<1>. HIDE DEF q
<1>2. /\ results[q][r] # <<>>
      /\ Head(results[q][r]).entries = ForTask(r, q)
  <2>1. results[q][r] = <<Message(r, ForTask(r, q))>>
    BY <1>1
  <2>2. Head(<<Message(r, ForTask(r, q))>>) = Message(r, ForTask(r, q))
    OBVIOUS
  <2>. QED BY <2>1, <2>2 DEF Message
<1>3. ~(InResults(r, k) > Len(ForTask(r, q)))
  BY <1>1
<1>. QED BY <1>1, <1>2, <1>3 DEF Result, q

\* The table that ev_toptree fills has the entries of the particles it takes,
\* each of them once.
LEMMA TableFilled ==
  ASSUME NEW r \in Ranks, NEW some \in SUBSET Particles(r), NEW order \in SetToSeqs(some)
  PROVE  LET t == FlattenSeq([k \in DOMAIN order |-> EntriesOf(r, order[k])])
         IN  /\ t \in Seq(Exports(r)) /\ Distinct(t)
             /\ \A e \in Exports(r) : e \in ToSet(t) <=> e[1] \in some
<1>. DEFINE ss == [k \in DOMAIN order |-> EntriesOf(r, order[k])]
            t == FlattenSeq(ss)
<1>1. Work[r] \in Seq(Seq(Ranks)) /\ some \subseteq DOMAIN Work[r]
  BY WorkAssumption DEF Particles
<1>2. IsFiniteSet(some)
  <2>1. DOMAIN Work[r] = 1..Len(Work[r]) /\ Len(Work[r]) \in Nat
    BY <1>1
  <2>2. IsFiniteSet(1..Len(Work[r]))
    BY <2>1, FS_Interval
  <2>. QED BY <1>1, <2>1, <2>2, FS_Subset
<1>3. order \in Seq(some) /\ Distinct(order) /\ ToSet(order) = some
  BY <1>2, OrderingsCover
<1>4. Len(order) \in Nat /\ DOMAIN order = 1..Len(order)
  BY <1>3
<1>5. \A p \in some : /\ EntriesOf(r, p) \in Seq(Exports(r))
                     /\ ToSet(EntriesOf(r, p)) = {p} \X DOMAIN Work[r][p]
                     /\ Distinct(EntriesOf(r, p))
  <2>. TAKE p \in some
  <2>1. /\ EntriesOf(r, p) \in Seq({p} \X DOMAIN Work[r][p])
        /\ ToSet(EntriesOf(r, p)) = {p} \X DOMAIN Work[r][p]
        /\ Distinct(EntriesOf(r, p))
    BY <1>1, WorkFacts
  <2>2. {p} \X DOMAIN Work[r][p] \subseteq Exports(r)
    BY <1>1, <2>1 DEF Exports
  <2>. QED BY <2>1, <2>2
<1>6. \A k \in 1..Len(order) : order[k] \in some /\ ss[k] = EntriesOf(r, order[k])
  BY <1>3, <1>4
<1>7. ss \in Seq(Seq(Exports(r))) /\ Len(ss) = Len(order)
  BY <1>4, <1>5, <1>6
<1>8. \A k \in 1..Len(ss) : Distinct(ss[k])
  BY <1>5, <1>6, <1>7
<1>9. \A i, j \in 1..Len(ss) : i # j => ToSet(ss[i]) \cap ToSet(ss[j]) = {}
  <2>. TAKE i, j \in 1..Len(ss)
  <2>. HAVE i # j
  <2>1. order[i] # order[j] /\ order[i] \in some /\ order[j] \in some
    BY <1>3, <1>4, <1>6, <1>7 DEF Distinct
  <2>2. /\ ToSet(ss[i]) = {order[i]} \X DOMAIN Work[r][order[i]]
        /\ ToSet(ss[j]) = {order[j]} \X DOMAIN Work[r][order[j]]
    BY <1>5, <1>6, <1>7
  <2>. QED BY <2>1, <2>2
<1>10. /\ t \in Seq(Exports(r)) /\ Distinct(t)
       /\ ToSet(t) = UNION {ToSet(ss[i]) : i \in 1..Len(ss)}
  <2>. HIDE DEF ss
  <2>. QED BY <1>7, <1>8, <1>9, FlattenSeqProperties
<1>11. ASSUME NEW e \in Exports(r) PROVE e \in ToSet(t) <=> e[1] \in some
  <2>1. e = <<e[1], e[2]>> /\ e[2] \in DOMAIN Work[r][e[1]]
    BY ExportFacts
  <2>2. ASSUME e[1] \in some PROVE e \in ToSet(t)
    <3>1. PICK k \in 1..Len(order) : order[k] = e[1]
      BY <1>3, <1>4, <2>2 DEF ToSet
    <3>2. e \in ToSet(ss[k])
      BY <1>5, <1>6, <2>1, <2>2, <3>1
    <3>. QED BY <1>7, <1>10, <3>2
  <2>3. ASSUME e \in ToSet(t) PROVE e[1] \in some
    <3>1. PICK k \in 1..Len(order) : e \in ToSet(ss[k])
      BY <1>7, <1>10, <2>3
    <3>2. e \in {order[k]} \X DOMAIN Work[r][order[k]]
      BY <1>5, <1>6, <3>1
    <3>. QED BY <1>6, <3>2
  <2>. QED BY <2>2, <2>3
<1>. QED BY <1>10, <1>11

\* What is sent for a rank depends on its table and on its round alone.
Packed(t, r, q) ==
  LET Count(k) == Cardinality({m \in 1..k : Task(r, t[m]) = q})
  IN  [n \in 1..Count(Len(t)) |->
         t[CHOOSE k \in DOMAIN t : Task(r, t[k]) = q /\ Count(k) = n]]

\* What is sent to each rank depends on the table only.
LEMMA SameSent ==
  ASSUME NEW r \in Ranks, table'[r] = table[r]
  PROVE  /\ \A q : ForTask(r, q)' = ForTask(r, q)
         /\ Targets(r)' = Targets(r)
<1>1. \A q : ForTask(r, q) = Packed(table[r], r, q)
  BY Zenon DEF ForTask, CountFor, Packed
<1>2. \A q : ForTask(r, q)' = Packed(table'[r], r, q)
  BY Zenon DEF ForTask, CountFor, Packed, Task
<1>3. \A q : ForTask(r, q)' = ForTask(r, q)
  BY <1>1, <1>2
<1>. QED BY <1>3 DEF Targets

\* A channel that no action touches stays as it is, and so do the entries.
LEMMA ChannelKept ==
  ASSUME NEW r \in Ranks, NEW q \in Ranks, ChannelInv(r, q),
         pc'[r] = pc[r], Nexportfull'[r] = Nexportfull[r], table'[r] = table[r],
         r \in imports'[q] <=> r \in imports[q],
         queries'[r][q] = queries[r][q], results'[q][r] = results[q][r]
  PROVE  ChannelInv(r, q)'
<1>1. /\ ForTask(r, q)' = ForTask(r, q)
      /\ Targets(r)' = Targets(r)
      /\ Message(r, ForTask(r, q))' = Message(r, ForTask(r, q))
  BY SameSent DEF Message
<1>. QED BY <1>1 DEF ChannelInv, Silent, Asked, Answered

\* The entries of a rank stay what they are while its table does.
LEMMA EntriesKept ==
  ASSUME NEW r \in Ranks, EntryInv(r), left'[r] = left[r], table'[r] = table[r],
         reduced'[r] = reduced[r],
         pc'[r] \in {"toptree", "sends", "finished"} => table[r] = <<>>
  PROVE  EntryInv(r)'
BY DEF EntryInv

----------------------------------------------------------------------------

\* At the start no message is on its way.
LEMMA InitInv == Init => Inv
<1>. SUFFICES ASSUME Init PROVE Inv
  OBVIOUS
<1>. USE DEF Init
<1>1. NTask \in Nat \ {0}
  BY WorkAssumption
<1>2. TypeInv
  <2>1. \A r \in Ranks : Particles(r) \in SUBSET (Nat \ {0})
    BY WorkFacts DEF Particles
  <2>. QED BY <1>1, <2>1 DEF TypeInv, Labels, Channels
<1>3. RoundInv /\ DoneInv /\ ImportInv /\ PrimaryInv
  BY <1>1 DEF RoundInv, DoneInv, ImportInv, PrimaryInv, InRound
<1>4. \A r, q \in Ranks : ChannelInv(r, q)
  BY DEF ChannelInv, Silent, Channels
<1>5. ASSUME NEW r \in Ranks PROVE EntryInv(r)
  <2>1. \A e \in Exports(r) : e[1] \in Particles(r)
    BY ExportFacts
  <2>. QED BY <2>1 DEF EntryInv, Distinct, ToSet
<1>. QED BY <1>2, <1>3, <1>4, <1>5 DEF Inv

\* Filling the table.
LEMMA ToptreeInv ==
  ASSUME Inv, NEW r \in Ranks, ev_toptree(r)
  PROVE  Inv'
<1>. USE DEF Inv
<1>0. PICK some \in SUBSET left[r] :
        /\ left' = [left EXCEPT ![r] = @ \ some]
        /\ \E order \in SetToSeqs(some) : table' = [table EXCEPT ![r] =
             FlattenSeq([k \in DOMAIN order |-> EntriesOf(r, order[k])])]
  BY Zenon DEF ev_toptree
<1>1. PICK order \in SetToSeqs(some) :
        /\ left' = [left EXCEPT ![r] = @ \ some]
        /\ table' = [table EXCEPT ![r] =
             FlattenSeq([k \in DOMAIN order |-> EntriesOf(r, order[k])])]
  BY <1>0
<1>2. /\ pc[r] = "toptree" /\ pc' = [pc EXCEPT ![r] = "counts"]
      /\ UNCHANGED <<Nexportfull, Ndone, primaries, queries, imports, results, reduced>>
  BY DEF ev_toptree, Go
<1>3. pc'[r] = "counts" /\ \A q \in Ranks \ {r} : pc'[q] = pc[q]
  BY <1>2 DEF TypeInv
<1>4. /\ left'[r] = left[r] \ some
      /\ \A q \in Ranks \ {r} : left'[q] = left[q] /\ table'[q] = table[q]
  BY <1>1 DEF TypeInv
<1>5. /\ table'[r] \in Seq(Exports(r)) /\ Distinct(table'[r])
      /\ \A e \in Exports(r) : e \in ToSet(table'[r]) <=> e[1] \in some
  <2>1. some \in SUBSET Particles(r)
    BY DEF TypeInv
  <2>2. table'[r] = FlattenSeq([k \in DOMAIN order |-> EntriesOf(r, order[k])])
    BY <1>1 DEF TypeInv
  <2>. QED BY <2>1, <2>2, TableFilled
<1>6. TypeInv'
  BY <1>1, <1>2, <1>4, <1>5 DEF TypeInv, Labels
<1>7. RoundInv' /\ DoneInv' /\ ImportInv' /\ PrimaryInv'
  <2>1. RoundInv' /\ ImportInv' /\ PrimaryInv'
    BY <1>2, <1>3 DEF RoundInv, ImportInv, PrimaryInv, InRound
  <2>2. DoneInv'
    BY <1>2, <1>3, <1>4 DEF DoneInv
  <2>. QED BY <2>1, <2>2
<1>8. ASSUME NEW s \in Ranks, NEW q \in Ranks PROVE ChannelInv(s, q)'
  <2>1. CASE s = r
    BY <1>2, <1>3, <2>1 DEF ChannelInv, Silent
  <2>2. CASE s # r
    BY <1>2, <1>3, <1>4, <2>2, ChannelKept
  <2>. QED BY <2>1, <2>2
<1>9. ASSUME NEW s \in Ranks PROVE EntryInv(s)'
  <2>1. CASE s = r
    <3>1. table[r] = <<>> /\ ToSet(table[r]) = {}
      BY <1>2 DEF EntryInv, ToSet
    <3>2. \A e \in Exports(r) :
            reduced[r][e] = IF e[1] \in left[r] THEN <<>> ELSE <<e>>
      BY <3>1 DEF EntryInv
    <3>3. \A e \in Exports(r) :
            reduced'[r][e] = IF e[1] \in left'[r] \/ e \in ToSet(table'[r])
                             THEN <<>> ELSE <<e>>
      BY <1>2, <1>4, <1>5, <3>2
    <3>4. \A e \in ToSet(table'[r]) : e \in Exports(r)
      BY <1>5 DEF ToSet
    <3>5. \A e \in ToSet(table'[r]) : e[1] \notin left'[r]
      BY <1>4, <1>5, <3>4
    <3>. QED BY <1>3, <1>5, <2>1, <3>3, <3>5 DEF EntryInv
  <2>2. CASE s # r
    <3>1. pc'[s] = pc[s] /\ EntryInv(s)
      BY <1>3, <2>2
    <3>2. pc'[s] \in {"toptree", "sends", "finished"} => table[s] = <<>>
      BY <3>1 DEF EntryInv
    <3>. QED BY <1>2, <1>4, <2>2, <3>1, <3>2, EntriesKept
  <2>. QED BY <2>1, <2>2
<1>. QED BY <1>6, <1>7, <1>8, <1>9

\* Exchanging the counts.
LEMMA CountsInv ==
  ASSUME Inv, ev_export_import_counts
  PROVE  Inv'
<1>. USE DEF Inv
<1>1. /\ \A r \in Ranks : pc[r] = "counts"
      /\ imports' = [r \in Ranks |-> {q \in Ranks : r \in Targets(q)}]
      /\ Ndone' = Cardinality({r \in Ranks : left[r] = {}})
      /\ pc' = [r \in Ranks |-> "send"]
      /\ UNCHANGED <<left, table, Nexportfull, primaries, queries, results, reduced>>
  BY DEF ev_export_import_counts, At, Targets, BufferFull
<1>2. /\ Ndone' \in 0..NTask
      /\ Ndone' = NTask => \A r \in Ranks : left[r] = {}
  <2>. DEFINE Done == {r \in Ranks : left[r] = {}}
  <2>1. NTask \in Nat \ {0}
    BY WorkAssumption
  <2>2. IsFiniteSet(Ranks) /\ Cardinality(Ranks) = NTask /\ Done \subseteq Ranks
    BY <2>1, FS_Interval DEF Ranks
  <2>. HIDE DEF Done
  <2>3. /\ Cardinality(Done) \in Nat /\ Cardinality(Done) <= NTask
        /\ Cardinality(Done) = NTask => Done = Ranks
    BY <2>1, <2>2, FS_Subset, FS_CardinalityType
  <2>4. Ndone' = Cardinality(Done)
    BY <1>1 DEF Done
  <2>5. Ndone' = NTask => \A r \in Ranks : left[r] = {}
    BY <2>3, <2>4 DEF Done
  <2>. QED BY <2>1, <2>3, <2>4, <2>5
<1>3. TypeInv'
  BY <1>1, <1>2 DEF TypeInv, Labels
<1>4. RoundInv' /\ DoneInv' /\ ImportInv' /\ PrimaryInv'
  <2>1. RoundInv' /\ ImportInv' /\ PrimaryInv'
    BY <1>1 DEF RoundInv, ImportInv, PrimaryInv, InRound
  <2>2. DoneInv'
    BY <1>1, <1>2 DEF DoneInv
  <2>. QED BY <2>1, <2>2
<1>5. ASSUME NEW s \in Ranks, NEW q \in Ranks PROVE ChannelInv(s, q)'
  <2>1. Targets(s)' = Targets(s)
    BY <1>1, SameSent
  <2>2. Silent(s, q) /\ (s \in imports'[q] <=> q \in Targets(s))
    BY <1>1 DEF ChannelInv
  <2>3. pc'[s] = "send" /\ queries' = queries /\ results' = results
    BY <1>1
  <2>. QED BY <2>1, <2>2, <2>3 DEF ChannelInv, Silent
<1>6. ASSUME NEW s \in Ranks PROVE EntryInv(s)'
  BY <1>1, EntriesKept
<1>. QED BY <1>3, <1>4, <1>5, <1>6

\* Sending the queries.
LEMMA SendInv ==
  ASSUME Inv, NEW r \in Ranks, ev_send_recv_export_import(r)
  PROVE  Inv'
<1>. USE DEF Inv
<1>1. /\ pc[r] = "send" /\ pc' = [pc EXCEPT ![r] = "primary"]
      /\ queries' = [queries EXCEPT ![r] = [q \in Ranks |->
           IF q \in Targets(r) THEN Append(queries[r][q], Message(r, ForTask(r, q)))
           ELSE queries[r][q]]]
      /\ UNCHANGED <<left, table, Nexportfull, Ndone, primaries, imports, results, reduced>>
  BY DEF ev_send_recv_export_import, Go
<1>2. pc'[r] = "primary" /\ \A q \in Ranks \ {r} : pc'[q] = pc[q]
  BY <1>1 DEF TypeInv
<1>3. /\ \A q \in Ranks : queries'[r][q] =
           IF q \in Targets(r) THEN Append(queries[r][q], Message(r, ForTask(r, q)))
           ELSE queries[r][q]
      /\ \A s \in Ranks \ {r} : queries'[s] = queries[s]
      /\ DOMAIN queries' = Ranks /\ DOMAIN queries'[r] = Ranks
  BY <1>1 DEF TypeInv
<1>4. TypeInv'
  BY <1>1, <1>3 DEF TypeInv, Labels
<1>5. RoundInv' /\ DoneInv' /\ ImportInv' /\ PrimaryInv'
  BY <1>1, <1>2 DEF RoundInv, DoneInv, ImportInv, PrimaryInv, InRound
<1>6. ASSUME NEW s \in Ranks, NEW q \in Ranks PROVE ChannelInv(s, q)'
  <2>1. CASE s = r
    <3>1. /\ ForTask(r, q)' = ForTask(r, q)
          /\ Targets(r)' = Targets(r)
          /\ Message(r, ForTask(r, q))' = Message(r, ForTask(r, q))
      BY <1>1, SameSent DEF Message
    <3>2. /\ r \in imports[q] <=> q \in Targets(r)
          /\ queries[r][q] = <<>> /\ results[q][r] = <<>>
      BY <1>1 DEF ChannelInv
    <3>3. q \in Targets(r) => queries'[r][q] = <<Message(r, ForTask(r, q))>>
      BY <1>3, <3>2
    <3>4. q \notin Targets(r) => queries'[r][q] = <<>>
      BY <1>3, <3>2
    <3>. QED BY <1>1, <1>2, <2>1, <3>1, <3>2, <3>3, <3>4 DEF ChannelInv, Silent, Asked
  <2>2. CASE s # r
    BY <1>1, <1>2, <1>3, <2>2, ChannelKept
  <2>. QED BY <2>1, <2>2
<1>7. ASSUME NEW s \in Ranks PROVE EntryInv(s)'
  <2>1. pc'[s] \in {"toptree", "sends", "finished"} => table[s] = <<>>
    BY <1>2 DEF EntryInv
  <2>. QED BY <1>1, <2>1, EntriesKept
<1>. QED BY <1>4, <1>5, <1>6, <1>7

\* Walking the own tree between the messages.
LEMMA PrimaryStepInv ==
  ASSUME Inv, NEW r \in Ranks, ev_primary(r)
  PROVE  Inv'
<1>. USE DEF Inv
<1>1. /\ pc[r] = "primary" /\ pc' = [pc EXCEPT ![r] = "secondary"]
      /\ primaries' = [primaries EXCEPT ![r] = IF Nexportfull[r] = 0 THEN @ + 1 ELSE @]
      /\ UNCHANGED <<left, table, Nexportfull, Ndone, queries, imports, results, reduced>>
  BY DEF ev_primary, Go, InFirstRound
<1>2. pc'[r] = "secondary" /\ \A q \in Ranks \ {r} : pc'[q] = pc[q]
  BY <1>1 DEF TypeInv
<1>3. TypeInv'
  BY <1>1 DEF TypeInv, Labels
<1>4. RoundInv' /\ DoneInv' /\ ImportInv'
  BY <1>1, <1>2 DEF RoundInv, DoneInv, ImportInv, InRound
<1>5. PrimaryInv'
  <2>1. primaries'[r] = 1
    BY <1>1 DEF PrimaryInv, TypeInv
  <2>2. \A q \in Ranks \ {r} : primaries'[q] = primaries[q]
    BY <1>1 DEF TypeInv
  <2>. QED BY <1>1, <1>2, <2>1, <2>2 DEF PrimaryInv
<1>6. ASSUME NEW s \in Ranks, NEW q \in Ranks PROVE ChannelInv(s, q)'
  <2>1. /\ ForTask(s, q)' = ForTask(s, q)
        /\ Targets(s)' = Targets(s)
        /\ Message(s, ForTask(s, q))' = Message(s, ForTask(s, q))
    BY <1>1, SameSent DEF Message
  <2>2. \/ pc'[s] = pc[s]
        \/ pc[s] = "primary" /\ pc'[s] = "secondary"
    BY <1>1, <1>2
  <2>. QED BY <1>1, <2>1, <2>2 DEF ChannelInv, Silent, Asked, Answered
<1>7. ASSUME NEW s \in Ranks PROVE EntryInv(s)'
  <2>1. pc'[s] \in {"toptree", "sends", "finished"} => table[s] = <<>>
    BY <1>2 DEF EntryInv
  <2>. QED BY <1>1, <2>1, EntriesKept
<1>. QED BY <1>3, <1>4, <1>5, <1>6, <1>7

\* Rank r answers rank q: what was on the way from q to r is on the way back.
LEMMA AnswerInv ==
  ASSUME Inv, NEW r \in Ranks, NEW q \in Ranks, Answer(r, q)
  PROVE  Inv'
<1>. USE DEF Inv
<1>1. /\ pc[r] = "secondary" /\ q \in imports[r] /\ queries[q][r] # <<>>
      /\ queries' = [queries EXCEPT ![q][r] = Tail(@)]
      /\ results' = [results EXCEPT ![r][q] = Append(@, Head(queries[q][r]))]
      /\ imports' = [imports EXCEPT ![r] = @ \ {q}]
      /\ UNCHANGED <<pc, left, table, Nexportfull, Ndone, primaries, reduced>>
  BY DEF Answer
<1>2. /\ queries'[q][r] = Tail(queries[q][r])
      /\ results'[r][q] = Append(results[r][q], Head(queries[q][r]))
      /\ q \notin imports'[r]
      /\ DOMAIN queries' = Ranks /\ DOMAIN results' = Ranks
      /\ \A s \in Ranks : DOMAIN queries'[s] = Ranks /\ DOMAIN results'[s] = Ranks
      /\ imports' \in [Ranks -> SUBSET Ranks]
      /\ \A s \in Ranks : imports'[s] \subseteq imports[s]
  BY <1>1 DEF TypeInv
<1>3. \A s, t \in Ranks : ~(s = q /\ t = r) =>
        /\ queries'[s][t] = queries[s][t]
        /\ results'[t][s] = results[t][s]
        /\ s \in imports'[t] <=> s \in imports[t]
  BY <1>1 DEF TypeInv
<1>4. TypeInv'
  BY <1>1, <1>2 DEF TypeInv
<1>5. RoundInv' /\ DoneInv' /\ PrimaryInv'
  BY <1>1 DEF RoundInv, DoneInv, PrimaryInv, InRound
<1>6. ImportInv'
  BY <1>1, <1>2 DEF ImportInv
<1>7. ASSUME NEW s \in Ranks, NEW t \in Ranks PROVE ChannelInv(s, t)'
  <2>1. CASE s = q /\ t = r
    <3>1. /\ pc[q] \in {"primary", "secondary", "results"} /\ r \in Targets(q)
          /\ Asked(q, r)
      <4>1. ChannelInv(q, r) /\ pc[q] \in Labels
        BY DEF TypeInv
      <4>. QED BY <1>1, <4>1 DEF ChannelInv, Labels, Silent, Answered
    <3>2. /\ Targets(q)' = Targets(q)
          /\ Message(q, ForTask(q, r))' = Message(q, ForTask(q, r))
      BY <1>1, SameSent DEF Message
    <3>. DEFINE m == Message(q, ForTask(q, r))
    <3>3. queries[q][r] = <<m>> /\ results[r][q] = <<>>
      BY <3>1 DEF Asked
    <3>. HIDE DEF m
    <3>4. queries'[q][r] = <<>> /\ results'[r][q] = <<m>>
      BY <1>2, <3>3
    <3>5. Answered(q, r)'
      BY <1>2, <3>2, <3>4 DEF Answered, m
    <3>. QED BY <1>1, <2>1, <3>1, <3>2, <3>5 DEF ChannelInv
  <2>2. CASE ~(s = q /\ t = r)
    BY <1>1, <1>3, <2>2, ChannelKept
  <2>. QED BY <2>1, <2>2
<1>8. ASSUME NEW s \in Ranks PROVE EntryInv(s)'
  <2>1. pc'[s] \in {"toptree", "sends", "finished"} => table[s] = <<>>
    BY <1>1 DEF EntryInv
  <2>. QED BY <1>1, <2>1, EntriesKept
<1>. QED BY <1>4, <1>5, <1>6, <1>7, <1>8

\* After the last answer the rank waits for its own results.
LEMMA EndSecondaryInv ==
  ASSUME Inv, NEW r \in Ranks, EndSecondary(r)
  PROVE  Inv'
<1>. USE DEF Inv
<1>1. /\ pc[r] = "secondary" /\ imports[r] = {} /\ pc' = [pc EXCEPT ![r] = "results"]
      /\ UNCHANGED <<left, table, Nexportfull, Ndone, primaries, queries, imports,
                     results, reduced>>
  BY DEF EndSecondary, AllServed, Go
<1>2. pc'[r] = "results" /\ \A q \in Ranks \ {r} : pc'[q] = pc[q]
  BY <1>1 DEF TypeInv
<1>3. TypeInv'
  BY <1>1 DEF TypeInv, Labels
<1>4. RoundInv' /\ DoneInv' /\ ImportInv' /\ PrimaryInv'
  BY <1>1, <1>2 DEF RoundInv, DoneInv, ImportInv, PrimaryInv, InRound
<1>5. ASSUME NEW s \in Ranks, NEW q \in Ranks PROVE ChannelInv(s, q)'
  <2>1. /\ ForTask(s, q)' = ForTask(s, q)
        /\ Targets(s)' = Targets(s)
        /\ Message(s, ForTask(s, q))' = Message(s, ForTask(s, q))
    BY <1>1, SameSent DEF Message
  <2>2. \/ pc'[s] = pc[s]
        \/ pc[s] = "secondary" /\ pc'[s] = "results"
    BY <1>1, <1>2
  <2>. QED BY <1>1, <2>1, <2>2 DEF ChannelInv, Silent, Asked, Answered
<1>6. ASSUME NEW s \in Ranks PROVE EntryInv(s)'
  <2>1. pc'[s] \in {"toptree", "sends", "finished"} => table[s] = <<>>
    BY <1>2 DEF EntryInv
  <2>. QED BY <1>1, <2>1, EntriesKept
<1>. QED BY <1>3, <1>4, <1>5, <1>6

\* What ev_reduce_export_result adds: the result for itself to each entry of
\* the table, nothing to the others.
LEMMA ReducedOnce ==
  ASSUME Inv, NEW r \in Ranks, ev_reduce_export_result(r)
  PROVE  \A e \in Exports(r) :
           reduced'[r][e] = IF e \in ToSet(table[r]) THEN <<e>> ELSE reduced[r][e]
<1>. USE DEF Inv
<1>. DEFINE ks(e) == {k \in DOMAIN table[r] : table[r][k] = e}
<1>1. \A e \in Exports(r) : reduced'[r][e] = reduced[r][e] \o
        [n \in 1..Cardinality(ks(e)) |-> Result(r, CHOOSE k \in ks(e) : TRUE)]
  BY DEF ev_reduce_export_result, TypeInv
<1>2. \A q \in Targets(r) : results[q][r] = <<Message(r, ForTask(r, q))>>
  <2>1. pc[r] = "results" /\ \A q \in Targets(r) : q \in Ranks /\ results[q][r] # <<>>
    BY DEF ev_reduce_export_result, AllReceived, Targets
  <2>. QED BY <2>1 DEF ChannelInv, Asked, Answered
<1>3. table[r] \in Seq(Exports(r)) /\ Distinct(table[r])
  BY DEF TypeInv, EntryInv
<1>4. \A k \in DOMAIN table[r] : Result(r, k) = table[r][k]
  BY <1>2, <1>3, ResultIsEntry
<1>5. ASSUME NEW e \in Exports(r), e \in ToSet(table[r]) PROVE reduced'[r][e] = <<e>>
  <2>1. PICK k \in DOMAIN table[r] : table[r][k] = e
    BY <1>5 DEF ToSet
  <2>2. ks(e) = {k}
    BY <1>3, <2>1 DEF Distinct
  <2>3. Cardinality(ks(e)) = 1 /\ (CHOOSE j \in ks(e) : TRUE) = k
    BY <2>2, FS_Singleton
  <2>4. reduced[r][e] = <<>>
    BY <1>5 DEF EntryInv
  <2>5. reduced'[r][e] = <<>> \o [n \in 1..1 |-> e]
    BY <1>1, <1>4, <2>1, <2>3, <2>4
  <2>. QED BY <2>5
<1>6. ASSUME NEW e \in Exports(r), e \notin ToSet(table[r])
      PROVE  reduced'[r][e] = reduced[r][e]
  <2>1. ks(e) = {}
    BY <1>6 DEF ToSet
  <2>2. Cardinality(ks(e)) = 0
    BY <2>1, FS_EmptySet
  <2>. DEFINE none == [n \in 1..0 |-> Result(r, CHOOSE k \in ks(e) : TRUE)]
  <2>3. reduced'[r][e] = reduced[r][e] \o none
    BY <1>1, <2>2
  <2>4. none = <<>>
    OBVIOUS
  <2>. HIDE DEF none
  <2>5. reduced[r][e] \in Seq({e})
    <3>1. EntryInv(r)
      OBVIOUS
    <3>. HIDE DEF Inv
    <3>2. reduced[r][e] = <<>> \/ reduced[r][e] = <<e>>
      BY <3>1 DEF EntryInv
    <3>3. <<>> \in Seq({e}) /\ <<e>> \in Seq({e})
      <4>1. \A x : <<x>> \in Seq({x})
        OBVIOUS
      <4>. QED BY <4>1
    <3>. QED BY <3>2, <3>3
  <2>. QED BY <2>3, <2>4, <2>5
<1>. QED BY <1>5, <1>6

\* Results are added once and for the right entry.
LEMMA ReduceInv ==
  ASSUME Inv, NEW r \in Ranks, ev_reduce_export_result(r)
  PROVE  Inv'
<1>1. \A e \in Exports(r) :
        reduced'[r][e] = IF e \in ToSet(table[r]) THEN <<e>> ELSE reduced[r][e]
  BY ReducedOnce
<1>. USE DEF Inv
<1>2. /\ pc[r] = "results" /\ pc' = [pc EXCEPT ![r] = "sends"]
      /\ results' = [q \in Ranks |-> [results[q] EXCEPT ![r] = IF @ = <<>> THEN @ ELSE Tail(@)]]
      /\ table' = [table EXCEPT ![r] = <<>>]
      /\ \A q \in Targets(r) : results[q][r] # <<>>
      /\ UNCHANGED <<left, Nexportfull, Ndone, primaries, queries, imports>>
  BY DEF ev_reduce_export_result, AllReceived, Go
<1>3. /\ DOMAIN reduced' = Ranks /\ DOMAIN reduced'[r] = Exports(r)
      /\ \A q \in Ranks \ {r} : reduced'[q] = reduced[q]
  BY DEF ev_reduce_export_result, TypeInv
<1>4. pc'[r] = "sends" /\ \A q \in Ranks \ {r} : pc'[q] = pc[q]
  BY <1>2 DEF TypeInv
<1>5. table'[r] = <<>> /\ \A q \in Ranks \ {r} : table'[q] = table[q]
  BY <1>2 DEF TypeInv
<1>6. /\ DOMAIN results' = Ranks /\ \A q \in Ranks : DOMAIN results'[q] = Ranks
      /\ \A q \in Ranks : results'[q][r] = IF results[q][r] = <<>> THEN <<>> ELSE Tail(results[q][r])
      /\ \A q \in Ranks, s \in Ranks \ {r} : results'[q][s] = results[q][s]
  BY <1>2 DEF TypeInv
<1>7. TypeInv'
  <2>1. /\ pc' \in [Ranks -> Labels]
        /\ left' \in [Ranks -> SUBSET (Nat \ {0})]
        /\ Nexportfull' \in [Ranks -> Nat] /\ Ndone' \in 0..NTask
        /\ primaries' \in [Ranks -> Nat] /\ imports' \in [Ranks -> SUBSET Ranks]
        /\ \A s \in Ranks : left'[s] \subseteq Particles(s)
    BY <1>2 DEF TypeInv, Labels
  <2>2. DOMAIN table' = Ranks /\ \A s \in Ranks : table'[s] \in Seq(Exports(s))
    BY <1>2, <1>5 DEF TypeInv
  <2>3. /\ DOMAIN queries' = Ranks /\ DOMAIN reduced' = Ranks
        /\ \A s \in Ranks : DOMAIN queries'[s] = Ranks /\ DOMAIN reduced'[s] = Exports(s)
    BY <1>2, <1>3 DEF TypeInv
  <2>. HIDE DEF Inv
  <2>. QED BY <1>6, <2>1, <2>2, <2>3 DEF TypeInv
<1>8. RoundInv' /\ DoneInv' /\ ImportInv' /\ PrimaryInv'
  BY <1>2, <1>4 DEF RoundInv, DoneInv, ImportInv, PrimaryInv, InRound
<1>9. ASSUME NEW s \in Ranks, NEW q \in Ranks PROVE ChannelInv(s, q)'
  <2>1. CASE s = r
    <3>1. CASE q \in Targets(r)
      <4>1. Answered(r, q)
        BY <1>2, <3>1 DEF ChannelInv, Asked
      <4>2. results'[q][r] = Tail(results[q][r])
        BY <1>2, <1>6, <3>1
      <4>. QED BY <1>2, <1>4, <2>1, <4>1, <4>2 DEF Answered, ChannelInv, Silent
    <3>2. CASE q \notin Targets(r)
      <4>1. Silent(r, q)
        BY <1>2, <3>2 DEF ChannelInv
      <4>. QED BY <1>2, <1>4, <1>6, <2>1, <4>1 DEF ChannelInv, Silent
    <3>. QED BY <3>1, <3>2
  <2>2. CASE s # r
    BY <1>2, <1>4, <1>5, <1>6, <2>2, ChannelKept
  <2>. QED BY <2>1, <2>2
<1>10. ASSUME NEW s \in Ranks PROVE EntryInv(s)'
  <2>1. CASE s = r
    <3>1. ToSet(table'[r]) = {} /\ Distinct(table'[r])
      BY <1>5 DEF ToSet, Distinct
    <3>2. \A e \in ToSet(table[r]) : e[1] \notin left[r]
      BY DEF EntryInv
    <3>3. \A e \in Exports(r) : reduced'[r][e] = IF e[1] \in left[r] THEN <<>> ELSE <<e>>
      BY <1>1, <3>2 DEF EntryInv
    <3>. QED BY <1>2, <1>5, <2>1, <3>1, <3>3 DEF EntryInv
  <2>2. CASE s # r
    <3>1. pc'[s] \in {"toptree", "sends", "finished"} => table[s] = <<>>
      BY <1>4, <2>2 DEF EntryInv
    <3>. QED BY <1>2, <1>3, <1>5, <2>2, <3>1, EntriesKept
  <2>. QED BY <2>1, <2>2
<1>. QED BY <1>7, <1>8, <1>9, <1>10

\* A rank leaves a round with nothing on its way to it.
LEMMA EndRoundInv ==
  ASSUME Inv, NEW r \in Ranks, EndRound(r)
  PROVE  Inv'
<1>. USE DEF Inv
<1>1. /\ pc[r] = "sends"
      /\ pc' = [pc EXCEPT ![r] = IF Ndone < NTask THEN "toptree" ELSE "finished"]
      /\ Nexportfull' = [Nexportfull EXCEPT ![r] = @ + 1]
      /\ UNCHANGED <<left, table, Ndone, primaries, queries, imports, results, reduced>>
  BY DEF EndRound, Go, SomeNotDone
<1>2. /\ pc'[r] = IF Ndone # NTask THEN "toptree" ELSE "finished"
      /\ \A q \in Ranks \ {r} : pc'[q] = pc[q]
  <2>1. NTask \in Nat /\ Ndone \in 0..NTask
    BY WorkAssumption DEF TypeInv
  <2>. QED BY <1>1, <2>1 DEF TypeInv
<1>3. /\ Nexportfull'[r] = Nexportfull[r] + 1 /\ Nexportfull[r] \in Nat
      /\ \A q \in Ranks \ {r} : Nexportfull'[q] = Nexportfull[q]
  BY <1>1 DEF TypeInv
<1>4. TypeInv'
  BY <1>1, <1>3 DEF TypeInv, Labels
<1>5. RoundInv'
  <2>1. InRound(r) /\ ~InRound(r)' /\ \A q \in Ranks \ {r} : InRound(q)' = InRound(q)
    BY <1>1, <1>2 DEF InRound
  <2>2. \A q \in Ranks : Nexportfull[q] = IF InRound(q) THEN Nexportfull[r] ELSE Nexportfull[r] + 1
    BY <2>1 DEF RoundInv
  <2>3. \A q \in Ranks :
          Nexportfull'[q] = IF InRound(q)' THEN Nexportfull[r] ELSE Nexportfull[r] + 1
    BY <1>3, <2>1, <2>2
  <2>. QED BY <1>3, <2>3 DEF RoundInv
<1>6. DoneInv' /\ ImportInv' /\ PrimaryInv'
  <2>1. DoneInv'
    BY <1>1, <1>2, <1>3 DEF DoneInv
  <2>2. ImportInv'
    BY <1>1, <1>2 DEF ImportInv
  <2>3. PrimaryInv'
    BY <1>1, <1>2, <1>3 DEF PrimaryInv
  <2>. QED BY <2>1, <2>2, <2>3
<1>7. ASSUME NEW s \in Ranks, NEW q \in Ranks PROVE ChannelInv(s, q)'
  <2>1. CASE s = r
    BY <1>1, <1>2, <2>1 DEF ChannelInv, Silent
  <2>2. CASE s # r
    BY <1>1, <1>2, <1>3, <2>2, ChannelKept
  <2>. QED BY <2>1, <2>2
<1>8. ASSUME NEW s \in Ranks PROVE EntryInv(s)'
  <2>1. pc'[s] \in {"toptree", "sends", "finished"} => table[s] = <<>>
    BY <1>1, <1>2 DEF EntryInv
  <2>. QED BY <1>1, <2>1, EntriesKept
<1>. QED BY <1>4, <1>5, <1>6, <1>7, <1>8

\* A step that changes nothing.
LEMMA StutterInv ==
  ASSUME Inv, UNCHANGED vars
  PROVE  Inv'
<1>1. UNCHANGED <<pc, left, table, Nexportfull, Ndone, primaries, queries, imports,
                  results, reduced>>
  BY DEF vars
<1>2. TypeInv' /\ RoundInv' /\ DoneInv' /\ ImportInv' /\ PrimaryInv'
  BY <1>1 DEF Inv, TypeInv, RoundInv, DoneInv, ImportInv, PrimaryInv, InRound
<1>3. \A s, q \in Ranks : ChannelInv(s, q)'
  BY <1>1, ChannelKept DEF Inv
<1>4. \A s \in Ranks : EntryInv(s)'
  BY <1>1 DEF Inv, EntryInv
<1>. QED BY <1>2, <1>3, <1>4 DEF Inv

\* Each action keeps the invariant.
LEMMA NextInv == Inv /\ [Next]_vars => Inv'
<1>1. ASSUME Inv, ev_export_import_counts PROVE Inv'
  BY <1>1, CountsInv
<1>2. ASSUME Inv, NEW r \in Ranks, Step(r) PROVE Inv'
  <2>1. CASE ev_toptree(r)
    BY <1>2, <2>1, ToptreeInv
  <2>2. CASE ev_send_recv_export_import(r)
    BY <1>2, <2>2, SendInv
  <2>3. CASE ev_primary(r)
    BY <1>2, <2>3, PrimaryStepInv
  <2>4. CASE ev_secondary(r)
    <3>1. PICK q \in imports[r] : Answer(r, q)
      BY <2>4 DEF ev_secondary
    <3>2. q \in Ranks
      BY <1>2, <3>1 DEF Inv, TypeInv
    <3>. QED BY <1>2, <3>1, <3>2, AnswerInv
  <2>5. CASE EndSecondary(r)
    BY <1>2, <2>5, EndSecondaryInv
  <2>6. CASE ev_reduce_export_result(r)
    BY <1>2, <2>6, ReduceInv
  <2>. QED BY <1>2, <2>1, <2>2, <2>3, <2>4, <2>5, <2>6 DEF Step
<1>3. ASSUME Inv, NEW r \in Ranks, EndRound(r) PROVE Inv'
  BY <1>3, EndRoundInv
<1>4. ASSUME Inv, UNCHANGED vars PROVE Inv'
  BY <1>4, StutterInv
<1>. QED BY <1>1, <1>2, <1>3, <1>4 DEF Next

\* What the walk does alone and as part of metal_return.
Walk == Init /\ [][Next]_vars

\* The metal return takes no step that is not one of a tree walk.
LEMMA MetalReturnIsWalk == MetalSpec => Walk
<1>1. MetalInit => Init
  BY DEF MetalInit
<1>2. [MetalNext]_<<vars, masses>> => [Next]_vars
  <2>1. ASSUME NEW r \in Ranks, MetalStep(r) PROVE [Next]_vars
    <3>1. CASE ev_toptree(r)
      BY <3>1 DEF Next, Step
    <3>2. CASE SendStars(r)
      BY <3>2 DEF Next, Step, SendStars
    <3>3. CASE GiveAtHome(r)
      <4>1. ev_primary(r)
        BY <3>3 DEF GiveAtHome
      <4>. QED BY <4>1 DEF Next, Step
    <3>4. CASE ReduceStars(r)
      BY <3>4 DEF Next, Step, ReduceStars
    <3>5. ASSUME NEW q \in Ranks, GiveAbroad(r, q) PROVE [Next]_vars
      <4>1. Answer(r, q) /\ q \in imports[r]
        BY <3>5 DEF GiveAbroad, Answer
      <4>. QED BY <4>1 DEF Next, Step, ev_secondary
    <3>6. CASE EndSecondary(r)
      BY <3>6 DEF Next, Step
    <3>7. CASE metal_return_postprocess(r)
      BY <3>7 DEF metal_return_postprocess
    <3>. QED BY <2>1, <3>1, <3>2, <3>3, <3>4, <3>5, <3>6, <3>7 DEF MetalStep
  <2>2. ASSUME NEW r \in Ranks, Leave(r) PROVE [Next]_vars
    BY <2>2 DEF Leave, Next
  <2>3. CASE Counts
    BY <2>3 DEF Counts, Next
  <2>4. CASE UNCHANGED <<vars, masses>>
    BY <2>4
  <2>. QED BY <2>1, <2>2, <2>3, <2>4 DEF MetalNext
<1>. QED BY <1>1, <1>2, PTL DEF MetalSpec, Walk

\* In every state of the walk the inductive invariant holds.
LEMMA Invariance == Walk => []Inv
<1>1. Init => Inv
  BY InitInv
<1>2. Inv /\ [Next]_vars => Inv'
  BY NextInv
<1>. QED BY <1>1, <1>2, PTL DEF Walk

\* The invariant says that results are added once,
LEMMA InvAddedOnce == Inv => AddedOnce
<1>. SUFFICES ASSUME Inv, NEW r \in Ranks
              PROVE  /\ \A e \in Exports(r) : Len(reduced[r][e]) <= 1 /\ ToSet(reduced[r][e]) \subseteq {e}
                     /\ primaries[r] <= 1
                     /\ pc[r] = "finished" =>
                          primaries[r] = 1 /\ \A e \in Exports(r) : Len(reduced[r][e]) = 1
  BY DEF AddedOnce
<1>1. \A e : /\ Len(<<>>) = 0 /\ ToSet(<<>>) = {}
            /\ Len(<<e>>) = 1 /\ ToSet(<<e>>) = {e}
  BY DEF ToSet
<1>2. \A e \in Exports(r) :
        reduced[r][e] = IF e[1] \in left[r] \/ e \in ToSet(table[r]) THEN <<>> ELSE <<e>>
  BY DEF Inv, EntryInv
<1>3. primaries[r] \in {0, 1} /\ (pc[r] = "finished" => primaries[r] = 1)
  BY DEF Inv, PrimaryInv
<1>4. ASSUME pc[r] = "finished" PROVE \A e \in Exports(r) : reduced[r][e] = <<e>>
  <2>1. left[r] = {} /\ table[r] = <<>>
    BY <1>4 DEF Inv, DoneInv, EntryInv
  <2>. QED BY <1>1, <1>2, <2>1
<1>5. ASSUME NEW e \in Exports(r)
      PROVE  /\ Len(reduced[r][e]) <= 1 /\ ToSet(reduced[r][e]) \subseteq {e}
             /\ reduced[r][e] = <<e>> => Len(reduced[r][e]) = 1
  <2>1. reduced[r][e] = <<>> \/ reduced[r][e] = <<e>>
    BY <1>2
  <2>2. CASE reduced[r][e] = <<>>
    BY <1>1, <2>2
  <2>3. CASE reduced[r][e] = <<e>>
    BY <1>1, <2>3
  <2>. QED BY <2>1, <2>2, <2>3
<1>6. primaries[r] <= 1
  BY <1>3
<1>. QED BY <1>3, <1>4, <1>5, <1>6, Zenon

\* Each export gets one result, its own, and each rank walks its tree once,
\* however many rounds it takes and in whatever order the answers come.
THEOREM ResultsAddedOnce == (Spec => []AddedOnce) /\ (MetalSpec => []AddedOnce)
<1>1. Spec => Walk
  BY DEF Spec, Walk
<1>2. Inv => AddedOnce
  BY InvAddedOnce
<1>. QED BY <1>1, <1>2, MetalReturnIsWalk, Invariance, PTL

\* and that messages of two rounds are never on one channel.
LEMMA InvRoundsApart == Inv => RoundsApart
<1>. SUFFICES ASSUME Inv, NEW r \in Ranks, NEW q \in Ranks
              PROVE  /\ Len(queries[r][q]) <= 1 /\ Len(results[r][q]) <= 1
                     /\ \A m \in ToSet(queries[r][q]) :
                          m.round = Nexportfull[r] /\ m.round = Nexportfull[q]
                     /\ \A m \in ToSet(results[r][q]) : m.round = Nexportfull[q]
  BY DEF RoundsApart
<1>1. \A e : /\ Len(<<>>) = 0 /\ ToSet(<<>>) = {}
            /\ Len(<<e>>) = 1 /\ ToSet(<<e>>) = {e}
  BY DEF ToSet
<1>2. \A s, t \in Ranks : ChannelInv(s, t) /\ pc[s] \in Labels
  BY DEF Inv, TypeInv
<1>3. \/ queries[r][q] = <<>>
      \/ /\ queries[r][q] = <<Message(r, ForTask(r, q))>>
         /\ r \in imports[q] /\ InRound(r)
  BY <1>2 DEF ChannelInv, Silent, Asked, Answered, Labels, InRound
<1>4. results[r][q] = <<>> \/ results[r][q] = <<Message(q, ForTask(q, r))>>
  BY <1>2 DEF ChannelInv, Silent, Asked, Answered, Labels
<1>5. \A s, t : Message(s, ForTask(s, t)).round = Nexportfull[s]
  BY DEF Message
<1>6. ASSUME queries[r][q] # <<>> PROVE Nexportfull[r] = Nexportfull[q]
  <2>1. InRound(q)
    BY <1>3, <1>6 DEF Inv, ImportInv, InRound
  <2>. QED BY <1>3, <1>6, <2>1 DEF Inv, RoundInv
<1>7. /\ Len(queries[r][q]) <= 1
      /\ \A m \in ToSet(queries[r][q]) : m.round = Nexportfull[r] /\ m.round = Nexportfull[q]
  <2>1. CASE queries[r][q] = <<>>
    BY <1>1, <2>1
  <2>2. CASE queries[r][q] # <<>>
    <3>. DEFINE m == Message(r, ForTask(r, q))
    <3>1. queries[r][q] = <<m>> /\ m.round = Nexportfull[r] /\ m.round = Nexportfull[q]
      BY <1>3, <1>5, <1>6, <2>2
    <3>. HIDE DEF m
    <3>. QED BY <1>1, <3>1
  <2>. QED BY <2>1, <2>2
<1>8. Len(results[r][q]) <= 1 /\ \A m \in ToSet(results[r][q]) : m.round = Nexportfull[q]
  <2>. DEFINE m == Message(q, ForTask(q, r))
  <2>1. m.round = Nexportfull[q] /\ (results[r][q] = <<>> \/ results[r][q] = <<m>>)
    BY <1>4, <1>5
  <2>. HIDE DEF m
  <2>2. CASE results[r][q] = <<>>
    BY <1>1, <2>2
  <2>3. CASE results[r][q] = <<m>>
    BY <1>1, <2>1, <2>3
  <2>. QED BY <2>1, <2>2, <2>3
<1>. QED BY <1>7, <1>8

\* Ranks that have left a round never get a message of the next one mixed with
\* those of the last, though nothing but the counts holds them together.
THEOREM RoundsNeverMeet == (Spec => []RoundsApart) /\ (MetalSpec => []RoundsApart)
<1>1. Spec => Walk
  BY DEF Spec, Walk
<1>2. Inv => RoundsApart
  BY InvRoundsApart
<1>. QED BY <1>1, <1>2, MetalReturnIsWalk, Invariance, PTL

----------------------------------------------------------------------------

\* All exports of all ranks.
AllExports == UNION {{r} \X Exports(r) : r \in Ranks}

\* There are finitely many entries,
LEMMA ExportsFinite == IsFiniteSet(AllExports)
<1>1. ASSUME NEW r \in Ranks PROVE IsFiniteSet({r} \X Exports(r))
  <2>1. Work[r] \in Seq(Seq(Ranks))
    BY WorkAssumption
  <2>2. Len(Work[r]) \in Nat /\ DOMAIN Work[r] = 1..Len(Work[r])
    BY <2>1
  <2>. DEFINE part == [p \in DOMAIN Work[r] |-> {p} \X DOMAIN Work[r][p]]
              parts == {part[p] : p \in DOMAIN Work[r]}
  <2>3. IsFiniteSet(parts)
    <3>1. part \in Surjection(DOMAIN Work[r], parts)
      BY DEF Surjection
    <3>2. IsFiniteSet(DOMAIN Work[r])
      BY <2>2, FS_Interval
    <3>. HIDE DEF part, parts
    <3>. QED BY <3>1, <3>2, FS_Surjection
  <2>4. \A x \in parts : IsFiniteSet(x)
    <3>. TAKE x \in parts
    <3>1. PICK p \in DOMAIN Work[r] : x = {p} \X DOMAIN Work[r][p]
      OBVIOUS
    <3>2. Len(Work[r][p]) \in Nat /\ DOMAIN Work[r][p] = 1..Len(Work[r][p])
      BY <2>1
    <3>3. IsFiniteSet(DOMAIN Work[r][p]) /\ IsFiniteSet({p})
      <4>1. IsFiniteSet(1..Len(Work[r][p]))
        BY <3>2, FS_Interval
      <4>. QED BY <3>2, <4>1, FS_Singleton
    <3>. QED BY <3>1, <3>3, FS_Product
  <2>5. Exports(r) = UNION parts
    <3>1. \A p \in DOMAIN Work[r] : ToSet(EntriesOf(r, p)) = part[p]
      BY WorkFacts
    <3>. HIDE DEF part
    <3>. QED BY <3>1 DEF Exports
  <2>6. IsFiniteSet(Exports(r))
    <3>. HIDE DEF parts
    <3>. QED BY <2>3, <2>4, <2>5, FS_UNION
  <2>. QED BY <2>6, FS_Singleton, FS_Product
<1>. DEFINE part == [r \in Ranks |-> {r} \X Exports(r)]
            parts == {part[r] : r \in Ranks}
<1>2. IsFiniteSet(parts)
  <2>1. part \in Surjection(Ranks, parts)
    BY DEF Surjection
  <2>2. IsFiniteSet(Ranks)
    BY WorkAssumption, FS_Interval DEF Ranks
  <2>. HIDE DEF part, parts
  <2>. QED BY <2>1, <2>2, FS_Surjection
<1>3. \A x \in parts : IsFiniteSet(x)
  BY <1>1
<1>4. AllExports = UNION parts
  BY DEF AllExports
<1>. HIDE DEF parts
<1>. QED BY <1>2, <1>3, <1>4, FS_UNION

\* all of them waiting at the start.
LEMMA RoundsInit == Init => W!Init
<1>. SUFFICES ASSUME Init PROVE W!Init
  OBVIOUS
<1>1. IsFiniteSet(AllExports)
  BY ExportsFinite
<1>2. \A r \in Ranks : \A e \in Exports(r) : reduced[r][e] = <<>>
  BY DEF Init
<1>3. \A r \in Ranks : ToSet(table[r]) = {}
  BY DEF Init, ToSet
<1>4. Taken = {}
  BY <1>3 DEF Taken
<1>5. Pending = AllExports
  <2>1. \A r \in Ranks : {e \in Exports(r) : reduced[r][e] = <<>>} = Exports(r)
    BY <1>2
  <2>. QED BY <2>1 DEF Pending, AllExports
<1>6. At("finished") = FALSE
  <2>1. 1 \in Ranks
    BY WorkAssumption DEF Ranks
  <2>2. pc[1] = "toptree"
    BY <2>1 DEF Init
  <2>. QED BY <2>1, <2>2 DEF At
<1>7. W!IsFiniteSet(AllExports)
  BY <1>1, Zenon DEF IsFiniteSet, W!IsFiniteSet
<1>8. Pending \ Taken = AllExports
  BY <1>4, <1>5
<1>. QED BY <1>4, <1>6, <1>7, <1>8, Zenon DEF W!Init, AllExports

\* A step that changes neither table nor results and after which a rank has
\* not finished is no step of the rounds of work.
LEMMA RoundsStutter ==
  ASSUME UNCHANGED <<table, reduced>>, At("finished")' <=> At("finished")
  PROVE  UNCHANGED <<Pending \ Taken, Taken, At("finished")>>
<1>1. Taken' = Taken
  BY DEF Taken
<1>2. Pending' = Pending
  BY DEF Pending
<1>3. At("finished")' = At("finished")
  BY Zenon DEF At
<1>. QED BY <1>1, <1>2, <1>3

\* ev_toptree takes from what is left.
LEMMA RoundsTake ==
  ASSUME Inv, Inv', NEW r \in Ranks, ev_toptree(r)
  PROVE  W!Take
<1>. DEFINE some == {r} \X ToSet(table'[r])
<1>1. /\ pc[r] = "toptree" /\ pc'[r] = "counts" /\ reduced' = reduced
      /\ \A q \in Ranks \ {r} : table'[q] = table[q]
  BY DEF ev_toptree, Go, Inv, TypeInv
<1>2. ToSet(table[r]) = {}
  BY <1>1 DEF Inv, EntryInv, ToSet
<1>3. Taken' = Taken \cup some
  <2>1. \A x : x \in Taken' <=> \E q \in Ranks : x \in {q} \X ToSet(table'[q])
    BY DEF Taken
  <2>2. \A x : x \in Taken <=> \E q \in Ranks : x \in {q} \X ToSet(table[q])
    BY DEF Taken
  <2>3. {r} \X ToSet(table[r]) = {}
    BY <1>2
  <2>. QED BY <1>1, <2>1, <2>2, <2>3
<1>4. Pending' = Pending
  BY <1>1 DEF Pending
<1>5. Taken' \subseteq Pending'
  <2>1. \A q \in Ranks : ToSet(table'[q]) \subseteq Exports(q)
    BY DEF Inv, TypeInv, ToSet
  <2>2. \A q \in Ranks : \A e \in ToSet(table'[q]) : reduced'[q][e] = <<>>
    BY <2>1 DEF Inv, EntryInv
  <2>. QED BY <2>1, <2>2 DEF Taken, Pending
<1>6. some \cap Taken = {}
  <2>1. \A e : <<r, e>> \notin Taken
    BY <1>2 DEF Taken
  <2>. QED BY <2>1
<1>7. some \in SUBSET (Pending \ Taken) /\ Taken' = Taken \cup some
      /\ Pending' \ Taken' = (Pending \ Taken) \ some
  BY <1>3, <1>4, <1>5, <1>6
<1>8. ~At("finished") /\ ~At("finished")'
  BY <1>1 DEF At
<1>9. At("finished")' = At("finished")
  BY <1>8 DEF At
<1>. HIDE DEF some
<1>10. \E x \in SUBSET (Pending \ Taken) :
         (Pending \ Taken)' = (Pending \ Taken) \ x /\ Taken' = Taken \cup x
  BY <1>7
<1>. QED BY <1>8, <1>9, <1>10 DEF W!Take

\* ev_reduce_export_result completes the table of the rank.
LEMMA RoundsSend ==
  ASSUME Inv, Inv', NEW r \in Ranks, ev_reduce_export_result(r)
  PROVE  W!Send
<1>. DEFINE some == {r} \X ToSet(table[r])
<1>1. /\ pc[r] = "results" /\ pc'[r] = "sends" /\ table'[r] = <<>>
      /\ \A q \in Ranks \ {r} : table'[q] = table[q] /\ reduced'[q] = reduced[q]
  BY DEF ev_reduce_export_result, Go, Inv, TypeInv
<1>2. ToSet(table'[r]) = {}
  BY <1>1 DEF ToSet
<1>3. Taken' = Taken \ some
  <2>1. \A x : x \in Taken' <=> \E q \in Ranks : x \in {q} \X ToSet(table'[q])
    BY DEF Taken
  <2>2. \A x : x \in Taken <=> \E q \in Ranks : x \in {q} \X ToSet(table[q])
    BY DEF Taken
  <2>3. {r} \X ToSet(table'[r]) = {}
    BY <1>2
  <2>4. \A q \in Ranks \ {r} : ({q} \X ToSet(table[q])) \cap some = {}
    OBVIOUS
  <2>. QED BY <1>1, <2>1, <2>2, <2>3, <2>4
<1>4. Pending' = Pending \ some
  <2>1. \A e \in Exports(r) :
          reduced'[r][e] = IF e \in ToSet(table[r]) THEN <<e>> ELSE reduced[r][e]
    BY ReducedOnce
  <2>2. \A e : <<e>> # <<>>
    OBVIOUS
  <2>3. \A e \in Exports(r) :
          reduced'[r][e] = <<>> <=> reduced[r][e] = <<>> /\ e \notin ToSet(table[r])
    BY <2>1, <2>2
  <2>4. \A q, e : <<q, e>> \in Pending <=> q \in Ranks /\ e \in Exports(q) /\ reduced[q][e] = <<>>
    BY DEF Pending
  <2>5. \A q, e : <<q, e>> \in Pending' <=> q \in Ranks /\ e \in Exports(q) /\ reduced'[q][e] = <<>>
    BY DEF Pending
  <2>6. \A q, e : <<q, e>> \in some <=> q = r /\ e \in ToSet(table[r])
    OBVIOUS
  <2>. HIDE DEF some
  <2>7. \A q, e : <<q, e>> \in Pending' <=> <<q, e>> \in Pending /\ <<q, e>> \notin some
    <3>. TAKE q, e
    <3>1. CASE q = r
      BY <2>3, <2>4, <2>5, <2>6, <3>1
    <3>2. CASE q # r
      BY <1>1, <2>4, <2>5, <2>6, <3>2
    <3>. QED BY <3>1, <3>2
  <2>8. /\ \A x \in Pending  : \E q, e : x = <<q, e>>
        /\ \A x \in Pending' : \E q, e : x = <<q, e>>
    BY DEF Pending
  <2>. QED BY <2>7, <2>8
<1>5. some \subseteq Taken
  BY DEF Taken
<1>6. ~At("finished") /\ ~At("finished")'
  BY <1>1 DEF At
<1>. HIDE DEF some
<1>7. /\ \E x \in SUBSET Taken : Taken' = Taken \ x
      /\ (Pending \ Taken)' = Pending \ Taken
  BY <1>3, <1>4, <1>5
<1>8. At("finished")' \in BOOLEAN
  BY DEF At
<1>. QED BY <1>6, <1>7, <1>8 DEF W!Send

\* The last rank to leave the last round finds nothing left anywhere.
LEMMA RoundsEnd ==
  ASSUME Inv, Inv', NEW r \in Ranks, EndRound(r)
  PROVE  [W!Next]_W!vars
<1>1. pc[r] = "sends" /\ UNCHANGED <<table, reduced>>
  BY DEF EndRound
<1>2. At("finished") = FALSE
  BY <1>1 DEF At
<1>3. Taken' = Taken /\ Pending' = Pending
  BY <1>1 DEF Taken, Pending
<1>4. CASE ~At("finished")'
  <2>1. At("finished")' = At("finished")
    BY <1>2, <1>4 DEF At
  <2>. QED BY <1>3, <2>1 DEF W!vars
<1>5. CASE At("finished")'
  <2>1. \A q \in Ranks : pc'[q] = "finished"
    BY <1>5 DEF At
  <2>2. \A q \in Ranks : left'[q] = {} /\ table'[q] = <<>> /\ ToSet(table'[q]) = {}
    BY <2>1 DEF Inv, DoneInv, EntryInv, ToSet
  <2>3. \A q \in Ranks : \A e \in Exports(q) : reduced'[q][e] # <<>>
    <3>1. \A e : <<e>> # <<>>
      OBVIOUS
    <3>. QED BY <2>2, <3>1 DEF Inv, EntryInv
  <2>4. Taken' = {} /\ Pending' = {}
    BY <2>2, <2>3 DEF Taken, Pending
  <2>5. At("finished")' \in BOOLEAN
    BY <1>5
  <2>6. \E x \in SUBSET Taken : Taken' = Taken \ x
    BY <1>3
  <2>. QED BY <1>2, <1>3, <2>4, <2>5, <2>6 DEF W!Next, W!Send
<1>. QED BY <1>4, <1>5

\* Each step of the walk is one of the rounds of work, or changes none of it.
LEMMA RoundsStep ==
  ASSUME Inv, Inv', [Next]_vars
  PROVE  [W!Next]_W!vars
<1>. USE DEF W!vars
<1>1. ASSUME ev_export_import_counts PROVE UNCHANGED W!vars
  <2>1. UNCHANGED <<table, reduced>>
    BY <1>1 DEF ev_export_import_counts
  <2>2. ~At("finished") /\ ~At("finished")'
    <3>1. 1 \in Ranks
      BY WorkAssumption DEF Ranks
    <3>. QED BY <1>1, <3>1 DEF ev_export_import_counts, At
  <2>. QED BY <2>1, <2>2, RoundsStutter
<1>2. ASSUME NEW r \in Ranks, Step(r) PROVE [W!Next]_W!vars
  <2>1. CASE ev_toptree(r)
    BY <2>1, RoundsTake DEF W!Next
  <2>2. CASE ev_reduce_export_result(r)
    BY <2>2, RoundsSend DEF W!Next
  <2>3. CASE \/ ev_send_recv_export_import(r) \/ ev_primary(r)
             \/ ev_secondary(r) \/ EndSecondary(r)
    <3>1. UNCHANGED <<table, reduced>>
      BY <2>3 DEF ev_send_recv_export_import, ev_primary, ev_secondary, Answer, EndSecondary
    <3>2. pc[r] # "finished" /\ pc'[r] # "finished"
      BY <2>3 DEF ev_send_recv_export_import, ev_primary, ev_secondary, Answer, EndSecondary,
                  Go, Inv, TypeInv
    <3>3. ~At("finished") /\ ~At("finished")'
      BY <3>2 DEF At
    <3>. QED BY <3>1, <3>3, RoundsStutter
  <2>. QED BY <1>2, <2>1, <2>2, <2>3 DEF Step
<1>3. ASSUME NEW r \in Ranks, EndRound(r) PROVE [W!Next]_W!vars
  BY <1>3, RoundsEnd
<1>4. ASSUME UNCHANGED vars PROVE UNCHANGED W!vars
  <2>1. UNCHANGED <<table, reduced>> /\ (At("finished")' <=> At("finished"))
    BY <1>4 DEF vars, At
  <2>. QED BY <2>1, RoundsStutter
<1>. QED BY <1>1, <1>2, <1>3, <1>4 DEF Next

\* The walk implements the rounds of work: every export of every rank is taken
\* once and completed, and all ranks are through only when none is left.  That
\* they do get through (DoesAllWork) needs fairness.
THEOREM WalkImplementsRounds == (Spec => W!Spec) /\ (MetalSpec => W!Spec)
<1>1. Spec => Walk
  BY DEF Spec, Walk
<1>2. Init => W!Init
  BY RoundsInit
<1>3. Inv /\ Inv' /\ [Next]_vars =>
        [W!Next]_W!vars
  BY RoundsStep
<1>4. Walk => W!Spec
  BY <1>2, <1>3, Invariance, PTL DEF Walk, W!Spec
<1>. QED BY <1>1, <1>4, MetalReturnIsWalk, PTL

----------------------------------------------------------------------------
(* The mass that stars return to the gas.                                  *)

\* What the stars have been told that they have given, and what they have given
\* besides that: answers that have not been reduced.
Paid == [s \in AllStars |-> IF primaries[s[1]] = 0 THEN 0 ELSE MassReturn[s[1]][s[2]]]

Pledged == [x \in AllExports |-> IF reduced[x[1]][x[2]] = <<>> THEN given[x[1]][x[2]] ELSE 0]

MassTypes ==
  /\ gas \in [Gas -> Nat]
  /\ DOMAIN star = Ranks /\ DOMAIN MassReturn = Ranks
  /\ DOMAIN MassGenerated = Ranks /\ DOMAIN given = Ranks
  /\ \A r \in Ranks : /\ star[r] \in [Stars(r) -> Int]
                      /\ MassReturn[r] \in [Stars(r) -> Nat]
                      /\ MassGenerated[r] \in [Exports(r) -> Nat]
                      /\ given[r] \in [Exports(r) -> Nat]
  /\ returned \subseteq Ranks

\* The gas has gained what the stars have given.
LedgerInv == SumFunction(gas) = SumFunction(GasMass) + SumFunction(Paid) + SumFunction(Pledged)

\* At most what each neighbour of a star is offered.
Share(r, p) == IF Neighbours(r, p) = {} THEN 0
               ELSE Generated[r][p] \div Cardinality(Neighbours(r, p))

\* The neighbours of a star that have been offered their share and whose answer
\* the star has.
Covered(r, p, done) ==
  Near[r][p] \cup UNION {Reach[r][p][n] : n \in {m \in DOMAIN Work[r][p] : <<p, m>> \in done}}

Reduced(r) == {e \in Exports(r) : reduced[r][e] # <<>>}

\* No star has given more than the share of each neighbour, and none has offered
\* more than it was to return.
ShareInv ==
  \A r \in Ranks : \A p \in Stars(r) :
    /\ IF primaries[r] = 0 THEN MassReturn[r][p] = Generated[r][p]
       ELSE MassReturn[r][p] <= Share(r, p) * Cardinality(Covered(r, p, Reduced(r)))
    /\ \A n \in DOMAIN Work[r][p] :
         /\ MassGenerated[r][<<p, n>>] <= Generated[r][p]
         /\ given[r][<<p, n>>] <= Share(r, p) * Cardinality(Reach[r][p][n])

\* An answer is not there before the query has been answered.
GivenInv ==
  \A r \in Ranks : \A e \in Exports(r) :
    given[r][e] # 0 => \/ reduced[r][e] # <<>>
                       \/ e \in ToSet(table[r]) /\ results[Task(r, e)][r] # <<>>

\* A star loses its mass once, when its rank has all answers.
StarInv ==
  \A r \in Ranks :
    /\ r \in returned => pc[r] = "finished"
    /\ \A p \in Stars(r) :
         star[r][p] = StarMass[r][p] - (IF r \in returned THEN MassReturn[r][p] ELSE 0)

MassInv == MassTypes /\ LedgerInv /\ ShareInv /\ GivenInv /\ StarInv

\* Products and quotients of natural numbers.
LEMMA ProductFacts ==
  ASSUME NEW a \in Nat, NEW b \in Nat, NEW c \in Nat
  PROVE  /\ a * b \in Nat
         /\ a * (b + c) = a * b + a * c /\ a * 1 = a /\ a * 0 = 0
         /\ b <= c => a * b <= a * c
         /\ c # 0 => /\ a \div c \in Nat /\ (a \div c) * c <= a
                     /\ b <= a => b \div c <= a \div c
<1>1. a * b \in Nat /\ a * (b + c) = a * b + a * c /\ a * 1 = a /\ a * 0 = 0
  BY Z3
<1>2. b <= c => a * b <= a * c
  <2>. SUFFICES ASSUME b <= c PROVE a * b <= a * c
    OBVIOUS
  <2>1. c - b \in Nat /\ a * (c - b) \in Nat /\ a * (c - b) = a * c - a * b
    BY Z3
  <2>2. a * b \in Nat /\ a * c \in Nat
    BY Z3
  <2>. QED BY <2>1, <2>2
<1>3. c # 0 => /\ a \div c \in Nat /\ (a \div c) * c <= a
               /\ b <= a => b \div c <= a \div c
  BY Z3
<1>. QED BY <1>1, <1>2, <1>3

\* The stars and their neighbours.
LEMMA StarFacts ==
  ASSUME NEW r \in Ranks, NEW p \in Stars(r)
  PROVE  /\ Generated[r][p] \in Nat /\ StarMass[r][p] \in Nat
         /\ Generated[r][p] <= StarMass[r][p]
         /\ Near[r][p] \subseteq Gas
         /\ \A n \in DOMAIN Work[r][p] :
              Reach[r][p][n] \subseteq Gas /\ Reach[r][p][n] \cap Near[r][p] = {}
         /\ \A m, n \in DOMAIN Work[r][p] : m # n => Reach[r][p][m] \cap Reach[r][p][n] = {}
         /\ Neighbours(r, p) \subseteq Gas
BY MetalReturnAssumption DEF Stars, Neighbours

\* Sets of gas particles are finite.
LEMMA GasFinite ==
  ASSUME NEW S, S \subseteq Gas
  PROVE  IsFiniteSet(S) /\ Cardinality(S) \in Nat
BY MetalReturnAssumption, FS_Subset, FS_CardinalityType

\* More gas, a larger product.
LEMMA ProductGrows ==
  ASSUME NEW c \in Nat, NEW S, NEW T, S \subseteq T, T \subseteq Gas,
         NEW m \in Nat, m <= c * Cardinality(S)
  PROVE  m <= c * Cardinality(T)
<1>1. /\ Cardinality(S) \in Nat /\ Cardinality(T) \in Nat
      /\ Cardinality(S) <= Cardinality(T)
  <2>1. S \subseteq Gas
    OBVIOUS
  <2>. QED BY <2>1, GasFinite, FS_Subset
<1>2. /\ c * Cardinality(S) \in Nat /\ c * Cardinality(T) \in Nat
      /\ c * Cardinality(S) <= c * Cardinality(T)
  BY <1>1, ProductFacts
<1>. QED BY <1>2

\* What a star is offered to give to those that are covered is at most what it
\* is to return.
LEMMA ShareFacts ==
  ASSUME NEW r \in Ranks, NEW p \in Stars(r), NEW done
  PROVE  /\ Share(r, p) \in Nat
         /\ Covered(r, p, done) \subseteq Neighbours(r, p)
         /\ Share(r, p) * Cardinality(Covered(r, p, done)) <= Generated[r][p]
         /\ Neighbours(r, p) # {} => Cardinality(Neighbours(r, p)) \in Nat \ {0}
<1>. DEFINE N == Cardinality(Neighbours(r, p))
            C == Cardinality(Covered(r, p, done))
<1>1. Generated[r][p] \in Nat /\ Neighbours(r, p) \subseteq Gas
  BY StarFacts
<1>2. IsFiniteSet(Neighbours(r, p)) /\ N \in Nat
  BY <1>1, GasFinite
<1>3. Neighbours(r, p) # {} => N # 0
  BY <1>2, FS_EmptySet
<1>4. Covered(r, p, done) \subseteq Neighbours(r, p)
  BY DEF Covered, Neighbours
<1>5. C \in Nat /\ C <= N
  BY <1>1, <1>2, <1>4, FS_Subset, GasFinite
<1>. HIDE DEF N, C
<1>6. CASE Neighbours(r, p) = {}
  <2>1. Share(r, p) = 0
    BY <1>6 DEF Share
  <2>. QED BY <1>1, <1>4, <1>5, <1>6, <2>1 DEF C
<1>7. CASE Neighbours(r, p) # {}
  <2>1. Share(r, p) = Generated[r][p] \div N
    BY <1>7 DEF Share, N
  <2>2. Share(r, p) \in Nat /\ Share(r, p) * N <= Generated[r][p]
    BY <1>1, <1>2, <1>3, <1>7, <2>1, ProductFacts
  <2>3. Share(r, p) * C <= Share(r, p) * N /\ Share(r, p) * N \in Nat /\ Share(r, p) * C \in Nat
    BY <1>2, <1>5, <2>2, ProductFacts
  <2>4. Share(r, p) * C <= Generated[r][p]
    BY <1>1, <2>2, <2>3
  <2>. QED BY <1>2, <1>3, <1>4, <1>7, <2>2, <2>4 DEF C, N
<1>. QED BY <1>6, <1>7

\* The answers to one more entry cover the gas that it reaches.
LEMMA CoveredGrows ==
  ASSUME NEW r \in Ranks, NEW p \in Stars(r), NEW n \in DOMAIN Work[r][p],
         NEW done, <<p, n>> \notin done
  PROVE  Cardinality(Covered(r, p, done \cup {<<p, n>>}))
           = Cardinality(Covered(r, p, done)) + Cardinality(Reach[r][p][n])
<1>1. /\ Reach[r][p][n] \subseteq Gas /\ Near[r][p] \cap Reach[r][p][n] = {}
      /\ Neighbours(r, p) \subseteq Gas
      /\ \A m \in DOMAIN Work[r][p] : m # n => Reach[r][p][m] \cap Reach[r][p][n] = {}
  BY StarFacts
<1>2. Covered(r, p, done \cup {<<p, n>>}) = Covered(r, p, done) \cup Reach[r][p][n]
  BY DEF Covered
<1>3. Covered(r, p, done) \cap Reach[r][p][n] = {}
  BY <1>1 DEF Covered
<1>4. Covered(r, p, done) \subseteq Gas
  BY <1>1, ShareFacts
<1>5. /\ IsFiniteSet(Covered(r, p, done)) /\ Cardinality(Covered(r, p, done)) \in Nat
      /\ IsFiniteSet(Reach[r][p][n]) /\ Cardinality(Reach[r][p][n]) \in Nat
  BY <1>1, <1>4, GasFinite
<1>6. Cardinality(Covered(r, p, done) \cup Reach[r][p][n])
        = Cardinality(Covered(r, p, done)) + Cardinality(Reach[r][p][n])
            - Cardinality(Covered(r, p, done) \cap Reach[r][p][n])
  BY <1>5, FS_Union
<1>7. Cardinality(Covered(r, p, done) \cap Reach[r][p][n]) = 0
  BY <1>3, FS_EmptySet
<1>8. Cardinality(Covered(r, p, done) \cup Reach[r][p][n])
        = Cardinality(Covered(r, p, done)) + Cardinality(Reach[r][p][n])
  <2>1. \A a, b, c \in Nat : a + b - 0 = a + b
    OBVIOUS
  <2>. HIDE DEF Covered
  <2>. QED BY <1>5, <1>6, <1>7, <2>1
<1>. QED BY <1>2, <1>8

\* There are finitely many stars.
LEMMA StarsFinite ==
  /\ \A r \in Ranks : IsFiniteSet(Stars(r))
  /\ IsFiniteSet(AllStars)
  /\ \A s : s \in AllStars <=> \E r \in Ranks : \E p \in Stars(r) : s = <<r, p>>
<1>1. ASSUME NEW r \in Ranks PROVE IsFiniteSet(Stars(r)) /\ IsFiniteSet({r} \X Stars(r))
  <2>1. Work[r] \in Seq(Seq(Ranks))
    BY WorkAssumption
  <2>2. Len(Work[r]) \in Nat /\ DOMAIN Work[r] = 1..Len(Work[r])
    BY <2>1
  <2>3. IsFiniteSet(Stars(r))
    BY <2>2, FS_Interval DEF Stars
  <2>. QED BY <2>3, FS_Singleton, FS_Product
<1>. DEFINE part == [r \in Ranks |-> {r} \X Stars(r)]
            parts == {part[r] : r \in Ranks}
<1>2. IsFiniteSet(parts)
  <2>1. part \in Surjection(Ranks, parts)
    BY DEF Surjection
  <2>2. IsFiniteSet(Ranks)
    BY WorkAssumption, FS_Interval DEF Ranks
  <2>. HIDE DEF part, parts
  <2>. QED BY <2>1, <2>2, FS_Surjection
<1>3. \A x \in parts : IsFiniteSet(x)
  BY <1>1
<1>4. AllStars = UNION parts
  BY DEF AllStars
<1>5. IsFiniteSet(AllStars)
  <2>. HIDE DEF parts
  <2>. QED BY <1>2, <1>3, <1>4, FS_UNION
<1>6. \A s : s \in AllStars <=> \E r \in Ranks : \E p \in Stars(r) : s = <<r, p>>
  BY DEF AllStars
<1>. QED BY <1>1, <1>5, <1>6

\* What the threads have done after n visits.
Ledger(entries) == [gas : [Gas -> Nat], mass : [entries -> Nat]]

\* The gas that has been visited for entry e.
Met(order, n, e) == {order[i].other : i \in {j \in 1..n : order[j].entry = e}}

\* The gas gains what the entries give, and no entry gives more than a share for
\* each of its visits.
KeptAfter(l, order, n, entries, share) ==
  /\ SumFunction(l.gas) = SumFunction(gas) + SumFunction(l.mass)
  /\ \A e \in entries : l.mass[e] <= share[e] * Cardinality(Met(order, n, e))

\* The mass of one gas particle in that of all.
LEMMA SumOfGas ==
  \A f \in [Gas -> Int] : \A g \in Gas : \A v \in Int :
    SumFunction([f EXCEPT ![g] = v]) = SumFunction(f) - f[g] + v
BY MetalReturnAssumption, SumPoint

\* One visit.
LEMMA VisitKeeps ==
  ASSUME NEW entries, IsFiniteSet(entries), NEW share \in [entries -> Nat],
         gas \in [Gas -> Nat], NEW l \in Ledger(entries), NEW order, NEW n \in Nat,
         order[n + 1] \in [entry : entries, other : Gas, share : Nat],
         order[n + 1].share <= share[order[n + 1].entry],
         order[n + 1].other \notin Met(order, n, order[n + 1].entry),
         \A i \in 1..n : order[i].other \in Gas,
         KeptAfter(l, order, n, entries, share)
  PROVE  /\ metal_return_ngbiter(l, order[n + 1]) \in Ledger(entries)
         /\ KeptAfter(metal_return_ngbiter(l, order[n + 1]), order, n + 1, entries, share)
<1>. DEFINE w == order[n + 1]
            c == Accepted(l.gas[w.other], w.share)
            k == metal_return_ngbiter(l, w)
<1>1. /\ w.entry \in entries /\ w.other \in Gas /\ w.share \in Nat
      /\ w.share <= share[w.entry]
  OBVIOUS
<1>2. l.gas \in [Gas -> Nat] /\ l.mass \in [entries -> Nat]
  BY DEF Ledger
<1>3. c \in Nat /\ c <= w.share
  BY <1>1, <1>2, MetalReturnAssumption DEF Accepted
<1>4. /\ k = [gas |-> k.gas, mass |-> k.mass]
      /\ k.gas = [l.gas EXCEPT ![w.other] = IF l.gas[w.other] + w.share > MaxGasMass
                                            THEN @ ELSE @ + w.share]
      /\ k.mass = [l.mass EXCEPT ![w.entry] = @ + c]
  BY DEF metal_return_ngbiter
<1>. HIDE DEF w
<1>5. k.gas = [l.gas EXCEPT ![w.other] = @ + c]
  <2>1. CASE l.gas[w.other] + w.share > MaxGasMass
    BY <1>1, <1>2, <1>4, <2>1 DEF Accepted
  <2>2. CASE ~(l.gas[w.other] + w.share > MaxGasMass)
    BY <1>1, <1>2, <1>4, <2>2 DEF Accepted
  <2>. QED BY <2>1, <2>2
<1>. HIDE DEF c, k
<1>6. k.gas \in [Gas -> Nat] /\ k.mass \in [entries -> Nat]
  BY <1>1, <1>2, <1>3, <1>4, <1>5
<1>7. k \in Ledger(entries)
  BY <1>4, <1>6 DEF Ledger
<1>8. SumFunction(k.gas) = SumFunction(l.gas) + c
  <2>1. PICK v \in Int : v = l.gas[w.other] + c
    BY <1>1, <1>2, <1>3
  <2>2. l.gas \in [Gas -> Int] /\ IsFiniteSet(Gas) /\ l.gas[w.other] \in Int
    BY <1>1, <1>2, MetalReturnAssumption
  <2>3. SumFunction([l.gas EXCEPT ![w.other] = v]) = SumFunction(l.gas) - l.gas[w.other] + v
    BY <1>1, <2>2, SumOfGas
  <2>4. SumFunction(l.gas) \in Int
    BY <2>2, SumInt
  <2>. QED BY <1>3, <1>5, <2>1, <2>2, <2>3, <2>4
<1>9. SumFunction(k.mass) = SumFunction(l.mass) + c /\ SumFunction(l.mass) \in Int
  <2>1. PICK v \in Int : v = l.mass[w.entry] + c
    BY <1>1, <1>2, <1>3
  <2>2. l.mass \in [entries -> Int] /\ l.mass[w.entry] \in Int
    BY <1>1, <1>2
  <2>3. SumFunction([l.mass EXCEPT ![w.entry] = v]) = SumFunction(l.mass) - l.mass[w.entry] + v
    BY <1>1, <2>2, SumPoint
  <2>4. SumFunction(l.mass) \in Int
    BY <2>2, SumInt
  <2>. QED BY <1>3, <1>4, <2>1, <2>2, <2>3, <2>4
<1>10. SumFunction(gas) \in Int
  <2>1. gas \in [Gas -> Int] /\ IsFiniteSet(Gas)
    BY MetalReturnAssumption
  <2>. QED BY <2>1, SumInt
<1>11. SumFunction(k.gas) = SumFunction(gas) + SumFunction(k.mass)
  BY <1>3, <1>8, <1>9, <1>10 DEF KeptAfter
<1>12. ASSUME NEW e \in entries
       PROVE  k.mass[e] <= share[e] * Cardinality(Met(order, n + 1, e))
  <2>1. /\ l.mass[e] <= share[e] * Cardinality(Met(order, n, e))
        /\ l.mass[e] \in Nat /\ share[e] \in Nat
    BY <1>2 DEF KeptAfter
  <2>2. Met(order, n, e) \subseteq Gas
    BY DEF Met
  <2>3. IsFiniteSet(Met(order, n, e)) /\ Cardinality(Met(order, n, e)) \in Nat
    BY <2>2, GasFinite
  <2>4. CASE e = w.entry
    <3>1. Met(order, n + 1, e) = Met(order, n, e) \cup {w.other}
      BY <2>4 DEF Met, w
    <3>2. w.other \notin Met(order, n, e)
      BY <2>4 DEF w
    <3>3. Cardinality(Met(order, n + 1, e)) = Cardinality(Met(order, n, e)) + 1
      BY <2>3, <3>1, <3>2, FS_AddElement
    <3>4. /\ share[e] * Cardinality(Met(order, n, e)) \in Nat
          /\ share[e] * (Cardinality(Met(order, n, e)) + 1)
               = share[e] * Cardinality(Met(order, n, e)) + share[e] * 1
          /\ share[e] * 1 = share[e]
      <4>1. \A a, k1 \in Nat : a * k1 \in Nat /\ a * (k1 + 1) = a * k1 + a * 1 /\ a * 1 = a
        BY ProductFacts
      <4>. QED BY <2>1, <2>3, <4>1
    <3>5. k.mass[e] = l.mass[e] + c
      BY <1>1, <1>2, <1>4, <2>4
    <3>. QED BY <1>1, <1>3, <2>1, <2>4, <3>3, <3>4, <3>5
  <2>5. CASE e # w.entry
    <3>1. Met(order, n + 1, e) = Met(order, n, e)
      BY <2>5 DEF Met, w
    <3>2. k.mass[e] = l.mass[e]
      BY <1>2, <1>4, <2>5
    <3>. QED BY <2>1, <3>1, <3>2
  <2>. QED BY <2>4, <2>5
<1>. QED BY <1>7, <1>11, <1>12 DEF KeptAfter, k, w

\* The visits in any order.
LEMMA EnrichedFacts ==
  ASSUME NEW r, NEW entries, IsFiniteSet(entries), NEW generated,
         NEW share \in [entries -> Nat], gas \in [Gas -> Nat],
         \A e \in entries : Visited(r, e) \subseteq Gas,
         \A e \in entries : Visited(r, e) # {} =>
           generated[e] \div Cardinality(Neighbours(r, e[1])) \in 0..share[e],
         NEW order \in SetToSeqs(Visits(r, entries, generated))
  PROVE  LET after == Enriched(order, entries)
         IN  /\ after.gas \in [Gas -> Nat] /\ after.mass \in [entries -> Nat]
             /\ SumFunction(after.gas) = SumFunction(gas) + SumFunction(after.mass)
             /\ \A e \in entries : after.mass[e] <= share[e] * Cardinality(Visited(r, e))
<1>. DEFINE V == Visits(r, entries, generated)
            N == Len(order)
            Visit == [entry : entries, other : Gas, share : Nat]
            start == [gas |-> gas, mass |-> [e \in entries |-> 0]]
            step  == [y \in Ledger(entries) \X (1..N) |-> metal_return_ngbiter(y[1], order[y[2]])]
<1>1. \A w \in V : /\ w \in Visit /\ w.other \in Visited(r, w.entry)
                   /\ w.share = generated[w.entry] \div Cardinality(Neighbours(r, w.entry[1]))
                   /\ w.share <= share[w.entry]
  <2>. TAKE w \in V
  <2>0. PICK e \in entries : \E g \in Visited(r, e) :
          w = [entry |-> e, other |-> g,
               share |-> generated[e] \div Cardinality(Neighbours(r, e[1]))]
    BY DEF Visits
  <2>1. PICK g \in Visited(r, e) :
          w = [entry |-> e, other |-> g,
               share |-> generated[e] \div Cardinality(Neighbours(r, e[1]))]
    BY <2>0
  <2>2. generated[e] \div Cardinality(Neighbours(r, e[1])) \in 0..share[e] /\ g \in Gas
    BY <2>1
  <2>3. share[e] \in Nat
    OBVIOUS
  <2>. QED BY <2>1, <2>2, <2>3
<1>2. IsFiniteSet(V)
  <2>. DEFINE at == [y \in V |-> <<y.entry, y.other>>]
  <2>1. at \in Injection(V, entries \X Gas)
    <3>1. at \in [V -> entries \X Gas]
      BY <1>1
    <3>2. ASSUME NEW v \in V, NEW w \in V, at[v] = at[w] PROVE v = w
      <4>1. v.entry = w.entry /\ v.other = w.other
        BY <3>2
      <4>2. v.share = w.share
        BY <1>1, <4>1
      <4>3. v \in Visit /\ w \in Visit
        BY <1>1
      <4>. HIDE DEF V
      <4>. QED BY <4>1, <4>2, <4>3
    <3>. QED BY <3>1, <3>2 DEF Injection, IsInjective
  <2>2. IsFiniteSet(entries \X Gas)
    BY MetalReturnAssumption, FS_Product
  <2>. HIDE DEF V, at
  <2>. QED BY <2>1, <2>2, FS_Injection
<1>3. order \in Seq(V) /\ Distinct(order) /\ ToSet(order) = V
  <2>. HIDE DEF V
  <2>1. order \in SetToSeqs(V)
    BY DEF V
  <2>. QED BY <1>2, <2>1, OrderingsCover
<1>. HIDE DEF V
<1>4. N \in Nat /\ DOMAIN order = 1..N /\ \A i \in 1..N : order[i] \in V
  BY <1>3
<1>5. \A l \in Ledger(entries), w \in Visit : metal_return_ngbiter(l, w) \in Ledger(entries)
  <2>. TAKE l \in Ledger(entries), w \in Visit
  <2>1. /\ l.gas \in [Gas -> Nat] /\ l.mass \in [entries -> Nat]
        /\ w.other \in Gas /\ w.entry \in entries /\ w.share \in Nat
    BY DEF Ledger
  <2>2. Accepted(l.gas[w.other], w.share) \in Nat
    BY <2>1 DEF Accepted
  <2>3. /\ [l.gas EXCEPT ![w.other] = IF l.gas[w.other] + w.share > MaxGasMass
                                      THEN @ ELSE @ + w.share] \in [Gas -> Nat]
        /\ [l.mass EXCEPT ![w.entry] = @ + Accepted(l.gas[w.other], w.share)] \in [entries -> Nat]
    BY <2>1, <2>2
  <2>. QED BY <2>3 DEF metal_return_ngbiter, Ledger
<1>6. start \in Ledger(entries) /\ step \in [Ledger(entries) \X (1..N) -> Ledger(entries)]
  <2>1. start \in Ledger(entries)
    BY DEF Ledger
  <2>2. \A y \in Ledger(entries) \X (1..N) : y[1] \in Ledger(entries) /\ order[y[2]] \in Visit
    BY <1>1, <1>4
  <2>. HIDE DEF Visit
  <2>. QED BY <1>5, <2>1, <2>2
<1>. HIDE DEF start, N
<1>7. PICK F : Unfolds(F, Ledger(entries), N, start, step)
  <2>. HIDE DEF step
  <2>. QED BY <1>4, <1>6, RecurrenceExists
<1>8. /\ F \in [0..N -> Ledger(entries)] /\ F[0] = start
      /\ \A i \in 1..N : F[i] = metal_return_ngbiter(F[i - 1], order[i])
  <2>1. /\ F \in [0..N -> Ledger(entries)] /\ F[0] = start
        /\ \A i \in 1..N : F[i] = step[<<F[i - 1], i>>]
    BY <1>7 DEF Unfolds
  <2>2. ASSUME NEW i \in 1..N PROVE F[i - 1] \in Ledger(entries)
    <3>1. i - 1 \in 0..N
      BY <1>4
    <3>. QED BY <2>1, <3>1
  <2>. QED BY <2>1, <2>2
<1>. DEFINE Sat(s) == s = [n \in 0..N |-> IF n = 0 THEN start
                                          ELSE metal_return_ngbiter(s[n - 1], order[n])]
<1>9. \E s : Sat(s)
  <2>1. F = [n \in 0..N |-> F[n]]
    BY <1>8
  <2>2. \A n \in 0..N : F[n] = IF n = 0 THEN start ELSE metal_return_ngbiter(F[n - 1], order[n])
    BY <1>4, <1>8
  <2>3. Sat(F)
    BY <2>1, <2>2, Zenon
  <2>. QED BY <2>3
<1>10. PICK s : Sat(s) /\ Enriched(order, entries) = s[N]
  <2>1. Sat(CHOOSE s : Sat(s))
    BY <1>9, Zenon
  <2>2. Enriched(order, entries) = (CHOOSE s : Sat(s))[N]
    BY Zenon DEF Enriched, start, N
  <2>. QED BY <2>1, <2>2
<1>11. /\ s[0] = start
       /\ \A n \in 1..N : s[n] = metal_return_ngbiter(s[n - 1], order[n])
  <2>1. \A n \in 0..N : s[n] = IF n = 0 THEN start ELSE metal_return_ngbiter(s[n - 1], order[n])
    BY <1>10, Zenon
  <2>2. \A n \in 1..N : n \in 0..N /\ n # 0
    BY <1>4
  <2>3. 0 \in 0..N
    BY <1>4
  <2>. QED BY <2>1, <2>2, <2>3
<1>. DEFINE Good == {n \in Nat : n <= N => /\ s[n] \in Ledger(entries)
                                          /\ KeptAfter(s[n], order, n, entries, share)}
<1>. HIDE DEF Sat
<1>12. 0 \in Good
  <2>1. start.gas = gas /\ start.mass = [e \in entries |-> 0]
    BY DEF start
  <2>2. SumFunction(start.mass) = 0
    <3>1. start.mass \in [entries -> Int] /\ \A e \in entries : start.mass[e] = 0
      BY <2>1
    <3>. QED BY <3>1, SumInt
  <2>3. SumFunction(gas) \in Int
    <3>1. gas \in [Gas -> Int] /\ IsFiniteSet(Gas)
      BY MetalReturnAssumption
    <3>. QED BY <3>1, SumInt
  <2>4. ASSUME NEW e \in entries PROVE start.mass[e] <= share[e] * Cardinality(Met(order, 0, e))
    <3>1. Met(order, 0, e) = {}
      BY DEF Met
    <3>2. share[e] \in Nat
      OBVIOUS
    <3>3. Cardinality(Met(order, 0, e)) = 0
      BY <3>1, FS_EmptySet
    <3>4. share[e] * 0 = 0
      BY <3>2, ProductFacts
    <3>. QED BY <2>1, <3>3, <3>4
  <2>5. KeptAfter(start, order, 0, entries, share)
    BY <2>1, <2>2, <2>3, <2>4 DEF KeptAfter
  <2>. QED BY <1>6, <1>11, <2>5
<1>13. ASSUME NEW n \in Nat, n \in Good PROVE n + 1 \in Good
  <2>. SUFFICES ASSUME n + 1 <= N
                PROVE  /\ s[n + 1] \in Ledger(entries)
                       /\ KeptAfter(s[n + 1], order, n + 1, entries, share)
    OBVIOUS
  <2>1. n \in 0..N /\ n + 1 \in 1..N /\ (n + 1) - 1 = n
    BY <1>4
  <2>2. s[n] \in Ledger(entries) /\ KeptAfter(s[n], order, n, entries, share)
    BY <1>13, <2>1
  <2>3. s[n + 1] = metal_return_ngbiter(s[n], order[n + 1])
    BY <1>11, <2>1
  <2>4. /\ order[n + 1] \in V /\ order[n + 1] \in Visit
        /\ order[n + 1].share <= share[order[n + 1].entry]
    BY <1>1, <1>4, <2>1
  <2>5. \A i \in 1..n : i \in 1..N /\ order[i] \in V /\ order[i] \in Visit /\ order[i].other \in Gas
    <3>1. \A i \in 1..n : i \in 1..N
      BY <1>4, <2>1
    <3>2. \A i \in 1..n : order[i] \in V /\ order[i] \in Visit
      BY <1>1, <1>4, <3>1
    <3>3. \A v \in Visit : v.other \in Gas
      OBVIOUS
    <3>. HIDE DEF Visit
    <3>. QED BY <3>1, <3>2, <3>3
  <2>6. order[n + 1].other \notin Met(order, n, order[n + 1].entry)
    <3>. SUFFICES ASSUME NEW i \in 1..n, order[i].entry = order[n + 1].entry,
                         order[i].other = order[n + 1].other
                  PROVE  FALSE
      BY DEF Met
    <3>1. order[i].share = order[n + 1].share
      BY <1>1, <2>4, <2>5
    <3>2. order[i] = order[n + 1]
      <4>1. order[i] \in Visit /\ order[n + 1] \in Visit
        BY <2>4, <2>5
      <4>. QED BY <3>1, <4>1
    <3>3. i = n + 1
      BY <1>3, <1>4, <2>1, <2>5, <3>2 DEF Distinct
    <3>. QED BY <3>3
  <2>7. /\ metal_return_ngbiter(s[n], order[n + 1]) \in Ledger(entries)
        /\ KeptAfter(metal_return_ngbiter(s[n], order[n + 1]), order, n + 1, entries, share)
    BY <2>2, <2>4, <2>5, <2>6, VisitKeeps
  <2>. QED BY <2>3, <2>7
<1>14. N \in Good
  <2>. HIDE DEF Good
  <2>. QED BY <1>4, <1>12, <1>13, NatSetInduction
<1>15. /\ s[N] \in Ledger(entries)
       /\ KeptAfter(s[N], order, N, entries, share)
  BY <1>4, <1>14
<1>16. ASSUME NEW e \in entries PROVE s[N].mass[e] <= share[e] * Cardinality(Visited(r, e))
  <2>1. Met(order, N, e) \subseteq Visited(r, e)
    BY <1>1, <1>4 DEF Met
  <2>2. /\ IsFiniteSet(Visited(r, e)) /\ Cardinality(Visited(r, e)) \in Nat
        /\ Cardinality(Met(order, N, e)) \in Nat
        /\ Cardinality(Met(order, N, e)) <= Cardinality(Visited(r, e))
    <3>1. Visited(r, e) \subseteq Gas /\ Met(order, N, e) \subseteq Gas
      BY <2>1
    <3>2. IsFiniteSet(Visited(r, e)) /\ Cardinality(Visited(r, e)) \in Nat
          /\ Cardinality(Met(order, N, e)) \in Nat
      BY <3>1, GasFinite
    <3>. QED BY <2>1, <3>2, FS_Subset
  <2>3. /\ share[e] * Cardinality(Met(order, N, e)) <= share[e] * Cardinality(Visited(r, e))
        /\ share[e] * Cardinality(Met(order, N, e)) \in Nat
        /\ share[e] * Cardinality(Visited(r, e)) \in Nat
    <3>1. share[e] \in Nat
      OBVIOUS
    <3>. QED BY <2>2, <3>1, ProductFacts
  <2>4. s[N].mass[e] \in Nat /\ s[N].mass[e] <= share[e] * Cardinality(Met(order, N, e))
    BY <1>15 DEF KeptAfter, Ledger
  <2>. QED BY <2>3, <2>4
<1>17. s[N].gas \in [Gas -> Nat] /\ s[N].mass \in [entries -> Nat]
  BY <1>15 DEF Ledger
<1>. QED BY <1>10, <1>15, <1>16, <1>17 DEF KeptAfter

\* The sums are finite.
LEMMA SumsDefined ==
  ASSUME MassTypes, TypeInv
  PROVE  /\ Paid \in [AllStars -> Int] /\ Pledged \in [AllExports -> Int]
         /\ IsFiniteSet(AllStars) /\ IsFiniteSet(AllExports)
         /\ SumFunction(Paid) \in Int /\ SumFunction(Pledged) \in Int
         /\ SumFunction(gas) \in Int /\ SumFunction(GasMass) \in Int
<1>1. Paid \in [AllStars -> Int]
  <2>1. ASSUME NEW s \in AllStars PROVE MassReturn[s[1]][s[2]] \in Int
    <3>1. PICK r \in Ranks : \E p \in Stars(r) : s = <<r, p>>
      BY StarsFinite
    <3>2. PICK p \in Stars(r) : s = <<r, p>>
      BY <3>1
    <3>. QED BY <3>2 DEF MassTypes
  <2>. QED BY <2>1 DEF Paid
<1>2. Pledged \in [AllExports -> Int]
  <2>1. ASSUME NEW x \in AllExports PROVE given[x[1]][x[2]] \in Int
    <3>1. PICK r \in Ranks : x \in {r} \X Exports(r)
      BY DEF AllExports
    <3>. QED BY <3>1 DEF MassTypes
  <2>. QED BY <2>1 DEF Pledged
<1>3. IsFiniteSet(AllStars) /\ IsFiniteSet(AllExports)
  BY StarsFinite, ExportsFinite
<1>4. SumFunction(Paid) \in Int /\ SumFunction(Pledged) \in Int
  BY <1>1, <1>2, <1>3, SumInt
<1>5. gas \in [Gas -> Int] /\ GasMass \in [Gas -> Int] /\ IsFiniteSet(Gas)
  BY MetalReturnAssumption DEF MassTypes
<1>6. SumFunction(gas) \in Int /\ SumFunction(GasMass) \in Int
  BY <1>5, SumInt
<1>. QED BY <1>1, <1>2, <1>3, <1>4, <1>6

\* At the start nothing has been given.
LEMMA MassAtStart == MetalInit => MassInv
<1>. SUFFICES ASSUME MetalInit PROVE MassInv
  OBVIOUS
<1>1. /\ gas = GasMass /\ star = StarMass /\ MassReturn = Generated
      /\ MassGenerated = [r \in Ranks |-> [e \in Exports(r) |-> 0]]
      /\ given = MassGenerated /\ returned = {}
      /\ primaries = [r \in Ranks |-> 0]
  BY DEF MetalInit, Init
<1>2. MassTypes
  BY <1>1, MetalReturnAssumption DEF MassTypes, Stars
<1>3. Inv
  BY InitInv DEF MetalInit
<1>4. LedgerInv
  <2>1. \A s \in AllStars : Paid[s] = 0
    <3>. TAKE s \in AllStars
    <3>1. s[1] \in Ranks
      BY StarsFinite
    <3>. QED BY <1>1, <3>1 DEF Paid
  <2>2. \A x \in AllExports : Pledged[x] = 0
    <3>. TAKE x \in AllExports
    <3>1. x[1] \in Ranks /\ x[2] \in Exports(x[1])
      BY DEF AllExports
    <3>2. given[x[1]][x[2]] = 0
      BY <1>1, <3>1
    <3>. QED BY <3>2 DEF Pledged
  <2>3. SumFunction(Paid) = 0 /\ SumFunction(Pledged) = 0
    BY <1>2, <1>3, <2>1, <2>2, SumsDefined, SumInt DEF Inv
  <2>4. SumFunction(GasMass) \in Int
    BY <1>2, <1>3, SumsDefined DEF Inv
  <2>. QED BY <1>1, <2>3, <2>4 DEF LedgerInv
<1>5. ShareInv
  <2>. SUFFICES ASSUME NEW r \in Ranks, NEW p \in Stars(r), NEW n \in DOMAIN Work[r][p]
                PROVE  /\ MassReturn[r][p] = Generated[r][p]
                       /\ MassGenerated[r][<<p, n>>] <= Generated[r][p]
                       /\ given[r][<<p, n>>] <= Share(r, p) * Cardinality(Reach[r][p][n])
    <3>1. \A r \in Ranks : primaries[r] = 0
      BY <1>1
    <3>2. \A r \in Ranks : \A p \in Stars(r) : MassReturn[r][p] = Generated[r][p]
      BY <1>1
    <3>. QED BY <3>1, <3>2 DEF ShareInv
  <2>1. <<p, n>> \in Exports(r)
    BY ExportFacts DEF Stars
  <2>2. MassGenerated[r][<<p, n>>] = 0 /\ given[r][<<p, n>>] = 0
    BY <1>1, <2>1
  <2>3. Generated[r][p] \in Nat /\ Share(r, p) \in Nat /\ Reach[r][p][n] \subseteq Gas
    BY StarFacts, ShareFacts
  <2>4. Share(r, p) * Cardinality(Reach[r][p][n]) \in Nat
    BY <2>3, GasFinite, ProductFacts
  <2>. QED BY <1>1, <2>2, <2>3, <2>4
<1>6. GivenInv
  <2>1. \A r \in Ranks : \A e \in Exports(r) : given[r][e] = 0
    BY <1>1
  <2>. QED BY <2>1 DEF GivenInv
<1>7. StarInv
  <2>1. \A r \in Ranks : \A p \in Stars(r) : StarMass[r][p] \in Nat
    BY StarFacts
  <2>. QED BY <1>1, <2>1 DEF StarInv
<1>. QED BY <1>2, <1>4, <1>5, <1>6, <1>7 DEF MassInv

\* What depends on the walk only through its results stays.
LEMMA MassesStay ==
  ASSUME MassInv, UNCHANGED masses, UNCHANGED <<primaries, reduced>>, GivenInv',
         \A r \in returned : pc'[r] = "finished"
  PROVE  MassInv'
<1>1. /\ gas' = gas /\ star' = star /\ MassReturn' = MassReturn
      /\ MassGenerated' = MassGenerated /\ given' = given /\ returned' = returned
      /\ primaries' = primaries /\ reduced' = reduced
  BY DEF masses
<1>2. Paid' = Paid /\ Pledged' = Pledged /\ \A r : Reduced(r)' = Reduced(r)
  BY <1>1 DEF Paid, Pledged, Reduced
<1>3. MassTypes' /\ LedgerInv'
  BY <1>1, <1>2 DEF MassInv, MassTypes, LedgerInv
<1>4. ShareInv'
  BY <1>1, <1>2 DEF MassInv, ShareInv
<1>5. StarInv'
  BY <1>1 DEF MassInv, StarInv, MassTypes
<1>. QED BY <1>3, <1>4, <1>5 DEF MassInv

\* An answer stays where it is.
LEMMA GivenStays ==
  ASSUME GivenInv, given' = given, reduced' = reduced, table' = table, results' = results
  PROVE  GivenInv'
BY DEF GivenInv

\* The steps of the walk that leave the masses alone.
LEMMA WalkKeepsMass ==
  ASSUME Inv, MassInv, UNCHANGED masses,
         \/ ev_export_import_counts
         \/ \E r \in Ranks : ev_toptree(r) \/ EndSecondary(r) \/ EndRound(r)
  PROVE  MassInv'
<1>1. given' = given
  BY DEF masses
<1>2. CASE ev_export_import_counts
  <2>1. /\ UNCHANGED <<primaries, reduced, table, results>>
        /\ \A r \in Ranks : pc[r] = "counts"
    BY <1>2 DEF ev_export_import_counts, At
  <2>2. GivenInv'
    BY <1>1, <2>1, GivenStays DEF MassInv
  <2>3. returned = {}
    BY <2>1 DEF MassInv, StarInv, MassTypes
  <2>. QED BY <2>1, <2>2, <2>3, MassesStay
<1>3. ASSUME NEW r \in Ranks, EndSecondary(r) \/ EndRound(r) PROVE MassInv'
  <2>1. /\ UNCHANGED <<primaries, reduced, table, results>>
        /\ pc[r] \in {"secondary", "sends"}
        /\ \A q \in Ranks \ {r} : pc'[q] = pc[q]
    <3>1. pc \in [Ranks -> Labels]
      BY DEF Inv, TypeInv
    <3>. QED BY <1>3, <3>1 DEF EndSecondary, EndRound, Go
  <2>2. GivenInv'
    BY <1>1, <2>1, GivenStays DEF MassInv
  <2>3. \A q \in returned : pc'[q] = "finished"
    BY <2>1 DEF MassInv, StarInv, MassTypes
  <2>. QED BY <2>1, <2>2, <2>3, MassesStay
<1>4. ASSUME NEW r \in Ranks, ev_toptree(r) PROVE MassInv'
  <2>1. /\ UNCHANGED <<primaries, reduced, results>> /\ pc[r] = "toptree"
        /\ \A q \in Ranks \ {r} : pc'[q] = pc[q] /\ table'[q] = table[q]
    <3>1. pc \in [Ranks -> Labels] /\ DOMAIN table = Ranks
      BY DEF Inv, TypeInv
    <3>. QED BY <1>4, <3>1 DEF ev_toptree, Go
  <2>2. table[r] = <<>>
    BY <2>1 DEF Inv, EntryInv
  <2>3. \A e \in Exports(r) : e \notin ToSet(table[r])
    BY <2>2 DEF ToSet
  <2>4. GivenInv'
    BY <1>1, <2>1, <2>3 DEF MassInv, GivenInv
  <2>5. \A q \in returned : pc'[q] = "finished"
    BY <2>1 DEF MassInv, StarInv, MassTypes
  <2>. QED BY <2>1, <2>4, <2>5, MassesStay
<1>. QED BY <1>2, <1>3, <1>4

\* What has been returned already is not more than the star was to return.
LEMMA ReturnBounded ==
  ASSUME MassInv, NEW r \in Ranks, NEW p \in Stars(r)
  PROVE  MassReturn[r][p] \in 0..Generated[r][p]
<1>1. /\ MassReturn[r][p] \in Nat /\ Generated[r][p] \in Nat
      /\ \/ MassReturn[r][p] = Generated[r][p]
         \/ MassReturn[r][p] <= Share(r, p) * Cardinality(Covered(r, p, Reduced(r)))
  BY StarFacts DEF MassInv, MassTypes, ShareInv
<1>2. /\ Share(r, p) * Cardinality(Covered(r, p, Reduced(r))) <= Generated[r][p]
      /\ Share(r, p) * Cardinality(Covered(r, p, Reduced(r))) \in Nat
  <2>1. /\ Share(r, p) \in Nat /\ Covered(r, p, Reduced(r)) \subseteq Gas
        /\ Share(r, p) * Cardinality(Covered(r, p, Reduced(r))) <= Generated[r][p]
    BY ShareFacts, StarFacts
  <2>. QED BY <2>1, GasFinite, ProductFacts
<1>. QED BY <1>1, <1>2

\* A query offers no more than that.
LEMMA SendKeepsMass ==
  ASSUME Inv, MassInv, NEW r \in Ranks, SendStars(r)
  PROVE  MassInv'
<1>1. /\ UNCHANGED <<primaries, reduced, table, results>> /\ pc[r] = "send"
      /\ \A q \in Ranks \ {r} : pc'[q] = pc[q]
      /\ UNCHANGED <<gas, star, MassReturn, given, returned>>
  <2>1. pc \in [Ranks -> Labels]
    BY DEF Inv, TypeInv
  <2>. QED BY <2>1 DEF SendStars, ev_send_recv_export_import, Go
<1>2. /\ DOMAIN MassGenerated' = Ranks
      /\ \A q \in Ranks \ {r} : MassGenerated'[q] = MassGenerated[q]
      /\ MassGenerated'[r] = [e \in Exports(r) |-> IF e \in ToSet(table[r])
                                THEN MassReturn[r][e[1]] ELSE MassGenerated[r][e]]
  BY DEF SendStars, MassInv, MassTypes
<1>3. \A e \in Exports(r) : e[1] \in Stars(r) /\ MassReturn[r][e[1]] \in 0..Generated[r][e[1]]
  BY ExportFacts, ReturnBounded DEF Stars
<1>4. MassTypes'
  <2>1. MassGenerated'[r] \in [Exports(r) -> Nat]
    BY <1>2, <1>3 DEF MassInv, MassTypes
  <2>. QED BY <1>1, <1>2, <2>1 DEF MassInv, MassTypes
<1>5. Paid' = Paid /\ Pledged' = Pledged /\ \A q : Reduced(q)' = Reduced(q)
  BY <1>1 DEF Paid, Pledged, Reduced
<1>6. LedgerInv'
  BY <1>1, <1>5 DEF MassInv, LedgerInv
<1>7. ShareInv'
  <2>1. ASSUME NEW q \in Ranks, NEW p \in Stars(q), NEW n \in DOMAIN Work[q][p]
        PROVE  MassGenerated'[q][<<p, n>>] <= Generated[q][p]
    <3>1. CASE q = r
      <4>1. <<p, n>> \in Exports(r) /\ <<p, n>>[1] = p
        BY <3>1, ExportFacts DEF Stars
      <4>2. MassGenerated[r][<<p, n>>] <= Generated[r][p] /\ MassReturn[r][p] \in 0..Generated[r][p]
        BY <1>3, <3>1, <4>1 DEF MassInv, ShareInv
      <4>. QED BY <1>2, <3>1, <4>1, <4>2
    <3>2. CASE q # r
      BY <1>2, <3>2 DEF MassInv, ShareInv
    <3>. QED BY <3>1, <3>2
  <2>. QED BY <1>1, <1>5, <2>1 DEF MassInv, ShareInv
<1>8. GivenInv'
  BY <1>1, GivenStays DEF MassInv
<1>9. StarInv'
  BY <1>1 DEF MassInv, StarInv, MassTypes
<1>. QED BY <1>4, <1>6, <1>7, <1>8, <1>9 DEF MassInv

\* The star loses what it has returned.
LEMMA PostprocessKeepsMass ==
  ASSUME Inv, MassInv, NEW r \in Ranks, metal_return_postprocess(r)
  PROVE  MassInv'
<1>1. /\ UNCHANGED <<primaries, reduced, table, results, pc>> /\ pc[r] = "finished"
      /\ UNCHANGED <<gas, MassReturn, MassGenerated, given>>
      /\ r \notin returned /\ returned' = returned \cup {r}
      /\ star' = [star EXCEPT ![r] = [p \in Stars(r) |-> star[r][p] - MassReturn[r][p]]]
  BY DEF metal_return_postprocess, vars, MassInv, MassTypes
<1>2. Paid' = Paid /\ Pledged' = Pledged /\ \A q : Reduced(q)' = Reduced(q)
  BY <1>1 DEF Paid, Pledged, Reduced
<1>3. DOMAIN star' = Ranks /\ \A q \in Ranks \ {r} : star'[q] = star[q]
  BY <1>1 DEF MassInv, MassTypes
<1>4. \A p \in Stars(r) :
        /\ star'[r][p] = star[r][p] - MassReturn[r][p]
        /\ star[r][p] = StarMass[r][p] - 0
        /\ StarMass[r][p] \in Nat /\ MassReturn[r][p] \in Nat
  BY <1>1, StarFacts DEF MassInv, MassTypes, StarInv
<1>5. star'[r] \in [Stars(r) -> Int]
  BY <1>1, <1>4 DEF MassInv, MassTypes
<1>6. MassTypes'
  BY <1>1, <1>3, <1>5 DEF MassInv, MassTypes
<1>7. LedgerInv' /\ ShareInv'
  BY <1>1, <1>2 DEF MassInv, LedgerInv, ShareInv
<1>8. GivenInv'
  BY <1>1, GivenStays DEF MassInv
<1>9. StarInv'
  BY <1>1, <1>3, <1>4 DEF MassInv, StarInv
<1>. QED BY <1>6, <1>7, <1>8, <1>9 DEF MassInv

\* The stars' own walk: the gas gains what the stars give.
LEMMA HomeKeepsMass ==
  ASSUME Inv, MassInv, NEW r \in Ranks, GiveAtHome(r)
  PROVE  MassInv'
<1>1. /\ pc[r] = "primary" /\ UNCHANGED <<reduced, table, results>>
      /\ \A q \in Ranks \ {r} : pc'[q] = pc[q] /\ primaries'[q] = primaries[q]
      /\ UNCHANGED <<star, MassGenerated, given, returned>>
      /\ primaries'[r] = IF Nexportfull[r] = 0 THEN primaries[r] + 1 ELSE primaries[r]
      /\ DOMAIN primaries' = DOMAIN primaries
  <2>1. pc \in [Ranks -> Labels] /\ primaries \in [Ranks -> Nat]
    BY DEF Inv, TypeInv
  <2>. QED BY <2>1 DEF GiveAtHome, ev_primary, Go, InFirstRound
<1>2. r \notin returned
  BY <1>1 DEF MassInv, StarInv
<1>3. GivenInv'
  BY <1>1, GivenStays DEF MassInv
<1>4. CASE Nexportfull[r] # 0
  <2>1. UNCHANGED <<gas, MassReturn>>
    BY <1>4 DEF GiveAtHome, InFirstRound
  <2>2. primaries' = primaries
    <3>1. primaries \in [Ranks -> Nat]
      BY DEF Inv, TypeInv
    <3>2. primaries' = [primaries EXCEPT ![r] = @]
      BY <1>4 DEF GiveAtHome, ev_primary, InFirstRound
    <3>. QED BY <3>1, <3>2
  <2>3. \A q \in returned : pc'[q] = "finished"
    BY <1>1, <1>2 DEF MassInv, StarInv, MassTypes
  <2>. QED BY <1>1, <1>3, <2>1, <2>2, <2>3, MassesStay DEF masses
<1>5. CASE Nexportfull[r] = 0
  <2>. DEFINE entries   == {Own(p) : p \in Stars(r)}
              generated == [e \in entries |-> MassReturn[r][e[1]]]
              share     == [e \in entries |-> Share(r, e[1])]
  <2>1. PICK order \in SetToSeqs(Visits(r, entries, generated)) :
          /\ gas' = Enriched(order, entries).gas
          /\ MassReturn' = [MassReturn EXCEPT ![r] =
               [p \in Stars(r) |-> Enriched(order, entries).mass[Own(p)]]]
    BY <1>5 DEF GiveAtHome, InFirstRound
  <2>2. \A e \in entries : /\ e = <<e[1], 0>> /\ e[1] \in Stars(r) /\ e = Own(e[1])
                           /\ Visited(r, e) = Near[r][e[1]]
    BY DEF Own, Visited
  <2>3. \A p \in Stars(r) : Own(p) \in entries /\ Own(p)[1] = p /\ Visited(r, Own(p)) = Near[r][p]
    BY DEF Own, Visited
  <2>4. primaries[r] = 0 /\ primaries'[r] = 1
    BY <1>1, <1>5 DEF Inv, PrimaryInv
  <2>5. \A e \in entries : generated[e] = Generated[r][e[1]] /\ share[e] = Share(r, e[1])
    BY <2>2, <2>4 DEF MassInv, ShareInv
  <2>6. IsFiniteSet(entries)
    <3>. DEFINE own == [p \in Stars(r) |-> Own(p)]
    <3>1. own \in Surjection(Stars(r), entries)
      BY DEF Surjection
    <3>. HIDE DEF own, entries
    <3>. QED BY <3>1, StarsFinite, FS_Surjection
  <2>7. share \in [entries -> Nat]
    BY <2>2, ShareFacts
  <2>8. ASSUME NEW e \in entries
        PROVE  /\ Visited(r, e) \subseteq Gas
               /\ Visited(r, e) # {} =>
                    generated[e] \div Cardinality(Neighbours(r, e[1])) \in 0..share[e]
    <3>1. e[1] \in Stars(r) /\ Visited(r, e) = Near[r][e[1]]
      BY <2>2
    <3>2. Near[r][e[1]] \subseteq Gas
      BY <3>1, StarFacts
    <3>3. ASSUME Near[r][e[1]] # {}
          PROVE  generated[e] \div Cardinality(Neighbours(r, e[1])) = share[e]
      <4>1. Neighbours(r, e[1]) # {}
        BY <3>3 DEF Neighbours
      <4>. QED BY <2>5, <4>1 DEF Share
    <3>. QED BY <2>7, <3>1, <3>2, <3>3
  <2>. HIDE DEF generated, share, entries
  <2>. DEFINE after == Enriched(order, entries)
  <2>9. /\ after.gas \in [Gas -> Nat] /\ after.mass \in [entries -> Nat]
        /\ SumFunction(after.gas) = SumFunction(gas) + SumFunction(after.mass)
        /\ \A e \in entries : after.mass[e] <= share[e] * Cardinality(Visited(r, e))
    <3>1. gas \in [Gas -> Nat]
      BY DEF MassInv, MassTypes
    <3>. QED BY <2>6, <2>7, <2>8, <3>1, EnrichedFacts
  <2>10. gas' = after.gas /\ MassReturn' = [MassReturn EXCEPT ![r] = [p \in Stars(r) |-> after.mass[Own(p)]]]
    BY <2>1
  <2>. HIDE DEF after
  <2>11. /\ DOMAIN MassReturn' = Ranks
         /\ \A q \in Ranks \ {r} : MassReturn'[q] = MassReturn[q]
         /\ MassReturn'[r] \in [Stars(r) -> Nat]
         /\ \A p \in Stars(r) : MassReturn'[r][p] = after.mass[Own(p)]
    BY <2>3, <2>9, <2>10 DEF MassInv, MassTypes
  <2>12. MassTypes'
    <3>1. \A q \in Ranks : MassReturn'[q] \in [Stars(q) -> Nat]
      BY <2>11 DEF MassInv, MassTypes
    <3>. QED BY <1>1, <2>9, <2>10, <2>11, <3>1 DEF MassInv, MassTypes
  <2>13. Pledged' = Pledged
    BY <1>1 DEF Pledged
  <2>14. LedgerInv'
    <3>1. /\ Paid \in [AllStars -> Int]
          /\ IsFiniteSet(AllStars)
          /\ SumFunction(Paid) \in Int /\ SumFunction(Pledged) \in Int
          /\ SumFunction(gas) \in Int /\ SumFunction(GasMass) \in Int
      BY SumsDefined DEF MassInv, Inv
    <3>2. Paid' \in [AllStars -> Int]
      <4>1. ASSUME NEW s \in AllStars PROVE MassReturn'[s[1]][s[2]] \in Int
        <5>1. PICK q \in Ranks : \E p \in Stars(q) : s = <<q, p>>
          BY StarsFinite
        <5>2. PICK p \in Stars(q) : s = <<q, p>>
          BY <5>1
        <5>. QED BY <2>12, <5>2 DEF MassTypes
      <4>. QED BY <4>1 DEF Paid
    <3>. DEFINE b == [e \in entries |-> <<r, e[1]>>]
    <3>3. b \in [entries -> AllStars]
      BY <2>2, StarsFinite DEF entries
    <3>4. Spread(Paid', Paid, after.mass, b, AllStars, entries)
      <4>1. ASSUME NEW e \in entries
            PROVE  /\ b[e] = <<r, e[1]>> /\ b[e] \in AllStars
                   /\ Paid[b[e]] = 0 /\ Paid'[b[e]] = after.mass[e]
                   /\ after.mass[e] \in Nat
        <5>1. b[e] = <<r, e[1]>> /\ b[e] \in AllStars
          BY <3>3
        <5>2. e[1] \in Stars(r) /\ e = Own(e[1])
          BY <2>2 DEF entries
        <5>3. Paid[b[e]] = 0
          BY <2>4, <5>1 DEF Paid
        <5>4. Paid'[b[e]] = MassReturn'[r][e[1]]
          BY <2>4, <5>1 DEF Paid
        <5>. QED BY <2>9, <2>11, <5>1, <5>2, <5>3, <5>4
      <4>2. ASSUME NEW d \in entries, NEW e \in entries, b[d] = b[e] PROVE d = e
        <5>1. d = <<d[1], 0>> /\ e = <<e[1], 0>>
          BY <2>2 DEF entries
        <5>. QED BY <4>1, <4>2, <5>1
      <4>3. ASSUME NEW s \in AllStars, \A e \in entries : s # b[e] PROVE Paid'[s] = Paid[s]
        <5>1. PICK q \in Ranks : \E p \in Stars(q) : s = <<q, p>>
          BY StarsFinite
        <5>2. PICK p \in Stars(q) : s = <<q, p>>
          BY <5>1
        <5>3. q # r
          BY <2>3, <4>1, <4>3, <5>2
        <5>. QED BY <1>1, <2>11, <5>2, <5>3 DEF Paid
      <4>4. \A e \in entries : Paid'[b[e]] = Paid[b[e]] + after.mass[e]
        BY <4>1
      <4>. QED BY <4>2, <4>3, <4>4 DEF Spread
    <3>5. after.mass \in [entries -> Int] /\ SumFunction(after.mass) \in Int
      <4>1. after.mass \in [entries -> Int]
        BY <2>9
      <4>. QED BY <2>6, <4>1, SumInt
    <3>. HIDE DEF b
    <3>6. SumFunction(Paid') = SumFunction(Paid) + SumFunction(after.mass)
      BY <2>6, <3>1, <3>2, <3>3, <3>4, <3>5, SumSpread
    <3>7. SumFunction(gas') = SumFunction(gas) + SumFunction(after.mass)
      BY <2>9, <2>10
    <3>8. SumFunction(gas) = SumFunction(GasMass) + SumFunction(Paid) + SumFunction(Pledged)
      BY DEF MassInv, LedgerInv
    <3>9. SumFunction(gas') = SumFunction(GasMass) + SumFunction(Paid') + SumFunction(Pledged)
      BY <3>1, <3>5, <3>6, <3>7, <3>8
    <3>. QED BY <2>13, <3>9 DEF LedgerInv
  <2>15. ShareInv'
    <3>1. \A q : Reduced(q)' = Reduced(q)
      BY <1>1 DEF Reduced
    <3>2. ASSUME NEW p \in Stars(r)
          PROVE  MassReturn'[r][p] <= Share(r, p) * Cardinality(Covered(r, p, Reduced(r)))
      <4>1. /\ MassReturn'[r][p] \in Nat
            /\ MassReturn'[r][p] <= Share(r, p) * Cardinality(Near[r][p])
        BY <2>3, <2>5, <2>9, <2>11
      <4>2. /\ Near[r][p] \subseteq Covered(r, p, Reduced(r))
            /\ Covered(r, p, Reduced(r)) \subseteq Gas /\ Share(r, p) \in Nat
        <5>1. Covered(r, p, Reduced(r)) \subseteq Neighbours(r, p) /\ Share(r, p) \in Nat
          BY ShareFacts
        <5>. QED BY <5>1, StarFacts DEF Covered
      <4>. QED BY <4>1, <4>2, ProductGrows
    <3>3. ASSUME NEW q \in Ranks, NEW p \in Stars(q)
          PROVE  IF primaries'[q] = 0 THEN MassReturn'[q][p] = Generated[q][p]
                 ELSE MassReturn'[q][p] <= Share(q, p) * Cardinality(Covered(q, p, Reduced(q)))
      <4>1. CASE q = r
        BY <2>4, <3>2, <4>1
      <4>2. CASE q # r
        BY <1>1, <2>11, <4>2 DEF MassInv, ShareInv
      <4>. QED BY <4>1, <4>2
    <3>4. \A q \in Ranks : \A p \in Stars(q) : \A n \in DOMAIN Work[q][p] :
            /\ MassGenerated'[q][<<p, n>>] <= Generated[q][p]
            /\ given'[q][<<p, n>>] <= Share(q, p) * Cardinality(Reach[q][p][n])
      BY <1>1 DEF MassInv, ShareInv
    <3>. QED BY <3>1, <3>3, <3>4 DEF ShareInv
  <2>16. StarInv'
    BY <1>1, <1>2, <2>11 DEF MassInv, StarInv, MassTypes
  <2>. QED BY <1>3, <2>12, <2>14, <2>15, <2>16 DEF MassInv
<1>6. Nexportfull[r] = 0 \/ Nexportfull[r] # 0
  OBVIOUS
<1>. QED BY <1>4, <1>5, <1>6

\* What is sent to a rank are entries of the table that ask for it.
LEMMA SentFromTable ==
  ASSUME NEW r \in Ranks, NEW q \in Ranks, table[r] \in Seq(Exports(r)),
         NEW e \in ToSet(ForTask(r, q))
  PROVE  e \in ToSet(table[r]) /\ Task(r, e) = q
<1>. DEFINE N == CountFor(r, q, Len(table[r]))
            U == {k \in 1..Len(table[r]) : Task(r, table[r][k]) = q}
            f == [k \in U |-> CountFor(r, q, k)]
            Place(n) == CHOOSE k \in DOMAIN table[r] :
                       Task(r, table[r][k]) = q /\ CountFor(r, q, k) = n
<1>1. Len(table[r]) \in Nat /\ DOMAIN table[r] = 1..Len(table[r])
  OBVIOUS
<1>2. IsFiniteSet(U) /\ N = Cardinality(U) /\ N \in Nat
  <2>0. IsFiniteSet(1..Len(table[r]))
    BY <1>1, FS_Interval
  <2>1. IsFiniteSet(U)
    BY <2>0, FS_Subset
  <2>2. N = Cardinality(U)
    BY DEF CountFor
  <2>. QED BY <2>1, <2>2, FS_CardinalityType
<1>3. ASSUME NEW k \in U
      PROVE  CountFor(r, q, k) \in 1..N /\ \A j \in 1..(k-1) : CountFor(r, q, j) < CountFor(r, q, k)
  BY <1>1, CountIncreases
<1>4. f \in [U -> 1..N]
  BY <1>3
<1>5. ASSUME NEW j \in U, NEW k \in U, f[j] = f[k] PROVE j = k
  <2>1. CountFor(r, q, j) \in Nat /\ CountFor(r, q, j) = CountFor(r, q, k)
    BY <1>2, <1>3, <1>5
  <2>2. j \in 1..(k-1) => CountFor(r, q, j) < CountFor(r, q, k)
    BY <1>3
  <2>3. k \in 1..(j-1) => CountFor(r, q, k) < CountFor(r, q, j)
    BY <1>3
  <2>. QED BY <1>1, <2>1, <2>2, <2>3
<1>6. f \in Injection(U, 1..N)
  BY <1>4, <1>5 DEF Injection, IsInjective
<1>7. IsFiniteSet(1..N) /\ Cardinality(1..N) = N
  BY <1>2, FS_Interval
<1>8. f \in Surjection(U, 1..N)
  <2>. HIDE DEF U, N, f
  <2>. QED BY <1>2, <1>6, <1>7, FS_Injection
<1>9. PICK n \in 1..N : e = table[r][Place(n)]
  <2>1. ForTask(r, q) = [n \in 1..N |-> table[r][Place(n)]]
    BY DEF ForTask
  <2>2. DOMAIN ForTask(r, q) = 1..N
    BY <2>1
  <2>. QED BY <2>1, <2>2 DEF ToSet
<1>10. \E k \in U : f[k] = n
  BY <1>8 DEF Surjection
<1>11. \E k \in DOMAIN table[r] : Task(r, table[r][k]) = q /\ CountFor(r, q, k) = n
  BY <1>1, <1>10
<1>12. Place(n) \in DOMAIN table[r] /\ Task(r, table[r][Place(n)]) = q
  BY <1>11, Zenon
<1>. QED BY <1>9, <1>12 DEF ToSet

\* The answer of one rank to another: the gas gains what the answer will say.
LEMMA AbroadKeepsMass ==
  ASSUME Inv, MassInv, NEW r \in Ranks, NEW q \in Ranks, GiveAbroad(r, q)
  PROVE  MassInv'
<1>. DEFINE entries   == ToSet(ForTask(q, r))
            generated == MassGenerated[q]
            share     == [e \in entries |-> Share(q, e[1])]
<1>1. /\ pc[r] = "secondary"
      /\ UNCHANGED <<pc, table, primaries, reduced>>
      /\ UNCHANGED <<star, MassReturn, MassGenerated, returned>>
      /\ q \in imports[r] /\ queries[q][r] # <<>>
      /\ results' = [results EXCEPT ![r][q] = Append(@, Head(queries[q][r]))]
  BY DEF GiveAbroad, Answer
<1>2. Asked(q, r) /\ table[q] \in Seq(Exports(q))
  <2>1. ChannelInv(q, r) /\ pc[q] \in Labels
    BY DEF Inv, TypeInv
  <2>2. table[q] \in Seq(Exports(q))
    BY DEF Inv, TypeInv
  <2>. QED BY <1>1, <2>1, <2>2 DEF ChannelInv, Labels, Silent, Asked, Answered
<1>3. Head(queries[q][r]).entries = ForTask(q, r) /\ results[r][q] = <<>>
  <2>1. queries[q][r] = <<Message(q, ForTask(q, r))>> /\ results[r][q] = <<>>
    BY <1>2 DEF Asked
  <2>2. Head(<<Message(q, ForTask(q, r))>>) = Message(q, ForTask(q, r))
    OBVIOUS
  <2>. QED BY <2>1, <2>2 DEF Message
<1>4. PICK order \in SetToSeqs(Visits(q, entries, generated)) :
        /\ gas' = Enriched(order, entries).gas
        /\ given' = [given EXCEPT ![q] = [e \in Exports(q) |->
             IF e \in entries THEN Enriched(order, entries).mass[e] ELSE @[e]]]
  <2>. DEFINE Given(asked) ==
         \E order \in SetToSeqs(Visits(q, asked, MassGenerated[q])) :
           /\ gas' = Enriched(order, asked).gas
           /\ given' = [given EXCEPT ![q] = [e \in Exports(q) |->
                IF e \in asked THEN Enriched(order, asked).mass[e] ELSE @[e]]]
  <2>1. Given(ToSet(Head(queries[q][r]).entries))
    BY ZenonT(60) DEF GiveAbroad
  <2>2. ToSet(Head(queries[q][r]).entries) = entries
    BY <1>3
  <2>3. Given(entries)
    <3>. HIDE DEF Given
    <3>. QED BY <2>1, <2>2
  <2>. QED BY <2>3, ZenonT(60)
<1>5. ASSUME NEW e \in entries
      PROVE  /\ e \in ToSet(table[q]) /\ Task(q, e) = r /\ e \in Exports(q)
             /\ e = <<e[1], e[2]>> /\ e[1] \in Stars(q) /\ e[2] \in DOMAIN Work[q][e[1]]
             /\ e[2] # 0
             /\ Visited(q, e) = Reach[q][e[1]][e[2]] /\ Visited(q, e) \subseteq Gas
  <2>1. e \in ToSet(table[q]) /\ Task(q, e) = r
    BY <1>2, SentFromTable
  <2>2. e \in Exports(q)
    BY <1>2, <2>1 DEF ToSet
  <2>3. e = <<e[1], e[2]>> /\ e[1] \in Stars(q) /\ e[2] \in DOMAIN Work[q][e[1]]
    BY <2>2, ExportFacts DEF Stars
  <2>4. e[2] # 0
    <3>1. Work[q] \in Seq(Seq(Ranks))
      BY WorkAssumption
    <3>2. Work[q][e[1]] \in Seq(Ranks)
      BY <2>3, <3>1 DEF Stars
    <3>. QED BY <2>3, <3>2
  <2>5. Reach[q][e[1]][e[2]] \subseteq Gas
    BY <2>3, StarFacts
  <2>. QED BY <2>1, <2>2, <2>3, <2>4, <2>5 DEF Visited
<1>6. ASSUME NEW e \in entries
      PROVE  reduced[q][e] = <<>> /\ given[q][e] = 0
  <2>1. reduced[q][e] = <<>>
    BY <1>5 DEF Inv, EntryInv
  <2>2. results[Task(q, e)][q] = <<>>
    BY <1>3, <1>5
  <2>. QED BY <1>5, <2>1, <2>2 DEF MassInv, GivenInv
<1>7. IsFiniteSet(entries)
  <2>1. entries \subseteq Exports(q)
    BY <1>5
  <2>2. IsFiniteSet(Exports(q))
    <3>. DEFINE at == [e \in Exports(q) |-> <<q, e>>]
    <3>1. at \in Injection(Exports(q), AllExports)
      BY DEF Injection, IsInjective, AllExports
    <3>. HIDE DEF at
    <3>. QED BY <3>1, ExportsFinite, FS_Injection
  <2>. QED BY <2>1, <2>2, FS_Subset
<1>8. share \in [entries -> Nat] /\ \A e \in entries : share[e] = Share(q, e[1])
  BY <1>5, ShareFacts
<1>9. ASSUME NEW e \in entries, Visited(q, e) # {}
      PROVE  generated[e] \div Cardinality(Neighbours(q, e[1])) \in 0..share[e]
  <2>1. Neighbours(q, e[1]) # {}
    BY <1>5, <1>9 DEF Neighbours
  <2>. DEFINE n == Cardinality(Neighbours(q, e[1]))
  <2>2. n \in Nat /\ n # 0
    BY <1>5, <2>1, ShareFacts
  <2>3. generated[e] \in Nat /\ generated[e] <= Generated[q][e[1]] /\ Generated[q][e[1]] \in Nat
    <3>1. MassGenerated[q][<<e[1], e[2]>>] <= Generated[q][e[1]]
      BY <1>5 DEF MassInv, ShareInv
    <3>2. MassGenerated[q][e] \in Nat
      BY <1>5 DEF MassInv, MassTypes
    <3>. QED BY <1>5, <3>1, <3>2, StarFacts
  <2>4. Share(q, e[1]) = Generated[q][e[1]] \div n
    BY <2>1 DEF Share
  <2>. HIDE DEF n, generated
  <2>5. generated[e] \div n \in Nat /\ generated[e] \div n <= Generated[q][e[1]] \div n
    BY <2>2, <2>3, ProductFacts
  <2>6. Generated[q][e[1]] \div n \in Nat
    BY <2>2, <2>3, ProductFacts
  <2>. QED BY <1>8, <2>4, <2>5, <2>6 DEF n
<1>. HIDE DEF generated, share, entries
<1>. DEFINE after == Enriched(order, entries)
<1>10. /\ after.gas \in [Gas -> Nat] /\ after.mass \in [entries -> Nat]
       /\ SumFunction(after.gas) = SumFunction(gas) + SumFunction(after.mass)
       /\ \A e \in entries : after.mass[e] <= share[e] * Cardinality(Visited(q, e))
  <2>1. gas \in [Gas -> Nat]
    BY DEF MassInv, MassTypes
  <2>2. \A e \in entries : Visited(q, e) \subseteq Gas
    BY <1>5
  <2>. QED BY <1>7, <1>8, <1>9, <2>1, <2>2, EnrichedFacts
<1>11. /\ gas' = after.gas
       /\ given' = [given EXCEPT ![q] = [e \in Exports(q) |->
            IF e \in entries THEN after.mass[e] ELSE @[e]]]
  BY <1>4
<1>. HIDE DEF after
<1>12. /\ DOMAIN given' = Ranks
       /\ \A s \in Ranks \ {q} : given'[s] = given[s]
       /\ \A e \in Exports(q) : given'[q][e] = IF e \in entries THEN after.mass[e] ELSE given[q][e]
       /\ given'[q] \in [Exports(q) -> Nat]
  BY <1>10, <1>11 DEF MassInv, MassTypes
<1>13. MassTypes'
  <2>1. \A s \in Ranks : given'[s] \in [Exports(s) -> Nat]
    BY <1>12 DEF MassInv, MassTypes
  <2>. QED BY <1>1, <1>10, <1>11, <1>12, <2>1 DEF MassInv, MassTypes
<1>14. Paid' = Paid /\ \A s : Reduced(s)' = Reduced(s)
  BY <1>1 DEF Paid, Reduced
<1>15. LedgerInv'
  <2>1. /\ Pledged \in [AllExports -> Int]
        /\ IsFiniteSet(AllExports)
        /\ SumFunction(Paid) \in Int /\ SumFunction(Pledged) \in Int
        /\ SumFunction(gas) \in Int /\ SumFunction(GasMass) \in Int
    BY SumsDefined DEF MassInv, Inv
  <2>2. Pledged' \in [AllExports -> Int]
    <3>1. ASSUME NEW x \in AllExports PROVE given'[x[1]][x[2]] \in Int
      <4>1. PICK s \in Ranks : x \in {s} \X Exports(s)
        BY DEF AllExports
      <4>. QED BY <1>13, <4>1 DEF MassTypes
    <3>. QED BY <3>1 DEF Pledged
  <2>. DEFINE b == [e \in entries |-> <<q, e>>]
  <2>3. b \in [entries -> AllExports]
    BY <1>5 DEF AllExports
  <2>4. Spread(Pledged', Pledged, after.mass, b, AllExports, entries)
    <3>1. ASSUME NEW e \in entries
          PROVE  /\ b[e] = <<q, e>> /\ b[e] \in AllExports
                 /\ Pledged[b[e]] = 0 /\ Pledged'[b[e]] = after.mass[e]
                 /\ after.mass[e] \in Nat
      <4>1. b[e] = <<q, e>> /\ b[e] \in AllExports
        BY <2>3
      <4>2. Pledged[b[e]] = 0
        BY <1>6, <4>1 DEF Pledged
      <4>3. Pledged'[b[e]] = given'[q][e]
        BY <1>1, <1>6, <4>1 DEF Pledged
      <4>. QED BY <1>5, <1>10, <1>12, <4>1, <4>2, <4>3
    <3>2. ASSUME NEW d \in entries, NEW e \in entries, b[d] = b[e] PROVE d = e
      BY <3>1, <3>2
    <3>3. ASSUME NEW x \in AllExports, \A e \in entries : x # b[e]
          PROVE  Pledged'[x] = Pledged[x]
      <4>1. PICK s \in Ranks : x \in {s} \X Exports(s)
        BY DEF AllExports
      <4>2. ~(s = q /\ x[2] \in entries)
        BY <3>1, <3>3, <4>1
      <4>3. given'[x[1]][x[2]] = given[x[1]][x[2]]
        BY <1>12, <4>1, <4>2
      <4>. QED BY <1>1, <4>3 DEF Pledged
    <3>4. \A e \in entries : Pledged'[b[e]] = Pledged[b[e]] + after.mass[e]
      BY <3>1
    <3>. QED BY <3>2, <3>3, <3>4 DEF Spread
  <2>5. after.mass \in [entries -> Int] /\ SumFunction(after.mass) \in Int
    <3>1. after.mass \in [entries -> Int]
      BY <1>10
    <3>. QED BY <1>7, <3>1, SumInt
  <2>. HIDE DEF b
  <2>6. SumFunction(Pledged') = SumFunction(Pledged) + SumFunction(after.mass)
    BY <1>7, <2>1, <2>2, <2>3, <2>4, <2>5, SumSpread
  <2>7. SumFunction(gas') = SumFunction(gas) + SumFunction(after.mass)
    BY <1>10, <1>11
  <2>8. SumFunction(gas) = SumFunction(GasMass) + SumFunction(Paid) + SumFunction(Pledged)
    BY DEF MassInv, LedgerInv
  <2>9. SumFunction(gas') = SumFunction(GasMass) + SumFunction(Paid) + SumFunction(Pledged')
    BY <2>1, <2>5, <2>6, <2>7, <2>8
  <2>. QED BY <1>14, <2>9 DEF LedgerInv
<1>16. ShareInv'
  <2>1. ASSUME NEW s \in Ranks, NEW p \in Stars(s), NEW n \in DOMAIN Work[s][p]
        PROVE  given'[s][<<p, n>>] <= Share(s, p) * Cardinality(Reach[s][p][n])
    <3>1. given[s][<<p, n>>] <= Share(s, p) * Cardinality(Reach[s][p][n])
      BY DEF MassInv, ShareInv
    <3>2. <<p, n>> \in Exports(s)
      BY ExportFacts DEF Stars
    <3>3. CASE s = q /\ <<p, n>> \in entries
      <4>1. after.mass[<<p, n>>] <= Share(q, p) * Cardinality(Reach[q][p][n])
        BY <1>5, <1>8, <1>10, <3>3
      <4>. QED BY <1>12, <3>2, <3>3, <4>1
    <3>4. CASE ~(s = q /\ <<p, n>> \in entries)
      BY <1>12, <3>1, <3>2, <3>4
    <3>. QED BY <3>3, <3>4
  <2>. QED BY <1>1, <1>14, <2>1 DEF MassInv, ShareInv
<1>17. GivenInv'
  <2>1. /\ \A s, t \in Ranks : results[s][t] # <<>> => results'[s][t] # <<>>
        /\ results'[r][q] # <<>>
    <3>1. /\ results'[r][q] = Append(results[r][q], Head(queries[q][r]))
          /\ \A s, t \in Ranks : ~(s = r /\ t = q) => results'[s][t] = results[s][t]
      BY <1>1 DEF Inv, TypeInv
    <3>2. results'[r][q] # <<>>
      <4>1. \A m : Append(<<>>, m) # <<>>
        OBVIOUS
      <4>. QED BY <1>3, <3>1, <4>1
    <3>. QED BY <3>1, <3>2
  <2>2. ASSUME NEW s \in Ranks, NEW e \in Exports(s), given'[s][e] # 0
        PROVE  \/ reduced[s][e] # <<>>
               \/ e \in ToSet(table[s]) /\ results'[Task(s, e)][s] # <<>>
    <3>1. CASE s = q /\ e \in entries
      BY <1>5, <2>1, <3>1
    <3>2. CASE ~(s = q /\ e \in entries)
      <4>1. given[s][e] # 0
        BY <1>12, <2>2, <3>2
      <4>2. Task(s, e) \in Ranks
        BY ExportFacts
      <4>. QED BY <2>1, <4>1, <4>2 DEF MassInv, GivenInv
    <3>. QED BY <3>1, <3>2
  <2>. QED BY <1>1, <2>2 DEF GivenInv, Task
<1>18. StarInv'
  BY <1>1 DEF MassInv, StarInv, MassTypes
<1>. QED BY <1>13, <1>15, <1>16, <1>17, <1>18 DEF MassInv

\* What the stars and the answers have given when the answers to the entries of
\* done have been added to the stars of r, which then have m.
PaidWith(r, m) == [s \in AllStars |-> IF s[1] = r THEN m[s[2]] ELSE Paid[s]]

PledgedBut(r, done) ==
  [x \in AllExports |-> IF x[1] = r /\ x[2] \in done THEN 0 ELSE Pledged[x]]

\* The first n entries of the table.
FirstOf(r, n) == {table[r][i] : i \in 1..n}

\* The masses of the stars of r when the answer for e has been added.
WithAnswer(r, m, e) == [m EXCEPT ![e[1]] = @ + given[r][e]]

\* The mass of one star in that of all, and that of one answer.
LEMMA SumOfStars ==
  \A f \in [AllStars -> Int] : \A s \in AllStars : \A v \in Int :
    SumFunction([f EXCEPT ![s] = v]) = SumFunction(f) - f[s] + v
BY StarsFinite, SumPoint

LEMMA SumOfAnswers ==
  \A f \in [AllExports -> Int] : \A x \in AllExports : \A v \in Int :
    SumFunction([f EXCEPT ![x] = v]) = SumFunction(f) - f[x] + v
BY ExportsFinite, SumPoint

\* Adding one answer moves its mass from the answers to the stars.
LEMMA AnswerKeeps ==
  ASSUME MassTypes, TypeInv, NEW r \in Ranks, NEW m \in [Stars(r) -> Nat],
         NEW done, NEW e \in Exports(r), e \notin done, reduced[r][e] = <<>>
  PROVE  SumFunction(PaidWith(r, WithAnswer(r, m, e))) + SumFunction(PledgedBut(r, done \cup {e}))
           = SumFunction(PaidWith(r, m)) + SumFunction(PledgedBut(r, done))
<1>1. /\ e[1] \in Stars(r) /\ given[r][e] \in Nat
      /\ <<r, e>> \in AllExports /\ <<r, e[1]>> \in AllStars
  <2>1. e[1] \in Stars(r)
    BY ExportFacts DEF Stars
  <2>2. given[r][e] \in Nat
    BY DEF MassTypes
  <2>3. <<r, e>> \in AllExports
    BY DEF AllExports
  <2>4. <<r, e[1]>> \in AllStars
    BY <2>1, StarsFinite
  <2>. QED BY <2>1, <2>2, <2>3, <2>4
<1>2. Paid \in [AllStars -> Int] /\ Pledged \in [AllExports -> Int]
  BY SumsDefined
<1>. DEFINE a == <<r, e[1]>>
            x == <<r, e>>
            P == PaidWith(r, m)
            Q == PledgedBut(r, done)
            g == given[r][e]
            k == WithAnswer(r, m, e)
<1>3. P \in [AllStars -> Int] /\ Q \in [AllExports -> Int]
  <2>1. ASSUME NEW s \in AllStars, s[1] = r PROVE m[s[2]] \in Int
    <3>1. PICK q \in Ranks : \E p \in Stars(q) : s = <<q, p>>
      BY StarsFinite
    <3>2. PICK p \in Stars(q) : s = <<q, p>>
      BY <3>1
    <3>3. s[2] \in Stars(r)
      BY <2>1, <3>2
    <3>4. \A i \in Stars(r) : m[i] \in Nat
      OBVIOUS
    <3>. QED BY <3>3, <3>4
  <2>. QED BY <1>2, <2>1 DEF PaidWith, PledgedBut
<1>4. P[a] = m[e[1]] /\ m[e[1]] \in Nat
  BY <1>1 DEF PaidWith
<1>5. Q[x] = g
  BY <1>1 DEF PledgedBut, Pledged
<1>6. PaidWith(r, k) = [P EXCEPT ![a] = P[a] + g]
  <2>1. ASSUME NEW s \in AllStars
        PROVE  PaidWith(r, k)[s] = IF s = a THEN P[a] + g ELSE P[s]
    <3>1. PICK q \in Ranks : \E p \in Stars(q) : s = <<q, p>>
      BY StarsFinite
    <3>2. PICK p \in Stars(q) : s = <<q, p>>
      BY <3>1
    <3>3. CASE q = r /\ p = e[1]
      BY <1>1, <1>4, <3>2, <3>3 DEF PaidWith, WithAnswer
    <3>4. CASE q = r /\ p # e[1]
      BY <1>1, <3>2, <3>4 DEF PaidWith, WithAnswer
    <3>5. CASE q # r
      BY <3>2, <3>5 DEF PaidWith
    <3>. QED BY <3>3, <3>4, <3>5
  <2>2. PaidWith(r, k) = [s \in AllStars |-> PaidWith(r, k)[s]]
    BY DEF PaidWith
  <2>3. [P EXCEPT ![a] = P[a] + g] = [s \in AllStars |-> IF s = a THEN P[a] + g ELSE P[s]]
    <3>. HIDE DEF P, a, g
    <3>. QED BY <1>3
  <2>. HIDE DEF P, a, g
  <2>. QED BY <2>1, <2>2, <2>3
<1>7. PledgedBut(r, done \cup {e}) = [Q EXCEPT ![x] = 0]
  <2>1. ASSUME NEW y \in AllExports
        PROVE  PledgedBut(r, done \cup {e})[y] = IF y = x THEN 0 ELSE Q[y]
    <3>1. PICK q \in Ranks : y \in {q} \X Exports(q)
      BY DEF AllExports
    <3>2. y = <<y[1], y[2]>>
      BY <3>1
    <3>3. y = x <=> y[1] = r /\ y[2] = e
      BY <3>2
    <3>. QED BY <3>3 DEF PledgedBut
  <2>2. PledgedBut(r, done \cup {e}) = [y \in AllExports |-> PledgedBut(r, done \cup {e})[y]]
    BY DEF PledgedBut
  <2>3. [Q EXCEPT ![x] = 0] = [y \in AllExports |-> IF y = x THEN 0 ELSE Q[y]]
    <3>. HIDE DEF Q, x
    <3>. QED BY <1>3
  <2>. HIDE DEF Q, x
  <2>. QED BY <2>1, <2>2, <2>3
<1>. HIDE DEF P, Q, a, x, g, k
<1>8. a \in AllStars /\ x \in AllExports /\ g \in Nat /\ P[a] \in Nat
  BY <1>1, <1>4 DEF a, x, g
<1>9. SumFunction(P) \in Int /\ SumFunction(Q) \in Int
  BY <1>3, StarsFinite, ExportsFinite, SumInt
<1>10. SumFunction(PaidWith(r, k)) = SumFunction(P) - P[a] + (P[a] + g)
  <2>1. PICK v \in Int : v = P[a] + g
    BY <1>8
  <2>2. SumFunction([P EXCEPT ![a] = v]) = SumFunction(P) - P[a] + v
    BY <1>3, <1>8, SumOfStars
  <2>3. PaidWith(r, k) = [P EXCEPT ![a] = v]
    BY <1>6, <2>1
  <2>. QED BY <2>1, <2>2, <2>3
<1>11. SumFunction(PledgedBut(r, done \cup {e})) = SumFunction(Q) - g + 0
  <2>1. PICK v \in Int : v = 0
    OBVIOUS
  <2>2. SumFunction([Q EXCEPT ![x] = v]) = SumFunction(Q) - Q[x] + v
    BY <1>3, <1>8, SumOfAnswers
  <2>3. PledgedBut(r, done \cup {e}) = [Q EXCEPT ![x] = v]
    BY <1>7, <2>1
  <2>. QED BY <1>5, <2>1, <2>2, <2>3
<1>12. SumFunction(PaidWith(r, k)) + SumFunction(PledgedBut(r, done \cup {e}))
         = SumFunction(P) + SumFunction(Q)
  BY <1>8, <1>9, <1>10, <1>11
<1>. QED BY <1>12 DEF P, Q, k

\* The answers to the entries of the table, one after the other.
LEMMA WithAnswersUnfolds ==
  ASSUME MassTypes, NEW r \in Ranks, table[r] \in Seq(Exports(r)),
         \A i \in DOMAIN table[r] : Result(r, i) = table[r][i]
  PROVE  \E F : /\ F \in [0..Len(table[r]) -> [Stars(r) -> Nat]]
                /\ F[0] = MassReturn[r]
                /\ \A i \in 1..Len(table[r]) :
                     F[i] = [F[i - 1] EXCEPT ![table[r][i][1]] = @ + given[r][table[r][i]]]
                /\ WithAnswers(r) = F[Len(table[r])]
<1>. DEFINE N == Len(table[r])
            M == [Stars(r) -> Nat]
            Next1(m, i) == [m EXCEPT ![table[r][i][1]] = Added(@, AnswerOf(r, i))]
            step == [y \in M \X (1..N) |-> Next1(y[1], y[2])]
<1>1. N \in Nat /\ DOMAIN table[r] = 1..N
  OBVIOUS
<1>2. ASSUME NEW i \in 1..N
      PROVE  /\ AnswerOf(r, i) = given[r][table[r][i]] /\ AnswerOf(r, i) \in Nat
             /\ table[r][i][1] \in Stars(r)
  <2>1. table[r][i] \in Exports(r) /\ Result(r, i) = table[r][i]
    BY <1>1
  <2>2. table[r][i] # Unreceived
    <3>1. table[r][i][1] \in DOMAIN Work[r]
      BY <2>1, ExportFacts
    <3>2. table[r][i][1] # 0
      BY <3>1, WorkFacts
    <3>. QED BY <3>2 DEF Unreceived
  <2>3. AnswerOf(r, i) = given[r][table[r][i]]
    BY <2>1, <2>2 DEF AnswerOf
  <2>. QED BY <2>1, <2>3, ExportFacts DEF MassTypes, Stars
<1>3. \A m \in M, i \in 1..N : /\ Next1(m, i) \in M
                               /\ Next1(m, i) = [m EXCEPT ![table[r][i][1]] = @ + given[r][table[r][i]]]
  <2>. TAKE m \in M, i \in 1..N
  <2>1. Next1(m, i) = [m EXCEPT ![table[r][i][1]] = @ + given[r][table[r][i]]]
    BY <1>2 DEF Added
  <2>2. m[table[r][i][1]] + AnswerOf(r, i) \in Nat
    <3>1. m[table[r][i][1]] \in Nat /\ AnswerOf(r, i) \in Nat
      BY <1>2
    <3>. QED BY <3>1
  <2>3. Next1(m, i) \in M
    BY <2>2 DEF Added
  <2>. QED BY <2>1, <2>3
<1>4. MassReturn[r] \in M
  BY DEF MassTypes
<1>5. step \in [M \X (1..N) -> M]
  BY <1>3
<1>. HIDE DEF N, M
<1>6. PICK F : Unfolds(F, M, N, MassReturn[r], step)
  <2>. HIDE DEF step
  <2>. QED BY <1>1, <1>4, <1>5, RecurrenceExists
<1>. HIDE DEF Next1
<1>7. /\ F \in [0..N -> M] /\ F[0] = MassReturn[r]
      /\ \A i \in 1..N : F[i] = Next1(F[i - 1], i) /\ F[i - 1] \in M
  <2>1. /\ F \in [0..N -> M] /\ F[0] = MassReturn[r]
        /\ \A i \in 1..N : F[i] = step[<<F[i - 1], i>>]
    BY <1>6 DEF Unfolds
  <2>2. ASSUME NEW i \in 1..N PROVE F[i - 1] \in M
    <3>1. i - 1 \in 0..N
      BY <1>1
    <3>. QED BY <2>1, <3>1
  <2>. QED BY <2>1, <2>2
<1>. DEFINE Sat(s) == s = [k \in 0..N |-> IF k = 0 THEN MassReturn[r]
                             ELSE [s[k - 1] EXCEPT ![table[r][k][1]] = Added(@, AnswerOf(r, k))]]
<1>8. Sat(F)
  <2>1. F = [k \in 0..N |-> F[k]]
    BY <1>7
  <2>2. ASSUME NEW k \in 0..N
        PROVE  F[k] = IF k = 0 THEN MassReturn[r]
                      ELSE [F[k - 1] EXCEPT ![table[r][k][1]] = Added(@, AnswerOf(r, k))]
    <3>1. k # 0 => k \in 1..N
      BY <1>1
    <3>. QED BY <1>7, <3>1 DEF Next1
  <2>. QED BY <2>1, <2>2, Zenon
<1>9. PICK s : Sat(s) /\ WithAnswers(r) = s[N]
  <2>1. Sat(CHOOSE s : Sat(s))
    BY <1>8, Zenon
  <2>2. WithAnswers(r) = (CHOOSE s : Sat(s))[N]
    BY Zenon DEF WithAnswers, N
  <2>. QED BY <2>1, <2>2
<1>10. /\ s[0] = MassReturn[r]
       /\ \A k \in 1..N : s[k] = Next1(s[k - 1], k)
  <2>1. \A k \in 0..N : s[k] = IF k = 0 THEN MassReturn[r]
                               ELSE [s[k - 1] EXCEPT ![table[r][k][1]] = Added(@, AnswerOf(r, k))]
    BY <1>9, Zenon
  <2>2. \A k \in 1..N : k \in 0..N /\ k # 0
    BY <1>1
  <2>3. 0 \in 0..N
    BY <1>1
  <2>. QED BY <2>1, <2>2, <2>3 DEF Next1
<1>. HIDE DEF Sat
<1>11. \A k \in 0..N : s[k] = F[k]
  <2>. DEFINE Good == {k \in Nat : k <= N => s[k] = F[k]}
  <2>1. 0 \in Good
    BY <1>7, <1>10
  <2>2. ASSUME NEW k \in Nat, k \in Good PROVE k + 1 \in Good
    <3>. SUFFICES ASSUME k + 1 <= N PROVE s[k + 1] = F[k + 1]
      OBVIOUS
    <3>1. k + 1 \in 1..N /\ (k + 1) - 1 = k /\ s[k] = F[k]
      BY <1>1, <2>2
    <3>2. s[k + 1] = Next1(s[k], k + 1) /\ F[k + 1] = Next1(F[k], k + 1)
      BY <1>7, <1>10, <3>1
    <3>. QED BY <3>1, <3>2
  <2>3. \A k \in Nat : k \in Good
    <3>. HIDE DEF Good
    <3>. QED BY <2>1, <2>2, NatSetInduction
  <2>. QED BY <1>1, <2>3
<1>12. WithAnswers(r) = F[N]
  BY <1>1, <1>9, <1>11
<1>13. \A i \in 1..N : F[i] = [F[i - 1] EXCEPT ![table[r][i][1]] = @ + given[r][table[r][i]]]
  BY <1>3, <1>7
<1>. QED BY <1>7, <1>12, <1>13 DEF N, M

\* The answers come in: what has been given stays what the stars and the answers
\* have given, and each answer covers gas that no other one does.
LEMMA ReduceKeepsMass ==
  ASSUME Inv, MassInv, NEW r \in Ranks, ReduceStars(r)
  PROVE  MassInv'
<1>. DEFINE N == Len(table[r])
            M == [Stars(r) -> Nat]
<1>1. /\ pc[r] = "results" /\ ev_reduce_export_result(r)
      /\ \A q \in Ranks \ {r} : pc'[q] = pc[q] /\ table'[q] = table[q] /\ reduced'[q] = reduced[q]
      /\ \A q \in Ranks, s \in Ranks \ {r} : results'[q][s] = results[q][s]
      /\ UNCHANGED <<primaries, gas, star, MassGenerated, given, returned>>
      /\ MassReturn' = [MassReturn EXCEPT ![r] = WithAnswers(r)]
  <2>1. ReduceStars(r) /\ ev_reduce_export_result(r)
    BY DEF ReduceStars
  <2>2. /\ pc \in [Ranks -> Labels] /\ DOMAIN table = Ranks /\ DOMAIN reduced = Ranks
        /\ \A q \in Ranks : DOMAIN results[q] = Ranks
    BY DEF Inv, TypeInv
  <2>. QED BY <2>1, <2>2 DEF ReduceStars, ev_reduce_export_result, Go
<1>2. \A e \in Exports(r) :
        reduced'[r][e] = IF e \in ToSet(table[r]) THEN <<e>> ELSE reduced[r][e]
  BY <1>1, ReducedOnce
<1>3. table[r] \in Seq(Exports(r)) /\ Distinct(table[r]) /\ N \in Nat /\ DOMAIN table[r] = 1..N
  <2>1. table[r] \in Seq(Exports(r)) /\ Distinct(table[r])
    BY DEF Inv, TypeInv, EntryInv
  <2>. QED BY <2>1
<1>4. \A i \in 1..N : /\ table[r][i] \in Exports(r) /\ table[r][i] \in ToSet(table[r])
                      /\ reduced[r][table[r][i]] = <<>>
  <2>1. \A i \in 1..N : table[r][i] \in Exports(r) /\ table[r][i] \in ToSet(table[r])
    BY <1>3 DEF ToSet
  <2>. QED BY <2>1 DEF Inv, EntryInv
<1>5. \A i \in DOMAIN table[r] : Result(r, i) = table[r][i]
  <2>1. \A q \in Targets(r) : results[q][r] = <<Message(r, ForTask(r, q))>>
    <3>1. pc[r] = "results" /\ \A q \in Targets(r) : q \in Ranks /\ results[q][r] # <<>>
      BY <1>1 DEF ev_reduce_export_result, AllReceived, Targets
    <3>. QED BY <3>1 DEF Inv, ChannelInv, Asked, Answered
  <2>. QED BY <1>3, <2>1, ResultIsEntry
<1>6. PICK F : /\ F \in [0..N -> M] /\ F[0] = MassReturn[r]
               /\ \A i \in 1..N : F[i] = [F[i - 1] EXCEPT ![table[r][i][1]] = @ + given[r][table[r][i]]]
               /\ WithAnswers(r) = F[N]
  <2>1. MassTypes
    BY DEF MassInv
  <2>. QED BY <1>3, <1>5, <2>1, WithAnswersUnfolds
<1>. HIDE DEF N
<1>7. /\ DOMAIN MassReturn' = Ranks
      /\ \A q \in Ranks \ {r} : MassReturn'[q] = MassReturn[q]
      /\ MassReturn'[r] = F[N] /\ F[N] \in M
  <2>1. N \in 0..N
    BY <1>3
  <2>. QED BY <1>1, <1>6, <2>1 DEF MassInv, MassTypes
<1>8. primaries[r] # 0
  BY <1>1 DEF Inv, PrimaryInv
<1>9. MassTypes'
  <2>1. \A q \in Ranks : MassReturn'[q] \in [Stars(q) -> Nat]
    BY <1>7 DEF MassInv, MassTypes
  <2>. QED BY <1>1, <1>7, <2>1 DEF MassInv, MassTypes
<1>10. FirstOf(r, 0) = {} /\ FirstOf(r, N) = ToSet(table[r])
  BY <1>3 DEF FirstOf, ToSet
<1>11. ASSUME NEW n \in Nat, n + 1 <= N
       PROVE  /\ n \in 0..N /\ n + 1 \in 1..N /\ (n + 1) - 1 = n
              /\ FirstOf(r, n + 1) = FirstOf(r, n) \cup {table[r][n + 1]}
              /\ table[r][n + 1] \notin FirstOf(r, n)
  <2>1. n \in 0..N /\ n + 1 \in 1..N /\ (n + 1) - 1 = n
    BY <1>3, <1>11
  <2>2. \A i \in 1..n : i \in 1..N /\ i # n + 1
    BY <1>3, <1>11
  <2>3. 1..(n + 1) = 1..n \cup {n + 1}
    OBVIOUS
  <2>4. FirstOf(r, n + 1) = FirstOf(r, n) \cup {table[r][n + 1]}
    BY <2>3 DEF FirstOf
  <2>5. table[r][n + 1] \notin FirstOf(r, n)
    BY <1>3, <2>1, <2>2 DEF FirstOf, Distinct
  <2>. QED BY <2>1, <2>4, <2>5
<1>. DEFINE All == SumFunction(Paid) + SumFunction(Pledged)
            Total(n) == SumFunction(PaidWith(r, F[n])) + SumFunction(PledgedBut(r, FirstOf(r, n)))
            Most(n, p) == Share(r, p) * Cardinality(Covered(r, p, Reduced(r) \cup FirstOf(r, n)))
            Good == {n \in Nat : n <= N => /\ Total(n) = All
                                           /\ \A p \in Stars(r) : F[n][p] <= Most(n, p)}
<1>12. 0 \in Good
  <2>1. PaidWith(r, F[0]) = Paid
    <3>1. Paid = [s \in AllStars |-> Paid[s]]
      BY DEF Paid
    <3>2. \A s \in AllStars : s[1] = r => Paid[s] = F[0][s[2]]
      BY <1>6, <1>8 DEF Paid
    <3>. QED BY <3>1, <3>2 DEF PaidWith
  <2>2. PledgedBut(r, FirstOf(r, 0)) = Pledged
    <3>1. Pledged = [x \in AllExports |-> Pledged[x]]
      BY DEF Pledged
    <3>. QED BY <1>10, <3>1 DEF PledgedBut
  <2>3. ASSUME NEW p \in Stars(r) PROVE F[0][p] <= Most(0, p)
    <3>1. MassReturn[r][p] <= Share(r, p) * Cardinality(Covered(r, p, Reduced(r)))
      BY <1>8 DEF MassInv, ShareInv
    <3>2. Reduced(r) \cup FirstOf(r, 0) = Reduced(r)
      BY <1>10
    <3>. QED BY <1>6, <3>1, <3>2
  <2>. QED BY <2>1, <2>2, <2>3
<1>. HIDE DEF All, Most
<1>13. ASSUME NEW n \in Nat, n \in Good PROVE n + 1 \in Good
  <2>. SUFFICES ASSUME n + 1 <= N
                PROVE  /\ Total(n + 1) = All
                       /\ \A p \in Stars(r) : F[n + 1][p] <= Most(n + 1, p)
    <3>. HIDE DEF Total
    <3>1. n + 1 \in Nat
      OBVIOUS
    <3>. QED BY <3>1
  <2>. DEFINE e == table[r][n + 1]
              done == FirstOf(r, n)
  <2>1. /\ n \in 0..N /\ n + 1 \in 1..N /\ (n + 1) - 1 = n
        /\ FirstOf(r, n + 1) = done \cup {e} /\ e \notin done
    BY <1>11
  <2>2. Total(n) = All /\ \A p \in Stars(r) : F[n][p] <= Most(n, p)
    <3>1. n <= N
      BY <1>3, <2>1
    <3>. QED BY <1>13, <3>1
  <2>3. e \in Exports(r) /\ e \in ToSet(table[r]) /\ reduced[r][e] = <<>>
    BY <1>4, <2>1
  <2>4. F[n] \in M /\ F[n + 1] \in M /\ F[n + 1] = [F[n] EXCEPT ![e[1]] = @ + given[r][e]]
    <3>1. F[n] \in M /\ F[n + 1] \in M
      <4>1. n + 1 \in 0..N
        BY <1>3, <2>1
      <4>. QED BY <1>6, <2>1, <4>1
    <3>2. \A j \in 0..N : j = (n + 1) - 1 =>
            F[n + 1] = [F[j] EXCEPT ![table[r][n + 1][1]] = @ + given[r][table[r][n + 1]]]
      BY <1>6, <2>1
    <3>. QED BY <2>1, <3>1, <3>2
  <2>. HIDE DEF e, done
  <2>5. Total(n + 1) = Total(n)
    <3>1. MassTypes /\ TypeInv
      BY DEF MassInv, Inv
    <3>2. F[n + 1] = WithAnswer(r, F[n], e)
      BY <2>4 DEF WithAnswer
    <3>3. F[n] \in [Stars(r) -> Nat]
      BY <2>4
    <3>4. SumFunction(PaidWith(r, WithAnswer(r, F[n], e))) + SumFunction(PledgedBut(r, done \cup {e}))
            = SumFunction(PaidWith(r, F[n])) + SumFunction(PledgedBut(r, done))
      BY <2>1, <2>3, <3>1, <3>3, AnswerKeeps
    <3>. QED BY <2>1, <3>2, <3>4 DEF done
  <2>6. ASSUME NEW p \in Stars(r) PROVE F[n + 1][p] <= Most(n + 1, p)
    <3>. DEFINE old == Covered(r, p, Reduced(r) \cup done)
                new == Covered(r, p, Reduced(r) \cup FirstOf(r, n + 1))
    <3>0. Share(r, p) \in Nat /\ old \subseteq Gas /\ new \subseteq Gas
      <4>1. old \subseteq Neighbours(r, p) /\ new \subseteq Neighbours(r, p) /\ Share(r, p) \in Nat
        BY ShareFacts
      <4>. QED BY <4>1, StarFacts
    <3>1. F[n][p] <= Share(r, p) * Cardinality(old) /\ F[n][p] \in Nat
      BY <2>2, <2>4 DEF done, Most
    <3>2. CASE e[1] = p
      <4>1. e = <<p, e[2]>> /\ e[2] \in DOMAIN Work[r][p]
        BY <2>3, <3>2, ExportFacts
      <4>2. given[r][e] \in Nat /\ given[r][e] <= Share(r, p) * Cardinality(Reach[r][p][e[2]])
        <5>1. given[r][<<p, e[2]>>] <= Share(r, p) * Cardinality(Reach[r][p][e[2]])
          BY <4>1 DEF MassInv, ShareInv
        <5>2. given[r][e] \in Nat
          BY <2>3 DEF MassInv, MassTypes
        <5>. QED BY <4>1, <5>1, <5>2
      <4>3. F[n + 1][p] = F[n][p] + given[r][e]
        BY <2>4, <3>2
      <4>4. Cardinality(new) = Cardinality(old) + Cardinality(Reach[r][p][e[2]])
        <5>1. <<p, e[2]>> \notin Reduced(r) \cup done
          BY <2>1, <2>3, <4>1 DEF Reduced
        <5>2. Reduced(r) \cup FirstOf(r, n + 1) = (Reduced(r) \cup done) \cup {<<p, e[2]>>}
          BY <2>1, <4>1
        <5>3. Cardinality(Covered(r, p, (Reduced(r) \cup done) \cup {<<p, e[2]>>}))
                = Cardinality(Covered(r, p, Reduced(r) \cup done)) + Cardinality(Reach[r][p][e[2]])
          BY <4>1, <5>1, CoveredGrows
        <5>. QED BY <5>2, <5>3
      <4>5. Cardinality(old) \in Nat /\ Cardinality(Reach[r][p][e[2]]) \in Nat
        BY <3>0, <4>1, StarFacts, GasFinite
      <4>6. \A a, b, c, x, y \in Nat :
              x <= a * b /\ y <= a * c => x + y <= a * (b + c)
        <5>. TAKE a, b, c, x, y \in Nat
        <5>1. a * b \in Nat /\ a * c \in Nat /\ a * (b + c) = a * b + a * c
          BY ProductFacts
        <5>. QED BY <5>1
      <4>7. F[n + 1][p] <= Share(r, p) * Cardinality(new)
        <5>. HIDE DEF old, new
        <5>. QED BY <3>0, <3>1, <4>2, <4>3, <4>4, <4>5, <4>6
      <4>. QED BY <4>7 DEF Most
    <3>3. CASE e[1] # p
      <4>1. F[n + 1][p] = F[n][p]
        BY <2>4, <3>3
      <4>2. old \subseteq new
        BY <2>1 DEF Covered
      <4>3. F[n + 1][p] <= Share(r, p) * Cardinality(new)
        <5>. HIDE DEF old, new
        <5>. QED BY <3>0, <3>1, <4>1, <4>2, ProductGrows
      <4>. QED BY <4>3 DEF Most
    <3>. QED BY <3>2, <3>3
  <2>. QED BY <2>2, <2>5, <2>6
<1>14. Total(N) = All /\ \A p \in Stars(r) : F[N][p] <= Most(N, p)
  <2>1. N \in Good
    <3>. HIDE DEF Good
    <3>. QED BY <1>3, <1>12, <1>13, NatSetInduction
  <2>. HIDE DEF Total
  <2>2. N <= N
    BY <1>3
  <2>. QED BY <2>1, <2>2
<1>15. /\ Reduced(r)' = Reduced(r) \cup FirstOf(r, N)
       /\ \A q \in Ranks \ {r} : Reduced(q)' = Reduced(q)
  <2>1. \A e : <<e>> # <<>>
    OBVIOUS
  <2>2. FirstOf(r, N) \subseteq Exports(r)
    BY <1>4 DEF FirstOf
  <2>3. \A q \in Ranks \ {r} : Reduced(q)' = Reduced(q)
    BY <1>1 DEF Reduced
  <2>4. ASSUME NEW e
        PROVE  e \in Reduced(r)' <=> e \in Reduced(r) \cup FirstOf(r, N)
    <3>1. CASE e \in Exports(r)
      BY <1>2, <1>10, <2>1, <3>1 DEF Reduced
    <3>2. CASE e \notin Exports(r)
      BY <2>2, <3>2 DEF Reduced
    <3>. QED BY <3>1, <3>2
  <2>. QED BY <2>3, <2>4
<1>16. LedgerInv'
  <2>1. Paid' = PaidWith(r, F[N])
    <3>1. ASSUME NEW s \in AllStars PROVE Paid'[s] = PaidWith(r, F[N])[s]
      <4>1. s[1] \in Ranks
        BY StarsFinite
      <4>2. CASE s[1] = r
        BY <1>1, <1>7, <1>8, <4>2 DEF Paid, PaidWith
      <4>3. CASE s[1] # r
        BY <1>1, <1>7, <4>1, <4>3 DEF Paid, PaidWith
      <4>. QED BY <4>2, <4>3
    <3>2. Paid' = [s \in AllStars |-> Paid'[s]]
      BY DEF Paid
    <3>3. PaidWith(r, F[N]) = [s \in AllStars |-> PaidWith(r, F[N])[s]]
      BY DEF PaidWith
    <3>. QED BY <3>1, <3>2, <3>3
  <2>2. Pledged' = PledgedBut(r, FirstOf(r, N))
    <3>1. ASSUME NEW x \in AllExports PROVE Pledged'[x] = PledgedBut(r, FirstOf(r, N))[x]
      <4>0. PICK q \in Ranks : x \in {q} \X Exports(q)
        BY DEF AllExports
      <4>1. x[1] = q /\ x[2] \in Exports(q) /\ Pledged'[x] = (IF reduced'[q][x[2]] = <<>> THEN given'[q][x[2]] ELSE 0)
        BY <4>0 DEF Pledged
      <4>4. q = r => reduced'[q][x[2]] = IF x[2] \in ToSet(table[r]) THEN <<x[2]>> ELSE reduced[r][x[2]]
        BY <1>2, <4>1
      <4>5. q # r => reduced'[q][x[2]] = reduced[q][x[2]]
        BY <1>1
      <4>2. CASE q = r /\ x[2] \in ToSet(table[r])
        <5>1. \A e : <<e>> # <<>>
          OBVIOUS
        <5>2. reduced'[q][x[2]] # <<>>
          BY <4>2, <4>4, <5>1
        <5>. QED BY <1>10, <4>1, <4>2, <5>2 DEF PledgedBut
      <4>3. CASE ~(q = r /\ x[2] \in ToSet(table[r]))
        <5>1. reduced'[q][x[2]] = reduced[q][x[2]]
          BY <4>3, <4>4, <4>5
        <5>2. Pledged[x] = IF reduced[q][x[2]] = <<>> THEN given[q][x[2]] ELSE 0
          BY <4>1 DEF Pledged
        <5>. QED BY <1>1, <1>10, <4>1, <4>3, <5>1, <5>2 DEF PledgedBut
      <4>. QED BY <4>2, <4>3
    <3>2. Pledged' = [x \in AllExports |-> Pledged'[x]]
      BY DEF Pledged
    <3>3. PledgedBut(r, FirstOf(r, N)) = [x \in AllExports |-> PledgedBut(r, FirstOf(r, N))[x]]
      BY DEF PledgedBut
    <3>. QED BY <3>1, <3>2, <3>3
  <2>3. SumFunction(Paid') + SumFunction(Pledged') = SumFunction(Paid) + SumFunction(Pledged)
    BY <1>14, <2>1, <2>2 DEF All
  <2>4. SumFunction(Paid') \in Int /\ SumFunction(Pledged') \in Int
    <3>1. Paid' \in [AllStars -> Int] /\ Pledged' \in [AllExports -> Int]
      <4>1. ASSUME NEW s \in AllStars PROVE MassReturn'[s[1]][s[2]] \in Int
        <5>1. PICK q \in Ranks : \E p \in Stars(q) : s = <<q, p>>
          BY StarsFinite
        <5>2. PICK p \in Stars(q) : s = <<q, p>>
          BY <5>1
        <5>. QED BY <1>9, <5>2 DEF MassTypes
      <4>2. ASSUME NEW x \in AllExports PROVE given'[x[1]][x[2]] \in Int
        <5>1. PICK q \in Ranks : x \in {q} \X Exports(q)
          BY DEF AllExports
        <5>. QED BY <1>9, <5>1 DEF MassTypes
      <4>. QED BY <4>1, <4>2 DEF Paid, Pledged
    <3>. QED BY <3>1, StarsFinite, ExportsFinite, SumInt
  <2>5. /\ SumFunction(Paid) \in Int /\ SumFunction(Pledged) \in Int
        /\ SumFunction(GasMass) \in Int /\ gas' = gas
        /\ SumFunction(gas) = SumFunction(GasMass) + SumFunction(Paid) + SumFunction(Pledged)
    BY <1>1, SumsDefined DEF MassInv, LedgerInv, Inv
  <2>6. SumFunction(gas) = SumFunction(GasMass) + SumFunction(Paid') + SumFunction(Pledged')
    BY <2>3, <2>4, <2>5
  <2>. QED BY <2>5, <2>6 DEF LedgerInv
<1>17. ShareInv'
  <2>1. ASSUME NEW q \in Ranks, NEW p \in Stars(q)
        PROVE  IF primaries'[q] = 0 THEN MassReturn'[q][p] = Generated[q][p]
               ELSE MassReturn'[q][p] <= Share(q, p) * Cardinality(Covered(q, p, Reduced(q)'))
    <3>1. CASE q = r
      BY <1>1, <1>7, <1>8, <1>14, <1>15, <3>1 DEF Most
    <3>2. CASE q # r
      BY <1>1, <1>7, <1>15, <3>2 DEF MassInv, ShareInv
    <3>. QED BY <3>1, <3>2
  <2>2. \A q \in Ranks : \A p \in Stars(q) : \A n \in DOMAIN Work[q][p] :
          /\ MassGenerated'[q][<<p, n>>] <= Generated[q][p]
          /\ given'[q][<<p, n>>] <= Share(q, p) * Cardinality(Reach[q][p][n])
    BY <1>1 DEF MassInv, ShareInv
  <2>. QED BY <2>1, <2>2 DEF ShareInv
<1>18. GivenInv'
  <2>1. ASSUME NEW q \in Ranks, NEW e \in Exports(q), given[q][e] # 0
        PROVE  \/ reduced'[q][e] # <<>>
               \/ e \in ToSet(table'[q]) /\ results'[Task(q, e)][q] # <<>>
    <3>1. \/ reduced[q][e] # <<>>
          \/ e \in ToSet(table[q]) /\ results[Task(q, e)][q] # <<>>
      BY <2>1 DEF MassInv, GivenInv
    <3>2. Task(q, e) \in Ranks
      BY ExportFacts
    <3>3. CASE q = r
      <4>1. <<e>> # <<>>
        OBVIOUS
      <4>. QED BY <1>2, <3>1, <3>3, <4>1
    <3>4. CASE q # r
      BY <1>1, <3>1, <3>2, <3>4
    <3>. QED BY <3>3, <3>4
  <2>. QED BY <1>1, <2>1 DEF GivenInv, Task
<1>19. StarInv'
  <2>1. r \notin returned
    BY <1>1 DEF MassInv, StarInv
  <2>. QED BY <1>1, <1>7, <2>1 DEF MassInv, StarInv, MassTypes
<1>. QED BY <1>9, <1>16, <1>17, <1>18, <1>19 DEF MassInv

\* Each step of metal return keeps the invariant.
LEMMA MassNext == Inv /\ MassInv /\ [MetalNext]_<<vars, masses>> => MassInv'
<1>. SUFFICES ASSUME Inv, MassInv, [MetalNext]_<<vars, masses>> PROVE MassInv'
  OBVIOUS
<1>1. CASE Counts
  BY <1>1, WalkKeepsMass DEF Counts
<1>2. ASSUME NEW r \in Ranks, MetalStep(r) PROVE MassInv'
  <2>1. CASE ev_toptree(r) /\ UNCHANGED masses
    BY <2>1, WalkKeepsMass
  <2>2. CASE SendStars(r)
    BY <2>2, SendKeepsMass
  <2>3. CASE GiveAtHome(r)
    BY <2>3, HomeKeepsMass
  <2>4. CASE ReduceStars(r)
    BY <2>4, ReduceKeepsMass
  <2>5. ASSUME NEW q \in Ranks, GiveAbroad(r, q) PROVE MassInv'
    BY <2>5, AbroadKeepsMass
  <2>6. CASE EndSecondary(r) /\ UNCHANGED masses
    BY <2>6, WalkKeepsMass
  <2>7. CASE metal_return_postprocess(r)
    BY <2>7, PostprocessKeepsMass
  <2>. QED BY <1>2, <2>1, <2>2, <2>3, <2>4, <2>5, <2>6, <2>7 DEF MetalStep
<1>3. ASSUME NEW r \in Ranks, Leave(r) PROVE MassInv'
  BY <1>3, WalkKeepsMass DEF Leave
<1>4. CASE UNCHANGED <<vars, masses>>
  <2>1. UNCHANGED <<masses, primaries, reduced, table, results, given, pc>>
    BY <1>4 DEF vars, masses
  <2>2. GivenInv'
    BY <2>1, GivenStays DEF MassInv
  <2>. QED BY <2>1, <2>2, MassesStay DEF MassInv, StarInv, MassTypes
<1>. QED BY <1>1, <1>2, <1>3, <1>4 DEF MetalNext

\* When all ranks are through, no answer is left to be added.
LEMMA InvMassKept == Inv /\ MassInv => MassKept
<1>. SUFFICES ASSUME Inv, MassInv PROVE MassKept
  OBVIOUS
<1>1. ASSUME NEW r \in returned, NEW p \in Stars(r)
      PROVE  StarMass[r][p] - star[r][p] \in 0..Generated[r][p]
  <2>1. r \in Ranks
    BY DEF MassInv, MassTypes
  <2>2. star[r][p] = StarMass[r][p] - MassReturn[r][p]
    BY <2>1 DEF MassInv, StarInv
  <2>3. StarMass[r][p] \in Nat /\ Generated[r][p] \in Nat /\ MassReturn[r][p] \in 0..Generated[r][p]
    BY <2>1, StarFacts, ReturnBounded
  <2>. QED BY <2>2, <2>3
<1>2. ASSUME returned = Ranks
      PROVE  SumFunction(gas) + StarTotal(star) = SumFunction(GasMass) + StarTotal(StarMass)
  <2>. DEFINE S(m) == [s \in AllStars |-> m[s[1]][s[2]]]
  <2>1. /\ Paid \in [AllStars -> Int] /\ Pledged \in [AllExports -> Int]
        /\ IsFiniteSet(AllStars) /\ IsFiniteSet(AllExports)
        /\ SumFunction(Paid) \in Int /\ SumFunction(gas) \in Int /\ SumFunction(GasMass) \in Int
    BY SumsDefined DEF MassInv, Inv
  <2>2. ASSUME NEW r \in Ranks
        PROVE  pc[r] = "finished" /\ primaries[r] = 1 /\ left[r] = {} /\ table[r] = <<>>
    <3>1. pc[r] = "finished"
      BY <1>2 DEF MassInv, StarInv
    <3>. QED BY <3>1 DEF Inv, DoneInv, EntryInv, PrimaryInv
  <2>3. SumFunction(Pledged) = 0
    <3>1. ASSUME NEW x \in AllExports PROVE Pledged[x] = 0
      <4>1. PICK r \in Ranks : x \in {r} \X Exports(r)
        BY DEF AllExports
      <4>2. x[1] = r /\ x[2] \in Exports(r)
        BY <4>1
      <4>3. reduced[r][x[2]] = <<x[2]>>
        <5>1. x[2] \notin ToSet(table[r]) /\ x[2][1] \notin left[r]
          BY <2>2 DEF ToSet
        <5>. QED BY <4>2, <5>1 DEF Inv, EntryInv
      <4>4. \A e : <<e>> # <<>>
        OBVIOUS
      <4>. QED BY <4>2, <4>3, <4>4 DEF Pledged
    <3>. QED BY <2>1, <3>1, SumInt
  <2>4. /\ S(star) \in [AllStars -> Int] /\ S(StarMass) \in [AllStars -> Int]
        /\ \A s \in AllStars : S(StarMass)[s] = S(star)[s] + Paid[s]
    <3>1. ASSUME NEW s \in AllStars
          PROVE  /\ star[s[1]][s[2]] \in Int /\ StarMass[s[1]][s[2]] \in Int
                 /\ StarMass[s[1]][s[2]] = star[s[1]][s[2]] + Paid[s]
      <4>1. PICK r \in Ranks : \E p \in Stars(r) : s = <<r, p>>
        BY StarsFinite
      <4>2. PICK p \in Stars(r) : s = <<r, p>>
        BY <4>1
      <4>3. Paid[s] = MassReturn[r][p]
        BY <2>2, <4>2 DEF Paid
      <4>4. star[r][p] = StarMass[r][p] - MassReturn[r][p]
        BY <1>2 DEF MassInv, StarInv
      <4>5. StarMass[r][p] \in Nat /\ MassReturn[r][p] \in Nat
        BY StarFacts DEF MassInv, MassTypes
      <4>. QED BY <4>2, <4>3, <4>4, <4>5
    <3>. QED BY <3>1
  <2>. HIDE DEF S
  <2>5. SumFunction(S(StarMass)) = SumFunction(S(star)) + SumFunction(Paid)
    <3>. DEFINE b == [s \in AllStars |-> s]
    <3>1. b \in [AllStars -> AllStars] /\ \A s \in AllStars : b[s] = s
      OBVIOUS
    <3>. HIDE DEF b
    <3>2. Spread(S(StarMass), S(star), Paid, b, AllStars, AllStars)
      <4>1. \A d, e \in AllStars : b[d] = b[e] => d = e
        BY <3>1
      <4>2. \A e \in AllStars : S(StarMass)[b[e]] = S(star)[b[e]] + Paid[e]
        BY <2>4, <3>1
      <4>3. \A x \in AllStars : (\A e \in AllStars : x # b[e]) => S(StarMass)[x] = S(star)[x]
        BY <3>1
      <4>. QED BY <4>1, <4>2, <4>3 DEF Spread
    <3>. QED BY <2>1, <2>4, <3>1, <3>2, SumSpread
  <2>6. SumFunction(S(star)) \in Int
    BY <2>1, <2>4, SumInt
  <2>7. StarTotal(star) = SumFunction(S(star)) /\ StarTotal(StarMass) = SumFunction(S(StarMass))
    BY DEF StarTotal, S
  <2>8. SumFunction(gas) = SumFunction(GasMass) + SumFunction(Paid) + SumFunction(Pledged)
    BY DEF MassInv, LedgerInv
  <2>. QED BY <2>1, <2>3, <2>5, <2>6, <2>7, <2>8
<1>. QED BY <1>1, <1>2 DEF MassKept

\* In however many rounds the answers come, and whichever gas is too heavy: when
\* all ranks are through, the gas has gained what the stars have lost, and none
\* has lost more than it was to return.
THEOREM MassIsKept == MetalSpec => []MassKept
<1>1. MetalInit => MassInv
  BY MassAtStart
<1>2. Inv /\ MassInv /\ [MetalNext]_<<vars, masses>> => MassInv'
  BY MassNext
<1>3. Inv /\ MassInv => MassKept
  BY InvMassKept
<1>. QED BY <1>1, <1>2, <1>3, MetalReturnIsWalk, Invariance, PTL DEF MetalSpec
=============================================================================
