---------------------------- MODULE Slots_proofs ----------------------------
(***************************************************************************)
(* Proofs about the slots, the particle exchange and the particle step.    *)
(*                                                                         *)
(* Slots.  MarkGarbageKeeps, GCKeeps, SortTidies, ConvertKeeps, SplitKeeps *)
(* and UnpackKeeps say what each operation on a store does to it, and that *)
(* it keeps SlotsMatch and OrphansMarked.  Both are needed: garbage        *)
(* collection finds the slots to keep by the marks alone.                  *)
(*                                                                         *)
(* Exchange.  IInv is inductive.  CopiesInv is what NoneLostNorDoubled     *)
(* counts; it is kept by a step that packs or unpacks because PlanInv and  *)
(* SentInv tie the lists, the layouts and the buffers of all ranks to each *)
(* other; these hold because StageInv keeps all ranks in the same stage of *)
(* a round; and RoomInv carries the result of the first check of the room  *)
(* through to the second, which makes the run end.                         *)
(*                                                                         *)
(* Relocation.  Pack moves particles; the rest moves none.  SentInv and    *)
(* PlanInv show that at the end all are at their target.                   *)
(*                                                                         *)
(* Particle step.  StepInv is inductive.  While stars form, SlotInv leaves *)
(* out the particles split off, which have no slots; StarsInv says that    *)
(* they are the ones behind those of the start of the step, each from a    *)
(* gas particle of its own, so that they are no more than the places       *)
(* MaxActiveParticle counted for them and those among the accelerations;   *)
(* ListInv keeps the list to the particles before them; IDInv has the ID   *)
(* that the next star of a gas particle gets free.                         *)
(***************************************************************************)
EXTENDS Exchange, ParticleStep, DataLemmas

----------------------------------------------------------------------------
(* Slots: marking and collecting garbage keeps particles and slots together.*)

\* What the tables hold.
Particle == [ID : Nat \X Nat, Type : PartTypes, IsGarbage : BOOLEAN, Generation : Nat, PI : Nat]
SlotData == [ID : Nat \X Nat, ReverseLink : Nat]
Store    == [P : Seq(Particle), slot : [SlotTypes -> Seq(SlotData)],
             maxsize : [SlotTypes -> Nat]]

\* The parts of a store.
LEMMA StoreParts ==
  ASSUME NEW s \in Store
  PROVE  /\ s.P \in Seq(Particle) /\ NumPart(s) \in Nat /\ DOMAIN s.P = 1..NumPart(s)
         /\ s.slot \in [SlotTypes -> Seq(SlotData)] /\ s.maxsize \in [SlotTypes -> Nat]
         /\ \A i \in 1..NumPart(s) : s.P[i] \in Particle
         /\ \A t \in SlotTypes :
              /\ s.slot[t] \in Seq(SlotData) /\ Size(s, t) \in Nat
              /\ DOMAIN s.slot[t] = 1..Size(s, t)
              /\ \A k \in 1..Size(s, t) : s.slot[t][k] \in SlotData
         /\ LiveIndices(s) \in SUBSET (1..NumPart(s))
<1>1. s.P \in Seq(Particle) /\ s.slot \in [SlotTypes -> Seq(SlotData)]
      /\ s.maxsize \in [SlotTypes -> Nat]
  BY DEF Store
<1>2. /\ NumPart(s) \in Nat /\ DOMAIN s.P = 1..NumPart(s)
      /\ \A i \in 1..NumPart(s) : s.P[i] \in Particle
  BY <1>1 DEF NumPart
<1>3. ASSUME NEW t \in SlotTypes
      PROVE  /\ s.slot[t] \in Seq(SlotData) /\ Size(s, t) \in Nat
             /\ DOMAIN s.slot[t] = 1..Size(s, t)
             /\ \A k \in 1..Size(s, t) : s.slot[t][k] \in SlotData
  <2>1. s.slot[t] \in Seq(SlotData)
    BY <1>1
  <2>. QED BY <2>1 DEF Size
<1>4. LiveIndices(s) \in SUBSET (1..NumPart(s))
  BY DEF LiveIndices
<1>. QED BY <1>1, <1>2, <1>3, <1>4

\* The table size and the mark of garbage are numbers, and the mark is larger.
LEMMA ConstantTypes ==
  /\ MaxPart \in Nat \ {0} /\ Garbage \in Nat /\ Garbage > MaxPart
  /\ \A t \in SlotTypes : t \in PartTypes
BY StoreAssumption DEF Garbage

\* A store with some parts replaced.
LEMMA StoreExcept ==
  ASSUME NEW s \in Store, NEW x, NEW y
  PROVE  /\ [s EXCEPT !.P = x] = [P |-> x, slot |-> s.slot, maxsize |-> s.maxsize]
         /\ [s EXCEPT !.slot = y] = [P |-> s.P, slot |-> y, maxsize |-> s.maxsize]
         /\ [s EXCEPT !.P = x, !.slot = y] = [P |-> x, slot |-> y, maxsize |-> s.maxsize]
         /\ [s EXCEPT !.maxsize = x] = [P |-> s.P, slot |-> s.slot, maxsize |-> x]
<1>1. DOMAIN s = {"P", "slot", "maxsize"} /\ s = [f \in {"P", "slot", "maxsize"} |-> s[f]]
  BY DEF Store
<1>2. [s EXCEPT !.P = x] = [P |-> x, slot |-> s.slot, maxsize |-> s.maxsize]
  BY <1>1
<1>3. [s EXCEPT !.slot = y] = [P |-> s.P, slot |-> y, maxsize |-> s.maxsize]
  BY <1>1
<1>4. [s EXCEPT !.P = x, !.slot = y] = [P |-> x, slot |-> y, maxsize |-> s.maxsize]
  <2>. DEFINE r == [P |-> x, slot |-> s.slot, maxsize |-> s.maxsize]
  <2>1. [s EXCEPT !.P = x, !.slot = y] = [[s EXCEPT !.P = x] EXCEPT !.slot = y]
    OBVIOUS
  <2>2. [r EXCEPT !.slot = y] = [P |-> x, slot |-> y, maxsize |-> s.maxsize]
    OBVIOUS
  <2>. QED BY <1>2, <2>1, <2>2
<1>5. [s EXCEPT !.maxsize = x] = [P |-> s.P, slot |-> s.slot, maxsize |-> x]
  BY <1>1
<1>. QED BY <1>2, <1>3, <1>4, <1>5

\* The particles in gone lose their slots, the others keep theirs.
LEMMA MarkGarbageKeeps ==
  ASSUME NEW s \in Store, SlotsMatch(s), OrphansMarked(s),
         NEW gone \in SUBSET LiveIndices(s)
  PROVE  LET m == MarkGarbage(s, gone) IN
         /\ m \in Store
         /\ NumPart(m) = NumPart(s)
         /\ LiveIndices(m) = LiveIndices(s) \ gone
         /\ \A i \in LiveIndices(m) : m.P[i] = s.P[i]
         /\ \A t \in SlotTypes : Size(m, t) = Size(s, t)
         /\ m.maxsize = s.maxsize
         /\ SlotsMatch(m) /\ OrphansMarked(m)
<1>. DEFINE m == MarkGarbage(s, gone)
            np == [i \in 1..NumPart(s) |->
                     IF i \in gone THEN [s.P[i] EXCEPT !.IsGarbage = TRUE] ELSE s.P[i]]
            ns == [t \in SlotTypes |-> [k \in 1..Size(s, t) |->
                     IF Owners(s, t, k) \cap gone = {} THEN s.slot[t][k]
                     ELSE [s.slot[t][k] EXCEPT !.ReverseLink = Garbage]]]
<1>0. /\ NumPart(s) \in Nat
      /\ \A i \in 1..NumPart(s) : s.P[i] \in Particle
      /\ \A t \in SlotTypes : Size(s, t) \in Nat /\ \A k \in 1..Size(s, t) : s.slot[t][k] \in SlotData
      /\ s.maxsize \in [SlotTypes -> Nat]
      /\ LiveIndices(s) \in SUBSET (1..NumPart(s))
  BY StoreParts
<1>1. m.P = np /\ m.slot = ns /\ m.maxsize = s.maxsize /\ m = [P |-> np, slot |-> ns, maxsize |-> s.maxsize]
  <2>1. m = [s EXCEPT !.P = np, !.slot = ns]
    BY Zenon DEF MarkGarbage
  <2>. HIDE DEF m, np, ns
  <2>2. m = [P |-> np, slot |-> ns, maxsize |-> s.maxsize]
    BY <2>1, StoreExcept
  <2>. QED BY <2>2
<1>2. \A i \in 1..NumPart(s) :
        /\ np[i] \in Particle
        /\ np[i].ID = s.P[i].ID /\ np[i].Type = s.P[i].Type /\ np[i].PI = s.P[i].PI
        /\ np[i].IsGarbage = (i \in gone \/ s.P[i].IsGarbage)
        /\ i \notin gone => np[i] = s.P[i]
  BY <1>0 DEF Particle
<1>3. np \in Seq(Particle) /\ Len(np) = NumPart(s)
  <2>1. np \in [1..NumPart(s) -> Particle]
    BY <1>2
  <2>. HIDE DEF np
  <2>. QED BY <1>0, <2>1
<1>4. ASSUME NEW t \in SlotTypes
      PROVE  /\ ns[t] \in Seq(SlotData) /\ Len(ns[t]) = Size(s, t)
             /\ \A k \in 1..Size(s, t) :
                  /\ ns[t][k].ID = s.slot[t][k].ID
                  /\ Owners(s, t, k) \cap gone = {} => ns[t][k] = s.slot[t][k]
                  /\ Owners(s, t, k) \cap gone # {} => ns[t][k].ReverseLink = Garbage
  <2>1. \A k \in 1..Size(s, t) :
          /\ ns[t][k] = IF Owners(s, t, k) \cap gone = {} THEN s.slot[t][k]
                        ELSE [s.slot[t][k] EXCEPT !.ReverseLink = Garbage]
          /\ s.slot[t][k] \in SlotData
    BY <1>0
  <2>2. \A k \in 1..Size(s, t) :
          /\ ns[t][k] \in SlotData
          /\ ns[t][k].ID = s.slot[t][k].ID
          /\ Owners(s, t, k) \cap gone = {} => ns[t][k] = s.slot[t][k]
          /\ Owners(s, t, k) \cap gone # {} => ns[t][k].ReverseLink = Garbage
    <3>. SUFFICES ASSUME NEW k \in 1..Size(s, t)
                  PROVE  /\ ns[t][k] \in SlotData
                         /\ ns[t][k].ID = s.slot[t][k].ID
                         /\ Owners(s, t, k) \cap gone = {} => ns[t][k] = s.slot[t][k]
                         /\ Owners(s, t, k) \cap gone # {} => ns[t][k].ReverseLink = Garbage
      OBVIOUS
    <3>. DEFINE old == s.slot[t][k]
                none == Owners(s, t, k) \cap gone = {}
    <3>1. /\ ns[t][k] = IF none THEN old ELSE [old EXCEPT !.ReverseLink = Garbage]
          /\ old \in SlotData
      BY <2>1
    <3>. HIDE DEF ns, old
    <3>2. CASE none
      BY <3>1, <3>2 DEF old
    <3>3. CASE ~none
      <4>. HIDE DEF none
      <4>1. ns[t][k] = [old EXCEPT !.ReverseLink = Garbage]
        BY <3>1, <3>3
      <4>2. ns[t][k] \in SlotData /\ ns[t][k].ID = old.ID /\ ns[t][k].ReverseLink = Garbage
        BY <3>1, <4>1, ConstantTypes DEF SlotData
      <4>. QED BY <3>3, <4>2 DEF old, none
    <3>. QED BY <3>2, <3>3
  <2>3. ns[t] \in [1..Size(s, t) -> SlotData]
    <3>1. ns[t] = [k \in 1..Size(s, t) |->
                     IF Owners(s, t, k) \cap gone = {} THEN s.slot[t][k]
                     ELSE [s.slot[t][k] EXCEPT !.ReverseLink = Garbage]]
      OBVIOUS
    <3>. HIDE DEF ns
    <3>. QED BY <2>2, <3>1
  <2>. HIDE DEF ns
  <2>. QED BY <1>0, <2>2, <2>3
<1>5. DOMAIN ns = SlotTypes /\ ns = [t \in SlotTypes |-> ns[t]]
  OBVIOUS
<1>. HIDE DEF np, ns, m
<1>6. m \in Store
  BY <1>0, <1>1, <1>3, <1>4, <1>5 DEF Store
<1>7. /\ NumPart(m) = NumPart(s)
      /\ \A t \in SlotTypes : Size(m, t) = Size(s, t)
  BY <1>1, <1>3, <1>4 DEF NumPart, Size
<1>8. LiveIndices(m) = LiveIndices(s) \ gone
  BY <1>1, <1>2, <1>7 DEF LiveIndices
<1>9. \A i \in LiveIndices(m) : i \in 1..NumPart(s) /\ i \notin gone /\ i \in LiveIndices(s) /\ m.P[i] = s.P[i]
  BY <1>0, <1>1, <1>2, <1>8
<1>10. \A t \in SlotTypes : \A k \in 1..Size(s, t) : Owners(m, t, k) = Owners(s, t, k)
  BY <1>1, <1>2, <1>7 DEF Owners
<1>11. SlotsMatch(m)
  <2>1. ASSUME NEW i \in LiveIndices(m) PROVE OwnsSlot(m, i)
    <3>1. OwnsSlot(s, i) /\ m.P[i] = s.P[i]
      BY <1>9 DEF SlotsMatch
    <3>. SUFFICES ASSUME HasSlot(s.P[i])
                  PROVE  /\ s.P[i].PI \in 1..Size(m, s.P[i].Type)
                         /\ m.slot[s.P[i].Type][s.P[i].PI].ID = s.P[i].ID
      BY <3>1 DEF OwnsSlot
    <3>2. /\ s.P[i].Type \in SlotTypes /\ s.P[i].PI \in 1..Size(s, s.P[i].Type)
          /\ s.slot[s.P[i].Type][s.P[i].PI].ID = s.P[i].ID
      BY <3>1 DEF OwnsSlot, HasSlot
    <3>. QED BY <1>1, <1>4, <1>7, <3>2
  <2>. QED BY <1>9, <2>1 DEF SlotsMatch
<1>12. OrphansMarked(m)
  <2>. SUFFICES ASSUME NEW t \in SlotTypes, NEW k \in 1..Size(s, t),
                       Owners(s, t, k) \cap LiveIndices(m) = {}
                PROVE  IsSlotGarbage(ns[t][k])
    BY <1>1, <1>7, <1>10 DEF OrphansMarked
  <2>1. CASE Owners(s, t, k) \cap gone = {}
    <3>1. Owners(s, t, k) \cap LiveIndices(s) = {}
      BY <1>8, <2>1
    <3>. QED BY <1>4, <2>1, <3>1 DEF OrphansMarked
  <2>2. CASE Owners(s, t, k) \cap gone # {}
    BY <1>4, <2>2, ConstantTypes DEF IsSlotGarbage
  <2>. QED BY <2>1, <2>2
<1>. QED BY <1>1, <1>6, <1>7, <1>8, <1>9, <1>11, <1>12 DEF m

\* A table of the particles that are not garbage, in any order, leaves each of
\* them its slot.
LEMMA TableKeeps ==
  ASSUME NEW s \in Store, SlotsMatch(s), OrphansMarked(s),
         NEW n \in Nat, NEW f \in Bijection(1..n, LiveIndices(s))
  PROVE  LET b == [s EXCEPT !.P = [k \in 1..n |-> s.P[f[k]]]] IN
         /\ b \in Store
         /\ NumPart(b) = n /\ LiveIndices(b) = 1..n
         /\ \A k \in 1..n : f[k] \in LiveIndices(s) /\ b.P[k] = s.P[f[k]]
         /\ \A t \in SlotTypes : Size(b, t) = Size(s, t)
         /\ b.maxsize = s.maxsize
         /\ SlotsMatch(b) /\ OrphansMarked(b)
<1>. DEFINE L  == LiveIndices(s)
            np == [k \in 1..n |-> s.P[f[k]]]
            b  == [s EXCEPT !.P = np]
<1>1. /\ s.P \in Seq(Particle) /\ NumPart(s) \in Nat /\ NumPart(s) = Len(s.P)
      /\ \A i \in 1..NumPart(s) : s.P[i] \in Particle
      /\ s.slot \in [SlotTypes -> Seq(SlotData)] /\ s.maxsize \in [SlotTypes -> Nat]
      /\ L \in SUBSET (1..NumPart(s))
      /\ \A i \in L : ~s.P[i].IsGarbage
  BY StoreParts DEF NumPart, LiveIndices
<1>2. /\ f \in [1..n -> L] /\ (\A j, k \in 1..n : f[j] = f[k] => j = k)
      /\ \A i \in L : \E k \in 1..n : f[k] = i
  BY DEF Bijection, Injection, IsInjective, Surjection
<1>3. np \in Seq(Particle) /\ Len(np) = n /\ \A k \in 1..n : np[k] = s.P[f[k]]
  <2>1. \A k \in 1..n : s.P[f[k]] \in Particle
    BY <1>1, <1>2
  <2>2. np \in [1..n -> Particle]
    BY <2>1
  <2>. QED BY <2>2
<1>. HIDE DEF np
<1>4. b = [P |-> np, slot |-> s.slot, maxsize |-> s.maxsize]
  <2>. HIDE DEF b
  <2>. QED BY StoreExcept DEF b
<1>5. b.P = np /\ b.slot = s.slot /\ b.maxsize = s.maxsize
  BY <1>4
<1>. HIDE DEF b, L
<1>6. b \in Store
  BY <1>1, <1>3, <1>4 DEF Store
<1>7. NumPart(b) = n /\ \A t \in SlotTypes : Size(b, t) = Size(s, t)
  BY <1>3, <1>5 DEF NumPart, Size
<1>8. \A k \in 1..n : f[k] \in L /\ b.P[k] = s.P[f[k]]
  BY <1>2, <1>3, <1>5
<1>9. LiveIndices(b) = 1..n
  <2>1. \A k \in 1..n : ~b.P[k].IsGarbage
    BY <1>1, <1>8
  <2>. QED BY <1>7, <2>1 DEF LiveIndices
<1>10. SlotsMatch(b)
  <2>1. ASSUME NEW k \in 1..n PROVE OwnsSlot(b, k)
    <3>1. OwnsSlot(s, f[k]) /\ b.P[k] = s.P[f[k]]
      BY <1>8 DEF SlotsMatch, L
    <3>. SUFFICES ASSUME HasSlot(b.P[k])
                  PROVE  /\ b.P[k].PI \in 1..Size(b, b.P[k].Type)
                         /\ b.slot[b.P[k].Type][b.P[k].PI].ID = b.P[k].ID
      BY DEF OwnsSlot
    <3>2. /\ b.P[k].Type \in SlotTypes /\ b.P[k].PI \in 1..Size(s, b.P[k].Type)
          /\ s.slot[b.P[k].Type][b.P[k].PI].ID = b.P[k].ID
      BY <3>1 DEF OwnsSlot, HasSlot
    <3>. QED BY <1>5, <1>7, <3>2
  <2>2. ASSUME NEW j \in 1..n, NEW k \in 1..n, HasSlot(b.P[j]),
               b.P[j].Type = b.P[k].Type, b.P[j].PI = b.P[k].PI
        PROVE  j = k
    <3>1. f[j] = f[k]
      BY <1>8, <2>2 DEF SlotsMatch, L
    <3>. QED BY <1>2, <3>1
  <2>. QED BY <1>9, <2>1, <2>2 DEF SlotsMatch
<1>11. OrphansMarked(b)
  <2>. SUFFICES ASSUME NEW t \in SlotTypes, NEW k \in 1..Size(s, t),
                       Owners(b, t, k) \cap (1..n) = {}
                PROVE  IsSlotGarbage(s.slot[t][k])
    BY <1>5, <1>7, <1>9 DEF OrphansMarked
  <2>1. ASSUME NEW i \in L, i \in Owners(s, t, k) PROVE FALSE
    <3>1. PICK j \in 1..n : f[j] = i
      BY <1>2
    <3>2. j \in Owners(b, t, k)
      BY <1>7, <1>8, <2>1, <3>1 DEF Owners
    <3>. QED BY <3>2
  <2>. QED BY <2>1 DEF OrphansMarked, L
<1>. QED BY <1>5, <1>6, <1>7, <1>8, <1>9, <1>10, <1>11 DEF b, np, L

\* The particles that stay keep their order and their slots.
LEMMA GCBaseKeeps ==
  ASSUME NEW s \in Store, SlotsMatch(s), OrphansMarked(s)
  PROVE  LET b == GCBase(s)
             L == LiveIndices(s) IN
         /\ b \in Store
         /\ NumPart(b) = Cardinality(L) /\ NumPart(b) <= NumPart(s)
         /\ LiveIndices(b) = 1..NumPart(b)
         /\ \A k \in 1..NumPart(b) : InOrder(L)[k] \in L /\ b.P[k] = s.P[InOrder(L)[k]]
         /\ \A i \in L : \E k \in 1..NumPart(b) : InOrder(L)[k] = i
         /\ \A j, k \in 1..NumPart(b) : InOrder(L)[j] = InOrder(L)[k] => j = k
         /\ \A t \in SlotTypes : Size(b, t) = Size(s, t)
         /\ b.maxsize = s.maxsize
         /\ SlotsMatch(b) /\ OrphansMarked(b)
<1>. DEFINE L == LiveIndices(s)
            f == InOrder(L)
            n == Cardinality(L)
            b == [s EXCEPT !.P = [k \in 1..n |-> s.P[f[k]]]]
<1>1. s.P \in Seq(Particle) /\ NumPart(s) = Len(s.P) /\ L \in SUBSET (1..Len(s.P))
  BY StoreParts DEF NumPart
<1>2. GCBase(s) = b
  <2>1. SelectAt(s.P, L) = [k \in 1..n |-> s.P[f[k]]]
    BY Zenon DEF SelectAt
  <2>. QED BY <2>1, Zenon DEF GCBase
<1>. HIDE DEF L
<1>3. /\ n \in Nat /\ n <= NumPart(s) /\ f \in [1..n -> L]
      /\ \A k \in 1..n : CountTo(L, f[k]) = k
      /\ \A i \in L : CountTo(L, i) \in 1..n /\ f[CountTo(L, i)] = i
  BY <1>1, SelectAtProperties
<1>. HIDE DEF f, n
<1>4. /\ \A j, k \in 1..n : f[j] = f[k] => j = k
      /\ \A i \in L : \E k \in 1..n : f[k] = i
  BY <1>3
<1>5. f \in Bijection(1..n, LiveIndices(s))
  BY <1>3, <1>4 DEF Bijection, Injection, IsInjective, Surjection, L
<1>6. /\ b \in Store
      /\ NumPart(b) = n /\ LiveIndices(b) = 1..n
      /\ \A k \in 1..n : f[k] \in LiveIndices(s) /\ b.P[k] = s.P[f[k]]
      /\ \A t \in SlotTypes : Size(b, t) = Size(s, t)
      /\ b.maxsize = s.maxsize
      /\ SlotsMatch(b) /\ OrphansMarked(b)
  <2>. HIDE DEF b
  <2>. QED BY <1>3, <1>5, TableKeeps DEF b
<1>. HIDE DEF b
<1>. QED BY <1>2, <1>3, <1>4, <1>6, Zenon DEF L, f, n

\* A slot with another link.
LEMMA SlotLinked ==
  ASSUME NEW x \in SlotData, NEW i \in Nat
  PROVE  LET y == [x EXCEPT !.ReverseLink = i] IN
         y \in SlotData /\ y.ID = x.ID /\ y.ReverseLink = i
BY DEF SlotData

\* What garbage collection keeps of the slots of a table without garbage: each
\* particle has its slot, perhaps at another place, and nothing else is left.
LEMMA GCMarkLinks ==
  ASSUME NEW s \in Store, SlotsMatch(s), OrphansMarked(s),
         LiveIndices(s) = 1..NumPart(s)
  PROVE  LET m == GCMark(s) IN
         /\ m \in Store
         /\ m.P = s.P /\ m.maxsize = s.maxsize
         /\ \A t \in SlotTypes :
              /\ Size(m, t) = Size(s, t)
              /\ \A k \in 1..Size(s, t) :
                   /\ m.slot[t][k].ID = s.slot[t][k].ID
                   /\ \A i \in Owners(s, t, k) : m.slot[t][k].ReverseLink = i
                   /\ Owners(s, t, k) = {} => IsSlotGarbage(m.slot[t][k])
<1>. DEFINE m == GCMark(s)
            ns == [t \in SlotTypes |-> [k \in 1..Size(s, t) |->
                     IF Owners(s, t, k) = {} THEN s.slot[t][k]
                     ELSE LET i == CHOOSE i \in Owners(s, t, k) : TRUE
                          IN  [s.slot[t][k] EXCEPT !.ReverseLink =
                                 IF s.P[i].IsGarbage THEN Garbage ELSE i]]]
<1>1. /\ s.P \in Seq(Particle) /\ NumPart(s) \in Nat
      /\ s.slot \in [SlotTypes -> Seq(SlotData)] /\ s.maxsize \in [SlotTypes -> Nat]
      /\ \A t \in SlotTypes : Size(s, t) \in Nat /\ \A k \in 1..Size(s, t) : s.slot[t][k] \in SlotData
  BY StoreParts
<1>2. m = [P |-> s.P, slot |-> ns, maxsize |-> s.maxsize]
  <2>1. m = [s EXCEPT !.slot = ns]
    BY Zenon DEF GCMark
  <2>. HIDE DEF m, ns
  <2>. QED BY <2>1, StoreExcept
<1>3. ASSUME NEW t \in SlotTypes
      PROVE  /\ ns[t] \in Seq(SlotData) /\ Len(ns[t]) = Size(s, t)
             /\ \A k \in 1..Size(s, t) :
                  /\ ns[t][k].ID = s.slot[t][k].ID
                  /\ \A i \in Owners(s, t, k) : ns[t][k].ReverseLink = i
                  /\ Owners(s, t, k) = {} => IsSlotGarbage(ns[t][k])
  <2>. DEFINE q == [k \in 1..Size(s, t) |->
                     IF Owners(s, t, k) = {} THEN s.slot[t][k]
                     ELSE LET i == CHOOSE i \in Owners(s, t, k) : TRUE
                          IN  [s.slot[t][k] EXCEPT !.ReverseLink =
                                 IF s.P[i].IsGarbage THEN Garbage ELSE i]]
  <2>1. ns[t] = q
    OBVIOUS
  <2>2. ASSUME NEW k \in 1..Size(s, t), Owners(s, t, k) = {}
        PROVE  q[k] \in SlotData /\ q[k].ID = s.slot[t][k].ID /\ IsSlotGarbage(q[k])
    <3>1. q[k] = s.slot[t][k]
      BY <2>2
    <3>2. IsSlotGarbage(s.slot[t][k])
      BY <2>2 DEF OrphansMarked
    <3>. HIDE DEF q
    <3>. QED BY <1>1, <3>1, <3>2
  <2>3. ASSUME NEW k \in 1..Size(s, t), NEW i \in Owners(s, t, k)
        PROVE  q[k] \in SlotData /\ q[k].ID = s.slot[t][k].ID /\ q[k].ReverseLink = i
    <3>1. i \in LiveIndices(s) /\ s.P[i].Type = t /\ s.P[i].PI = k /\ i \in Nat
      BY <1>1 DEF Owners
    <3>2. \A j \in Owners(s, t, k) : j = i
      <4>1. ASSUME NEW j \in Owners(s, t, k) PROVE j = i
        <5>1. j \in LiveIndices(s) /\ s.P[j].Type = t /\ s.P[j].PI = k
          BY DEF Owners
        <5>. QED BY <3>1, <5>1 DEF SlotsMatch, HasSlot
      <4>. QED BY <4>1
    <3>3. (CHOOSE j \in Owners(s, t, k) : TRUE) = i
      BY <3>2
    <3>4. ~s.P[i].IsGarbage
      BY <3>1 DEF LiveIndices
    <3>5. q[k] = [s.slot[t][k] EXCEPT !.ReverseLink = i]
      BY <3>3, <3>4
    <3>. HIDE DEF q
    <3>6. s.slot[t][k] \in SlotData
      BY <1>1
    <3>. QED BY <3>1, <3>5, <3>6, SlotLinked
  <2>4. \A k \in 1..Size(s, t) : q[k] \in SlotData
    BY <2>2, <2>3
  <2>5. q \in [1..Size(s, t) -> SlotData]
    BY <2>4
  <2>6. \A k \in 1..Size(s, t) :
          /\ q[k].ID = s.slot[t][k].ID
          /\ \A i \in Owners(s, t, k) : q[k].ReverseLink = i
          /\ Owners(s, t, k) = {} => IsSlotGarbage(q[k])
    BY <2>2, <2>3
  <2>. HIDE DEF q
  <2>7. q \in Seq(SlotData) /\ Len(q) = Size(s, t)
    BY <1>1, <2>5
  <2>. QED BY <2>1, <2>6, <2>7, Zenon
<1>4. DOMAIN ns = SlotTypes /\ ns = [t \in SlotTypes |-> ns[t]]
  OBVIOUS
<1>. HIDE DEF m, ns
<1>5. m.P = s.P /\ m.slot = ns /\ m.maxsize = s.maxsize
  BY <1>2
<1>6. m \in Store
  BY <1>1, <1>2, <1>3, <1>4 DEF Store
<1>7. \A t \in SlotTypes : Size(m, t) = Size(s, t)
  BY <1>3, <1>5 DEF Size
<1>. QED BY <1>3, <1>5, <1>6, <1>7 DEF m

\* The slots of type t that have an owner.
Owned(s, t) == {k \in 1..Size(s, t) : Owners(s, t, k) # {}}

\* What a collection leaves of the slots of type t, in any order: those of the
\* particles of that type, each linked to its own.
LinkedRight(s, t, w) ==
  /\ w \in Seq(SlotData) /\ Len(w) <= Size(s, t)
  /\ \A n \in 1..Len(w) : \E i \in 1..NumPart(s) :
       s.P[i].Type = t /\ w[n].ReverseLink = i /\ w[n].ID = s.P[i].ID
  /\ \A i \in 1..NumPart(s) : s.P[i].Type = t => \E n \in 1..Len(w) : w[n].ReverseLink = i
  /\ \A m, n \in 1..Len(w) : w[m].ReverseLink = w[n].ReverseLink => m = n

\* After slots_gc_mark the slots in use are those with an owner, and each is
\* linked to its owner.
LEMMA MarkedSlots ==
  ASSUME NEW s \in Store, SlotsMatch(s), OrphansMarked(s),
         LiveIndices(s) = 1..NumPart(s), NumPart(s) <= MaxPart, NEW t \in SlotTypes
  PROVE  LET x == GCMark(s).slot[t]
             K == Owned(s, t) IN
         /\ x \in Seq(SlotData) /\ Len(x) = Size(s, t) /\ Size(s, t) \in Nat
         /\ {k \in DOMAIN x : ~IsSlotGarbage(x[k])} = K
         /\ \A k \in K : \E i \in 1..NumPart(s) :
              /\ s.P[i].Type = t /\ s.P[i].PI = k
              /\ x[k].ReverseLink = i /\ x[k].ID = s.P[i].ID
         /\ \A i \in 1..NumPart(s) : s.P[i].Type = t => s.P[i].PI \in K /\ x[s.P[i].PI].ReverseLink = i
<1>. DEFINE m == GCMark(s)
            x == m.slot[t]
            K == Owned(s, t)
<1>1. /\ m \in Store /\ Size(m, t) = Size(s, t)
      /\ \A k \in 1..Size(s, t) :
           /\ x[k].ID = s.slot[t][k].ID
           /\ \A i \in Owners(s, t, k) : x[k].ReverseLink = i
           /\ Owners(s, t, k) = {} => IsSlotGarbage(x[k])
  BY GCMarkLinks
<1>2. /\ x \in Seq(SlotData) /\ DOMAIN x = 1..Size(s, t)
      /\ Len(x) = Size(s, t) /\ Size(s, t) \in Nat /\ NumPart(s) \in Nat
  <2>. HIDE DEF m
  <2>1. x \in Seq(SlotData) /\ DOMAIN x = 1..Size(m, t) /\ Size(m, t) \in Nat
    BY <1>1, StoreParts
  <2>2. NumPart(s) \in Nat
    BY StoreParts
  <2>. QED BY <1>1, <2>1, <2>2 DEF Size
<1>. HIDE DEF m
<1>3. ASSUME NEW i \in 1..NumPart(s), s.P[i].Type = t
      PROVE  /\ s.P[i].PI \in 1..Size(s, t) /\ i \in Owners(s, t, s.P[i].PI) /\ s.P[i].PI \in K
             /\ x[s.P[i].PI].ReverseLink = i /\ x[s.P[i].PI].ID = s.P[i].ID
  <2>1. s.P[i].PI \in 1..Size(s, t) /\ s.slot[t][s.P[i].PI].ID = s.P[i].ID
    BY <1>3 DEF SlotsMatch, OwnsSlot, HasSlot
  <2>2. i \in Owners(s, t, s.P[i].PI)
    BY <1>3 DEF Owners
  <2>3. s.P[i].PI \in K
    BY <2>1, <2>2 DEF Owned
  <2>4. x[s.P[i].PI].ReverseLink = i
    BY <1>1, <2>1, <2>2
  <2>5. x[s.P[i].PI].ID = s.P[i].ID
    BY <1>1, <2>1
  <2>. QED BY <2>1, <2>2, <2>3, <2>4, <2>5
<1>4. ASSUME NEW k \in K
      PROVE  \E i \in 1..NumPart(s) :
               /\ s.P[i].Type = t /\ s.P[i].PI = k
               /\ x[k].ReverseLink = i /\ x[k].ID = s.P[i].ID
  <2>1. PICK i \in Owners(s, t, k) : TRUE
    BY DEF Owned
  <2>2. i \in 1..NumPart(s) /\ s.P[i].Type = t /\ s.P[i].PI = k
    BY DEF Owners
  <2>3. x[k].ReverseLink = i /\ x[k].ID = s.P[i].ID
    BY <1>3, <2>2
  <2>. QED BY <2>2, <2>3
<1>5. {k \in DOMAIN x : ~IsSlotGarbage(x[k])} = K
  <2>1. ASSUME NEW k \in K PROVE ~IsSlotGarbage(x[k])
    <3>1. \E i \in 1..NumPart(s) : x[k].ReverseLink = i
      BY <1>4
    <3>. QED BY <1>2, <3>1, ConstantTypes DEF IsSlotGarbage
  <2>2. ASSUME NEW k \in 1..Size(s, t), ~IsSlotGarbage(x[k]) PROVE k \in K
    BY <1>1, <2>2 DEF Owned
  <2>3. K \in SUBSET (1..Size(s, t))
    BY DEF Owned
  <2>. HIDE DEF K, x
  <2>. QED BY <1>2, <2>1, <2>2, <2>3
<1>6. \A i \in 1..NumPart(s) : s.P[i].Type = t => s.P[i].PI \in K /\ x[s.P[i].PI].ReverseLink = i
  BY <1>3
<1>7. \A k \in K : \E i \in 1..NumPart(s) :
        /\ s.P[i].Type = t /\ s.P[i].PI = k
        /\ x[k].ReverseLink = i /\ x[k].ID = s.P[i].ID
  BY <1>4
<1>. HIDE DEF K, x
<1>. QED BY <1>2, <1>5, <1>6, <1>7 DEF K, x, m

\* slots_gc_sweep after slots_gc_mark.
LEMMA SweptSlots ==
  ASSUME NEW s \in Store, SlotsMatch(s), OrphansMarked(s),
         LiveIndices(s) = 1..NumPart(s), NumPart(s) <= MaxPart, NEW t \in SlotTypes
  PROVE  LinkedRight(s, t, Swept(GCMark(s).slot[t]))
<1>. DEFINE x == GCMark(s).slot[t]
            L == {k \in DOMAIN x : ~IsSlotGarbage(x[k])}
            K == Owned(s, t)
            w == Swept(x)
            f == InOrder(K)
<1>1. /\ x \in Seq(SlotData) /\ Len(x) = Size(s, t) /\ Size(s, t) \in Nat
      /\ L = K
      /\ \A k \in K : \E i \in 1..NumPart(s) :
           /\ s.P[i].Type = t /\ s.P[i].PI = k
           /\ x[k].ReverseLink = i /\ x[k].ID = s.P[i].ID
      /\ \A i \in 1..NumPart(s) : s.P[i].Type = t => s.P[i].PI \in K /\ x[s.P[i].PI].ReverseLink = i
  BY MarkedSlots
<1>. HIDE DEF x
<1>2. w = SelectAt(x, K)
  <2>1. w = SelectAt(x, L)
    BY DEF Swept
  <2>. QED BY <1>1, <2>1
<1>3. K \in SUBSET (1..Len(x))
  BY <1>1 DEF Owned
<1>. HIDE DEF L, K, w
<1>4. /\ Cardinality(K) \in Nat /\ Cardinality(K) <= Len(x)
      /\ f \in [1..Cardinality(K) -> K]
      /\ w \in Seq(SlotData)
      /\ Len(w) = Cardinality(K)
      /\ \A n \in 1..Cardinality(K) : w[n] = x[f[n]] /\ CountTo(K, f[n]) = n
      /\ \A i \in K : CountTo(K, i) \in 1..Cardinality(K) /\ f[CountTo(K, i)] = i
  BY <1>1, <1>2, <1>3, SelectAtProperties
<1>. HIDE DEF f
<1>5. ASSUME NEW n \in 1..Len(w)
      PROVE  \E i \in 1..NumPart(s) :
               s.P[i].Type = t /\ s.P[i].PI = f[n] /\ w[n].ReverseLink = i /\ w[n].ID = s.P[i].ID
  <2>1. f[n] \in K /\ w[n] = x[f[n]]
    BY <1>4
  <2>. QED BY <1>1, <2>1
<1>6. ASSUME NEW i \in 1..NumPart(s), s.P[i].Type = t
      PROVE  \E n \in 1..Len(w) : w[n].ReverseLink = i
  <2>1. s.P[i].PI \in K /\ x[s.P[i].PI].ReverseLink = i
    BY <1>1, <1>6
  <2>. DEFINE n == CountTo(K, s.P[i].PI)
  <2>2. n \in 1..Len(w) /\ w[n] = x[s.P[i].PI]
    BY <1>4, <2>1
  <2>. QED BY <2>1, <2>2
<1>7. ASSUME NEW m \in 1..Len(w), NEW n \in 1..Len(w), w[m].ReverseLink = w[n].ReverseLink
      PROVE  m = n
  <2>1. f[m] = f[n]
    BY <1>5, <1>7
  <2>. QED BY <1>4, <2>1
<1>8. Len(w) <= Size(s, t)
  BY <1>1, <1>4
<1>9. LinkedRight(s, t, w)
  BY <1>4, <1>5, <1>6, <1>7, <1>8 DEF LinkedRight
<1>. QED BY <1>9 DEF w, x

\* The slots after slots_gc_mark in the order of their particles, as
\* slots_gc_sorted leaves them.
LEMMA OrderedSlots ==
  ASSUME NEW s \in Store, SlotsMatch(s), OrphansMarked(s),
         LiveIndices(s) = 1..NumPart(s), NumPart(s) <= MaxPart, NEW t \in SlotTypes
  PROVE  LinkedRight(s, t, InParticleOrder(GCMark(s).slot[t]))
<1>. DEFINE x == GCMark(s).slot[t]
            L == {k \in DOMAIN x : ~IsSlotGarbage(x[k])}
            K == Owned(s, t)
            links == {x[k].ReverseLink : k \in K}
            f == InOrder(links)
            w == InParticleOrder(x)
<1>1. /\ x \in Seq(SlotData) /\ Len(x) = Size(s, t) /\ Size(s, t) \in Nat
      /\ L = K
      /\ \A k \in K : \E i \in 1..NumPart(s) :
           /\ s.P[i].Type = t /\ s.P[i].PI = k
           /\ x[k].ReverseLink = i /\ x[k].ID = s.P[i].ID
      /\ \A i \in 1..NumPart(s) : s.P[i].Type = t => s.P[i].PI \in K /\ x[s.P[i].PI].ReverseLink = i
  BY MarkedSlots
<1>. HIDE DEF x
<1>2. w = [n \in 1..Cardinality(links) |-> x[CHOOSE k \in K : x[k].ReverseLink = f[n]]]
  <2>1. w = [n \in 1..Cardinality({x[j].ReverseLink : j \in L}) |->
               x[CHOOSE k \in L : x[k].ReverseLink = InOrder({x[j].ReverseLink : j \in L})[n]]]
    BY Zenon DEF InParticleOrder
  <2>. HIDE DEF L, K
  <2>2. L = K
    BY <1>1 DEF L, K
  <2>. QED BY <2>1, <2>2
<1>3. K \in SUBSET (1..Size(s, t))
  BY DEF Owned
<1>. HIDE DEF L, K, w
<1>4. IsFiniteSet(K) /\ Cardinality(K) <= Size(s, t)
  <2>1. IsFiniteSet(1..Size(s, t)) /\ Cardinality(1..Size(s, t)) = Size(s, t)
    BY <1>1, FS_Interval, SMTT(30)
  <2>2. IsFiniteSet(K) /\ Cardinality(K) <= Cardinality(1..Size(s, t))
    BY <1>3, <2>1, FS_Subset
  <2>. QED BY <2>1, <2>2
<1>5. NumPart(s) \in Nat
  BY StoreParts
<1>6. links = {i \in 1..NumPart(s) : s.P[i].Type = t}
  <2>1. \A k \in K : x[k].ReverseLink \in {i \in 1..NumPart(s) : s.P[i].Type = t}
    BY <1>1
  <2>2. ASSUME NEW i \in 1..NumPart(s), s.P[i].Type = t PROVE \E k \in K : x[k].ReverseLink = i
    BY <1>1, <2>2
  <2>. QED BY <2>1, <2>2
<1>7. links \in SUBSET Int /\ IsFiniteSet(links) /\ Cardinality(links) <= Size(s, t)
  <2>. DEFINE g == [k \in K |-> x[k].ReverseLink]
  <2>1. g \in Surjection(K, links)
    BY DEF Surjection
  <2>. HIDE DEF g, links
  <2>2. IsFiniteSet(links) /\ Cardinality(links) <= Cardinality(K)
    BY <1>4, <2>1, FS_Surjection
  <2>3. Cardinality(links) \in Nat /\ Cardinality(K) \in Nat
    BY <1>4, <2>2, FS_CardinalityType
  <2>4. links \in SUBSET Int
    BY <1>5, <1>6
  <2>. QED BY <1>1, <1>4, <2>2, <2>3, <2>4
<1>. HIDE DEF links
<1>8. /\ Cardinality(links) \in Nat /\ f \in [1..Cardinality(links) -> links]
      /\ \A n \in 1..Cardinality(links) : CountTo(links, f[n]) = n
      /\ \A i \in links : CountTo(links, i) \in 1..Cardinality(links) /\ f[CountTo(links, i)] = i
  BY <1>7, InOrderProperties
<1>. HIDE DEF f
<1>9. ASSUME NEW n \in 1..Cardinality(links)
      PROVE  /\ w[n] \in SlotData
             /\ f[n] \in 1..NumPart(s) /\ s.P[f[n]].Type = t
             /\ w[n].ReverseLink = f[n] /\ w[n].ID = s.P[f[n]].ID
  <2>. DEFINE k == CHOOSE k \in K : x[k].ReverseLink = f[n]
  <2>1. f[n] \in 1..NumPart(s) /\ s.P[f[n]].Type = t
    BY <1>6, <1>8
  <2>2. \E j \in K : x[j].ReverseLink = f[n]
    BY <1>1, <2>1
  <2>3. k \in K /\ x[k].ReverseLink = f[n]
    BY <2>2
  <2>4. w[n] = x[k]
    BY <1>2
  <2>. HIDE DEF k
  <2>5. x[k] \in SlotData
    <3>1. k \in 1..Len(x)
      BY <1>1, <1>3, <2>3
    <3>. QED BY <1>1, <3>1
  <2>6. x[k].ID = s.P[f[n]].ID
    BY <1>1, <2>3
  <2>. QED BY <2>1, <2>3, <2>4, <2>5, <2>6
<1>10. w \in Seq(SlotData) /\ Len(w) = Cardinality(links)
  <2>1. w \in [1..Cardinality(links) -> SlotData]
    BY <1>2, <1>9
  <2>. QED BY <1>8, <2>1
<1>11. ASSUME NEW i \in 1..NumPart(s), s.P[i].Type = t
       PROVE  \E n \in 1..Len(w) : w[n].ReverseLink = i
  <2>1. i \in links
    BY <1>6, <1>11
  <2>2. CountTo(links, i) \in 1..Len(w) /\ f[CountTo(links, i)] = i
    BY <1>8, <1>10, <2>1
  <2>. QED BY <1>9, <1>10, <2>2
<1>12. ASSUME NEW m \in 1..Len(w), NEW n \in 1..Len(w), w[m].ReverseLink = w[n].ReverseLink
       PROVE  m = n
  <2>1. f[m] = f[n]
    BY <1>9, <1>10, <1>12
  <2>. QED BY <1>8, <1>10, <2>1
<1>13. \A n \in 1..Len(w) : \E i \in 1..NumPart(s) :
         s.P[i].Type = t /\ w[n].ReverseLink = i /\ w[n].ID = s.P[i].ID
  BY <1>9, <1>10
<1>14. Len(w) <= Size(s, t)
  BY <1>7, <1>10
<1>15. LinkedRight(s, t, w)
  BY <1>10, <1>11, <1>12, <1>13, <1>14 DEF LinkedRight
<1>. QED BY <1>15 DEF w, x

\* Two particles that differ in their slot number at most.
SameParticle(p, q) ==
  /\ p.ID = q.ID /\ p.Type = q.Type /\ p.IsGarbage = q.IsGarbage /\ p.Generation = q.Generation

\* A particle that gets another slot number stays the particle it is.
LEMMA ParticleMoved ==
  ASSUME NEW p \in Particle, NEW k \in Nat
  PROVE  LET q == [p EXCEPT !.PI = k] IN
         q \in Particle /\ SameParticle(q, p) /\ q.PI = k
BY DEF Particle, SameParticle

\* slots_gc_collect gives each particle the number of the slot linked to it.
LEMMA CollectMoves ==
  ASSUME NEW m \in Store, NEW types \in SUBSET SlotTypes,
         NEW w \in [SlotTypes -> Seq(SlotData)],
         \A t \in types : LinkedRight(m, t, w[t])
  PROVE  LET g == GCCollect([m EXCEPT !.slot = w], types) IN
         /\ g.slot = w /\ g.maxsize = m.maxsize
         /\ g \in Store /\ NumPart(g) = NumPart(m)
         /\ \A i \in 1..NumPart(m) :
              /\ SameParticle(g.P[i], m.P[i])
              /\ m.P[i].Type \in types =>
                   /\ g.P[i].PI \in 1..Len(w[m.P[i].Type])
                   /\ w[m.P[i].Type][g.P[i].PI].ReverseLink = i
              /\ m.P[i].Type \notin types => g.P[i] = m.P[i]
<1>. DEFINE v == [m EXCEPT !.slot = w]
            mine(i) == UNION {{k \in 1..Size(v, t) : v.slot[t][k].ReverseLink = i} : t \in types}
            np == [i \in 1..NumPart(v) |->
                     IF mine(i) = {} THEN v.P[i]
                     ELSE [v.P[i] EXCEPT !.PI = CHOOSE k \in mine(i) : TRUE]]
            g == GCCollect(v, types)
<1>1. g = [v EXCEPT !.P = np]
  BY Zenon DEF GCCollect
<1>2. /\ m.P \in Seq(Particle) /\ NumPart(m) \in Nat /\ m.maxsize \in [SlotTypes -> Nat]
      /\ \A i \in 1..NumPart(m) : m.P[i] \in Particle
  BY StoreParts
<1>3. v = [P |-> m.P, slot |-> w, maxsize |-> m.maxsize]
  BY StoreExcept
<1>4. v.P = m.P /\ v.slot = w /\ v.maxsize = m.maxsize /\ NumPart(v) = NumPart(m)
      /\ \A t : Size(v, t) = Len(w[t])
  BY <1>3 DEF NumPart, Size
<1>. HIDE DEF v
<1>5. [v EXCEPT !.P = np] = [P |-> np, slot |-> w, maxsize |-> m.maxsize]
  <2>. HIDE DEF np
  <2>. QED BY <1>3
<1>6. \A t \in types : \A k \in 1..Len(w[t]) : \A i \in 1..NumPart(m) :
        w[t][k].ReverseLink = i => m.P[i].Type = t
  <2>. SUFFICES ASSUME NEW t \in types, NEW k \in 1..Len(w[t]), NEW i \in 1..NumPart(m),
                       w[t][k].ReverseLink = i
                PROVE  m.P[i].Type = t
    OBVIOUS
  <2>. DEFINE x == w[t]
  <2>1. LinkedRight(m, t, x)
    OBVIOUS
  <2>2. k \in 1..Len(x) /\ x[k].ReverseLink = i
    OBVIOUS
  <2>. HIDE DEF x
  <2>3. \A n \in 1..Len(x) : \E j \in 1..NumPart(m) :
          m.P[j].Type = t /\ x[n].ReverseLink = j /\ x[n].ID = m.P[j].ID
    BY <2>1, Zenon DEF LinkedRight
  <2>4. PICK j \in 1..NumPart(m) : m.P[j].Type = t /\ x[k].ReverseLink = j
    BY <2>2, <2>3
  <2>. QED BY <2>2, <2>4
<1>7. ASSUME NEW i \in 1..NumPart(m), m.P[i].Type \notin types
      PROVE  mine(i) = {}
  BY <1>4, <1>6, <1>7
<1>8. ASSUME NEW i \in 1..NumPart(m), m.P[i].Type \in types
      PROVE  /\ mine(i) # {}
             /\ \A k \in mine(i) : k \in 1..Len(w[m.P[i].Type]) /\ w[m.P[i].Type][k].ReverseLink = i
  <2>1. LinkedRight(m, m.P[i].Type, w[m.P[i].Type])
    BY <1>8
  <2>2. PICK k \in 1..Len(w[m.P[i].Type]) : w[m.P[i].Type][k].ReverseLink = i
    BY <2>1 DEF LinkedRight
  <2>3. k \in mine(i)
    BY <1>4, <1>8, <2>2
  <2>4. ASSUME NEW j \in mine(i)
        PROVE  j \in 1..Len(w[m.P[i].Type]) /\ w[m.P[i].Type][j].ReverseLink = i
    <3>1. PICK t \in types : j \in 1..Size(v, t) /\ v.slot[t][j].ReverseLink = i
      OBVIOUS
    <3>2. j \in 1..Len(w[t]) /\ w[t][j].ReverseLink = i
      BY <1>4, <3>1
    <3>3. m.P[i].Type = t
      BY <1>6, <3>2
    <3>. QED BY <3>2, <3>3
  <2>. HIDE DEF mine
  <2>. QED BY <2>3, <2>4
<1>. HIDE DEF mine
<1>9. ASSUME NEW i \in 1..NumPart(m)
      PROVE  /\ np[i] \in Particle /\ SameParticle(np[i], m.P[i])
             /\ m.P[i].Type \in types =>
                  np[i].PI \in 1..Len(w[m.P[i].Type]) /\ w[m.P[i].Type][np[i].PI].ReverseLink = i
             /\ m.P[i].Type \notin types => np[i] = m.P[i]
  <2>1. CASE m.P[i].Type \in types
    <3>. DEFINE k == CHOOSE k \in mine(i) : TRUE
    <3>1. k \in mine(i)
      BY <1>8, <2>1
    <3>2. np[i] = [m.P[i] EXCEPT !.PI = k]
      BY <1>4, <1>8, <2>1
    <3>. HIDE DEF k, np
    <3>3. k \in 1..Len(w[m.P[i].Type]) /\ w[m.P[i].Type][k].ReverseLink = i /\ k \in Nat
      <4>1. k \in 1..Len(w[m.P[i].Type]) /\ w[m.P[i].Type][k].ReverseLink = i
        BY <1>8, <2>1, <3>1
      <4>. QED BY <4>1
    <3>4. m.P[i] \in Particle
      BY <1>2
    <3>5. np[i] \in Particle /\ SameParticle(np[i], m.P[i]) /\ np[i].PI = k
      BY <3>2, <3>3, <3>4, ParticleMoved
    <3>. QED BY <2>1, <3>3, <3>5
  <2>2. CASE m.P[i].Type \notin types
    <3>1. np[i] = m.P[i]
      BY <1>4, <1>7, <2>2
    <3>. HIDE DEF np
    <3>2. m.P[i] \in Particle
      BY <1>2
    <3>. QED BY <2>2, <3>1, <3>2 DEF SameParticle
  <2>. QED BY <2>1, <2>2
<1>10. np \in Seq(Particle) /\ Len(np) = NumPart(m)
  <2>1. np \in [1..NumPart(m) -> Particle]
    BY <1>4, <1>9
  <2>2. NumPart(m) \in Nat
    BY <1>2
  <2>. HIDE DEF np
  <2>. QED BY <2>1, <2>2
<1>. HIDE DEF np
<1>11. g = [P |-> np, slot |-> w, maxsize |-> m.maxsize]
  BY <1>1, <1>5
<1>. HIDE DEF g
<1>12. g.P = np /\ g.slot = w /\ g.maxsize = m.maxsize
  BY <1>11
<1>13. g \in Store
  BY <1>2, <1>10, <1>11 DEF Store
<1>14. NumPart(g) = NumPart(m)
  BY <1>10, <1>12 DEF NumPart
<1>. QED BY <1>9, <1>12, <1>13, <1>14 DEF g, v

\* The collection of the slots of some types keeps the particles, and gives
\* each its slot.
LEMMA CollectKeeps ==
  ASSUME NEW s \in Store, SlotsMatch(s), OrphansMarked(s),
         LiveIndices(s) = 1..NumPart(s), NumPart(s) <= MaxPart,
         NEW types \in SUBSET SlotTypes, NEW w \in [SlotTypes -> Seq(SlotData)],
         \A t \in types : LinkedRight(s, t, w[t]),
         \A t \in SlotTypes \ types : w[t] = GCMark(s).slot[t]
  PROVE  LET g == GCCollect([GCMark(s) EXCEPT !.slot = w], types) IN
         /\ g \in Store
         /\ NumPart(g) = NumPart(s) /\ LiveIndices(g) = 1..NumPart(g)
         /\ \A i \in 1..NumPart(s) : SameParticle(g.P[i], s.P[i])
         /\ \A t \in SlotTypes : Size(g, t) <= Size(s, t)
         /\ g.maxsize = s.maxsize
         /\ SlotsMatch(g) /\ OrphansMarked(g)
<1>. DEFINE m == GCMark(s)
            g == GCCollect([m EXCEPT !.slot = w], types)
<1>1. /\ m \in Store /\ m.P = s.P /\ m.maxsize = s.maxsize
      /\ \A t \in SlotTypes :
           /\ Size(m, t) = Size(s, t)
           /\ \A k \in 1..Size(s, t) :
                /\ m.slot[t][k].ID = s.slot[t][k].ID
                /\ Owners(s, t, k) = {} => IsSlotGarbage(m.slot[t][k])
  BY GCMarkLinks
<1>. HIDE DEF m
<1>2. NumPart(m) = NumPart(s) /\ NumPart(s) \in Nat /\ \A t \in SlotTypes : Size(s, t) \in Nat
  BY <1>1, StoreParts DEF NumPart
<1>3. \A t \in types : LinkedRight(m, t, w[t])
  <2>. SUFFICES ASSUME NEW t \in types PROVE LinkedRight(m, t, w[t])
    OBVIOUS
  <2>1. LinkedRight(s, t, w[t]) /\ Size(m, t) = Size(s, t)
    BY <1>1
  <2>. QED BY <1>1, <1>2, <2>1 DEF LinkedRight
<1>4. /\ g.slot = w /\ g.maxsize = s.maxsize
      /\ g \in Store /\ NumPart(g) = NumPart(s)
      /\ \A i \in 1..NumPart(s) :
           /\ SameParticle(g.P[i], s.P[i])
           /\ s.P[i].Type \in types =>
                /\ g.P[i].PI \in 1..Len(w[s.P[i].Type])
                /\ w[s.P[i].Type][g.P[i].PI].ReverseLink = i
           /\ s.P[i].Type \notin types => g.P[i] = s.P[i]
  <2>1. /\ g.slot = w /\ g.maxsize = m.maxsize
        /\ g \in Store /\ NumPart(g) = NumPart(m)
        /\ \A i \in 1..NumPart(m) :
             /\ SameParticle(g.P[i], m.P[i])
             /\ m.P[i].Type \in types =>
                  /\ g.P[i].PI \in 1..Len(w[m.P[i].Type])
                  /\ w[m.P[i].Type][g.P[i].PI].ReverseLink = i
             /\ m.P[i].Type \notin types => g.P[i] = m.P[i]
    BY <1>1, <1>3, CollectMoves
  <2>. HIDE DEF g
  <2>. QED BY <1>1, <1>2, <2>1
<1>. HIDE DEF g
<1>5. \A t \in SlotTypes : Size(g, t) = Len(w[t])
  BY <1>4 DEF Size
<1>6. \A t \in SlotTypes : Size(g, t) <= Size(s, t) /\ (t \notin types => Size(g, t) = Size(s, t))
  <2>. SUFFICES ASSUME NEW t \in SlotTypes
                PROVE  Size(g, t) <= Size(s, t) /\ (t \notin types => Size(g, t) = Size(s, t))
    OBVIOUS
  <2>1. CASE t \in types
    <3>1. LinkedRight(s, t, w[t])
      BY <2>1
    <3>. QED BY <1>5, <2>1, <3>1 DEF LinkedRight
  <2>2. CASE t \notin types
    <3>1. w[t] = m.slot[t] /\ Size(m, t) = Size(s, t)
      BY <1>1, <2>2 DEF m
    <3>. QED BY <1>2, <1>5, <3>1 DEF Size
  <2>. QED BY <2>1, <2>2
<1>7. LiveIndices(g) = 1..NumPart(g)
  <2>1. \A i \in 1..NumPart(s) : ~g.P[i].IsGarbage
    BY <1>4 DEF SameParticle, LiveIndices
  <2>. QED BY <1>4, <2>1 DEF LiveIndices
<1>8. ASSUME NEW i \in 1..NumPart(s) PROVE OwnsSlot(g, i)
  <2>. DEFINE t == s.P[i].Type
              k == g.P[i].PI
  <2>1. g.P[i].Type = t /\ g.P[i].ID = s.P[i].ID
    BY <1>4 DEF SameParticle
  <2>. SUFFICES ASSUME t \in SlotTypes
                PROVE  k \in 1..Size(g, t) /\ w[t][k].ID = s.P[i].ID
    BY <1>4, <2>1 DEF OwnsSlot, HasSlot
  <2>2. CASE t \in types
    <3>1. k \in 1..Len(w[t]) /\ w[t][k].ReverseLink = i
      BY <1>4, <2>2
    <3>2. \E j \in 1..NumPart(s) : w[t][k].ReverseLink = j /\ w[t][k].ID = s.P[j].ID
      <4>. DEFINE x == w[t]
      <4>1. LinkedRight(s, t, x) /\ k \in 1..Len(x)
        BY <2>2, <3>1
      <4>. HIDE DEF x, t, k
      <4>2. \E j \in 1..NumPart(s) : x[k].ReverseLink = j /\ x[k].ID = s.P[j].ID
        BY <4>1 DEF LinkedRight
      <4>. QED BY <4>2 DEF x, t, k
    <3>. QED BY <1>5, <3>1, <3>2
  <2>3. CASE t \notin types
    <3>1. s.P[i].PI = k /\ k \in 1..Size(s, t) /\ s.slot[t][k].ID = s.P[i].ID
      BY <1>4, <2>3 DEF SlotsMatch, OwnsSlot, HasSlot
    <3>2. w[t] = m.slot[t] /\ m.slot[t][k].ID = s.slot[t][k].ID
      BY <1>1, <2>3, <3>1 DEF m
    <3>. QED BY <1>6, <2>3, <3>1, <3>2
  <2>. QED BY <2>2, <2>3
<1>9. ASSUME NEW i \in 1..NumPart(s), NEW j \in 1..NumPart(s), HasSlot(g.P[i]),
             g.P[i].Type = g.P[j].Type, g.P[i].PI = g.P[j].PI
      PROVE  i = j
  <2>. DEFINE t == s.P[i].Type
  <2>1. g.P[i].Type = t /\ g.P[j].Type = t /\ s.P[j].Type = t /\ t \in SlotTypes
    BY <1>4, <1>9 DEF SameParticle, HasSlot
  <2>2. CASE t \in types
    <3>1. w[t][g.P[i].PI].ReverseLink = i /\ w[t][g.P[j].PI].ReverseLink = j
      BY <1>4, <2>1, <2>2
    <3>. QED BY <1>9, <3>1
  <2>3. CASE t \notin types
    <3>1. s.P[i].PI = s.P[j].PI
      BY <1>4, <1>9, <2>1, <2>3
    <3>. QED BY <2>1, <3>1 DEF SlotsMatch, HasSlot
  <2>. QED BY <2>2, <2>3
<1>10. SlotsMatch(g)
  BY <1>4, <1>7, <1>8, <1>9 DEF SlotsMatch
<1>11. OrphansMarked(g)
  <2>. SUFFICES ASSUME NEW t \in SlotTypes, NEW k \in 1..Size(g, t), Owners(g, t, k) = {}
                PROVE  IsSlotGarbage(g.slot[t][k])
    <3>1. \A t \in SlotTypes : \A k \in 1..Size(g, t) : Owners(g, t, k) \cap LiveIndices(g) = Owners(g, t, k)
      BY <1>7 DEF Owners
    <3>. QED BY <3>1 DEF OrphansMarked
  <2>1. CASE t \in types
    <3>1. LinkedRight(s, t, w[t]) /\ k \in 1..Len(w[t])
      BY <1>5, <2>1
    <3>2. PICK i \in 1..NumPart(s) : s.P[i].Type = t /\ w[t][k].ReverseLink = i
      BY <3>1 DEF LinkedRight
    <3>3. g.P[i].PI \in 1..Len(w[t]) /\ w[t][g.P[i].PI].ReverseLink = i /\ g.P[i].Type = t
      BY <1>4, <2>1, <3>2 DEF SameParticle
    <3>4. g.P[i].PI = k
      <4>. DEFINE x == w[t]
                  n == g.P[i].PI
      <4>1. LinkedRight(s, t, x) /\ k \in 1..Len(x) /\ n \in 1..Len(x)
            /\ x[k].ReverseLink = x[n].ReverseLink
        BY <3>1, <3>2, <3>3
      <4>. HIDE DEF x, n
      <4>2. n = k
        BY <4>1 DEF LinkedRight
      <4>. QED BY <4>2 DEF n
    <3>. QED BY <1>4, <3>3, <3>4 DEF Owners
  <2>2. CASE t \notin types
    <3>1. k \in 1..Size(s, t) /\ g.slot[t] = m.slot[t]
      BY <1>4, <1>6, <2>2 DEF m
    <3>2. Owners(s, t, k) = {}
      <4>1. \A i \in Owners(s, t, k) : i \in 1..NumPart(s) /\ g.P[i] = s.P[i]
        BY <1>4, <2>2 DEF Owners
      <4>. QED BY <1>4, <4>1 DEF Owners
    <3>. QED BY <1>1, <3>1, <3>2
  <2>. QED BY <2>1, <2>2
<1>12. \A i \in 1..NumPart(s) : SameParticle(g.P[i], s.P[i])
  BY <1>4
<1>. QED BY <1>4, <1>6, <1>7, <1>10, <1>11, <1>12 DEF g, m

\* slots_gc_slots.
LEMMA GCSlotsKeeps ==
  ASSUME NEW s \in Store, SlotsMatch(s), OrphansMarked(s),
         LiveIndices(s) = 1..NumPart(s), NumPart(s) <= MaxPart,
         NEW types \in SUBSET SlotTypes
  PROVE  LET g == GCSlots(s, types) IN
         /\ g \in Store
         /\ NumPart(g) = NumPart(s) /\ LiveIndices(g) = 1..NumPart(g)
         /\ \A i \in 1..NumPart(s) : SameParticle(g.P[i], s.P[i])
         /\ \A t \in SlotTypes : Size(g, t) <= Size(s, t)
         /\ g.maxsize = s.maxsize
         /\ SlotsMatch(g) /\ OrphansMarked(g)
<1>. DEFINE g == GCSlots(s, types)
            m == GCMark(s)
            w == [t \in SlotTypes |-> IF t \in types THEN Swept(m.slot[t]) ELSE m.slot[t]]
<1>1. CASE types = {}
  <2>1. g = s
    BY <1>1 DEF GCSlots
  <2>2. \A t \in SlotTypes : Size(s, t) \in Nat
    BY StoreParts
  <2>. HIDE DEF g
  <2>. QED BY <2>1, <2>2 DEF SameParticle, g
<1>2. CASE types # {}
  <2>1. types \cap SlotTypes = types
    OBVIOUS
  <2>2. g = GCCollect([m EXCEPT !.slot = w], types)
    BY <1>2, <2>1, Zenon DEF GCSlots
  <2>3. \A t \in types : LinkedRight(s, t, w[t])
    <3>. SUFFICES ASSUME NEW t \in types PROVE LinkedRight(s, t, Swept(m.slot[t]))
      OBVIOUS
    <3>. QED BY SweptSlots
  <2>4. \A t \in SlotTypes \ types : w[t] = GCMark(s).slot[t]
    OBVIOUS
  <2>5. w \in [SlotTypes -> Seq(SlotData)]
    <3>1. \A t \in types : Swept(m.slot[t]) \in Seq(SlotData)
      BY <2>3 DEF LinkedRight
    <3>2. \A t \in SlotTypes : m.slot[t] \in Seq(SlotData)
      BY MarkedSlots
    <3>. QED BY <3>1, <3>2
  <2>. HIDE DEF w
  <2>. DEFINE c == GCCollect([m EXCEPT !.slot = w], types)
  <2>6. /\ c \in Store
        /\ NumPart(c) = NumPart(s) /\ LiveIndices(c) = 1..NumPart(c)
        /\ \A i \in 1..NumPart(s) : SameParticle(c.P[i], s.P[i])
        /\ \A t \in SlotTypes : Size(c, t) <= Size(s, t)
        /\ c.maxsize = s.maxsize
        /\ SlotsMatch(c) /\ OrphansMarked(c)
    BY <2>3, <2>4, <2>5, CollectKeeps
  <2>7. g = c
    BY <2>2
  <2>. HIDE DEF c, g
  <2>. QED BY <2>6, <2>7 DEF g
<1>. QED BY <1>1, <1>2

\* A garbage collection.
LEMMA GCKeeps ==
  ASSUME NEW s \in Store, SlotsMatch(s), OrphansMarked(s), NumPart(s) <= MaxPart,
         NEW types \in SUBSET SlotTypes
  PROVE  LET g == GC(s, types)
             L == LiveIndices(s) IN
         /\ g \in Store
         /\ NumPart(g) = Cardinality(L) /\ NumPart(g) <= NumPart(s)
         /\ LiveIndices(g) = 1..NumPart(g)
         /\ \A k \in 1..NumPart(g) : InOrder(L)[k] \in L /\ SameParticle(g.P[k], s.P[InOrder(L)[k]])
         /\ \A i \in L : \E k \in 1..NumPart(g) : InOrder(L)[k] = i
         /\ \A j, k \in 1..NumPart(g) : InOrder(L)[j] = InOrder(L)[k] => j = k
         /\ \A t \in SlotTypes : Size(g, t) <= Size(s, t)
         /\ g.maxsize = s.maxsize
         /\ SlotsMatch(g) /\ OrphansMarked(g)
<1>. DEFINE b == GCBase(s)
            L == LiveIndices(s)
            g == GCSlots(b, types)
<1>1. /\ b \in Store
      /\ NumPart(b) = Cardinality(L) /\ NumPart(b) <= NumPart(s)
      /\ LiveIndices(b) = 1..NumPart(b)
      /\ \A k \in 1..NumPart(b) : InOrder(L)[k] \in L /\ b.P[k] = s.P[InOrder(L)[k]]
      /\ \A i \in L : \E k \in 1..NumPart(b) : InOrder(L)[k] = i
      /\ \A j, k \in 1..NumPart(b) : InOrder(L)[j] = InOrder(L)[k] => j = k
      /\ \A t \in SlotTypes : Size(b, t) = Size(s, t)
      /\ b.maxsize = s.maxsize
      /\ SlotsMatch(b) /\ OrphansMarked(b)
  BY GCBaseKeeps
<1>2. GC(s, types) = g
  BY DEF GC
<1>. HIDE DEF b, L
<1>3. NumPart(b) <= MaxPart
  <2>1. NumPart(b) \in Nat /\ NumPart(s) \in Nat
    BY <1>1, StoreParts
  <2>. QED BY <1>1, <2>1, ConstantTypes
<1>4. /\ g \in Store
      /\ NumPart(g) = NumPart(b) /\ LiveIndices(g) = 1..NumPart(g)
      /\ \A i \in 1..NumPart(b) : SameParticle(g.P[i], b.P[i])
      /\ \A t \in SlotTypes : Size(g, t) <= Size(b, t)
      /\ g.maxsize = b.maxsize
      /\ SlotsMatch(g) /\ OrphansMarked(g)
  BY <1>1, <1>3, GCSlotsKeeps
<1>. HIDE DEF g
<1>. QED BY <1>1, <1>2, <1>4 DEF L

\* More memory for slots, and nothing else.
LEMMA ReserveKeeps ==
  ASSUME NEW s \in Store, NEW atleast \in [SlotTypes -> Nat]
  PROVE  LET g == Reserve(s, atleast) IN
         /\ g \in Store /\ g.P = s.P /\ g.slot = s.slot
         /\ NumPart(g) = NumPart(s) /\ LiveIndices(g) = LiveIndices(s)
         /\ \A t \in SlotTypes : /\ Size(g, t) = Size(s, t)
                                 /\ atleast[t] <= g.maxsize[t] /\ s.maxsize[t] <= g.maxsize[t]
         /\ (SlotsMatch(s) => SlotsMatch(g)) /\ (OrphansMarked(s) => OrphansMarked(g))
<1>. DEFINE g == Reserve(s, atleast)
            m == [t \in SlotTypes |->
                    IF s.maxsize[t] <= atleast[t] + Increase \div 2 THEN atleast[t] + Increase
                                                                    ELSE s.maxsize[t]]
<1>0. /\ s.P \in Seq(Particle) /\ s.slot \in [SlotTypes -> Seq(SlotData)]
      /\ s.maxsize \in [SlotTypes -> Nat] /\ Increase \in Nat
      /\ Increase \div 2 \in Nat /\ Increase \div 2 <= Increase
  <2>1. Increase \in Nat
    BY StoreAssumption
  <2>2. Increase \div 2 \in Nat /\ Increase \div 2 <= Increase
    BY <2>1
  <2>. QED BY <2>1, <2>2, StoreParts
<1>1. \A t \in SlotTypes : m[t] \in Nat /\ atleast[t] <= m[t] /\ s.maxsize[t] <= m[t]
  BY <1>0
<1>2. m \in [SlotTypes -> Nat]
  BY <1>1
<1>3. g = [P |-> s.P, slot |-> s.slot, maxsize |-> m]
  <2>1. g = [s EXCEPT !.maxsize = m]
    BY Zenon DEF Reserve
  <2>. HIDE DEF g, m
  <2>. QED BY <2>1, StoreExcept
<1>. HIDE DEF g, m
<1>4. g \in Store /\ g.P = s.P /\ g.slot = s.slot /\ g.maxsize = m
  BY <1>0, <1>2, <1>3 DEF Store
<1>5. /\ NumPart(g) = NumPart(s) /\ LiveIndices(g) = LiveIndices(s)
      /\ \A t : Size(g, t) = Size(s, t)
      /\ \A t, k : Owners(g, t, k) = Owners(s, t, k)
      /\ \A i : OwnsSlot(g, i) = OwnsSlot(s, i)
  BY <1>4 DEF NumPart, LiveIndices, Size, Owners, OwnsSlot
<1>6. (SlotsMatch(s) => SlotsMatch(g)) /\ (OrphansMarked(s) => OrphansMarked(g))
  BY <1>4, <1>5 DEF SlotsMatch, OrphansMarked
<1>. QED BY <1>1, <1>4, <1>5, <1>6 DEF g

\* A one-to-one correspondence counts.
LEMMA SameCount ==
  ASSUME NEW A, NEW B, NEW f \in Bijection(A, B), IsFiniteSet(B),
         NEW C \in SUBSET A, NEW D \in SUBSET B, \A a \in A : a \in C <=> f[a] \in D
  PROVE  Cardinality(C) = Cardinality(D) /\ IsFiniteSet(C) /\ Cardinality(C) \in Nat
<1>. DEFINE g == [a \in C |-> f[a]]
<1>1. /\ f \in [A -> B] /\ (\A a, b \in A : f[a] = f[b] => a = b)
      /\ \A b \in B : \E a \in A : f[a] = b
  BY DEF Bijection, Injection, IsInjective, Surjection
<1>2. g \in [C -> D] /\ (\A a, b \in C : g[a] = g[b] => a = b) /\ \A b \in D : \E a \in C : g[a] = b
  BY <1>1
<1>. HIDE DEF g
<1>3. g \in Injection(C, D) /\ g \in Surjection(C, D)
  BY <1>2 DEF Injection, IsInjective, Surjection
<1>4. IsFiniteSet(D)
  BY FS_Subset
<1>. QED BY <1>3, <1>4, FS_Injection, FS_CardinalityType

----------------------------------------------------------------------------
(* Sorting, converting and splitting.                                      *)

\* A set of numbers up to N that has every smaller one with each is an interval.
LEMMA InitialSegment ==
  ASSUME NEW N \in Nat, NEW D \in SUBSET (1..N),
         \A a, b \in 1..N : a < b /\ b \in D => a \in D
  PROVE  D = 1..Cardinality(D) /\ Cardinality(D) \in Nat
<1>1. CASE D = 1..N
  <2>1. Cardinality(D) = N
    BY <1>1, FS_Interval, SMTT(30)
  <2>. QED BY <1>1, <2>1
<1>2. CASE D # 1..N
  <2>. DEFINE T == (1..N) \ D
  <2>1. T \subseteq Nat /\ T # {}
    <3>1. ASSUME \A i \in 1..N : i \in D PROVE FALSE
      BY <1>2, <3>1
    <3>2. PICK i \in 1..N : i \notin D
      BY <3>1
    <3>3. i \in T
      BY <3>2
    <3>4. T \subseteq Nat
      OBVIOUS
    <3>. QED BY <3>3, <3>4
  <2>2. PICK n \in T : \A m \in T : n <= m
    BY <2>1, LeastNat
  <2>3. n \in 1..N /\ n \notin D
    OBVIOUS
  <2>4. \A i \in 1..N : i < n => i \in D
    BY <2>2, <2>3
  <2>5. \A i \in D : i < n
    BY <2>3
  <2>6. D = 1..(n-1)
    <3>1. \A i \in D : i \in 1..(n-1)
      BY <2>3, <2>5
    <3>2. \A i \in 1..(n-1) : i \in D
      BY <2>3, <2>4
    <3>. QED BY <3>1, <3>2
  <2>7. Cardinality(D) = n - 1
    BY <2>3, <2>6, FS_Interval, SMTT(30)
  <2>. QED BY <2>3, <2>6, <2>7
<1>. QED BY <1>1, <1>2

\* In an order by type the particles that are not garbage come first.
LEMMA LiveComeFirst ==
  ASSUME NEW s \in Store, NEW order \in SetToSeqs(1..NumPart(s)), IsTypeOrder(s, order)
  PROVE  LET n == Cardinality(LiveIndices(s)) IN
         /\ n \in Nat /\ n <= NumPart(s)
         /\ [k \in 1..n |-> order[k]] \in Bijection(1..n, LiveIndices(s))
<1>. DEFINE N == NumPart(s)
            L == LiveIndices(s)
            D == {k \in 1..N : order[k] \in L}
            n == Cardinality(L)
            f == [k \in 1..n |-> order[k]]
<1>1. /\ N \in Nat /\ L \in SUBSET (1..N)
      /\ \A i \in 1..N : s.P[i] \in Particle
  BY StoreParts
<1>2. IsFiniteSet(1..N) /\ Cardinality(1..N) = N
  BY <1>1, FS_Interval, SMTT(30)
<1>3. order \in [1..N -> 1..N] /\ (\A i, j \in 1..N : i # j => order[i] # order[j])
  <2>. HIDE DEF N
  <2>. QED BY <1>2, Zenon DEF SetToSeqs, N
<1>4. order \in Injection(1..N, 1..N)
  BY <1>3 DEF Injection, IsInjective
<1>5. order \in Bijection(1..N, 1..N)
  <2>1. order \in Surjection(1..N, 1..N)
    <3>. HIDE DEF N
    <3>. QED BY <1>2, <1>4, FS_Injection
  <2>. QED BY <1>4, <2>1 DEF Bijection
<1>6. ASSUME NEW i \in 1..N
      PROVE  i \in L <=> TypeKey(s.P[i]) <= 5
  <2>1. s.P[i].Type \in 0..5 /\ s.P[i].IsGarbage \in BOOLEAN
    BY <1>1 DEF Particle, PartTypes
  <2>2. i \in L <=> ~s.P[i].IsGarbage
    BY DEF LiveIndices
  <2>3. CASE s.P[i].IsGarbage
    <3>1. TypeKey(s.P[i]) = 255
      BY <2>3 DEF TypeKey
    <3>. QED BY <2>2, <2>3, <3>1
  <2>4. CASE ~s.P[i].IsGarbage
    <3>1. TypeKey(s.P[i]) = s.P[i].Type
      BY <2>4 DEF TypeKey
    <3>. QED BY <2>1, <2>2, <2>4, <3>1
  <2>. QED BY <2>3, <2>4
<1>7. \A i \in 1..N : TypeKey(s.P[i]) \in Nat
  <2>. SUFFICES ASSUME NEW i \in 1..N PROVE TypeKey(s.P[i]) \in Nat
    OBVIOUS
  <2>1. s.P[i].Type \in 0..5 /\ s.P[i].IsGarbage \in BOOLEAN
    BY <1>1 DEF Particle, PartTypes
  <2>. QED BY <2>1 DEF TypeKey
<1>8. ASSUME NEW a \in 1..N, NEW b \in 1..N, a < b, b \in D PROVE a \in D
  <2>1. TypeKey(s.P[order[a]]) <= TypeKey(s.P[order[b]])
    BY <1>8 DEF IsTypeOrder
  <2>2. order[a] \in 1..N /\ order[b] \in 1..N /\ order[b] \in L
    BY <1>3, <1>8
  <2>. HIDE DEF D, L
  <2>3. TypeKey(s.P[order[b]]) <= 5 /\ TypeKey(s.P[order[a]]) \in Nat /\ TypeKey(s.P[order[b]]) \in Nat
    BY <1>6, <1>7, <2>2
  <2>4. order[a] \in L
    BY <1>6, <2>1, <2>2, <2>3
  <2>. QED BY <2>4 DEF D
<1>9. D = 1..Cardinality(D)
  <2>1. D \in SUBSET (1..N)
    OBVIOUS
  <2>. HIDE DEF D, N
  <2>. QED BY <1>1, <1>8, <2>1, InitialSegment
<1>10. Cardinality(D) = n /\ n \in Nat
  <2>1. D \in SUBSET (1..N) /\ \A k \in 1..N : k \in D <=> order[k] \in L
    OBVIOUS
  <2>. DEFINE g == [k \in D |-> order[k]]
  <2>2. \A i \in L : \E k \in D : order[k] = i
    <3>. SUFFICES ASSUME NEW i \in L PROVE \E k \in D : order[k] = i
      OBVIOUS
    <3>1. i \in 1..N
      BY <1>1
    <3>2. PICK k \in 1..N : order[k] = i
      BY <1>5, <3>1 DEF Bijection, Surjection
    <3>. QED BY <3>2
  <2>. HIDE DEF D, N, L
  <2>3. g \in [D -> L] /\ (\A j, k \in D : g[j] = g[k] => j = k) /\ \A i \in L : \E k \in D : g[k] = i
    BY <1>3, <2>1, <2>2
  <2>. HIDE DEF g
  <2>4. g \in Injection(D, L) /\ g \in Surjection(D, L)
    BY <2>3 DEF Injection, IsInjective, Surjection
  <2>5. IsFiniteSet(L)
    BY <1>1, <1>2, FS_Subset
  <2>6. Cardinality(D) = Cardinality(L)
    BY <2>4, <2>5, FS_Injection
  <2>7. Cardinality(L) \in Nat
    BY <2>5, FS_CardinalityType
  <2>. QED BY <2>6, <2>7 DEF n
<1>11. D = 1..n
  BY <1>9, <1>10
<1>12. n <= N
  BY <1>1, <1>2, <1>10, FS_Subset
<1>13. ASSUME NEW i \in L PROVE \E k \in 1..n : order[k] = i
  <2>1. i \in 1..N
    BY <1>1
  <2>2. PICK k \in 1..N : order[k] = i
    BY <1>5, <2>1 DEF Bijection, Surjection
  <2>3. k \in D
    BY <2>2
  <2>. QED BY <1>11, <2>2, <2>3
<1>14. \A k \in 1..n : order[k] \in L /\ k \in 1..N
  BY <1>11
<1>15. \A j, k \in 1..n : order[j] = order[k] => j = k
  BY <1>3, <1>14
<1>. HIDE DEF n, L, D, N
<1>16. f \in [1..n -> L] /\ (\A j, k \in 1..n : f[j] = f[k] => j = k) /\ \A i \in L : \E k \in 1..n : f[k] = i
  BY <1>13, <1>14, <1>15
<1>17. f \in Bijection(1..n, L)
  <2>. HIDE DEF f
  <2>. QED BY <1>16 DEF Bijection, Injection, IsInjective, Surjection
<1>. QED BY <1>10, <1>12, <1>17 DEF f, n, L, N

\* The store g has the particles of s that are not garbage, each with its slot.
Tidied(g, s) ==
  /\ g \in Store
  /\ NumPart(g) = Cardinality(LiveIndices(s)) /\ NumPart(g) <= NumPart(s)
  /\ LiveIndices(g) = 1..NumPart(g)
  /\ \E f \in Bijection(1..NumPart(g), LiveIndices(s)) :
       \A k \in 1..NumPart(g) : SameParticle(g.P[k], s.P[f[k]])
  /\ \A t \in SlotTypes : Size(g, t) <= Size(s, t)
  /\ g.maxsize = s.maxsize
  /\ SlotsMatch(g) /\ OrphansMarked(g)

\* slots_gc tidies the tables.
LEMMA GCTidies ==
  ASSUME NEW s \in Store, SlotsMatch(s), OrphansMarked(s), NumPart(s) <= MaxPart,
         NEW types \in SUBSET SlotTypes
  PROVE  Tidied(GC(s, types), s)
<1>. DEFINE g == GC(s, types)
            L == LiveIndices(s)
            h == InOrder(L)
            f == [k \in 1..NumPart(g) |-> h[k]]
<1>1. /\ g \in Store
      /\ NumPart(g) = Cardinality(L) /\ NumPart(g) <= NumPart(s)
      /\ LiveIndices(g) = 1..NumPart(g)
      /\ \A k \in 1..NumPart(g) : h[k] \in L /\ SameParticle(g.P[k], s.P[h[k]])
      /\ \A i \in L : \E k \in 1..NumPart(g) : h[k] = i
      /\ \A j, k \in 1..NumPart(g) : h[j] = h[k] => j = k
      /\ \A t \in SlotTypes : Size(g, t) <= Size(s, t)
      /\ g.maxsize = s.maxsize
      /\ SlotsMatch(g) /\ OrphansMarked(g)
  BY GCKeeps
<1>. HIDE DEF g, L, h
<1>2. f \in [1..NumPart(g) -> L] /\ \A k \in 1..NumPart(g) : f[k] = h[k]
  BY <1>1
<1>. HIDE DEF f
<1>3. f \in Bijection(1..NumPart(g), L)
  BY <1>1, <1>2 DEF Bijection, Injection, IsInjective, Surjection
<1>4. \A k \in 1..NumPart(g) : SameParticle(g.P[k], s.P[f[k]])
  BY <1>1, <1>2
<1>5. Tidied(g, s)
  BY <1>1, <1>3, <1>4 DEF Tidied, L
<1>. QED BY <1>5 DEF g

\* slots_gc_sorted tidies the tables.
LEMMA SortTidies ==
  ASSUME NEW s \in Store, SlotsMatch(s), OrphansMarked(s), NumPart(s) <= MaxPart,
         NEW order \in SetToSeqs(1..NumPart(s)), IsTypeOrder(s, order)
  PROVE  Tidied(GCSorted(s, order), s)
<1>. DEFINE n == Cardinality(LiveIndices(s))
            f == [k \in 1..n |-> order[k]]
            b == [s EXCEPT !.P = [k \in 1..n |-> s.P[f[k]]]]
            m == GCMark(b)
            w == [t \in SlotTypes |-> InParticleOrder(m.slot[t])]
            g == GCCollect([m EXCEPT !.slot = w], SlotTypes)
<1>1. n \in Nat /\ n <= NumPart(s) /\ f \in Bijection(1..n, LiveIndices(s)) /\ NumPart(s) \in Nat
  BY LiveComeFirst, StoreParts
<1>2. GCSorted(s, order) = g
  <2>1. [k \in 1..n |-> s.P[order[k]]] = [k \in 1..n |-> s.P[f[k]]]
    OBVIOUS
  <2>2. GCSorted(s, order)
        = GCCollect([GCMark([s EXCEPT !.P = [k \in 1..n |-> s.P[order[k]]]]) EXCEPT !.slot =
            [t \in SlotTypes |->
              InParticleOrder(GCMark([s EXCEPT !.P = [k \in 1..n |-> s.P[order[k]]]]).slot[t])]],
            SlotTypes)
    <3>. DEFINE c == [s EXCEPT !.P = [k \in 1..n |-> s.P[order[k]]]]
    <3>1. GCSorted(s, order)
          = GCCollect([GCMark(c) EXCEPT !.slot = [t \in SlotTypes |-> InParticleOrder(@[t])]], SlotTypes)
      BY Zenon DEF GCSorted
    <3>. HIDE DEF c
    <3>2. [GCMark(c) EXCEPT !.slot = [t \in SlotTypes |-> InParticleOrder(@[t])]]
          = [GCMark(c) EXCEPT !.slot = [t \in SlotTypes |-> InParticleOrder(GCMark(c).slot[t])]]
      OBVIOUS
    <3>. QED BY <3>1, <3>2 DEF c
  <2>. HIDE DEF f, n
  <2>. QED BY <2>1, <2>2
<1>. HIDE DEF f, n
<1>3. /\ b \in Store
      /\ NumPart(b) = n /\ LiveIndices(b) = 1..n
      /\ \A k \in 1..n : f[k] \in LiveIndices(s) /\ b.P[k] = s.P[f[k]]
      /\ \A t \in SlotTypes : Size(b, t) = Size(s, t)
      /\ b.maxsize = s.maxsize
      /\ SlotsMatch(b) /\ OrphansMarked(b)
  BY <1>1, TableKeeps
<1>. HIDE DEF b
<1>4. LiveIndices(b) = 1..NumPart(b) /\ NumPart(b) <= MaxPart
  BY <1>1, <1>3, ConstantTypes
<1>5. \A t \in SlotTypes : LinkedRight(b, t, w[t])
  <2>. SUFFICES ASSUME NEW t \in SlotTypes PROVE LinkedRight(b, t, InParticleOrder(m.slot[t]))
    OBVIOUS
  <2>. QED BY <1>3, <1>4, OrderedSlots
<1>6. w \in [SlotTypes -> Seq(SlotData)]
  <2>1. \A t \in SlotTypes : w[t] \in Seq(SlotData)
    <3>. HIDE DEF w
    <3>. QED BY <1>5 DEF LinkedRight
  <2>. QED BY <2>1
<1>7. /\ g \in Store
      /\ NumPart(g) = NumPart(b) /\ LiveIndices(g) = 1..NumPart(g)
      /\ \A i \in 1..NumPart(b) : SameParticle(g.P[i], b.P[i])
      /\ \A t \in SlotTypes : Size(g, t) <= Size(b, t)
      /\ g.maxsize = b.maxsize
      /\ SlotsMatch(g) /\ OrphansMarked(g)
  <2>. HIDE DEF w
  <2>. QED BY <1>3, <1>4, <1>5, <1>6, CollectKeeps
<1>. HIDE DEF g
<1>8. \A k \in 1..NumPart(g) : SameParticle(g.P[k], s.P[f[k]])
  BY <1>3, <1>7
<1>9. Tidied(g, s)
  BY <1>1, <1>3, <1>7, <1>8 DEF Tidied, n
<1>. QED BY <1>2, <1>9

\* The particles in S have their slots: SlotsMatch while some others have none.
MatchIn(s, S) ==
  /\ \A i \in S : OwnsSlot(s, i)
  /\ \A i, j \in S :
       /\ HasSlot(s.P[i])
       /\ s.P[i].Type = s.P[j].Type
       /\ s.P[i].PI = s.P[j].PI
       => i = j

\* SlotsMatch is MatchIn of all particles that are not garbage.
LEMMA MatchAll ==
  ASSUME NEW s
  PROVE  SlotsMatch(s) <=> MatchIn(s, LiveIndices(s))
BY DEF SlotsMatch, MatchIn

\* The particles and the slots after a conversion of the particles of a queue.
ConvertedPart(s, queue, t, c) ==
  /\ \A i \in 1..NumPart(s) :
       /\ c.P[i].ID = s.P[i].ID /\ c.P[i].IsGarbage = s.P[i].IsGarbage
       /\ c.P[i].Generation = s.P[i].Generation
       /\ i \notin ToSet(queue) => c.P[i] = s.P[i]
  /\ \A n \in 1..Len(queue) : c.P[queue[n]].Type = t /\ c.P[queue[n]].PI = Size(s, t) + n

ConvertedSlots(s, queue, t, c) ==
  /\ \A u \in SlotTypes : \A k \in 1..Size(s, u) :
       /\ c.slot[u][k].ID = s.slot[u][k].ID
       /\ Owners(s, u, k) \cap ToSet(queue) = {} => c.slot[u][k] = s.slot[u][k]
       /\ Owners(s, u, k) \cap ToSet(queue) # {} => IsSlotGarbage(c.slot[u][k])
  /\ \A n \in 1..Len(queue) : c.slot[t][Size(s, t) + n].ID = s.P[queue[n]].ID

\* The elements of two sequences, one behind the other.
Joined(a, b, c, S) ==
  /\ c \in Seq(S) /\ Len(c) = Len(a) + Len(b)
  /\ \A i \in 1..Len(a) : c[i] = a[i]
  /\ \A k \in 1..Len(b) : c[Len(a) + k] = b[k]

\* Where the elements of two tables are when one is put behind the other.
LEMMA ConcatAt ==
  ASSUME NEW S, NEW a \in Seq(S), NEW b \in Seq(S)
  PROVE  Joined(a, b, a \o b, S)
<1>1. Len(a) \in Nat /\ Len(b) \in Nat
  OBVIOUS
<1>2. /\ a \o b \in Seq(S) /\ Len(a \o b) = Len(a) + Len(b)
      /\ \A i \in 1..(Len(a) + Len(b)) :
           (a \o b)[i] = IF i <= Len(a) THEN a[i] ELSE b[i - Len(a)]
  BY ConcatProperties
<1>3. ASSUME NEW k \in 1..Len(b)
      PROVE  /\ Len(a) + k \in 1..(Len(a) + Len(b)) /\ ~(Len(a) + k <= Len(a))
             /\ Len(a) + k - Len(a) = k
  BY <1>1
<1>4. \A i \in 1..Len(a) : i \in 1..(Len(a) + Len(b)) /\ i <= Len(a)
  BY <1>1
<1>. QED BY <1>2, <1>3, <1>4 DEF Joined

\* What slots_convert does to the tables.
LEMMA ConvertDoes ==
  ASSUME NEW s \in Store, NEW t \in SlotTypes,
         NEW queue \in Seq(1..NumPart(s)), \A m, n \in 1..Len(queue) : queue[m] = queue[n] => m = n
  PROVE  LET c == Convert(s, queue, t) IN
         /\ c \in Store /\ NumPart(c) = NumPart(s) /\ c.maxsize = s.maxsize
         /\ \A u \in SlotTypes : Size(c, u) = Size(s, u) + (IF u = t THEN Len(queue) ELSE 0)
         /\ ConvertedPart(s, queue, t, c) /\ ConvertedSlots(s, queue, t, c)
<1>. DEFINE c == Convert(s, queue, t)
            freed == ToSet(queue)
            place(i) == Size(s, t) + (CHOOSE n \in DOMAIN queue : queue[n] = i)
            np == [i \in 1..NumPart(s) |->
                     IF i \notin freed THEN s.P[i]
                     ELSE [s.P[i] EXCEPT !.Type = t, !.PI = IF t \in SlotTypes THEN place(i) ELSE @]]
            old(u) == [k \in 1..Size(s, u) |->
                         IF Owners(s, u, k) \cap freed = {} THEN s.slot[u][k]
                         ELSE [s.slot[u][k] EXCEPT !.ReverseLink = Garbage]]
            new == NewSlots(s, queue)
            ns == [u \in SlotTypes |-> old(u) \o (IF u = t THEN new ELSE <<>>)]
<1>1. /\ NumPart(s) \in Nat /\ s.maxsize \in [SlotTypes -> Nat]
      /\ \A i \in 1..NumPart(s) : s.P[i] \in Particle
      /\ \A u \in SlotTypes : Size(s, u) \in Nat /\ \A k \in 1..Size(s, u) : s.slot[u][k] \in SlotData
  BY StoreParts
<1>2. c = [s EXCEPT !.P = np, !.slot = ns]
  BY Zenon DEF Convert
<1>3. c = [P |-> np, slot |-> ns, maxsize |-> s.maxsize]
  <2>. HIDE DEF np, ns, c
  <2>. QED BY <1>2, StoreExcept
<1>4. /\ Len(queue) \in Nat /\ DOMAIN queue = 1..Len(queue)
      /\ \A n \in 1..Len(queue) : queue[n] \in 1..NumPart(s) /\ queue[n] \in freed
      /\ \A i \in freed : \E n \in 1..Len(queue) : queue[n] = i
      /\ t \in PartTypes
  <2>1. Len(queue) \in Nat /\ DOMAIN queue = 1..Len(queue) /\ t \in PartTypes
    BY ConstantTypes
  <2>2. \A n \in 1..Len(queue) : queue[n] \in 1..NumPart(s)
    BY ElementOfSeq, Zenon
  <2>3. \A n \in 1..Len(queue) : queue[n] \in freed
    BY <2>1 DEF ToSet
  <2>4. \A i \in freed : \E n \in 1..Len(queue) : queue[n] = i
    BY <2>1 DEF ToSet
  <2>. QED BY <2>1, <2>2, <2>3, <2>4
<1>5. \A n \in 1..Len(queue) : place(queue[n]) = Size(s, t) + n /\ place(queue[n]) \in Nat
  <2>. SUFFICES ASSUME NEW n \in 1..Len(queue)
                PROVE  place(queue[n]) = Size(s, t) + n /\ place(queue[n]) \in Nat
    OBVIOUS
  <2>1. (CHOOSE m \in DOMAIN queue : queue[m] = queue[n]) = n
    BY <1>4
  <2>2. place(queue[n]) = Size(s, t) + n
    BY <2>1
  <2>3. Size(s, t) \in Nat /\ n \in Nat
    BY <1>1
  <2>. HIDE DEF place
  <2>. QED BY <2>2, <2>3
<1>. HIDE DEF freed, place
<1>6. \A i \in 1..NumPart(s) : i \notin freed => np[i] = s.P[i]
  OBVIOUS
<1>7. ASSUME NEW n \in 1..Len(queue)
      PROVE  LET i == queue[n] IN
             /\ np[i] \in Particle /\ np[i].Type = t /\ np[i].PI = Size(s, t) + n
             /\ np[i].ID = s.P[i].ID /\ np[i].IsGarbage = s.P[i].IsGarbage
             /\ np[i].Generation = s.P[i].Generation
  <2>. DEFINE i == queue[n]
              k == Size(s, t) + n
  <2>1. np[i] = [s.P[i] EXCEPT !.Type = t, !.PI = k]
    BY <1>4, <1>5
  <2>2. s.P[i] \in Particle /\ k \in Nat
    BY <1>1, <1>4
  <2>. DEFINE p == s.P[i]
              q == [p EXCEPT !.Type = t, !.PI = k]
  <2>3. np[i] = q /\ p \in Particle /\ k \in Nat /\ t \in PartTypes
    BY <1>4, <2>1, <2>2
  <2>. HIDE DEF k, i, np, p
  <2>4. /\ q \in Particle /\ q.Type = t /\ q.PI = k
        /\ q.ID = p.ID /\ q.IsGarbage = p.IsGarbage /\ q.Generation = p.Generation
    BY <2>3 DEF Particle
  <2>. HIDE DEF q
  <2>. QED BY <2>3, <2>4 DEF k, i, p
<1>8. ASSUME NEW i \in 1..NumPart(s)
      PROVE  /\ np[i] \in Particle
             /\ np[i].ID = s.P[i].ID /\ np[i].IsGarbage = s.P[i].IsGarbage
             /\ np[i].Generation = s.P[i].Generation
  <2>1. CASE i \in freed
    <3>1. PICK n \in 1..Len(queue) : queue[n] = i
      BY <1>4, <2>1
    <3>. HIDE DEF np
    <3>. QED BY <1>7, <3>1
  <2>2. CASE i \notin freed
    <3>1. np[i] = s.P[i]
      BY <2>2
    <3>. HIDE DEF np
    <3>. QED BY <1>1, <3>1
  <2>. QED BY <2>1, <2>2
<1>9. np \in Seq(Particle) /\ Len(np) = NumPart(s)
  <2>1. np \in [1..NumPart(s) -> Particle]
    BY <1>8
  <2>2. NumPart(s) \in Nat
    BY <1>1
  <2>. HIDE DEF np
  <2>. QED BY <2>1, <2>2
<1>10. new \in Seq(SlotData) /\ Len(new) = Len(queue) /\ \A n \in 1..Len(queue) : new[n].ID = s.P[queue[n]].ID
  <2>1. ASSUME NEW n \in 1..Len(queue)
        PROVE  new[n] \in SlotData /\ new[n].ID = s.P[queue[n]].ID
    <3>1. new[n] = [ID |-> s.P[queue[n]].ID, ReverseLink |-> Garbage]
      BY <1>4 DEF NewSlots
    <3>2. s.P[queue[n]].ID \in Nat \X Nat
      <4>1. s.P[queue[n]] \in Particle
        BY <1>1, <1>4
      <4>. QED BY <4>1 DEF Particle
    <3>. HIDE DEF new
    <3>. QED BY <3>1, <3>2, ConstantTypes DEF SlotData
  <2>2. new \in [1..Len(queue) -> SlotData]
    BY <1>4, <2>1 DEF NewSlots
  <2>. HIDE DEF new
  <2>. QED BY <1>4, <2>1, <2>2
<1>11. ASSUME NEW u \in SlotTypes
       PROVE  /\ old(u) \in Seq(SlotData) /\ Len(old(u)) = Size(s, u)
              /\ \A k \in 1..Size(s, u) :
                   /\ old(u)[k].ID = s.slot[u][k].ID
                   /\ Owners(s, u, k) \cap freed = {} => old(u)[k] = s.slot[u][k]
                   /\ Owners(s, u, k) \cap freed # {} => IsSlotGarbage(old(u)[k])
  <2>. DEFINE x == old(u)
  <2>1. ASSUME NEW k \in 1..Size(s, u)
        PROVE  /\ x[k] \in SlotData /\ x[k].ID = s.slot[u][k].ID
               /\ Owners(s, u, k) \cap freed = {} => x[k] = s.slot[u][k]
               /\ Owners(s, u, k) \cap freed # {} => IsSlotGarbage(x[k])
    <3>0. s.slot[u][k] \in SlotData
      BY <1>1
    <3>1. CASE Owners(s, u, k) \cap freed = {}
      BY <3>0, <3>1
    <3>2. CASE Owners(s, u, k) \cap freed # {}
      <4>1. x[k] = [s.slot[u][k] EXCEPT !.ReverseLink = Garbage]
        BY <3>2
      <4>. HIDE DEF x
      <4>2. x[k] \in SlotData /\ x[k].ID = s.slot[u][k].ID /\ x[k].ReverseLink = Garbage
        BY <3>0, <4>1, ConstantTypes, SlotLinked
      <4>. QED BY <3>2, <4>2, ConstantTypes DEF IsSlotGarbage
    <3>. QED BY <3>1, <3>2
  <2>2. x \in [1..Size(s, u) -> SlotData]
    BY <2>1
  <2>. HIDE DEF x
  <2>3. x \in Seq(SlotData) /\ Len(x) = Size(s, u)
    BY <1>1, <2>2
  <2>. QED BY <2>1, <2>3 DEF x
<1>. HIDE DEF old, new
<1>12. ASSUME NEW u \in SlotTypes
       PROVE  /\ ns[u] \in Seq(SlotData)
              /\ Len(ns[u]) = Size(s, u) + (IF u = t THEN Len(queue) ELSE 0)
              /\ \A k \in 1..Size(s, u) : ns[u][k] = old(u)[k]
              /\ u = t => \A n \in 1..Len(queue) : ns[u][Size(s, u) + n] = new[n]
  <2>. DEFINE y == IF u = t THEN new ELSE <<>>
              x == old(u)
  <2>1. ns[u] = x \o y
    OBVIOUS
  <2>2. x \in Seq(SlotData) /\ Len(x) = Size(s, u)
    BY <1>11
  <2>3. y \in Seq(SlotData) /\ Len(y) = (IF u = t THEN Len(queue) ELSE 0)
    BY <1>10
  <2>4. u = t => y = new
    OBVIOUS
  <2>. HIDE DEF x, y, ns
  <2>5. Joined(x, y, ns[u], SlotData)
    BY <2>1, <2>2, <2>3, ConcatAt
  <2>6. /\ ns[u] \in Seq(SlotData) /\ Len(ns[u]) = Len(x) + Len(y)
        /\ \A k \in 1..Len(x) : ns[u][k] = x[k]
    BY <2>5 DEF Joined
  <2>7. \A n \in 1..Len(y) : ns[u][Len(x) + n] = y[n]
    BY <2>5 DEF Joined
  <2>8. u = t => \A n \in 1..Len(queue) : ns[u][Size(s, u) + n] = new[n]
    BY <2>2, <2>3, <2>4, <2>7
  <2>9. Len(ns[u]) = Size(s, u) + (IF u = t THEN Len(queue) ELSE 0)
    BY <2>2, <2>3, <2>6
  <2>. QED BY <2>2, <2>6, <2>8, <2>9 DEF x
<1>13. DOMAIN ns = SlotTypes /\ ns = [u \in SlotTypes |-> ns[u]]
  OBVIOUS
<1>. HIDE DEF c, np, ns
<1>14. c.P = np /\ c.slot = ns /\ c.maxsize = s.maxsize
  BY <1>3
<1>15. c \in Store
  <2>1. ns \in [SlotTypes -> Seq(SlotData)]
    BY <1>12, <1>13
  <2>. QED BY <1>1, <1>3, <1>9, <2>1 DEF Store
<1>16. NumPart(c) = NumPart(s)
  BY <1>9, <1>14 DEF NumPart
<1>17. \A u \in SlotTypes : Size(c, u) = Size(s, u) + (IF u = t THEN Len(queue) ELSE 0)
  BY <1>12, <1>14 DEF Size
<1>18. ConvertedPart(s, queue, t, c)
  <2>1. \A i \in 1..NumPart(s) :
          /\ c.P[i].ID = s.P[i].ID /\ c.P[i].IsGarbage = s.P[i].IsGarbage
          /\ c.P[i].Generation = s.P[i].Generation
          /\ i \notin freed => c.P[i] = s.P[i]
    BY <1>6, <1>8, <1>14
  <2>2. \A n \in 1..Len(queue) : c.P[queue[n]].Type = t /\ c.P[queue[n]].PI = Size(s, t) + n
    BY <1>7, <1>14
  <2>. QED BY <2>1, <2>2 DEF ConvertedPart, freed
<1>19. ConvertedSlots(s, queue, t, c)
  <2>1. ASSUME NEW u \in SlotTypes, NEW k \in 1..Size(s, u)
        PROVE  /\ c.slot[u][k].ID = s.slot[u][k].ID
               /\ Owners(s, u, k) \cap freed = {} => c.slot[u][k] = s.slot[u][k]
               /\ Owners(s, u, k) \cap freed # {} => IsSlotGarbage(c.slot[u][k])
    <3>1. c.slot[u][k] = old(u)[k]
      BY <1>12, <1>14
    <3>. QED BY <1>11, <3>1
  <2>2. ASSUME NEW n \in 1..Len(queue)
        PROVE  c.slot[t][Size(s, t) + n].ID = s.P[queue[n]].ID
    BY <1>10, <1>12, <1>14
  <2>. QED BY <2>1, <2>2 DEF ConvertedSlots, freed
<1>. QED BY <1>14, <1>15, <1>16, <1>17, <1>18, <1>19 DEF c

\* A conversion that reaches every particle without a slot leaves each particle
\* with its own.
LEMMA ConvertKeeps ==
  ASSUME NEW s \in Store, NEW t \in SlotTypes,
         NEW queue \in Seq(LiveIndices(s)), \A m, n \in 1..Len(queue) : queue[m] = queue[n] => m = n,
         NEW X \in SUBSET ToSet(queue), MatchIn(s, LiveIndices(s) \ X), OrphansMarked(s)
  PROVE  LET c == Convert(s, queue, t) IN
         /\ c \in Store /\ NumPart(c) = NumPart(s) /\ c.maxsize = s.maxsize
         /\ LiveIndices(c) = LiveIndices(s)
         /\ \A u \in SlotTypes : Size(c, u) = Size(s, u) + (IF u = t THEN Len(queue) ELSE 0)
         /\ ConvertedPart(s, queue, t, c)
         /\ SlotsMatch(c) /\ OrphansMarked(c)
<1>. DEFINE c == Convert(s, queue, t)
            L == LiveIndices(s)
            Q == ToSet(queue)
<1>1. /\ L \in SUBSET (1..NumPart(s))
      /\ \A u \in SlotTypes : Size(s, u) \in Nat
  BY StoreParts
<1>2. queue \in Seq(1..NumPart(s))
  BY <1>1, SeqMonotonic, Zenon
<1>3. /\ c \in Store /\ NumPart(c) = NumPart(s) /\ c.maxsize = s.maxsize
      /\ \A u \in SlotTypes : Size(c, u) = Size(s, u) + (IF u = t THEN Len(queue) ELSE 0)
      /\ ConvertedPart(s, queue, t, c) /\ ConvertedSlots(s, queue, t, c)
  BY <1>2, ConvertDoes
<1>. HIDE DEF c
<1>4. /\ Len(queue) \in Nat
      /\ \A n \in 1..Len(queue) : queue[n] \in L /\ queue[n] \in Q
      /\ \A i \in Q : i \in L /\ \E n \in 1..Len(queue) : queue[n] = i
  BY DEF ToSet
<1>5. /\ \A i \in 1..NumPart(s) :
           /\ c.P[i].ID = s.P[i].ID /\ c.P[i].IsGarbage = s.P[i].IsGarbage
           /\ i \notin Q => c.P[i] = s.P[i]
      /\ \A n \in 1..Len(queue) : c.P[queue[n]].Type = t /\ c.P[queue[n]].PI = Size(s, t) + n
  BY <1>3 DEF ConvertedPart
<1>6. /\ \A u \in SlotTypes : \A k \in 1..Size(s, u) :
           /\ c.slot[u][k].ID = s.slot[u][k].ID
           /\ Owners(s, u, k) \cap Q = {} => c.slot[u][k] = s.slot[u][k]
           /\ Owners(s, u, k) \cap Q # {} => IsSlotGarbage(c.slot[u][k])
      /\ \A n \in 1..Len(queue) : c.slot[t][Size(s, t) + n].ID = s.P[queue[n]].ID
  BY <1>3 DEF ConvertedSlots
<1>7. LiveIndices(c) = L
  BY <1>3, <1>5 DEF LiveIndices
<1>8. /\ \A i \in L \ Q : OwnsSlot(s, i)
      /\ \A i, j \in L \ Q :
           HasSlot(s.P[i]) /\ s.P[i].Type = s.P[j].Type /\ s.P[i].PI = s.P[j].PI => i = j
  BY DEF MatchIn
<1>. HIDE DEF Q
<1>9. ASSUME NEW i \in L PROVE OwnsSlot(c, i)
  <2>1. CASE i \in Q
    <3>1. PICK n \in 1..Len(queue) : queue[n] = i
      BY <1>4, <2>1
    <3>2. c.P[i].Type = t /\ c.P[i].PI = Size(s, t) + n /\ c.P[i].ID = s.P[i].ID
      BY <1>1, <1>5, <3>1
    <3>3. Size(s, t) + n \in 1..Size(c, t)
      BY <1>1, <1>3, <1>4
    <3>4. c.slot[t][Size(s, t) + n].ID = s.P[i].ID
      BY <1>6, <3>1
    <3>. QED BY <3>2, <3>3, <3>4 DEF OwnsSlot
  <2>2. CASE i \notin Q
    <3>1. c.P[i] = s.P[i] /\ OwnsSlot(s, i)
      BY <1>1, <1>5, <1>8, <2>2
    <3>. SUFFICES ASSUME HasSlot(s.P[i])
                  PROVE  /\ s.P[i].PI \in 1..Size(c, s.P[i].Type)
                         /\ c.slot[s.P[i].Type][s.P[i].PI].ID = s.P[i].ID
      BY <3>1 DEF OwnsSlot
    <3>2. /\ s.P[i].Type \in SlotTypes /\ s.P[i].PI \in 1..Size(s, s.P[i].Type)
          /\ s.slot[s.P[i].Type][s.P[i].PI].ID = s.P[i].ID
      BY <3>1 DEF OwnsSlot, HasSlot
    <3>3. Size(s, s.P[i].Type) \in Nat /\ Size(c, s.P[i].Type) \in Nat /\ Size(s, s.P[i].Type) <= Size(c, s.P[i].Type)
      <4>1. \A u \in SlotTypes : Size(s, u) \in Nat
        BY <1>1
      <4>2. \A u \in SlotTypes : Size(c, u) = Size(s, u) \/ Size(c, u) = Size(s, u) + Len(queue)
        BY <1>3, <1>4, <4>1
      <4>3. Len(queue) \in Nat
        BY <1>4
      <4>. QED BY <3>2, <4>1, <4>2, <4>3
    <3>. DEFINE u == s.P[i].Type
                k == s.P[i].PI
    <3>4. u \in SlotTypes /\ k \in 1..Size(s, u) /\ s.slot[u][k].ID = s.P[i].ID
      BY <3>2
    <3>5. Size(s, u) \in Nat /\ Size(c, u) \in Nat /\ Size(s, u) <= Size(c, u)
      BY <3>3
    <3>. HIDE DEF u, k
    <3>6. c.slot[u][k].ID = s.P[i].ID
      BY <1>6, <3>4
    <3>7. k \in 1..Size(c, u)
      BY <3>4, <3>5
    <3>. QED BY <3>6, <3>7 DEF u, k
  <2>. QED BY <2>1, <2>2
<1>10. ASSUME NEW i \in L, NEW j \in L, HasSlot(c.P[i]), c.P[i].Type = c.P[j].Type, c.P[i].PI = c.P[j].PI
       PROVE  i = j
  <2>1. \A h \in L \cap Q : \E n \in 1..Len(queue) :
          queue[n] = h /\ c.P[h].Type = t /\ c.P[h].PI = Size(s, t) + n
    BY <1>4, <1>5
  <2>2. \A h \in L \ Q : c.P[h] = s.P[h] /\ (HasSlot(s.P[h]) => s.P[h].PI \in 1..Size(s, s.P[h].Type))
    BY <1>1, <1>5, <1>8 DEF OwnsSlot
  <2>3. CASE i \in Q /\ j \in Q
    <3>1. PICK n \in 1..Len(queue) : queue[n] = i /\ c.P[i].PI = Size(s, t) + n
      BY <2>1, <2>3
    <3>2. PICK m \in 1..Len(queue) : queue[m] = j /\ c.P[j].PI = Size(s, t) + m
      BY <2>1, <2>3
    <3>3. m = n
      <4>1. Size(s, t) + n = Size(s, t) + m
        BY <1>10, <3>1, <3>2
      <4>2. Size(s, t) \in Nat /\ m \in Nat /\ n \in Nat
        BY <1>1
      <4>. QED BY <4>1, <4>2
    <3>. QED BY <3>1, <3>2, <3>3
  <2>4. CASE i \notin Q /\ j \notin Q
    BY <1>8, <1>10, <2>2, <2>4
  <2>5. ASSUME NEW a \in L \cap Q, NEW b \in L \ Q, c.P[a].Type = c.P[b].Type, c.P[a].PI = c.P[b].PI
        PROVE  FALSE
    <3>1. PICK n \in 1..Len(queue) : c.P[a].Type = t /\ c.P[a].PI = Size(s, t) + n
      BY <2>1
    <3>2. s.P[b].PI \in 1..Size(s, t)
      <4>1. c.P[b] = s.P[b] /\ s.P[b].Type = t /\ HasSlot(s.P[b])
        BY <2>2, <2>5, <3>1 DEF HasSlot
      <4>. QED BY <2>2, <4>1
    <3>3. s.P[b].PI = Size(s, t) + n
      BY <2>2, <2>5, <3>1
    <3>. QED BY <1>1, <1>4, <3>2, <3>3
  <2>. QED BY <1>10, <2>3, <2>4, <2>5
<1>11. SlotsMatch(c)
  BY <1>7, <1>9, <1>10 DEF SlotsMatch
<1>12. OrphansMarked(c)
  <2>. SUFFICES ASSUME NEW u \in SlotTypes, NEW k \in 1..Size(c, u), Owners(c, u, k) \cap L = {}
                PROVE  IsSlotGarbage(c.slot[u][k])
    BY <1>7 DEF OrphansMarked
  <2>1. CASE k <= Size(s, u)
    <3>1. k \in 1..Size(s, u)
      BY <1>1, <2>1
    <3>2. CASE Owners(s, u, k) \cap Q # {}
      BY <1>6, <3>1, <3>2
    <3>3. CASE Owners(s, u, k) \cap Q = {}
      <4>1. ASSUME NEW i \in L, i \in Owners(s, u, k) PROVE FALSE
        <5>1. i \notin Q /\ i \in 1..NumPart(s)
          BY <1>1, <3>3, <4>1
        <5>2. c.P[i] = s.P[i]
          BY <1>5, <5>1
        <5>3. i \in Owners(c, u, k)
          BY <1>3, <4>1, <5>1, <5>2 DEF Owners
        <5>. QED BY <5>3
      <4>2. IsSlotGarbage(s.slot[u][k])
        BY <3>1, <4>1 DEF OrphansMarked, L
      <4>. QED BY <1>6, <3>1, <3>3, <4>2
    <3>. QED BY <3>2, <3>3
  <2>2. CASE ~(k <= Size(s, u))
    <3>1. u = t /\ \E n \in 1..Len(queue) : k = Size(s, t) + n
      <4>1. u = t
        BY <1>1, <1>3, <2>2
      <4>2. Size(c, t) = Size(s, t) + Len(queue)
        BY <1>3
      <4>3. k - Size(s, t) \in 1..Len(queue)
        BY <1>1, <1>4, <2>2, <4>1, <4>2
      <4>4. k = Size(s, t) + (k - Size(s, t))
        BY <1>1
      <4>. QED BY <4>1, <4>3, <4>4
    <3>2. PICK n \in 1..Len(queue) : k = Size(s, t) + n
      BY <3>1
    <3>3. queue[n] \in L /\ c.P[queue[n]].Type = u /\ c.P[queue[n]].PI = k
      BY <1>4, <1>5, <3>1, <3>2
    <3>4. queue[n] \in Owners(c, u, k)
      BY <1>1, <1>3, <3>3 DEF Owners
    <3>. QED BY <3>3, <3>4
  <2>. QED BY <2>1, <2>2
<1>. QED BY <1>3, <1>7, <1>11, <1>12 DEF c

\* The child of a split is the last particle, has no slot, and takes none.
LEMMA SplitKeeps ==
  ASSUME NEW s \in Store, OrphansMarked(s), NEW i \in LiveIndices(s),
         NEW S \in SUBSET LiveIndices(s), MatchIn(s, S)
  PROVE  LET c == Split(s, i)
             N == NumPart(s)
             g == (s.P[i].Generation + 1) % GenWrap IN
         /\ c \in Store /\ NumPart(c) = N + 1 /\ c.maxsize = s.maxsize
         /\ \A t \in SlotTypes : Size(c, t) = Size(s, t)
         /\ LiveIndices(c) = LiveIndices(s) \cup {N + 1}
         /\ \A j \in 1..N : /\ c.P[j].ID = s.P[j].ID /\ c.P[j].Type = s.P[j].Type
                            /\ c.P[j].IsGarbage = s.P[j].IsGarbage /\ c.P[j].PI = s.P[j].PI
                            /\ c.P[j].Generation = IF j = i THEN g ELSE s.P[j].Generation
         /\ c.P[N + 1].ID = <<s.P[i].ID[1], g>> /\ c.P[N + 1].Type = s.P[i].Type
         /\ c.P[N + 1].PI = NoSlot /\ c.P[N + 1].Generation = g
         /\ MatchIn(c, S) /\ OrphansMarked(c)
<1>. DEFINE c == Split(s, i)
            N == NumPart(s)
            g == (s.P[i].Generation + 1) % GenWrap
            x == [s.P EXCEPT ![i].Generation = g]
            y == Child(s.P[i], g)
<1>1. /\ s.P \in Seq(Particle) /\ N \in Nat /\ N = Len(s.P) /\ DOMAIN s.P = 1..N
      /\ s.slot \in [SlotTypes -> Seq(SlotData)] /\ s.maxsize \in [SlotTypes -> Nat]
      /\ \A j \in 1..N : s.P[j] \in Particle
      /\ LiveIndices(s) \in SUBSET (1..N)
  BY StoreParts DEF NumPart
<1>2. i \in 1..N /\ ~s.P[i].IsGarbage
  BY <1>1 DEF LiveIndices
<1>3. g \in Nat
  <2>1. s.P[i].Generation \in Nat
    BY <1>1, <1>2 DEF Particle
  <2>. QED BY <2>1, StoreAssumption
<1>4. c = [P |-> Append(x, y), slot |-> s.slot, maxsize |-> s.maxsize]
  <2>1. c = [s EXCEPT !.P = Append(x, y)]
    BY Zenon DEF Split
  <2>. HIDE DEF c, x, y
  <2>. QED BY <2>1, StoreExcept
<1>. HIDE DEF g, c
<1>5. /\ y \in Particle /\ y.ID = <<s.P[i].ID[1], g>> /\ y.Type = s.P[i].Type
      /\ y.PI = NoSlot /\ y.Generation = g /\ ~y.IsGarbage
  <2>1. s.P[i] \in Particle
    BY <1>1, <1>2
  <2>. QED BY <1>2, <1>3, <2>1 DEF Child, Particle, NoSlot
<1>. HIDE DEF y
<1>6. \A j \in 1..N :
        /\ x[j] \in Particle
        /\ x[j].ID = s.P[j].ID /\ x[j].Type = s.P[j].Type
        /\ x[j].IsGarbage = s.P[j].IsGarbage /\ x[j].PI = s.P[j].PI
        /\ x[j].Generation = IF j = i THEN g ELSE s.P[j].Generation
  <2>. SUFFICES ASSUME NEW j \in 1..N
                PROVE  /\ x[j] \in Particle
                       /\ x[j].ID = s.P[j].ID /\ x[j].Type = s.P[j].Type
                       /\ x[j].IsGarbage = s.P[j].IsGarbage /\ x[j].PI = s.P[j].PI
                       /\ x[j].Generation = IF j = i THEN g ELSE s.P[j].Generation
    OBVIOUS
  <2>1. x[j] = IF j = i THEN [s.P[j] EXCEPT !.Generation = g] ELSE s.P[j]
    BY <1>1
  <2>. HIDE DEF x
  <2>2. s.P[j] \in Particle
    BY <1>1
  <2>. QED BY <1>3, <2>1, <2>2 DEF Particle
<1>7. x \in Seq(Particle) /\ Len(x) = N
  <2>1. DOMAIN x = 1..N /\ x = [j \in 1..N |-> x[j]]
    BY <1>1
  <2>. HIDE DEF x
  <2>2. x \in [1..N -> Particle]
    BY <1>6, <2>1
  <2>3. N \in Nat
    BY <1>1
  <2>. HIDE DEF N
  <2>. QED BY <2>2, <2>3
<1>. HIDE DEF x, N
<1>8. /\ Append(x, y) \in Seq(Particle) /\ Len(Append(x, y)) = N + 1
      /\ \A j \in 1..N : Append(x, y)[j] = x[j]
      /\ Append(x, y)[N + 1] = y
  BY <1>5, <1>7, AppendProperties
<1>9. c.P = Append(x, y) /\ c.slot = s.slot /\ c.maxsize = s.maxsize
  BY <1>4
<1>10. c \in Store
  BY <1>1, <1>4, <1>8 DEF Store
<1>11. NumPart(c) = N + 1 /\ (\A t : Size(c, t) = Size(s, t))
  BY <1>8, <1>9 DEF NumPart, Size
<1>12. /\ \A j \in 1..N : /\ c.P[j].ID = s.P[j].ID /\ c.P[j].Type = s.P[j].Type
                          /\ c.P[j].IsGarbage = s.P[j].IsGarbage /\ c.P[j].PI = s.P[j].PI
                          /\ c.P[j].Generation = IF j = i THEN g ELSE s.P[j].Generation
       /\ c.P[N + 1] = y
  <2>1. \A j \in 1..N : c.P[j] = x[j]
    BY <1>8, <1>9
  <2>2. c.P[N + 1] = y
    BY <1>8, <1>9
  <2>3. ASSUME NEW j \in 1..N
        PROVE  /\ c.P[j].ID = s.P[j].ID /\ c.P[j].Type = s.P[j].Type
               /\ c.P[j].IsGarbage = s.P[j].IsGarbage /\ c.P[j].PI = s.P[j].PI
               /\ c.P[j].Generation = IF j = i THEN g ELSE s.P[j].Generation
    <3>1. c.P[j] = x[j]
      BY <2>1
    <3>. QED BY <1>6, <3>1
  <2>. QED BY <2>2, <2>3
<1>13. LiveIndices(c) = LiveIndices(s) \cup {N + 1}
  <2>0. N \in Nat
    BY <1>1
  <2>1. \A j \in 1..(N + 1) : j \in 1..N \/ j = N + 1
    BY <2>0
  <2>2. N + 1 \in 1..(N + 1) /\ \A j \in 1..N : j \in 1..(N + 1)
    BY <2>0
  <2>3. \A j : j \in LiveIndices(c) => j \in LiveIndices(s) \cup {N + 1}
    BY <1>11, <1>12, <2>1 DEF LiveIndices, N
  <2>4. \A j : j \in LiveIndices(s) \cup {N + 1} => j \in LiveIndices(c)
    BY <1>5, <1>11, <1>12, <2>2 DEF LiveIndices, N
  <2>. QED BY <2>3, <2>4
<1>14. MatchIn(c, S)
  <2>1. \A j \in S : j \in 1..N
    BY <1>1
  <2>2. \A j \in S : OwnsSlot(c, j)
    <3>. SUFFICES ASSUME NEW j \in S PROVE OwnsSlot(c, j)
      OBVIOUS
    <3>1. OwnsSlot(s, j)
      BY DEF MatchIn
    <3>2. c.P[j].ID = s.P[j].ID /\ c.P[j].Type = s.P[j].Type /\ c.P[j].PI = s.P[j].PI
      BY <1>12, <2>1
    <3>. QED BY <1>9, <1>11, <3>1, <3>2 DEF OwnsSlot, HasSlot
  <2>. QED BY <1>12, <2>1, <2>2 DEF MatchIn, HasSlot
<1>15. OrphansMarked(c)
  <2>. SUFFICES ASSUME NEW t \in SlotTypes, NEW k \in 1..Size(s, t), Owners(c, t, k) \cap LiveIndices(c) = {}
                PROVE  IsSlotGarbage(s.slot[t][k])
    BY <1>9, <1>11 DEF OrphansMarked
  <2>1. ASSUME NEW j \in LiveIndices(s), j \in Owners(s, t, k) PROVE FALSE
    <3>1. j \in 1..N /\ j \in 1..(N + 1)
      BY <1>1
    <3>2. j \in Owners(c, t, k)
      BY <1>11, <1>12, <2>1, <3>1 DEF Owners
    <3>. QED BY <1>13, <3>2
  <2>. QED BY <2>1 DEF OrphansMarked
<1>16. /\ c.P[N + 1].ID = <<s.P[i].ID[1], g>> /\ c.P[N + 1].Type = s.P[i].Type
       /\ c.P[N + 1].PI = NoSlot /\ c.P[N + 1].Generation = g
  BY <1>5, <1>12
<1>. QED BY <1>9, <1>10, <1>11, <1>12, <1>13, <1>14, <1>15, <1>16 DEF c, N, g

----------------------------------------------------------------------------
(* The exchange: its inductive invariant, and what arrives and leaves.     *)

Arrival  == [part : Particle, slot : SlotData]
Layout   == [target : Ranks, type : PartTypes]

\* The type invariant, with the tables and the buffers.
ExTypeOK ==
  /\ pc \in [Ranks -> Local \cup Collective \cup {"returned"}]
  /\ st \in [Ranks -> Store]
  /\ target \in [Ids -> Ranks]
  /\ list \in [Ranks -> Seq(Nat)]
  /\ layouts \in [Ranks -> Seq(Layout)]
  /\ iter \in [Ranks -> 0..MaxIter]
  /\ sent \in [Ranks -> [Ranks -> Seq(Arrival)]]
  /\ compact \in SUBSET SlotTypes
  /\ failure \in [Ranks -> BOOLEAN]

\* The ranks are between the same two collective calls, or some have gone on to
\* the start of the next round, where only the last round lets them return.
Stages ==
  {{"start", "build", "any_work"}, {"start", "returned"}, {"space", "any_full"},
   {"pack", "any_gc"}, {"collect", "room", "particles"}, {"reserve", "slots"},
   {"unpack", "any_left"}}

\* All ranks do the same round, and only the last failure lets some return before
\* the others.
StageInv ==
  /\ \E S \in Stages : \A r \in Ranks : pc[r] \in S
  /\ \A q, r \in Ranks : iter[q] = iter[r]
  /\ \A r \in Ranks : pc[r] \notin {"start", "returned"} => iter[r] < MaxIter
  /\ \A q, r \in Ranks : pc[q] = "returned" /\ pc[r] # "returned" =>
       iter[q] >= MaxIter /\ failure[q]
  /\ \A r \in Ranks : failure[r] => pc[r] = "returned"
  /\ \A q, r \in Ranks : pc[q] = "returned" /\ pc[r] = "returned" => failure[q] = failure[r]

\* The tables of each rank are sound.
StoreInv == \A r \in Ranks :
  /\ NumPart(st[r]) <= MaxPart
  /\ \A t \in SlotTypes : Size(st[r], t) <= st[r].maxsize[t]
  /\ SlotsMatch(st[r]) /\ OrphansMarked(st[r])

\* Where particle p is.
LiveAt(r, i, p) == i \in LiveIndices(st[r]) /\ st[r].P[i].ID[1] = p
SentAt(q, r, k, p) == k \in DOMAIN sent[q][r] /\ sent[q][r][k].part.ID[1] = p

\* Each particle of the run is in one place: an index of a table or of a buffer.
CopiesInv ==
  /\ \A p \in Ids : \/ \E r \in Ranks : \E i \in LiveIndices(st[r]) : LiveAt(r, i, p)
                    \/ \E q, r \in Ranks : \E k \in DOMAIN sent[q][r] : SentAt(q, r, k, p)
  /\ \A r \in Ranks : \A i \in LiveIndices(st[r]) : st[r].P[i].ID[1] \in Ids
  /\ \A q, r \in Ranks : \A k \in DOMAIN sent[q][r] : sent[q][r][k].part.ID[1] \in Ids
  /\ \A r, r2 \in Ranks : \A i \in LiveIndices(st[r]), i2 \in LiveIndices(st[r2]) :
       st[r].P[i].ID[1] = st[r2].P[i2].ID[1] => r = r2 /\ i = i2
  /\ \A q, r, q2, r2 \in Ranks : \A k \in DOMAIN sent[q][r], k2 \in DOMAIN sent[q2][r2] :
       sent[q][r][k].part.ID[1] = sent[q2][r2][k2].part.ID[1] => q = q2 /\ r = r2 /\ k = k2
  /\ \A q, r, r2 \in Ranks : \A k \in DOMAIN sent[q][r], i \in LiveIndices(st[r2]) :
       sent[q][r][k].part.ID[1] # st[r2].P[i].ID[1]

\* Where a rank has its list, a plan for it, has packed, and has yet to unpack.
HasList   == {"any_work", "space", "any_full", "pack"}
HasPlan   == {"any_full", "pack"}
HasPacked == {"any_gc", "collect", "room", "particles", "reserve", "slots", "unpack", "any_left"}
ToUnpack  == {"pack", "any_gc", "collect", "room", "particles", "reserve", "slots", "unpack"}

\* The list and the layouts describe the table they are used on; after a round
\* that has sent the whole list all particles left are at their target.
PlanInv ==
  \A r \in Ranks :
    /\ pc[r] \in HasList => list[r] = ExchangeList(r)
    /\ pc[r] \in HasPlan =>
         /\ Len(layouts[r]) <= Len(list[r])
         /\ \A n \in 1..Len(layouts[r]) :
              layouts[r][n] = [target |-> TargetOf(r, list[r][n]), type |-> st[r].P[list[r][n]].Type]
    /\ pc[r] \in HasPacked /\ ~NotFinished(r) => \A i \in LiveIndices(st[r]) : TargetOf(r, i) = r

\* What is on its way is what both ranks have planned with.
OnPlan(q, r) ==
  /\ Len(sent[q][r]) = Cardinality(LeavingTo(q, r))
  /\ \A k \in DOMAIN sent[q][r] :
       LET a == sent[q][r][k] IN
       /\ a.part.Type = layouts[q][InOrder(LeavingTo(q, r))[k]].type
       /\ ~a.part.IsGarbage
       /\ target[a.part.ID[1]] = r
       /\ HasSlot(a.part) => a.slot.ID = a.part.ID

\* The buffers hold what was packed and is not unpacked yet, and nothing else.
SentInv ==
  \A q, r \in Ranks :
    IF pc[q] \in HasPacked /\ pc[r] \in ToUnpack THEN OnPlan(q, r) ELSE sent[q][r] = <<>>

\* Live particles of rank r.
NLive(r) == Cardinality(LiveIndices(st[r]))

\* There is room for what arrives: after the check once garbage is collected, then
\* as the table stands, and after slots_reserve for the slots.
RoomInv ==
  \A r \in Ranks :
    /\ pc[r] = "pack" => NLive(r) + ToGetSum(r) - ToGoSum(r) <= MaxPart
    /\ pc[r] \in {"any_gc", "collect"} => NLive(r) + ToGetSum(r) <= MaxPart
    /\ pc[r] \in {"room", "particles", "reserve", "slots", "unpack"} =>
         NumPart(st[r]) + ToGetSum(r) <= MaxPart
    /\ pc[r] \in {"slots", "unpack"} =>
         \A t \in SlotTypes : Size(st[r], t) + ToGetType(r, t) <= st[r].maxsize[t]

\* The inductive invariant.
IInv == ExTypeOK /\ StageInv /\ StoreInv /\ CopiesInv /\ PlanInv /\ SentInv /\ RoomInv

\* The constants.
LEMMA RankFacts ==
  /\ Ranks \in SUBSET Nat /\ IsFiniteSet(Ranks) /\ 1 \in Ranks /\ Ranks # {}
  /\ Ids \in SUBSET Nat /\ IsFiniteSet(Ids) /\ Ids \subseteq DOMAIN TypeOf
  /\ MaxIter \in Nat /\ MaxPart \in Nat
<1>1. NTask \in Nat \ {0} /\ TypeOf \in Seq(PartTypes) /\ MaxIter \in Nat /\ MaxPart \in Nat
  BY ExchangeAssumption, StoreAssumption
<1>2. Ranks \in SUBSET Nat /\ 1 \in Ranks /\ Ranks # {}
  <2>1. 1 \in 1..NTask /\ \A r \in 1..NTask : r \in Nat
    BY <1>1
  <2>. QED BY <2>1 DEF Ranks
<1>3. IsFiniteSet(Ranks)
  BY <1>1, FS_Interval DEF Ranks
<1>4. IsFiniteSet(DOMAIN TypeOf) /\ DOMAIN TypeOf \in SUBSET Nat
  <2>1. DOMAIN TypeOf = 1..Len(TypeOf) /\ Len(TypeOf) \in Nat
    BY <1>1
  <2>2. IsFiniteSet(1..Len(TypeOf))
    BY <2>1, FS_Interval
  <2>. QED BY <2>1, <2>2
<1>5. Ids \subseteq DOMAIN TypeOf
  BY DEF Ids
<1>6. IsFiniteSet(Ids)
  BY <1>4, <1>5, FS_Subset
<1>. QED BY <1>1, <1>2, <1>3, <1>4, <1>5, <1>6

\* What goes from q to r, in its order.
LEMMA LeavingToOrder ==
  ASSUME ExTypeOK, NEW q \in Ranks, NEW r \in Ranks
  PROVE  LET L == LeavingTo(q, r) IN
         /\ L \in SUBSET (1..Len(layouts[q])) /\ IsFiniteSet(L) /\ Cardinality(L) \in Nat
         /\ layouts[q] \in Seq(Layout) /\ Len(layouts[q]) \in Nat
         /\ DOMAIN layouts[q] = 1..Len(layouts[q])
         /\ InOrder(L) \in [1..Cardinality(L) -> L]
         /\ \A k \in 1..Cardinality(L) : CountTo(L, InOrder(L)[k]) = k
         /\ \A n \in L : /\ CountTo(L, n) \in 1..Cardinality(L)
                         /\ InOrder(L)[CountTo(L, n)] = n
<1>. DEFINE L == LeavingTo(q, r)
<1>1. layouts[q] \in Seq(Layout) /\ Len(layouts[q]) \in Nat /\ DOMAIN layouts[q] = 1..Len(layouts[q])
  <2>1. layouts[q] \in Seq(Layout)
    BY DEF ExTypeOK
  <2>. QED BY <2>1
<1>2. L \in SUBSET (1..Len(layouts[q]))
  BY <1>1 DEF LeavingTo
<1>3. IsFiniteSet(L) /\ L \in SUBSET Int
  <2>. DEFINE n == Len(layouts[q])
  <2>0. n \in Nat /\ L \in SUBSET (1..n)
    BY <1>1, <1>2
  <2>. HIDE DEF n, L
  <2>1. IsFiniteSet(1..n) /\ 1..n \subseteq Int
    BY <2>0, FS_Interval, SMTT(30)
  <2>2. IsFiniteSet(L)
    BY <2>0, <2>1, FS_Subset
  <2>. QED BY <2>0, <2>1, <2>2
<1>. HIDE DEF L
<1>4. /\ Cardinality(L) \in Nat
      /\ InOrder(L) \in [1..Cardinality(L) -> L]
      /\ \A k \in 1..Cardinality(L) : CountTo(L, InOrder(L)[k]) = k
      /\ \A n \in L : /\ CountTo(L, n) \in 1..Cardinality(L)
                      /\ InOrder(L)[CountTo(L, n)] = n
  BY <1>3, InOrderProperties
<1>. QED BY <1>1, <1>2, <1>3, <1>4 DEF L

\* What comes to r.
LEMMA ArrivingFinite ==
  ASSUME ExTypeOK, NEW r \in Ranks
  PROVE  /\ Arriving(r) = {e \in Ranks \X Nat : e[2] \in LeavingTo(e[1], r)}
         /\ IsFiniteSet(Arriving(r)) /\ ToGetSum(r) \in Nat
         /\ \A t : ToGetType(r, t) \in Nat
         /\ ToGoSum(r) \in Nat
<1>. DEFINE C == {{q} \X LeavingTo(q, r) : q \in Ranks}
<1>1. IsFiniteSet(C)
  <2>. DEFINE f == [q \in Ranks |-> {q} \X LeavingTo(q, r)]
  <2>1. f \in Surjection(Ranks, C)
    <3>1. f \in [Ranks -> C] /\ \A S \in C : \E q \in Ranks : f[q] = S
      OBVIOUS
    <3>. HIDE DEF f, C
    <3>. QED BY <3>1 DEF Surjection
  <2>. HIDE DEF f, C
  <2>. QED BY <2>1, RankFacts, FS_Surjection
<1>2. \A S \in C : IsFiniteSet(S)
  <2>. SUFFICES ASSUME NEW q \in Ranks PROVE IsFiniteSet({q} \X LeavingTo(q, r))
    OBVIOUS
  <2>1. IsFiniteSet({q}) /\ IsFiniteSet(LeavingTo(q, r))
    BY FS_Singleton, LeavingToOrder
  <2>. QED BY <2>1, FS_Product
<1>3. IsFiniteSet(Arriving(r))
  <2>1. IsFiniteSet(UNION C)
    <3>. HIDE DEF C
    <3>. QED BY <1>1, <1>2, FS_UNION
  <2>. QED BY <2>1 DEF Arriving
<1>4. ToGetSum(r) \in Nat /\ \A t : ToGetType(r, t) \in Nat
  <2>1. ASSUME NEW t PROVE IsFiniteSet({a \in Arriving(r) : layouts[a[1]][a[2]].type = t})
    BY <1>3, FS_Subset
  <2>. QED BY <1>3, <2>1, FS_CardinalityType DEF ToGetSum, ToGetType
<1>5. Arriving(r) = {e \in Ranks \X Nat : e[2] \in LeavingTo(e[1], r)}
  <2>1. \A q \in Ranks : \A n \in LeavingTo(q, r) : n \in Nat
    BY LeavingToOrder
  <2>. QED BY <2>1 DEF Arriving
<1>6. ToGoSum(r) \in Nat
  BY LeavingToOrder DEF ToGoSum
<1>. QED BY <1>3, <1>4, <1>5, <1>6

\* Rank r's store s after the arrivals have been put behind it.
UnpackedPart(s, arrivals, k) ==
  IF HasSlot(arrivals[k].part)
  THEN [arrivals[k].part EXCEPT !.PI =
          Size(s, arrivals[k].part.Type)
          + Cardinality({j \in 1..k : arrivals[j].part.Type = arrivals[k].part.Type})]
  ELSE arrivals[k].part

Unpacked(s, arrivals) ==
  [P |-> s.P \o [k \in DOMAIN arrivals |-> UnpackedPart(s, arrivals, k)],
   slot |-> [t \in SlotTypes |->
      s.slot[t] \o [k \in DOMAIN OfType(arrivals, t) |-> OfType(arrivals, t)[k].slot]],
   maxsize |-> s.maxsize]

\* Those of type t among the arrivals.
TypeAt(arrivals, t) == {k \in 1..Len(arrivals) : arrivals[k].part.Type = t}

\* What arrives is a live particle, with its own slot.
Sound(a) == ~a.part.IsGarbage /\ (HasSlot(a.part) => a.slot.ID = a.part.ID)

\* The slots that arrive, by type.
LEMMA OfTypeRight ==
  ASSUME NEW arrivals \in Seq(Arrival), NEW t \in SlotTypes
  PROVE  LET T == TypeAt(arrivals, t)
             w == [k \in DOMAIN OfType(arrivals, t) |-> OfType(arrivals, t)[k].slot] IN
         /\ Cardinality(T) \in Nat
         /\ w \in Seq(SlotData) /\ Len(w) = Cardinality(T)
         /\ \A k \in T : CountTo(T, k) \in 1..Len(w) /\ w[CountTo(T, k)] = arrivals[k].slot
         /\ \A k \in 1..Len(w) : \E i \in T : CountTo(T, i) = k
         /\ \A i, k \in T : CountTo(T, i) = CountTo(T, k) => i = k
<1>. DEFINE T == TypeAt(arrivals, t)
            o == OfType(arrivals, t)
            w == [k \in DOMAIN o |-> o[k].slot]
<1>1. T \in SUBSET (1..Len(arrivals))
  BY DEF TypeAt
<1>2. o = SelectAt(arrivals, T)
  <2>1. DOMAIN arrivals = 1..Len(arrivals)
    OBVIOUS
  <2>. QED BY <2>1, Zenon DEF OfType, TypeAt
<1>. HIDE DEF T, o
<1>3. /\ Cardinality(T) \in Nat
      /\ InOrder(T) \in [1..Cardinality(T) -> T]
      /\ o \in Seq(Arrival) /\ Len(o) = Cardinality(T)
      /\ \A k \in 1..Cardinality(T) : CountTo(T, InOrder(T)[k]) = k
      /\ \A i \in T : /\ CountTo(T, i) \in 1..Cardinality(T)
                      /\ InOrder(T)[CountTo(T, i)] = i
                      /\ o[CountTo(T, i)] = arrivals[i]
  <2>. DEFINE u == SelectAt(arrivals, T)
  <2>1. /\ IsFiniteSet(T) /\ Cardinality(T) \in Nat /\ Cardinality(T) <= Len(arrivals)
        /\ InOrder(T) \in [1..Cardinality(T) -> T]
        /\ u \in Seq(Arrival)
        /\ Len(u) = Cardinality(T)
        /\ \A k \in 1..Cardinality(T) :
             /\ u[k] = arrivals[InOrder(T)[k]]
             /\ CountTo(T, InOrder(T)[k]) = k
        /\ \A i \in T : /\ CountTo(T, i) \in 1..Cardinality(T)
                        /\ InOrder(T)[CountTo(T, i)] = i
                        /\ u[CountTo(T, i)] = arrivals[i]
    BY <1>1, SelectAtProperties, ZenonT(60)
  <2>. QED BY <1>2, <2>1, Zenon
<1>4. DOMAIN o = 1..Cardinality(T) /\ \A k \in 1..Cardinality(T) : o[k] \in Arrival
  BY <1>3
<1>5. w \in [1..Cardinality(T) -> SlotData]
  BY <1>4 DEF Arrival
<1>6. \A i \in T : w[CountTo(T, i)] = arrivals[i].slot
  BY <1>3, <1>4
<1>. HIDE DEF w
<1>7. w \in Seq(SlotData) /\ Len(w) = Cardinality(T)
  BY <1>3, <1>5
<1>8. \A k \in 1..Cardinality(T) : InOrder(T)[k] \in T
  BY <1>3
<1>. QED BY <1>3, <1>6, <1>7, <1>8 DEF w, o, T

\* The number of a particle among those of its type.
LEMMA UnpackedPartRight ==
  ASSUME NEW s \in Store, NEW arrivals \in Seq(Arrival), NEW k \in 1..Len(arrivals)
  PROVE  LET p == arrivals[k].part
             u == UnpackedPart(s, arrivals, k) IN
         /\ u \in Particle /\ SameParticle(u, p)
         /\ HasSlot(u) => u.PI = Size(s, p.Type) + CountTo(TypeAt(arrivals, p.Type), k)
<1>. DEFINE p == arrivals[k].part
            T == TypeAt(arrivals, p.Type)
            u == UnpackedPart(s, arrivals, k)
<1>1. arrivals[k] \in Arrival /\ p \in Particle /\ k \in Nat /\ Len(arrivals) \in Nat /\ k <= Len(arrivals)
  <2>1. arrivals[k] \in Arrival
    OBVIOUS
  <2>. QED BY <2>1 DEF Arrival
<1>2. CASE ~HasSlot(p)
  <2>1. u = p
    BY <1>2 DEF UnpackedPart
  <2>. HIDE DEF u, p
  <2>. QED BY <1>1, <1>2, <2>1 DEF SameParticle, u, p
<1>3. CASE HasSlot(p)
  <2>1. {j \in 1..k : arrivals[j].part.Type = p.Type} = {j \in T : j <= k}
    <3>. HIDE DEF p
    <3>. QED BY <1>1 DEF TypeAt
  <2>2. u = [p EXCEPT !.PI = Size(s, p.Type) + CountTo(T, k)]
    BY <1>3, <2>1 DEF UnpackedPart, CountTo
  <2>3. CountTo(T, k) \in Nat /\ Size(s, p.Type) \in Nat
    <3>1. p.Type \in SlotTypes
      BY <1>3 DEF HasSlot
    <3>2. Size(s, p.Type) \in Nat
      BY <3>1, StoreParts
    <3>3. k \in T
      BY DEF TypeAt
    <3>. HIDE DEF T, p
    <3>4. CountTo(TypeAt(arrivals, p.Type), k) \in 1..Len([j \in DOMAIN OfType(arrivals, p.Type) |-> OfType(arrivals, p.Type)[j].slot])
      BY <3>1, <3>3, OfTypeRight DEF T
    <3>5. CountTo(T, k) \in Nat
      BY <3>1, <3>3, <3>4, OfTypeRight DEF T
    <3>. QED BY <3>2, <3>5
  <2>. HIDE DEF u, p, T
  <2>. DEFINE n == Size(s, p.Type) + CountTo(T, k)
  <2>4. n \in Nat
    BY <2>3
  <2>. HIDE DEF n
  <2>5. u = [p EXCEPT !.PI = n]
    BY <2>2 DEF n
  <2>6. u \in Particle /\ SameParticle(u, p) /\ u.PI = n
    BY <1>1, <2>4, <2>5, ParticleMoved
  <2>. QED BY <2>6 DEF u, p, T, n
<1>. QED BY <1>2, <1>3

\* What arrives is put behind what is there, each particle with its slot.
LEMMA UnpackKeeps ==
  ASSUME NEW s \in Store, SlotsMatch(s), OrphansMarked(s),
         NEW arrivals \in Seq(Arrival), \A k \in 1..Len(arrivals) : Sound(arrivals[k])
  PROVE  LET u == Unpacked(s, arrivals)
             n == NumPart(s) IN
         /\ u \in Store /\ u.maxsize = s.maxsize
         /\ NumPart(u) = n + Len(arrivals)
         /\ \A i \in 1..n : u.P[i] = s.P[i]
         /\ \A k \in 1..Len(arrivals) : SameParticle(u.P[n + k], arrivals[k].part)
         /\ LiveIndices(u) = LiveIndices(s) \cup {n + k : k \in 1..Len(arrivals)}
         /\ \A t \in SlotTypes : Size(u, t) = Size(s, t) + Cardinality(TypeAt(arrivals, t))
         /\ SlotsMatch(u) /\ OrphansMarked(u)
<1>. DEFINE u == Unpacked(s, arrivals)
            n == NumPart(s)
            m == Len(arrivals)
            np == [k \in DOMAIN arrivals |-> UnpackedPart(s, arrivals, k)]
            A(t) == [k \in DOMAIN OfType(arrivals, t) |-> OfType(arrivals, t)[k].slot]
            T(t) == TypeAt(arrivals, t)
            ns == [t \in SlotTypes |-> s.slot[t] \o A(t)]
<1>1. /\ s.P \in Seq(Particle) /\ n \in Nat /\ n = Len(s.P)
      /\ s.slot \in [SlotTypes -> Seq(SlotData)] /\ s.maxsize \in [SlotTypes -> Nat]
      /\ \A t \in SlotTypes : s.slot[t] \in Seq(SlotData) /\ Size(s, t) \in Nat /\ Size(s, t) = Len(s.slot[t])
      /\ LiveIndices(s) \in SUBSET (1..n)
      /\ m \in Nat /\ DOMAIN arrivals = 1..m
  BY StoreParts DEF NumPart, Size
<1>2. \A k \in 1..m :
        /\ np[k] = UnpackedPart(s, arrivals, k)
        /\ np[k] \in Particle /\ SameParticle(np[k], arrivals[k].part)
        /\ HasSlot(np[k]) =>
             np[k].PI = Size(s, np[k].Type) + CountTo(T(np[k].Type), k)
        /\ k \in T(np[k].Type)
        /\ ~np[k].IsGarbage /\ (HasSlot(np[k]) => arrivals[k].slot.ID = np[k].ID)
  <2>1. ASSUME NEW k \in 1..m, NEW x, x = UnpackedPart(s, arrivals, k)
        PROVE  /\ x \in Particle /\ SameParticle(x, arrivals[k].part)
               /\ HasSlot(x) =>
                    x.PI = Size(s, x.Type) + CountTo(T(x.Type), k)
               /\ k \in T(x.Type)
               /\ ~x.IsGarbage /\ (HasSlot(x) => arrivals[k].slot.ID = x.ID)
    <3>1. /\ x \in Particle /\ SameParticle(x, arrivals[k].part)
          /\ HasSlot(x) => x.PI = Size(s, arrivals[k].part.Type) + CountTo(TypeAt(arrivals, arrivals[k].part.Type), k)
      BY <2>1, UnpackedPartRight
    <3>2. x.Type = arrivals[k].part.Type /\ x.ID = arrivals[k].part.ID
          /\ x.IsGarbage = arrivals[k].part.IsGarbage
      BY <3>1 DEF SameParticle
    <3>3. HasSlot(x) = HasSlot(arrivals[k].part)
      BY <3>2 DEF HasSlot
    <3>4. k \in T(x.Type)
      BY <3>2 DEF TypeAt
    <3>5. ~x.IsGarbage /\ (HasSlot(x) => arrivals[k].slot.ID = x.ID)
      BY <3>2, <3>3 DEF Sound
    <3>. QED BY <3>1, <3>2, <3>4, <3>5
  <2>2. \A k \in 1..m : np[k] = UnpackedPart(s, arrivals, k)
    BY <1>1
  <2>. HIDE DEF np, T
  <2>. QED BY <2>1, <2>2
<1>3. np \in Seq(Particle) /\ Len(np) = m
  <2>1. np \in [1..m -> Particle]
    BY <1>1, <1>2
  <2>. HIDE DEF np
  <2>. QED BY <1>1, <2>1
<1>4. \A t \in SlotTypes :
         /\ Cardinality(T(t)) \in Nat
         /\ A(t) \in Seq(SlotData) /\ Len(A(t)) = Cardinality(T(t))
         /\ \A k \in T(t) : CountTo(T(t), k) \in 1..Len(A(t)) /\ A(t)[CountTo(T(t), k)] = arrivals[k].slot
         /\ \A k \in 1..Len(A(t)) : \E i \in T(t) : CountTo(T(t), i) = k
         /\ \A i, k \in T(t) : CountTo(T(t), i) = CountTo(T(t), k) => i = k
  BY OfTypeRight
<1>5. u = [P |-> s.P \o np, slot |-> ns, maxsize |-> s.maxsize]
  BY DEF Unpacked
<1>6. u.P = s.P \o np /\ u.slot = ns /\ u.maxsize = s.maxsize
  BY <1>5
<1>. HIDE DEF np, A
<1>7. ASSUME NEW t \in SlotTypes
      PROVE  /\ ns[t] \in Seq(SlotData) /\ Len(ns[t]) = Size(s, t) + Cardinality(T(t))
             /\ \A k \in 1..Size(s, t) : ns[t][k] = s.slot[t][k]
             /\ \A k \in 1..Cardinality(T(t)) : ns[t][Size(s, t) + k] = A(t)[k]
  <2>1. s.slot[t] \in Seq(SlotData) /\ A(t) \in Seq(SlotData) /\ ns[t] = s.slot[t] \o A(t)
        /\ Len(s.slot[t]) = Size(s, t) /\ Len(A(t)) = Cardinality(T(t))
    BY <1>1, <1>4
  <2>. HIDE DEF ns, T
  <2>2. Joined(s.slot[t], A(t), ns[t], SlotData)
    BY <2>1, ConcatAt
  <2>. QED BY <2>1, <2>2 DEF Joined
<1>8. DOMAIN ns = SlotTypes /\ ns = [t \in SlotTypes |-> ns[t]]
  OBVIOUS
<1>9. s.P \o np \in Seq(Particle) /\ Len(s.P \o np) = n + m
      /\ (\A i \in 1..n : (s.P \o np)[i] = s.P[i])
      /\ (\A k \in 1..m : (s.P \o np)[n + k] = np[k])
  <2>1. s.P \in Seq(Particle) /\ np \in Seq(Particle) /\ Len(s.P) = n /\ Len(np) = m
    BY <1>1, <1>3
  <2>. HIDE DEF n, m
  <2>. DEFINE c == s.P \o np
  <2>2. Joined(s.P, np, c, Particle)
    BY <2>1, ConcatAt
  <2>. HIDE DEF c
  <2>3. c \in Seq(Particle) /\ Len(c) = n + m
        /\ (\A i \in 1..n : c[i] = s.P[i])
        /\ (\A k \in 1..m : c[n + k] = np[k])
    BY <2>1, <2>2 DEF Joined
  <2>. QED BY <2>3 DEF c
<1>. HIDE DEF u, ns, n, m
<1>10. u \in Store
  BY <1>1, <1>5, <1>7, <1>8, <1>9 DEF Store
<1>11. NumPart(u) = n + m
  BY <1>6, <1>9 DEF NumPart
<1>12. /\ \A i \in 1..n : u.P[i] = s.P[i]
       /\ \A k \in 1..m : u.P[n + k] = np[k]
  BY <1>6, <1>9
<1>13. \A t \in SlotTypes : Size(u, t) = Size(s, t) + Cardinality(T(t))
  BY <1>6, <1>7 DEF Size
<1>14. \A i \in 1..(n + m) : i \in 1..n \/ \E k \in 1..m : i = n + k
  <2>1. ASSUME NEW i \in 1..(n + m), i \notin 1..n PROVE i - n \in 1..m /\ i = n + (i - n)
    BY <1>1, <2>1
  <2>. QED BY <2>1
<1>15. LiveIndices(u) = LiveIndices(s) \cup {n + k : k \in 1..m}
  <2>1. ASSUME NEW i \in LiveIndices(u) PROVE i \in LiveIndices(s) \cup {n + k : k \in 1..m}
    <3>1. i \in 1..(n + m) /\ ~u.P[i].IsGarbage
      BY <1>11 DEF LiveIndices
    <3>2. CASE i \in 1..n
      BY <1>12, <3>1, <3>2 DEF LiveIndices, n
    <3>3. CASE \E k \in 1..m : i = n + k
      BY <3>3
    <3>. QED BY <1>14, <3>1, <3>2, <3>3
  <2>2. ASSUME NEW i \in LiveIndices(s) PROVE i \in LiveIndices(u)
    <3>1. i \in 1..n /\ ~s.P[i].IsGarbage
      BY DEF LiveIndices, n
    <3>2. i \in 1..(n + m)
      BY <1>1, <3>1
    <3>. QED BY <1>11, <1>12, <3>1, <3>2 DEF LiveIndices
  <2>3. ASSUME NEW k \in 1..m PROVE n + k \in LiveIndices(u)
    <3>1. ~u.P[n + k].IsGarbage
      BY <1>2, <1>12
    <3>2. n + k \in 1..(n + m)
      BY <1>1
    <3>. QED BY <1>11, <3>1, <3>2 DEF LiveIndices
  <2>. QED BY <2>1, <2>2, <2>3
<1>16. ASSUME NEW i \in LiveIndices(s), HasSlot(s.P[i])
       PROVE  /\ s.P[i].Type \in SlotTypes /\ u.P[i] = s.P[i]
              /\ s.P[i].PI \in 1..Size(s, s.P[i].Type)
              /\ u.slot[s.P[i].Type][s.P[i].PI].ID = s.P[i].ID
  <2>1. i \in 1..n /\ u.P[i] = s.P[i]
    BY <1>12 DEF LiveIndices, n
  <2>2. s.P[i].Type \in SlotTypes
    BY <1>16 DEF HasSlot
  <2>3. s.P[i].PI \in 1..Size(s, s.P[i].Type) /\ s.slot[s.P[i].Type][s.P[i].PI].ID = s.P[i].ID
    BY <1>16 DEF SlotsMatch, OwnsSlot
  <2>. QED BY <1>6, <1>7, <2>1, <2>2, <2>3
<1>17. ASSUME NEW k \in 1..m, HasSlot(np[k])
       PROVE  LET t == np[k].Type IN
              /\ t \in SlotTypes /\ k \in T(t) /\ CountTo(T(t), k) \in 1..Cardinality(T(t))
              /\ u.P[n + k].PI = Size(s, t) + CountTo(T(t), k)
              /\ u.slot[t][Size(s, t) + CountTo(T(t), k)].ID = np[k].ID
  <2>. DEFINE t == np[k].Type
  <2>1. t \in SlotTypes
    BY <1>17 DEF HasSlot
  <2>2. k \in T(t) /\ CountTo(T(t), k) \in 1..Cardinality(T(t)) /\ A(t)[CountTo(T(t), k)] = arrivals[k].slot
    <3>1. k \in T(t)
      BY <1>2
    <3>. HIDE DEF t, T
    <3>. QED BY <1>4, <2>1, <3>1
  <2>3. u.P[n + k].PI = Size(s, t) + CountTo(T(t), k)
    <3>1. np[k].PI = Size(s, np[k].Type) + CountTo(T(np[k].Type), k)
      BY <1>2, <1>17
    <3>. QED BY <1>12, <3>1
  <2>4. u.slot[t][Size(s, t) + CountTo(T(t), k)] = A(t)[CountTo(T(t), k)]
    <3>. HIDE DEF t, T
    <3>. QED BY <1>6, <1>7, <2>1, <2>2
  <2>5. arrivals[k].slot.ID = np[k].ID
    BY <1>2, <1>17
  <2>. QED BY <2>1, <2>2, <2>3, <2>4, <2>5
<1>18. SlotsMatch(u)
  <2>1. ASSUME NEW i \in LiveIndices(u), HasSlot(u.P[i])
        PROVE  u.P[i].PI \in 1..Size(u, u.P[i].Type) /\ u.slot[u.P[i].Type][u.P[i].PI].ID = u.P[i].ID
    <3>1. CASE i \in LiveIndices(s)
      <4>1. u.P[i] = s.P[i]
        BY <1>12, <3>1 DEF LiveIndices, n
      <4>2. /\ s.P[i].Type \in SlotTypes
            /\ s.P[i].PI \in 1..Size(s, s.P[i].Type)
            /\ u.slot[s.P[i].Type][s.P[i].PI].ID = s.P[i].ID
        BY <1>16, <2>1, <3>1, <4>1
      <4>3. Size(s, s.P[i].Type) \in Nat /\ Cardinality(T(s.P[i].Type)) \in Nat
            /\ Size(u, s.P[i].Type) = Size(s, s.P[i].Type) + Cardinality(T(s.P[i].Type))
        BY <1>1, <1>4, <1>13, <4>2
      <4>. QED BY <4>1, <4>2, <4>3
    <3>2. CASE \E k \in 1..m : i = n + k
      <4>1. PICK k \in 1..m : i = n + k
        BY <3>2
      <4>. DEFINE t == np[k].Type
      <4>2. u.P[i] = np[k] /\ HasSlot(np[k])
        BY <1>12, <2>1, <4>1
      <4>3. /\ t \in SlotTypes /\ k \in T(t) /\ CountTo(T(t), k) \in 1..Cardinality(T(t))
            /\ u.P[i].PI = Size(s, t) + CountTo(T(t), k)
            /\ u.slot[t][Size(s, t) + CountTo(T(t), k)].ID = np[k].ID
        BY <1>17, <4>1, <4>2
      <4>4. Size(s, t) \in Nat /\ Cardinality(T(t)) \in Nat /\ Size(u, t) = Size(s, t) + Cardinality(T(t))
        BY <1>1, <1>4, <1>13, <4>3
      <4>5. u.P[i].PI \in 1..Size(u, t)
        <5>. HIDE DEF t, T
        <5>. QED BY <4>3, <4>4
      <4>. QED BY <4>2, <4>3, <4>5
    <3>. QED BY <1>15, <3>1, <3>2
  <2>2. ASSUME NEW i \in LiveIndices(u), NEW j \in LiveIndices(u), HasSlot(u.P[i]),
               u.P[i].Type = u.P[j].Type, u.P[i].PI = u.P[j].PI
        PROVE  i = j
    <3>. DEFINE t == u.P[i].Type
    <3>1. ASSUME NEW a \in LiveIndices(s), u.P[a].Type = t
          PROVE  u.P[a] = s.P[a] /\ s.P[a].Type = t /\ HasSlot(s.P[a]) /\ u.P[a].PI \in 1..Size(s, t)
      <4>1. u.P[a] = s.P[a]
        BY <1>12 DEF LiveIndices, n
      <4>2. HasSlot(s.P[a])
        BY <2>2, <3>1, <4>1 DEF HasSlot
      <4>. QED BY <1>16, <3>1, <4>1, <4>2
    <3>2. ASSUME NEW k \in 1..m, u.P[n + k].Type = t
          PROVE  /\ np[k].Type = t /\ t \in SlotTypes /\ k \in T(t)
                 /\ CountTo(T(t), k) \in Nat /\ CountTo(T(t), k) >= 1 /\ Size(s, t) \in Nat
                 /\ u.P[n + k].PI = Size(s, t) + CountTo(T(t), k)
      <4>1. u.P[n + k] = np[k] /\ HasSlot(np[k]) /\ np[k].Type = t
        BY <1>12, <2>2, <3>2 DEF HasSlot
      <4>2. /\ t \in SlotTypes /\ k \in T(t) /\ CountTo(T(t), k) \in 1..Cardinality(T(t))
            /\ u.P[n + k].PI = Size(s, t) + CountTo(T(t), k)
        BY <1>17, <4>1
      <4>3. Size(s, t) \in Nat /\ Cardinality(T(t)) \in Nat
        BY <1>1, <1>4, <4>2
      <4>. HIDE DEF t, T
      <4>. QED BY <4>1, <4>2, <4>3
    <3>3. CASE i \in LiveIndices(s) /\ j \in LiveIndices(s)
      <4>1. /\ HasSlot(s.P[i]) /\ s.P[i].Type = s.P[j].Type /\ s.P[i].PI = s.P[j].PI
        BY <2>2, <3>1, <3>3
      <4>. QED BY <3>3, <4>1 DEF SlotsMatch
    <3>4. ASSUME NEW a \in LiveIndices(s), NEW k \in 1..m, u.P[a].Type = t, u.P[n + k].Type = t,
                 u.P[a].PI = u.P[n + k].PI
          PROVE  FALSE
      <4>1. u.P[a].PI \in 1..Size(s, t)
        BY <3>1, <3>4
      <4>2. CountTo(T(t), k) \in Nat /\ CountTo(T(t), k) >= 1 /\ Size(s, t) \in Nat
                 /\ u.P[n + k].PI = Size(s, t) + CountTo(T(t), k)
        BY <3>2, <3>4
      <4>. HIDE DEF t, T
      <4>. QED BY <3>4, <4>1, <4>2
    <3>5. CASE \E k \in 1..m, l \in 1..m : i = n + k /\ j = n + l
      <4>1. PICK k \in 1..m, l \in 1..m : i = n + k /\ j = n + l
        BY <3>5
      <4>2. /\ t \in SlotTypes /\ k \in T(t) /\ l \in T(t) /\ Size(s, t) \in Nat
            /\ CountTo(T(t), k) \in Nat /\ CountTo(T(t), l) \in Nat
            /\ Size(s, t) + CountTo(T(t), k) = Size(s, t) + CountTo(T(t), l)
        BY <2>2, <3>2, <4>1
      <4>3. CountTo(T(t), k) = CountTo(T(t), l)
        <5>. HIDE DEF t, T
        <5>. QED BY <4>2
      <4>4. k = l
        BY <1>4, <4>2, <4>3
      <4>. QED BY <4>1, <4>4
    <3>. QED BY <1>15, <2>2, <3>3, <3>4, <3>5
  <2>. QED BY <2>1, <2>2 DEF SlotsMatch, OwnsSlot
<1>19. OrphansMarked(u)
  <2>. SUFFICES ASSUME NEW t \in SlotTypes, NEW k \in 1..Size(u, t),
                       Owners(u, t, k) \cap LiveIndices(u) = {}
                PROVE  IsSlotGarbage(u.slot[t][k])
    BY DEF OrphansMarked
  <2>1. Size(s, t) \in Nat /\ Cardinality(T(t)) \in Nat /\ Size(u, t) = Size(s, t) + Cardinality(T(t))
        /\ Len(A(t)) = Cardinality(T(t))
    BY <1>1, <1>4, <1>13
  <2>2. CASE k \in 1..Size(s, t)
    <3>1. ASSUME NEW i \in Owners(s, t, k), i \in LiveIndices(s) PROVE FALSE
      <4>1. i \in 1..n /\ s.P[i].Type = t /\ s.P[i].PI = k
        BY DEF Owners, n
      <4>2. i \in 1..NumPart(u) /\ u.P[i] = s.P[i] /\ i \in LiveIndices(u)
        <5>1. i \in 1..(n + m)
          BY <1>1, <4>1
        <5>. QED BY <1>11, <1>12, <1>15, <3>1, <4>1, <5>1
      <4>. QED BY <4>1, <4>2 DEF Owners
    <3>2. IsSlotGarbage(s.slot[t][k])
      BY <2>2, <3>1 DEF OrphansMarked
    <3>. QED BY <1>6, <1>7, <2>2, <3>2
  <2>3. CASE k \notin 1..Size(s, t)
    <3>1. k - Size(s, t) \in 1..Cardinality(T(t)) /\ k = Size(s, t) + (k - Size(s, t))
      <4>. HIDE DEF T
      <4>. QED BY <2>1, <2>3
    <3>2. PICK i \in T(t) : CountTo(T(t), i) = k - Size(s, t)
      BY <1>4, <2>1, <3>1
    <3>3. i \in 1..m /\ arrivals[i].part.Type = t
      BY DEF TypeAt, m
    <3>4. np[i].Type = t /\ HasSlot(np[i])
      BY <1>2, <3>3 DEF SameParticle, HasSlot
    <3>5. u.P[n + i] = np[i] /\ u.P[n + i].PI = Size(s, t) + CountTo(T(t), i)
      BY <1>12, <1>17, <3>3, <3>4
    <3>6. n + i \in LiveIndices(u) /\ n + i \in 1..NumPart(u)
      <4>1. n + i \in LiveIndices(u)
        BY <1>15, <3>3
      <4>. QED BY <4>1 DEF LiveIndices
    <3>7. u.P[n + i].PI = k
      BY <3>1, <3>2, <3>5
    <3>8. n + i \in Owners(u, t, k)
      BY <3>4, <3>5, <3>6, <3>7 DEF Owners
    <3>. QED BY <3>6, <3>8
  <2>. QED BY <2>2, <2>3
<1>20. \A k \in 1..m : SameParticle(u.P[n + k], arrivals[k].part)
  BY <1>2, <1>12
<1>. QED BY <1>6, <1>10, <1>11, <1>12, <1>13, <1>15, <1>18, <1>19, <1>20 DEF u, n, m

\* What rank r receives is what is sent to it, each element at its place.
SentTo(r) == [q \in Ranks |-> sent[q][r]]

SentElements(r) == {e \in Ranks \X (Nat \ {0}) : e[2] <= Len(sent[e[1]][r])}

ReceivedAs(at, r) ==
  /\ at \in Bijection(SentElements(r), 1..Len(Received(r)))
  /\ \A e \in SentElements(r) : Received(r)[at[e]] = sent[e[1]][r][e[2]]

\* MPI_Alltoallv delivers each element sent to a place of its own.
LEMMA ReceivedPlaces ==
  ASSUME ExTypeOK, NEW r \in Ranks
  PROVE  Received(r) \in Seq(Arrival) /\ \E at : ReceivedAs(at, r)
<1>. DEFINE ss == SentTo(r)
<1>0. NTask \in Nat \ {0} /\ Ranks = 1..NTask
  BY ExchangeAssumption DEF Ranks
<1>1. ss \in [1..NTask -> Seq(Arrival)] /\ \A q \in Ranks : ss[q] = sent[q][r]
  BY <1>0 DEF ExTypeOK, SentTo
<1>. HIDE DEF ss
<1>2. ss \in Seq(Seq(Arrival)) /\ Len(ss) = NTask /\ ss # <<>>
  BY <1>0, <1>1
<1>3. Received(r) = FlattenSeq(ss)
  BY DEF Received, SentTo, ss
<1>4. /\ FlattenSeq(ss) \in Seq(Arrival)
      /\ \E at : PlacedBy(at, ss, Len(ss), FlattenSeq(ss))
  BY <1>2, FlattenSeqPlaces
<1>5. PICK at : PlacedBy(at, ss, NTask, Received(r))
  BY <1>2, <1>3, <1>4
<1>6. ElementsTo(ss, NTask) = SentElements(r)
  BY <1>0, <1>1 DEF ElementsTo, SentElements
<1>7. \A e \in SentElements(r) : ss[e[1]][e[2]] = sent[e[1]][r][e[2]]
  BY <1>1 DEF SentElements
<1>8. ReceivedAs(at, r)
  BY <1>5, <1>6, <1>7 DEF ReceivedAs, PlacedBy
<1>. QED BY <1>3, <1>4, <1>8

\* What arrives is what the plan says.
LEMMA ReceivedRight ==
  ASSUME ExTypeOK, NEW r \in Ranks, \A q \in Ranks : OnPlan(q, r)
  PROVE  /\ Received(r) \in Seq(Arrival)
         /\ Len(Received(r)) = ToGetSum(r) /\ ToGetSum(r) \in Nat
         /\ \A t \in SlotTypes : Cardinality(TypeAt(Received(r), t)) = ToGetType(r, t)
         /\ \A k \in 1..Len(Received(r)) :
              Sound(Received(r)[k]) /\ target[Received(r)[k].part.ID[1]] = r
<1>. DEFINE E == SentElements(r)
            f == Received(r)
            G == Arriving(r)
            g == [e \in E |-> <<e[1], InOrder(LeavingTo(e[1], r))[e[2]]>>]
<1>1. f \in Seq(Arrival) /\ Len(f) \in Nat
  <2>1. f \in Seq(Arrival)
    BY ReceivedPlaces
  <2>. QED BY <2>1
<1>2. PICK at : ReceivedAs(at, r)
  BY ReceivedPlaces
<1>3. /\ at \in Bijection(E, 1..Len(f))
      /\ at \in [E -> 1..Len(f)]
      /\ \A k \in 1..Len(f) : \E e \in E : at[e] = k
      /\ \A e \in E : f[at[e]] = sent[e[1]][r][e[2]]
  BY <1>2 DEF ReceivedAs, Bijection, Surjection
<1>4. G = {e \in Ranks \X Nat : e[2] \in LeavingTo(e[1], r)} /\ IsFiniteSet(G)
  BY ArrivingFinite
<1>5. ASSUME NEW q \in Ranks
      PROVE  /\ Len(sent[q][r]) = Cardinality(LeavingTo(q, r)) /\ Cardinality(LeavingTo(q, r)) \in Nat
             /\ DOMAIN sent[q][r] = 1..Cardinality(LeavingTo(q, r))
             /\ InOrder(LeavingTo(q, r)) \in [1..Cardinality(LeavingTo(q, r)) -> LeavingTo(q, r)]
             /\ \A n \in LeavingTo(q, r) :
                  /\ n \in Nat
                  /\ CountTo(LeavingTo(q, r), n) \in 1..Cardinality(LeavingTo(q, r))
                  /\ InOrder(LeavingTo(q, r))[CountTo(LeavingTo(q, r), n)] = n
             /\ \A k \in 1..Cardinality(LeavingTo(q, r)) :
                  CountTo(LeavingTo(q, r), InOrder(LeavingTo(q, r))[k]) = k
  <2>1. Len(sent[q][r]) = Cardinality(LeavingTo(q, r)) /\ sent[q][r] \in Seq(Arrival)
    BY DEF OnPlan, ExTypeOK
  <2>2. \A n \in LeavingTo(q, r) : n \in Nat
    BY LeavingToOrder
  <2>. QED BY <2>1, <2>2, LeavingToOrder
<1>6. \A e \in E : e = <<e[1], e[2]>> /\ e[1] \in Ranks /\ e[2] \in 1..Cardinality(LeavingTo(e[1], r))
                   /\ e[2] \in DOMAIN sent[e[1]][r]
  <2>1. \A e \in E : e = <<e[1], e[2]>> /\ e[1] \in Ranks /\ e[2] \in Nat \ {0} /\ e[2] <= Len(sent[e[1]][r])
    BY DEF SentElements
  <2>. QED BY <1>5, <2>1
<1>7. g \in Bijection(E, G)
  <2>1. \A e \in E : g[e] = <<e[1], InOrder(LeavingTo(e[1], r))[e[2]]>>
    OBVIOUS
  <2>2. g \in [E -> G]
    <3>1. ASSUME NEW e \in E PROVE <<e[1], InOrder(LeavingTo(e[1], r))[e[2]]>> \in G
      <4>1. e[1] \in Ranks /\ InOrder(LeavingTo(e[1], r))[e[2]] \in LeavingTo(e[1], r)
        BY <1>5, <1>6
      <4>2. InOrder(LeavingTo(e[1], r))[e[2]] \in Nat
        BY <1>5, <4>1
      <4>. QED BY <1>4, <4>1, <4>2
    <3>. HIDE DEF E, G
    <3>. QED BY <3>1
  <2>3. ASSUME NEW d \in E, NEW e \in E, g[d] = g[e] PROVE d = e
    <3>1. d[1] = e[1] /\ InOrder(LeavingTo(d[1], r))[d[2]] = InOrder(LeavingTo(d[1], r))[e[2]]
      BY <2>1, <2>3
    <3>2. d[2] = e[2]
      BY <1>5, <1>6, <3>1, SMTT(30)
    <3>. QED BY <1>6, <3>1, <3>2
  <2>4. ASSUME NEW a \in G PROVE \E e \in E : g[e] = a
    <3>1. a[1] \in Ranks /\ a[2] \in LeavingTo(a[1], r) /\ a = <<a[1], a[2]>>
      BY <1>4
    <3>. DEFINE e == <<a[1], CountTo(LeavingTo(a[1], r), a[2])>>
    <3>2. /\ CountTo(LeavingTo(a[1], r), a[2]) \in 1..Cardinality(LeavingTo(a[1], r))
          /\ InOrder(LeavingTo(a[1], r))[CountTo(LeavingTo(a[1], r), a[2])] = a[2]
          /\ Len(sent[a[1]][r]) = Cardinality(LeavingTo(a[1], r)) /\ Cardinality(LeavingTo(a[1], r)) \in Nat
      BY <1>5, <3>1
    <3>3. e \in E
      BY <3>1, <3>2 DEF SentElements
    <3>4. g[e] = a
      BY <2>1, <3>1, <3>2, <3>3
    <3>. QED BY <3>3, <3>4
  <2>. HIDE DEF g, E, G
  <2>. QED BY <2>2, <2>3, <2>4 DEF Bijection, Injection, IsInjective, Surjection
<1>8. \A e \in E : f[at[e]].part.Type = layouts[g[e][1]][g[e][2]].type
  <2>1. ASSUME NEW e \in E PROVE f[at[e]].part.Type = layouts[e[1]][InOrder(LeavingTo(e[1], r))[e[2]]].type
    <3>1. e[1] \in Ranks /\ e[2] \in DOMAIN sent[e[1]][r]
      BY <1>6
    <3>2. sent[e[1]][r][e[2]].part.Type = layouts[e[1]][InOrder(LeavingTo(e[1], r))[e[2]]].type
      BY <3>1 DEF OnPlan
    <3>. QED BY <1>3, <3>2
  <2>. QED BY <2>1
<1>9. IsFiniteSet(1..Len(f)) /\ Cardinality(1..Len(f)) = Len(f)
  <2>1. IsFiniteSet(1..Len(f)) /\ Cardinality(1..Len(f)) = IF 1 <= Len(f) THEN Len(f) - 1 + 1 ELSE 0
    BY <1>1, FS_Interval
  <2>. QED BY <1>1, <2>1
<1>10. ASSUME NEW k \in 1..Len(f) PROVE Sound(f[k]) /\ target[f[k].part.ID[1]] = r
  <2>1. PICK e \in E : at[e] = k
    BY <1>3
  <2>2. e[1] \in Ranks /\ e[2] \in DOMAIN sent[e[1]][r] /\ f[k] = sent[e[1]][r][e[2]]
    BY <1>3, <1>6, <2>1
  <2>3. /\ ~f[k].part.IsGarbage /\ target[f[k].part.ID[1]] = r
        /\ HasSlot(f[k].part) => f[k].slot.ID = f[k].part.ID
    BY <2>2, SMTT(30) DEF OnPlan
  <2>. QED BY <2>3 DEF Sound
<1>. HIDE DEF g, E, G, f
<1>11. Len(f) = Cardinality(G)
  <2>1. Cardinality(E) = Cardinality(1..Len(f))
    BY <1>3, <1>9, SameCount
  <2>2. Cardinality(E) = Cardinality(G)
    <3>1. \A e \in E : e \in E <=> g[e] \in G
      BY <1>7 DEF Bijection, Surjection
    <3>. QED BY <1>4, <1>7, <3>1, SameCount
  <2>. QED BY <1>9, <2>1, <2>2
<1>12. ASSUME NEW t \in SlotTypes PROVE Cardinality(TypeAt(f, t)) = ToGetType(r, t)
  <2>. DEFINE C == {e \in E : f[at[e]].part.Type = t}
              T == {k \in 1..Len(f) : f[k].part.Type = t}
              H == {a \in G : layouts[a[1]][a[2]].type = t}
  <2>1. C \in SUBSET E /\ T \in SUBSET (1..Len(f)) /\ H \in SUBSET G
    OBVIOUS
  <2>2. \A e \in E : e \in C <=> at[e] \in T
    BY <1>3
  <2>3. \A e \in E : e \in C <=> g[e] \in H
    <3>1. \A e \in E : g[e] \in G
      BY <1>7 DEF Bijection, Surjection
    <3>. QED BY <1>8, <3>1
  <2>4. TypeAt(f, t) = T /\ ToGetType(r, t) = Cardinality(H)
    BY DEF TypeAt, ToGetType, G
  <2>. HIDE DEF C, T, H
  <2>5. Cardinality(C) = Cardinality(T)
    <3>1. ASSUME NEW N, N = 1..Len(f) PROVE Cardinality(C) = Cardinality(T)
      <4>1. at \in Bijection(E, N) /\ IsFiniteSet(N)
        BY <1>3, <1>9, <3>1
      <4>2. T \in SUBSET N
        BY <2>1, <3>1
      <4>3. C \in SUBSET E
        BY <2>1
      <4>. QED BY <2>2, <4>1, <4>2, <4>3, SameCount
    <3>. QED BY <3>1
  <2>6. Cardinality(C) = Cardinality(H)
    BY <1>4, <1>7, <2>1, <2>3, SameCount
  <2>. QED BY <2>4, <2>5, <2>6
<1>13. ToGetSum(r) = Cardinality(G) /\ ToGetSum(r) \in Nat
  BY ArrivingFinite DEF ToGetSum, G
<1>. QED BY <1>1, <1>10, <1>11, <1>12, <1>13 DEF f

\* The list has the particles that are to leave, each once.
LEMMA ExchangeListRight ==
  ASSUME ExTypeOK, NEW r \in Ranks
  PROVE  LET W == {i \in LiveIndices(st[r]) : TargetOf(r, i) # r}
             l == ExchangeList(r) IN
         /\ LiveIndices(st[r]) \in SUBSET (1..NumPart(st[r])) /\ NumPart(st[r]) \in Nat
         /\ IsFiniteSet(LiveIndices(st[r])) /\ NLive(r) \in Nat /\ NLive(r) <= NumPart(st[r])
         /\ l \in Seq(Nat) /\ Len(l) \in Nat /\ DOMAIN l = 1..Len(l)
         /\ \A n \in 1..Len(l) : l[n] \in W
         /\ \A n, m \in 1..Len(l) : l[n] = l[m] => n = m
         /\ \A i \in W : \E n \in 1..Len(l) : l[n] = i
<1>. DEFINE W == {i \in LiveIndices(st[r]) : TargetOf(r, i) # r}
            l == ExchangeList(r)
            c == Cardinality(W)
<1>1. LiveIndices(st[r]) \in SUBSET (1..NumPart(st[r])) /\ NumPart(st[r]) \in Nat
  <2>1. st[r] \in Store
    BY DEF ExTypeOK
  <2>. QED BY <2>1, StoreParts
<1>2. IsFiniteSet(LiveIndices(st[r])) /\ NLive(r) \in Nat /\ NLive(r) <= NumPart(st[r])
  <2>. DEFINE N == 1..NumPart(st[r])
  <2>1. IsFiniteSet(N) /\ Cardinality(N) = IF 1 <= NumPart(st[r]) THEN NumPart(st[r]) - 1 + 1 ELSE 0
    BY <1>1, FS_Interval
  <2>2. Cardinality(N) = NumPart(st[r])
    BY <1>1, <2>1
  <2>3. LiveIndices(st[r]) \in SUBSET N
    BY <1>1
  <2>. HIDE DEF N
  <2>4. /\ IsFiniteSet(LiveIndices(st[r])) /\ Cardinality(LiveIndices(st[r])) <= Cardinality(N)
        /\ Cardinality(LiveIndices(st[r])) \in Nat
    BY <2>1, <2>3, FS_Subset, FS_CardinalityType
  <2>. QED BY <2>2, <2>4 DEF NLive
<1>3. W \in SUBSET Int /\ W \in SUBSET Nat /\ IsFiniteSet(W)
  <2>1. \A i \in LiveIndices(st[r]) : i \in Int /\ i \in Nat
    BY <1>1
  <2>2. W \in SUBSET LiveIndices(st[r])
    OBVIOUS
  <2>3. IsFiniteSet(W)
    <3>. HIDE DEF W
    <3>. QED BY <1>2, <2>2, FS_Subset
  <2>. QED BY <2>1, <2>2, <2>3
<1>4. l = InOrder(W)
  BY DEF ExchangeList
<1>. HIDE DEF W, l
<1>5. /\ c \in Nat /\ l \in [1..c -> W]
      /\ \A k \in 1..c : CountTo(W, l[k]) = k
      /\ \A i \in W : CountTo(W, i) \in 1..c /\ l[CountTo(W, i)] = i
  BY <1>3, <1>4, InOrderProperties
<1>. HIDE DEF c
<1>6. l \in Seq(Nat) /\ Len(l) = c /\ DOMAIN l = 1..c
  <2>1. l \in [1..c -> Nat]
    BY <1>3, <1>5
  <2>. QED BY <1>5, <2>1
<1>7. \A n, m \in 1..c : l[n] = l[m] => n = m
  BY <1>5
<1>8. \A i \in W : \E n \in 1..c : l[n] = i
  BY <1>5
<1>. QED BY <1>1, <1>2, <1>5, <1>6, <1>7, <1>8 DEF l, W

\* Particles of this round on rank r, at pack.
PackingInv(r) ==
  /\ st[r] \in Store /\ SlotsMatch(st[r])
  /\ list[r] = ExchangeList(r)
  /\ Len(layouts[r]) <= Len(list[r])
  /\ \A n \in 1..Len(layouts[r]) :
       layouts[r][n] = [target |-> TargetOf(r, list[r][n]), type |-> st[r].P[list[r][n]].Type]

\* What is removed.
LEMMA InThisRoundRight ==
  ASSUME ExTypeOK, NEW r \in Ranks, PackingInv(r)
  PROVE  /\ InThisRound(r) \in SUBSET LiveIndices(st[r])
         /\ \A i \in InThisRound(r) : TargetOf(r, i) # r
         /\ Cardinality(LiveIndices(st[r]) \ InThisRound(r)) = NLive(r) - ToGoSum(r)
         /\ ~NotFinished(r) => \A i \in LiveIndices(st[r]) \ InThisRound(r) : TargetOf(r, i) = r
<1>. DEFINE G == InThisRound(r)
            L == LiveIndices(st[r])
            N == 1..Len(layouts[r])
            f == [n \in N |-> list[r][n]]
<1>1. /\ list[r] \in Seq(Nat) /\ Len(list[r]) \in Nat /\ NLive(r) \in Nat /\ IsFiniteSet(L)
      /\ \A n \in 1..Len(list[r]) : list[r][n] \in L /\ TargetOf(r, list[r][n]) # r
      /\ \A n, m \in 1..Len(list[r]) : list[r][n] = list[r][m] => n = m
      /\ \A i \in L : TargetOf(r, i) # r => \E n \in 1..Len(list[r]) : list[r][n] = i
  BY ExchangeListRight DEF PackingInv
<1>2. Len(layouts[r]) \in Nat /\ DOMAIN layouts[r] = N /\ Len(layouts[r]) <= Len(list[r])
  <2>1. layouts[r] \in Seq(Layout)
    BY DEF ExTypeOK
  <2>. QED BY <2>1 DEF PackingInv
<1>3. \A n \in N : n \in 1..Len(list[r])
  BY <1>1, <1>2
<1>4. G = {list[r][n] : n \in N}
  BY <1>2 DEF InThisRound
<1>5. G \in SUBSET L /\ \A i \in G : TargetOf(r, i) # r
  BY <1>1, <1>3, <1>4, SMTT(30)
<1>6. f \in [N -> G] /\ (\A m, n \in N : f[m] = f[n] => m = n) /\ \A i \in G : \E n \in N : f[n] = i
  BY <1>1, <1>3, <1>4
<1>7. Cardinality(N) = ToGoSum(r)
  <2>0. Len(layouts[r]) \in Nat
    BY <1>2
  <2>1. Cardinality(1..Len(layouts[r])) = IF 1 <= Len(layouts[r]) THEN Len(layouts[r]) - 1 + 1 ELSE 0
    BY <2>0, FS_Interval, SMTT(30)
  <2>. QED BY <2>0, <2>1 DEF ToGoSum
<1>. HIDE DEF f, G, N, L
<1>8. IsFiniteSet(G) /\ L \cap G = G
  BY <1>1, <1>5, FS_Subset
<1>9. Cardinality(N) = Cardinality(G)
  <2>1. f \in Bijection(N, G)
    BY <1>6 DEF Bijection, Injection, IsInjective, Surjection
  <2>. QED BY <1>6, <1>8, <2>1, SameCount
<1>10. Cardinality(L \ G) = NLive(r) - ToGoSum(r)
  <2>1. Cardinality(L \ G) = Cardinality(L) - Cardinality(L \cap G)
    BY <1>1, FS_Difference
  <2>. QED BY <1>7, <1>8, <1>9, <2>1 DEF NLive, L
<1>11. ASSUME ~NotFinished(r), NEW i \in L \ G PROVE TargetOf(r, i) = r
  <2>1. Len(layouts[r]) = Len(list[r])
    BY <1>1, <1>2, <1>11 DEF NotFinished
  <2>2. G = {list[r][n] : n \in 1..Len(list[r])}
    BY <1>4, <2>1 DEF N
  <2>. QED BY <1>1, <1>11, <2>2
<1>. QED BY <1>5, <1>10, <1>11 DEF G, L

\* What is sent for it.
LEMMA PackedRight ==
  ASSUME ExTypeOK, NEW r \in Ranks, NEW q \in Ranks, PackingInv(r)
  PROVE  LET L == LeavingTo(r, q) IN
         /\ Packed(r, q) \in Seq(Arrival)
         /\ Len(Packed(r, q)) = Cardinality(L) /\ DOMAIN Packed(r, q) = 1..Cardinality(L)
         /\ \A k \in 1..Cardinality(L) :
              LET a == Packed(r, q)[k]
                  i == list[r][InOrder(L)[k]] IN
              /\ i \in InThisRound(r) /\ i \in LiveIndices(st[r]) /\ a.part = st[r].P[i]
              /\ a.part.Type = layouts[r][InOrder(L)[k]].type
              /\ ~a.part.IsGarbage
              /\ target[a.part.ID[1]] = q
              /\ HasSlot(a.part) => a.slot.ID = a.part.ID
<1>. DEFINE L == LeavingTo(r, q)
            c == Cardinality(L)
            f == InOrder(L)
            s == st[r]
<1>1. /\ c \in Nat /\ f \in [1..c -> L] /\ L \in SUBSET (1..Len(layouts[r]))
      /\ DOMAIN layouts[r] = 1..Len(layouts[r]) /\ Len(layouts[r]) \in Nat
  BY LeavingToOrder
<1>2. /\ Len(list[r]) \in Nat
      /\ \A n \in 1..Len(list[r]) : list[r][n] \in LiveIndices(s)
  BY ExchangeListRight DEF PackingInv
<1>3. ASSUME NEW n \in L
      PROVE  /\ list[r][n] \in LiveIndices(s) /\ list[r][n] \in InThisRound(r)
             /\ layouts[r][n].type = s.P[list[r][n]].Type
             /\ target[s.P[list[r][n]].ID[1]] = q
  <2>1. n \in 1..Len(layouts[r]) /\ n \in DOMAIN layouts[r] /\ n \in 1..Len(list[r])
    BY <1>1, <1>2 DEF PackingInv
  <2>2. layouts[r][n] = [target |-> TargetOf(r, list[r][n]), type |-> st[r].P[list[r][n]].Type]
    BY <2>1 DEF PackingInv
  <2>3. layouts[r][n].target = q
    BY SMTT(30) DEF LeavingTo
  <2>4. list[r][n] \in LiveIndices(s)
    BY <1>2, <2>1
  <2>5. list[r][n] \in InThisRound(r)
    BY <2>1 DEF InThisRound
  <2>6. layouts[r][n].type = s.P[list[r][n]].Type /\ layouts[r][n].target = TargetOf(r, list[r][n])
    BY <2>2
  <2>7. target[s.P[list[r][n]].ID[1]] = q
    BY <2>3, <2>6 DEF TargetOf
  <2>. QED BY <2>4, <2>5, <2>6, <2>7
<1>4. ASSUME NEW i \in LiveIndices(s)
      PROVE  /\ s.P[i] \in Particle /\ ~s.P[i].IsGarbage
             /\ SlotOf(s, s.P[i]) \in SlotData
             /\ HasSlot(s.P[i]) => SlotOf(s, s.P[i]).ID = s.P[i].ID
  <2>1. s \in Store /\ SlotsMatch(s)
    BY DEF PackingInv
  <2>2. s.P[i] \in Particle /\ ~s.P[i].IsGarbage
    <3>. HIDE DEF s
    <3>1. i \in 1..NumPart(s) /\ ~s.P[i].IsGarbage
      BY DEF LiveIndices
    <3>. QED BY <2>1, <3>1, StoreParts
  <2>3. CASE HasSlot(s.P[i])
    <3>1. OwnsSlot(s, i)
      BY <2>1 DEF SlotsMatch
    <3>2. s.P[i].Type \in SlotTypes /\ s.P[i].PI \in 1..Size(s, s.P[i].Type)
          /\ s.slot[s.P[i].Type][s.P[i].PI].ID = s.P[i].ID
      BY <2>3, <3>1 DEF OwnsSlot, HasSlot
    <3>. HIDE DEF s
    <3>3. s.slot[s.P[i].Type][s.P[i].PI] \in SlotData
      BY <2>1, <3>2, StoreParts
    <3>. QED BY <2>2, <2>3, <3>2, <3>3 DEF SlotOf
  <2>4. CASE ~HasSlot(s.P[i])
    BY <2>2, <2>4 DEF SlotOf, Unwritten, SlotData
  <2>. QED BY <2>2, <2>3, <2>4
<1>5. Packed(r, q) = [k \in DOMAIN f |->
         [part |-> s.P[list[r][f[k]]], slot |-> SlotOf(s, s.P[list[r][f[k]]])]]
  BY DEF Packed
<1>. HIDE DEF L, c, f, s
<1>6. ASSUME NEW k \in 1..c
      PROVE  /\ f[k] \in L
             /\ Packed(r, q)[k] = [part |-> s.P[list[r][f[k]]], slot |-> SlotOf(s, s.P[list[r][f[k]]])]
             /\ Packed(r, q)[k] \in Arrival
  <2>1. f[k] \in L /\ k \in DOMAIN f
    BY <1>1
  <2>2. s.P[list[r][f[k]]] \in Particle /\ SlotOf(s, s.P[list[r][f[k]]]) \in SlotData
    BY <1>3, <1>4, <2>1
  <2>. QED BY <1>5, <2>1, <2>2 DEF Arrival
<1>7. Packed(r, q) \in [1..c -> Arrival]
  <2>1. DOMAIN f = 1..c
    BY <1>1
  <2>2. Packed(r, q) = [k \in 1..c |-> Packed(r, q)[k]]
    BY <1>5, <2>1
  <2>. QED BY <1>6, <2>2
<1>8. Packed(r, q) \in Seq(Arrival) /\ Len(Packed(r, q)) = c /\ DOMAIN Packed(r, q) = 1..c
  BY <1>1, <1>7
<1>9. ASSUME NEW k \in 1..c
      PROVE  LET a == Packed(r, q)[k]
                 i == list[r][f[k]] IN
             /\ i \in InThisRound(r) /\ i \in LiveIndices(s) /\ a.part = s.P[i]
             /\ a.part.Type = layouts[r][f[k]].type
             /\ ~a.part.IsGarbage
             /\ target[a.part.ID[1]] = q
             /\ HasSlot(a.part) => a.slot.ID = a.part.ID
  <2>. DEFINE i == list[r][f[k]]
  <2>0. Packed(r, q)[k] = [part |-> s.P[i], slot |-> SlotOf(s, s.P[i])]
    BY <1>6
  <2>. HIDE DEF i
  <2>1. Packed(r, q)[k].part = s.P[i] /\ Packed(r, q)[k].slot = SlotOf(s, s.P[i])
    BY <2>0
  <2>1a. f[k] \in L
    BY <1>6
  <2>2. /\ i \in LiveIndices(s) /\ i \in InThisRound(r)
        /\ layouts[r][f[k]].type = s.P[i].Type
        /\ target[s.P[i].ID[1]] = q
    BY <1>3, <2>1a DEF i
  <2>3. ~s.P[i].IsGarbage /\ (HasSlot(s.P[i]) => SlotOf(s, s.P[i]).ID = s.P[i].ID)
    BY <1>4, <2>2
  <2>. QED BY <2>1, <2>2, <2>3 DEF i
<1>. QED BY <1>8, <1>9 DEF L, c, f, s

\* The particles of a rank at the start.
HomeSet(home, r) == {n \in DOMAIN TypeOf : home[n] = r}
TypeSet(home, r, t) == {n \in DOMAIN TypeOf : home[n] = r /\ TypeOf[n] = t}

\* The particles of the run are finitely many.
LEMMA TypeOfFacts ==
  /\ TypeOf \in Seq(PartTypes) /\ DOMAIN TypeOf \in SUBSET Nat /\ IsFiniteSet(DOMAIN TypeOf)
  /\ \A n \in DOMAIN TypeOf : TypeOf[n] \in PartTypes
  /\ SlotsFree \in Nat
<1>1. TypeOf \in Seq(PartTypes) /\ Len(TypeOf) \in Nat /\ DOMAIN TypeOf = 1..Len(TypeOf) /\ SlotsFree \in Nat
  <2>1. TypeOf \in Seq(PartTypes) /\ SlotsFree \in Nat
    BY ExchangeAssumption, StoreAssumption
  <2>. QED BY <2>1
<1>2. IsFiniteSet(1..Len(TypeOf)) /\ 1..Len(TypeOf) \in SUBSET Nat
  BY <1>1, FS_Interval
<1>. QED BY <1>1, <1>2

\* The particles of a set in increasing order.
LEMMA HomeOrder ==
  ASSUME NEW S \in SUBSET (DOMAIN TypeOf)
  PROVE  /\ Cardinality(S) \in Nat /\ InOrder(S) \in [1..Cardinality(S) -> S]
         /\ InOrder(S) \in Seq(S) /\ Len(InOrder(S)) = Cardinality(S)
         /\ DOMAIN InOrder(S) = 1..Cardinality(S)
         /\ \A k \in 1..Cardinality(S) : CountTo(S, InOrder(S)[k]) = k
         /\ \A i \in S : /\ CountTo(S, i) \in 1..Cardinality(S)
                         /\ InOrder(S)[CountTo(S, i)] = i
<1>1. S \in SUBSET Int /\ IsFiniteSet(S)
  BY TypeOfFacts, FS_Subset
<1>2. /\ Cardinality(S) \in Nat /\ InOrder(S) \in [1..Cardinality(S) -> S]
      /\ \A k \in 1..Cardinality(S) : CountTo(S, InOrder(S)[k]) = k
      /\ \A i \in S : /\ CountTo(S, i) \in 1..Cardinality(S)
                      /\ InOrder(S)[CountTo(S, i)] = i
  BY <1>1, InOrderProperties
<1>. QED BY <1>2

\* Particle i of rank r: number n of the run, with the place of its slot.
InitParticleAt(home, r, i) ==
  LET n == InOrder(HomeSet(home, r))[i] IN
  [ID |-> <<n, 0>>, Type |-> TypeOf[n], IsGarbage |-> n \in InitGarbage, Generation |-> 0,
   PI |-> IF TypeOf[n] \in SlotTypes THEN CountTo(TypeSet(home, r, TypeOf[n]), n) ELSE 0]

InitSlotAt(home, r, t, k) ==
  LET n == InOrder(TypeSet(home, r, t))[k] IN
  [ID |-> <<n, 0>>, ReverseLink |-> IF n \in InitGarbage THEN Garbage ELSE 0]

\* The store of a rank at the start, index by index.
LEMMA InitStoreParts ==
  ASSUME NEW home \in [DOMAIN TypeOf -> Ranks], NEW r \in Ranks
  PROVE  LET s == InitStore(home, r)
             c == Cardinality(HomeSet(home, r)) IN
         /\ c \in Nat /\ NumPart(s) = c
         /\ s \in Store
         /\ \A i \in 1..c : s.P[i] = InitParticleAt(home, r, i)
         /\ \A t \in SlotTypes :
              LET d == Cardinality(TypeSet(home, r, t)) IN
              /\ d \in Nat /\ Size(s, t) = d /\ s.maxsize[t] \in Nat /\ d <= s.maxsize[t]
              /\ \A k \in 1..d : s.slot[t][k] = InitSlotAt(home, r, t, k)
<1>. DEFINE s == InitStore(home, r)
            H == HomeSet(home, r)
            T(t) == TypeSet(home, r, t)
            c == Cardinality(H)
            d(t) == Cardinality(T(t))
<1>1. H \in SUBSET (DOMAIN TypeOf) /\ \A t : T(t) \in SUBSET (DOMAIN TypeOf)
  BY DEF HomeSet, TypeSet
<1>2. /\ InitIds(home, r) = InOrder(H) /\ \A t : InitSlots(home, r, t) = InOrder(T(t))
  BY DEF InitIds, InitSlots, HomeSet, TypeSet
<1>3. c \in Nat /\ DOMAIN InOrder(H) = 1..c /\ \A i \in 1..c : InOrder(H)[i] \in H
  <2>. HIDE DEF H
  <2>1. InOrder(H) \in [1..c -> H] /\ c \in Nat
    BY <1>1, HomeOrder
  <2>. QED BY <2>1
<1>4. \A t : /\ d(t) \in Nat /\ DOMAIN InOrder(T(t)) = 1..d(t) /\ Len(InOrder(T(t))) = d(t)
             /\ \A k \in 1..d(t) : InOrder(T(t))[k] \in T(t) /\ CountTo(T(t), InOrder(T(t))[k]) = k
             /\ \A n \in T(t) : CountTo(T(t), n) \in 1..d(t) /\ InOrder(T(t))[CountTo(T(t), n)] = n
  <2>. SUFFICES ASSUME NEW t
                PROVE  /\ d(t) \in Nat /\ DOMAIN InOrder(T(t)) = 1..d(t) /\ Len(InOrder(T(t))) = d(t)
                       /\ \A k \in 1..d(t) : InOrder(T(t))[k] \in T(t) /\ CountTo(T(t), InOrder(T(t))[k]) = k
                       /\ \A n \in T(t) : CountTo(T(t), n) \in 1..d(t) /\ InOrder(T(t))[CountTo(T(t), n)] = n
    OBVIOUS
  <2>1. T(t) \in SUBSET (DOMAIN TypeOf)
    BY <1>1
  <2>. HIDE DEF T
  <2>2. InOrder(T(t)) \in [1..d(t) -> T(t)]
    BY <2>1, HomeOrder
  <2>3. \A k \in 1..d(t) : InOrder(T(t))[k] \in T(t)
    BY <2>2
  <2>. QED BY <2>1, <2>3, HomeOrder
<1>5. \A i \in 1..c : LET n == InOrder(H)[i] IN n \in DOMAIN TypeOf /\ n \in Nat /\ n \in T(TypeOf[n])
                                               /\ TypeOf[n] \in PartTypes
  <2>1. \A n \in H : n \in DOMAIN TypeOf /\ n \in Nat /\ n \in T(TypeOf[n]) /\ TypeOf[n] \in PartTypes
    BY TypeOfFacts DEF HomeSet, TypeSet
  <2>. HIDE DEF H, T
  <2>. QED BY <1>3, <2>1
<1>. HIDE DEF H, T
<1>6. \A i \in 1..c : InitParticleAt(home, r, i) \in Particle
  <2>. SUFFICES ASSUME NEW i \in 1..c PROVE InitParticleAt(home, r, i) \in Particle
    OBVIOUS
  <2>. DEFINE n == InOrder(H)[i]
              pi == IF TypeOf[n] \in SlotTypes THEN CountTo(T(TypeOf[n]), n) ELSE 0
  <2>1. n \in Nat /\ n \in T(TypeOf[n]) /\ TypeOf[n] \in PartTypes
    BY <1>5
  <2>2. CountTo(T(TypeOf[n]), n) \in Nat
    <3>. HIDE DEF n
    <3>1. CountTo(T(TypeOf[n]), n) \in 1..d(TypeOf[n])
      BY <1>4, <2>1
    <3>. HIDE DEF d
    <3>. QED BY <3>1
  <2>3. InitParticleAt(home, r, i) = [ID |-> <<n, 0>>, Type |-> TypeOf[n], IsGarbage |-> n \in InitGarbage,
                                      Generation |-> 0, PI |-> pi]
    BY DEF InitParticleAt, H, T
  <2>. HIDE DEF n
  <2>4. pi \in Nat
    BY <2>2
  <2>5. (n \in InitGarbage) \in BOOLEAN
    OBVIOUS
  <2>. HIDE DEF pi
  <2>. QED BY <2>1, <2>3, <2>4, <2>5 DEF Particle
<1>7. /\ s.P = [i \in 1..c |-> InitParticleAt(home, r, i)]
      /\ s = [P |-> s.P, slot |-> s.slot, maxsize |-> s.maxsize]
      /\ s.slot = [t \in SlotTypes |-> [k \in 1..d(t) |-> InitSlotAt(home, r, t, k)]]
      /\ s.maxsize = [t \in SlotTypes |-> d(t) + SlotsFree]
  <2>. DEFINE P(i) == LET n == InOrder(H)[i] IN
                      [ID |-> <<n, 0>>, Type |-> TypeOf[n], IsGarbage |-> n \in InitGarbage, Generation |-> 0,
                       PI |-> IF TypeOf[n] \in SlotTypes
                              THEN CHOOSE k \in DOMAIN InOrder(T(TypeOf[n])) :
                                     InOrder(T(TypeOf[n]))[k] = n
                              ELSE NoSlot]
  <2>1. s = [P |-> [i \in 1..c |-> P(i)],
             slot |-> [t \in SlotTypes |-> [k \in DOMAIN InOrder(T(t)) |-> InitSlotAt(home, r, t, k)]],
             maxsize |-> [t \in SlotTypes |-> Len(InOrder(T(t))) + SlotsFree]]
    BY <1>2, <1>3, Zenon DEF InitStore, InitSlotAt, T
  <2>2. ASSUME NEW i \in 1..c PROVE P(i) = InitParticleAt(home, r, i)
    <3>. DEFINE n == InOrder(H)[i]
                f == InOrder(T(TypeOf[n]))
    <3>1. n \in T(TypeOf[n])
      BY <1>5
    <3>. HIDE DEF n
    <3>. DEFINE m == d(TypeOf[n])
                j == CountTo(T(TypeOf[n]), n)
    <3>2. DOMAIN f = 1..m /\ j \in 1..m /\ f[j] = n /\ \A k \in 1..m : CountTo(T(TypeOf[n]), f[k]) = k
      BY <1>4, <3>1
    <3>. HIDE DEF f, m
    <3>3. (CHOOSE k \in DOMAIN f : f[k] = n) = j
      BY <3>2
    <3>. QED BY <3>3 DEF InitParticleAt, NoSlot, n, f, H, T
  <2>. HIDE DEF P
  <2>3. [i \in 1..c |-> P(i)] = [i \in 1..c |-> InitParticleAt(home, r, i)]
    BY <2>2, Zenon
  <2>4. [t \in SlotTypes |-> [k \in DOMAIN InOrder(T(t)) |-> InitSlotAt(home, r, t, k)]]
        = [t \in SlotTypes |-> [k \in 1..d(t) |-> InitSlotAt(home, r, t, k)]]
    BY <1>4, Zenon
  <2>5. [t \in SlotTypes |-> Len(InOrder(T(t))) + SlotsFree] = [t \in SlotTypes |-> d(t) + SlotsFree]
    BY <1>4, Zenon
  <2>. HIDE DEF s
  <2>. QED BY <2>1, <2>3, <2>4, <2>5
<1>. HIDE DEF s, c
<1>8. s.P \in Seq(Particle) /\ NumPart(s) = c /\ \A i \in 1..c : s.P[i] = InitParticleAt(home, r, i)
  <2>1. s.P \in [1..c -> Particle]
    BY <1>6, <1>7
  <2>2. \A i \in 1..c : s.P[i] = InitParticleAt(home, r, i)
    BY <1>7
  <2>. QED BY <1>3, <2>1, <2>2 DEF NumPart
<1>9. ASSUME NEW t \in SlotTypes
      PROVE  /\ d(t) \in Nat /\ Size(s, t) = d(t) /\ s.maxsize[t] = d(t) + SlotsFree
             /\ s.slot[t] \in Seq(SlotData)
             /\ \A k \in 1..d(t) : s.slot[t][k] = InitSlotAt(home, r, t, k)
  <2>. DEFINE m == d(t)
              f == s.slot[t]
  <2>1. m \in Nat /\ f = [k \in 1..m |-> InitSlotAt(home, r, t, k)] /\ s.maxsize[t] = m + SlotsFree
    BY <1>4, <1>7
  <2>2. \A k \in 1..m : InitSlotAt(home, r, t, k) \in SlotData
    <3>. SUFFICES ASSUME NEW k \in 1..m PROVE InitSlotAt(home, r, t, k) \in SlotData
      OBVIOUS
    <3>1. InOrder(T(t))[k] \in T(t)
      BY <1>4
    <3>2. InOrder(T(t))[k] \in Nat
      BY <1>1, <3>1, TypeOfFacts
    <3>. QED BY <3>2, ConstantTypes DEF InitSlotAt, SlotData, T
  <2>. HIDE DEF m, f
  <2>3. f \in [1..m -> SlotData] /\ \A k \in 1..m : f[k] = InitSlotAt(home, r, t, k)
    BY <2>1, <2>2
  <2>4. f \in Seq(SlotData) /\ Len(f) = m
    BY <2>1, <2>3
  <2>. QED BY <2>1, <2>3, <2>4 DEF m, f, Size
<1>10. s \in Store
  <2>. DEFINE SL == s.slot
              M == s.maxsize
  <2>1. SL \in [SlotTypes -> Seq(SlotData)]
    <3>1. SL = [t \in SlotTypes |-> SL[t]]
      BY <1>7
    <3>2. \A t \in SlotTypes : SL[t] \in Seq(SlotData)
      BY <1>9
    <3>. HIDE DEF SL
    <3>. QED BY <3>1, <3>2
  <2>2. M \in [SlotTypes -> Nat]
    <3>1. M = [t \in SlotTypes |-> M[t]]
      BY <1>7
    <3>2. \A t \in SlotTypes : M[t] \in Nat
      BY <1>9, TypeOfFacts
    <3>. HIDE DEF M
    <3>. QED BY <3>1, <3>2
  <2>3. s = [P |-> s.P, slot |-> SL, maxsize |-> M]
    BY <1>7
  <2>. HIDE DEF SL, M
  <2>. QED BY <1>8, <2>1, <2>2, <2>3 DEF Store
<1>11. ASSUME NEW t \in SlotTypes PROVE s.maxsize[t] \in Nat /\ d(t) <= s.maxsize[t]
  BY <1>9, TypeOfFacts
<1>. QED BY <1>3, <1>8, <1>9, <1>10, <1>11 DEF s, c, H, T

\* At the start each particle has its slot.
LEMMA InitStoreSound ==
  ASSUME NEW home \in [DOMAIN TypeOf -> Ranks], NEW r \in Ranks
  PROVE  LET s == InitStore(home, r)
             H == HomeSet(home, r) IN
         /\ s \in Store /\ SlotsMatch(s) /\ OrphansMarked(s)
         /\ \A t \in SlotTypes : Size(s, t) <= s.maxsize[t]
         /\ \A i \in LiveIndices(s) :
              /\ i \in 1..Cardinality(H) /\ s.P[i].ID[1] = InOrder(H)[i]
              /\ s.P[i].ID[1] \in Ids /\ home[s.P[i].ID[1]] = r
         /\ \A n \in H : n \in Ids => \E i \in LiveIndices(s) : s.P[i].ID[1] = n
         /\ \A i, j \in LiveIndices(s) : s.P[i].ID[1] = s.P[j].ID[1] => i = j
<1>. DEFINE s == InitStore(home, r)
            H == HomeSet(home, r)
            T(t) == TypeSet(home, r, t)
            c == Cardinality(H)
            d(t) == Cardinality(T(t))
            f == InOrder(H)
            g(t) == InOrder(T(t))
<1>1. /\ c \in Nat /\ NumPart(s) = c /\ s \in Store
      /\ \A i \in 1..c : s.P[i] = InitParticleAt(home, r, i)
      /\ \A t \in SlotTypes :
           /\ d(t) \in Nat /\ Size(s, t) = d(t) /\ s.maxsize[t] \in Nat /\ d(t) <= s.maxsize[t]
           /\ \A k \in 1..d(t) : s.slot[t][k] = InitSlotAt(home, r, t, k)
  BY InitStoreParts
<1>2. H \in SUBSET (DOMAIN TypeOf) /\ \A t : T(t) \in SUBSET (DOMAIN TypeOf)
  BY DEF HomeSet, TypeSet
<1>3. /\ \A i \in 1..c : f[i] \in H /\ CountTo(H, f[i]) = i
      /\ \A n \in H : CountTo(H, n) \in 1..c /\ f[CountTo(H, n)] = n
  <2>. HIDE DEF H
  <2>1. f \in [1..c -> H]
    BY <1>2, HomeOrder
  <2>. QED BY <1>2, <2>1, HomeOrder
<1>4. \A t : /\ \A k \in 1..d(t) : g(t)[k] \in T(t) /\ CountTo(T(t), g(t)[k]) = k
             /\ \A n \in T(t) : CountTo(T(t), n) \in 1..d(t) /\ g(t)[CountTo(T(t), n)] = n
  <2>. SUFFICES ASSUME NEW t
                PROVE  /\ \A k \in 1..d(t) : g(t)[k] \in T(t) /\ CountTo(T(t), g(t)[k]) = k
                       /\ \A n \in T(t) : CountTo(T(t), n) \in 1..d(t) /\ g(t)[CountTo(T(t), n)] = n
    OBVIOUS
  <2>1. T(t) \in SUBSET (DOMAIN TypeOf)
    BY <1>2
  <2>. HIDE DEF T
  <2>2. g(t) \in [1..d(t) -> T(t)]
    BY <2>1, HomeOrder
  <2>3. \A k \in 1..d(t) : g(t)[k] \in T(t)
    BY <2>2
  <2>. QED BY <2>1, <2>3, HomeOrder
<1>5. \A i \in 1..c :
        /\ s.P[i].ID = <<f[i], 0>> /\ s.P[i].ID[1] = f[i] /\ s.P[i].Type = TypeOf[f[i]]
        /\ s.P[i].IsGarbage = (f[i] \in InitGarbage)
        /\ HasSlot(s.P[i]) => /\ TypeOf[f[i]] \in SlotTypes
                              /\ s.P[i].PI = CountTo(T(TypeOf[f[i]]), f[i])
  <2>. SUFFICES ASSUME NEW i \in 1..c
                PROVE  /\ s.P[i].ID = <<f[i], 0>> /\ s.P[i].ID[1] = f[i] /\ s.P[i].Type = TypeOf[f[i]]
                       /\ s.P[i].IsGarbage = (f[i] \in InitGarbage)
                       /\ HasSlot(s.P[i]) => /\ TypeOf[f[i]] \in SlotTypes
                                             /\ s.P[i].PI = CountTo(T(TypeOf[f[i]]), f[i])
    OBVIOUS
  <2>1. s.P[i] = [ID |-> <<f[i], 0>>, Type |-> TypeOf[f[i]], IsGarbage |-> f[i] \in InitGarbage,
                  Generation |-> 0,
                  PI |-> IF TypeOf[f[i]] \in SlotTypes THEN CountTo(T(TypeOf[f[i]]), f[i]) ELSE 0]
    BY <1>1 DEF InitParticleAt
  <2>. HIDE DEF s, f, T
  <2>2. /\ s.P[i].ID = <<f[i], 0>> /\ s.P[i].Type = TypeOf[f[i]]
        /\ s.P[i].IsGarbage = (f[i] \in InitGarbage)
        /\ s.P[i].PI = IF TypeOf[f[i]] \in SlotTypes THEN CountTo(T(TypeOf[f[i]]), f[i]) ELSE 0
    BY <2>1
  <2>. QED BY <2>2 DEF HasSlot
<1>6. \A t \in SlotTypes : \A k \in 1..d(t) :
        /\ s.slot[t][k].ID = <<g(t)[k], 0>>
        /\ g(t)[k] \in InitGarbage => s.slot[t][k].ReverseLink = Garbage
  <2>. SUFFICES ASSUME NEW t \in SlotTypes, NEW k \in 1..d(t)
                PROVE  /\ s.slot[t][k].ID = <<g(t)[k], 0>>
                       /\ g(t)[k] \in InitGarbage => s.slot[t][k].ReverseLink = Garbage
    OBVIOUS
  <2>1. s.slot[t][k] = InitSlotAt(home, r, t, k)
    BY <1>1
  <2>2. InitSlotAt(home, r, t, k) =
          [ID |-> <<g(t)[k], 0>>, ReverseLink |-> IF g(t)[k] \in InitGarbage THEN Garbage ELSE 0]
    BY DEF InitSlotAt
  <2>. HIDE DEF s, g
  <2>. QED BY <2>1, <2>2
<1>7. /\ \A n \in H : n \in DOMAIN TypeOf /\ home[n] = r /\ n \in T(TypeOf[n])
      /\ \A t : \A n \in T(t) : n \in H /\ TypeOf[n] = t
  BY DEF HomeSet, TypeSet
<1>. HIDE DEF s, H, T, c, d, f, g
<1>8. \A i \in LiveIndices(s) : i \in 1..c /\ f[i] \in H /\ f[i] \notin InitGarbage
  BY <1>1, <1>3, <1>5 DEF LiveIndices
<1>9. ASSUME NEW i \in LiveIndices(s)
      PROVE  i \in 1..c /\ s.P[i].ID[1] = f[i] /\ s.P[i].ID[1] \in Ids /\ home[s.P[i].ID[1]] = r
  <2>1. i \in 1..c /\ s.P[i].ID[1] = f[i] /\ f[i] \in H /\ f[i] \notin InitGarbage
    BY <1>5, <1>8
  <2>2. f[i] \in DOMAIN TypeOf /\ home[f[i]] = r
    BY <1>7, <2>1
  <2>. QED BY <2>1, <2>2 DEF Ids
<1>10. ASSUME NEW n \in H, n \in Ids PROVE \E i \in LiveIndices(s) : s.P[i].ID[1] = n
  <2>. DEFINE i == CountTo(H, n)
  <2>1. i \in 1..c /\ f[i] = n
    BY <1>3
  <2>. HIDE DEF i
  <2>2. ~s.P[i].IsGarbage /\ s.P[i].ID[1] = n
    BY <1>5, <1>10, <2>1 DEF Ids
  <2>3. i \in LiveIndices(s)
    BY <1>1, <2>1, <2>2 DEF LiveIndices
  <2>. QED BY <2>2, <2>3
<1>11. ASSUME NEW i \in 1..c, NEW j \in 1..c, f[i] = f[j] PROVE i = j
  BY <1>3, <1>11
<1>12. SlotsMatch(s)
  <2>1. ASSUME NEW i \in 1..c, HasSlot(s.P[i])
        PROVE  LET t == s.P[i].Type IN
               /\ t \in SlotTypes /\ t = TypeOf[f[i]] /\ f[i] \in T(t)
               /\ s.P[i].PI = CountTo(T(t), f[i]) /\ s.P[i].PI \in 1..d(t) /\ g(t)[s.P[i].PI] = f[i]
    <3>1. s.P[i].Type = TypeOf[f[i]] /\ TypeOf[f[i]] \in SlotTypes /\ s.P[i].PI = CountTo(T(TypeOf[f[i]]), f[i])
      BY <1>5, <2>1
    <3>2. f[i] \in T(TypeOf[f[i]])
      BY <1>3, <1>7
    <3>. QED BY <1>4, <3>1, <3>2
  <2>2. ASSUME NEW i \in LiveIndices(s), HasSlot(s.P[i])
        PROVE  s.P[i].PI \in 1..Size(s, s.P[i].Type) /\ s.slot[s.P[i].Type][s.P[i].PI].ID = s.P[i].ID
    <3>. DEFINE t == s.P[i].Type
                k == s.P[i].PI
    <3>1. i \in 1..c /\ s.P[i].ID = <<f[i], 0>>
      BY <1>5, <1>8
    <3>2. t \in SlotTypes /\ k \in 1..d(t) /\ g(t)[k] = f[i]
      BY <2>1, <2>2, <3>1
    <3>. HIDE DEF t, k
    <3>3. s.slot[t][k].ID = <<f[i], 0>> /\ Size(s, t) = d(t)
      BY <1>1, <1>6, <3>2
    <3>. QED BY <3>1, <3>2, <3>3 DEF t, k
  <2>3. ASSUME NEW i \in LiveIndices(s), NEW j \in LiveIndices(s), HasSlot(s.P[i]),
               s.P[i].Type = s.P[j].Type, s.P[i].PI = s.P[j].PI
        PROVE  i = j
    <3>1. i \in 1..c /\ j \in 1..c /\ HasSlot(s.P[j])
      BY <1>8, <2>3 DEF HasSlot
    <3>2. f[i] = f[j]
      BY <2>1, <2>3, <3>1
    <3>. QED BY <1>11, <3>1, <3>2
  <2>. QED BY <2>2, <2>3 DEF SlotsMatch, OwnsSlot
<1>13. OrphansMarked(s)
  <2>. SUFFICES ASSUME NEW t \in SlotTypes, NEW k \in 1..Size(s, t),
                       Owners(s, t, k) \cap LiveIndices(s) = {}
                PROVE  IsSlotGarbage(s.slot[t][k])
    BY DEF OrphansMarked
  <2>. DEFINE n == g(t)[k]
  <2>1. k \in 1..d(t)
    BY <1>1
  <2>2. n \in T(t) /\ CountTo(T(t), n) = k /\ n \in H /\ TypeOf[n] = t
    BY <1>4, <1>7, <2>1
  <2>. DEFINE i == CountTo(H, n)
  <2>3. i \in 1..c /\ f[i] = n
    BY <1>3, <2>2
  <2>. HIDE DEF i, n
  <2>4. s.P[i].Type = t /\ s.P[i].PI = k /\ s.P[i].IsGarbage = (n \in InitGarbage)
    BY <1>5, <2>2, <2>3 DEF HasSlot
  <2>5. i \in Owners(s, t, k)
    BY <1>1, <2>3, <2>4 DEF Owners
  <2>6. n \in InitGarbage
    BY <1>1, <2>3, <2>4, <2>5 DEF LiveIndices
  <2>7. s.slot[t][k].ReverseLink = Garbage
    BY <1>6, <2>1, <2>6 DEF n
  <2>. QED BY <2>7, ConstantTypes DEF IsSlotGarbage
<1>14. ASSUME NEW i \in LiveIndices(s), NEW j \in LiveIndices(s), s.P[i].ID[1] = s.P[j].ID[1] PROVE i = j
  BY <1>9, <1>11, <1>14
<1>15. \A t \in SlotTypes : Size(s, t) <= s.maxsize[t]
  BY <1>1
<1>. QED BY <1>1, <1>9, <1>10, <1>12, <1>13, <1>14, <1>15 DEF s, H, c, f

\* The exchange starts with tables that are sound and nothing on its way.
LEMMA InitInv == Init => IInv
<1>. SUFFICES ASSUME Init PROVE IInv
  OBVIOUS
<1>1. PICK home \in [DOMAIN TypeOf -> Ranks] : st = [r \in Ranks |-> InitStore(home, r)]
  BY DEF Init
<1>2. \A r \in Ranks : st[r] = InitStore(home, r)
  BY <1>1
<1>3. /\ pc = [r \in Ranks |-> "start"] /\ target \in [Ids -> Ranks] /\ list = [r \in Ranks |-> <<>>]
      /\ layouts = [r \in Ranks |-> <<>>] /\ iter = [r \in Ranks |-> 0] /\ sent = [r \in Ranks |-> Nothing]
      /\ compact = {} /\ failure = [r \in Ranks |-> FALSE]
      /\ \A r \in Ranks : NumPart(st[r]) <= MaxPart
  BY DEF Init
<1>4. \A r \in Ranks :
        /\ st[r] \in Store /\ SlotsMatch(st[r]) /\ OrphansMarked(st[r])
        /\ \A t \in SlotTypes : Size(st[r], t) <= st[r].maxsize[t]
        /\ \A i \in LiveIndices(st[r]) : st[r].P[i].ID[1] \in Ids /\ home[st[r].P[i].ID[1]] = r
        /\ \A n \in HomeSet(home, r) : n \in Ids => \E i \in LiveIndices(st[r]) : st[r].P[i].ID[1] = n
        /\ \A i, j \in LiveIndices(st[r]) : st[r].P[i].ID[1] = st[r].P[j].ID[1] => i = j
  BY <1>2, InitStoreSound
<1>5. \A r \in Ranks : pc[r] = "start"
  BY <1>3
<1>6. \A q, r \in Ranks : sent[q][r] = <<>> /\ DOMAIN sent[q][r] = {}
  BY <1>3 DEF Nothing
<1>7. ExTypeOK
  <2>1. pc \in [Ranks -> Local \cup Collective \cup {"returned"}]
    BY <1>3 DEF Local
  <2>2. st \in [Ranks -> Store]
    <3>1. st = [r \in Ranks |-> st[r]]
      BY <1>1
    <3>. QED BY <1>4, <3>1
  <2>3. <<>> \in Seq(Nat) /\ <<>> \in Seq(Layout) /\ <<>> \in Seq(Arrival)
    OBVIOUS
  <2>4. sent \in [Ranks -> [Ranks -> Seq(Arrival)]]
    <3>1. Nothing \in [Ranks -> Seq(Arrival)]
      BY <2>3 DEF Nothing
    <3>. QED BY <1>3, <3>1
  <2>5. list \in [Ranks -> Seq(Nat)] /\ layouts \in [Ranks -> Seq(Layout)]
    BY <1>3, <2>3
  <2>6. iter \in [Ranks -> 0..MaxIter] /\ compact \in SUBSET SlotTypes /\ failure \in [Ranks -> BOOLEAN]
    BY <1>3, RankFacts
  <2>. QED BY <1>3, <2>1, <2>2, <2>4, <2>5, <2>6 DEF ExTypeOK
<1>8. StageInv
  <2>1. {"start", "returned"} \in Stages
    BY DEF Stages
  <2>2. \A r \in Ranks : pc[r] \in {"start", "returned"}
    BY <1>5
  <2>3. \A q, r \in Ranks : iter[q] = iter[r] /\ failure[r] = FALSE
    BY <1>3
  <2>. QED BY <1>5, <2>1, <2>2, <2>3 DEF StageInv
<1>9. StoreInv
  BY <1>3, <1>4 DEF StoreInv
<1>10. CopiesInv
  <2>1. ASSUME NEW p \in Ids PROVE \E r \in Ranks : \E i \in LiveIndices(st[r]) : LiveAt(r, i, p)
    <3>1. p \in DOMAIN TypeOf
      BY DEF Ids
    <3>2. home[p] \in Ranks /\ p \in HomeSet(home, home[p])
      BY <3>1 DEF HomeSet
    <3>3. PICK i \in LiveIndices(st[home[p]]) : st[home[p]].P[i].ID[1] = p
      BY <1>4, <3>2
    <3>. QED BY <3>2, <3>3 DEF LiveAt
  <2>2. ASSUME NEW r \in Ranks, NEW r2 \in Ranks, NEW i \in LiveIndices(st[r]), NEW i2 \in LiveIndices(st[r2]),
               st[r].P[i].ID[1] = st[r2].P[i2].ID[1]
        PROVE  r = r2 /\ i = i2
    <3>1. r = r2
      BY <1>4, <2>2
    <3>. QED BY <1>4, <2>2, <3>1
  <2>. QED BY <1>4, <1>6, <2>1, <2>2 DEF CopiesInv
<1>11. PlanInv /\ SentInv /\ RoomInv
  <2>1. \A r \in Ranks : pc[r] \notin HasList /\ pc[r] \notin HasPlan /\ pc[r] \notin HasPacked
                         /\ pc[r] \notin ToUnpack
    BY <1>5 DEF HasList, HasPlan, HasPacked, ToUnpack
  <2>2. PlanInv
    BY <2>1 DEF PlanInv
  <2>3. SentInv
    BY <1>6, <2>1 DEF SentInv
  <2>4. RoomInv
    BY <1>5 DEF RoomInv
  <2>. QED BY <2>2, <2>3, <2>4
<1>. QED BY <1>7, <1>8, <1>9, <1>10, <1>11 DEF IInv

----------------------------------------------------------------------------
(* The first state and the steps.                                          *)

\* What ranks do next, after one of them or all of them have moved.
LEMMA PcAfter ==
  ASSUME ExTypeOK
  PROVE  /\ \A r \in Ranks : \A b : Go(r, b) => \A x \in Ranks : pc'[x] = IF x = r THEN b ELSE pc[x]
         /\ \A b : AllGo(b) => \A x \in Ranks : pc'[x] = b
<1>1. DOMAIN pc = Ranks
  BY DEF ExTypeOK
<1>. QED BY <1>1 DEF Go, AllGo

\* One rank moves inside a stage.
LEMMA StageGo ==
  ASSUME ExTypeOK, StageInv, NEW r \in Ranks, NEW b, Go(r, b), iter' = iter, failure' = failure,
         pc[r] \notin {"start", "returned"}, b \notin {"start", "returned"},
         \A S \in Stages : pc[r] \in S => b \in S
  PROVE  StageInv'
<1>1. \A x \in Ranks : pc'[x] = IF x = r THEN b ELSE pc[x]
  BY PcAfter
<1>2. \E S \in Stages : \A x \in Ranks : pc'[x] \in S
  <2>1. PICK S \in Stages : \A x \in Ranks : pc[x] \in S
    BY DEF StageInv
  <2>. QED BY <1>1, <2>1
<1>3. \A x \in Ranks : (pc'[x] = "returned" <=> pc[x] = "returned")
                       /\ (pc'[x] \in {"start", "returned"} <=> pc[x] \in {"start", "returned"})
  BY <1>1
<1>. QED BY <1>2, <1>3 DEF StageInv

\* All ranks go on together.
LEMMA StageAllGo ==
  ASSUME ExTypeOK, StageInv, NEW b, AllGo(b), \E S \in Stages : b \in S,
         \A q, r \in Ranks : iter'[q] = iter'[r] /\ failure'[q] = failure'[r],
         b \notin {"start", "returned"} => \A r \in Ranks : iter'[r] < MaxIter,
         \A r \in Ranks : failure'[r] => b = "returned"
  PROVE  StageInv'
<1>1. \A x \in Ranks : pc'[x] = b
  BY PcAfter
<1>2. \E S \in Stages : \A x \in Ranks : pc'[x] \in S
  BY <1>1
<1>. QED BY <1>1, <1>2 DEF StageInv

\* Where all ranks are, when one of them is at a place of one stage only.
LEMMA SameStage ==
  ASSUME StageInv, NEW r \in Ranks
  PROVE  /\ pc[r] \in {"build", "any_work"} => \A x \in Ranks : pc[x] \in {"start", "build", "any_work"}
         /\ pc[r] \in {"space", "any_full"} => \A x \in Ranks : pc[x] \in {"space", "any_full"}
         /\ pc[r] \in {"pack", "any_gc"} => \A x \in Ranks : pc[x] \in {"pack", "any_gc"}
         /\ pc[r] \in {"collect", "room", "particles"} =>
              \A x \in Ranks : pc[x] \in {"collect", "room", "particles"}
         /\ pc[r] \in {"reserve", "slots"} => \A x \in Ranks : pc[x] \in {"reserve", "slots"}
         /\ pc[r] \in {"unpack", "any_left"} => \A x \in Ranks : pc[x] \in {"unpack", "any_left"}
<1>1. PICK S \in Stages : \A x \in Ranks : pc[x] \in S
  BY DEF StageInv
<1>2. pc[r] \in S
  BY <1>1
<1>3. ASSUME NEW A \in {{"start", "build", "any_work"}, {"space", "any_full"}, {"pack", "any_gc"},
                        {"collect", "room", "particles"}, {"reserve", "slots"}, {"unpack", "any_left"}},
             pc[r] \in A, pc[r] # "start"
      PROVE  S = A
  BY <1>2, <1>3 DEF Stages
<1>. QED BY <1>1, <1>3

\* Invariants that a step leaves as they are.
LEMMA StoreFrame ==
  ASSUME StoreInv, st' = st
  PROVE  StoreInv'
BY DEF StoreInv

\* Nothing moves in a step that changes neither tables nor buffers.
LEMMA CopiesFrame ==
  ASSUME CopiesInv, st' = st, sent' = sent
  PROVE  CopiesInv'
BY DEF CopiesInv, LiveAt, SentAt

\* A plan stays right until what it was made from changes.
LEMMA PlanFrame ==
  ASSUME PlanInv, st' = st, target' = target, list' = list, layouts' = layouts,
         \A r \in Ranks : /\ pc'[r] \in HasList => pc[r] \in HasList
                          /\ pc'[r] \in HasPlan => pc[r] \in HasPlan
                          /\ pc'[r] \in HasPacked => pc[r] \in HasPacked
  PROVE  PlanInv'
<1>1. \A r, i : TargetOf(r, i)' = TargetOf(r, i)
  BY DEF TargetOf
<1>2. \A r : ExchangeList(r)' = ExchangeList(r) /\ NotFinished(r)' = NotFinished(r)
  BY DEF ExchangeList, TargetOf, NotFinished
<1>. QED BY <1>1, <1>2 DEF PlanInv

\* What was sent stays on plan while it is on its way.
LEMMA SentFrame ==
  ASSUME SentInv, sent' = sent, target' = target, layouts' = layouts,
         \A r \in Ranks : /\ pc'[r] \in HasPacked <=> pc[r] \in HasPacked
                          /\ pc'[r] \in ToUnpack <=> pc[r] \in ToUnpack
  PROVE  SentInv'
<1>1. \A q, r : OnPlan(q, r)' = OnPlan(q, r)
  BY DEF OnPlan, LeavingTo
<1>. QED BY <1>1 DEF SentInv

\* The counts of the plan depend on the layouts alone.
LEMMA PlanCounts ==
  ASSUME layouts' = layouts
  PROVE  \A r : /\ ToGetSum(r)' = ToGetSum(r) /\ ToGoSum(r)' = ToGoSum(r)
                /\ \A t : ToGetType(r, t)' = ToGetType(r, t)
BY DEF ToGetSum, ToGoSum, ToGetType, Arriving, LeavingTo

\* There is room still if nothing was stored.
LEMMA RoomFrame ==
  ASSUME RoomInv, st' = st, layouts' = layouts,
         \A r \in Ranks :
           /\ pc'[r] = "pack" => pc[r] = "pack"
           /\ pc'[r] \in {"any_gc", "collect"} => pc[r] \in {"any_gc", "collect"}
           /\ pc'[r] \in {"room", "particles", "reserve", "slots", "unpack"} =>
                pc[r] \in {"room", "particles", "reserve", "slots", "unpack"}
           /\ pc'[r] \in {"slots", "unpack"} => pc[r] \in {"slots", "unpack"}
  PROVE  RoomInv'
<1>1. \A r : NLive(r)' = NLive(r)
  BY DEF NLive
<1>. QED BY <1>1, PlanCounts DEF RoomInv

\* A round begins, or the exchange gives up after the last one.
LEMMA StartInv ==
  ASSUME IInv, NEW r \in Ranks, Start(r)
  PROVE  IInv'
<1>0. ExTypeOK /\ StageInv /\ StoreInv /\ CopiesInv /\ PlanInv /\ SentInv /\ RoomInv
  BY DEF IInv
<1>. DEFINE b == IF iter[r] >= MaxIter THEN "returned" ELSE "build"
<1>1. /\ pc[r] = "start" /\ Go(r, b)
      /\ failure' = IF iter[r] >= MaxIter THEN [failure EXCEPT ![r] = TRUE] ELSE failure
      /\ st' = st /\ target' = target /\ list' = list /\ layouts' = layouts /\ iter' = iter
      /\ sent' = sent /\ compact' = compact
  BY DEF Start
<1>2. \A x \in Ranks : pc'[x] = IF x = r THEN b ELSE pc[x]
  BY <1>0, <1>1, PcAfter
<1>3. iter \in [Ranks -> 0..MaxIter] /\ failure \in [Ranks -> BOOLEAN] /\ MaxIter \in Nat
      /\ pc \in [Ranks -> Local \cup Collective \cup {"returned"}]
  BY <1>0, RankFacts DEF ExTypeOK
<1>4. ExTypeOK'
  <2>1. pc' \in [Ranks -> Local \cup Collective \cup {"returned"}]
    <3>1. b \in Local \cup Collective \cup {"returned"}
      BY DEF Local
    <3>. QED BY <1>1, <1>3, <3>1 DEF Go
  <2>2. failure' \in [Ranks -> BOOLEAN]
    BY <1>1, <1>3
  <2>. QED BY <1>0, <1>1, <2>1, <2>2 DEF ExTypeOK
<1>5. StageInv'
  <2>1. \A q, x \in Ranks : iter'[q] = iter'[x]
    BY <1>0, <1>1 DEF StageInv
  <2>2. PICK S \in Stages : \A x \in Ranks : pc[x] \in S
    BY <1>0 DEF StageInv
  <2>3. S = {"start", "build", "any_work"} \/ S = {"start", "returned"}
    BY <1>1, <2>2 DEF Stages
  <2>4. \A x \in Ranks : iter[x] = iter[r]
    BY <1>0 DEF StageInv
  <2>5. CASE iter[r] >= MaxIter
    <3>1. \A x \in Ranks : pc[x] \in {"start", "returned"}
      <4>1. \A x \in Ranks : ~(iter[x] < MaxIter)
        BY <1>3, <2>4, <2>5
      <4>. QED BY <1>0, <4>1 DEF StageInv
    <3>2. \A x \in Ranks : pc'[x] \in {"start", "returned"} /\ pc'[r] = "returned"
      BY <1>2, <2>5, <3>1
    <3>3. {"start", "returned"} \in Stages
      BY DEF Stages
    <3>4. \A x \in Ranks : failure'[x] = IF x = r THEN TRUE ELSE failure[x]
      BY <1>1, <1>3, <2>5
    <3>5. \A x \in Ranks : pc'[x] = "returned" => failure'[x] /\ iter'[x] >= MaxIter
      <4>1. \A x \in Ranks : pc[x] = "returned" => failure[x]
        BY <1>0, <1>1 DEF StageInv
      <4>. QED BY <1>1, <1>2, <2>4, <2>5, <3>4, <4>1
    <3>6. \A x \in Ranks : failure'[x] => pc'[x] = "returned"
      BY <1>0, <1>2, <2>5, <3>4 DEF StageInv
    <3>7. \A x \in Ranks : failure'[x] \in BOOLEAN
      BY <1>3, <3>4
    <3>. QED BY <2>1, <3>2, <3>3, <3>5, <3>6, <3>7 DEF StageInv
  <2>6. CASE ~(iter[r] >= MaxIter)
    <3>1. \A x \in Ranks : iter'[x] < MaxIter /\ ~(iter[x] >= MaxIter)
      BY <1>1, <1>3, <2>4, <2>6
    <3>2. \A x \in Ranks : pc[x] # "returned"
      BY <1>0, <1>1, <3>1 DEF StageInv
    <3>3. \A x \in Ranks : pc[x] \in {"start", "build", "any_work"}
      BY <2>2, <2>3, <3>2
    <3>4. \A x \in Ranks : pc'[x] \in {"start", "build", "any_work"}
      BY <1>2, <2>6, <3>3
    <3>5. {"start", "build", "any_work"} \in Stages
      BY DEF Stages
    <3>6. \A x \in Ranks : ~failure'[x]
      BY <1>0, <1>1, <2>6, <3>2 DEF StageInv
    <3>. QED BY <2>1, <3>1, <3>4, <3>5, <3>6 DEF StageInv
  <2>. QED BY <2>5, <2>6
<1>6. \A x \in Ranks : (pc'[x] = pc[x]) \/ (pc[x] = "start" /\ pc'[x] \in {"build", "returned"})
  BY <1>1, <1>2
<1>7. PlanInv'
  BY <1>0, <1>1, <1>6, PlanFrame DEF HasList, HasPlan, HasPacked
<1>8. SentInv'
  BY <1>0, <1>1, <1>6, SentFrame DEF HasPacked, ToUnpack
<1>9. RoomInv'
  BY <1>0, <1>1, <1>6, RoomFrame
<1>. QED BY <1>0, <1>1, <1>4, <1>5, <1>7, <1>8, <1>9, StoreFrame, CopiesFrame DEF IInv

\* domain_build_exchange_list
LEMMA BuildInv ==
  ASSUME IInv, NEW r \in Ranks, domain_build_exchange_list(r)
  PROVE  IInv'
<1>0. ExTypeOK /\ StageInv /\ StoreInv /\ CopiesInv /\ PlanInv /\ SentInv /\ RoomInv
  BY DEF IInv
<1>1. /\ pc[r] = "build" /\ Go(r, "any_work") /\ list' = [list EXCEPT ![r] = ExchangeList(r)]
      /\ st' = st /\ target' = target /\ layouts' = layouts /\ iter' = iter
      /\ sent' = sent /\ compact' = compact /\ failure' = failure
  BY DEF domain_build_exchange_list
<1>2. \A x \in Ranks : pc'[x] = IF x = r THEN "any_work" ELSE pc[x]
  BY <1>0, <1>1, PcAfter
<1>3. list \in [Ranks -> Seq(Nat)] /\ ExchangeList(r) \in Seq(Nat)
  BY <1>0, ExchangeListRight DEF ExTypeOK
<1>4. ExTypeOK'
  <2>1. pc' \in [Ranks -> Local \cup Collective \cup {"returned"}]
    BY <1>0, <1>1 DEF ExTypeOK, Go, Collective
  <2>2. list' \in [Ranks -> Seq(Nat)]
    BY <1>1, <1>3
  <2>. QED BY <1>0, <1>1, <2>1, <2>2 DEF ExTypeOK
<1>5. StageInv'
  <2>1. \A S \in Stages : "build" \in S => "any_work" \in S
    BY DEF Stages
  <2>. QED BY <1>0, <1>1, <2>1, StageGo
<1>6. PlanInv'
  <2>1. \A x \in Ranks : pc'[x] \notin HasPlan /\ pc'[x] \notin HasPacked
    <3>1. \A x \in Ranks : pc[x] \in {"start", "build", "any_work"}
      BY <1>0, <1>1, SameStage
    <3>. QED BY <1>2, <3>1 DEF HasPlan, HasPacked
  <2>2. ASSUME NEW x \in Ranks, pc'[x] \in HasList PROVE list'[x] = ExchangeList(x)'
    <3>1. ExchangeList(x)' = ExchangeList(x)
      BY <1>1 DEF ExchangeList, TargetOf
    <3>2. CASE x = r
      BY <1>1, <1>3, <3>1, <3>2
    <3>3. CASE x # r
      BY <1>0, <1>1, <1>2, <1>3, <2>2, <3>1, <3>3 DEF PlanInv
    <3>. QED BY <3>2, <3>3
  <2>. QED BY <2>1, <2>2 DEF PlanInv
<1>7. \A x \in Ranks : (pc'[x] = pc[x]) \/ (pc[x] = "build" /\ pc'[x] = "any_work")
  BY <1>1, <1>2
<1>8. SentInv'
  BY <1>0, <1>1, <1>7, SentFrame DEF HasPacked, ToUnpack
<1>9. RoomInv'
  BY <1>0, <1>1, <1>7, RoomFrame
<1>. QED BY <1>0, <1>1, <1>4, <1>5, <1>6, <1>8, <1>9, StoreFrame, CopiesFrame DEF IInv

\* domain_find_iter_space and the layouts: any part of the list is a plan.
LEMMA FindSpaceInv ==
  ASSUME IInv, NEW r \in Ranks, FindSpace(r)
  PROVE  IInv'
<1>0. ExTypeOK /\ StageInv /\ StoreInv /\ CopiesInv /\ PlanInv /\ SentInv /\ RoomInv
  BY DEF IInv
<1>1. /\ pc[r] = "space" /\ Go(r, "any_full")
      /\ st' = st /\ target' = target /\ list' = list /\ iter' = iter
      /\ sent' = sent /\ compact' = compact /\ failure' = failure
  BY DEF FindSpace
<1>2. \A x \in Ranks : pc'[x] = IF x = r THEN "any_full" ELSE pc[x]
  BY <1>0, <1>1, PcAfter
<1>. DEFINE lay(last) == [n \in 1..last |-> [target |-> TargetOf(r, list[r][n]),
                                             type |-> st[r].P[list[r][n]].Type]]
<1>3. PICK last \in 0..Len(list[r]) : layouts' = [layouts EXCEPT ![r] = lay(last)]
  BY DEF FindSpace
<1>4. /\ list[r] = ExchangeList(r) /\ Len(list[r]) \in Nat
      /\ \A n \in 1..Len(list[r]) : list[r][n] \in LiveIndices(st[r])
  <2>1. list[r] = ExchangeList(r)
    BY <1>0, <1>1 DEF PlanInv, HasList
  <2>. QED BY <1>0, <2>1, ExchangeListRight
<1>5. \A n \in 1..Len(list[r]) :
        [target |-> TargetOf(r, list[r][n]), type |-> st[r].P[list[r][n]].Type] \in Layout
  <2>. SUFFICES ASSUME NEW n \in 1..Len(list[r])
                PROVE  [target |-> TargetOf(r, list[r][n]), type |-> st[r].P[list[r][n]].Type] \in Layout
    OBVIOUS
  <2>. DEFINE i == list[r][n]
  <2>1. i \in LiveIndices(st[r]) /\ st[r] \in Store
    BY <1>0, <1>4 DEF ExTypeOK
  <2>. HIDE DEF i
  <2>2. st[r].P[i] \in Particle
    BY <2>1, StoreParts
  <2>3. st[r].P[i].ID[1] \in Ids /\ target \in [Ids -> Ranks]
    BY <1>0, <2>1 DEF CopiesInv, ExTypeOK
  <2>4. TargetOf(r, i) \in Ranks /\ st[r].P[i].Type \in PartTypes
    BY <2>2, <2>3 DEF TargetOf, Particle
  <2>. QED BY <2>4 DEF Layout, i
<1>6. /\ last \in Nat /\ last <= Len(list[r]) /\ lay(last) \in Seq(Layout) /\ Len(lay(last)) = last
      /\ \A n \in 1..last :
           lay(last)[n] = [target |-> TargetOf(r, list[r][n]), type |-> st[r].P[list[r][n]].Type]
  <2>1. last \in Nat /\ last <= Len(list[r]) /\ \A n \in 1..last : n \in 1..Len(list[r])
    BY <1>4
  <2>2. lay(last) \in [1..last -> Layout]
    BY <1>5, <2>1
  <2>3. \A n \in 1..last :
           lay(last)[n] = [target |-> TargetOf(r, list[r][n]), type |-> st[r].P[list[r][n]].Type]
    OBVIOUS
  <2>. HIDE DEF lay
  <2>. QED BY <2>1, <2>2, <2>3
<1>. HIDE DEF lay
<1>7. layouts \in [Ranks -> Seq(Layout)]
  BY <1>0 DEF ExTypeOK
<1>8. \A x \in Ranks : layouts'[x] = IF x = r THEN lay(last) ELSE layouts[x]
  BY <1>3, <1>7
<1>9. ExTypeOK'
  <2>1. pc' \in [Ranks -> Local \cup Collective \cup {"returned"}]
    BY <1>0, <1>1 DEF ExTypeOK, Go, Collective
  <2>2. layouts' \in [Ranks -> Seq(Layout)]
    BY <1>3, <1>6, <1>7
  <2>. QED BY <1>0, <1>1, <2>1, <2>2 DEF ExTypeOK
<1>10. StageInv'
  <2>1. \A S \in Stages : "space" \in S => "any_full" \in S
    BY DEF Stages
  <2>. QED BY <1>0, <1>1, <2>1, StageGo
<1>11. \A x \in Ranks : pc[x] \in {"space", "any_full"} /\ pc'[x] \in {"space", "any_full"}
  BY <1>0, <1>1, <1>2, SameStage
<1>12. PlanInv'
  <2>1. \A x, i : TargetOf(x, i)' = TargetOf(x, i) /\ ExchangeList(x)' = ExchangeList(x)
    BY <1>1 DEF ExchangeList, TargetOf
  <2>2. \A x \in Ranks : pc'[x] \notin HasPacked /\ pc[x] \in HasList
    BY <1>11 DEF HasPacked, HasList
  <2>3. ASSUME NEW x \in Ranks, pc'[x] \in HasPlan
        PROVE  /\ Len(layouts'[x]) <= Len(list[x])
               /\ \A n \in 1..Len(layouts'[x]) :
                    layouts'[x][n] = [target |-> TargetOf(x, list[x][n]), type |-> st[x].P[list[x][n]].Type]
    <3>1. CASE x = r
      BY <1>6, <1>8, <3>1
    <3>2. CASE x # r
      BY <1>0, <1>2, <1>8, <2>3, <3>2 DEF PlanInv
    <3>. QED BY <3>1, <3>2
  <2>4. ASSUME NEW x \in Ranks PROVE list[x] = ExchangeList(x)
    BY <1>0, <2>2 DEF PlanInv
  <2>. QED BY <1>1, <2>1, <2>2, <2>3, <2>4 DEF PlanInv
<1>13. SentInv'
  <2>1. \A x \in Ranks : pc[x] \notin HasPacked /\ pc'[x] \notin HasPacked
    BY <1>11 DEF HasPacked
  <2>. QED BY <1>0, <1>1, <2>1 DEF SentInv
<1>14. RoomInv'
  BY <1>11 DEF RoomInv
<1>. QED BY <1>0, <1>1, <1>9, <1>10, <1>12, <1>13, <1>14, StoreFrame, CopiesFrame DEF IInv

\* A rank that any other is with, where all are.
LEMMA AtAll == \A b : At(b) => \A r \in Ranks : pc[r] = b
BY DEF At

\* The ranks agree whether there is anything to exchange.
LEMMA AnyWorkInv ==
  ASSUME IInv, AnyWork
  PROVE  IInv'
<1>0. ExTypeOK /\ StageInv /\ StoreInv /\ CopiesInv /\ PlanInv /\ SentInv /\ RoomInv
  BY DEF IInv
<1>. DEFINE b == IF \E r \in Ranks : list[r] # <<>> THEN "space" ELSE "returned"
<1>1. /\ At("any_work") /\ AllGo(b)
      /\ st' = st /\ target' = target /\ list' = list /\ layouts' = layouts /\ iter' = iter
      /\ sent' = sent /\ compact' = compact /\ failure' = failure
  BY DEF AnyWork
<1>2. \A x \in Ranks : pc[x] = "any_work" /\ pc'[x] = b
  BY <1>0, <1>1, PcAfter, AtAll
<1>3. ExTypeOK'
  <2>1. pc' \in [Ranks -> Local \cup Collective \cup {"returned"}]
    BY <1>1 DEF AllGo, Local
  <2>. QED BY <1>0, <1>1, <2>1 DEF ExTypeOK
<1>4. StageInv'
  <2>1. \E S \in Stages : b \in S
    BY DEF Stages
  <2>2. \A q, r \in Ranks : iter'[q] = iter'[r] /\ iter'[r] < MaxIter /\ ~failure'[r]
    BY <1>0, <1>1, <1>2 DEF StageInv
  <2>3. failure \in [Ranks -> BOOLEAN]
    BY <1>0 DEF ExTypeOK
  <2>4. \A q, r \in Ranks : failure'[q] = failure'[r]
    BY <1>1, <2>2, <2>3
  <2>. HIDE DEF b
  <2>. QED BY <1>0, <1>1, <2>1, <2>2, <2>4, StageAllGo
<1>5. PlanInv'
  BY <1>0, <1>1, <1>2, PlanFrame DEF HasList, HasPlan, HasPacked
<1>6. SentInv'
  BY <1>0, <1>1, <1>2, SentFrame DEF HasPacked, ToUnpack
<1>7. RoomInv'
  BY <1>0, <1>1, <1>2, RoomFrame
<1>. QED BY <1>0, <1>1, <1>3, <1>4, <1>5, <1>6, <1>7, StoreFrame, CopiesFrame DEF IInv

\* The check of the room: who goes on has enough once its garbage is collected.
LEMMA AnyFullInv ==
  ASSUME IInv, AnyFull
  PROVE  IInv'
<1>0. ExTypeOK /\ StageInv /\ StoreInv /\ CopiesInv /\ PlanInv /\ SentInv /\ RoomInv
  BY DEF IInv
<1>. DEFINE full == \E q \in Ranks : Needed(q) > MaxPart
            b == IF full THEN "returned" ELSE "pack"
<1>1. /\ At("any_full") /\ AllGo(b) /\ failure' = [r \in Ranks |-> full]
      /\ st' = st /\ target' = target /\ list' = list /\ layouts' = layouts /\ iter' = iter
      /\ sent' = sent /\ compact' = compact
  BY DEF AnyFull, TooFull, AllGo
<1>2. \A x \in Ranks : pc[x] = "any_full" /\ pc'[x] = b
  BY <1>0, <1>1, PcAfter, AtAll
<1>3. ExTypeOK'
  <2>1. pc' \in [Ranks -> Local \cup Collective \cup {"returned"}]
    BY <1>1 DEF AllGo, Local
  <2>2. failure' \in [Ranks -> BOOLEAN]
    <3>1. full \in BOOLEAN
      OBVIOUS
    <3>. HIDE DEF full
    <3>. QED BY <1>1, <3>1
  <2>. QED BY <1>0, <1>1, <2>1, <2>2 DEF ExTypeOK
<1>4. StageInv'
  <2>1. \E S \in Stages : b \in S
    BY DEF Stages
  <2>2. \A q, r \in Ranks : iter'[q] = iter'[r] /\ iter'[r] < MaxIter
    BY <1>0, <1>1, <1>2 DEF StageInv
  <2>3. \A q, r \in Ranks : failure'[q] = failure'[r]
    BY <1>1
  <2>4. \A r \in Ranks : failure'[r] => b = "returned"
    BY <1>1
  <2>. HIDE DEF b
  <2>. QED BY <1>0, <1>1, <2>1, <2>2, <2>3, <2>4, StageAllGo
<1>5. PlanInv'
  BY <1>0, <1>1, <1>2, PlanFrame DEF HasList, HasPlan, HasPacked
<1>6. SentInv'
  <2>1. \A x \in Ranks : pc[x] \notin HasPacked /\ pc'[x] \notin HasPacked
    BY <1>2 DEF HasPacked
  <2>. QED BY <1>0, <1>1, <2>1 DEF SentInv
<1>7. RoomInv'
  <2>1. ASSUME NEW r \in Ranks, pc'[r] = "pack"
        PROVE  NLive(r) + ToGetSum(r) - ToGoSum(r) <= MaxPart
    <3>1. ~(Needed(r) > MaxPart)
      BY <1>2, <2>1
    <3>2. Needed(r) = NumPart(st[r]) + ToGetSum(r) - ToGoSum(r) - (NumPart(st[r]) - NLive(r))
      BY DEF Needed, NGarbage, NLive
    <3>3. NumPart(st[r]) \in Nat /\ NLive(r) \in Nat /\ ToGetSum(r) \in Nat /\ ToGoSum(r) \in Nat
          /\ MaxPart \in Nat
      BY <1>0, ExchangeListRight, ArrivingFinite, RankFacts
    <3>. QED BY <3>1, <3>2, <3>3
  <2>2. \A r : NLive(r)' = NLive(r)
    BY <1>1 DEF NLive
  <2>. QED BY <1>1, <1>2, <2>1, <2>2, PlanCounts DEF RoomInv
<1>. QED BY <1>0, <1>1, <1>3, <1>4, <1>5, <1>6, <1>7, StoreFrame, CopiesFrame DEF IInv

\* The ranks agree on a garbage collection; who needs one gets it.
LEMMA AnyGCInv ==
  ASSUME IInv, AnyGC
  PROVE  IInv'
<1>0. ExTypeOK /\ StageInv /\ StoreInv /\ CopiesInv /\ PlanInv /\ SentInv /\ RoomInv
  BY DEF IInv
<1>. DEFINE gc == \E r \in Ranks : ShallCollect(r)
            b == IF gc THEN "collect" ELSE "room"
<1>1. /\ At("any_gc") /\ AllGo(b)
      /\ compact' = IF gc THEN UNION {CompactHere(r) : r \in Ranks} ELSE {}
      /\ st' = st /\ target' = target /\ list' = list /\ layouts' = layouts /\ iter' = iter
      /\ sent' = sent /\ failure' = failure
  BY DEF AnyGC
<1>2. \A x \in Ranks : pc[x] = "any_gc" /\ pc'[x] = b
  BY <1>0, <1>1, PcAfter, AtAll
<1>3. ExTypeOK'
  <2>1. pc' \in [Ranks -> Local \cup Collective \cup {"returned"}]
    BY <1>1 DEF AllGo, Local
  <2>2. compact' \in SUBSET SlotTypes
    BY <1>1 DEF CompactHere
  <2>. QED BY <1>0, <1>1, <2>1, <2>2 DEF ExTypeOK
<1>4. StageInv'
  <2>1. \E S \in Stages : b \in S
    BY DEF Stages
  <2>2. \A q, r \in Ranks : iter'[q] = iter'[r] /\ iter'[r] < MaxIter /\ ~failure'[r]
    BY <1>0, <1>1, <1>2 DEF StageInv
  <2>3. failure \in [Ranks -> BOOLEAN]
    BY <1>0 DEF ExTypeOK
  <2>4. \A q, r \in Ranks : failure'[q] = failure'[r]
    BY <1>1, <2>2, <2>3
  <2>. HIDE DEF b
  <2>. QED BY <1>0, <1>1, <2>1, <2>2, <2>4, StageAllGo
<1>5. PlanInv'
  BY <1>0, <1>1, <1>2, PlanFrame DEF HasList, HasPlan, HasPacked
<1>6. SentInv'
  BY <1>0, <1>1, <1>2, SentFrame DEF HasPacked, ToUnpack
<1>7. RoomInv'
  <2>1. ASSUME NEW r \in Ranks, pc'[r] = "room"
        PROVE  NumPart(st[r]) + ToGetSum(r) <= MaxPart
    <3>1. ~(NumPart(st[r]) + ToGetSum(r) > MaxPart)
      BY <1>2, <2>1 DEF ShallCollect
    <3>2. NumPart(st[r]) \in Nat /\ ToGetSum(r) \in Nat /\ MaxPart \in Nat
      BY <1>0, ExchangeListRight, ArrivingFinite, RankFacts
    <3>. QED BY <3>1, <3>2
  <2>2. \A r \in Ranks : NLive(r) + ToGetSum(r) <= MaxPart
    BY <1>0, <1>2 DEF RoomInv
  <2>3. \A r : NLive(r)' = NLive(r)
    BY <1>1 DEF NLive
  <2>. QED BY <1>1, <1>2, <2>1, <2>2, <2>3, PlanCounts DEF RoomInv
<1>. QED BY <1>0, <1>1, <1>3, <1>4, <1>5, <1>6, <1>7, StoreFrame, CopiesFrame DEF IInv

\* The second check never fails.
LEMMA CheckRoomInv ==
  ASSUME IInv, NEW r \in Ranks, CheckRoom(r)
  PROVE  IInv'
<1>0. ExTypeOK /\ StageInv /\ StoreInv /\ CopiesInv /\ PlanInv /\ SentInv /\ RoomInv
  BY DEF IInv
<1>1. /\ pc[r] = "room"
      /\ Go(r, IF NumPart(st[r]) + ToGetSum(r) > MaxPart THEN "endrun" ELSE "particles")
      /\ st' = st /\ target' = target /\ list' = list /\ layouts' = layouts /\ iter' = iter
      /\ sent' = sent /\ compact' = compact /\ failure' = failure
  BY DEF CheckRoom
<1>2. Go(r, "particles")
  <2>1. NumPart(st[r]) + ToGetSum(r) <= MaxPart
    BY <1>0, <1>1 DEF RoomInv
  <2>2. NumPart(st[r]) \in Nat /\ ToGetSum(r) \in Nat /\ MaxPart \in Nat
    BY <1>0, ExchangeListRight, ArrivingFinite, RankFacts
  <2>3. ~(NumPart(st[r]) + ToGetSum(r) > MaxPart)
    BY <2>1, <2>2
  <2>. QED BY <1>1, <2>3
<1>3. \A x \in Ranks : pc'[x] = IF x = r THEN "particles" ELSE pc[x]
  BY <1>0, <1>2, PcAfter
<1>4. \A x \in Ranks : (pc'[x] = pc[x]) \/ (pc[x] = "room" /\ pc'[x] = "particles")
  BY <1>1, <1>3
<1>5. ExTypeOK'
  <2>1. pc' \in [Ranks -> Local \cup Collective \cup {"returned"}]
    BY <1>0, <1>2 DEF ExTypeOK, Go, Collective
  <2>. QED BY <1>0, <1>1, <2>1 DEF ExTypeOK
<1>6. StageInv'
  <2>1. \A S \in Stages : "room" \in S => "particles" \in S
    BY DEF Stages
  <2>. QED BY <1>0, <1>1, <1>2, <2>1, StageGo
<1>7. PlanInv'
  BY <1>0, <1>1, <1>4, PlanFrame DEF HasList, HasPlan, HasPacked
<1>8. SentInv'
  BY <1>0, <1>1, <1>4, SentFrame DEF HasPacked, ToUnpack
<1>9. RoomInv'
  BY <1>0, <1>1, <1>4, RoomFrame
<1>. QED BY <1>0, <1>1, <1>5, <1>6, <1>7, <1>8, <1>9, StoreFrame, CopiesFrame DEF IInv

\* The two exchanges of data are calls that only let the ranks go on.
LEMMA AllToAllInv ==
  ASSUME IInv, AllToAllParticles \/ AllToAllSlots
  PROVE  IInv'
<1>0. ExTypeOK /\ StageInv /\ StoreInv /\ CopiesInv /\ PlanInv /\ SentInv /\ RoomInv
  BY DEF IInv
<1>1. /\ st' = st /\ target' = target /\ list' = list /\ layouts' = layouts /\ iter' = iter
      /\ sent' = sent /\ compact' = compact /\ failure' = failure
      /\ \/ At("particles") /\ AllGo("reserve")
         \/ At("slots") /\ AllGo("unpack")
  BY DEF AllToAllParticles, AllToAllSlots
<1>2. PICK a \in {"particles", "slots"}, b \in {"reserve", "unpack"} :
        /\ At(a) /\ AllGo(b) /\ (a = "particles" <=> b = "reserve")
  BY <1>1
<1>3. \A x \in Ranks : pc[x] = a /\ pc'[x] = b
  BY <1>0, <1>2, PcAfter, AtAll
<1>4. ExTypeOK'
  <2>1. pc' \in [Ranks -> Local \cup Collective \cup {"returned"}]
    BY <1>2 DEF AllGo, Local
  <2>. QED BY <1>0, <1>1, <2>1 DEF ExTypeOK
<1>5. StageInv'
  <2>1. \E S \in Stages : b \in S
    BY DEF Stages
  <2>2. \A q, r \in Ranks : iter'[q] = iter'[r] /\ iter'[r] < MaxIter /\ ~failure'[r]
    BY <1>0, <1>1, <1>3 DEF StageInv
  <2>3. failure \in [Ranks -> BOOLEAN]
    BY <1>0 DEF ExTypeOK
  <2>4. \A q, r \in Ranks : failure'[q] = failure'[r]
    BY <1>1, <2>2, <2>3
  <2>. QED BY <1>0, <1>2, <2>1, <2>2, <2>4, StageAllGo
<1>6. PlanInv'
  BY <1>0, <1>1, <1>2, <1>3, PlanFrame DEF HasList, HasPlan, HasPacked
<1>7. SentInv'
  BY <1>0, <1>1, <1>2, <1>3, SentFrame DEF HasPacked, ToUnpack
<1>8. RoomInv'
  BY <1>0, <1>1, <1>2, <1>3, RoomFrame
<1>. QED BY <1>0, <1>1, <1>4, <1>5, <1>6, <1>7, <1>8, StoreFrame, CopiesFrame DEF IInv

\* A round is over: all that was sent has arrived.
LEMMA AnyLeftInv ==
  ASSUME IInv, AnyLeft
  PROVE  IInv'
<1>0. ExTypeOK /\ StageInv /\ StoreInv /\ CopiesInv /\ PlanInv /\ SentInv /\ RoomInv
  BY DEF IInv
<1>. DEFINE b == IF AnyNotFinished THEN "start" ELSE "returned"
<1>1. /\ At("any_left") /\ AllGo(b) /\ iter' = [r \in Ranks |-> iter[r] + 1]
      /\ st' = st /\ target' = target /\ list' = list /\ layouts' = layouts
      /\ sent' = sent /\ compact' = compact /\ failure' = failure
  BY DEF AnyLeft
<1>2. \A x \in Ranks : pc[x] = "any_left" /\ pc'[x] = b
  BY <1>0, <1>1, PcAfter, AtAll
<1>3. iter \in [Ranks -> 0..MaxIter] /\ MaxIter \in Nat
      /\ \A q, r \in Ranks : iter[q] = iter[r] /\ iter[r] < MaxIter /\ ~failure[r]
  BY <1>0, <1>2, RankFacts DEF ExTypeOK, StageInv
<1>4. ExTypeOK'
  <2>1. pc' \in [Ranks -> Local \cup Collective \cup {"returned"}]
    BY <1>1 DEF AllGo, Local
  <2>2. \A r \in Ranks : iter[r] + 1 \in 0..MaxIter
    BY <1>3
  <2>3. iter' \in [Ranks -> 0..MaxIter]
    BY <1>1, <2>2
  <2>. QED BY <1>0, <1>1, <2>1, <2>3 DEF ExTypeOK
<1>5. StageInv'
  <2>1. (\E S \in Stages : b \in S) /\ b \in {"start", "returned"}
    BY DEF Stages
  <2>2. \A q, r \in Ranks : iter'[q] = iter'[r] /\ ~failure'[r]
    BY <1>1, <1>3
  <2>3. failure \in [Ranks -> BOOLEAN]
    BY <1>0 DEF ExTypeOK
  <2>4. \A q, r \in Ranks : failure'[q] = failure'[r]
    BY <1>1, <2>2, <2>3
  <2>. HIDE DEF b
  <2>. QED BY <1>0, <1>1, <2>1, <2>2, <2>4, StageAllGo
<1>6. PlanInv'
  BY <1>0, <1>1, <1>2, PlanFrame DEF HasList, HasPlan, HasPacked
<1>7. SentInv'
  <2>1. \A x \in Ranks : pc[x] \notin ToUnpack /\ pc'[x] \notin ToUnpack
    BY <1>2 DEF ToUnpack
  <2>. QED BY <1>0, <1>1, <2>1 DEF SentInv
<1>8. RoomInv'
  BY <1>0, <1>1, <1>2, RoomFrame
<1>. QED BY <1>0, <1>1, <1>4, <1>5, <1>6, <1>7, <1>8, StoreFrame, CopiesFrame DEF IInv

\* One rank's store is replaced.
LEMMA StAfter ==
  ASSUME ExTypeOK
  PROVE  \A r \in Ranks : \A s : st' = [st EXCEPT ![r] = s] =>
           \A x \in Ranks : st'[x] = IF x = r THEN s ELSE st[x]
BY DEF ExTypeOK

\* Particle p is on rank x, or on its way to it, and no step but Pack
\* changes where it is.
Placed(p, x) ==
  \/ \E i \in LiveIndices(st[x]) : st[x].P[i].ID[1] = p
  \/ \E q \in Ranks : \E k \in DOMAIN sent[q][x] : sent[q][x][k].part.ID[1] = p

StaysPut == \A p \in Ids : \A x \in Ranks : Placed(p, x) => Placed(p, x)'

SentOff == \A p \in Ids : \A x \in Ranks : Placed(p, x) => Placed(p, x)' \/ Placed(p, target[p])'

\* The particles of one rank are put in another order.
Permuted(f, r) ==
  /\ \A x \in Ranks : x # r => st'[x] = st[x]
  /\ \A i \in LiveIndices(st'[r]) : f[i] \in LiveIndices(st[r])
                                    /\ st'[r].P[i].ID[1] = st[r].P[f[i]].ID[1]
  /\ \A i, j \in LiveIndices(st'[r]) : f[i] = f[j] => i = j
  /\ \A j \in LiveIndices(st[r]) : \E i \in LiveIndices(st'[r]) : f[i] = j

\* Each particle is still there once if a table is only put into another order.
LEMMA CopiesPermuted ==
  ASSUME CopiesInv, sent' = sent, NEW r \in Ranks, NEW f, Permuted(f, r)
  PROVE  CopiesInv'
<1>0. /\ \A x \in Ranks : x # r => st'[x] = st[x]
      /\ \A i \in LiveIndices(st'[r]) : f[i] \in LiveIndices(st[r])
                                        /\ st'[r].P[i].ID[1] = st[r].P[f[i]].ID[1]
      /\ \A i, j \in LiveIndices(st'[r]) : f[i] = f[j] => i = j
      /\ \A j \in LiveIndices(st[r]) : \E i \in LiveIndices(st'[r]) : f[i] = j
  BY DEF Permuted
<1>. DEFINE old(a, b) == IF a = r THEN f[b] ELSE b
<1>1. \A x \in Ranks : \A i \in LiveIndices(st'[x]) :
         old(x, i) \in LiveIndices(st[x]) /\ st'[x].P[i].ID[1] = st[x].P[old(x, i)].ID[1]
  BY <1>0
<1>2. \A x \in Ranks : \A i, j \in LiveIndices(st'[x]) : old(x, i) = old(x, j) => i = j
  BY <1>0
<1>3. \A x \in Ranks : \A j \in LiveIndices(st[x]) : \E i \in LiveIndices(st'[x]) : old(x, i) = j
  BY <1>0
<1>. HIDE DEF old
<1>4. ASSUME NEW p \in Ids
      PROVE  \/ \E x \in Ranks : \E i \in LiveIndices(st'[x]) : i \in LiveIndices(st'[x]) /\ st'[x].P[i].ID[1] = p
             \/ \E q, x \in Ranks : \E k \in DOMAIN sent[q][x] : SentAt(q, x, k, p)
  <2>1. CASE \E x \in Ranks : \E j \in LiveIndices(st[x]) : LiveAt(x, j, p)
    <3>0. PICK x \in Ranks : \E j \in LiveIndices(st[x]) : st[x].P[j].ID[1] = p
      BY <2>1 DEF LiveAt
    <3>1. PICK j \in LiveIndices(st[x]) : st[x].P[j].ID[1] = p
      BY <3>0
    <3>2. PICK i \in LiveIndices(st'[x]) : old(x, i) = j
      BY <1>3
    <3>. QED BY <1>1, <3>1, <3>2
  <2>. QED BY <2>1 DEF CopiesInv
<1>5. \A x \in Ranks : \A i \in LiveIndices(st'[x]) : st'[x].P[i].ID[1] \in Ids
  BY <1>1 DEF CopiesInv
<1>6. ASSUME NEW x \in Ranks, NEW x2 \in Ranks, NEW i \in LiveIndices(st'[x]), NEW i2 \in LiveIndices(st'[x2]),
             st'[x].P[i].ID[1] = st'[x2].P[i2].ID[1]
      PROVE  x = x2 /\ i = i2
  <2>1. x = x2 /\ old(x, i) = old(x2, i2)
    BY <1>1, <1>6 DEF CopiesInv
  <2>. QED BY <1>2, <2>1
<1>7. \A q, x, x2 \in Ranks : \A k \in DOMAIN sent[q][x] : \A i \in LiveIndices(st'[x2]) :
        sent[q][x][k].part.ID[1] # st'[x2].P[i].ID[1]
  BY <1>1, SMTT(30) DEF CopiesInv
<1>8. \A x, i, p : LiveAt(x, i, p)' <=> i \in LiveIndices(st'[x]) /\ st'[x].P[i].ID[1] = p
  BY DEF LiveAt
<1>9. \A q, x, k, p : SentAt(q, x, k, p)' <=> SentAt(q, x, k, p)
  BY DEF SentAt
<1>10. \A p \in Ids : \/ \E x \in Ranks : \E i \in LiveIndices(st'[x]) : LiveAt(x, i, p)'
                      \/ \E q, x \in Ranks : \E k \in DOMAIN sent'[q][x] : SentAt(q, x, k, p)'
  BY <1>4, <1>8, <1>9
<1>11. /\ \A q, x \in Ranks : \A k \in DOMAIN sent'[q][x] : sent'[q][x][k].part.ID[1] \in Ids
       /\ \A q, x, q2, x2 \in Ranks : \A k \in DOMAIN sent'[q][x], k2 \in DOMAIN sent'[q2][x2] :
            sent'[q][x][k].part.ID[1] = sent'[q2][x2][k2].part.ID[1] => q = q2 /\ x = x2 /\ k = k2
  <2>1. /\ \A q, x \in Ranks : \A k \in DOMAIN sent[q][x] : sent[q][x][k].part.ID[1] \in Ids
        /\ \A q, x, q2, x2 \in Ranks : \A k \in DOMAIN sent[q][x], k2 \in DOMAIN sent[q2][x2] :
             sent[q][x][k].part.ID[1] = sent[q2][x2][k2].part.ID[1] => q = q2 /\ x = x2 /\ k = k2
    BY Zenon DEF CopiesInv
  <2>2. sent' = sent
    OBVIOUS
  <2>. QED BY <2>1, <2>2
<1>12. \A q, x, x2 \in Ranks : \A k \in DOMAIN sent'[q][x], i \in LiveIndices(st'[x2]) :
         sent'[q][x][k].part.ID[1] # st'[x2].P[i].ID[1]
  BY <1>7
<1>. QED BY <1>5, <1>6, <1>10, <1>11, <1>12 DEF CopiesInv

\* and all of them stay on their rank.
LEMMA PermutedStays ==
  ASSUME sent' = sent, NEW r \in Ranks, NEW f, Permuted(f, r)
  PROVE  StaysPut
<1>. SUFFICES ASSUME NEW p \in Ids, NEW x \in Ranks, Placed(p, x)
              PROVE  Placed(p, x)'
  BY DEF StaysPut
<1>1. CASE \E q \in Ranks : \E k \in DOMAIN sent[q][x] : sent[q][x][k].part.ID[1] = p
  BY <1>1 DEF Placed
<1>2. ASSUME NEW j \in LiveIndices(st[x]), st[x].P[j].ID[1] = p
      PROVE  \E i \in LiveIndices(st'[x]) : st'[x].P[i].ID[1] = p
  <2>1. CASE x = r
    <3>1. PICK i \in LiveIndices(st'[r]) : f[i] = j
      BY <1>2, <2>1 DEF Permuted
    <3>2. st'[r].P[i].ID[1] = st[r].P[f[i]].ID[1]
      BY DEF Permuted
    <3>. QED BY <1>2, <2>1, <3>1, <3>2
  <2>2. CASE x # r
    BY <1>2, <2>2 DEF Permuted
  <2>. QED BY <2>1, <2>2
<1>. QED BY <1>1, <1>2 DEF Placed

\* slots_gc on one rank.
LEMMA CollectInv ==
  ASSUME IInv, NEW r \in Ranks, Collect(r)
  PROVE  IInv' /\ StaysPut
<1>0. ExTypeOK /\ StageInv /\ StoreInv /\ CopiesInv /\ PlanInv /\ SentInv /\ RoomInv
  BY DEF IInv
<1>. DEFINE s == st[r]
            g == GC(s, compact)
            L == LiveIndices(s)
            f == InOrder(L)
<1>1. /\ pc[r] = "collect" /\ Go(r, "room") /\ st' = [st EXCEPT ![r] = g]
      /\ target' = target /\ list' = list /\ layouts' = layouts /\ iter' = iter
      /\ sent' = sent /\ compact' = compact /\ failure' = failure
  BY DEF Collect
<1>2. \A x \in Ranks : pc'[x] = IF x = r THEN "room" ELSE pc[x]
  BY <1>0, <1>1, PcAfter
<1>3. \A x \in Ranks : st'[x] = IF x = r THEN g ELSE st[x]
  BY <1>0, <1>1, StAfter
<1>4. /\ s \in Store /\ SlotsMatch(s) /\ OrphansMarked(s) /\ NumPart(s) <= MaxPart
      /\ compact \in SUBSET SlotTypes
      /\ \A t \in SlotTypes : Size(s, t) <= s.maxsize[t]
  BY <1>0 DEF ExTypeOK, StoreInv
<1>. HIDE DEF s
<1>5. /\ g \in Store
      /\ NumPart(g) = Cardinality(L) /\ NumPart(g) <= NumPart(s)
      /\ LiveIndices(g) = 1..NumPart(g)
      /\ \A k \in 1..NumPart(g) : f[k] \in L /\ SameParticle(g.P[k], s.P[f[k]])
      /\ \A i \in L : \E k \in 1..NumPart(g) : f[k] = i
      /\ \A j, k \in 1..NumPart(g) : f[j] = f[k] => j = k
      /\ \A t \in SlotTypes : Size(g, t) <= Size(s, t)
      /\ g.maxsize = s.maxsize
      /\ SlotsMatch(g) /\ OrphansMarked(g)
  BY <1>4, GCKeeps
<1>. HIDE DEF g, f, L
<1>6. \A x \in Ranks : (pc'[x] = pc[x]) \/ (pc[x] = "collect" /\ pc'[x] = "room")
  BY <1>1, <1>2
<1>7. ExTypeOK'
  <2>1. pc' \in [Ranks -> Local \cup Collective \cup {"returned"}]
    BY <1>0, <1>1 DEF ExTypeOK, Go, Local
  <2>2. st' \in [Ranks -> Store]
    BY <1>0, <1>1, <1>5 DEF ExTypeOK
  <2>. QED BY <1>0, <1>1, <2>1, <2>2 DEF ExTypeOK
<1>8. StageInv'
  <2>1. \A S \in Stages : "collect" \in S => "room" \in S
    BY DEF Stages
  <2>. QED BY <1>0, <1>1, <2>1, StageGo
<1>9. /\ NumPart(s) \in Nat /\ NumPart(g) \in Nat /\ NumPart(g) = NLive(r) /\ MaxPart \in Nat
      /\ \A t \in SlotTypes : Size(s, t) \in Nat /\ Size(g, t) \in Nat /\ s.maxsize[t] \in Nat
  <2>1. NumPart(g) = NLive(r)
    BY <1>5 DEF NLive, L, s
  <2>2. \A t \in SlotTypes : s.maxsize[t] \in Nat
    BY <1>4, StoreParts
  <2>3. NumPart(s) \in Nat /\ NumPart(g) \in Nat /\ \A t \in SlotTypes : Size(s, t) \in Nat /\ Size(g, t) \in Nat
    BY <1>4, <1>5, StoreParts
  <2>. QED BY <2>1, <2>2, <2>3, RankFacts
<1>10. StoreInv'
  <2>1. NumPart(g) <= MaxPart /\ \A t \in SlotTypes : Size(g, t) <= g.maxsize[t]
    BY <1>4, <1>5, <1>9
  <2>. QED BY <1>0, <1>3, <1>5, <2>1 DEF StoreInv
<1>11. CopiesInv' /\ StaysPut
  <2>1. \A i \in LiveIndices(g) : f[i] \in L /\ g.P[i].ID[1] = s.P[f[i]].ID[1]
    BY <1>5 DEF SameParticle
  <2>2. st'[r] = g /\ st[r] = s /\ LiveIndices(s) = L
    BY <1>3 DEF s, L
  <2>3. \A x \in Ranks : x # r => st'[x] = st[x]
    BY <1>3
  <2>4. /\ \A i \in LiveIndices(st'[r]) : f[i] \in LiveIndices(st[r])
                                          /\ st'[r].P[i].ID[1] = st[r].P[f[i]].ID[1]
        /\ \A i, j \in LiveIndices(st'[r]) : f[i] = f[j] => i = j
        /\ \A j \in LiveIndices(st[r]) : \E i \in LiveIndices(st'[r]) : f[i] = j
    BY <1>5, <2>1, <2>2
  <2>5. PICK h : h = f
    OBVIOUS
  <2>6. Permuted(h, r)
    BY <2>3, <2>4, <2>5 DEF Permuted
  <2>7. CopiesInv
    BY <1>0
  <2>8. sent' = sent
    BY <1>1
  <2>9. CopiesInv'
    BY <2>6, <2>7, <2>8, CopiesPermuted
  <2>10. StaysPut
    BY <2>6, <2>8, PermutedStays
  <2>. QED BY <2>9, <2>10
<1>12. PlanInv'
  <2>1. \A x \in Ranks : pc[x] \in HasPacked /\ pc[x] \notin HasList /\ pc[x] \notin HasPlan
    <3>1. \A x \in Ranks : pc[x] \in {"collect", "room", "particles"}
      BY <1>0, <1>1, SameStage
    <3>. QED BY <3>1 DEF HasPacked, HasList, HasPlan
  <2>2. \A x \in Ranks : pc'[x] \notin HasList /\ pc'[x] \notin HasPlan
    BY <1>6, <2>1 DEF HasList, HasPlan
  <2>3. ASSUME NEW x \in Ranks, ~NotFinished(x)', NEW i \in LiveIndices(st'[x])
        PROVE  target[st'[x].P[i].ID[1]] = x
    <3>1. \A j \in LiveIndices(st[x]) : target[st[x].P[j].ID[1]] = x
      BY <1>0, <1>1, <2>1, <2>3 DEF PlanInv, NotFinished, TargetOf
    <3>2. CASE x = r
      <4>1. st'[x] = g /\ st[x] = s /\ i \in 1..NumPart(g)
        BY <1>3, <1>5, <2>3, <3>2 DEF s
      <4>2. f[i] \in LiveIndices(st[x]) /\ g.P[i].ID = s.P[f[i]].ID
        BY <1>5, <4>1 DEF SameParticle, L
      <4>. QED BY <3>1, <4>1, <4>2
    <3>3. CASE x # r
      BY <1>3, <2>3, <3>1, <3>3
    <3>. QED BY <3>2, <3>3
  <2>. QED BY <1>1, <2>2, <2>3 DEF PlanInv, TargetOf
<1>13. SentInv'
  BY <1>0, <1>1, <1>6, SentFrame DEF HasPacked, ToUnpack
<1>14. RoomInv'
  <2>1. \A x \in Ranks : pc[x] \in {"collect", "room", "particles"}
    BY <1>0, <1>1, SameStage
  <2>2. NumPart(g) + ToGetSum(r) <= MaxPart
    BY <1>0, <1>1, <1>9 DEF RoomInv
  <2>3. \A x \in Ranks : x # r => NLive(x)' = NLive(x)
    BY <1>3 DEF NLive
  <2>. QED BY <1>0, <1>1, <1>2, <1>3, <2>1, <2>2, <2>3, PlanCounts DEF RoomInv
<1>. QED BY <1>7, <1>8, <1>10, <1>11, <1>12, <1>13, <1>14 DEF IInv

\* slots_reserve on one rank.
LEMMA ReserveSlotsInv ==
  ASSUME IInv, NEW r \in Ranks, ReserveSlots(r)
  PROVE  IInv' /\ StaysPut
<1>0. ExTypeOK /\ StageInv /\ StoreInv /\ CopiesInv /\ PlanInv /\ SentInv /\ RoomInv
  BY DEF IInv
<1>. DEFINE s == st[r]
            g == Reserve(s, SlotsThen(r))
<1>1. /\ pc[r] = "reserve" /\ Go(r, "slots") /\ st' = [st EXCEPT ![r] = g]
      /\ target' = target /\ list' = list /\ layouts' = layouts /\ iter' = iter
      /\ sent' = sent /\ compact' = compact /\ failure' = failure
  BY DEF ReserveSlots
<1>2. \A x \in Ranks : pc'[x] = IF x = r THEN "slots" ELSE pc[x]
  BY <1>0, <1>1, PcAfter
<1>3. \A x \in Ranks : st'[x] = IF x = r THEN g ELSE st[x]
  BY <1>0, <1>1, StAfter
<1>4. /\ s \in Store /\ SlotsMatch(s) /\ OrphansMarked(s) /\ NumPart(s) <= MaxPart
      /\ \A t \in SlotTypes : Size(s, t) <= s.maxsize[t]
  BY <1>0 DEF ExTypeOK, StoreInv
<1>5. SlotsThen(r) \in [SlotTypes -> Nat]
      /\ \A t \in SlotTypes : SlotsThen(r)[t] = Size(s, t) + ToGetType(r, t)
  <2>1. \A t \in SlotTypes : Size(s, t) + ToGetType(r, t) \in Nat
    <3>1. \A t \in SlotTypes : Size(s, t) \in Nat /\ ToGetType(r, t) \in Nat
      <4>1. \A t \in SlotTypes : ToGetType(r, t) \in Nat
        BY <1>0, ArrivingFinite
      <4>. HIDE DEF s
      <4>2. \A t \in SlotTypes : Size(s, t) \in Nat
        BY <1>4, StoreParts
      <4>. QED BY <4>1, <4>2
    <3>. QED BY <3>1
  <2>. QED BY <2>1 DEF SlotsThen
<1>. HIDE DEF s
<1>6. /\ g \in Store /\ g.P = s.P /\ g.slot = s.slot
      /\ NumPart(g) = NumPart(s) /\ LiveIndices(g) = LiveIndices(s)
      /\ \A t \in SlotTypes : /\ Size(g, t) = Size(s, t)
                              /\ SlotsThen(r)[t] <= g.maxsize[t] /\ s.maxsize[t] <= g.maxsize[t]
      /\ SlotsMatch(g) /\ OrphansMarked(g)
  BY <1>4, <1>5, ReserveKeeps
<1>. HIDE DEF g
<1>7. \A x \in Ranks : (pc'[x] = pc[x]) \/ (pc[x] = "reserve" /\ pc'[x] = "slots")
  BY <1>1, <1>2
<1>8. ExTypeOK'
  <2>1. pc' \in [Ranks -> Local \cup Collective \cup {"returned"}]
    BY <1>0, <1>1 DEF ExTypeOK, Go, Collective
  <2>2. st' \in [Ranks -> Store]
    BY <1>0, <1>1, <1>6 DEF ExTypeOK
  <2>. QED BY <1>0, <1>1, <2>1, <2>2 DEF ExTypeOK
<1>9. StageInv'
  <2>1. \A S \in Stages : "reserve" \in S => "slots" \in S
    BY DEF Stages
  <2>. QED BY <1>0, <1>1, <2>1, StageGo
<1>10. StoreInv'
  <2>1. \A t \in SlotTypes : Size(g, t) <= g.maxsize[t]
    <3>1. \A t \in SlotTypes : Size(s, t) \in Nat /\ s.maxsize[t] \in Nat /\ g.maxsize[t] \in Nat
      BY <1>4, <1>6, StoreParts
    <3>. QED BY <1>4, <1>6, <3>1
  <2>. QED BY <1>0, <1>3, <1>4, <1>6, <2>1 DEF StoreInv
<1>11. \A x \in Ranks : st'[x].P = st[x].P /\ LiveIndices(st'[x]) = LiveIndices(st[x])
                        /\ NumPart(st'[x]) = NumPart(st[x])
                        /\ \A t \in SlotTypes : Size(st'[x], t) = Size(st[x], t)
  BY <1>3, <1>6, SMTT(30) DEF s
<1>12. CopiesInv'
  BY <1>0, <1>1, <1>11, SMTT(30) DEF CopiesInv, LiveAt, SentAt
<1>13. PlanInv'
  <2>1. \A x \in Ranks : pc[x] \in {"reserve", "slots"} /\ pc'[x] \in {"reserve", "slots"}
    BY <1>0, <1>1, <1>2, SameStage
  <2>2. \A x \in Ranks : pc[x] \in HasPacked /\ pc'[x] \notin HasList /\ pc'[x] \notin HasPlan
    BY <2>1 DEF HasPacked, HasList, HasPlan
  <2>3. ASSUME NEW x \in Ranks, ~NotFinished(x)', NEW i \in LiveIndices(st'[x])
        PROVE  target[st'[x].P[i].ID[1]] = x
    <3>1. \A j \in LiveIndices(st[x]) : target[st[x].P[j].ID[1]] = x
      BY <1>0, <1>1, <2>2, <2>3 DEF PlanInv, NotFinished, TargetOf
    <3>. QED BY <1>11, <3>1
  <2>. QED BY <1>1, <2>2, <2>3 DEF PlanInv, TargetOf
<1>14. SentInv'
  BY <1>0, <1>1, <1>7, SentFrame DEF HasPacked, ToUnpack
<1>15. RoomInv'
  <2>1. \A x \in Ranks : pc[x] \in {"reserve", "slots"} /\ pc'[x] \in {"reserve", "slots"}
    BY <1>0, <1>1, <1>2, SameStage
  <2>2. ASSUME NEW x \in Ranks PROVE NumPart(st'[x]) + ToGetSum(x) <= MaxPart
    BY <1>0, <1>11, <2>1 DEF RoomInv
  <2>3. ASSUME NEW x \in Ranks, pc'[x] = "slots", NEW t \in SlotTypes
        PROVE  Size(st'[x], t) + ToGetType(x, t) <= st'[x].maxsize[t]
    <3>1. CASE x = r
      BY <1>3, <1>5, <1>6, <3>1
    <3>2. CASE x # r
      BY <1>0, <1>2, <1>3, <2>3, <3>2 DEF RoomInv
    <3>. QED BY <3>1, <3>2
  <2>. QED BY <1>1, <2>1, <2>2, <2>3, PlanCounts DEF RoomInv
<1>16. StaysPut
  BY <1>1, <1>11 DEF StaysPut, Placed
<1>. QED BY <1>16, <1>8, <1>9, <1>10, <1>12, <1>13, <1>14, <1>15 DEF IInv

\* Where an element packed for q was.
PackedFrom(r, q, k) == list[r][InOrder(LeavingTo(r, q))[k]]

\* Each particle of the round is packed once.
LEMMA PackedOnce ==
  ASSUME ExTypeOK, NEW r \in Ranks, PackingInv(r)
  PROVE  /\ \A i \in InThisRound(r) : \E q \in Ranks : \E k \in 1..Cardinality(LeavingTo(r, q)) :
              PackedFrom(r, q, k) = i
         /\ \A q, q2 \in Ranks : \A k \in 1..Cardinality(LeavingTo(r, q)) :
              \A k2 \in 1..Cardinality(LeavingTo(r, q2)) :
                PackedFrom(r, q, k) = PackedFrom(r, q2, k2) => q = q2 /\ k = k2
<1>1. /\ Len(list[r]) \in Nat
      /\ \A n, m \in 1..Len(list[r]) : list[r][n] = list[r][m] => n = m
  BY ExchangeListRight DEF PackingInv
<1>2. /\ layouts[r] \in Seq(Layout) /\ Len(layouts[r]) \in Nat /\ DOMAIN layouts[r] = 1..Len(layouts[r])
      /\ \A n \in 1..Len(layouts[r]) : layouts[r][n].target \in Ranks /\ n \in 1..Len(list[r])
  <2>1. layouts[r] \in Seq(Layout)
    BY DEF ExTypeOK
  <2>2. Len(layouts[r]) \in Nat /\ DOMAIN layouts[r] = 1..Len(layouts[r])
        /\ \A n \in 1..Len(layouts[r]) : layouts[r][n] \in Layout
    BY <2>1
  <2>3. Len(layouts[r]) <= Len(list[r])
    BY DEF PackingInv
  <2>4. \A n \in 1..Len(layouts[r]) : n \in 1..Len(list[r])
    BY <1>1, <2>2, <2>3
  <2>. QED BY <2>1, <2>2, <2>4 DEF Layout
<1>3. ASSUME NEW q \in Ranks, NEW k \in 1..Cardinality(LeavingTo(r, q))
      PROVE  LET n == InOrder(LeavingTo(r, q))[k] IN
             /\ n \in 1..Len(layouts[r]) /\ n \in 1..Len(list[r]) /\ layouts[r][n].target = q
             /\ CountTo(LeavingTo(r, q), n) = k
  <2>. DEFINE L == LeavingTo(r, q)
  <2>1. /\ L \in SUBSET (1..Len(layouts[r]))
        /\ InOrder(L) \in [1..Cardinality(L) -> L]
        /\ CountTo(L, InOrder(L)[k]) = k
    BY LeavingToOrder
  <2>2. \A n \in L : layouts[r][n].target = q
    BY SMTT(30) DEF LeavingTo
  <2>. HIDE DEF L
  <2>3. InOrder(L)[k] \in L
    BY <2>1 DEF L
  <2>4. InOrder(L)[k] \in 1..Len(layouts[r])
    BY <2>1, <2>3
  <2>. QED BY <1>2, <2>1, <2>2, <2>3, <2>4 DEF L
<1>4. ASSUME NEW i \in InThisRound(r)
      PROVE  \E q \in Ranks : \E k \in 1..Cardinality(LeavingTo(r, q)) : PackedFrom(r, q, k) = i
  <2>1. PICK n \in DOMAIN layouts[r] : list[r][n] = i
    BY DEF InThisRound
  <2>2. PICK q \in Ranks : layouts[r][n].target = q
    BY <1>2, <2>1
  <2>3. n \in LeavingTo(r, q)
    BY <2>2 DEF LeavingTo
  <2>4. CountTo(LeavingTo(r, q), n) \in 1..Cardinality(LeavingTo(r, q))
        /\ InOrder(LeavingTo(r, q))[CountTo(LeavingTo(r, q), n)] = n
    BY <2>3, LeavingToOrder
  <2>. QED BY <2>1, <2>4 DEF PackedFrom
<1>5. ASSUME NEW q \in Ranks, NEW q2 \in Ranks, NEW k \in 1..Cardinality(LeavingTo(r, q)),
             NEW k2 \in 1..Cardinality(LeavingTo(r, q2)), PackedFrom(r, q, k) = PackedFrom(r, q2, k2)
      PROVE  q = q2 /\ k = k2
  <2>1. InOrder(LeavingTo(r, q))[k] = InOrder(LeavingTo(r, q2))[k2]
    BY <1>1, <1>3, <1>5 DEF PackedFrom
  <2>2. q = q2
    BY <1>3, <2>1
  <2>. QED BY <1>3, <2>1, <2>2
<1>. QED BY <1>4, <1>5

\* Packing moves a particle from the table into the buffer.
LEMMA PackInv ==
  ASSUME IInv, NEW r \in Ranks, Pack(r)
  PROVE  IInv' /\ SentOff /\ target' = target
<1>0. ExTypeOK /\ StageInv /\ StoreInv /\ CopiesInv /\ PlanInv /\ SentInv /\ RoomInv
  BY DEF IInv
<1>. DEFINE s == st[r]
            G == InThisRound(r)
            m == MarkGarbage(s, G)
            L == LiveIndices(s)
<1>1. /\ pc[r] = "pack" /\ Go(r, "any_gc") /\ st' = [st EXCEPT ![r] = m]
      /\ sent' = [sent EXCEPT ![r] = [q \in Ranks |-> Packed(r, q)]]
      /\ target' = target /\ list' = list /\ layouts' = layouts /\ iter' = iter
      /\ compact' = compact /\ failure' = failure
  BY DEF Pack
<1>2. \A x \in Ranks : pc'[x] = IF x = r THEN "any_gc" ELSE pc[x]
  BY <1>0, <1>1, PcAfter
<1>3. \A x \in Ranks : st'[x] = IF x = r THEN m ELSE st[x]
  BY <1>0, <1>1, StAfter
<1>4. sent \in [Ranks -> [Ranks -> Seq(Arrival)]]
  BY <1>0 DEF ExTypeOK
<1>5. \A q, x \in Ranks : sent'[q][x] = IF q = r THEN Packed(r, x) ELSE sent[q][x]
  BY <1>1, <1>4
<1>6. PackingInv(r)
  <2>1. pc[r] \in HasList /\ pc[r] \in HasPlan
    BY <1>1 DEF HasList, HasPlan
  <2>2. st[r] \in Store /\ SlotsMatch(st[r])
    BY <1>0 DEF ExTypeOK, StoreInv
  <2>. QED BY <1>0, <2>1, <2>2 DEF PlanInv, PackingInv
<1>7. /\ s \in Store /\ SlotsMatch(s) /\ OrphansMarked(s) /\ NumPart(s) <= MaxPart
      /\ \A t \in SlotTypes : Size(s, t) <= s.maxsize[t]
  BY <1>0 DEF ExTypeOK, StoreInv
<1>8. /\ G \in SUBSET L
      /\ Cardinality(L \ G) = NLive(r) - ToGoSum(r)
      /\ ~NotFinished(r) => \A i \in L \ G : TargetOf(r, i) = r
  BY <1>0, <1>6, InThisRoundRight
<1>9. \A q \in Ranks :
        /\ Packed(r, q) \in Seq(Arrival)
        /\ Len(Packed(r, q)) = Cardinality(LeavingTo(r, q))
        /\ DOMAIN Packed(r, q) = 1..Cardinality(LeavingTo(r, q))
        /\ \A k \in 1..Cardinality(LeavingTo(r, q)) :
             /\ PackedFrom(r, q, k) \in G /\ PackedFrom(r, q, k) \in L
             /\ Packed(r, q)[k].part = s.P[PackedFrom(r, q, k)]
             /\ Packed(r, q)[k].part.Type = layouts[r][InOrder(LeavingTo(r, q))[k]].type
             /\ ~Packed(r, q)[k].part.IsGarbage
             /\ target[Packed(r, q)[k].part.ID[1]] = q
             /\ HasSlot(Packed(r, q)[k].part) => Packed(r, q)[k].slot.ID = Packed(r, q)[k].part.ID
  BY <1>0, <1>6, PackedRight DEF PackedFrom
<1>10. /\ \A i \in G : \E q \in Ranks : \E k \in 1..Cardinality(LeavingTo(r, q)) : PackedFrom(r, q, k) = i
       /\ \A q, q2 \in Ranks : \A k \in 1..Cardinality(LeavingTo(r, q)) :
            \A k2 \in 1..Cardinality(LeavingTo(r, q2)) :
              PackedFrom(r, q, k) = PackedFrom(r, q2, k2) => q = q2 /\ k = k2
  BY <1>0, <1>6, PackedOnce
<1>11. /\ \A i \in L : s.P[i].ID[1] \in Ids
       /\ \A x \in Ranks : \A i \in L, i2 \in LiveIndices(st[x]) :
            s.P[i].ID[1] = st[x].P[i2].ID[1] => r = x /\ i = i2
  BY <1>0 DEF CopiesInv
<1>. HIDE DEF s, G, L
<1>12. /\ m \in Store
       /\ NumPart(m) = NumPart(s)
       /\ LiveIndices(m) = L \ G
       /\ \A i \in LiveIndices(m) : m.P[i] = s.P[i]
       /\ \A t \in SlotTypes : Size(m, t) = Size(s, t)
       /\ m.maxsize = s.maxsize
       /\ SlotsMatch(m) /\ OrphansMarked(m)
  BY <1>7, <1>8, MarkGarbageKeeps DEF L
<1>. HIDE DEF m
<1>13. \A x \in Ranks : pc[x] \in {"pack", "any_gc"} /\ pc'[x] \in {"pack", "any_gc"}
  BY <1>0, <1>1, <1>2, SameStage
<1>14. \A x \in Ranks : sent[r][x] = <<>> /\ DOMAIN sent[r][x] = {}
  BY <1>0, <1>1 DEF SentInv, HasPacked
<1>15. ExTypeOK'
  <2>1. pc' \in [Ranks -> Local \cup Collective \cup {"returned"}]
    BY <1>0, <1>1 DEF ExTypeOK, Go, Collective
  <2>2. st' \in [Ranks -> Store]
    BY <1>0, <1>1, <1>12 DEF ExTypeOK
  <2>3. sent' \in [Ranks -> [Ranks -> Seq(Arrival)]]
    <3>1. [q \in Ranks |-> Packed(r, q)] \in [Ranks -> Seq(Arrival)]
      BY <1>9
    <3>. QED BY <1>1, <1>4, <3>1
  <2>. QED BY <1>0, <1>1, <2>1, <2>2, <2>3 DEF ExTypeOK
<1>16. StageInv'
  <2>1. \A S \in Stages : "pack" \in S => "any_gc" \in S
    BY DEF Stages
  <2>. QED BY <1>0, <1>1, <2>1, StageGo
<1>17. StoreInv'
  BY <1>0, <1>3, <1>7, <1>12 DEF StoreInv
<1>18. \A x \in Ranks : /\ \A i \in LiveIndices(st'[x]) : i \in LiveIndices(st[x]) /\ st'[x].P[i] = st[x].P[i]
                        /\ x # r => LiveIndices(st'[x]) = LiveIndices(st[x])
  BY <1>3, <1>12 DEF s, L
<1>19. \A i \in L : i \notin G => i \in LiveIndices(st'[r])
  BY <1>3, <1>12
<1>20. \A x \in Ranks : \A k \in DOMAIN Packed(r, x) :
         /\ k \in 1..Cardinality(LeavingTo(r, x))
         /\ PackedFrom(r, x, k) \in G /\ PackedFrom(r, x, k) \in L
         /\ Packed(r, x)[k].part.ID[1] = s.P[PackedFrom(r, x, k)].ID[1]
  BY <1>9
<1>21. CopiesInv'
  <2>1. ASSUME NEW p \in Ids
        PROVE  \/ \E x \in Ranks : \E i \in LiveIndices(st'[x]) : st'[x].P[i].ID[1] = p
               \/ \E q, x \in Ranks : \E k \in DOMAIN sent'[q][x] : sent'[q][x][k].part.ID[1] = p
    <3>1. CASE \E x \in Ranks : \E i \in LiveIndices(st[x]) : LiveAt(x, i, p)
      <4>1. PICK x \in Ranks : \E i \in LiveIndices(st[x]) : st[x].P[i].ID[1] = p
        BY <3>1 DEF LiveAt
      <4>2. PICK i \in LiveIndices(st[x]) : st[x].P[i].ID[1] = p
        BY <4>1
      <4>3. CASE x = r /\ i \in G
        <5>1. PICK q \in Ranks : \E k \in 1..Cardinality(LeavingTo(r, q)) : PackedFrom(r, q, k) = i
          BY <1>10, <4>3
        <5>2. PICK k \in 1..Cardinality(LeavingTo(r, q)) : PackedFrom(r, q, k) = i
          BY <5>1
        <5>3. Packed(r, q)[k].part.ID[1] = p /\ k \in DOMAIN Packed(r, q)
          BY <1>9, <4>2, <4>3, <5>2 DEF s
        <5>. QED BY <1>5, <5>3
      <4>4. CASE ~(x = r /\ i \in G)
        <5>1. i \in LiveIndices(st'[x])
          BY <1>18, <1>19, <4>4 DEF s, L
        <5>. QED BY <1>18, <4>2, <5>1
      <4>. QED BY <4>3, <4>4
    <3>2. CASE \E q, x \in Ranks : \E k \in DOMAIN sent[q][x] : SentAt(q, x, k, p)
      <4>1. PICK q \in Ranks, x \in Ranks : \E k \in DOMAIN sent[q][x] : sent[q][x][k].part.ID[1] = p
        BY <3>2 DEF SentAt
      <4>2. sent'[q][x] = sent[q][x]
        BY <1>5, <1>14, <4>1
      <4>. QED BY <4>1, <4>2
    <3>. QED BY <1>0, <3>1, <3>2 DEF CopiesInv
  <2>2. \A x \in Ranks : \A i \in LiveIndices(st'[x]) : st'[x].P[i].ID[1] \in Ids
    BY <1>0, <1>18 DEF CopiesInv
  <2>3. ASSUME NEW q \in Ranks, NEW x \in Ranks, NEW k \in DOMAIN sent'[q][x]
        PROVE  sent'[q][x][k].part.ID[1] \in Ids
    <3>1. CASE q = r
      BY <1>5, <1>11, <1>20, <2>3, <3>1
    <3>2. CASE q # r
      BY <1>0, <1>5, <2>3, <3>2 DEF CopiesInv
    <3>. QED BY <3>1, <3>2
  <2>4. ASSUME NEW x \in Ranks, NEW x2 \in Ranks, NEW i \in LiveIndices(st'[x]), NEW i2 \in LiveIndices(st'[x2]),
               st'[x].P[i].ID[1] = st'[x2].P[i2].ID[1]
        PROVE  x = x2 /\ i = i2
    <3>1. /\ i \in LiveIndices(st[x]) /\ i2 \in LiveIndices(st[x2])
          /\ st[x].P[i].ID[1] = st[x2].P[i2].ID[1]
      BY <1>18, <2>4
    <3>. QED BY <1>0, <3>1 DEF CopiesInv
  <2>5. ASSUME NEW q \in Ranks, NEW x \in Ranks, NEW k \in DOMAIN sent'[q][x], NEW x2 \in Ranks,
               NEW i \in LiveIndices(st'[x2])
        PROVE  sent'[q][x][k].part.ID[1] # st'[x2].P[i].ID[1]
    <3>1. i \in LiveIndices(st[x2]) /\ st'[x2].P[i] = st[x2].P[i]
      BY <1>18
    <3>2. CASE q = r
      <4>1. /\ PackedFrom(r, x, k) \in G /\ PackedFrom(r, x, k) \in L
            /\ sent'[q][x][k].part.ID[1] = s.P[PackedFrom(r, x, k)].ID[1]
        BY <1>5, <1>20, <3>2
      <4>2. x2 = r => i \notin G
        BY <1>3, <1>12
      <4>. QED BY <1>11, <3>1, <4>1, <4>2
    <3>3. CASE q # r
      BY <1>0, <1>5, <3>1, <3>3 DEF CopiesInv
    <3>. QED BY <3>2, <3>3
  <2>6. ASSUME NEW q \in Ranks, NEW x \in Ranks, NEW q2 \in Ranks, NEW x2 \in Ranks,
               NEW k \in DOMAIN sent'[q][x], NEW k2 \in DOMAIN sent'[q2][x2],
               sent'[q][x][k].part.ID[1] = sent'[q2][x2][k2].part.ID[1]
        PROVE  q = q2 /\ x = x2 /\ k = k2
    <3>1. CASE q = r /\ q2 = r
      <4>1. /\ k \in 1..Cardinality(LeavingTo(r, x)) /\ k2 \in 1..Cardinality(LeavingTo(r, x2))
            /\ PackedFrom(r, x, k) \in L /\ PackedFrom(r, x2, k2) \in L
            /\ s.P[PackedFrom(r, x, k)].ID[1] = s.P[PackedFrom(r, x2, k2)].ID[1]
        BY <1>5, <1>20, <2>6, <3>1
      <4>2. PackedFrom(r, x, k) = PackedFrom(r, x2, k2)
        BY <1>11, <4>1 DEF s, L
      <4>. QED BY <1>10, <3>1, <4>1, <4>2
    <3>2. CASE q # r /\ q2 # r
      <4>1. sent'[q][x] = sent[q][x] /\ sent'[q2][x2] = sent[q2][x2]
        BY <1>5, <3>2
      <4>2. /\ k \in DOMAIN sent[q][x] /\ k2 \in DOMAIN sent[q2][x2]
            /\ sent[q][x][k].part.ID[1] = sent[q2][x2][k2].part.ID[1]
        BY <2>6, <4>1
      <4>. QED BY <1>0, <4>2 DEF CopiesInv
    <3>3. ASSUME NEW a \in Ranks, NEW b \in Ranks, a # r, NEW j \in DOMAIN sent[a][b],
                 NEW y \in Ranks, NEW j2 \in DOMAIN Packed(r, y),
                 sent[a][b][j].part.ID[1] = Packed(r, y)[j2].part.ID[1]
          PROVE  FALSE
      <4>1. PackedFrom(r, y, j2) \in L /\ Packed(r, y)[j2].part.ID[1] = s.P[PackedFrom(r, y, j2)].ID[1]
        BY <1>20
      <4>. QED BY <1>0, <3>3, <4>1, SMTT(30) DEF CopiesInv, s, L
    <3>4. CASE q = r /\ q2 # r
      BY <1>5, <2>6, <3>3, <3>4, SMTT(30)
    <3>5. CASE q # r /\ q2 = r
      BY <1>5, <2>6, <3>3, <3>5, SMTT(30)
    <3>. QED BY <3>1, <3>2, <3>4, <3>5
  <2>7. \A x, i, p : LiveAt(x, i, p)' <=> i \in LiveIndices(st'[x]) /\ st'[x].P[i].ID[1] = p
    BY DEF LiveAt
  <2>8. \A q, x, k, p : SentAt(q, x, k, p)' <=> k \in DOMAIN sent'[q][x] /\ sent'[q][x][k].part.ID[1] = p
    BY DEF SentAt
  <2>9. \A p \in Ids : \/ \E x \in Ranks : \E i \in LiveIndices(st'[x]) : LiveAt(x, i, p)'
                       \/ \E q, x \in Ranks : \E k \in DOMAIN sent'[q][x] : SentAt(q, x, k, p)'
    BY <2>1, <2>7, <2>8
  <2>. QED BY <2>2, <2>3, <2>4, <2>5, <2>6, <2>9 DEF CopiesInv
<1>22. PlanInv'
  <2>1. \A x \in Ranks : x # r => /\ ExchangeList(x)' = ExchangeList(x)
                                  /\ \A i : TargetOf(x, i)' = TargetOf(x, i)
    BY <1>1, <1>3 DEF ExchangeList, TargetOf
  <2>2. ASSUME NEW x \in Ranks, x # r, pc'[x] \in HasList
        PROVE  list[x] = ExchangeList(x)'
    BY <1>0, <1>2, <2>1, <2>2 DEF PlanInv
  <2>3. pc'[r] \notin HasList /\ pc'[r] \notin HasPlan
    BY <1>2 DEF HasList, HasPlan
  <2>4. ASSUME NEW x \in Ranks, x # r, pc'[x] \in HasPlan
        PROVE  /\ Len(layouts[x]) <= Len(list[x])
               /\ \A n \in 1..Len(layouts[x]) :
                    layouts[x][n] = [target |-> TargetOf(x, list[x][n])', type |-> st'[x].P[list[x][n]].Type]
    <3>1. st'[x] = st[x] /\ pc[x] \in HasPlan
      BY <1>2, <1>3, <2>4
    <3>2. /\ Len(layouts[x]) <= Len(list[x])
          /\ \A n \in 1..Len(layouts[x]) :
               layouts[x][n] = [target |-> TargetOf(x, list[x][n]), type |-> st[x].P[list[x][n]].Type]
      BY <1>0, <3>1 DEF PlanInv
    <3>3. ASSUME NEW n \in 1..Len(layouts[x])
          PROVE  TargetOf(x, list[x][n])' = TargetOf(x, list[x][n])
      BY <1>1, <3>1 DEF TargetOf
    <3>. QED BY <3>1, <3>2, <3>3
  <2>5. ASSUME NEW x \in Ranks, pc'[x] \in HasPacked, ~NotFinished(x)', NEW i \in LiveIndices(st'[x])
        PROVE  TargetOf(x, i)' = x
    <3>1. ~NotFinished(x)
      BY <1>1, <2>5 DEF NotFinished
    <3>2. CASE x = r
      <4>1. i \in L /\ i \notin G /\ st'[r].P[i] = s.P[i]
        BY <1>3, <1>12, <2>5, <3>2
      <4>2. TargetOf(r, i) = r
        BY <1>8, <3>1, <3>2, <4>1
      <4>. QED BY <1>1, <3>2, <4>1, <4>2 DEF TargetOf, s
    <3>3. CASE x # r
      BY <1>0, <1>2, <1>18, <2>1, <2>5, <3>1, <3>3 DEF PlanInv
    <3>. QED BY <3>2, <3>3
  <2>. QED BY <1>1, <2>2, <2>3, <2>4, <2>5 DEF PlanInv
<1>23. SentInv'
  <2>1. \A q, x : LeavingTo(q, x)' = LeavingTo(q, x)
    BY <1>1 DEF LeavingTo
  <2>2. \A x \in Ranks : pc'[x] \in ToUnpack /\ pc[x] \in ToUnpack
    BY <1>13 DEF ToUnpack
  <2>3. ASSUME NEW x \in Ranks PROVE OnPlan(r, x)'
    BY <1>1, <1>5, <1>9, <2>1 DEF OnPlan
  <2>4. pc'[r] \in HasPacked
    BY <1>2 DEF HasPacked
  <2>5. ASSUME NEW q \in Ranks, NEW x \in Ranks, q # r
        PROVE  IF pc'[q] \in HasPacked THEN OnPlan(q, x)' ELSE sent'[q][x] = <<>>
    <3>1. OnPlan(q, x)' = OnPlan(q, x)
      BY <1>1, <1>5, <2>1, <2>5 DEF OnPlan
    <3>2. pc'[q] = pc[q] /\ sent'[q][x] = sent[q][x]
      BY <1>2, <1>5, <2>5
    <3>. QED BY <1>0, <2>2, <3>1, <3>2 DEF SentInv
  <2>. QED BY <2>2, <2>3, <2>4, <2>5 DEF SentInv
<1>24. RoomInv'
  <2>1. NLive(r)' + ToGetSum(r) <= MaxPart
    <3>1. NLive(r)' = NLive(r) - ToGoSum(r)
      BY <1>3, <1>8, <1>12 DEF NLive
    <3>2. NLive(r) + ToGetSum(r) - ToGoSum(r) <= MaxPart
      BY <1>0, <1>1 DEF RoomInv
    <3>3. NLive(r) \in Nat /\ ToGetSum(r) \in Nat /\ ToGoSum(r) \in Nat /\ MaxPart \in Nat
      BY <1>0, ExchangeListRight, ArrivingFinite, RankFacts
    <3>. QED BY <3>1, <3>2, <3>3
  <2>2. \A x \in Ranks : x # r => NLive(x)' = NLive(x)
    BY <1>3 DEF NLive
  <2>. QED BY <1>0, <1>1, <1>2, <1>13, <2>1, <2>2, PlanCounts DEF RoomInv
<1>25. SentOff
  <2>. SUFFICES ASSUME NEW p \in Ids, NEW x \in Ranks, Placed(p, x)
                PROVE  Placed(p, x)' \/ Placed(p, target[p])'
    BY DEF SentOff
  <2>1. CASE \E q \in Ranks : \E k \in DOMAIN sent[q][x] : sent[q][x][k].part.ID[1] = p
    <3>1. PICK q \in Ranks : \E k \in DOMAIN sent[q][x] : sent[q][x][k].part.ID[1] = p
      BY <2>1
    <3>2. sent'[q][x] = sent[q][x]
      BY <1>5, <1>14, <3>1
    <3>. QED BY <3>1, <3>2 DEF Placed
  <2>2. ASSUME NEW i \in LiveIndices(st[x]), st[x].P[i].ID[1] = p
        PROVE  Placed(p, x)' \/ Placed(p, target[p])'
    <3>1. CASE x = r /\ i \in G
      <4>1. PICK q \in Ranks : \E k \in 1..Cardinality(LeavingTo(r, q)) : PackedFrom(r, q, k) = i
        BY <1>10, <3>1
      <4>2. PICK k \in 1..Cardinality(LeavingTo(r, q)) : PackedFrom(r, q, k) = i
        BY <4>1
      <4>3. /\ sent'[r][q] = Packed(r, q) /\ k \in DOMAIN Packed(r, q)
            /\ Packed(r, q)[k].part = s.P[i] /\ target[Packed(r, q)[k].part.ID[1]] = q
        BY <1>5, <1>9, <4>2
      <4>4. Packed(r, q)[k].part.ID[1] = p /\ target[p] = q
        BY <2>2, <3>1, <4>3 DEF s
      <4>5. r \in Ranks /\ k \in DOMAIN sent'[r][q] /\ sent'[r][q][k].part.ID[1] = p
        BY <4>3, <4>4
      <4>. QED BY <1>1, <4>4, <4>5 DEF Placed
    <3>2. CASE x = r /\ i \notin G
      <4>1. i \in LiveIndices(st'[x]) /\ st'[x].P[i] = st[x].P[i]
        BY <1>3, <1>12, <2>2, <3>2 DEF s, L
      <4>. QED BY <2>2, <4>1 DEF Placed
    <3>3. CASE x # r
      <4>1. st'[x] = st[x]
        BY <1>3, <3>3
      <4>. QED BY <2>2, <4>1 DEF Placed
    <3>. QED BY <3>1, <3>2, <3>3
  <2>. QED BY <2>1, <2>2 DEF Placed
<1>. QED BY <1>1, <1>25, <1>15, <1>16, <1>17, <1>21, <1>22, <1>23, <1>24 DEF IInv

\* The store of the rank that unpacks.
LEMMA UnpackStep ==
  ASSUME ExTypeOK, NEW r \in Ranks, Unpack(r)
  PROVE  /\ \A x \in Ranks : st'[x] = IF x = r THEN Unpacked(st[r], Received(r)) ELSE st[x]
         /\ st' = [st EXCEPT ![r] = Unpacked(st[r], Received(r))]
<1>. DEFINE s == st[r]
            arrivals == Received(r)
            np == [k \in DOMAIN arrivals |->
                     IF HasSlot(arrivals[k].part) THEN [arrivals[k].part EXCEPT !.PI = NewPI(r, k)]
                                                  ELSE arrivals[k].part]
            ns(t) == [k \in DOMAIN OfType(arrivals, t) |-> OfType(arrivals, t)[k].slot]
            x0 == s.P \o np
            y0 == [t \in SlotTypes |-> s.slot[t] \o ns(t)]
<1>1. st' = [st EXCEPT ![r].P = x0, ![r].slot = y0]
  <2>1. st' = [st EXCEPT ![r].P = @ \o np, ![r].slot = [t \in SlotTypes |-> @[t] \o ns(t)]]
    BY Zenon DEF Unpack
  <2>2. st \in [Ranks -> Store]
    BY DEF ExTypeOK
  <2>3. DOMAIN st = Ranks /\ s \in Store
    BY <2>2
  <2>. HIDE DEF np, ns
  <2>. QED BY <2>1, <2>3
<1>2. st \in [Ranks -> Store] /\ s \in Store
  BY DEF ExTypeOK
<1>3. [k \in DOMAIN arrivals |-> UnpackedPart(s, arrivals, k)] = np
  BY Zenon DEF UnpackedPart, NewPI
<1>4. Unpacked(s, arrivals) = [P |-> x0, slot |-> y0, maxsize |-> s.maxsize]
  BY <1>3, Zenon DEF Unpacked
<1>. HIDE DEF x0, y0, s
<1>5. [s EXCEPT !.P = x0, !.slot = y0] = [P |-> x0, slot |-> y0, maxsize |-> s.maxsize]
  <2>1. PICK a : a = s
    OBVIOUS
  <2>2. PICK b : b = x0
    OBVIOUS
  <2>3. PICK c : c = y0
    OBVIOUS
  <2>4. a \in Store
    BY <1>2, <2>1
  <2>5. [a EXCEPT !.P = b, !.slot = c] = [P |-> b, slot |-> c, maxsize |-> a.maxsize]
    <3>1. [a EXCEPT !.P = b, !.slot = c] = [[a EXCEPT !.P = b] EXCEPT !.slot = c]
      OBVIOUS
    <3>2. [a EXCEPT !.P = b] = [P |-> b, slot |-> a.slot, maxsize |-> a.maxsize]
      BY <2>4, StoreExcept
    <3>3. [[P |-> b, slot |-> a.slot, maxsize |-> a.maxsize] EXCEPT !.slot = c]
            = [P |-> b, slot |-> c, maxsize |-> a.maxsize]
      OBVIOUS
    <3>. QED BY <3>1, <3>2, <3>3
  <2>. QED BY <2>1, <2>2, <2>3, <2>5
<1>6. st' = [st EXCEPT ![r] = [s EXCEPT !.P = x0, !.slot = y0]]
  BY <1>1, <1>2 DEF s
<1>. QED BY <1>2, <1>4, <1>5, <1>6 DEF s

\* The elements sent to rank r are put behind its particles.
Arrived(at, r) ==
  /\ \A x \in Ranks : x # r => st'[x] = st[x]
  /\ \A q, x \in Ranks : sent'[q][x] = IF x = r THEN <<>> ELSE sent[q][x]
  /\ \A i \in LiveIndices(st'[r]) :
       \/ i \in LiveIndices(st[r]) /\ st'[r].P[i].ID[1] = st[r].P[i].ID[1]
       \/ \E e \in SentElements(r) : /\ i = NumPart(st[r]) + at[e]
                                     /\ st'[r].P[i].ID[1] = sent[e[1]][r][e[2]].part.ID[1]
  /\ \A i \in LiveIndices(st[r]) : i \in LiveIndices(st'[r]) /\ st'[r].P[i].ID[1] = st[r].P[i].ID[1]
  /\ \A e \in SentElements(r) :
       LET i == NumPart(st[r]) + at[e] IN
       i \in LiveIndices(st'[r]) /\ st'[r].P[i].ID[1] = sent[e[1]][r][e[2]].part.ID[1]

\* What was sent to a rank, as pairs of a sender and a place in its buffer.
LEMMA ElementsSent ==
  ASSUME ExTypeOK, NEW r \in Ranks
  PROVE  /\ \A e \in SentElements(r) : /\ e = <<e[1], e[2]>>
                                       /\ e[1] \in Ranks /\ e[2] \in DOMAIN sent[e[1]][r]
         /\ \A q \in Ranks : \A k \in DOMAIN sent[q][r] : <<q, k>> \in SentElements(r)
<1>1. \A q \in Ranks : sent[q][r] \in Seq(Arrival)
  BY DEF ExTypeOK
<1>2. \A q \in Ranks : DOMAIN sent[q][r] = 1..Len(sent[q][r]) /\ Len(sent[q][r]) \in Nat
  BY <1>1
<1>. QED BY <1>2 DEF SentElements

\* Each particle is still there once when those in the buffers reach the table.
LEMMA CopiesArrived ==
  ASSUME ExTypeOK, CopiesInv, NEW r \in Ranks, NEW at, Arrived(at, r)
  PROVE  CopiesInv'
<1>0. /\ \A x \in Ranks : x # r => st'[x] = st[x]
      /\ \A q, x \in Ranks : sent'[q][x] = IF x = r THEN <<>> ELSE sent[q][x]
      /\ \A i \in LiveIndices(st'[r]) :
           \/ i \in LiveIndices(st[r]) /\ st'[r].P[i].ID[1] = st[r].P[i].ID[1]
           \/ \E e \in SentElements(r) : /\ i = NumPart(st[r]) + at[e]
                                         /\ st'[r].P[i].ID[1] = sent[e[1]][r][e[2]].part.ID[1]
      /\ \A i \in LiveIndices(st[r]) : i \in LiveIndices(st'[r]) /\ st'[r].P[i].ID[1] = st[r].P[i].ID[1]
  BY DEF Arrived
<1>1. \A e \in SentElements(r) :
        /\ NumPart(st[r]) + at[e] \in LiveIndices(st'[r])
        /\ st'[r].P[NumPart(st[r]) + at[e]].ID[1] = sent[e[1]][r][e[2]].part.ID[1]
  BY DEF Arrived
<1>2. /\ \A e \in SentElements(r) : /\ e = <<e[1], e[2]>>
                                    /\ e[1] \in Ranks /\ e[2] \in DOMAIN sent[e[1]][r]
      /\ \A q \in Ranks : \A k \in DOMAIN sent[q][r] : <<q, k>> \in SentElements(r)
  BY ElementsSent
<1>2a. /\ \A x \in Ranks : \A i \in LiveIndices(st[x]) : st[x].P[i].ID[1] \in Ids
       /\ \A q, x \in Ranks : \A k \in DOMAIN sent[q][x] : sent[q][x][k].part.ID[1] \in Ids
  BY DEF CopiesInv
<1>2b. \A x, x2 \in Ranks : \A i \in LiveIndices(st[x]), i2 \in LiveIndices(st[x2]) :
         st[x].P[i].ID[1] = st[x2].P[i2].ID[1] => x = x2 /\ i = i2
  BY DEF CopiesInv
<1>2c. \A q, x, q2, x2 \in Ranks : \A k \in DOMAIN sent[q][x], k2 \in DOMAIN sent[q2][x2] :
         sent[q][x][k].part.ID[1] = sent[q2][x2][k2].part.ID[1] => q = q2 /\ x = x2 /\ k = k2
  BY DEF CopiesInv
<1>2d. \A q, x, x2 \in Ranks : \A k \in DOMAIN sent[q][x], i \in LiveIndices(st[x2]) :
         sent[q][x][k].part.ID[1] # st[x2].P[i].ID[1]
  BY DEF CopiesInv
<1>3. \A q, x \in Ranks : \A k \in DOMAIN sent'[q][x] :
        x # r /\ k \in DOMAIN sent[q][x] /\ sent'[q][x] = sent[q][x]
  BY <1>0
<1>4. ASSUME NEW p \in Ids
      PROVE  \/ \E x \in Ranks : \E i \in LiveIndices(st'[x]) : st'[x].P[i].ID[1] = p
             \/ \E q, x \in Ranks : \E k \in DOMAIN sent'[q][x] : sent'[q][x][k].part.ID[1] = p
  <2>1. CASE \E x \in Ranks : \E j \in LiveIndices(st[x]) : LiveAt(x, j, p)
    <3>1. PICK x \in Ranks : \E j \in LiveIndices(st[x]) : st[x].P[j].ID[1] = p
      BY <2>1 DEF LiveAt
    <3>. QED BY <1>0, <3>1
  <2>2. CASE \E q, x \in Ranks : \E k \in DOMAIN sent[q][x] : SentAt(q, x, k, p)
    <3>1. PICK q \in Ranks, x \in Ranks : \E k \in DOMAIN sent[q][x] : sent[q][x][k].part.ID[1] = p
      BY <2>2 DEF SentAt
    <3>2. PICK k \in DOMAIN sent[q][x] : sent[q][x][k].part.ID[1] = p
      BY <3>1
    <3>3. CASE x = r
      <4>1. <<q, k>> \in SentElements(r)
        BY <1>2, <3>2, <3>3
      <4>. QED BY <1>1, <3>2, <3>3, <4>1
    <3>4. CASE x # r
      <4>1. sent'[q][x] = sent[q][x]
        BY <1>0, <3>4
      <4>. QED BY <3>2, <4>1
    <3>. QED BY <3>3, <3>4
  <2>. QED BY <2>1, <2>2 DEF CopiesInv
<1>5. ASSUME NEW x \in Ranks, NEW i \in LiveIndices(st'[x])
      PROVE  \/ i \in LiveIndices(st[x]) /\ st'[x].P[i].ID[1] = st[x].P[i].ID[1]
             \/ \E e \in SentElements(r) : /\ x = r /\ i = NumPart(st[r]) + at[e]
                                           /\ e[1] \in Ranks /\ e[2] \in DOMAIN sent[e[1]][r]
                                           /\ st'[x].P[i].ID[1] = sent[e[1]][r][e[2]].part.ID[1]
  <2>1. CASE x = r
    BY <1>0, <1>2, <2>1
  <2>2. CASE x # r
    BY <1>0, <2>2
  <2>. QED BY <2>1, <2>2
<1>5a. ASSUME NEW e \in SentElements(r)
       PROVE  /\ sent[e[1]][r][e[2]].part.ID[1] \in Ids
              /\ \A y \in Ranks : \A j \in LiveIndices(st[y]) :
                   st[y].P[j].ID[1] # sent[e[1]][r][e[2]].part.ID[1]
              /\ \A d \in SentElements(r) :
                   sent[d[1]][r][d[2]].part.ID[1] = sent[e[1]][r][e[2]].part.ID[1] => d = e
  <2>1. e[1] \in Ranks /\ e[2] \in DOMAIN sent[e[1]][r]
    BY <1>2
  <2>2. ASSUME NEW d \in SentElements(r),
               sent[d[1]][r][d[2]].part.ID[1] = sent[e[1]][r][e[2]].part.ID[1]
        PROVE  d = e
    <3>1. d[1] \in Ranks /\ d[2] \in DOMAIN sent[d[1]][r] /\ d = <<d[1], d[2]>> /\ e = <<e[1], e[2]>>
      BY <1>2
    <3>2. d[1] = e[1] /\ d[2] = e[2]
      BY <1>2c, <2>1, <2>2, <3>1
    <3>. QED BY <3>1, <3>2
  <2>3. \A y \in Ranks : \A j \in LiveIndices(st[y]) :
                   st[y].P[j].ID[1] # sent[e[1]][r][e[2]].part.ID[1]
    BY <1>2d, <2>1
  <2>. QED BY <1>2a, <2>1, <2>2, <2>3
<1>6. ASSUME NEW x \in Ranks, NEW i \in LiveIndices(st'[x])
      PROVE  st'[x].P[i].ID[1] \in Ids
  <2>1. CASE i \in LiveIndices(st[x]) /\ st'[x].P[i].ID[1] = st[x].P[i].ID[1]
    BY <1>2a, <2>1
  <2>2. CASE \E e \in SentElements(r) : st'[x].P[i].ID[1] = sent[e[1]][r][e[2]].part.ID[1]
    BY <1>5a, <2>2
  <2>. QED BY <1>5, <2>1, <2>2
<1>7. \A q, x \in Ranks : \A k \in DOMAIN sent'[q][x] : sent'[q][x][k].part.ID[1] \in Ids
  BY <1>2a, <1>3
<1>8. ASSUME NEW x \in Ranks, NEW x2 \in Ranks, NEW i \in LiveIndices(st'[x]), NEW i2 \in LiveIndices(st'[x2]),
             st'[x].P[i].ID[1] = st'[x2].P[i2].ID[1]
      PROVE  x = x2 /\ i = i2
  <2>1. CASE i \in LiveIndices(st[x]) /\ st'[x].P[i].ID[1] = st[x].P[i].ID[1]
             /\ i2 \in LiveIndices(st[x2]) /\ st'[x2].P[i2].ID[1] = st[x2].P[i2].ID[1]
    <3>1. /\ i \in LiveIndices(st[x]) /\ i2 \in LiveIndices(st[x2])
          /\ st[x].P[i].ID[1] = st[x2].P[i2].ID[1]
      BY <1>8, <2>1
    <3>. QED BY <1>2b, <3>1
  <2>2. ASSUME NEW e \in SentElements(r), x = r, i = NumPart(st[r]) + at[e],
               st'[x].P[i].ID[1] = sent[e[1]][r][e[2]].part.ID[1]
        PROVE  x = x2 /\ i = i2
    <3>1. CASE i2 \in LiveIndices(st[x2]) /\ st'[x2].P[i2].ID[1] = st[x2].P[i2].ID[1]
      BY <1>5a, <1>8, <2>2, <3>1
    <3>2. ASSUME NEW d \in SentElements(r), x2 = r, i2 = NumPart(st[r]) + at[d],
                 st'[x2].P[i2].ID[1] = sent[d[1]][r][d[2]].part.ID[1]
          PROVE  x = x2 /\ i = i2
      <4>1. d = e
        BY <1>5a, <1>8, <2>2, <3>2
      <4>. QED BY <2>2, <3>2, <4>1
    <3>. QED BY <1>5, <3>1, <3>2
  <2>3. ASSUME i \in LiveIndices(st[x]), st'[x].P[i].ID[1] = st[x].P[i].ID[1]
        PROVE  x = x2 /\ i = i2
    <3>1. ~\E e \in SentElements(r) : st'[x2].P[i2].ID[1] = sent[e[1]][r][e[2]].part.ID[1]
      BY <1>5a, <1>8, <2>3
    <3>2. i2 \in LiveIndices(st[x2]) /\ st'[x2].P[i2].ID[1] = st[x2].P[i2].ID[1]
      BY <1>5, <3>1
    <3>. QED BY <2>1, <2>3, <3>2
  <2>. QED BY <1>5, <2>2, <2>3
<1>9. ASSUME NEW q \in Ranks, NEW x \in Ranks, NEW x2 \in Ranks, NEW k \in DOMAIN sent'[q][x],
             NEW i \in LiveIndices(st'[x2]), sent'[q][x][k].part.ID[1] = st'[x2].P[i].ID[1]
      PROVE  FALSE
  <2>1. x # r /\ k \in DOMAIN sent[q][x] /\ sent'[q][x] = sent[q][x]
    BY <1>3
  <2>2. CASE i \in LiveIndices(st[x2]) /\ st'[x2].P[i].ID[1] = st[x2].P[i].ID[1]
    BY <1>2d, <1>9, <2>1, <2>2
  <2>3. ASSUME NEW e \in SentElements(r), e[1] \in Ranks, e[2] \in DOMAIN sent[e[1]][r],
               st'[x2].P[i].ID[1] = sent[e[1]][r][e[2]].part.ID[1]
        PROVE  FALSE
    <3>1. x = r
      <4>1. sent[q][x][k].part.ID[1] = sent[e[1]][r][e[2]].part.ID[1]
        BY <1>9, <2>1, <2>3
      <4>. QED BY <1>2c, <2>1, <2>3, <4>1
    <3>. QED BY <2>1, <3>1
  <2>. QED BY <1>5, <2>2, <2>3
<1>10. ASSUME NEW q \in Ranks, NEW x \in Ranks, NEW q2 \in Ranks, NEW x2 \in Ranks,
              NEW k \in DOMAIN sent'[q][x], NEW k2 \in DOMAIN sent'[q2][x2],
              sent'[q][x][k].part.ID[1] = sent'[q2][x2][k2].part.ID[1]
       PROVE  q = q2 /\ x = x2 /\ k = k2
  <2>1. /\ k \in DOMAIN sent[q][x] /\ sent'[q][x] = sent[q][x]
        /\ k2 \in DOMAIN sent[q2][x2] /\ sent'[q2][x2] = sent[q2][x2]
    BY <1>3
  <2>. QED BY <1>2c, <1>10, <2>1
<1>11. \A p \in Ids : \/ \E x \in Ranks : \E i \in LiveIndices(st'[x]) : LiveAt(x, i, p)'
                      \/ \E q, x \in Ranks : \E k \in DOMAIN sent'[q][x] : SentAt(q, x, k, p)'
  BY <1>4 DEF LiveAt, SentAt
<1>. QED BY <1>6, <1>7, <1>8, <1>9, <1>10, <1>11, SMTT(30) DEF CopiesInv

\* and all particles stay where they are or arrive where they were sent.
LEMMA ArrivedStays ==
  ASSUME ExTypeOK, NEW r \in Ranks, NEW at, Arrived(at, r)
  PROVE  StaysPut
<1>. SUFFICES ASSUME NEW p \in Ids, NEW x \in Ranks, Placed(p, x)
              PROVE  Placed(p, x)'
  BY DEF StaysPut
<1>1. ASSUME NEW i \in LiveIndices(st[x]), st[x].P[i].ID[1] = p
      PROVE  \E j \in LiveIndices(st'[x]) : st'[x].P[j].ID[1] = p
  <2>1. CASE x = r
    BY <1>1, <2>1 DEF Arrived
  <2>2. CASE x # r
    BY <1>1, <2>2 DEF Arrived
  <2>. QED BY <2>1, <2>2
<1>2. ASSUME NEW q \in Ranks, NEW k \in DOMAIN sent[q][x], sent[q][x][k].part.ID[1] = p
      PROVE  Placed(p, x)'
  <2>1. CASE x = r
    <3>1. <<q, k>> \in SentElements(r)
      BY <1>2, <2>1, ElementsSent
    <3>2. \E j \in LiveIndices(st'[r]) : st'[r].P[j].ID[1] = sent[q][r][k].part.ID[1]
      BY <3>1 DEF Arrived
    <3>. QED BY <1>2, <2>1, <3>2 DEF Placed
  <2>2. CASE x # r
    <3>1. sent'[q][x] = sent[q][x]
      BY <2>2 DEF Arrived
    <3>. QED BY <1>2, <3>1 DEF Placed
  <2>. QED BY <2>1, <2>2
<1>. QED BY <1>1, <1>2 DEF Placed

\* Unpacking moves what was sent to a rank from the buffers into its table.
LEMMA UnpackInv ==
  ASSUME IInv, NEW r \in Ranks, Unpack(r)
  PROVE  IInv' /\ StaysPut
<1>0. ExTypeOK /\ StageInv /\ StoreInv /\ CopiesInv /\ PlanInv /\ SentInv /\ RoomInv
  BY DEF IInv
<1>. DEFINE s == st[r]
            f == Received(r)
            u == Unpacked(s, f)
            n == NumPart(s)
<1>1. /\ pc[r] = "unpack" /\ Go(r, "any_left") /\ st' = [st EXCEPT ![r] = u]
      /\ sent' = [q \in Ranks |-> [sent[q] EXCEPT ![r] = <<>>]]
      /\ target' = target /\ list' = list /\ layouts' = layouts /\ iter' = iter
      /\ compact' = compact /\ failure' = failure
  <2>1. st' = [st EXCEPT ![r] = u]
    BY <1>0, UnpackStep
  <2>. QED BY <2>1 DEF Unpack
<1>2. \A x \in Ranks : pc'[x] = IF x = r THEN "any_left" ELSE pc[x]
  BY <1>0, <1>1, PcAfter
<1>3. \A x \in Ranks : st'[x] = IF x = r THEN u ELSE st[x]
  BY <1>0, <1>1, StAfter
<1>4. \A q, x \in Ranks : sent'[q][x] = IF x = r THEN <<>> ELSE sent[q][x]
  BY <1>0, <1>1 DEF ExTypeOK
<1>5. /\ s \in Store /\ SlotsMatch(s) /\ OrphansMarked(s) /\ NumPart(s) <= MaxPart
      /\ \A t \in SlotTypes : Size(s, t) <= s.maxsize[t]
  BY <1>0 DEF ExTypeOK, StoreInv
<1>6. \A x \in Ranks : pc[x] \in {"unpack", "any_left"} /\ pc'[x] \in {"unpack", "any_left"}
  BY <1>0, <1>1, <1>2, SameStage
<1>7. \A q \in Ranks : OnPlan(q, r)
  BY <1>0, <1>1, <1>6 DEF SentInv, HasPacked, ToUnpack
<1>8. /\ f \in Seq(Arrival) /\ Len(f) = ToGetSum(r) /\ ToGetSum(r) \in Nat
      /\ \A t \in SlotTypes : Cardinality(TypeAt(f, t)) = ToGetType(r, t)
      /\ \A k \in 1..Len(f) : Sound(f[k]) /\ target[f[k].part.ID[1]] = r
  BY <1>0, <1>7, ReceivedRight
<1>9. PICK at : ReceivedAs(at, r)
  BY <1>0, ReceivedPlaces
<1>10. /\ u \in Store /\ u.maxsize = s.maxsize
       /\ NumPart(u) = n + Len(f)
       /\ \A i \in 1..n : u.P[i] = s.P[i]
       /\ \A k \in 1..Len(f) : SameParticle(u.P[n + k], f[k].part)
       /\ LiveIndices(u) = LiveIndices(s) \cup {n + k : k \in 1..Len(f)}
       /\ \A t \in SlotTypes : Size(u, t) = Size(s, t) + Cardinality(TypeAt(f, t))
       /\ SlotsMatch(u) /\ OrphansMarked(u)
  <2>1. PICK a : a = s
    OBVIOUS
  <2>2. PICK b : b = f
    OBVIOUS
  <2>. HIDE DEF s, f
  <2>3. /\ a \in Store /\ SlotsMatch(a) /\ OrphansMarked(a)
        /\ b \in Seq(Arrival) /\ \A k \in 1..Len(b) : Sound(b[k])
    BY <1>5, <1>8, <2>1, <2>2
  <2>4. LET v == Unpacked(a, b) IN
        /\ v \in Store /\ v.maxsize = a.maxsize
        /\ NumPart(v) = NumPart(a) + Len(b)
        /\ \A i \in 1..NumPart(a) : v.P[i] = a.P[i]
        /\ \A k \in 1..Len(b) : SameParticle(v.P[NumPart(a) + k], b[k].part)
        /\ LiveIndices(v) = LiveIndices(a) \cup {NumPart(a) + k : k \in 1..Len(b)}
        /\ \A t \in SlotTypes : Size(v, t) = Size(a, t) + Cardinality(TypeAt(b, t))
        /\ SlotsMatch(v) /\ OrphansMarked(v)
    BY <2>3, UnpackKeeps
  <2>. QED BY <2>1, <2>2, <2>4
<1>11. /\ n \in Nat /\ LiveIndices(s) \in SUBSET (1..n)
       /\ \A t \in SlotTypes : Size(s, t) \in Nat /\ s.maxsize[t] \in Nat /\ ToGetType(r, t) \in Nat
  <2>1. \A t \in SlotTypes : ToGetType(r, t) \in Nat
    BY <1>0, ArrivingFinite
  <2>. HIDE DEF s
  <2>. QED BY <1>5, <2>1, StoreParts
<1>12. /\ at \in [SentElements(r) -> 1..Len(f)]
       /\ \A k \in 1..Len(f) : \E e \in SentElements(r) : at[e] = k
       /\ \A e \in SentElements(r) : f[at[e]] = sent[e[1]][r][e[2]]
  BY <1>9 DEF ReceivedAs, Bijection, Surjection
<1>. HIDE DEF u, s, f, n
<1>13. ExTypeOK'
  <2>1. pc' \in [Ranks -> Local \cup Collective \cup {"returned"}]
    BY <1>0, <1>1 DEF ExTypeOK, Go, Collective
  <2>2. st' \in [Ranks -> Store]
    BY <1>0, <1>1, <1>10 DEF ExTypeOK
  <2>3. sent' \in [Ranks -> [Ranks -> Seq(Arrival)]]
    <3>1. <<>> \in Seq(Arrival) /\ sent \in [Ranks -> [Ranks -> Seq(Arrival)]]
      BY <1>0 DEF ExTypeOK
    <3>. QED BY <1>1, <3>1
  <2>. QED BY <1>0, <1>1, <2>1, <2>2, <2>3 DEF ExTypeOK
<1>14. StageInv'
  <2>1. \A S \in Stages : "unpack" \in S => "any_left" \in S
    BY DEF Stages
  <2>. QED BY <1>0, <1>1, <2>1, StageGo
<1>15. StoreInv'
  <2>1. n + ToGetSum(r) <= MaxPart /\ \A t \in SlotTypes : Size(s, t) + ToGetType(r, t) <= s.maxsize[t]
    BY <1>0, <1>1 DEF RoomInv, s, n
  <2>2. NumPart(u) <= MaxPart
    BY <1>8, <1>10, <2>1
  <2>3. \A t \in SlotTypes : Size(u, t) <= u.maxsize[t]
    BY <1>8, <1>10, <2>1
  <2>. QED BY <1>0, <1>3, <1>10, <2>2, <2>3 DEF StoreInv
<1>16. CopiesInv' /\ StaysPut
  <2>1. \A x \in Ranks : x # r => st'[x] = st[x]
    BY <1>3
  <2>2. /\ st'[r] = u /\ st[r] = s /\ NumPart(st[r]) = n
        /\ \A k \in 1..Len(f) : u.P[n + k].ID = f[k].part.ID
    BY <1>3, <1>10 DEF SameParticle, s, n
  <2>3. ASSUME NEW i \in LiveIndices(u)
        PROVE  \/ i \in LiveIndices(s) /\ u.P[i].ID[1] = s.P[i].ID[1]
               \/ \E e \in SentElements(r) : /\ i = n + at[e]
                                             /\ u.P[i].ID[1] = sent[e[1]][r][e[2]].part.ID[1]
    <3>1. CASE i \in LiveIndices(s)
      BY <1>10, <1>11, <3>1
    <3>2. CASE i \notin LiveIndices(s)
      <4>1. PICK k \in 1..Len(f) : i = n + k
        BY <1>10, <3>2
      <4>2. PICK e \in SentElements(r) : at[e] = k
        BY <1>12
      <4>3. u.P[i].ID = f[k].part.ID /\ f[k] = sent[e[1]][r][e[2]]
        BY <1>12, <2>2, <4>1, <4>2
      <4>. QED BY <4>1, <4>2, <4>3
    <3>. QED BY <3>1, <3>2
  <2>4. \A i \in LiveIndices(s) : i \in LiveIndices(u) /\ u.P[i].ID[1] = s.P[i].ID[1]
    BY <1>10, <1>11
  <2>5. ASSUME NEW e \in SentElements(r)
        PROVE  n + at[e] \in LiveIndices(u) /\ u.P[n + at[e]].ID[1] = sent[e[1]][r][e[2]].part.ID[1]
    <3>1. at[e] \in 1..Len(f) /\ f[at[e]] = sent[e[1]][r][e[2]]
      BY <1>12
    <3>2. u.P[n + at[e]].ID = f[at[e]].part.ID
      BY <2>2, <3>1
    <3>3. n + at[e] \in LiveIndices(u)
      BY <1>10, <3>1
    <3>. QED BY <3>1, <3>2, <3>3
  <2>6. Arrived(at, r)
    BY <1>4, <2>1, <2>2, <2>3, <2>4, <2>5 DEF Arrived
  <2>7. CopiesInv'
    BY <1>0, <2>6, CopiesArrived
  <2>8. StaysPut
    BY <1>0, <2>6, ArrivedStays
  <2>. QED BY <2>7, <2>8
<1>17. PlanInv'
  <2>1. \A x \in Ranks : pc[x] \in HasPacked /\ pc'[x] \notin HasList /\ pc'[x] \notin HasPlan
    BY <1>6 DEF HasPacked, HasList, HasPlan
  <2>2. ASSUME NEW x \in Ranks, ~NotFinished(x)', NEW i \in LiveIndices(st'[x])
        PROVE  target[st'[x].P[i].ID[1]] = x
    <3>1. \A j \in LiveIndices(st[x]) : target[st[x].P[j].ID[1]] = x
      BY <1>0, <1>1, <2>1, <2>2 DEF PlanInv, NotFinished, TargetOf
    <3>2. CASE x = r
      <4>1. st'[x] = u /\ st[x] = s /\ i \in LiveIndices(u)
        BY <1>3, <2>2, <3>2 DEF s
      <4>2. CASE i \in LiveIndices(s)
        BY <1>10, <1>11, <3>1, <4>1, <4>2
      <4>3. CASE i \notin LiveIndices(s)
        <5>1. PICK k \in 1..Len(f) : i = n + k
          BY <1>10, <4>1, <4>3
        <5>2. u.P[i].ID = f[k].part.ID
          BY <1>10, <5>1 DEF SameParticle
        <5>. QED BY <1>8, <3>2, <4>1, <5>2
      <4>. QED BY <4>2, <4>3
    <3>3. CASE x # r
      BY <1>3, <2>2, <3>1, <3>3
    <3>. QED BY <3>2, <3>3
  <2>. QED BY <1>1, <2>1, <2>2 DEF PlanInv, TargetOf
<1>18. SentInv'
  <2>1. \A x \in Ranks : pc'[x] \in HasPacked /\ pc[x] \in HasPacked
    BY <1>6 DEF HasPacked
  <2>2. pc'[r] \notin ToUnpack
    BY <1>2 DEF ToUnpack
  <2>3. ASSUME NEW q \in Ranks, NEW x \in Ranks, x # r
        PROVE  IF pc'[q] \in HasPacked /\ pc'[x] \in ToUnpack THEN OnPlan(q, x)' ELSE sent'[q][x] = <<>>
    <3>1. sent'[q][x] = sent[q][x] /\ LeavingTo(q, x)' = LeavingTo(q, x) /\ pc'[x] = pc[x]
      BY <1>1, <1>2, <1>4, <2>3 DEF LeavingTo
    <3>2. OnPlan(q, x)' = OnPlan(q, x)
      <4>1. layouts' = layouts /\ target' = target
        BY <1>1
      <4>. QED BY <3>1, <4>1 DEF OnPlan
    <3>. QED BY <1>0, <2>1, <3>1, <3>2 DEF SentInv
  <2>4. \A q \in Ranks : sent'[q][r] = <<>>
    BY <1>4
  <2>. QED BY <2>2, <2>3, <2>4 DEF SentInv
<1>19. RoomInv'
  <2>1. \A x \in Ranks : x # r => st'[x] = st[x] /\ pc'[x] = pc[x]
    BY <1>2, <1>3
  <2>2. pc'[r] = "any_left"
    BY <1>2
  <2>3. ASSUME NEW x \in Ranks, x # r, pc'[x] = "unpack"
        PROVE  /\ NumPart(st'[x]) + ToGetSum(x) <= MaxPart
               /\ \A t \in SlotTypes : Size(st'[x], t) + ToGetType(x, t) <= st'[x].maxsize[t]
    BY <1>0, <2>1, <2>3 DEF RoomInv
  <2>. QED BY <1>1, <1>6, <2>2, <2>3, PlanCounts DEF RoomInv
<1>. QED BY <1>13, <1>14, <1>15, <1>16, <1>17, <1>18, <1>19 DEF IInv

----------------------------------------------------------------------------
(* The theorems.                                                           *)

\* Every step keeps the invariant.
LEMMA NextInv ==
  ASSUME IInv, [Next]_vars
  PROVE  IInv'
<1>1. ASSUME NEW r \in Ranks, Start(r) PROVE IInv'
  BY <1>1, StartInv
<1>2. ASSUME NEW r \in Ranks, domain_build_exchange_list(r) PROVE IInv'
  BY <1>2, BuildInv
<1>3. ASSUME NEW r \in Ranks, FindSpace(r) PROVE IInv'
  BY <1>3, FindSpaceInv
<1>4. ASSUME NEW r \in Ranks, Pack(r) PROVE IInv'
  BY <1>4, PackInv
<1>5. ASSUME NEW r \in Ranks, Collect(r) PROVE IInv'
  BY <1>5, CollectInv
<1>6. ASSUME NEW r \in Ranks, CheckRoom(r) PROVE IInv'
  BY <1>6, CheckRoomInv
<1>7. ASSUME NEW r \in Ranks, ReserveSlots(r) PROVE IInv'
  BY <1>7, ReserveSlotsInv
<1>8. ASSUME NEW r \in Ranks, Unpack(r) PROVE IInv'
  BY <1>8, UnpackInv
<1>9. ASSUME AnyWork \/ AnyFull \/ AnyGC \/ AnyLeft PROVE IInv'
  BY <1>9, AnyWorkInv, AnyFullInv, AnyGCInv, AnyLeftInv
<1>10. ASSUME AllToAllParticles \/ AllToAllSlots PROVE IInv'
  BY <1>10, AllToAllInv
<1>11. ASSUME UNCHANGED vars PROVE IInv'
  <2>1. /\ pc' = pc /\ st' = st /\ target' = target /\ list' = list /\ layouts' = layouts
        /\ iter' = iter /\ sent' = sent /\ compact' = compact /\ failure' = failure
    BY <1>11 DEF vars
  <2>2. ExTypeOK' /\ StageInv' /\ StoreInv'
    BY <2>1, StoreFrame DEF IInv, ExTypeOK, StageInv
  <2>3. CopiesInv' /\ PlanInv' /\ SentInv' /\ RoomInv'
    BY <2>1, CopiesFrame, PlanFrame, SentFrame, RoomFrame DEF IInv
  <2>. QED BY <2>2, <2>3 DEF IInv
<1>. QED BY <1>1, <1>2, <1>3, <1>4, <1>5, <1>6, <1>7, <1>8, <1>9, <1>10, <1>11 DEF Next, Over

\* The inductive invariant holds in every state of the exchange.
THEOREM Invariance == Spec => []IInv
<1>1. Init => IInv
  BY InitInv
<1>2. IInv /\ [Next]_vars => IInv'
  BY NextInv
<1>. QED BY <1>1, <1>2, PTL DEF Spec

\* The invariant says of the types all that TypeOK says.
LEMMA InvTypeOK == IInv => TypeOK
BY DEF IInv, ExTypeOK, StoreInv, TypeOK

\* Every variable of the exchange has its type, and no table overflows.
THEOREM TypeCorrect == Spec => []TypeOK
BY Invariance, InvTypeOK, PTL

\* What is on the way to a rank, and the ranks particle p is on.
LEMMA OnTheWayIs ==
  ASSUME NEW r \in Ranks
  PROVE  /\ \A a : a \in OnTheWay(r) <=> \E q \in Ranks : \E k \in DOMAIN sent[q][r] : a = sent[q][r][k]
         /\ \A p : p \in Here(r) \cup ToRank(r) <=> Placed(p, r)
<1>1. \A a : a \in OnTheWay(r) <=> \E q \in Ranks : \E k \in DOMAIN sent[q][r] : a = sent[q][r][k]
  BY DEF OnTheWay, ToSet
<1>2. \A p : p \in Here(r) <=> \E i \in LiveIndices(st[r]) : st[r].P[i].ID[1] = p
  BY DEF Here
<1>3. \A p : p \in ToRank(r) <=> \E q \in Ranks : \E k \in DOMAIN sent[q][r] : sent[q][r][k].part.ID[1] = p
  BY <1>1 DEF ToRank
<1>. QED BY <1>1, <1>2, <1>3 DEF Placed

\* What Copies collects.
LEMMA CopiesAre ==
  ASSUME NEW p
  PROVE  \A c : c \in Copies(p) <=>
           \/ \E r \in Ranks : \E i \in LiveIndices(st[r]) : st[r].P[i].ID[1] = p /\ c = <<"at", r, i>>
           \/ \E q, r \in Ranks : \E k \in DOMAIN sent[q][r] :
                sent[q][r][k].part.ID[1] = p /\ c = <<"sent", q, r, k>>
<1>. DEFINE A == UNION {{<<"at", r, i>> : i \in {i \in LiveIndices(st[r]) : st[r].P[i].ID[1] = p}} : r \in Ranks}
            S == UNION {{<<"sent", a[1], a[2], k>> :
                           k \in {k \in DOMAIN sent[a[1]][a[2]] : sent[a[1]][a[2]][k].part.ID[1] = p}} :
                        a \in Ranks \X Ranks}
<1>1. \A c : c \in A <=> \E r \in Ranks : \E i \in LiveIndices(st[r]) : st[r].P[i].ID[1] = p /\ c = <<"at", r, i>>
  OBVIOUS
<1>2. \A c : c \in S <=> \E a \in Ranks \X Ranks : \E k \in DOMAIN sent[a[1]][a[2]] :
                            sent[a[1]][a[2]][k].part.ID[1] = p /\ c = <<"sent", a[1], a[2], k>>
  OBVIOUS
<1>3. Copies(p) = A \cup S
  BY DEF Copies
<1>4. ASSUME NEW c, NEW a \in Ranks \X Ranks
      PROVE  a[1] \in Ranks /\ a[2] \in Ranks
  OBVIOUS
<1>5. ASSUME NEW q \in Ranks, NEW r \in Ranks
      PROVE  <<q, r>> \in Ranks \X Ranks /\ <<q, r>>[1] = q /\ <<q, r>>[2] = r
  OBVIOUS
<1>6. ASSUME NEW c
      PROVE  c \in S <=> \E q, r \in Ranks : \E k \in DOMAIN sent[q][r] :
                            sent[q][r][k].part.ID[1] = p /\ c = <<"sent", q, r, k>>
  <2>1. ASSUME NEW q \in Ranks, NEW r \in Ranks, NEW k \in DOMAIN sent[q][r],
               sent[q][r][k].part.ID[1] = p, c = <<"sent", q, r, k>>
        PROVE  c \in S
    <3>0. PICK a : a = <<q, r>>
      OBVIOUS
    <3>1. a \in Ranks \X Ranks /\ a[1] = q /\ a[2] = r
      BY <1>5, <3>0
    <3>. QED BY <1>2, <2>1, <3>1
  <2>2. ASSUME c \in S
        PROVE  \E q, r \in Ranks : \E k \in DOMAIN sent[q][r] :
                            sent[q][r][k].part.ID[1] = p /\ c = <<"sent", q, r, k>>
    <3>1. PICK a \in Ranks \X Ranks : \E k \in DOMAIN sent[a[1]][a[2]] :
                            sent[a[1]][a[2]][k].part.ID[1] = p /\ c = <<"sent", a[1], a[2], k>>
      BY <1>2, <2>2
    <3>2. PICK q \in Ranks, r \in Ranks : q = a[1] /\ r = a[2]
      BY <1>4
    <3>3. \E k \in DOMAIN sent[q][r] :
             sent[q][r][k].part.ID[1] = p /\ c = <<"sent", q, r, k>>
      BY <3>1, <3>2
    <3>. QED BY <3>3
  <2>. QED BY <2>1, <2>2
<1>. HIDE DEF A, S
<1>. QED BY <1>1, <1>3, <1>6

\* There is one copy of each particle.
LEMMA OneCopy ==
  ASSUME CopiesInv, NEW p \in Ids
  PROVE  Cardinality(Copies(p)) = 1
<1>0. /\ \A x, x2 \in Ranks : \A i \in LiveIndices(st[x]), i2 \in LiveIndices(st[x2]) :
           st[x].P[i].ID[1] = st[x2].P[i2].ID[1] => x = x2 /\ i = i2
      /\ \A q, x, q2, x2 \in Ranks : \A k \in DOMAIN sent[q][x], k2 \in DOMAIN sent[q2][x2] :
           sent[q][x][k].part.ID[1] = sent[q2][x2][k2].part.ID[1] => q = q2 /\ x = x2 /\ k = k2
      /\ \A q, x, x2 \in Ranks : \A k \in DOMAIN sent[q][x], i \in LiveIndices(st[x2]) :
           sent[q][x][k].part.ID[1] # st[x2].P[i].ID[1]
  BY DEF CopiesInv
<1>1. \E c : c \in Copies(p)
  <2>1. ASSUME NEW r \in Ranks, NEW i \in LiveIndices(st[r]), st[r].P[i].ID[1] = p
        PROVE  \E c : c \in Copies(p)
    <3>1. <<"at", r, i>> \in Copies(p)
      BY <2>1, CopiesAre
    <3>. QED BY <3>1
  <2>2. ASSUME NEW q \in Ranks, NEW r \in Ranks, NEW k \in DOMAIN sent[q][r],
               sent[q][r][k].part.ID[1] = p
        PROVE  \E c : c \in Copies(p)
    <3>1. <<"sent", q, r, k>> \in Copies(p)
      BY <2>2, CopiesAre
    <3>. QED BY <3>1
  <2>. QED BY <2>1, <2>2 DEF CopiesInv, LiveAt, SentAt
<1>2. ASSUME NEW c \in Copies(p), NEW d \in Copies(p) PROVE c = d
  <2>. DEFINE At1(b) == \E r \in Ranks : \E i \in LiveIndices(st[r]) :
                          st[r].P[i].ID[1] = p /\ b = <<"at", r, i>>
              To1(b) == \E q, r \in Ranks : \E k \in DOMAIN sent[q][r] :
                          sent[q][r][k].part.ID[1] = p /\ b = <<"sent", q, r, k>>
  <2>1. (At1(c) \/ To1(c)) /\ (At1(d) \/ To1(d))
    BY CopiesAre
  <2>2. CASE At1(c) /\ At1(d)
    <3>1. PICK r \in Ranks : \E i \in LiveIndices(st[r]) : st[r].P[i].ID[1] = p /\ c = <<"at", r, i>>
      BY <2>2
    <3>2. PICK i \in LiveIndices(st[r]) : st[r].P[i].ID[1] = p /\ c = <<"at", r, i>>
      BY <3>1
    <3>3. PICK x \in Ranks : \E j \in LiveIndices(st[x]) : st[x].P[j].ID[1] = p /\ d = <<"at", x, j>>
      BY <2>2
    <3>4. PICK j \in LiveIndices(st[x]) : st[x].P[j].ID[1] = p /\ d = <<"at", x, j>>
      BY <3>3
    <3>5. st[r].P[i].ID[1] = st[x].P[j].ID[1]
      BY <3>2, <3>4
    <3>6. r = x /\ i = j
      BY <1>0, <3>5
    <3>. QED BY <3>2, <3>4, <3>6
  <2>3. CASE To1(c) /\ To1(d)
    <3>1. PICK q \in Ranks, r \in Ranks : \E k \in DOMAIN sent[q][r] :
                          sent[q][r][k].part.ID[1] = p /\ c = <<"sent", q, r, k>>
      BY <2>3
    <3>2. PICK k \in DOMAIN sent[q][r] : sent[q][r][k].part.ID[1] = p /\ c = <<"sent", q, r, k>>
      BY <3>1
    <3>3. PICK y \in Ranks, x \in Ranks : \E j \in DOMAIN sent[y][x] :
                          sent[y][x][j].part.ID[1] = p /\ d = <<"sent", y, x, j>>
      BY <2>3
    <3>4. PICK j \in DOMAIN sent[y][x] : sent[y][x][j].part.ID[1] = p /\ d = <<"sent", y, x, j>>
      BY <3>3
    <3>5. sent[q][r][k].part.ID[1] = sent[y][x][j].part.ID[1]
      BY <3>2, <3>4
    <3>6. q = y /\ r = x /\ k = j
      BY <1>0, <3>5
    <3>. QED BY <3>2, <3>4, <3>6
  <2>4. ASSUME NEW q \in Ranks, NEW r \in Ranks, NEW x \in Ranks, NEW k \in DOMAIN sent[q][r],
               NEW i \in LiveIndices(st[x]), sent[q][r][k].part.ID[1] = p, st[x].P[i].ID[1] = p
        PROVE  FALSE
    BY <1>0, <2>4
  <2>. QED BY <2>1, <2>2, <2>3, <2>4
<1>3. PICK c : Copies(p) = {c}
  BY <1>1, <1>2
<1>. QED BY <1>3, FS_Singleton

\* The invariant implies the property.
LEMMA InvNoneLost == IInv => NoneLostNorDoubled
<1>. SUFFICES ASSUME IInv PROVE NoneLostNorDoubled
  OBVIOUS
<1>0. ExTypeOK /\ StoreInv /\ CopiesInv /\ SentInv
  BY DEF IInv
<1>1. \A p \in Ids : Cardinality(Copies(p)) = 1
  BY <1>0, OneCopy
<1>2. \A r \in Ranks : Here(r) \cup ToRank(r) \subseteq Ids
  BY <1>0, OnTheWayIs DEF CopiesInv, Placed
<1>3. EachItsSlot
  <2>1. ASSUME NEW q \in Ranks, NEW r \in Ranks, NEW k \in DOMAIN sent[q][r]
        PROVE  HasSlot(sent[q][r][k].part) => sent[q][r][k].slot.ID = sent[q][r][k].part.ID
    <3>1. CASE sent[q][r] = <<>>
      BY <2>1, <3>1
    <3>2. CASE OnPlan(q, r)
      BY <3>2 DEF OnPlan
    <3>. QED BY <1>0, <3>1, <3>2 DEF SentInv
  <2>2. \A r \in Ranks : \A a \in OnTheWay(r) : HasSlot(a.part) => a.slot.ID = a.part.ID
    BY <2>1, OnTheWayIs
  <2>. QED BY <1>0, <2>2 DEF StoreInv, EachItsSlot
<1>4. \A r \in Ranks : pc[r] # "endrun"
  BY <1>0 DEF ExTypeOK, Local, Collective
<1>. QED BY <1>1, <1>2, <1>3, <1>4 DEF NoneLostNorDoubled

\* Each particle exists once, with its slot, on one rank or on the way to one,
\* and the run never ends for lack of room: for every number of ranks, every
\* assignment to ranks, whatever space each round finds and whatever is collected.
THEOREM NoneEverLost == Spec => []NoneLostNorDoubled
BY Invariance, InvNoneLost, PTL

\* Each particle has its place.
PlacesRight ==
  \A p \in Ids : where[p] \in Ranks /\ \A r \in Ranks : Placed(p, r) <=> where[p] = r

\* A particle is in one place.
LEMMA OnePlace ==
  ASSUME CopiesInv, NEW p \in Ids
  PROVE  /\ \E r \in Ranks : Placed(p, r)
         /\ \A r, x \in Ranks : Placed(p, r) /\ Placed(p, x) => r = x
<1>1. \E r \in Ranks : Placed(p, r)
  BY DEF CopiesInv, LiveAt, SentAt, Placed
<1>2. ASSUME NEW r \in Ranks, NEW x \in Ranks, Placed(p, r), Placed(p, x)
      PROVE  r = x
  <2>1. ASSUME NEW i \in LiveIndices(st[r]), NEW j \in LiveIndices(st[x]),
               st[r].P[i].ID[1] = p, st[x].P[j].ID[1] = p
        PROVE  r = x
    <3>1. st[r].P[i].ID[1] = st[x].P[j].ID[1]
      BY <2>1
    <3>. QED BY <3>1 DEF CopiesInv
  <2>2. ASSUME NEW q \in Ranks, NEW k \in DOMAIN sent[q][r], NEW y \in Ranks, NEW j \in DOMAIN sent[y][x],
               sent[q][r][k].part.ID[1] = p, sent[y][x][j].part.ID[1] = p
        PROVE  r = x
    <3>1. sent[q][r][k].part.ID[1] = sent[y][x][j].part.ID[1]
      BY <2>2
    <3>. QED BY <3>1 DEF CopiesInv
  <2>3. ASSUME NEW a \in Ranks, NEW b \in Ranks, NEW q \in Ranks, NEW k \in DOMAIN sent[q][a],
               NEW i \in LiveIndices(st[b]), sent[q][a][k].part.ID[1] = p, st[b].P[i].ID[1] = p
        PROVE  FALSE
    <3>1. sent[q][a][k].part.ID[1] = st[b].P[i].ID[1]
      BY <2>3
    <3>. QED BY <3>1 DEF CopiesInv
  <2>. QED BY <1>2, <2>1, <2>2, <2>3 DEF Placed
<1>. QED BY <1>1, <1>2

\* So the abstract exchange knows where each particle is.
LEMMA InvPlaces == IInv => PlacesRight
<1>. SUFFICES ASSUME IInv, NEW p \in Ids
              PROVE  where[p] \in Ranks /\ \A r \in Ranks : Placed(p, r) <=> where[p] = r
  BY DEF PlacesRight
<1>0. CopiesInv
  BY DEF IInv
<1>1. where[p] = CHOOSE r \in Ranks : p \in Here(r) \cup ToRank(r)
  BY DEF where
<1>2. \E r \in Ranks : p \in Here(r) \cup ToRank(r)
  BY <1>0, OnePlace, OnTheWayIs
<1>3. where[p] \in Ranks /\ p \in Here(where[p]) \cup ToRank(where[p])
  BY <1>1, <1>2
<1>4. Placed(p, where[p])
  BY <1>3, OnTheWayIs
<1>. QED BY <1>0, <1>3, <1>4, OnePlace

\* where has a value for each particle, in every state.
LEMMA WhereDomain ==
  /\ where = [p \in Ids |-> where[p]] /\ where' = [p \in Ids |-> where'[p]]
<1>1. where = [p \in Ids |-> where[p]]
  BY DEF where
<1>2. where' = [p \in Ids |-> where'[p]]
  BY DEF where
<1>. QED BY <1>1, <1>2

----------------------------------------------------------------------------
(* The exchange implements Relocation.                                     *)

\* A step that leaves each particle on its rank, or on its way to it, does not
\* change where it is.
LEMMA WhereKept ==
  ASSUME PlacesRight, PlacesRight', StaysPut
  PROVE  where' = where
<1>1. ASSUME NEW p \in Ids PROVE where'[p] = where[p]
  <2>1. where[p] \in Ranks /\ Placed(p, where[p])
    BY DEF PlacesRight
  <2>2. PICK x \in Ranks : x = where[p]
    BY <2>1
  <2>3. Placed(p, x)'
    BY <2>1, <2>2 DEF StaysPut
  <2>4. where'[p] = x
    BY <2>3 DEF PlacesRight
  <2>. QED BY <2>2, <2>4
<1>. QED BY <1>1, WhereDomain

\* The outcome is open as long as any rank goes on.
LEMMA OutcomeOpen ==
  /\ (\E r \in Ranks : pc[r] # "returned") => outcome = "running"
  /\ (\E r \in Ranks : pc'[r] # "returned") => outcome' = "running"
BY DEF outcome, At

\* That is so when neither tables nor buffers change.
LEMMA SamePlaces ==
  ASSUME st' = st, sent' = sent
  PROVE  StaysPut
BY DEF StaysPut, Placed

\* All particles are where they belong when nothing is left to send.
LEMMA AllHome ==
  ASSUME IInv, PlacesRight, \A q, r \in Ranks : sent[q][r] = <<>>,
         \A r \in Ranks : \A i \in LiveIndices(st[r]) : TargetOf(r, i) = r
  PROVE  where = target
<1>1. ASSUME NEW p \in Ids PROVE where[p] = target[p]
  <2>1. where[p] \in Ranks /\ Placed(p, where[p])
    BY <1>1 DEF PlacesRight
  <2>2. PICK x \in Ranks : x = where[p] /\ Placed(p, x)
    BY <2>1
  <2>3. PICK i \in LiveIndices(st[x]) : st[x].P[i].ID[1] = p
    <3>1. \A q \in Ranks : DOMAIN sent[q][x] = {}
      <4>1. DOMAIN <<>> = {}
        OBVIOUS
      <4>. QED BY <4>1
    <3>. QED BY <2>2, <3>1 DEF Placed
  <2>4. TargetOf(x, i) = x
    BY <2>3
  <2>. QED BY <2>2, <2>3, <2>4 DEF TargetOf
<1>2. target = [p \in Ids |-> target[p]]
  BY DEF IInv, ExTypeOK
<1>. QED BY <1>1, <1>2, WhereDomain

\* The exchange starts as a relocation starts.
LEMMA RelocationInit == Init => R!Init
<1>. SUFFICES ASSUME Init PROVE R!Init
  OBVIOUS
<1>1. PlacesRight
  BY InitInv, InvPlaces
<1>2. where \in [Ids -> Ranks]
  BY <1>1, WhereDomain DEF PlacesRight
<1>3. \A r \in Ranks : pc[r] = "start"
  BY DEF Init
<1>4. outcome = "running"
  BY <1>3, RankFacts, OutcomeOpen
<1>5. target \in [Ids -> Ranks]
  BY DEF Init
<1>. QED BY <1>2, <1>4, <1>5 DEF R!Init

\* A step of one rank that goes on.
LEMMA Quiet ==
  ASSUME PlacesRight, PlacesRight', StaysPut, target' = target,
         \E r \in Ranks : pc[r] # "returned", \E r \in Ranks : pc'[r] # "returned"
  PROVE  UNCHANGED <<where, target, outcome>>
BY WhereKept, OutcomeOpen

\* The rank that gives up last makes the relocation fail.
LEMMA StartRelocates ==
  ASSUME IInv, PlacesRight, PlacesRight', NEW r \in Ranks, Start(r)
  PROVE  R!Next \/ UNCHANGED <<where, target, outcome>>
<1>0. ExTypeOK /\ StageInv
  BY DEF IInv
<1>. DEFINE b == IF iter[r] >= MaxIter THEN "returned" ELSE "build"
<1>1. /\ pc[r] = "start" /\ Go(r, b)
      /\ failure' = IF iter[r] >= MaxIter THEN [failure EXCEPT ![r] = TRUE] ELSE failure
      /\ st' = st /\ target' = target /\ sent' = sent
  BY DEF Start
<1>2. \A x \in Ranks : pc'[x] = IF x = r THEN b ELSE pc[x]
  BY <1>0, <1>1, PcAfter
<1>3. where' = where /\ StaysPut
  BY <1>1, SamePlaces, WhereKept
<1>4. CASE \E x \in Ranks : pc'[x] # "returned"
  BY <1>1, <1>3, <1>4, Quiet
<1>5. CASE \A x \in Ranks : pc'[x] = "returned"
  <2>1. iter[r] >= MaxIter /\ failure' = [failure EXCEPT ![r] = TRUE]
    BY <1>1, <1>2, <1>5
  <2>2. \A x \in Ranks : x # r => pc[x] = "returned"
    BY <1>2, <1>5
  <2>3. \A x \in Ranks : x # r => failure[x]
    BY <1>0, <1>1, <2>2 DEF StageInv
  <2>4. failure \in [Ranks -> BOOLEAN]
    BY <1>0 DEF ExTypeOK
  <2>5. \A x \in Ranks : failure'[x]
    BY <2>1, <2>3, <2>4
  <2>6. outcome' = "failure"
    BY <1>5, <2>5 DEF outcome, At
  <2>7. outcome = "running"
    BY <1>1, OutcomeOpen
  <2>. QED BY <1>1, <1>3, <2>6, <2>7 DEF R!Next, R!Fail
<1>. QED BY <1>4, <1>5

\* No work left: the relocation has succeeded.
LEMMA AnyWorkRelocates ==
  ASSUME IInv, PlacesRight, PlacesRight', AnyWork
  PROVE  R!Next \/ UNCHANGED <<where, target, outcome>>
<1>0. ExTypeOK /\ StageInv /\ PlanInv /\ SentInv
  BY DEF IInv
<1>. DEFINE b == IF \E r \in Ranks : list[r] # <<>> THEN "space" ELSE "returned"
<1>1. /\ At("any_work") /\ AllGo(b) /\ failure' = failure
      /\ st' = st /\ target' = target /\ sent' = sent
  BY DEF AnyWork
<1>2. \A x \in Ranks : pc[x] = "any_work" /\ pc'[x] = b
  BY <1>0, <1>1, PcAfter, AtAll
<1>3. where' = where /\ StaysPut /\ Ranks # {}
  BY <1>1, SamePlaces, WhereKept, RankFacts
<1>4. outcome = "running"
  BY <1>2, <1>3, OutcomeOpen
<1>5. CASE \E r \in Ranks : list[r] # <<>>
  <2>1. \A x \in Ranks : pc[x] # "returned" /\ pc'[x] # "returned"
    BY <1>2, <1>5
  <2>. QED BY <1>1, <1>3, <2>1, Quiet
<1>6. CASE \A r \in Ranks : list[r] = <<>>
  <2>1. \A x \in Ranks : pc'[x] = "returned" /\ ~failure'[x]
    BY <1>0, <1>1, <1>2, <1>6 DEF StageInv
  <2>2. outcome' = "success"
    BY <1>3, <2>1 DEF outcome, At
  <2>3. \A q, r \in Ranks : sent[q][r] = <<>>
    BY <1>0, <1>2 DEF SentInv, HasPacked
  <2>4. ASSUME NEW r \in Ranks, NEW i \in LiveIndices(st[r]) PROVE TargetOf(r, i) = r
    <3>1. ExchangeList(r) = <<>>
      BY <1>0, <1>2, <1>6 DEF PlanInv, HasList
    <3>2. /\ DOMAIN ExchangeList(r) = 1..Len(ExchangeList(r))
          /\ TargetOf(r, i) # r => \E n \in 1..Len(ExchangeList(r)) : ExchangeList(r)[n] = i
      BY <1>0, ExchangeListRight
    <3>. QED BY <3>1, <3>2
  <2>5. where = target
    BY <2>3, <2>4, AllHome
  <2>. QED BY <1>1, <1>3, <1>4, <2>2, <2>5 DEF R!Next, R!Succeed
<1>. QED BY <1>5, <1>6

\* No room: the relocation fails on all ranks.
LEMMA AnyFullRelocates ==
  ASSUME IInv, PlacesRight, PlacesRight', AnyFull
  PROVE  R!Next \/ UNCHANGED <<where, target, outcome>>
<1>0. ExTypeOK /\ StageInv
  BY DEF IInv
<1>1. /\ At("any_full") /\ failure' = [r \in Ranks |-> TooFull(r)]
      /\ pc' = [r \in Ranks |-> IF TooFull(r) THEN "returned" ELSE "pack"]
      /\ st' = st /\ target' = target /\ sent' = sent
  BY DEF AnyFull
<1>2. \A x \in Ranks : pc[x] = "any_full"
  BY <1>1, AtAll
<1>3. where' = where /\ StaysPut /\ Ranks # {}
  BY <1>1, SamePlaces, WhereKept, RankFacts
<1>4. outcome = "running"
  BY <1>2, <1>3, OutcomeOpen
<1>5. \A x, y \in Ranks : TooFull(x) <=> TooFull(y)
  BY DEF TooFull
<1>6. CASE \A x \in Ranks : TooFull(x)
  <2>1. \A x \in Ranks : pc'[x] = "returned" /\ failure'[x]
    BY <1>1, <1>6
  <2>2. outcome' = "failure"
    BY <2>1 DEF outcome, At
  <2>. QED BY <1>1, <1>3, <1>4, <2>2 DEF R!Next, R!Fail
<1>7. CASE \A x \in Ranks : ~TooFull(x)
  <2>1. \A x \in Ranks : pc[x] # "returned" /\ pc'[x] # "returned"
    BY <1>1, <1>2, <1>7
  <2>. QED BY <1>1, <1>3, <2>1, Quiet
<1>. QED BY <1>5, <1>6, <1>7

\* Nothing left after a round: the relocation has succeeded.
LEMMA AnyLeftRelocates ==
  ASSUME IInv, PlacesRight, PlacesRight', AnyLeft
  PROVE  R!Next \/ UNCHANGED <<where, target, outcome>>
<1>0. ExTypeOK /\ StageInv /\ PlanInv /\ SentInv
  BY DEF IInv
<1>. DEFINE b == IF AnyNotFinished THEN "start" ELSE "returned"
<1>1. /\ At("any_left") /\ AllGo(b) /\ failure' = failure
      /\ st' = st /\ target' = target /\ sent' = sent
  BY DEF AnyLeft
<1>2. \A x \in Ranks : pc[x] = "any_left" /\ pc'[x] = b
  BY <1>0, <1>1, PcAfter, AtAll
<1>3. where' = where /\ StaysPut /\ Ranks # {}
  BY <1>1, SamePlaces, WhereKept, RankFacts
<1>4. outcome = "running"
  BY <1>2, <1>3, OutcomeOpen
<1>5. CASE AnyNotFinished
  <2>1. \A x \in Ranks : pc[x] # "returned" /\ pc'[x] # "returned"
    BY <1>2, <1>5
  <2>. QED BY <1>1, <1>3, <2>1, Quiet
<1>6. CASE ~AnyNotFinished
  <2>1. \A x \in Ranks : pc'[x] = "returned" /\ ~failure'[x]
    BY <1>0, <1>1, <1>2, <1>6 DEF StageInv
  <2>2. outcome' = "success"
    BY <1>3, <2>1 DEF outcome, At
  <2>3. \A q, r \in Ranks : sent[q][r] = <<>>
    BY <1>0, <1>2 DEF SentInv, ToUnpack
  <2>4. \A r \in Ranks : \A i \in LiveIndices(st[r]) : TargetOf(r, i) = r
    BY <1>0, <1>2, <1>6 DEF PlanInv, HasPacked, AnyNotFinished
  <2>5. where = target
    BY <2>3, <2>4, AllHome
  <2>. QED BY <1>1, <1>3, <1>4, <2>2, <2>5 DEF R!Next, R!Succeed
<1>. QED BY <1>5, <1>6

\* What is packed is sent off.
LEMMA PackRelocates ==
  ASSUME IInv, PlacesRight, PlacesRight', NEW r \in Ranks, Pack(r)
  PROVE  R!Next
<1>0. ExTypeOK
  BY DEF IInv
<1>1. pc[r] = "pack" /\ Go(r, "any_gc") /\ target' = target
  BY DEF Pack
<1>2. pc'[r] = "any_gc"
  BY <1>0, <1>1, PcAfter
<1>3. SentOff /\ target \in [Ids -> Ranks]
  BY <1>0, PackInv DEF ExTypeOK
<1>. DEFINE moving == {p \in Ids : where'[p] # where[p]}
<1>4. ASSUME NEW p \in Ids PROVE where'[p] = IF p \in moving THEN target[p] ELSE where[p]
  <2>1. where[p] \in Ranks /\ Placed(p, where[p])
    BY DEF PlacesRight
  <2>2. PICK x \in Ranks : x = where[p] /\ Placed(p, x)
    BY <2>1
  <2>3. PICK y \in Ranks : y = target[p]
    BY <1>3
  <2>4. Placed(p, x)' \/ Placed(p, y)'
    BY <1>1, <1>3, <2>2, <2>3 DEF SentOff
  <2>5. where'[p] = x \/ where'[p] = y
    BY <2>4 DEF PlacesRight
  <2>. QED BY <2>2, <2>3, <2>5
<1>5. moving \in SUBSET Ids /\ where' = [p \in Ids |-> IF p \in moving THEN target[p] ELSE where[p]]
  BY <1>4, WhereDomain
<1>6. outcome = "running" /\ outcome' = "running"
  BY <1>1, <1>2, OutcomeOpen
<1>. QED BY <1>1, <1>5, <1>6 DEF R!Next, R!Move

\* Every step of the exchange is a step of the relocation, or none.
LEMMA RelocationStep ==
  ASSUME IInv, PlacesRight, PlacesRight', [Next]_vars
  PROVE  R!Next \/ UNCHANGED <<where, target, outcome>>
<1>0. ExTypeOK
  BY DEF IInv
<1>1. ASSUME NEW r \in Ranks, Start(r) \/ Pack(r)
      PROVE  R!Next \/ UNCHANGED <<where, target, outcome>>
  BY <1>1, StartRelocates, PackRelocates
<1>2. ASSUME AnyWork \/ AnyFull \/ AnyLeft
      PROVE  R!Next \/ UNCHANGED <<where, target, outcome>>
  BY <1>2, AnyWorkRelocates, AnyFullRelocates, AnyLeftRelocates
<1>3. ASSUME NEW r \in Ranks, domain_build_exchange_list(r) \/ FindSpace(r) \/ CheckRoom(r)
      PROVE  UNCHANGED <<where, target, outcome>>
  <2>1. /\ pc[r] # "returned" /\ st' = st /\ sent' = sent /\ target' = target
        /\ \E b \in {"any_work", "any_full", "endrun", "particles"} : Go(r, b)
    BY <1>3 DEF domain_build_exchange_list, FindSpace, CheckRoom
  <2>2. pc'[r] # "returned"
    BY <1>0, <2>1, PcAfter
  <2>. QED BY <2>1, <2>2, SamePlaces, Quiet
<1>4. ASSUME NEW r \in Ranks, Collect(r) \/ ReserveSlots(r) \/ Unpack(r)
      PROVE  UNCHANGED <<where, target, outcome>>
  <2>1. /\ pc[r] # "returned" /\ target' = target
        /\ \E b \in {"room", "slots", "any_left"} : Go(r, b)
    BY <1>4 DEF Collect, ReserveSlots, Unpack
  <2>2. pc'[r] # "returned"
    BY <1>0, <2>1, PcAfter
  <2>3. StaysPut
    BY <1>4, CollectInv, ReserveSlotsInv, UnpackInv
  <2>. QED BY <2>1, <2>2, <2>3, Quiet
<1>5. ASSUME AnyGC \/ AllToAllParticles \/ AllToAllSlots
      PROVE  UNCHANGED <<where, target, outcome>>
  <2>1. /\ \E a \in {"any_gc", "particles", "slots"} : At(a)
        /\ \E b \in {"collect", "room", "reserve", "unpack"} : AllGo(b)
        /\ st' = st /\ sent' = sent /\ target' = target
    BY <1>5 DEF AnyGC, AllToAllParticles, AllToAllSlots
  <2>2. \A x \in Ranks : pc[x] # "returned" /\ pc'[x] # "returned"
    BY <1>0, <2>1, PcAfter, AtAll
  <2>. QED BY <2>1, <2>2, RankFacts, SamePlaces, Quiet
<1>6. ASSUME UNCHANGED vars PROVE UNCHANGED <<where, target, outcome>>
  <2>1. pc' = pc /\ st' = st /\ sent' = sent /\ target' = target /\ failure' = failure
    BY <1>6 DEF vars
  <2>2. where' = where
    BY <2>1, SamePlaces, WhereKept
  <2>3. outcome' = outcome
    BY <2>1 DEF outcome, At
  <2>. QED BY <2>1, <2>2, <2>3
<1>. QED BY <1>1, <1>2, <1>3, <1>4, <1>5, <1>6 DEF Next, Over

\* domain_exchange implements Relocation: particles move only to their targets,
\* all ranks see the same outcome, and it is success only when all have arrived.
THEOREM ExchangeRelocates == Spec => IsRelocation
<1>1. Init => R!Init
  BY RelocationInit
<1>2. IInv => PlacesRight
  BY InvPlaces
<1>3. IInv /\ PlacesRight /\ PlacesRight' /\ [Next]_vars => [R!Next]_<<where, target, outcome>>
  BY RelocationStep
<1>. QED BY <1>1, <1>2, <1>3, Invariance, PTL DEF Spec, IsRelocation, R!Spec

----------------------------------------------------------------------------
(* The particle table through the main loop: its inductive invariant.      *)

\* The parts of a step in which the list of active particles is the one made
\* at its start, and how many particles the table had then.
MidStep == {"gravity", "seed", "swallow", "sfr", "no_particle_space"}

AtStart == IF is_PM THEN numActive ELSE numActive + MaxPart - maxActive

\* The particles split off in this step, which have no slot yet.
Kids == {c[1] : c \in {d \in newStars : d[1] # d[2]}}

\* The type invariant, with the tables.
FullTypeOK ==
  /\ phase \in Steps \cup {"no_particle_space"}
  /\ is_PM \in BOOLEAN
  /\ store \in Store /\ NumPart(store) <= MaxPart
  /\ \A t \in SlotTypes : Size(store, t) <= store.maxsize[t]
  /\ \A i \in 1..NumPart(store) : store.P[i].Generation < GenWrap
  /\ active \in Seq(Nat) /\ numActive \in Nat /\ maxActive \in Nat /\ allocated \in Nat
  /\ newStars \subseteq (1..NumPart(store)) \X (1..NumPart(store))

\* All but the new particles have their slots.
SlotInv == MatchIn(store, LiveIndices(store) \ Kids) /\ OrphansMarked(store)

\* A new star is a gas particle, or is split off from one, that is in no other
\* pair; what is split off stands behind the particles of the start of the step.
StarsInv ==
  /\ phase \notin {"sfr", "no_particle_space"} => newStars = {}
  /\ \A c \in newStars : /\ c[2] \in LiveIndices(store) \ Kids
                         /\ store.P[c[2]].Type = Gas
                         /\ c[1] # c[2] => /\ c[1] \in LiveIndices(store)
                                           /\ store.P[c[1]].Type = Gas
                                           /\ store.P[c[1]].PI = NoSlot
  /\ \A c, d \in newStars : c[1] = d[1] \/ c[2] = d[2] => c = d
  /\ phase \in MidStep => /\ AtStart \in 0..NumPart(store)
                          /\ Kids = (AtStart + 1)..NumPart(store)

\* The active list is one of particles of the start of the step, until the new
\* ones are put behind them.
ListInv ==
  /\ phase # "begin" /\ ~is_PM =>
       /\ Len(active) = numActive
       /\ \A n \in 1..numActive :
            /\ active[n] \in 1..NumPart(store)
            /\ phase \in MidStep => active[n] <= AtStart
       /\ \A m, n \in 1..numActive : active[m] = active[n] => m = n
  /\ phase \in {"output", "timesteps"} /\ is_PM => numActive = NumPart(store)

\* There is a place for the acceleration of a new star from each gas slot.
AccelInv ==
  phase \in {"seed", "swallow", "sfr", "no_particle_space"} =>
    DOMAIN accel = 1..(AtStart + Size(store, Gas))

\* A gas particle has an ID of generation 0, and those with the same base have
\* later ones that it has counted.
IDSound(s, K) ==
  /\ IDsUnique(s)
  /\ \A i \in LiveIndices(s) \ K : s.P[i].Type = Gas =>
       /\ s.P[i].ID[2] = 0 /\ s.P[i].Generation <= Generations + 1
       /\ \A j \in LiveIndices(s) : j # i /\ s.P[j].ID[1] = s.P[i].ID[1] =>
            s.P[j].ID[2] \in 1..s.P[i].Generation

IDInv == IDSound(store, Kids)

StepInv == FullTypeOK /\ SlotInv /\ StarsInv /\ ListInv /\ AccelInv /\ IDInv

\* The constants of the particle step.
LEMMA StepConstants ==
  /\ Gas \in SlotTypes /\ Star \in SlotTypes /\ Hole \in SlotTypes
  /\ Gas # Star /\ Gas # Hole /\ MaxPart \in Nat \ {0} /\ NoSlot = 0
  /\ Generations \in Nat /\ GenWrap \in Nat /\ Generations + 1 < GenWrap
  /\ InitTypes \in Seq(PartTypes) /\ Len(InitTypes) \in Nat /\ Len(InitTypes) <= MaxPart
BY StepAssumption, StoreAssumption DEF Gas, Star, Hole, NoSlot

\* The particles of the initial conditions of type t, and their slots.
OfInitType(t) == {i \in 1..Len(InitTypes) : InitTypes[i] = t}

\* Their ranks number them.
LEMMA InitRanks ==
  ASSUME NEW t
  PROVE  LET S == OfInitType(t) IN
         /\ S \in SUBSET (1..Len(InitTypes)) /\ Cardinality(S) \in Nat
         /\ \A i \in S : InitRank(i) \in 1..Cardinality(S)
         /\ \A i, j \in S : InitRank(i) = InitRank(j) => i = j
         /\ \A k \in 1..Cardinality(S) : \E i \in S : InitRank(i) = k
<1>. DEFINE S == OfInitType(t)
            n == Len(InitTypes)
<1>1. n \in Nat /\ S \in SUBSET (1..n) /\ S \in SUBSET Int
  BY StepConstants DEF OfInitType
<1>2. IsFiniteSet(S)
  <2>1. IsFiniteSet(1..n)
    BY <1>1, FS_Interval
  <2>. QED BY <1>1, <2>1, FS_Subset
<1>3. ASSUME NEW i \in S PROVE InitRank(i) = CountTo(S, i)
  <2>1. i \in 1..n /\ InitTypes[i] = t
    BY DEF OfInitType
  <2>2. {j \in 1..i : InitTypes[j] = InitTypes[i]} = {j \in S : j <= i}
    <3>1. \A j \in 1..i : j \in 1..n /\ j <= i
      BY <1>1, <2>1
    <3>2. \A j \in 1..n : j <= i => j \in 1..i
      BY <1>1, <2>1
    <3>. QED BY <2>1, <3>1, <3>2 DEF OfInitType
  <2>. QED BY <2>2 DEF InitRank, CountTo
<1>. HIDE DEF S
<1>4. /\ Cardinality(S) \in Nat
      /\ \A i \in S : CountTo(S, i) \in 1..Cardinality(S)
      /\ \A i, j \in S : i < j => CountTo(S, i) < CountTo(S, j)
      /\ \A k \in 1..Cardinality(S) : \E i \in S : CountTo(S, i) = k
  BY <1>1, <1>2, CountToRanks
<1>5. ASSUME NEW i \in S, NEW j \in S, InitRank(i) = InitRank(j) PROVE i = j
  <2>1. CountTo(S, i) = CountTo(S, j) /\ CountTo(S, i) \in Nat /\ i \in Int /\ j \in Int
    BY <1>1, <1>3, <1>4, <1>5
  <2>2. ~(i < j) /\ ~(j < i)
    BY <1>4, <2>1
  <2>. QED BY <2>1, <2>2
<1>6. \A i \in S : InitRank(i) \in 1..Cardinality(S)
  BY <1>3, <1>4
<1>7. \A k \in 1..Cardinality(S) : \E i \in S : InitRank(i) = k
  BY <1>3, <1>4
<1>. QED BY <1>1, <1>4, <1>5, <1>6, <1>7 DEF S

\* The slots at the start.
LEMMA FirstSlotsRight ==
  ASSUME NEW t \in SlotTypes
  PROVE  LET S == OfInitType(t)
             x == FirstSlots(t) IN
         /\ x \in Seq(SlotData) /\ Len(x) = Cardinality(S)
         /\ \A k \in 1..Len(x) : \E i \in S : InitRank(i) = k
         /\ \A i \in S : InitRank(i) \in 1..Len(x) /\ x[InitRank(i)].ID = <<i, 0>>
<1>. DEFINE S == OfInitType(t)
            x == FirstSlots(t)
            h(k) == CHOOSE i \in S : InitRank(i) = k
<1>1. /\ S \in SUBSET (1..Len(InitTypes)) /\ Cardinality(S) \in Nat
      /\ \A i \in S : InitRank(i) \in 1..Cardinality(S)
      /\ \A i, j \in S : InitRank(i) = InitRank(j) => i = j
      /\ \A k \in 1..Cardinality(S) : \E i \in S : InitRank(i) = k
  BY InitRanks
<1>2. x = [k \in 1..Cardinality(S) |-> [ID |-> <<h(k), 0>>, ReverseLink |-> h(k)]]
  BY DEF FirstSlots, OfInitType
<1>. HIDE DEF S, x
<1>3. \A k \in 1..Cardinality(S) : h(k) \in S /\ InitRank(h(k)) = k /\ h(k) \in Nat
  <2>. SUFFICES ASSUME NEW k \in 1..Cardinality(S)
                PROVE  h(k) \in S /\ InitRank(h(k)) = k /\ h(k) \in Nat
    OBVIOUS
  <2>1. h(k) \in S /\ InitRank(h(k)) = k
    BY <1>1
  <2>. HIDE DEF h
  <2>2. h(k) \in 1..Len(InitTypes)
    BY <1>1, <2>1
  <2>. QED BY <2>1, <2>2
<1>. HIDE DEF h
<1>4. x \in Seq(SlotData) /\ Len(x) = Cardinality(S)
  <2>1. \A k \in 1..Cardinality(S) : [ID |-> <<h(k), 0>>, ReverseLink |-> h(k)] \in SlotData
    BY <1>3 DEF SlotData
  <2>2. x \in [1..Cardinality(S) -> SlotData]
    BY <1>2, <2>1
  <2>. QED BY <1>1, <2>2
<1>5. ASSUME NEW i \in S PROVE InitRank(i) \in 1..Len(x) /\ x[InitRank(i)].ID = <<i, 0>>
  <2>1. InitRank(i) \in 1..Cardinality(S) /\ h(InitRank(i)) = i
    BY <1>1, <1>3
  <2>. QED BY <1>2, <1>4, <2>1
<1>. QED BY <1>1, <1>4, <1>5 DEF S, x

\* The tables at the start.
LEMMA StepInitStore ==
  ASSUME StepInit
  PROVE  /\ store \in Store /\ NumPart(store) = Len(InitTypes)
         /\ LiveIndices(store) = 1..Len(InitTypes)
         /\ \A t \in SlotTypes : Size(store, t) <= store.maxsize[t]
         /\ \A i \in 1..Len(InitTypes) : store.P[i].ID = <<i, 0>> /\ store.P[i].Generation = 0
         /\ \A i \in 1..Len(InitTypes) : InitTypes[i] \in PartTypes
         /\ SlotsMatch(store) /\ OrphansMarked(store)
<1>. DEFINE n == Len(InitTypes)
            P0 == [i \in 1..n |-> InitParticle(i)]
            S0 == [t \in SlotTypes |-> FirstSlots(t)]
            M0 == [t \in SlotTypes |-> Len(FirstSlots(t)) + SlotsFree]
<1>1. store = [P |-> P0, slot |-> S0, maxsize |-> M0]
  BY DEF StepInit
<1>2. n \in Nat /\ \A i \in 1..n : InitTypes[i] \in PartTypes /\ i \in OfInitType(InitTypes[i])
  BY StepConstants DEF OfInitType
<1>3. \A t \in SlotTypes :
        /\ FirstSlots(t) \in Seq(SlotData) /\ Len(FirstSlots(t)) \in Nat
        /\ \A k \in 1..Len(FirstSlots(t)) : \E i \in OfInitType(t) : InitRank(i) = k
        /\ \A i \in OfInitType(t) :
             InitRank(i) \in 1..Len(FirstSlots(t)) /\ FirstSlots(t)[InitRank(i)].ID = <<i, 0>>
  <2>. SUFFICES ASSUME NEW t \in SlotTypes
                PROVE  /\ FirstSlots(t) \in Seq(SlotData) /\ Len(FirstSlots(t)) \in Nat
                       /\ \A k \in 1..Len(FirstSlots(t)) : \E i \in OfInitType(t) : InitRank(i) = k
                       /\ \A i \in OfInitType(t) :
                            InitRank(i) \in 1..Len(FirstSlots(t)) /\ FirstSlots(t)[InitRank(i)].ID = <<i, 0>>
    OBVIOUS
  <2>1. /\ FirstSlots(t) \in Seq(SlotData)
        /\ \A k \in 1..Len(FirstSlots(t)) : \E i \in OfInitType(t) : InitRank(i) = k
        /\ \A i \in OfInitType(t) :
             InitRank(i) \in 1..Len(FirstSlots(t)) /\ FirstSlots(t)[InitRank(i)].ID = <<i, 0>>
    BY FirstSlotsRight
  <2>2. Len(FirstSlots(t)) \in Nat
    BY <2>1
  <2>. QED BY <2>1, <2>2
<1>4. ASSUME NEW i \in 1..n
      PROVE  /\ InitParticle(i) \in Particle /\ ~InitParticle(i).IsGarbage
             /\ InitParticle(i).ID = <<i, 0>> /\ InitParticle(i).Type = InitTypes[i]
             /\ InitParticle(i).Generation = 0
             /\ InitTypes[i] \in SlotTypes => InitParticle(i).PI = InitRank(i)
  <2>1. CASE InitTypes[i] \in SlotTypes
    <3>1. InitRank(i) \in Nat
      BY <1>2, <1>3, <2>1
    <3>2. InitParticle(i) = [ID |-> <<i, 0>>, Type |-> InitTypes[i], IsGarbage |-> FALSE,
                             Generation |-> 0, PI |-> InitRank(i)]
      BY <2>1 DEF InitParticle
    <3>. QED BY <1>2, <3>1, <3>2 DEF Particle
  <2>2. CASE InitTypes[i] \notin SlotTypes
    <3>1. InitParticle(i) = [ID |-> <<i, 0>>, Type |-> InitTypes[i], IsGarbage |-> FALSE,
                             Generation |-> 0, PI |-> NoSlot]
      BY <2>2 DEF InitParticle
    <3>. QED BY <1>2, <2>2, <3>1, StepConstants DEF Particle
  <2>. QED BY <2>1, <2>2
<1>5. P0 \in Seq(Particle) /\ Len(P0) = n /\ \A i \in 1..n : P0[i] = InitParticle(i)
  <2>1. P0 \in [1..n -> Particle]
    BY <1>4
  <2>2. n \in Nat
    BY <1>2
  <2>3. \A i \in 1..n : P0[i] = InitParticle(i)
    OBVIOUS
  <2>. HIDE DEF P0, n
  <2>. QED BY <2>1, <2>2, <2>3
<1>6. S0 \in [SlotTypes -> Seq(SlotData)] /\ M0 \in [SlotTypes -> Nat]
  BY <1>3, StoreAssumption
<1>7. \A t \in SlotTypes : S0[t] = FirstSlots(t) /\ Len(FirstSlots(t)) <= M0[t]
  BY <1>3, StoreAssumption
<1>. HIDE DEF P0, S0, M0, n
<1>8. store.P = P0 /\ store.slot = S0 /\ store.maxsize = M0
  BY <1>1
<1>9. store \in Store
  BY <1>1, <1>5, <1>6 DEF Store
<1>10. NumPart(store) = n /\ \A t \in SlotTypes : Size(store, t) = Len(FirstSlots(t))
  BY <1>5, <1>7, <1>8 DEF NumPart, Size
<1>11. \A i \in 1..n : store.P[i] = InitParticle(i)
  BY <1>5, <1>8
<1>12. LiveIndices(store) = 1..n
  BY <1>4, <1>10, <1>11 DEF LiveIndices
<1>13. ASSUME NEW i \in 1..n PROVE OwnsSlot(store, i)
  <2>. SUFFICES ASSUME InitTypes[i] \in SlotTypes
                PROVE  /\ InitRank(i) \in 1..Size(store, InitTypes[i])
                       /\ store.slot[InitTypes[i]][InitRank(i)].ID = <<i, 0>>
    BY <1>4, <1>11 DEF OwnsSlot, HasSlot
  <2>. QED BY <1>2, <1>3, <1>7, <1>8, <1>10
<1>14. ASSUME NEW i \in 1..n, NEW j \in 1..n, HasSlot(store.P[i]),
              store.P[i].Type = store.P[j].Type, store.P[i].PI = store.P[j].PI
       PROVE  i = j
  <2>1. InitTypes[i] \in SlotTypes /\ InitTypes[i] = InitTypes[j] /\ InitRank(i) = InitRank(j)
    BY <1>4, <1>11, <1>14 DEF HasSlot
  <2>2. i \in OfInitType(InitTypes[i]) /\ j \in OfInitType(InitTypes[i])
    BY <1>2, <2>1
  <2>. QED BY <2>1, <2>2, InitRanks
<1>15. SlotsMatch(store)
  BY <1>12, <1>13, <1>14 DEF SlotsMatch
<1>16. OrphansMarked(store)
  <2>. SUFFICES ASSUME NEW t \in SlotTypes, NEW k \in 1..Size(store, t)
                PROVE  Owners(store, t, k) \cap LiveIndices(store) # {}
    BY DEF OrphansMarked
  <2>1. PICK i \in OfInitType(t) : InitRank(i) = k
    BY <1>3, <1>10
  <2>2. i \in 1..n /\ InitTypes[i] = t
    BY DEF OfInitType, n
  <2>3. store.P[i].Type = t /\ store.P[i].PI = k
    BY <1>4, <1>11, <2>1, <2>2
  <2>. QED BY <1>10, <1>12, <2>2, <2>3 DEF Owners
<1>17. \A t \in SlotTypes : Size(store, t) <= store.maxsize[t]
  BY <1>7, <1>8, <1>10
<1>18. \A i \in 1..n : store.P[i].ID = <<i, 0>> /\ store.P[i].Generation = 0
  BY <1>4, <1>11
<1>. QED BY <1>2, <1>9, <1>10, <1>12, <1>15, <1>16, <1>17, <1>18 DEF n

\* The invariant holds at the start.
LEMMA StepInitInv == StepInit => StepInv
<1>. SUFFICES ASSUME StepInit PROVE StepInv
  OBVIOUS
<1>1. /\ store \in Store /\ NumPart(store) = Len(InitTypes)
      /\ LiveIndices(store) = 1..Len(InitTypes)
      /\ \A t \in SlotTypes : Size(store, t) <= store.maxsize[t]
      /\ \A i \in 1..Len(InitTypes) : store.P[i].ID = <<i, 0>> /\ store.P[i].Generation = 0
      /\ \A i \in 1..Len(InitTypes) : InitTypes[i] \in PartTypes
      /\ SlotsMatch(store) /\ OrphansMarked(store)
  BY StepInitStore
<1>2. /\ phase = "begin" /\ is_PM = FALSE /\ newStars = {}
      /\ active = <<>> /\ numActive = 0 /\ maxActive = 0 /\ allocated = 0
  BY DEF StepInit
<1>3. \A i \in 1..Len(InitTypes) : store.P[i].ID = <<i, 0>> /\ store.P[i].Generation = 0
  BY <1>1
<1>4. Kids = {}
  BY <1>2 DEF Kids
<1>5. FullTypeOK
  <2>1. 0 < GenWrap
    BY StepConstants
  <2>2. \A i \in 1..NumPart(store) : store.P[i].Generation < GenWrap
    BY <1>1, <1>3, <2>1
  <2>3. NumPart(store) <= MaxPart
    BY <1>1, StepConstants
  <2>4. phase \in Steps /\ active \in Seq(Nat)
    BY <1>2 DEF Steps
  <2>. QED BY <1>1, <1>2, <2>2, <2>3, <2>4 DEF FullTypeOK
<1>6. SlotInv
  BY <1>1, <1>4, MatchAll DEF SlotInv
<1>7. StarsInv
  BY <1>2 DEF StarsInv, MidStep
<1>8. ListInv /\ AccelInv
  BY <1>2 DEF ListInv, AccelInv
<1>9. IDInv
  <2>1. \A i, j \in LiveIndices(store) : store.P[i].ID[1] = store.P[j].ID[1] => i = j
    BY <1>1, <1>3
  <2>2. IDsUnique(store)
    BY <2>1 DEF IDsUnique
  <2>3. \A i \in LiveIndices(store) : store.P[i].ID[2] = 0 /\ store.P[i].Generation = 0
    BY <1>1, <1>3
  <2>4. 0 <= Generations + 1
    BY StepConstants
  <2>. QED BY <2>1, <2>2, <2>3, <2>4 DEF IDInv, IDSound
<1>. QED BY <1>5, <1>6, <1>7, <1>8, <1>9 DEF StepInv

----------------------------------------------------------------------------
(* Steps that leave no new star waiting.                                   *)

\* A table in which each particle has its slot and an ID of its own, and that
\* there is memory for.
TableSound(s) ==
  /\ s \in Store /\ NumPart(s) <= MaxPart
  /\ \A t \in SlotTypes : Size(s, t) <= s.maxsize[t]
  /\ \A i \in 1..NumPart(s) : s.P[i].Generation < GenWrap
  /\ SlotsMatch(s) /\ OrphansMarked(s)
  /\ IDSound(s, {})

\* While no new star waits, the invariant says that the table is sound, and that
\* it has the size it had at the start of the step.
LEMMA QuietFacts ==
  ASSUME StepInv, newStars = {}
  PROVE  /\ TableSound(store) /\ Kids = {} /\ NumPart(store) \in Nat
         /\ phase \in MidStep => AtStart = NumPart(store)
<1>1. Kids = {}
  BY DEF Kids
<1>2. LiveIndices(store) \ {} = LiveIndices(store)
  OBVIOUS
<1>3. FullTypeOK /\ SlotsMatch(store) /\ OrphansMarked(store) /\ IDSound(store, {})
  BY <1>1, <1>2, MatchAll DEF StepInv, SlotInv, IDInv
<1>4. TableSound(store) /\ NumPart(store) \in Nat
  BY <1>3, StoreParts DEF TableSound, FullTypeOK
<1>5. ASSUME phase \in MidStep PROVE AtStart = NumPart(store)
  <2>1. AtStart \in 0..NumPart(store) /\ {} = (AtStart + 1)..NumPart(store)
    BY <1>1, <1>5 DEF StepInv, StarsInv
  <2>2. NumPart(store) \notin (AtStart + 1)..NumPart(store)
    BY <2>1
  <2>. HIDE DEF AtStart
  <2>. QED BY <1>4, <2>1, <2>2
<1>. QED BY <1>1, <1>4, <1>5

\* After a step that leaves none, a sound table, the list and the accelerations
\* are all there is to show.
LEMMA QuietInv ==
  ASSUME TableSound(store'), newStars' = {},
         phase' \in Steps, is_PM' \in BOOLEAN,
         active' \in Seq(Nat), numActive' \in Nat, maxActive' \in Nat, allocated' \in Nat,
         phase' \in MidStep => AtStart' = NumPart(store'),
         ListInv', AccelInv'
  PROVE  StepInv'
<1>1. Kids' = {}
  BY DEF Kids
<1>2. LiveIndices(store') \ {} = LiveIndices(store')
  OBVIOUS
<1>3. SlotInv'
  BY <1>1, <1>2, MatchAll DEF SlotInv, TableSound
<1>4. IDInv'
  BY <1>1 DEF IDInv, TableSound
<1>5. FullTypeOK'
  BY DEF FullTypeOK, TableSound
<1>6. StarsInv'
  <2>1. NumPart(store') \in Nat
    BY StoreParts DEF TableSound
  <2>2. (NumPart(store') + 1)..NumPart(store') = {}
    BY <2>1
  <2>3. phase' \in MidStep => AtStart' \in 0..NumPart(store') /\ Kids' = (AtStart' + 1)..NumPart(store')
    BY <1>1, <2>1, <2>2
  <2>. QED BY <2>3 DEF StarsInv
<1>. QED BY <1>3, <1>4, <1>5, <1>6 DEF StepInv

\* IDs stay sound when each particle is one from before, and a gas particle one
\* that has counted as much.
LEMMA IDsFollow ==
  ASSUME NEW s, NEW c, NEW J, NEW K, IDSound(s, K),
         NEW f \in [LiveIndices(c) -> LiveIndices(s)],
         \A i, j \in LiveIndices(c) : f[i] = f[j] => i = j,
         \A i \in LiveIndices(c) :
           /\ c.P[i].ID = s.P[f[i]].ID
           /\ i \notin J /\ c.P[i].Type = Gas =>
                /\ f[i] \notin K /\ s.P[f[i]].Type = Gas
                /\ c.P[i].Generation = s.P[f[i]].Generation
  PROVE  IDSound(c, J)
<1>1. IDsUnique(c)
  BY DEF IDSound, IDsUnique
<1>2. ASSUME NEW i \in LiveIndices(c) \ J, c.P[i].Type = Gas
      PROVE  /\ c.P[i].ID[2] = 0 /\ c.P[i].Generation <= Generations + 1
             /\ \A j \in LiveIndices(c) : j # i /\ c.P[j].ID[1] = c.P[i].ID[1] =>
                  c.P[j].ID[2] \in 1..c.P[i].Generation
  <2>1. /\ f[i] \in LiveIndices(s) \ K /\ s.P[f[i]].Type = Gas
        /\ c.P[i].ID = s.P[f[i]].ID /\ c.P[i].Generation = s.P[f[i]].Generation
    BY <1>2
  <2>2. /\ s.P[f[i]].ID[2] = 0 /\ s.P[f[i]].Generation <= Generations + 1
        /\ \A j \in LiveIndices(s) : j # f[i] /\ s.P[j].ID[1] = s.P[f[i]].ID[1] =>
             s.P[j].ID[2] \in 1..s.P[f[i]].Generation
    BY <2>1 DEF IDSound
  <2>3. ASSUME NEW j \in LiveIndices(c), j # i, c.P[j].ID[1] = c.P[i].ID[1]
        PROVE  c.P[j].ID[2] \in 1..c.P[i].Generation
    <3>1. f[j] \in LiveIndices(s) /\ f[j] # f[i] /\ c.P[j].ID = s.P[f[j]].ID
      BY <2>3
    <3>. QED BY <2>1, <2>2, <2>3, <3>1
  <2>. QED BY <2>1, <2>2, <2>3
<1>. QED BY <1>1, <1>2 DEF IDSound

\* When no particle moves.
LEMMA IDsStay ==
  ASSUME NEW s, NEW c, NEW J, NEW K, IDSound(s, K),
         LiveIndices(c) \subseteq LiveIndices(s),
         \A i \in LiveIndices(c) :
           /\ c.P[i].ID = s.P[i].ID
           /\ i \notin J /\ c.P[i].Type = Gas =>
                /\ i \notin K /\ s.P[i].Type = Gas
                /\ c.P[i].Generation = s.P[i].Generation
  PROVE  IDSound(c, J)
<1>. DEFINE f == [i \in LiveIndices(c) |-> i]
<1>1. /\ f \in [LiveIndices(c) -> LiveIndices(s)]
      /\ \A i \in LiveIndices(c) : f[i] = i
  OBVIOUS
<1>. HIDE DEF f
<1>2. /\ \A i, j \in LiveIndices(c) : f[i] = f[j] => i = j
      /\ \A i \in LiveIndices(c) :
           /\ c.P[i].ID = s.P[f[i]].ID
           /\ i \notin J /\ c.P[i].Type = Gas =>
                /\ f[i] \notin K /\ s.P[f[i]].Type = Gas
                /\ c.P[i].Generation = s.P[f[i]].Generation
  BY <1>1
<1>. QED BY <1>1, <1>2, IDsFollow

\* When no new star waits either.
LEMMA IDsKept ==
  ASSUME NEW s, NEW c, IDSound(s, {}), LiveIndices(c) \subseteq LiveIndices(s),
         \A i \in LiveIndices(c) :
           /\ c.P[i].ID = s.P[i].ID
           /\ c.P[i].Type = Gas => /\ s.P[i].Type = Gas
                                   /\ c.P[i].Generation = s.P[i].Generation
  PROVE  IDSound(c, {})
<1>. DEFINE none == {}
<1>1. \A i \in LiveIndices(c) :
        /\ c.P[i].ID = s.P[i].ID
        /\ i \notin none /\ c.P[i].Type = Gas =>
             /\ i \notin none /\ s.P[i].Type = Gas
             /\ c.P[i].Generation = s.P[i].Generation
  OBVIOUS
<1>2. IDSound(s, none)
  OBVIOUS
<1>. HIDE DEF none
<1>3. IDSound(c, none)
  BY <1>1, <1>2, IDsStay
<1>. QED BY <1>3 DEF none

\* A collection or a sort leaves a sound table.
LEMMA TableTidied ==
  ASSUME NEW s, TableSound(s), NEW g, Tidied(g, s)
  PROVE  TableSound(g) /\ NumPart(g) <= NumPart(s)
<1>1. /\ NumPart(s) \in Nat /\ NumPart(g) \in Nat
      /\ \A t \in SlotTypes : /\ Size(g, t) \in Nat /\ Size(s, t) \in Nat
                              /\ s.maxsize[t] \in Nat
      /\ LiveIndices(s) \in SUBSET (1..NumPart(s))
      /\ g \in Store /\ s \in Store
  <2>1. g \in Store /\ s \in Store
    BY DEF TableSound, Tidied
  <2>2. \A t \in SlotTypes : s.maxsize[t] \in Nat
    BY <2>1, StoreParts
  <2>. QED BY <2>1, <2>2, StoreParts
<1>2. PICK f \in Bijection(1..NumPart(g), LiveIndices(s)) :
        \A k \in 1..NumPart(g) : SameParticle(g.P[k], s.P[f[k]])
  BY DEF Tidied
<1>3. /\ f \in [LiveIndices(g) -> LiveIndices(s)] /\ LiveIndices(g) = 1..NumPart(g)
      /\ \A i, j \in LiveIndices(g) : f[i] = f[j] => i = j
  BY DEF Tidied, Bijection, Injection, IsInjective
<1>4. \A k \in 1..NumPart(g) :
        /\ g.P[k].ID = s.P[f[k]].ID /\ g.P[k].Type = s.P[f[k]].Type
        /\ g.P[k].Generation = s.P[f[k]].Generation /\ f[k] \in LiveIndices(s)
  BY <1>2, <1>3 DEF SameParticle
<1>5. IDSound(g, {})
  <2>1. IDSound(s, {})
    BY DEF TableSound
  <2>2. /\ f \in [LiveIndices(g) -> LiveIndices(s)]
        /\ \A i, j \in LiveIndices(g) : f[i] = f[j] => i = j
    BY <1>3
  <2>. DEFINE none == {}
  <2>3. \A i \in LiveIndices(g) :
          /\ g.P[i].ID = s.P[f[i]].ID
          /\ i \notin none /\ g.P[i].Type = Gas =>
               /\ f[i] \notin none /\ s.P[f[i]].Type = Gas
               /\ g.P[i].Generation = s.P[f[i]].Generation
    BY <1>3, <1>4
  <2>4. IDSound(s, none)
    BY <2>1
  <2>. HIDE DEF none
  <2>5. IDSound(g, none)
    BY <2>2, <2>3, <2>4, IDsFollow
  <2>. QED BY <2>5 DEF none
<1>6. \A i \in 1..NumPart(g) : g.P[i].Generation < GenWrap
  BY <1>1, <1>4 DEF TableSound
<1>7. \A t \in SlotTypes : Size(g, t) <= g.maxsize[t]
  BY <1>1 DEF TableSound, Tidied
<1>8. NumPart(g) <= NumPart(s) /\ NumPart(g) <= MaxPart
  BY <1>1, StepConstants DEF TableSound, Tidied
<1>. QED BY <1>1, <1>5, <1>6, <1>7, <1>8 DEF TableSound, Tidied

\* The tables a step may start with.
LEMMA StartTables ==
  ASSUME NEW s, TableSound(s), NEW g, g = s \/ Tidied(g, s)
  PROVE  TableSound(g)
BY TableTidied

\* The start of a step tidies the tables and makes the list of its particles.
LEMMA BeginStepInv == StepInv /\ BeginStep => StepInv'
<1>. SUFFICES ASSUME StepInv, BeginStep PROVE StepInv'
  OBVIOUS
<1>1. /\ phase = "begin" /\ phase' = "gravity" /\ is_PM' \in BOOLEAN
      /\ store' \in TablesAtStart(is_PM')
      /\ UNCHANGED newStars
  BY DEF BeginStep
<1>2. newStars = {} /\ newStars' = {}
  BY <1>1 DEF StepInv, StarsInv
<1>3. TableSound(store)
  BY <1>2, QuietFacts
<1>4. store' = store \/ Tidied(store', store)
  <2>1. /\ store \in Store /\ SlotsMatch(store) /\ OrphansMarked(store) /\ NumPart(store) <= MaxPart
    BY <1>3 DEF TableSound
  <2>2. CASE \E order \in SetToSeqs(1..NumPart(store)) :
               IsTypeOrder(store, order) /\ store' = GCSorted(store, order)
    <3>. QED BY <2>1, <2>2, SortTidies
  <2>3. CASE store' = store \/ \E types \in SUBSET SlotTypes : store' = GC(store, types)
    <3>. QED BY <2>1, <2>3, GCTidies
  <2>. QED BY <1>1, <2>2, <2>3 DEF TablesAtStart
<1>5. TableSound(store')
  BY <1>3, <1>4, StartTables
<1>6. PICK chosen \in SUBSET {i \in LiveIndices(store') : store'.P[i].Type \in {Gas, Hole}} :
        /\ active' = InOrder(chosen)
        /\ numActive' = IF is_PM' THEN NumPart(store') ELSE Cardinality(chosen)
        /\ maxActive' = IF is_PM' THEN NumPart(store')
                        ELSE Cardinality(chosen) + MaxPart - NumPart(store')
        /\ allocated' = maxActive'
  BY DEF BeginStep
<1>. DEFINE N == NumPart(store')
            n == Cardinality(chosen)
<1>7. N \in Nat /\ LiveIndices(store') \in SUBSET (1..N) /\ N <= MaxPart
  BY <1>5, StoreParts DEF TableSound
<1>8. chosen \in SUBSET (1..N)
  BY <1>7
<1>. HIDE DEF N
<1>9. IsFiniteSet(chosen) /\ chosen \in SUBSET Int
  <2>1. IsFiniteSet(1..N)
    BY <1>7, FS_Interval
  <2>2. IsFiniteSet(chosen)
    BY <1>8, <2>1, FS_Subset
  <2>3. \A i \in 1..N : i \in Int
    BY <1>7
  <2>. QED BY <1>8, <2>2, <2>3
<1>10. /\ n \in Nat /\ active' \in [1..n -> chosen]
       /\ \A j, k \in 1..n : j < k => active'[j] < active'[k]
  BY <1>6, <1>9, InOrderProperties
<1>. HIDE DEF n
<1>11. active' \in Seq(Nat) /\ Len(active') = n /\ \A k \in 1..n : active'[k] \in 1..N
  <2>1. \A k \in 1..n : active'[k] \in 1..N
    BY <1>8, <1>10
  <2>2. active' \in [1..n -> Nat]
    BY <1>7, <1>10, <2>1
  <2>. QED BY <1>10, <2>1, <2>2
<1>12. numActive' \in Nat /\ maxActive' \in Nat /\ allocated' \in Nat
  BY <1>6, <1>7, <1>10, StepConstants DEF N, n
<1>13. AtStart' = N
  <2>1. AtStart' = IF is_PM' THEN numActive' ELSE numActive' + MaxPart - maxActive'
    BY DEF AtStart
  <2>2. CASE is_PM'
    BY <1>6, <2>1, <2>2 DEF N
  <2>3. CASE ~is_PM'
    <3>1. numActive' = n /\ maxActive' = n + MaxPart - N
      BY <1>6, <2>3 DEF N, n
    <3>. QED BY <1>7, <1>10, <2>1, <2>3, <3>1, StepConstants
  <2>. QED BY <2>2, <2>3
<1>14. ListInv'
  <2>1. ~is_PM' => numActive' = n
    BY <1>6 DEF n
  <2>2. \A j, k \in 1..n : active'[j] = active'[k] => j = k
    <3>. SUFFICES ASSUME NEW j \in 1..n, NEW k \in 1..n, active'[j] = active'[k] PROVE j = k
      OBVIOUS
    <3>1. active'[j] \in Int /\ active'[k] \in Int
      BY <1>11
    <3>2. ~(j < k) /\ ~(k < j)
      BY <1>10, <3>1
    <3>. QED BY <1>10, <3>2
  <2>3. \A k \in 1..n : active'[k] \in 1..N /\ active'[k] <= N
    BY <1>7, <1>11
  <2>4. phase' \notin {"output", "timesteps"}
    BY <1>1
  <2>. HIDE DEF AtStart
  <2>. QED BY <1>11, <1>13, <2>1, <2>2, <2>3, <2>4 DEF ListInv, N
<1>15. AccelInv' /\ phase' \in Steps
  BY <1>1 DEF AccelInv, Steps
<1>. QED BY <1>1, <1>2, <1>5, <1>11, <1>12, <1>13, <1>14, <1>15, QuietInv DEF N

\* The elements of a set in some order.
LEMMA QueueOf ==
  ASSUME NEW S, IsFiniteSet(S), NEW q \in SetToSeqs(S)
  PROVE  /\ q \in Seq(S) /\ Len(q) = Cardinality(S) /\ Len(q) \in Nat /\ ToSet(q) = S
         /\ \A j, k \in 1..Len(q) : q[j] = q[k] => j = k
<1>. DEFINE n == Cardinality(S)
<1>1. n \in Nat
  BY FS_CardinalityType
<1>2. q \in [1..n -> S] /\ \A j, k \in 1..n : j # k => q[j] # q[k]
  BY Zenon DEF SetToSeqs
<1>. HIDE DEF n
<1>3. q \in Injection(1..n, S)
  BY <1>2 DEF Injection, IsInjective
<1>4. Cardinality(1..n) = n
  BY <1>1, FS_Interval, SMTT(30)
<1>5. q \in Surjection(1..n, S)
  BY <1>3, <1>4, FS_Injection DEF n
<1>6. q \in Seq(S) /\ Len(q) = n
  BY <1>1, <1>2
<1>7. ToSet(q) = S
  BY <1>2, <1>5 DEF ToSet, Surjection
<1>. QED BY <1>1, <1>2, <1>6, <1>7 DEF n

\* A step that changes neither the list nor the number of particles.
LEMMA QuietStep ==
  ASSUME StepInv, newStars = {}, newStars' = {}, phase \in MidStep,
         phase' \in {"seed", "swallow", "sfr"}, UNCHANGED <<is_PM, lists>>,
         TableSound(store'), NumPart(store') = NumPart(store),
         DOMAIN accel' = 1..(AtStart + Size(store', Gas))
  PROVE  StepInv'
<1>1. /\ is_PM' = is_PM /\ active' = active /\ numActive' = numActive
      /\ maxActive' = maxActive /\ allocated' = allocated
  BY DEF lists
<1>2. AtStart' = AtStart /\ AtStart = NumPart(store)
  BY <1>1, QuietFacts DEF AtStart
<1>. HIDE DEF AtStart
<1>3. phase # "begin" /\ phase' \in MidStep /\ phase' # "begin" /\ phase' \notin {"output", "timesteps"}
      /\ phase' \in Steps
  BY DEF MidStep, Steps
<1>4. ListInv'
  <2>1. ListInv
    BY DEF StepInv
  <2>2. ~is_PM => /\ Len(active) = numActive
                  /\ \A n \in 1..numActive : active[n] \in 1..NumPart(store) /\ active[n] <= AtStart
                  /\ \A m, n \in 1..numActive : active[m] = active[n] => m = n
    BY <1>3, <2>1 DEF ListInv
  <2>. QED BY <1>1, <1>2, <1>3, <2>2 DEF ListInv
<1>5. AccelInv'
  BY <1>2 DEF AccelInv
<1>6. /\ is_PM \in BOOLEAN /\ active \in Seq(Nat) /\ numActive \in Nat /\ maxActive \in Nat
      /\ allocated \in Nat
  BY DEF StepInv, FullTypeOK
<1>7. AtStart' = NumPart(store')
  BY <1>2
<1>. QED BY <1>1, <1>3, <1>4, <1>5, <1>6, <1>7, QuietInv

\* Before the step that forms stars no new star waits.
LEMMA NoneWaits ==
  ASSUME StepInv, phase \notin {"sfr", "no_particle_space"}
  PROVE  newStars = {}
BY DEF StepInv, StarsInv

\* Gravity makes the array of accelerations as long as AccelInv says.
LEMMA GravityInv == StepInv /\ Gravity => StepInv'
<1>. SUFFICES ASSUME StepInv, Gravity PROVE StepInv'
  OBVIOUS
<1>1. /\ phase = "gravity" /\ phase' = "seed" /\ UNCHANGED <<is_PM, store, lists, newStars>>
      /\ DOMAIN accel' = 1..(NumPart(store) + Size(store, Gas))
  BY DEF Gravity
<1>2. newStars = {} /\ newStars' = {} /\ phase \in MidStep
  BY <1>1, NoneWaits DEF MidStep
<1>3. TableSound(store) /\ AtStart = NumPart(store)
  BY <1>2, QuietFacts
<1>. HIDE DEF AtStart
<1>. QED BY <1>1, <1>2, <1>3, QuietStep

\* fof_seed keeps the tables sound, and what it reserves is enough.
LEMMA SeedBlackHolesInv == StepInv /\ SeedBlackHoles => StepInv'
<1>. SUFFICES ASSUME StepInv, SeedBlackHoles PROVE StepInv'
  OBVIOUS
<1>. DEFINE L == LiveIndices(store)
<1>0. PICK chosen \in SUBSET {i \in L : store.P[i].Type = Gas} :
        \E order \in SetToSeqs(chosen) :
          store' = Convert(ReservedFor(store, Hole, Cardinality(chosen)), order, Hole)
  BY DEF SeedBlackHoles
<1>1. PICK order \in SetToSeqs(chosen) :
        store' = Convert(ReservedFor(store, Hole, Cardinality(chosen)), order, Hole)
  BY <1>0
<1>2. /\ phase = "seed" /\ UNCHANGED <<is_PM, lists, accel, newStars>>
      /\ phase' = IF Size(store', Hole) > store'.maxsize[Hole] THEN "no_slot" ELSE "swallow"
  BY DEF SeedBlackHoles
<1>3. newStars = {} /\ newStars' = {} /\ phase \in MidStep
  BY <1>2, NoneWaits DEF MidStep
<1>4. TableSound(store) /\ NumPart(store) \in Nat
  BY <1>3, QuietFacts
<1>5. /\ store \in Store /\ NumPart(store) \in Nat /\ L \in SUBSET (1..NumPart(store))
      /\ store.maxsize \in [SlotTypes -> Nat] /\ \A t \in SlotTypes : Size(store, t) \in Nat
  BY <1>4, StoreParts DEF TableSound
<1>6. IsFiniteSet(chosen)
  <2>1. IsFiniteSet(1..NumPart(store))
    BY <1>5, FS_Interval
  <2>2. chosen \in SUBSET (1..NumPart(store))
    BY <1>5
  <2>. QED BY <2>1, <2>2, FS_Subset
<1>. DEFINE n == Cardinality(chosen)
            r == ReservedFor(store, Hole, n)
<1>7. /\ order \in Seq(chosen) /\ Len(order) = n /\ n \in Nat /\ ToSet(order) = chosen
      /\ \A j, k \in 1..Len(order) : order[j] = order[k] => j = k
  BY <1>6, QueueOf
<1>. HIDE DEF n
<1>8. /\ r \in Store /\ r.P = store.P /\ NumPart(r) = NumPart(store) /\ LiveIndices(r) = L
      /\ \A t \in SlotTypes : Size(r, t) = Size(store, t) /\ store.maxsize[t] <= r.maxsize[t]
      /\ Size(store, Hole) + n <= r.maxsize[Hole]
      /\ SlotsMatch(r) /\ OrphansMarked(r)
  <2>1. /\ SlotsMatch(store) /\ OrphansMarked(store)
        /\ Size(store, Hole) <= store.maxsize[Hole] /\ store.maxsize[Hole] \in Nat
        /\ \A t \in SlotTypes : store.maxsize[t] \in Nat
    BY <1>4, <1>5, StepConstants DEF TableSound
  <2>2. CASE store.maxsize[Hole] < Size(store, Hole) + n
    <3>. DEFINE a == [store.maxsize EXCEPT ![Hole] = @ + (11 * n) \div 10]
    <3>1. r = Reserve(store, a)
      BY <2>2 DEF ReservedFor
    <3>2. (11 * n) \div 10 \in Nat /\ n <= (11 * n) \div 10
      BY <1>7, Z3
    <3>3. a \in [SlotTypes -> Nat] /\ a[Hole] = store.maxsize[Hole] + (11 * n) \div 10
      <4>1. store.maxsize[Hole] + (11 * n) \div 10 \in Nat
        BY <2>1, <3>2
      <4>2. Hole \in SlotTypes /\ store.maxsize \in [SlotTypes -> Nat]
        BY <1>5, StepConstants
      <4>. QED BY <4>1, <4>2
    <3>. HIDE DEF a, r
    <3>4. /\ r \in Store /\ r.P = store.P /\ r.slot = store.slot
          /\ NumPart(r) = NumPart(store) /\ LiveIndices(r) = LiveIndices(store)
          /\ \A t \in SlotTypes : /\ Size(r, t) = Size(store, t)
                                  /\ a[t] <= r.maxsize[t] /\ store.maxsize[t] <= r.maxsize[t]
          /\ SlotsMatch(r) /\ OrphansMarked(r)
      BY <1>5, <2>1, <3>1, <3>3, ReserveKeeps
    <3>5. Size(store, Hole) \in Nat /\ r.maxsize[Hole] \in Nat /\ a[Hole] <= r.maxsize[Hole]
      BY <1>5, <3>4, StepConstants, StoreParts
    <3>6. Size(store, Hole) + n <= r.maxsize[Hole]
      <4>1. n \in Nat
        BY <1>7
      <4>2. Size(store, Hole) <= store.maxsize[Hole] /\ store.maxsize[Hole] \in Nat
        BY <2>1
      <4>3. a[Hole] = store.maxsize[Hole] + (11 * n) \div 10
        BY <3>3
      <4>. QED BY <3>2, <3>5, <4>1, <4>2, <4>3
    <3>. QED BY <3>4, <3>6
  <2>3. CASE ~(store.maxsize[Hole] < Size(store, Hole) + n)
    <3>1. r = store
      BY <2>3 DEF ReservedFor
    <3>2. Size(store, Hole) \in Nat
      BY <1>5, StepConstants
    <3>. HIDE DEF r
    <3>. QED BY <1>5, <1>7, <2>1, <2>3, <3>1, <3>2
  <2>. QED BY <2>2, <2>3
<1>. DEFINE c == Convert(r, order, Hole)
<1>9. store' = c
  BY <1>1 DEF n
<1>. HIDE DEF r
<1>10. /\ c \in Store /\ NumPart(c) = NumPart(r) /\ c.maxsize = r.maxsize
       /\ LiveIndices(c) = LiveIndices(r)
       /\ \A u \in SlotTypes : Size(c, u) = Size(r, u) + (IF u = Hole THEN Len(order) ELSE 0)
       /\ ConvertedPart(r, order, Hole, c)
       /\ SlotsMatch(c) /\ OrphansMarked(c)
  <2>. DEFINE none == {}
  <2>1. order \in Seq(LiveIndices(r))
    <3>1. \A j \in 1..Len(order) : order[j] \in LiveIndices(r)
      BY <1>7, <1>8
    <3>2. order = [j \in 1..Len(order) |-> order[j]]
      BY <1>7
    <3>. QED BY <1>7, <3>1, <3>2
  <2>2. none \in SUBSET ToSet(order) /\ LiveIndices(r) \ none = LiveIndices(r)
    OBVIOUS
  <2>3. MatchIn(r, LiveIndices(r) \ none)
    BY <1>8, <2>2, MatchAll
  <2>. HIDE DEF none, c
  <2>4. c = Convert(r, order, Hole) /\ Hole \in SlotTypes
    BY StepConstants DEF c
  <2>. QED BY <1>7, <1>8, <2>1, <2>2, <2>3, <2>4, ConvertKeeps
<1>. HIDE DEF c
<1>11. /\ NumPart(c) = NumPart(store) /\ LiveIndices(c) = L
       /\ \A i \in 1..NumPart(store) :
            /\ c.P[i].ID = store.P[i].ID /\ c.P[i].Generation = store.P[i].Generation
            /\ i \notin chosen => c.P[i] = store.P[i]
       /\ \A i \in chosen : c.P[i].Type = Hole
  <2>1. \A i \in chosen : \E k \in 1..Len(order) : order[k] = i
    BY <1>7 DEF ToSet
  <2>2. \A i \in 1..NumPart(store) : i \notin chosen => c.P[i] = store.P[i]
    BY <1>7, <1>8, <1>10 DEF ConvertedPart
  <2>3. \A i \in chosen : c.P[i].Type = Hole
    BY <1>10, <2>1 DEF ConvertedPart
  <2>4. \A i \in 1..NumPart(store) :
          c.P[i].ID = store.P[i].ID /\ c.P[i].Generation = store.P[i].Generation
    BY <1>8, <1>10 DEF ConvertedPart
  <2>. QED BY <1>8, <1>10, <2>2, <2>3, <2>4
<1>12. /\ \A u \in SlotTypes : Size(c, u) <= c.maxsize[u]
       /\ Size(c, Gas) = Size(store, Gas)
  <2>1. ASSUME NEW u \in SlotTypes PROVE Size(c, u) <= c.maxsize[u]
    <3>1. /\ Size(store, u) \in Nat /\ store.maxsize[u] \in Nat /\ c.maxsize[u] \in Nat
          /\ Size(store, u) <= store.maxsize[u] /\ store.maxsize[u] <= c.maxsize[u]
          /\ Size(c, u) = Size(store, u) + (IF u = Hole THEN n ELSE 0)
      BY <1>4, <1>5, <1>7, <1>8, <1>10, StoreParts DEF TableSound
    <3>2. u = Hole => Size(c, u) <= c.maxsize[u]
      BY <1>8, <1>10, <3>1
    <3>. QED BY <3>1, <3>2
  <2>2. Size(c, Gas) = Size(store, Gas)
    <3>1. Gas \in SlotTypes /\ Gas # Hole /\ Size(store, Gas) \in Nat
      BY <1>5, StepConstants
    <3>. QED BY <1>8, <1>10, <3>1
  <2>. QED BY <2>1, <2>2
<1>13. IDSound(c, {})
  <2>1. IDSound(store, {})
    BY <1>4 DEF TableSound
  <2>2. Gas # Hole
    BY StepConstants
  <2>3. \A i \in LiveIndices(c) :
          /\ c.P[i].ID = store.P[i].ID
          /\ c.P[i].Type = Gas => /\ store.P[i].Type = Gas
                                  /\ c.P[i].Generation = store.P[i].Generation
    BY <1>5, <1>11, <2>2
  <2>. QED BY <1>11, <2>1, <2>3, IDsKept
<1>14. \A i \in 1..NumPart(c) : c.P[i].Generation < GenWrap
  BY <1>4, <1>11 DEF TableSound
<1>15. TableSound(store')
  BY <1>4, <1>9, <1>10, <1>11, <1>12, <1>13, <1>14 DEF TableSound
<1>16. phase' = "swallow"
  <2>1. Size(c, Hole) \in Nat /\ c.maxsize[Hole] \in Nat /\ Size(c, Hole) <= c.maxsize[Hole]
    BY <1>10, <1>12, StepConstants, StoreParts
  <2>. QED BY <1>2, <1>9, <2>1
<1>17. DOMAIN accel = 1..(AtStart + Size(store, Gas))
  BY <1>2 DEF StepInv, AccelInv
<1>18. DOMAIN accel' = 1..(AtStart + Size(store', Gas))
  BY <1>2, <1>9, <1>12, <1>17
<1>. HIDE DEF AtStart
<1>. QED BY <1>2, <1>3, <1>9, <1>11, <1>15, <1>16, <1>18, QuietStep

\* Black holes swallow gas: its slots are marked.
LEMMA SwallowInv == StepInv /\ Swallow => StepInv'
<1>. SUFFICES ASSUME StepInv, Swallow PROVE StepInv'
  OBVIOUS
<1>. DEFINE L == LiveIndices(store)
<1>1. PICK eaten \in SUBSET {i \in L : store.P[i].Type = Gas} : store' = MarkGarbage(store, eaten)
  BY DEF Swallow
<1>2. phase = "swallow" /\ phase' = "sfr" /\ UNCHANGED <<is_PM, lists, accel, newStars>>
  BY DEF Swallow
<1>3. newStars = {} /\ newStars' = {} /\ phase \in MidStep
  BY <1>2, NoneWaits DEF MidStep
<1>4. TableSound(store)
  BY <1>3, QuietFacts
<1>5. /\ store \in Store /\ L \in SUBSET (1..NumPart(store))
      /\ \A i \in 1..NumPart(store) : store.P[i] \in Particle
  BY <1>4, StoreParts DEF TableSound
<1>. DEFINE m == MarkGarbage(store, eaten)
<1>6. eaten \in SUBSET L
  OBVIOUS
<1>7. \A i \in 1..NumPart(store) : m.P[i].Generation = store.P[i].Generation
  <2>. SUFFICES ASSUME NEW i \in 1..NumPart(store)
                PROVE  m.P[i].Generation = store.P[i].Generation
    OBVIOUS
  <2>1. m.P = [j \in 1..NumPart(store) |->
                 IF j \in eaten THEN [store.P[j] EXCEPT !.IsGarbage = TRUE] ELSE store.P[j]]
    BY <1>5 DEF MarkGarbage, Store
  <2>. HIDE DEF m
  <2>2. m.P[i] = IF i \in eaten THEN [store.P[i] EXCEPT !.IsGarbage = TRUE] ELSE store.P[i]
    BY <2>1
  <2>3. store.P[i] \in Particle
    BY <1>5
  <2>. QED BY <2>2, <2>3 DEF Particle
<1>. HIDE DEF m
<1>8. /\ m \in Store /\ NumPart(m) = NumPart(store) /\ LiveIndices(m) = L \ eaten
      /\ \A i \in LiveIndices(m) : m.P[i] = store.P[i]
      /\ \A t \in SlotTypes : Size(m, t) = Size(store, t)
      /\ m.maxsize = store.maxsize
      /\ SlotsMatch(m) /\ OrphansMarked(m)
  BY <1>4, <1>5, <1>6, MarkGarbageKeeps DEF TableSound, m
<1>9. IDSound(m, {})
  <2>1. IDSound(store, {})
    BY <1>4 DEF TableSound
  <2>2. LiveIndices(m) \subseteq L
    BY <1>8
  <2>. QED BY <1>8, <2>1, <2>2, IDsKept
<1>10. TableSound(m)
  BY <1>4, <1>7, <1>8, <1>9 DEF TableSound
<1>11. store' = m /\ Size(m, Gas) = Size(store, Gas)
  BY <1>1, <1>8, StepConstants DEF m
<1>12. DOMAIN accel' = 1..(AtStart + Size(store', Gas))
  BY <1>2, <1>11 DEF StepInv, AccelInv
<1>. HIDE DEF AtStart
<1>. QED BY <1>2, <1>3, <1>8, <1>10, <1>11, <1>12, QuietStep

\* An output tidies the tables, and on a PM step the list keeps the length of
\* the table.
LEMMA OutputInv == StepInv /\ Output => StepInv'
<1>. SUFFICES ASSUME StepInv, Output PROVE StepInv'
  OBVIOUS
<1>1. /\ phase = "output" /\ phase' = "timesteps"
      /\ UNCHANGED <<is_PM, active, maxActive, allocated, accel, newStars>>
      /\ \/ UNCHANGED <<store, numActive>>
         \/ /\ is_PM
            /\ numActive' = CountAfterGC(GC(store, {}))
            /\ \/ store' = GC(store, {})
               \/ \E order \in SetToSeqs(1..NumPart(GC(store, {}))) :
                    /\ IsTypeOrder(GC(store, {}), order)
                    /\ store' = GCSorted(GC(store, {}), order)
  BY DEF Output
<1>2. newStars = {} /\ newStars' = {}
  BY <1>1, NoneWaits
<1>3. TableSound(store) /\ NumPart(store) \in Nat
  BY <1>2, QuietFacts
<1>4. /\ ~is_PM => /\ Len(active) = numActive
                   /\ \A n \in 1..numActive : active[n] \in 1..NumPart(store)
                   /\ \A m, n \in 1..numActive : active[m] = active[n] => m = n
      /\ is_PM => numActive = NumPart(store)
      /\ is_PM \in BOOLEAN /\ active \in Seq(Nat) /\ numActive \in Nat /\ maxActive \in Nat
      /\ allocated \in Nat
  BY <1>1 DEF StepInv, ListInv, FullTypeOK
<1>5. CASE UNCHANGED <<store, numActive>>
  <2>1. TableSound(store')
    BY <1>3, <1>5
  <2>2. ListInv'
    BY <1>1, <1>4, <1>5 DEF ListInv, MidStep
  <2>3. AccelInv' /\ phase' \in Steps /\ phase' \notin MidStep
    BY <1>1 DEF AccelInv, Steps, MidStep
  <2>. QED BY <1>1, <1>2, <1>4, <1>5, <2>1, <2>2, <2>3, QuietInv
<1>6. CASE /\ is_PM
           /\ numActive' = CountAfterGC(GC(store, {}))
           /\ \/ store' = GC(store, {})
              \/ \E order \in SetToSeqs(1..NumPart(GC(store, {}))) :
                   /\ IsTypeOrder(GC(store, {}), order)
                   /\ store' = GCSorted(GC(store, {}), order)
  <2>. DEFINE clean == GC(store, {})
  <2>1. Tidied(clean, store)
    BY <1>3, GCTidies DEF TableSound
  <2>. HIDE DEF clean
  <2>2. TableSound(clean) /\ NumPart(clean) \in Nat /\ LiveIndices(clean) = 1..NumPart(clean)
    <3>1. TableSound(clean)
      BY <1>3, <2>1, TableTidied
    <3>. QED BY <2>1, <3>1, StoreParts DEF Tidied
  <2>3. numActive' = NumPart(clean)
    <3>1. CASE HasGarbage(store)
      BY <1>6, <3>1 DEF CountAfterGC, clean
    <3>2. CASE ~HasGarbage(store)
      <4>1. numActive' = NumPart(store)
        BY <1>4, <1>6, <3>2 DEF CountAfterGC
      <4>2. LiveIndices(store) = 1..NumPart(store)
        BY <3>2 DEF HasGarbage
      <4>3. Cardinality(1..NumPart(store)) = NumPart(store)
        BY <1>3, FS_Interval, SMTT(30)
      <4>. QED BY <2>1, <4>1, <4>2, <4>3 DEF Tidied
    <3>. QED BY <3>1, <3>2
  <2>4. TableSound(store') /\ NumPart(store') = NumPart(clean)
    <3>1. CASE store' = clean
      BY <2>2, <3>1
    <3>2. CASE \E order \in SetToSeqs(1..NumPart(clean)) :
                 IsTypeOrder(clean, order) /\ store' = GCSorted(clean, order)
      <4>1. Tidied(store', clean)
        BY <2>2, <3>2, SortTidies DEF TableSound
      <4>2. TableSound(store')
        BY <2>2, <4>1, TableTidied
      <4>3. Cardinality(1..NumPart(clean)) = NumPart(clean)
        BY <2>2, FS_Interval, SMTT(30)
      <4>. QED BY <2>2, <4>1, <4>2, <4>3 DEF Tidied
    <3>. QED BY <1>6, <3>1, <3>2 DEF clean
  <2>5. ListInv'
    BY <1>1, <1>6, <2>3, <2>4 DEF ListInv
  <2>6. AccelInv' /\ phase' \in Steps /\ phase' \notin MidStep
    BY <1>1 DEF AccelInv, Steps, MidStep
  <2>7. numActive' \in Nat
    BY <2>2, <2>3
  <2>. QED BY <1>1, <1>2, <1>4, <2>4, <2>5, <2>6, <2>7, QuietInv
<1>. QED BY <1>1, <1>5, <1>6

\* The end of a step frees the list and the accelerations.
LEMMA TimestepsInv == StepInv /\ Timesteps => StepInv'
<1>. SUFFICES ASSUME StepInv, Timesteps PROVE StepInv'
  OBVIOUS
<1>1. /\ phase = "timesteps" /\ phase' = "begin"
      /\ active' = <<>> /\ numActive' = 0 /\ maxActive' = 0 /\ allocated' = 0
      /\ UNCHANGED <<is_PM, store, newStars>>
  BY DEF Timesteps
<1>2. newStars = {} /\ newStars' = {}
  BY <1>1, NoneWaits
<1>3. TableSound(store')
  BY <1>1, <1>2, QuietFacts
<1>4. ListInv' /\ AccelInv' /\ phase' \in Steps /\ phase' \notin MidStep
  BY <1>1 DEF ListInv, AccelInv, Steps, MidStep
<1>5. is_PM' \in BOOLEAN /\ active' \in Seq(Nat)
  BY <1>1 DEF StepInv, FullTypeOK
<1>. QED BY <1>1, <1>2, <1>3, <1>4, <1>5, QuietInv

\* A step that changes nothing.
LEMMA StutterInv == StepInv /\ UNCHANGED stepVars => StepInv'
<1>. SUFFICES ASSUME StepInv, UNCHANGED stepVars PROVE StepInv'
  OBVIOUS
<1>1. /\ phase' = phase /\ is_PM' = is_PM /\ store' = store /\ active' = active
      /\ numActive' = numActive /\ maxActive' = maxActive /\ allocated' = allocated
      /\ accel' = accel /\ newStars' = newStars
  BY DEF stepVars, lists
<1>2. Kids' = Kids /\ AtStart' = AtStart
  BY <1>1 DEF Kids, AtStart
<1>3. FullTypeOK'
  BY <1>1 DEF StepInv, FullTypeOK
<1>4. SlotInv' /\ IDInv'
  BY <1>1, <1>2 DEF StepInv, SlotInv, IDInv
<1>5. StarsInv'
  BY <1>1, <1>2 DEF StepInv, StarsInv
<1>6. ListInv' /\ AccelInv'
  BY <1>1, <1>2 DEF StepInv, ListInv, AccelInv
<1>. QED BY <1>3, <1>4, <1>5, <1>6 DEF StepInv

----------------------------------------------------------------------------
(* The step that forms stars.                                              *)

\* A gas particle of the active list is one of the start of the step.
LEMMA ActiveGasIsOld ==
  ASSUME StepInv, phase = "sfr", NEW i \in ActiveGas
  PROVE  i \in LiveIndices(store) \ Kids /\ store.P[i].Type = Gas
<1>1. i \in LiveIndices(store) /\ store.P[i].Type = Gas /\ IsActiveIndex(i)
  BY DEF ActiveGas, Active
<1>2. /\ AtStart \in 0..NumPart(store) /\ Kids = (AtStart + 1)..NumPart(store)
      /\ ~is_PM => /\ Len(active) = numActive
                   /\ \A n \in 1..numActive : active[n] \in 1..NumPart(store) /\ active[n] <= AtStart
      /\ active \in Seq(Nat) /\ numActive \in Nat /\ is_PM \in BOOLEAN
  BY DEF StepInv, StarsInv, ListInv, FullTypeOK, MidStep
<1>3. i \in 1..NumPart(store)
  BY <1>1 DEF LiveIndices
<1>4. i <= AtStart
  <2>1. CASE is_PM
    BY <1>1, <2>1 DEF IsActiveIndex, AtStart
  <2>2. CASE ~is_PM
    <3>1. PICK n \in 1..numActive : active[n] = i
      BY <1>1, <1>2, <2>2 DEF IsActiveIndex, ToSet
    <3>. QED BY <1>2, <2>2, <3>1
  <2>. QED BY <2>1, <2>2
<1>. HIDE DEF AtStart
<1>5. i \notin Kids
  BY <1>2, <1>3, <1>4
<1>. QED BY <1>1, <1>5

\* A gas particle that has not spawned more than its share has an ID left for
\* what is split off.
LEMMA SplitIDs ==
  ASSUME NEW s, NEW c, NEW K, IDSound(s, K), NEW i \in LiveIndices(s) \ K,
         s.P[i].Type = Gas, s.P[i].Generation <= Generations,
         \A j \in LiveIndices(s) : s.P[j].Generation \in Nat,
         NEW m, m \notin LiveIndices(s), LiveIndices(c) = LiveIndices(s) \cup {m},
         \A j \in LiveIndices(s) :
           /\ c.P[j].ID = s.P[j].ID /\ c.P[j].Type = s.P[j].Type
           /\ c.P[j].Generation = IF j = i THEN s.P[i].Generation + 1 ELSE s.P[j].Generation,
         c.P[m].ID = <<s.P[i].ID[1], s.P[i].Generation + 1>>
  PROVE  IDSound(c, K \cup {m})
<1>. DEFINE g == s.P[i].Generation
<1>1. g \in Nat /\ g <= Generations /\ Generations \in Nat
  BY StepConstants
<1>2. /\ s.P[i].ID[2] = 0
      /\ \A j \in LiveIndices(s) : j # i /\ s.P[j].ID[1] = s.P[i].ID[1] =>
           s.P[j].ID[2] \in 1..g
  BY DEF IDSound
<1>3. c.P[m].ID[1] = s.P[i].ID[1] /\ c.P[m].ID[2] = g + 1
  OBVIOUS
<1>. HIDE DEF g
<1>4. ASSUME NEW j \in LiveIndices(s) PROVE c.P[j].ID # c.P[m].ID
  <2>. SUFFICES ASSUME c.P[j].ID[1] = c.P[m].ID[1], c.P[j].ID[2] = c.P[m].ID[2] PROVE FALSE
    OBVIOUS
  <2>1. s.P[j].ID[1] = s.P[i].ID[1] /\ s.P[j].ID[2] = g + 1
    BY <1>3
  <2>2. g + 1 # 0 /\ g + 1 \notin 1..g
    BY <1>1
  <2>. QED BY <1>2, <2>1, <2>2
<1>5. IDsUnique(c)
  <2>. SUFFICES ASSUME NEW j \in LiveIndices(c), NEW k \in LiveIndices(c), c.P[j].ID = c.P[k].ID
                PROVE  j = k
    BY DEF IDsUnique
  <2>1. CASE j \in LiveIndices(s) /\ k \in LiveIndices(s)
    BY <2>1 DEF IDSound, IDsUnique
  <2>2. CASE j = m \/ k = m
    BY <1>4, <2>2
  <2>. QED BY <2>1, <2>2
<1>6. ASSUME NEW k \in LiveIndices(c) \ (K \cup {m}), c.P[k].Type = Gas
      PROVE  /\ c.P[k].ID[2] = 0 /\ c.P[k].Generation <= Generations + 1
             /\ \A j \in LiveIndices(c) : j # k /\ c.P[j].ID[1] = c.P[k].ID[1] =>
                  c.P[j].ID[2] \in 1..c.P[k].Generation
  <2>1. k \in LiveIndices(s) \ K /\ s.P[k].Type = Gas /\ c.P[k].ID = s.P[k].ID
    BY <1>6
  <2>2. /\ s.P[k].ID[2] = 0 /\ s.P[k].Generation <= Generations + 1
        /\ \A j \in LiveIndices(s) : j # k /\ s.P[j].ID[1] = s.P[k].ID[1] =>
             s.P[j].ID[2] \in 1..s.P[k].Generation
    BY <2>1 DEF IDSound
  <2>3. /\ s.P[k].Generation \in Nat /\ c.P[k].Generation \in Nat
        /\ s.P[k].Generation <= c.P[k].Generation /\ c.P[k].Generation <= Generations + 1
        /\ k = i => c.P[k].Generation = g + 1
    <3>1. CASE k = i
      BY <1>1, <3>1 DEF g
    <3>2. CASE k # i
      BY <2>1, <2>2, <3>2
    <3>. QED BY <3>1, <3>2
  <2>4. ASSUME NEW j \in LiveIndices(c), j # k, c.P[j].ID[1] = c.P[k].ID[1]
        PROVE  c.P[j].ID[2] \in 1..c.P[k].Generation
    <3>1. CASE j \in LiveIndices(s)
      <4>1. s.P[j].ID[2] \in 1..s.P[k].Generation /\ c.P[j].ID = s.P[j].ID
        BY <2>1, <2>2, <2>4, <3>1
      <4>. QED BY <2>3, <4>1
    <3>2. CASE j = m
      <4>1. s.P[k].ID[1] = s.P[i].ID[1]
        BY <1>3, <2>1, <2>4, <3>2
      <4>2. k = i
        <5>1. 0 \notin 1..g
          BY <1>1
        <5>. QED BY <1>2, <2>1, <2>2, <4>1, <5>1
      <4>. QED BY <1>1, <1>3, <2>3, <3>2, <4>2
    <3>. QED BY <3>1, <3>2
  <2>. QED BY <2>1, <2>2, <2>3, <2>4
<1>. QED BY <1>5, <1>6 DEF IDSound

\* A gas particle is marked to turn into a star, or a new one is split off.
LEMMA FormStarInv == StepInv /\ FormStar => StepInv'
<1>. SUFFICES ASSUME StepInv, FormStar PROVE StepInv'
  OBVIOUS
<1>1. PICK i \in ActiveGas :
        /\ \A pair \in newStars : pair[2] # i
        /\ \/ newStars' = newStars \cup {<<i, i>>} /\ UNCHANGED <<phase, store>>
           \/ /\ MaySpawn(i)
              /\ IF TableFull(store)
                 THEN phase' = "no_particle_space" /\ UNCHANGED <<store, newStars>>
                 ELSE /\ store' = Split(store, i)
                      /\ newStars' = newStars \cup {<<NumPart(store) + 1, i>>}
                      /\ UNCHANGED phase
  BY DEF FormStar
<1>. DEFINE N == NumPart(store)
            L == LiveIndices(store)
<1>2. /\ phase = "sfr" /\ is_PM' = is_PM /\ active' = active /\ numActive' = numActive
      /\ maxActive' = maxActive /\ allocated' = allocated /\ accel' = accel
  BY DEF FormStar, lists
<1>3. i \in L \ Kids /\ store.P[i].Type = Gas
  BY <1>2, ActiveGasIsOld
<1>4. /\ FullTypeOK /\ store \in Store /\ N <= MaxPart
      /\ newStars \in SUBSET ((1..N) \X (1..N))
      /\ MatchIn(store, L \ Kids) /\ OrphansMarked(store) /\ IDSound(store, Kids)
      /\ \A c \in newStars : /\ c[2] \in L \ Kids /\ store.P[c[2]].Type = Gas
                             /\ c[1] # c[2] => /\ c[1] \in L /\ store.P[c[1]].Type = Gas
                                               /\ store.P[c[1]].PI = NoSlot
      /\ \A c, d \in newStars : c[1] = d[1] \/ c[2] = d[2] => c = d
      /\ AtStart \in 0..N /\ Kids = (AtStart + 1)..N
  BY <1>2 DEF StepInv, FullTypeOK, SlotInv, StarsInv, IDInv, MidStep
<1>5. /\ N \in Nat /\ L \in SUBSET (1..N) /\ \A j \in 1..N : store.P[j] \in Particle
      /\ i \in 1..N /\ MaxPart \in Nat
  BY <1>3, <1>4, StoreParts, StepConstants
<1>6. AtStart' = AtStart
  BY <1>2 DEF AtStart
<1>7. \A c \in newStars : c[1] # i /\ c[2] # i
  <2>. SUFFICES ASSUME NEW c \in newStars PROVE c[1] # i
    BY <1>1
  <2>1. CASE c[1] = c[2]
    BY <1>1, <2>1
  <2>2. CASE c[1] # c[2]
    <3>1. c[1] \in Kids
      BY <2>2 DEF Kids
    <3>. QED BY <1>3, <3>1
  <2>. QED BY <2>1, <2>2
<1>8. /\ ~is_PM => /\ Len(active) = numActive
                   /\ \A n \in 1..numActive : active[n] \in 1..N /\ active[n] <= AtStart
                   /\ \A m, n \in 1..numActive : active[m] = active[n] => m = n
      /\ DOMAIN accel = 1..(AtStart + Size(store, Gas))
  BY <1>2 DEF StepInv, ListInv, AccelInv, MidStep
<1>. HIDE DEF AtStart
<1>9. CASE newStars' = newStars \cup {<<i, i>>} /\ UNCHANGED <<phase, store>>
  <2>1. Kids' = Kids
    BY <1>9 DEF Kids
  <2>2. FullTypeOK'
    <3>1. <<i, i>> \in (1..N) \X (1..N)
      BY <1>5
    <3>2. newStars' \in SUBSET ((1..N) \X (1..N))
      BY <1>4, <1>9, <3>1
    <3>. QED BY <1>2, <1>4, <1>9, <3>2 DEF FullTypeOK
  <2>3. SlotInv' /\ IDInv'
    BY <1>4, <1>9, <2>1 DEF SlotInv, IDInv
  <2>4. StarsInv'
    <3>1. \A c, d \in newStars' : c[1] = d[1] \/ c[2] = d[2] => c = d
      BY <1>4, <1>7, <1>9
    <3>2. \A c \in newStars' : /\ c[2] \in L \ Kids /\ store.P[c[2]].Type = Gas
                               /\ c[1] # c[2] => /\ c[1] \in L /\ store.P[c[1]].Type = Gas
                                                 /\ store.P[c[1]].PI = NoSlot
      BY <1>3, <1>4, <1>9
    <3>. QED BY <1>2, <1>4, <1>6, <1>9, <2>1, <3>1, <3>2 DEF StarsInv
  <2>5. ListInv'
    BY <1>2, <1>6, <1>8, <1>9 DEF ListInv
  <2>6. AccelInv'
    BY <1>2, <1>6, <1>8, <1>9 DEF AccelInv
  <2>. QED BY <2>2, <2>3, <2>4, <2>5, <2>6 DEF StepInv
<1>10. CASE phase' = "no_particle_space" /\ UNCHANGED <<store, newStars>>
  <2>1. Kids' = Kids
    BY <1>10 DEF Kids
  <2>2. FullTypeOK'
    BY <1>2, <1>4, <1>10 DEF FullTypeOK
  <2>3. SlotInv' /\ IDInv'
    BY <1>4, <1>10, <2>1 DEF SlotInv, IDInv
  <2>4. StarsInv'
    BY <1>4, <1>6, <1>10, <2>1 DEF StarsInv
  <2>5. ListInv'
    BY <1>2, <1>6, <1>8, <1>10 DEF ListInv
  <2>6. AccelInv'
    BY <1>2, <1>6, <1>8, <1>10 DEF AccelInv
  <2>. QED BY <2>2, <2>3, <2>4, <2>5, <2>6 DEF StepInv
<1>11. CASE /\ MaySpawn(i) /\ ~TableFull(store) /\ store' = Split(store, i)
            /\ newStars' = newStars \cup {<<N + 1, i>>} /\ UNCHANGED phase
  <2>. DEFINE g == (store.P[i].Generation + 1) % GenWrap
  <2>1. /\ store.P[i].Generation \in Nat /\ store.P[i].Generation <= Generations
        /\ g = store.P[i].Generation + 1 /\ g < GenWrap
    <3>1. store.P[i].Generation \in Nat /\ store.P[i].Generation <= Generations
      BY <1>5, <1>11 DEF MaySpawn, Particle
    <3>2. store.P[i].Generation + 1 \in Nat /\ store.P[i].Generation + 1 < GenWrap /\ GenWrap \in Nat
      BY <3>1, StepConstants
    <3>. DEFINE x == store.P[i].Generation + 1
    <3>. HIDE DEF x
    <3>3. x \in Nat /\ x < GenWrap /\ GenWrap \in Nat
      BY <3>2 DEF x
    <3>4. x % GenWrap = x
      BY <3>3, Z3
    <3>. QED BY <3>1, <3>2, <3>4 DEF x
  <2>2. /\ store' \in Store /\ NumPart(store') = N + 1 /\ store'.maxsize = store.maxsize
        /\ \A t \in SlotTypes : Size(store', t) = Size(store, t)
        /\ LiveIndices(store') = L \cup {N + 1}
        /\ \A j \in 1..N : /\ store'.P[j].ID = store.P[j].ID /\ store'.P[j].Type = store.P[j].Type
                           /\ store'.P[j].IsGarbage = store.P[j].IsGarbage
                           /\ store'.P[j].PI = store.P[j].PI
                           /\ store'.P[j].Generation = IF j = i THEN g ELSE store.P[j].Generation
        /\ store'.P[N + 1].ID = <<store.P[i].ID[1], g>> /\ store'.P[N + 1].Type = store.P[i].Type
        /\ store'.P[N + 1].PI = NoSlot /\ store'.P[N + 1].Generation = g
        /\ MatchIn(store', L \ Kids) /\ OrphansMarked(store')
    <3>1. i \in L /\ L \ Kids \in SUBSET L
      BY <1>3
    <3>. QED BY <1>4, <1>11, <3>1, SplitKeeps
  <2>. HIDE DEF g, N, L
  <2>3. N + 1 \notin 1..N /\ N + 1 \in Nat /\ N + 1 <= MaxPart /\ \A j \in 1..N : j \in 1..(N + 1) /\ j # N + 1
    <3>1. ~(N >= MaxPart)
      BY <1>11 DEF TableFull, N
    <3>. QED BY <1>5, <3>1
  <2>4. Kids' = Kids \cup {N + 1}
    <3>1. N + 1 # i
      BY <1>5, <2>3
    <3>2. Kids' = {c[1] : c \in {d \in newStars \cup {<<N + 1, i>>} : d[1] # d[2]}}
      BY <1>11 DEF Kids
    <3>. DEFINE x == <<N + 1, i>>
    <3>3. x[1] = N + 1 /\ x[1] # x[2]
      BY <3>1
    <3>. HIDE DEF x
    <3>4. {d \in newStars \cup {x} : d[1] # d[2]} = {d \in newStars : d[1] # d[2]} \cup {x}
      BY <3>3
    <3>5. Kids' = {c[1] : c \in {d \in newStars : d[1] # d[2]} \cup {x}}
      BY <3>2, <3>4 DEF x
    <3>. QED BY <3>3, <3>5 DEF Kids
  <2>5. LiveIndices(store') \ Kids' = L \ Kids
    BY <1>5, <2>2, <2>3, <2>4
  <2>6. FullTypeOK'
    <3>1. \A t \in SlotTypes : Size(store', t) <= store'.maxsize[t]
      BY <1>4, <2>2 DEF FullTypeOK
    <3>2. \A j \in 1..(N + 1) : store'.P[j].Generation < GenWrap
      <4>1. \A j \in 1..N : store.P[j].Generation < GenWrap
        BY <1>4 DEF FullTypeOK, N
      <4>2. \A j \in 1..(N + 1) : j \in 1..N \/ j = N + 1
        BY <1>5
      <4>. QED BY <2>1, <2>2, <4>1, <4>2
    <3>3. newStars' \in SUBSET ((1..(N + 1)) \X (1..(N + 1)))
      <4>1. N + 1 \in 1..(N + 1) /\ i \in 1..(N + 1)
        BY <1>5, <2>3
      <4>. QED BY <1>4, <1>11, <2>3, <4>1
    <3>. QED BY <1>2, <1>4, <1>11, <2>2, <2>3, <3>1, <3>2, <3>3 DEF FullTypeOK
  <2>7. SlotInv'
    BY <2>2, <2>5 DEF SlotInv
  <2>8. IDInv'
    <3>1. \A j \in L : store.P[j].Generation \in Nat /\ j \in 1..N
      BY <1>5 DEF Particle
    <3>2. N + 1 \notin L
      BY <1>5, <2>3
    <3>3. \A j \in L :
            /\ store'.P[j].ID = store.P[j].ID /\ store'.P[j].Type = store.P[j].Type
            /\ store'.P[j].Generation =
                 IF j = i THEN store.P[i].Generation + 1 ELSE store.P[j].Generation
      BY <2>1, <2>2, <3>1
    <3>. DEFINE m == N + 1
                c == store'
                s == store
    <3>4. /\ IDSound(s, Kids) /\ i \in LiveIndices(s) \ Kids /\ s.P[i].Type = Gas
          /\ s.P[i].Generation <= Generations
          /\ \A j \in LiveIndices(s) : s.P[j].Generation \in Nat
          /\ m \notin LiveIndices(s) /\ LiveIndices(c) = LiveIndices(s) \cup {m}
          /\ \A j \in LiveIndices(s) :
               /\ c.P[j].ID = s.P[j].ID /\ c.P[j].Type = s.P[j].Type
               /\ c.P[j].Generation = IF j = i THEN s.P[i].Generation + 1 ELSE s.P[j].Generation
          /\ c.P[m].ID = <<s.P[i].ID[1], s.P[i].Generation + 1>>
      BY <1>3, <1>4, <2>1, <2>2, <3>1, <3>2, <3>3 DEF L
    <3>5. IDSound(c, Kids \cup {m})
      <4>. HIDE DEF m, c, s
      <4>. QED BY <3>4, SplitIDs
    <3>. QED BY <2>4, <3>5 DEF IDInv
  <2>9. StarsInv'
    <3>1. \A c \in newStars : c[1] \in 1..N /\ c[2] \in 1..N
      BY <1>4
    <3>2. \A c \in newStars' :
            /\ c[2] \in LiveIndices(store') \ Kids' /\ store'.P[c[2]].Type = Gas
            /\ c[1] # c[2] => /\ c[1] \in LiveIndices(store') /\ store'.P[c[1]].Type = Gas
                              /\ store'.P[c[1]].PI = NoSlot
      <4>1. ASSUME NEW c \in newStars
            PROVE  /\ c[2] \in LiveIndices(store') \ Kids' /\ store'.P[c[2]].Type = Gas
                   /\ c[1] # c[2] => /\ c[1] \in LiveIndices(store') /\ store'.P[c[1]].Type = Gas
                                     /\ store'.P[c[1]].PI = NoSlot
        BY <1>4, <2>2, <2>5, <3>1
      <4>. DEFINE x == <<N + 1, i>>
      <4>2. x[1] = N + 1 /\ x[2] = i /\ newStars' = newStars \cup {x}
        BY <1>11
      <4>. HIDE DEF x
      <4>3. /\ i \in LiveIndices(store') \ Kids' /\ store'.P[i].Type = Gas
            /\ N + 1 \in LiveIndices(store') /\ store'.P[N + 1].Type = Gas
            /\ store'.P[N + 1].PI = NoSlot
        BY <1>3, <1>5, <2>2, <2>5
      <4>. QED BY <4>1, <4>2, <4>3
    <3>3. \A c, d \in newStars' : c[1] = d[1] \/ c[2] = d[2] => c = d
      <4>. DEFINE x == <<N + 1, i>>
      <4>1. x[1] = N + 1 /\ x[2] = i /\ newStars' = newStars \cup {x}
        BY <1>11
      <4>. HIDE DEF x
      <4>2. \A c \in newStars : c[1] # x[1] /\ c[2] # x[2]
        BY <1>7, <2>3, <3>1, <4>1
      <4>. QED BY <1>4, <4>1, <4>2
    <3>4. AtStart' \in 0..(N + 1) /\ Kids' = (AtStart' + 1)..(N + 1)
      <4>1. AtStart \in 0..N /\ Kids = (AtStart + 1)..N
        BY <1>4
      <4>2. AtStart \in 0..(N + 1) /\ (AtStart + 1)..(N + 1) = ((AtStart + 1)..N) \cup {N + 1}
        BY <1>5, <4>1
      <4>. QED BY <1>6, <2>4, <4>1, <4>2
    <3>. QED BY <1>2, <1>11, <2>2, <3>2, <3>3, <3>4 DEF StarsInv
  <2>10. ListInv'
    <3>1. ~is_PM => \A n \in 1..numActive : active[n] \in 1..(N + 1) /\ active[n] <= AtStart
      BY <1>8, <2>3
    <3>. QED BY <1>2, <1>6, <1>8, <1>11, <2>2, <3>1 DEF ListInv
  <2>11. AccelInv'
    BY <1>2, <1>6, <1>8, <1>11, <2>2, StepConstants DEF AccelInv
  <2>. QED BY <2>6, <2>7, <2>8, <2>9, <2>10, <2>11 DEF StepInv
<1>. QED BY <1>1, <1>9, <1>10, <1>11

\* The new stars: each is a particle of its own in the table, and for each one
\* that is split off there was a particle with a gas slot at the start of the
\* step.
LEMMA NewStarsFacts ==
  ASSUME StepInv, phase = "sfr"
  PROVE  /\ IsFiniteSet(newStars)
         /\ \A c \in newStars :
              /\ c[1] \in LiveIndices(store) /\ c[2] \in LiveIndices(store) \ Kids
              /\ store.P[c[2]].PI \in 1..Size(store, Gas)
              /\ c[1] # c[2] => c[1] \in Kids
         /\ \A k \in Kids : \E c \in newStars : c[1] = k /\ c[1] # c[2]
         /\ \A c, d \in newStars : c[1] = d[1] => c = d
         /\ \A c, d \in newStars : store.P[c[2]].PI = store.P[d[2]].PI => c = d
<1>. DEFINE N == NumPart(store)
<1>1. /\ store \in Store
      /\ newStars \in SUBSET ((1..N) \X (1..N))
      /\ MatchIn(store, LiveIndices(store) \ Kids)
      /\ \A c \in newStars : /\ c[2] \in LiveIndices(store) \ Kids /\ store.P[c[2]].Type = Gas
                             /\ c[1] # c[2] => c[1] \in LiveIndices(store)
      /\ \A c, d \in newStars : c[1] = d[1] \/ c[2] = d[2] => c = d
  BY DEF StepInv, FullTypeOK, SlotInv, StarsInv
<1>2. N \in Nat
  BY <1>1, StoreParts
<1>3. IsFiniteSet(newStars)
  <2>. HIDE DEF N
  <2>1. IsFiniteSet(1..N)
    BY <1>2, FS_Interval
  <2>2. IsFiniteSet((1..N) \X (1..N))
    BY <2>1, FS_Product
  <2>. QED BY <1>1, <2>2, FS_Subset
<1>4. \A c \in newStars : c[1] # c[2] => c[1] \in Kids
  BY DEF Kids
<1>5. \A k \in Kids : \E c \in newStars : c[1] = k /\ c[1] # c[2]
  BY DEF Kids
<1>6. \A c \in newStars : c[1] \in LiveIndices(store)
  BY <1>1
<1>7. \A c \in newStars : store.P[c[2]].PI \in 1..Size(store, Gas)
  BY <1>1, StepConstants DEF MatchIn, OwnsSlot, HasSlot
<1>8. \A c, d \in newStars : store.P[c[2]].PI = store.P[d[2]].PI => c = d
  <2>. SUFFICES ASSUME NEW c \in newStars, NEW d \in newStars,
                       store.P[c[2]].PI = store.P[d[2]].PI
                PROVE  c[2] = d[2]
    BY <1>1
  <2>. QED BY <1>1, StepConstants DEF MatchIn, HasSlot
<1>. QED BY <1>1, <1>3, <1>4, <1>5, <1>6, <1>7, <1>8

\* Those that were split off, in the order of a queue.  They are as many as the
\* particles behind those of the start of the step, and no more than there are
\* slots for gas.
LEMMA SpawnedFacts ==
  ASSUME StepInv, phase = "sfr", NEW queue \in SetToSeqs(newStars)
  PROVE  LET children == Spawned(queue)
             n == Len(children) IN
         /\ n \in Nat /\ n = NumPart(store) - AtStart /\ n <= Size(store, Gas)
         /\ \A j \in 1..n : children[j][1] \in Kids
         /\ \A j, k \in 1..n : children[j][1] = children[k][1] => j = k
         /\ ToSet(children) = {children[j] : j \in 1..n}
<1>. DEFINE S == {k \in DOMAIN queue : queue[k][1] # queue[k][2]}
            children == Spawned(queue)
            N == NumPart(store)
            m == Size(store, Gas)
<1>1. /\ IsFiniteSet(newStars)
      /\ \A c \in newStars : /\ c[1] # c[2] => c[1] \in Kids
                             /\ store.P[c[2]].PI \in 1..m
      /\ \A k \in Kids : \E c \in newStars : c[1] = k /\ c[1] # c[2]
      /\ \A c, d \in newStars : c[1] = d[1] => c = d
      /\ \A c, d \in newStars : store.P[c[2]].PI = store.P[d[2]].PI => c = d
  BY NewStarsFacts
<1>2. /\ queue \in Seq(newStars) /\ Len(queue) \in Nat /\ ToSet(queue) = newStars
      /\ \A j, k \in 1..Len(queue) : queue[j] = queue[k] => j = k
  BY <1>1, QueueOf
<1>3. /\ S \in SUBSET (1..Len(queue))
      /\ \A k \in S : queue[k] \in newStars /\ queue[k][1] # queue[k][2]
      /\ children = SelectAt(queue, S)
  BY <1>2 DEF Spawned
<1>4. N \in Nat /\ m \in Nat /\ AtStart \in 0..N /\ Kids = (AtStart + 1)..N
  <2>1. store \in Store /\ AtStart \in 0..N /\ Kids = (AtStart + 1)..N
    BY DEF StepInv, FullTypeOK, StarsInv, MidStep
  <2>. QED BY <2>1, StoreParts, StepConstants
<1>5. \A k \in Kids : \E j \in S : queue[j][1] = k
  <2>. SUFFICES ASSUME NEW k \in Kids PROVE \E j \in S : queue[j][1] = k
    OBVIOUS
  <2>1. PICK c \in newStars : c[1] = k /\ c[1] # c[2]
    BY <1>1
  <2>2. PICK j \in DOMAIN queue : queue[j] = c
    BY <1>2 DEF ToSet
  <2>. QED BY <2>1, <2>2
<1>. HIDE DEF S, children, N, m, AtStart
<1>6. /\ IsFiniteSet(S) /\ Cardinality(S) \in Nat
      /\ children \in Seq(newStars) /\ Len(children) = Cardinality(S)
      /\ InOrder(S) \in [1..Cardinality(S) -> S]
      /\ \A k \in 1..Cardinality(S) : /\ children[k] = queue[InOrder(S)[k]]
                                      /\ CountTo(S, InOrder(S)[k]) = k
  <2>. DEFINE w == SelectAt(queue, S)
  <2>1. /\ IsFiniteSet(S) /\ Cardinality(S) \in Nat
        /\ w \in Seq(newStars) /\ Len(w) = Cardinality(S)
        /\ InOrder(S) \in [1..Cardinality(S) -> S]
        /\ \A k \in 1..Cardinality(S) : w[k] = queue[InOrder(S)[k]] /\ CountTo(S, InOrder(S)[k]) = k
    BY <1>2, <1>3, SelectAtProperties
  <2>2. children = w
    BY <1>3
  <2>. HIDE DEF w
  <2>. QED BY <2>1, <2>2
<1>7. Cardinality(S) = N - AtStart
  <2>. DEFINE f == [k \in S |-> queue[k][1]]
  <2>1. f \in [S -> Kids]
    BY <1>1, <1>3
  <2>2. \A j, k \in S : f[j] = f[k] => j = k
    BY <1>1, <1>2, <1>3
  <2>3. \A k \in Kids : \E j \in S : f[j] = k
    BY <1>5
  <2>. HIDE DEF f
  <2>4. f \in Injection(S, Kids) /\ f \in Surjection(S, Kids)
    BY <2>1, <2>2, <2>3 DEF Injection, IsInjective, Surjection
  <2>5. IsFiniteSet(Kids) /\ Cardinality(Kids) = N - AtStart
    <3>1. AtStart + 1 \in Int /\ N \in Int /\ AtStart \in Int /\ AtStart <= N
      BY <1>4
    <3>2. /\ IsFiniteSet((AtStart + 1)..N)
          /\ Cardinality((AtStart + 1)..N) = IF AtStart + 1 > N THEN 0 ELSE N - (AtStart + 1) + 1
      BY <3>1, FS_Interval, SMTT(30)
    <3>. QED BY <1>4, <3>1, <3>2
  <2>. QED BY <2>4, <2>5, FS_Injection
<1>8. Cardinality(S) <= m
  <2>. DEFINE f == [k \in S |-> store.P[queue[k][2]].PI]
  <2>1. f \in [S -> 1..m]
    BY <1>1, <1>3
  <2>2. \A j, k \in S : f[j] = f[k] => j = k
    BY <1>1, <1>2, <1>3
  <2>. HIDE DEF f
  <2>3. f \in Injection(S, 1..m)
    BY <2>1, <2>2 DEF Injection, IsInjective
  <2>4. IsFiniteSet(1..m) /\ Cardinality(1..m) = m
    BY <1>4, FS_Interval, SMTT(30)
  <2>5. Cardinality(S) <= Cardinality(1..m)
    BY <2>3, <2>4, FS_Injection
  <2>. QED BY <2>4, <2>5
<1>. DEFINE n == Len(children)
<1>9. \A j \in 1..n : /\ InOrder(S)[j] \in S
                      /\ children[j] = queue[InOrder(S)[j]] /\ children[j] \in newStars
                      /\ children[j][1] # children[j][2]
  <2>. SUFFICES ASSUME NEW j \in 1..n
                PROVE  /\ InOrder(S)[j] \in S
                       /\ children[j] = queue[InOrder(S)[j]] /\ children[j] \in newStars
                       /\ children[j][1] # children[j][2]
    OBVIOUS
  <2>. DEFINE x == InOrder(S)[j]
  <2>1. x \in S /\ children[j] = queue[x]
    BY <1>6
  <2>. HIDE DEF x
  <2>2. children[j] \in newStars /\ children[j][1] # children[j][2]
    BY <1>3, <2>1
  <2>. QED BY <2>1, <2>2 DEF x
<1>10. \A j, k \in 1..n : children[j][1] = children[k][1] => j = k
  <2>. SUFFICES ASSUME NEW j \in 1..n, NEW k \in 1..n, children[j][1] = children[k][1] PROVE j = k
    OBVIOUS
  <2>1. queue[InOrder(S)[j]] = queue[InOrder(S)[k]]
    BY <1>1, <1>9
  <2>2. InOrder(S)[j] = InOrder(S)[k]
    BY <1>2, <1>3, <1>9, <2>1
  <2>. QED BY <1>6, <2>2
<1>11. ToSet(children) = {children[j] : j \in 1..n}
  BY <1>6 DEF ToSet
<1>12. \A j \in 1..n : children[j][1] \in Kids
  BY <1>1, <1>9
<1>. QED BY <1>6, <1>7, <1>8, <1>10, <1>11, <1>12 DEF children, N, m

\* sfr_reserve_slots leaves room for every new star.
LEMMA RoomForStarsFacts ==
  ASSUME StepInv, NEW n \in Nat
  PROVE  LET r == RoomForStars(n) IN
         /\ r \in Store /\ r.P = store.P /\ r.slot = store.slot
         /\ NumPart(r) = NumPart(store) /\ LiveIndices(r) = LiveIndices(store)
         /\ \A t \in SlotTypes : Size(r, t) = Size(store, t) /\ Size(store, t) <= r.maxsize[t]
         /\ Size(store, Star) + n <= r.maxsize[Star]
         /\ MatchIn(r, LiveIndices(store) \ Kids) /\ OrphansMarked(r)
<1>. DEFINE r == RoomForStars(n)
<1>1. /\ store \in Store /\ MatchIn(store, LiveIndices(store) \ Kids) /\ OrphansMarked(store)
      /\ \A t \in SlotTypes : Size(store, t) <= store.maxsize[t]
  BY DEF StepInv, FullTypeOK, SlotInv
<1>2. /\ store.maxsize \in [SlotTypes -> Nat]
      /\ \A t \in SlotTypes : Size(store, t) \in Nat /\ store.maxsize[t] \in Nat
      /\ Size(store, Star) \in Nat /\ store.maxsize[Star] \in Nat
      /\ Size(store, Star) <= store.maxsize[Star]
  BY <1>1, StoreParts, StepConstants
<1>3. /\ r \in Store /\ r.P = store.P /\ r.slot = store.slot
      /\ NumPart(r) = NumPart(store) /\ LiveIndices(r) = LiveIndices(store)
      /\ \A t \in SlotTypes : Size(r, t) = Size(store, t) /\ store.maxsize[t] <= r.maxsize[t]
      /\ Size(store, Star) + n <= r.maxsize[Star]
      /\ OrphansMarked(r)
  <2>1. CASE StarSlotsShort(n)
    <3>. DEFINE a == [store.maxsize EXCEPT ![Star] = @ + n]
    <3>1. r = Reserve(store, a)
      BY <2>1 DEF RoomForStars
    <3>2. a \in [SlotTypes -> Nat] /\ a[Star] = store.maxsize[Star] + n
      <4>1. store.maxsize[Star] + n \in Nat
        BY <1>2
      <4>2. Star \in SlotTypes
        BY StepConstants
      <4>. QED BY <1>2, <4>1, <4>2
    <3>. HIDE DEF a, r
    <3>3. /\ r \in Store /\ r.P = store.P /\ r.slot = store.slot
          /\ NumPart(r) = NumPart(store) /\ LiveIndices(r) = LiveIndices(store)
          /\ \A t \in SlotTypes : /\ Size(r, t) = Size(store, t)
                                  /\ a[t] <= r.maxsize[t] /\ store.maxsize[t] <= r.maxsize[t]
          /\ OrphansMarked(r)
      BY <1>1, <3>1, <3>2, ReserveKeeps
    <3>4. a[Star] <= r.maxsize[Star] /\ r.maxsize[Star] \in Nat
      BY <3>3, StepConstants, StoreParts
    <3>5. Size(store, Star) + n <= r.maxsize[Star]
      BY <1>2, <3>2, <3>4
    <3>. QED BY <3>3, <3>5
  <2>2. CASE ~StarSlotsShort(n)
    <3>1. r = store
      BY <2>2 DEF RoomForStars
    <3>2. Size(store, Star) + n <= store.maxsize[Star]
      BY <1>2, <2>2 DEF StarSlotsShort
    <3>. HIDE DEF r
    <3>. QED BY <1>1, <1>2, <3>1, <3>2
  <2>. QED BY <2>1, <2>2
<1>. HIDE DEF r
<1>4. MatchIn(r, LiveIndices(store) \ Kids)
  <2>1. \A i : OwnsSlot(r, i) = OwnsSlot(store, i)
    BY <1>3 DEF OwnsSlot, Size
  <2>. QED BY <1>1, <1>3, <2>1 DEF MatchIn
<1>5. \A t \in SlotTypes : Size(store, t) <= r.maxsize[t]
  <2>. SUFFICES ASSUME NEW t \in SlotTypes PROVE Size(store, t) <= r.maxsize[t]
    OBVIOUS
  <2>1. r.maxsize[t] \in Nat
    BY <1>3, StoreParts
  <2>. QED BY <1>1, <1>2, <1>3, <2>1
<1>. QED BY <1>3, <1>4, <1>5 DEF r

\* make_particle_star gives each new star its slot.
LEMMA StarsConverted ==
  ASSUME StepInv, phase = "sfr", NEW queue \in SetToSeqs(newStars)
  PROVE  LET n == Len(queue)
             c == Convert(RoomForStars(n), [k \in DOMAIN queue |-> queue[k][1]], Star) IN
         /\ n \in Nat /\ TableSound(c) /\ NumPart(c) = NumPart(store)
         /\ Size(store, Star) + n <= c.maxsize[Star] /\ c.maxsize[Star] \in Nat
<1>. DEFINE n == Len(queue)
            q == [k \in DOMAIN queue |-> queue[k][1]]
            r == RoomForStars(n)
            c == Convert(r, q, Star)
            L == LiveIndices(store)
<1>1. /\ IsFiniteSet(newStars)
      /\ \A d \in newStars : d[1] \in L
      /\ \A k \in Kids : \E d \in newStars : d[1] = k
      /\ \A d, e \in newStars : d[1] = e[1] => d = e
  BY NewStarsFacts
<1>2. /\ queue \in Seq(newStars) /\ n \in Nat /\ ToSet(queue) = newStars
      /\ \A j, k \in 1..n : queue[j] = queue[k] => j = k
      /\ \A j \in 1..n : queue[j] \in newStars
  BY <1>1, QueueOf
<1>. HIDE DEF L
<1>3. /\ q \in Seq(L) /\ Len(q) = n
      /\ \A j, k \in 1..n : q[j] = q[k] => j = k
  <2>1. q \in [1..n -> L] /\ \A j \in 1..n : q[j] = queue[j][1]
    BY <1>1, <1>2
  <2>. HIDE DEF q, n
  <2>. QED BY <1>1, <1>2, <2>1
<1>4. Kids \in SUBSET ToSet(q)
  <2>. SUFFICES ASSUME NEW k \in Kids PROVE \E j \in 1..n : q[j] = k
    BY <1>3 DEF ToSet
  <2>1. PICK d \in newStars : d[1] = k
    BY <1>1
  <2>2. PICK j \in DOMAIN queue : queue[j] = d
    BY <1>2 DEF ToSet
  <2>. QED BY <1>2, <2>1, <2>2
<1>. HIDE DEF q, n
<1>5. /\ r \in Store /\ r.P = store.P /\ NumPart(r) = NumPart(store) /\ LiveIndices(r) = L
      /\ \A t \in SlotTypes : Size(r, t) = Size(store, t) /\ Size(store, t) <= r.maxsize[t]
      /\ Size(store, Star) + n <= r.maxsize[Star]
      /\ MatchIn(r, LiveIndices(r) \ Kids) /\ OrphansMarked(r)
  BY <1>2, RoomForStarsFacts DEF L
<1>. HIDE DEF r
<1>6. /\ c \in Store /\ NumPart(c) = NumPart(r) /\ c.maxsize = r.maxsize
      /\ LiveIndices(c) = LiveIndices(r)
      /\ \A u \in SlotTypes : Size(c, u) = Size(r, u) + (IF u = Star THEN Len(q) ELSE 0)
      /\ ConvertedPart(r, q, Star, c)
      /\ SlotsMatch(c) /\ OrphansMarked(c)
  <2>. HIDE DEF c
  <2>1. c = Convert(r, q, Star) /\ Star \in SlotTypes
    BY StepConstants DEF c
  <2>2. q \in Seq(LiveIndices(r)) /\ \A j, k \in 1..Len(q) : q[j] = q[k] => j = k
    BY <1>3, <1>5
  <2>. QED BY <1>4, <1>5, <2>1, <2>2, ConvertKeeps
<1>. HIDE DEF c
<1>7. /\ store \in Store /\ NumPart(store) <= MaxPart /\ IDSound(store, Kids)
      /\ \A i \in 1..NumPart(store) : store.P[i].Generation < GenWrap
  BY DEF StepInv, FullTypeOK, IDInv
<1>8. L \in SUBSET (1..NumPart(store)) /\ \A t \in SlotTypes : Size(store, t) \in Nat
  BY <1>7, StoreParts DEF L
<1>9. ASSUME NEW u \in SlotTypes PROVE Size(c, u) <= c.maxsize[u]
  <2>1. /\ Size(store, u) \in Nat /\ r.maxsize[u] \in Nat /\ Size(store, u) <= r.maxsize[u]
        /\ Size(c, u) = Size(store, u) + (IF u = Star THEN n ELSE 0)
    BY <1>3, <1>5, <1>6, <1>8, StoreParts
  <2>. QED BY <1>2, <1>5, <1>6, <2>1
<1>10. \A i \in 1..NumPart(store) :
         /\ c.P[i].ID = store.P[i].ID /\ c.P[i].Generation = store.P[i].Generation
         /\ i \notin ToSet(q) => c.P[i] = store.P[i]
  BY <1>5, <1>6 DEF ConvertedPart
<1>11. \A i \in ToSet(q) : c.P[i].Type = Star
  <2>1. \A i \in ToSet(q) : \E k \in 1..Len(q) : q[k] = i
    BY <1>3 DEF ToSet
  <2>. QED BY <1>6, <2>1 DEF ConvertedPart
<1>12. IDSound(c, {})
  <2>. DEFINE none == {}
  <2>1. LiveIndices(c) = L
    BY <1>5, <1>6
  <2>2. \A i \in LiveIndices(c) :
          /\ c.P[i].ID = store.P[i].ID
          /\ i \notin none /\ c.P[i].Type = Gas =>
               /\ i \notin Kids /\ store.P[i].Type = Gas
               /\ c.P[i].Generation = store.P[i].Generation
    BY <1>4, <1>8, <1>10, <1>11, <2>1, StepConstants
  <2>3. LiveIndices(c) \subseteq LiveIndices(store)
    BY <2>1 DEF L
  <2>. HIDE DEF none
  <2>4. IDSound(c, none)
    BY <1>7, <2>2, <2>3, IDsStay
  <2>. QED BY <2>4 DEF none
<1>13. \A i \in 1..NumPart(c) : c.P[i].Generation < GenWrap
  BY <1>5, <1>6, <1>7, <1>10
<1>14. TableSound(c)
  BY <1>5, <1>6, <1>7, <1>9, <1>12, <1>13 DEF TableSound
<1>15. c.maxsize[Star] \in Nat
  BY <1>6, StepConstants, StoreParts
<1>. QED BY <1>2, <1>5, <1>6, <1>14, <1>15 DEF c, r, q, n

\* The new stars get their slots, accelerations and places in the list, and
\* there is room for all of them.
LEMMA MakeStarsInv == StepInv /\ MakeStars => StepInv'
<1>. SUFFICES ASSUME StepInv, MakeStars PROVE StepInv'
  OBVIOUS
<1>. DEFINE after(queue) ==
       LET children == Spawned(queue)
           grown    == numActive + Len(children)
       IN  /\ store' = Convert(RoomForStars(Len(queue)), [k \in DOMAIN queue |-> queue[k][1]], Star)
           /\ active' = IF is_PM THEN active
                        ELSE active \o [k \in 1..Len(children) |-> children[k][1]]
           /\ numActive' = grown
           /\ allocated' = IF ~is_PM /\ StarSlotsShort(Len(queue))
                           THEN numActive + MaxPart - NumPart(store) ELSE allocated
           /\ phase' = IF Size(store, Star) + Len(queue) > store'.maxsize[Star] THEN "no_slot"
                       ELSE IF ~is_PM /\ grown > maxActive THEN "no_active_space"
                       ELSE IF \E c \in ToSet(children) : c[1] \notin DOMAIN accel
                       THEN "no_accel" ELSE "output"
<1>1. phase = "sfr" /\ newStars' = {} /\ is_PM' = is_PM /\ maxActive' = maxActive
  BY DEF MakeStars
<1>2. PICK queue \in SetToSeqs(newStars) : after(queue)
  BY DEF MakeStars
<1>. DEFINE children == Spawned(queue)
            n == Len(children)
            N == NumPart(store)
<1>3. /\ Len(queue) \in Nat /\ TableSound(store') /\ NumPart(store') = N
      /\ Size(store, Star) + Len(queue) <= store'.maxsize[Star] /\ store'.maxsize[Star] \in Nat
  BY <1>1, <1>2, StarsConverted
<1>4. /\ n \in Nat /\ n = N - AtStart /\ n <= Size(store, Gas)
      /\ \A j \in 1..n : children[j][1] \in Kids
      /\ \A j, k \in 1..n : children[j][1] = children[k][1] => j = k
      /\ ToSet(children) = {children[j] : j \in 1..n}
  BY <1>1, SpawnedFacts
<1>5. /\ active' = IF is_PM THEN active ELSE active \o [k \in 1..n |-> children[k][1]]
      /\ numActive' = numActive + n
      /\ allocated' = IF ~is_PM /\ StarSlotsShort(Len(queue)) THEN numActive + MaxPart - N ELSE allocated
      /\ phase' = IF Size(store, Star) + Len(queue) > store'.maxsize[Star] THEN "no_slot"
                  ELSE IF ~is_PM /\ numActive + n > maxActive THEN "no_active_space"
                  ELSE IF \E c \in ToSet(children) : c[1] \notin DOMAIN accel
                  THEN "no_accel" ELSE "output"
  BY <1>2
<1>. HIDE DEF after, children, n
<1>6. /\ store \in Store /\ N <= MaxPart /\ is_PM \in BOOLEAN /\ active \in Seq(Nat)
      /\ numActive \in Nat /\ maxActive \in Nat /\ allocated \in Nat
      /\ AtStart \in 0..N /\ Kids = (AtStart + 1)..N
      /\ ~is_PM => /\ Len(active) = numActive
                   /\ \A k \in 1..numActive : active[k] \in 1..N /\ active[k] <= AtStart
                   /\ \A j, k \in 1..numActive : active[j] = active[k] => j = k
      /\ DOMAIN accel = 1..(AtStart + Size(store, Gas))
  BY <1>1 DEF StepInv, FullTypeOK, StarsInv, ListInv, AccelInv, MidStep
<1>7. N \in Nat /\ MaxPart \in Nat /\ Size(store, Gas) \in Nat /\ Size(store, Star) \in Nat
  BY <1>6, StoreParts, StepConstants
<1>8. /\ is_PM => AtStart = numActive
      /\ ~is_PM => AtStart = numActive + MaxPart - maxActive
  BY DEF AtStart
<1>. HIDE DEF N, AtStart
<1>9. phase' = "output"
  <2>1. ~(Size(store, Star) + Len(queue) > store'.maxsize[Star])
    BY <1>3, <1>7
  <2>2. ~(~is_PM /\ numActive + n > maxActive)
    BY <1>4, <1>6, <1>7, <1>8
  <2>3. \A j \in 1..n : children[j][1] \in DOMAIN accel
    <3>1. \A k \in Kids : k \in 1..(AtStart + Size(store, Gas))
      BY <1>4, <1>6, <1>7
    <3>. QED BY <1>4, <1>6, <3>1
  <2>4. ~(\E c \in ToSet(children) : c[1] \notin DOMAIN accel)
    BY <1>4, <2>3
  <2>. QED BY <1>5, <2>1, <2>2, <2>4
<1>. DEFINE new == [k \in 1..n |-> children[k][1]]
<1>10. /\ new \in Seq(Nat) /\ Len(new) = n
       /\ \A k \in 1..n : new[k] \in 1..N /\ new[k] > AtStart /\ new[k] = children[k][1]
  <2>1. \A k \in 1..n : children[k][1] \in 1..N /\ children[k][1] > AtStart /\ children[k][1] \in Nat
    <3>1. \A k \in Kids : k \in 1..N /\ k > AtStart /\ k \in Nat
      BY <1>6, <1>7
    <3>. QED BY <1>4, <3>1
  <2>2. new \in [1..n -> Nat]
    BY <2>1
  <2>3. \A k \in 1..n : new[k] = children[k][1]
    OBVIOUS
  <2>. HIDE DEF new
  <2>. QED BY <1>4, <2>1, <2>2, <2>3
<1>11. ASSUME ~is_PM
       PROVE  /\ active' \in Seq(Nat) /\ Len(active') = numActive'
              /\ \A k \in 1..numActive' : active'[k] \in 1..N
              /\ \A j, k \in 1..numActive' : active'[j] = active'[k] => j = k
  <2>1. active' = active \o new
    BY <1>5, <1>11
  <2>. HIDE DEF new
  <2>2. /\ active' \in Seq(Nat) /\ Len(active') = numActive + n
        /\ \A k \in 1..numActive : active'[k] = active[k]
        /\ \A k \in 1..n : active'[numActive + k] = new[k]
    <3>. DEFINE w == active \o new
    <3>1. Joined(active, new, w, Nat)
      BY <1>6, <1>10, ConcatAt
    <3>. HIDE DEF w
    <3>2. active' = w /\ Len(active) = numActive /\ Len(new) = n
      BY <1>6, <1>10, <1>11, <2>1 DEF w
    <3>. QED BY <3>1, <3>2 DEF Joined
  <2>3. \A k \in 1..numActive : active'[k] \in 1..N /\ active'[k] <= AtStart
    BY <1>6, <1>11, <2>2
  <2>4. \A k \in 1..(numActive + n) : k \in 1..numActive \/ (k - numActive \in 1..n /\ numActive + (k - numActive) = k)
    BY <1>4, <1>6
  <2>5. ASSUME NEW k \in 1..(numActive + n), k \notin 1..numActive
        PROVE  /\ k - numActive \in 1..n /\ active'[k] = new[k - numActive]
               /\ active'[k] \in 1..N /\ active'[k] > AtStart
    <3>. DEFINE x == k - numActive
    <3>1. x \in 1..n /\ numActive + x = k
      BY <2>4, <2>5
    <3>. HIDE DEF x
    <3>2. active'[k] = new[x] /\ new[x] \in 1..N /\ new[x] > AtStart
      BY <1>10, <2>2, <3>1
    <3>. QED BY <3>1, <3>2 DEF x
  <2>6. \A k \in 1..(numActive + n) : active'[k] \in 1..N
    BY <2>3, <2>5
  <2>7. ASSUME NEW j \in 1..(numActive + n), NEW k \in 1..(numActive + n), active'[j] = active'[k]
        PROVE  j = k
    <3>1. CASE j \in 1..numActive /\ k \in 1..numActive
      BY <1>6, <1>11, <2>2, <2>7, <3>1
    <3>2. CASE j \in 1..numActive /\ k \notin 1..numActive
      BY <1>6, <1>7, <2>3, <2>5, <2>7, <3>2
    <3>3. CASE j \notin 1..numActive /\ k \in 1..numActive
      BY <1>6, <1>7, <2>3, <2>5, <2>7, <3>3
    <3>4. CASE j \notin 1..numActive /\ k \notin 1..numActive
      <4>. DEFINE x == j - numActive
                  y == k - numActive
      <4>1. x \in 1..n /\ y \in 1..n /\ new[x] = new[y]
        BY <2>5, <2>7, <3>4
      <4>. HIDE DEF x, y
      <4>2. x = y
        BY <1>4, <1>10, <4>1
      <4>. QED BY <1>6, <4>2 DEF x, y
    <3>. QED BY <3>1, <3>2, <3>3, <3>4
  <2>. QED BY <1>5, <2>2, <2>6, <2>7
<1>. HIDE DEF new
<1>12. active' \in Seq(Nat) /\ numActive' \in Nat /\ allocated' \in Nat
  <2>1. is_PM => active' \in Seq(Nat)
    BY <1>5, <1>6
  <2>2. numActive + n \in Nat /\ numActive + MaxPart - N \in Nat
    <3>1. n \in Nat
      BY <1>4
    <3>2. numActive \in Nat /\ N \in Nat /\ MaxPart \in Nat /\ N <= MaxPart
      BY <1>6, <1>7
    <3>. QED BY <3>1, <3>2
  <2>. QED BY <1>5, <1>6, <1>11, <2>1, <2>2
<1>13. is_PM => numActive' = N
  BY <1>4, <1>5, <1>6, <1>7, <1>8
<1>14. ListInv'
  BY <1>1, <1>3, <1>9, <1>11, <1>13 DEF ListInv, MidStep
<1>15. AccelInv' /\ phase' \in Steps /\ phase' \notin MidStep
  BY <1>9 DEF AccelInv, Steps, MidStep
<1>. QED BY <1>1, <1>3, <1>6, <1>12, <1>14, <1>15, QuietInv

----------------------------------------------------------------------------

\* Every step keeps the invariant.
LEMMA StepNextInv == StepInv /\ [StepNext]_stepVars => StepInv'
<1>. SUFFICES ASSUME StepInv, [StepNext]_stepVars PROVE StepInv'
  OBVIOUS
<1>1. CASE BeginStep
  BY <1>1, BeginStepInv
<1>2. CASE Gravity
  BY <1>2, GravityInv
<1>3. CASE SeedBlackHoles
  BY <1>3, SeedBlackHolesInv
<1>4. CASE Swallow
  BY <1>4, SwallowInv
<1>5. CASE FormStar
  BY <1>5, FormStarInv
<1>6. CASE MakeStars
  BY <1>6, MakeStarsInv
<1>7. CASE Output
  BY <1>7, OutputInv
<1>8. CASE Timesteps
  BY <1>8, TimestepsInv
<1>9. CASE Stopped \/ UNCHANGED stepVars
  BY <1>9, StutterInv DEF Stopped
<1>. QED BY <1>1, <1>2, <1>3, <1>4, <1>5, <1>6, <1>7, <1>8, <1>9 DEF StepNext

\* The inductive invariant of the particle step.
THEOREM StepInvariance == StepSpec => []StepInv
<1>. QED BY StepInitInv, StepNextInv, PTL DEF StepSpec

\* The tables keep their types and the particles their memory, whatever is
\* seeded, swallowed, spawned, converted and collected (particle_data and the
\* slots_manager).
THEOREM StepTypes == StepSpec => []StepTypeOK
<1>1. StepInv => StepTypeOK
  <2>. SUFFICES ASSUME StepInv PROVE StepTypeOK
    OBVIOUS
  <2>1. /\ FullTypeOK /\ store \in Store
        /\ \A i \in 1..NumPart(store) : store.P[i].Generation < GenWrap
    BY DEF StepInv, FullTypeOK
  <2>2. \A i \in 1..NumPart(store) : store.P[i] \in Particle
    BY <2>1, StoreParts
  <2>3. ASSUME NEW i \in 1..NumPart(store)
        PROVE  /\ store.P[i].Type \in PartTypes /\ store.P[i].PI \in Nat
               /\ store.P[i].Generation \in 0..(GenWrap - 1)
    <3>1. store.P[i].Type \in PartTypes /\ store.P[i].PI \in Nat /\ store.P[i].Generation \in Nat
      BY <2>2 DEF Particle
    <3>2. store.P[i].Generation < GenWrap /\ GenWrap \in Nat
      BY <2>1, StepConstants
    <3>. QED BY <3>1, <3>2
  <2>. QED BY <2>1, <2>3 DEF FullTypeOK, StepTypeOK, Stops
<1>. QED BY <1>1, StepInvariance, PTL

\* Where no new star waits, every particle that is not garbage has a slot with
\* its own data and no other has it, every other slot is marked, and what
\* fof_seed and sfr_reserve_slots reserve is enough (slots_check_id_consistency).
THEOREM SlotsAlwaysMatchHolds == StepSpec => []SlotsAlwaysMatch
<1>1. StepInv => SlotsAlwaysMatch
  <2>. SUFFICES ASSUME StepInv PROVE SlotsAlwaysMatch
    OBVIOUS
  <2>1. phase \notin {"no_slot", "no_accel"}
    BY DEF StepInv, FullTypeOK, Steps
  <2>2. newStars = {} => SlotsMatch(store) /\ OrphansMarked(store)
    BY QuietFacts DEF TableSound
  <2>. QED BY <2>1, <2>2 DEF SlotsAlwaysMatch
<1>. QED BY <1>1, StepInvariance, PTL

\* No two particles ever have one ID (domain_test_id_uniqueness).
THEOREM IDsAlwaysUniqueHolds == StepSpec => []IDsAlwaysUnique
<1>1. StepInv => IDsAlwaysUnique
  BY DEF StepInv, IDInv, IDSound, IDsAlwaysUnique
<1>. QED BY <1>1, StepInvariance, PTL

\* The list of active particles holds each of its particles once, the check of
\* add_new_particle_to_active against MaxActiveParticle never stops the run, and
\* on a PM step the list reaches all of the table.  That the list is as long as
\* MaxActiveParticle says is not proved, since it need not be (ActiveListFits).
THEOREM ActiveListAlwaysHolds == StepSpec => []ActiveListHolds
<1>1. StepInv => ActiveListHolds
  <2>. SUFFICES ASSUME StepInv PROVE ActiveListHolds
    OBVIOUS
  <2>1. phase # "no_active_space"
    BY DEF StepInv, FullTypeOK, Steps
  <2>. QED BY <2>1 DEF StepInv, ListInv, ActiveListHolds
<1>. QED BY <1>1, StepInvariance, PTL
=============================================================================
