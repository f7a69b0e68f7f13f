------------------------------- MODULE Slots -------------------------------
(***************************************************************************)
(* The particle table of a rank and its slots (libgadget/slotsmanager.c),  *)
(* as operators on a store s:                                              *)
(*                                                                         *)
(*   s.P        the particles; P[i].PI is the slot of particle i           *)
(*   s.slot     per enabled type, the slots with the data of that type     *)
(*   s.maxsize  per enabled type, the slots there is memory for            *)
(*                                                                         *)
(* A slot knows its particle (ReverseLink) only inside a garbage           *)
(* collection, and otherwise only whether it is garbage.  Tables are       *)
(* sequences, so indices start at 1, and the ID of a slot stands for the   *)
(* data in it.  An ID has a base and, in its highest bits, the generation. *)
(***************************************************************************)
EXTENDS Selection, SequencesExt

CONSTANTS
  MaxPart,      (* size of the particle table                               *)
  SlotTypes,    (* types whose slots are enabled                            *)
  SlotsFree,    (* slots there is memory for at the start, beyond those used *)
  Increase,     (* slots added when a slot table grows, at least 8192       *)
  GenWrap       (* P.Generation has log2(GenWrap) bits: 16 in the source    *)

----------------------------------------------------------------------------

PartTypes == 0..5
NoSlot    == 0
Garbage   == MaxPart + 100

ASSUME StoreAssumption ==
  /\ MaxPart \in Nat \ {0}
  /\ SlotTypes \subseteq PartTypes
  /\ SlotsFree \in Nat
  /\ Increase \in Nat \ {0}
  /\ GenWrap \in Nat \ {0}

\* What memory the slot tables grow into holds is not defined.
Unwritten == [ID |-> <<0, 0>>, ReverseLink |-> 0]

NumPart(s)  == Len(s.P)
Size(s, t)  == Len(s.slot[t])
HasSlot(p)  == p.Type \in SlotTypes
LiveIndices(s) == {i \in 1..NumPart(s) : ~s.P[i].IsGarbage}

IsSlotGarbage(slot) == slot.ReverseLink > MaxPart

----------------------------------------------------------------------------

\* Particles of type t with slot number k, garbage or not.
Owners(s, t, k) == {i \in 1..NumPart(s) : s.P[i].Type = t /\ s.P[i].PI = k}

\* slots_mark_garbage, called for each particle in gone: no call reads what
\* another one writes.
MarkGarbage(s, gone) ==
  [s EXCEPT
     !.P = [i \in 1..NumPart(s) |->
       IF i \in gone THEN [s.P[i] EXCEPT !.IsGarbage = TRUE] ELSE s.P[i]],
     !.slot = [t \in SlotTypes |-> [k \in 1..Size(s, t) |->
       IF Owners(s, t, k) \cap gone = {} THEN s.slot[t][k]
       ELSE [s.slot[t][k] EXCEPT !.ReverseLink = Garbage]]]]

\* slots_convert, called for each particle of the queue: its old slot becomes
\* garbage, and the n-th gets the n-th slot behind those in use, whether that
\* is counted up by slots_convert or given as the placement.  No particle is in
\* the queue twice, so that no call reads what another one writes.  The poison
\* of slots_connect_new_slot makes the ReverseLink larger than MaxPart.
NewSlots(s, queue) == [n \in DOMAIN queue |-> [ID |-> s.P[queue[n]].ID, ReverseLink |-> Garbage]]

Convert(s, queue, t) ==
  LET freed == ToSet(queue)
      place(i) == Size(s, t) + (CHOOSE n \in DOMAIN queue : queue[n] = i)
  IN  [s EXCEPT
         !.P = [i \in 1..NumPart(s) |->
           IF i \notin freed THEN s.P[i]
           ELSE [s.P[i] EXCEPT !.Type = t, !.PI = IF t \in SlotTypes THEN place(i) ELSE @]],
         !.slot = [u \in SlotTypes |-> [k \in 1..Size(s, u) |->
           IF Owners(s, u, k) \cap freed = {} THEN s.slot[u][k]
           ELSE [s.slot[u][k] EXCEPT !.ReverseLink = Garbage]]
           \o (IF u = t THEN NewSlots(s, queue) ELSE <<>>)]]

\* slots_split_particle: the child is the last particle and has no slot yet.
Child(p, g) == [p EXCEPT !.Generation = g, !.ID = <<@[1], g>>, !.PI = NoSlot]

Split(s, i) ==
  LET g == (s.P[i].Generation + 1) % GenWrap
  IN  [s EXCEPT !.P = Append([@ EXCEPT ![i].Generation = g], Child(s.P[i], g))]

\* slots_reserve
Reserve(s, atleast) ==
  [s EXCEPT !.maxsize = [t \in SlotTypes |->
     IF s.maxsize[t] <= atleast[t] + Increase \div 2 THEN atleast[t] + Increase
                                                     ELSE s.maxsize[t]]]

----------------------------------------------------------------------------

HasGarbage(s) == LiveIndices(s) # 1..NumPart(s)

\* slots_gc_base: the order of the particles that stay is kept.
GCBase(s) == [s EXCEPT !.P = SelectAt(s.P, LiveIndices(s))]

\* slots_gc_mark: only slots of particles in the table are written.
GCMark(s) ==
  [s EXCEPT !.slot = [t \in SlotTypes |-> [k \in 1..Size(s, t) |->
     IF Owners(s, t, k) = {} THEN s.slot[t][k]
     ELSE LET i == CHOOSE i \in Owners(s, t, k) : TRUE
          IN  [s.slot[t][k] EXCEPT !.ReverseLink =
                 IF s.P[i].IsGarbage THEN Garbage ELSE i]]]]

\* slots_gc_collect, for the types whose slots have moved.  The variant
\* leaves the particles with the slot numbers they had.
ForgetCollect(s, types) == s

GCCollect(s, types) ==
  [s EXCEPT !.P = [i \in 1..NumPart(s) |->
     LET mine == UNION {{k \in 1..Size(s, t) : s.slot[t][k].ReverseLink = i} : t \in types}
     IN  IF mine = {} THEN s.P[i]
         ELSE [s.P[i] EXCEPT !.PI = CHOOSE k \in mine : TRUE]]]

\* slots_gc_sweep
Swept(slots) == SelectAt(slots, {k \in DOMAIN slots : ~IsSlotGarbage(slots[k])})

\* slots_gc_slots
GCSlots(s, compact) ==
  IF compact = {} THEN s
  ELSE LET marked == GCMark(s)
           types  == compact \cap SlotTypes
       IN  GCCollect([marked EXCEPT !.slot = [t \in SlotTypes |->
                        IF t \in types THEN Swept(@[t]) ELSE @[t]]], types)

\* slots_gc
GC(s, compact) == GCSlots(GCBase(s), compact)

\* An order of the particles by type, garbage last; inside a type the order
\* is that of the Peano keys.
TypeKey(p) == IF p.IsGarbage THEN 255 ELSE p.Type

IsTypeOrder(s, order) ==
  \A a, b \in 1..NumPart(s) : a < b => TypeKey(s.P[order[a]]) <= TypeKey(s.P[order[b]])

\* The slots in use, in the order of the particles they are linked to.
InParticleOrder(slots) ==
  LET used  == {k \in DOMAIN slots : ~IsSlotGarbage(slots[k])}
      links == {slots[k].ReverseLink : k \in used}
  IN  [n \in 1..Cardinality(links) |->
         slots[CHOOSE k \in used : slots[k].ReverseLink = InOrder(links)[n]]]

\* slots_gc_sorted: the particles in that order without the garbage at the
\* end, then the slots in the order of their particles.
GCSorted(s, order) ==
  LET sorted == [s EXCEPT !.P = [n \in 1..Cardinality(LiveIndices(s)) |-> s.P[order[n]]]]
      marked == GCMark(sorted)
  IN  GCCollect([marked EXCEPT !.slot = [t \in SlotTypes |-> InParticleOrder(@[t])]],
                SlotTypes)

----------------------------------------------------------------------------

\* Every particle that is not garbage and has a type with slots has a slot in
\* use, with its own data, that no other such particle has.
OwnsSlot(s, i) ==
  LET p == s.P[i] IN
  HasSlot(p) => p.PI \in 1..Size(s, p.Type) /\ s.slot[p.Type][p.PI].ID = p.ID

SlotsMatch(s) ==
  /\ \A i \in LiveIndices(s) : OwnsSlot(s, i)
  /\ \A i, j \in LiveIndices(s) :
       /\ HasSlot(s.P[i])
       /\ s.P[i].Type = s.P[j].Type
       /\ s.P[i].PI = s.P[j].PI
       => i = j

\* A slot that belongs to no particle is marked as garbage: the next garbage
\* collection, which marks only slots of particles, removes it.
OrphansMarked(s) ==
  \A t \in SlotTypes : \A k \in 1..Size(s, t) :
    Owners(s, t, k) \cap LiveIndices(s) = {} => IsSlotGarbage(s.slot[t][k])

\* domain_test_id_uniqueness
IDsUnique(s) ==
  \A i, j \in LiveIndices(s) : s.P[i].ID = s.P[j].ID => i = j
=============================================================================
