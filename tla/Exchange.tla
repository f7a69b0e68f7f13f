------------------------------ MODULE Exchange ------------------------------
(***************************************************************************)
(* domain_exchange (libgadget/exchange.c): all ranks send the particles,   *)
(* with their slots, that the layout function assigns to another rank.     *)
(* Memory for the buffers is limited, so that it may take several rounds.  *)
(*                                                                         *)
(* The ranks run on their own between two collective calls.  A collective  *)
(* call is one step of all ranks, enabled when every rank has reached it:  *)
(* ranks that wait in different calls are a deadlock.                      *)
(***************************************************************************)
EXTENDS Slots

CONSTANTS
  NTask,        (* number of ranks                                          *)
  TypeOf,       (* the particles of the run, as a sequence of their types   *)
  InitGarbage,  (* which of them are garbage                                *)
  MaxIter       (* maxiter of the caller: 10000 in the source               *)

Ranks == 1..NTask
Ids   == DOMAIN TypeOf \ InitGarbage

ASSUME ExchangeAssumption ==
  /\ NTask \in Nat \ {0}
  /\ TypeOf \in Seq(PartTypes)
  /\ InitGarbage \subseteq DOMAIN TypeOf
  /\ MaxIter \in Nat

VARIABLES
  pc,       (* per rank, what it does next                                  *)
  st,       (* per rank, its particles and slots                            *)
  target,   (* the layout: per particle, the rank it is assigned to         *)
  list,     (* plan.ExchangeList                                            *)
  layouts,  (* plan.layouts: target and type of what is sent in this round  *)
  iter,
  sent,     (* partBuf and slotBuf: sent[r][q] is what r sends to q         *)
  compact,  (* the types whose slots are compacted, as agreed by all        *)
  failure

vars == <<pc, st, target, list, layouts, iter, sent, compact, failure>>

Local      == {"start", "build", "space", "pack", "collect", "room", "reserve", "unpack"}
Collective == {"any_work", "any_full", "any_gc", "particles", "slots", "any_left"}

At(here)     == \A r \in Ranks : pc[r] = here
AllGo(there) == pc' = [r \in Ranks |-> there]
Go(r, there) == pc' = [pc EXCEPT ![r] = there]

----------------------------------------------------------------------------

\* The particles that start on rank r, in increasing order.
InitIds(home, r) == InOrder({n \in DOMAIN TypeOf : home[n] = r})

InitSlots(home, r, t) ==
  InOrder({n \in DOMAIN TypeOf : home[n] = r /\ TypeOf[n] = t})

InitStore(home, r) ==
  [P |-> [i \in DOMAIN InitIds(home, r) |->
     LET n == InitIds(home, r)[i] IN
     [ID |-> <<n, 0>>, Type |-> TypeOf[n], IsGarbage |-> n \in InitGarbage, Generation |-> 0,
      PI |-> IF TypeOf[n] \in SlotTypes
             THEN CHOOSE k \in DOMAIN InitSlots(home, r, TypeOf[n]) :
                    InitSlots(home, r, TypeOf[n])[k] = n
             ELSE NoSlot]],
   slot |-> [t \in SlotTypes |-> [k \in DOMAIN InitSlots(home, r, t) |->
     LET n == InitSlots(home, r, t)[k] IN
     [ID |-> <<n, 0>>, ReverseLink |-> IF n \in InitGarbage THEN Garbage ELSE 0]]],
   maxsize |-> [t \in SlotTypes |-> Len(InitSlots(home, r, t)) + SlotsFree]]

Nothing == [q \in Ranks |-> <<>>]

Init ==
  /\ pc = [r \in Ranks |-> "start"]
  /\ \E home \in [DOMAIN TypeOf -> Ranks] : st = [r \in Ranks |-> InitStore(home, r)]
  /\ \A r \in Ranks : NumPart(st[r]) <= MaxPart
  /\ target \in [Ids -> Ranks]
  /\ list = [r \in Ranks |-> <<>>]
  /\ layouts = [r \in Ranks |-> <<>>]
  /\ iter = [r \in Ranks |-> 0]
  /\ sent = [r \in Ranks |-> Nothing]
  /\ compact = {}
  /\ failure = [r \in Ranks |-> FALSE]

----------------------------------------------------------------------------
(* A round: what to send, and the plan.                                    *)

\* A round after the last allowed one fails.
Start(r) ==
  /\ pc[r] = "start"
  /\ IF iter[r] >= MaxIter
     THEN failure' = [failure EXCEPT ![r] = TRUE] /\ Go(r, "returned")
     ELSE UNCHANGED failure /\ Go(r, "build")
  /\ UNCHANGED <<st, target, list, layouts, iter, sent, compact>>

\* layoutfunc
TargetOf(r, i) == target[st[r].P[i].ID[1]]

\* The list is built again in every round, as a garbage collection moves the
\* particles; domain_maintain builds it the same way for the first round.
ExchangeList(r) == InOrder({i \in LiveIndices(st[r]) : TargetOf(r, i) # r})

domain_build_exchange_list(r) ==
  /\ pc[r] = "build"
  /\ list' = [list EXCEPT ![r] = ExchangeList(r)]
  /\ Go(r, "any_work")
  /\ UNCHANGED <<st, target, layouts, iter, sent, compact, failure>>

AnyWork ==
  /\ At("any_work")
  /\ AllGo(IF \E r \in Ranks : list[r] # <<>> THEN "space" ELSE "returned")
  /\ UNCHANGED <<st, target, list, layouts, iter, sent, compact, failure>>

\* domain_find_iter_space, which may find space for less than the list, or for
\* none of it, and the layouts of domain_build_plan.
FindSpace(r) ==
  /\ pc[r] = "space"
  /\ \E last \in 0..Len(list[r]) :
       layouts' = [layouts EXCEPT ![r] = [n \in 1..last |->
                     [target |-> TargetOf(r, list[r][n]),
                      type |-> st[r].P[list[r][n]].Type]]]
  /\ Go(r, "any_full")
  /\ UNCHANGED <<st, target, list, iter, sent, compact, failure>>

\* What goes to rank q of the layouts of rank r: plan.toGo.
LeavingTo(r, q) == {n \in DOMAIN layouts[r] : layouts[r][n].target = q}

\* What comes from all ranks, as pairs of a rank and a number in its layouts:
\* plan.toGet, by MPI_Alltoall.
Arriving(r) == UNION {{q} \X LeavingTo(q, r) : q \in Ranks}

\* The sums of both, in all and for one type.
ToGoSum(r)      == Len(layouts[r])
ToGoType(r, t)  == Cardinality({n \in DOMAIN layouts[r] : layouts[r][n].type = t})
ToGetSum(r)     == Cardinality(Arriving(r))
ToGetType(r, t) == Cardinality({a \in Arriving(r) : layouts[a[1]][a[2]].type = t})

NGarbage(r) == NumPart(st[r]) - Cardinality(LiveIndices(st[r]))

\* The particles rank r has when the round is over, without garbage.
Needed(r) == NumPart(st[r]) + ToGetSum(r) - ToGoSum(r) - NGarbage(r)

\* One full rank makes the exchange fail on all.
TooFull(r) == \E q \in Ranks : Needed(q) > MaxPart

\* MPI_Alltoall of the plan and the check of domain_exchange_once.
AnyFull ==
  /\ At("any_full")
  /\ failure' = [r \in Ranks |-> TooFull(r)]
  /\ pc' = [r \in Ranks |-> IF TooFull(r) THEN "returned" ELSE "pack"]
  /\ UNCHANGED <<st, target, list, layouts, iter, sent, compact>>

----------------------------------------------------------------------------
(* domain_exchange_once.                                                   *)

SlotOf(s, p) == IF HasSlot(p) THEN s.slot[p.Type][p.PI] ELSE Unwritten

\* What r sends to q: particles and slots, in the order of the list.
Packed(r, q) ==
  LET s    == st[r]
      mine == InOrder(LeavingTo(r, q))
  IN  [k \in DOMAIN mine |->
         LET p == s.P[list[r][mine[k]]] IN [part |-> p, slot |-> SlotOf(s, p)]]

\* The particles removed are those packed in this round.  The variant removes
\* the whole list.
WholeList(r) == ToSet(list[r])

InThisRound(r) == {list[r][n] : n \in DOMAIN layouts[r]}

Pack(r) ==
  /\ pc[r] = "pack"
  /\ sent' = [sent EXCEPT ![r] = [q \in Ranks |-> Packed(r, q)]]
  /\ st' = [st EXCEPT ![r] = MarkGarbage(@, InThisRound(r))]
  /\ Go(r, "any_gc")
  /\ UNCHANGED <<target, list, layouts, iter, compact, failure>>

\* Garbage is collected for the next round, or to make room.
NotFinished(r) == Len(layouts[r]) < Len(list[r])

ShallCollect(r) == NotFinished(r) \/ NumPart(st[r]) + ToGetSum(r) > MaxPart

\* shall_we_compact_slots
CompactHere(r) ==
  {t \in SlotTypes :
     \/ 20 * (Size(st[r], t) + ToGetType(r, t)) > 19 * st[r].maxsize[t]
     \/ 10 * ToGoType(r, t) > Size(st[r], t)}

AnyGC ==
  /\ At("any_gc")
  /\ IF \E r \in Ranks : ShallCollect(r)
     THEN compact' = UNION {CompactHere(r) : r \in Ranks} /\ AllGo("collect")
     ELSE compact' = {} /\ AllGo("room")
  /\ UNCHANGED <<st, target, list, layouts, iter, sent, failure>>

Collect(r) ==
  /\ pc[r] = "collect"
  /\ st' = [st EXCEPT ![r] = GC(@, compact)]
  /\ Go(r, "room")
  /\ UNCHANGED <<target, list, layouts, iter, sent, compact, failure>>

\* The run ends if there is still no room, else the particles are received
\* behind the last particle: MPI_Alltoallv.
CheckRoom(r) ==
  /\ pc[r] = "room"
  /\ Go(r, IF NumPart(st[r]) + ToGetSum(r) > MaxPart THEN "endrun" ELSE "particles")
  /\ UNCHANGED <<st, target, list, layouts, iter, sent, compact, failure>>

AllToAllParticles ==
  /\ At("particles")
  /\ AllGo("reserve")
  /\ UNCHANGED <<st, target, list, layouts, iter, sent, compact, failure>>

\* Room for all that arrives.
SlotsThen(r) == [t \in SlotTypes |-> Size(st[r], t) + ToGetType(r, t)]

ReserveSlots(r) ==
  /\ pc[r] = "reserve"
  /\ st' = [st EXCEPT ![r] = Reserve(@, SlotsThen(r))]
  /\ Go(r, "slots")
  /\ UNCHANGED <<target, list, layouts, iter, sent, compact, failure>>

\* The barrier, then MPI_Alltoallv for each type.
AllToAllSlots ==
  /\ At("slots")
  /\ AllGo("unpack")
  /\ UNCHANGED <<st, target, list, layouts, iter, sent, compact, failure>>

\* What rank r receives, ordered by sender.
Received(r) == FlattenSeq([q \in Ranks |-> sent[q][r]])

OfType(arrivals, t) ==
  SelectAt(arrivals, {k \in DOMAIN arrivals : arrivals[k].part.Type = t})

\* The slots of a type arrive behind those in use, in the same order as their
\* particles, and are numbered sender by sender (toGetOffset); a
\* type without slots has no use for the number.
NewPI(r, k) ==
  LET arrivals == Received(r)
      p == arrivals[k].part
  IN  Size(st[r], p.Type) + Cardinality({j \in 1..k : arrivals[j].part.Type = p.Type})

Unpack(r) ==
  /\ pc[r] = "unpack"
  /\ LET arrivals == Received(r) IN
     st' = [st EXCEPT
       ![r].P = @ \o [k \in DOMAIN arrivals |->
          IF HasSlot(arrivals[k].part) THEN [arrivals[k].part EXCEPT !.PI = NewPI(r, k)]
                                       ELSE arrivals[k].part],
       ![r].slot = [t \in SlotTypes |->
          @[t] \o [k \in DOMAIN OfType(arrivals, t) |-> OfType(arrivals, t)[k].slot]]]
  /\ sent' = [q \in Ranks |-> [sent[q] EXCEPT ![r] = <<>>]]
  /\ Go(r, "any_left")
  /\ UNCHANGED <<target, list, layouts, iter, compact, failure>>

----------------------------------------------------------------------------

\* The loop goes on while any rank has something left.  The variant stops
\* when the first is done.
AllLeft == \A r \in Ranks : NotFinished(r)

AnyNotFinished == \E r \in Ranks : NotFinished(r)

AnyLeft ==
  /\ At("any_left")
  /\ iter' = [r \in Ranks |-> iter[r] + 1]
  /\ AllGo(IF AnyNotFinished THEN "start" ELSE "returned")
  /\ UNCHANGED <<st, target, list, layouts, sent, compact, failure>>

Over ==
  /\ At("returned") \/ \E r \in Ranks : pc[r] = "endrun"
  /\ UNCHANGED vars

Next ==
  \/ \E r \in Ranks :
       \/ Start(r) \/ domain_build_exchange_list(r) \/ FindSpace(r) \/ Pack(r)
       \/ Collect(r) \/ CheckRoom(r) \/ ReserveSlots(r) \/ Unpack(r)
  \/ AnyWork \/ AnyFull \/ AnyGC \/ AllToAllParticles \/ AllToAllSlots \/ AnyLeft
  \/ Over

Spec == Init /\ [][Next]_vars

----------------------------------------------------------------------------

\* Every variable has its type.
TypeOK ==
  /\ pc \in [Ranks -> Local \cup Collective \cup {"returned", "endrun"}]
  /\ target \in [Ids -> Ranks]
  /\ iter \in [Ranks -> 0..MaxIter]
  /\ compact \subseteq SlotTypes
  /\ failure \in [Ranks -> BOOLEAN]
  /\ \A r \in Ranks :
       /\ NumPart(st[r]) <= MaxPart
       /\ \A t \in SlotTypes : Size(st[r], t) <= st[r].maxsize[t]

\* Live particles on rank r, and those on their way to it.
OnTheWay(r) == UNION {ToSet(sent[q][r]) : q \in Ranks}

Here(r)   == {st[r].P[i].ID[1] : i \in LiveIndices(st[r])}
ToRank(r) == {a.part.ID[1] : a \in OnTheWay(r)}

\* Where particle p is found: at an index of a rank, or in what one rank sends
\* to another.
Copies(p) ==
  (UNION {{<<"at", r, i>> : i \in {i \in LiveIndices(st[r]) : st[r].P[i].ID[1] = p}} :
          r \in Ranks})
  \cup
  (UNION {{<<"sent", a[1], a[2], k>> :
             k \in {k \in DOMAIN sent[a[1]][a[2]] : sent[a[1]][a[2]][k].part.ID[1] = p}} :
          a \in Ranks \X Ranks})

\* A particle keeps its slot on the way, whoever sends and in whatever order
\* (slots_check_id_consistency); what is left behind is marked, so that garbage
\* collection finds it.
EachItsSlot ==
  \A r \in Ranks :
    /\ SlotsMatch(st[r]) /\ OrphansMarked(st[r])
    /\ \A a \in OnTheWay(r) : HasSlot(a.part) => a.slot.ID = a.part.ID

\* Each particle exists once, with its slot, on one rank or on the way to one,
\* whatever rounds, garbage collections and failures there are
\* (domain_test_id_uniqueness and the count of the particles in
\* tests/test_exchange.c).  The run never ends for lack of room: the check
\* before the exchange and the garbage collection leave enough.
NoneLostNorDoubled ==
  /\ \A p \in Ids : Cardinality(Copies(p)) = 1
  /\ \A r \in Ranks : Here(r) \cup ToRank(r) \subseteq Ids
  /\ EachItsSlot
  /\ \A r \in Ranks : pc[r] # "endrun"

\* The exchange as its callers see it: a particle is where it is live, or
\* where it is on its way to.
where == [p \in Ids |-> CHOOSE r \in Ranks : p \in Here(r) \cup ToRank(r)]

outcome ==
  IF ~At("returned") THEN "running"
  ELSE IF \A r \in Ranks : failure[r] THEN "failure"
  ELSE IF \A r \in Ranks : ~failure[r] THEN "success" ELSE "divided"

R == INSTANCE Relocation

\* The exchange is a relocation: it moves particles only to their targets,
\* ends the same way on all ranks, and succeeds only when all have arrived.
IsRelocation == R!Spec

----------------------------------------------------------------------------
(* Values for TLC: two gas particles, a dark matter particle, and gas that *)
(* is garbage.                                                             *)
MCTypes == <<0, 0, 1, 0>>
=============================================================================
