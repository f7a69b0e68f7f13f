----------------------------- MODULE Relocation -----------------------------
(***************************************************************************)
(* What the exchange of particles promises to its callers, domain          *)
(* decomposition and the writer of FOF groups: each particle is on one     *)
(* rank at any time, it goes only to its target, and when the exchange     *)
(* succeeds, on all ranks or on none, every particle is on its target.     *)
(***************************************************************************)
CONSTANTS Ranks, Ids

VARIABLES where, target, outcome

Init ==
  /\ where \in [Ids -> Ranks]
  /\ target \in [Ids -> Ranks]
  /\ outcome = "running"

\* Some particles are sent off.
Move ==
  /\ outcome = "running"
  /\ \E moving \in SUBSET Ids :
       where' = [p \in Ids |-> IF p \in moving THEN target[p] ELSE where[p]]
  /\ UNCHANGED <<target, outcome>>

Succeed ==
  /\ outcome = "running"
  /\ where = target
  /\ outcome' = "success"
  /\ UNCHANGED <<where, target>>

Fail ==
  /\ outcome = "running"
  /\ outcome' = "failure"
  /\ UNCHANGED <<where, target>>

Next == Move \/ Succeed \/ Fail

Spec == Init /\ [][Next]_<<where, target, outcome>>
=============================================================================
