----------------------------- MODULE WorkRounds -----------------------------
(***************************************************************************)
(* What a walk in rounds promises: it handles every piece of work once, in *)
(* one or more batches, and ends when none is left.  The work of the       *)
(* top-level tree walk of a rank is its particles that other ranks must    *)
(* see; the work of a whole tree walk is the exports of all ranks.         *)
(***************************************************************************)
EXTENDS FiniteSets

VARIABLES
  work,      (* all there is to do                                          *)
  left,      (* what has not been taken yet                                 *)
  batch,     (* what has been taken and not been completed                  *)
  finished

vars == <<work, left, batch, finished>>

Init ==
  /\ IsFiniteSet(work)
  /\ left = work
  /\ batch = {}
  /\ finished = FALSE

\* Some of the work joins the batch.
Take ==
  /\ ~finished
  /\ \E some \in SUBSET left :
       /\ left' = left \ some
       /\ batch' = batch \cup some
  /\ UNCHANGED <<work, finished>>

\* Some of the batch is completed; more follows, or nothing was left.
Send ==
  /\ ~finished
  /\ \E some \in SUBSET batch : batch' = batch \ some
  /\ finished' \in BOOLEAN
  /\ finished' => left = {} /\ batch' = {}
  /\ UNCHANGED <<work, left>>

Next == Take \/ Send

Spec == Init /\ [][Next]_vars
=============================================================================
