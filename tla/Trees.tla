-------------------------------- MODULE Trees --------------------------------
(***************************************************************************)
(* The trees of the main loop in the order run (libgadget/run.c) makes     *)
(* them: the top-level tree of the domain decomposition (Domain), and then *)
(* the force tree below its leaves (ForceTree), with the moments and the   *)
(* walk of density() that raises hmax.                                     *)
(*                                                                         *)
(* The two share no state here: once the steps of Domain are over, and its *)
(* state forgotten, ForceTree starts from any of its own worlds.           *)
(***************************************************************************)
EXTENDS Domain, ForceTree

TreesInit == Init /\ TreeInit

Decompose == phase = "idle" /\ Next /\ UNCHANGED treeVars

StartTree ==
    /\ pc = "idle" /\ steps = MaxSteps /\ CallTree
    /\ pc' = "over" /\ lazy' = {} /\ sep' = 1 /\ countlimit' = 0
    /\ parts' = [r \in Rank |-> <<>>] /\ dd' = [r \in Rank |-> NoDomain]
    /\ topTree' = NoTree /\ failed' = NoneFailed /\ failures' = 0
    /\ policy' = 0 /\ LastSuccessfulPolicy' = 0 /\ TopNodeAllocFactor' = FirstAllocFactor
    /\ UNCHANGED <<fatal, steps>>

BuildTree == TreeNext /\ UNCHANGED vars

TreesNext == Decompose \/ StartTree \/ BuildTree

TreesSpec == TreesInit /\ [][TreesNext]_<<vars, treeVars>>
=============================================================================
