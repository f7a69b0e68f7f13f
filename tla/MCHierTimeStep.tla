-------------------------- MODULE MCHierTimeStep --------------------------
(* A small instance of the main loop with hierarchical gravity.            *)
EXTENDS HierTimeStep

CONSTANTS g1, d1

MCBins == 4
MCDti  == [b \in 0..MCBins |-> IF b = 0 THEN 0 ELSE 2^b]

\* From a sync point, or from half way between two of them.
MCInit == {0, 8}

MCPart == {g1, d1}
MCGas  == [p \in MCPart |-> IF p = d1 THEN "dm" ELSE "gas"]
=============================================================================
