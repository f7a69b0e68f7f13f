---------------------------- MODULE MCTimeStep ----------------------------
(* Small instances of the main loop with one tree force per step.          *)
EXTENDS TimeStep, TLC

MCBins  == 3
MCDti   == [b \in 0..MCBins |-> IF b = 0 THEN 0 ELSE 2^b]

\* From a sync point, or from half way between two of them.
MCInit  == {0, 4}

\* From a quarter of the way between two sync points.
MCQuarter == {2}

MCPart  == 1..3
MCNoBH  == <<"gas", "gas", "dm">>
MCBH    == <<"bh", "gas", "dm">>
=============================================================================
