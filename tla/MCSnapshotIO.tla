---------------------------- MODULE MCSnapshotIO ----------------------------
\* Four ranks write eight particles: gas, dark matter and garbage, and a rank
\* without gas; three ranks read them.
EXTENDS SnapshotIO, TLC

Gas(id, rho, s)  == [Type |-> 0, ID |-> id, Density |-> rho, Entropy |-> s,
                     DelayTime |-> id, IsGarbage |-> FALSE]
Dark(id)         == [Type |-> 1, ID |-> id, Density |-> 0, Entropy |-> 0,
                     DelayTime |-> 0, IsGarbage |-> FALSE]
MCParticles ==
  0 :> <<Gas(1, 2, 3), [Gas(9, 1, 1) EXCEPT !.IsGarbage = TRUE], Gas(2, 3, 1)>>
    @@ 1 :> <<Dark(3), Dark(8)>>
    @@ 2 :> <<Dark(4), Gas(5, 1, 2)>>
    @@ 3 :> <<Gas(6, 4, 1), Gas(7, 2, 2)>>
MCWriters == <<2, 1>>
=============================================================================
