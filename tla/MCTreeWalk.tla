----------------------------- MODULE MCTreeWalk -----------------------------
(* A small instance of the tree walk of all ranks, returning mass.         *)
EXTENDS MetalReturn

\* The first rank has three particles to export, one of them to both others;
\* the second has two entries of one particle for the same rank; each rank
\* both exports and imports, in up to three rounds.
MCWork == << << <<2, 3>>, <<2>>, <<3>> >>, << <<1, 1>>, <<3>> >>, << <<2>> >> >>

\* Gas particle 1 is on the first rank, 2 on the second and 3 on the third.
\* Some entries reach none.
MCGas   == 1..3
MCNear  == << <<{1}, {}, {1}>>, <<{2}, {}>>, <<{}>> >>
MCReach == << << <<{2}, {}>>, <<{2}>>, <<{3}>> >>, << <<{1}, {}>>, <<{3}>> >>, << <<{2}>> >> >>

\* A share of four is more than a heavy particle takes after another.
MCStarMass  == << <<10, 10, 10>>, <<10, 10>>, <<10>> >>
MCGenerated == << <<4, 2, 4>>, <<8, 2>>, <<2>> >>
MCGasMass   == [g \in MCGas |-> IF g = 2 THEN 5 ELSE 4]
=============================================================================
