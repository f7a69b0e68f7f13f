------------------------------- MODULE MCTrees -------------------------------
(* The trees of the main loop for TLC.  The domain decomposition: three    *)
(* ranks, keys of three bits cut in two, six to nine particles that start  *)
(* evenly, most of them on one rank, and on one key.                       *)
EXTENDS Trees

MCEven == [r \in 0 .. 2 |-> CASE r = 0 -> <<0, 4>> [] r = 1 -> <<1, 5>> [] OTHER -> <<6, 3>>]
MCClump == [r \in 0 .. 2 |-> CASE r = 0 -> <<0, 5, 4, 1, 4>> [] r = 1 -> <<6, 7>> [] OTHER -> <<7, 6>>]
MCOneKey == [r \in 0 .. 2 |-> CASE r = 0 -> <<5, 5, 5>> [] r = 1 -> <<5, 5, 5>> [] OTHER -> <<5, 1>>]
(* The leaves hold 2, 2, 0, 4, 0, 1 and no particle, so that the empty     *)
(* leaves at the end of the curve go back to rank 0.                       *)
MCTail == [r \in 0 .. 2 |-> CASE r = 0 -> <<0, 0, 1>> [] r = 1 -> <<1, 4, 4>> [] OTHER -> <<4, 4, 6>>]
MCTails == {MCTail}
MCPlacements == {MCEven, MCClump, MCOneKey}
MCDrifters == {{<<0, 1>>, <<1, 1>>}, {<<2, 1>>}}
MCDriftKeys == {2}
MCPerishable == {<<0, 2>>}
MCDarkMatter == {<<0, 1>>}

-----------------------------------------------------------------------------
(* The force tree: two ranks with two threads each.  Rank 0 owns two       *)
(* leaves, rank 1 one.                                                     *)
(* The right half is cut again, its daughters run backwards: leaves 0 and  *)
(* 1 (the far right quarter) are local to rank 0, leaf 2 to rank 1.        *)
MCTopNodes ==
    << [Daughter |-> 2, Leaf |-> -1, back |-> FALSE],
       [Daughter |-> 0, Leaf |-> 0, back |-> FALSE],
       [Daughter |-> 4, Leaf |-> -1, back |-> TRUE],
       [Daughter |-> 0, Leaf |-> 1, back |-> FALSE],
       [Daughter |-> 0, Leaf |-> 2, back |-> FALSE] >>

MCTopTasks == 0 :> [StartLeaf |-> 0, EndLeaf |-> 2] @@ 1 :> [StartLeaf |-> 2, EndLeaf |-> 3]

(* The kinds of particles: gas that is active or not, a star, garbage.     *)
Part(pos, mass, hsml, gas, active) ==
    [pos |-> pos, Mass |-> mass, Hsml |-> hsml, gas |-> gas, active |-> active,
     IsGarbage |-> FALSE]
Gas(pos, mass, hsml) == Part(pos, mass, hsml, TRUE, TRUE)
Rest(pos, mass, hsml) == Part(pos, mass, hsml, TRUE, FALSE)
Star(pos, mass) == Part(pos, mass, 0, FALSE, TRUE)
Dead(pos) == [Part(pos, 1000, 5, TRUE, FALSE) EXCEPT !.IsGarbage = TRUE]

Indexed(s) == [i \in 0 .. Len(s) - 1 |-> s[i + 1]]
Far == Indexed(<<Gas(40, 128, 3), Star(46, 256), Rest(33, 512, 9)>>)

(* Six particles of rank 0, three to a thread, at every choice of four     *)
(* places, two at most to a place: close together, so that layers are made *)
(* on either side of a merge, or in a node of their own.                   *)
Places == {9, 12, 15, 20}
Scattered ==
    {Indexed(<<Gas(x[1], 1, 2), Rest(x[2], 2, 9), Gas(x[3], 4, 1),
               Gas(x[4], 8, 5), Star(x[5], 16), Gas(x[6], 32, 7)>>) :
        x \in {y \in [1 .. 6 -> Places] :
                  /\ y[1] <= y[3] /\ y[3] <= y[5] /\ y[2] <= y[4] /\ y[4] <= y[6]
                  /\ \A p \in Places : Cardinality({k \in 1 .. 6 : y[k] = p}) <= 2}}

(* At the faces of nodes, and something that is garbage; all at one place, *)
(* which no tree holds; nothing.                                           *)
MCTreePlacements ==
    { 0 :> p @@ 1 :> Far : p \in Scattered \cup
        { Indexed(<<Gas(16, 1, 9), Gas(17, 2, 9), Gas(15, 4, 1), Gas(48, 8, 2), Gas(60, 16, 5)>>),
          Indexed(<<Gas(8, 1, 1), Gas(8, 2, 7), Rest(32, 4, 4), Gas(52, 8, 9), Dead(9), Gas(9, 16, 1)>>),
          Indexed([k \in 1 .. 7 |-> Gas(5, 1, k)]),
          Indexed(<<>>) } }
=============================================================================
