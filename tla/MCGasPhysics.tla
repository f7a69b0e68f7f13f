---------------------------- MODULE MCGasPhysics ----------------------------
(***************************************************************************)
(* One time step's walks over neighbours on small instances of each.       *)
(***************************************************************************)
EXTENDS GasPhysics, TLC

---------------------------------------------------------------------------
(* HsmlLoop.  Two ranks; the first particle has its neighbours near and    *)
(* far, all on one rank or on both; the second always finds some.          *)

NoNodes == <<>>
Part(rank, type, radius, nodes, near) ==
  [rank |-> rank, type |-> type, hsml |-> radius, nodes |-> nodes, mass |-> 1,
   swallowed |-> FALSE, near |-> near]

Nears == { << <<100, 200, 300, 400, 500, 600>>, <<>> >>,
           << <<100, 100, 100, 100, 100, 100>>, <<5000>> >>,
           << <<70>>, <<>> >>,
           << <<70, 3000, 3100, 3200>>, <<75, 80, 3300>> >>,
           << <<70, 80, 90, 100, 2000>>, <<64, 65, 66, 67>> >>,
           << <<64, 65, 66, 9000>>, <<64, 65, 66, 9000>> >>,
           << <<>>, <<4000, 4100, 4200, 5000, 6000>> >> }
Sizes == {16, 250, 2000, 15000}

\* Below the root: a node that is large enough, and one with too few particles.
Nodes == { << [len |-> 64, mass |-> 2], [len |-> 512, mass |-> 50] >>, << [len |-> 512, mass |-> 5] >> }

Fixed(type) == Part(2, type, 300, NoNodes, << <<50, 900>>, <<2000, 2100, 2200>> >>)
Searched(search, ps) == [search |-> search, parts |-> ps]
MCSearchWorlds ==
  {Searched("density", <<Part(1, t, h, NoNodes, n), Fixed("gas")>>) : t \in {"gas", "bh"}, h \in Sizes, n \in Nears}
  \cup {Searched("density", <<Part(1, t, 0, nodes, n), [Fixed("bh") EXCEPT !.swallowed = TRUE]>>) :
            t \in {"gas", "bh"}, nodes \in Nodes \cup {NoNodes}, n \in Nears}
  \cup {Searched("stars", <<Part(1, "star", h, NoNodes, n), Fixed("star")>>) : h \in Sizes, n \in Nears}
  \cup {Searched("winds", <<Part(1, "gas", h, NoNodes, n), Fixed("gas")>>) : h \in Sizes, n \in Nears}

---------------------------------------------------------------------------
(* Hydro.  Four gas particles in a row on two ranks, the third inactive;   *)
(* the third or the fourth may be in the wind.  The rest of the box decides*)
(* what is predicted beforehand.  In some worlds the buffers are full in   *)
(* the first round.                                                        *)

Fluid(rank, active, entropy, dt, within) ==
  [rank |-> rank, active |-> active, entropy |-> entropy, dt |-> dt, density |-> 2, div |-> 1,
   vel |-> entropy, accel |-> 1, ahead |-> IF active THEN 1 ELSE 2,
   drift |-> IF active THEN 7 ELSE -1, wind |-> FALSE, within |-> within]

Gases(blown) ==
  [i \in 1..4 |->
     [CASE i = 1 -> Fluid(1, TRUE, 20, 3, {2, 3})
        [] i = 2 -> Fluid(1, TRUE, 10, -4, {1, 3, 4})
        [] i = 3 -> Fluid(1, FALSE, 15, 2, {1, 2})
        [] i = 4 -> Fluid(2, TRUE, 8, 1, {3}) EXCEPT !.wind = i = blown]]

FluidWorld(list, slots, late, blown) ==
  [gas |-> Gases(blown), list |-> list, busy |-> <<0, 0>>, slots |-> slots, late |-> late]

MCHydroWorlds ==
  {FluidWorld(FALSE, <<3, 2>>, late, blown) : late \in {{}, {1, 2}}, blown \in {0, 3, 4}}
  \cup {FluidWorld(TRUE, slots, late, blown) :
          slots \in {<<10, 2000>>, <<10, 16000>>}, late \in {{}, {1}, {1, 2}}, blown \in {0, 3, 4}}
  \cup {FluidWorld(TRUE, <<10, 40000000>>, {}, 0)}

---------------------------------------------------------------------------
(* BlackHole.                                                              *)

Hole(id, rank) ==
  [id |-> id, rank |-> rank, active |-> TRUE, swallowed |-> FALSE, dfactive |-> id < 40,
   mass |-> 8, bhmass |-> id, track |-> -1, growth |-> 2, energy |-> 12, kinetic |-> 0, low |-> FALSE,
   potential |-> 5, pots |-> IF id = 20 THEN <<3, 4>> ELSE <<7, 6>>]
GasP(rank, e, q) == [rank |-> rank, mass |-> 2, entropy |-> e, eeqos |-> q, bin |-> rank, wind |-> FALSE]
Base == [seed |-> -1, dynfric |-> TRUE, reposition |-> TRUE, kineticOn |-> FALSE, threshold |-> 3]

Three == <<Hole(10, 1), Hole(20, 1), Hole(30, 2)>>
Two   == <<GasP(1, 4, TRUE), GasP(1, 7, FALSE)>>

\* Three black holes in a row, over two ranks, with gas on one.
Row(active) ==
  [bh |-> [Three EXCEPT ![2].active = active], gas |-> Two,
   meet |-> <<{2}, {1, 3}, {2}>>, bound |-> <<{2}, {1, 3}, {2}>>,
   near |-> <<{1, 2}, {1}, {1, 2}>>, drawn |-> <<{2}, {1}, {2}>>] @@ Base

\* A fourth is met by the three others, which heat the same gas.
Fourth(active) ==
  [bh |-> Append(Three, [Hole(IF active THEN 4 ELSE 40, 1) EXCEPT !.active = active]),
   gas |-> Append(Two, [GasP(2, 1, TRUE) EXCEPT !.wind = TRUE]),
   meet |-> <<{4}, {4}, {4}, {1, 2, 3}>>, bound |-> <<{4}, {4}, {}, {2}>>,
   near |-> <<{1, 2}, {1, 2, 3}, {1, 2, 3}, {2}>>, drawn |-> <<{2}, {}, {2, 3}, {}>>] @@ Base

\* The IDs of two of those that claim it follow each other.
InARow(active) == [Fourth(active) EXCEPT !.bh[2].id = 11]

\* Apart, with kinetic feedback, or below the seed mass with tracers.
Spread(seed, kinetic) ==
  [bh |-> <<[Hole(10, 1) EXCEPT !.track = 3, !.low = TRUE, !.kinetic = 2],
            [Hole(20, 1) EXCEPT !.track = 8, !.low = TRUE], [Hole(30, 2) EXCEPT !.swallowed = TRUE]>>,
   gas |-> <<GasP(1, 4, TRUE), GasP(2, 7, TRUE), GasP(1, 7, FALSE), GasP(1, 2, FALSE)>>,
   meet |-> <<{3}, {3}, {1, 2}>>, bound |-> <<{3}, {3}, {1, 2}>>,
   near |-> <<{1, 2, 4}, {1, 2, 3}, {}>>, drawn |-> <<{4}, {3}, {}>>,
   seed |-> seed, dynfric |-> FALSE, reposition |-> kinetic, kineticOn |-> kinetic, threshold |-> 3]

\* The smaller one, below the seed mass, is swallowed.
Young == [Spread(8, FALSE) EXCEPT !.bh[3].swallowed = FALSE]

MCBHWorlds ==
  {Row(TRUE), Row(FALSE), Fourth(TRUE), Fourth(FALSE), InARow(TRUE), InARow(FALSE), Young}
    \cup {Spread(seed, kinetic) : seed \in {-1, 5, 8}, kinetic \in BOOLEAN}

---------------------------------------------------------------------------
(* Winds.  Four new stars and four gas particles on two ranks, one of them *)
(* in the wind already; near and equally near stars, small and large       *)
(* chances.                                                                *)

Star(id, rank, vdisp) == [id |-> id, rank |-> rank, hsml |-> 5, mass |-> 4, vdisp |-> vdisp]
GasW(rank, delay) == [rank |-> rank, delay |-> delay, mass |-> 1]
WindWorld(dist, random) ==
  [star |-> <<Star(7, 1, 2), Star(5, 1, 3), Star(6, 2, 4), Star(9, 2, 0)>>,
   gas |-> <<GasW(1, 0), GasW(2, 0), GasW(2, 0), GasW(1, 3)>>,
   distance |-> dist, random |-> random]
Dists   == {<< <<3, 2, 4, 1>>, <<2, 2, 1, 2>>, <<2, 6, 6, 1>>, <<1, 9, 1, 1>> >>,
            << <<3, 3, 3, 3>>, <<3, 3, 6, 3>>, <<3, 3, 3, 3>>, <<6, 6, 3, 3>> >>}
Randoms == {<< <<40, 10, 50, 20>>, <<10, 15, 10, 30>>, <<10, 10, 10, 10>>, <<9, 9, 9, 9>> >>, << <<90, 10, 50, 20>>, <<80, 95, 10, 30>>, <<10, 10, 10, 10>>, <<9, 9, 9, 9>> >>}
MCWindWorlds == {WindWorld(d, x) : d \in Dists, x \in Randoms}

---------------------------------------------------------------------------
(* FofGroups.  Three ranks: four dark matter particles on the first, a few *)
(* particles of all kinds on the second, one on the third.  In some worlds *)
(* the ranks hold one group that ties them together, in others several of  *)
(* different lengths, with stars, with a black hole, or with neither.      *)

p(id, type, pos) == [ID |-> id, type |-> type, pos |-> pos, sml |-> 6, dens |-> 0, wind |-> FALSE,
                     swallowed |-> FALSE]
gas(id, pos, dens, blown) == [p(id, 0, pos) EXCEPT !.dens = dens, !.wind = blown]

\* Places of the four particles of rank 0, in the order of their indices: a
\* chain, a chain walked from both ends, a clump in which all but two are
\* linked, two pairs.
Places == {<<0, 8, 16, 24>>, <<8, 24, 0, 16>>, <<10, 0, 19, 5>>, <<24, 100, 16, 108>>}

\* IDs of rank 0 and of the dark matter particle of rank 1 next to them.
IDs == {<<1, 4, 3, 2, 5>>, <<5, 2, 4, 3, 1>>}

\* What else there is.
Rest == {"alone", "bridge", "crowd"}

First(place, id) == [i \in 1..4 |-> p(id[i], 1, place[i])]

Second(id, rest) ==
  CASE rest = "alone" -> <<gas(6, 27, 3, FALSE), p(id[5], 1, 60), p(13, 4, 21),
                           [p(14, 4, 52) EXCEPT !.sml = 20]>>
    [] rest = "bridge" -> <<gas(6, 12, 2, TRUE), p(id[5], 1, 26), gas(7, 30, 1, FALSE), p(8, 4, 160)>>
    [] rest = "crowd" -> <<p(id[5], 1, 70), gas(6, 20, 2, FALSE), p(7, 1, 72), p(9, 1, 79),
                           [p(8, 5, 74) EXCEPT !.swallowed = TRUE]>>

Third(rest) ==
  CASE rest = "alone" -> <<>>
    [] rest = "bridge" -> <<p(10, 1, 35), gas(11, 44, 1, FALSE), p(13, 4, 38)>>
    [] rest = "crowd" -> <<p(10, 1, 84), gas(11, 88, 5, FALSE), p(12, 5, 66), p(13, 4, 80)>>

MCWorlds ==
  {[k \in 0..2 |-> CASE k = 0 -> First(place, id)
                     [] k = 1 -> Second(id, rest)
                     [] k = 2 -> Third(rest)] :
     <<place, id, rest>> \in Places \X IDs \X Rest}

---------------------------------------------------------------------------
(* ParallelSort: it sorts, and each rank keeps as many items as it had     *)
(* (mpsort_mpi), whatever three ranks hold of up to two items each.        *)

Items2 == {<<>>} \cup {<<[key |-> a]>> : a \in 0..2}
           \cup {<<[key |-> a], [key |-> b]>> : a \in 0..2, b \in 0..2}
ASSUME SortsRight ==
  \A x, y, z \in Items2 :
    LET data == [k \in Tasks |-> CASE k = 0 -> x [] k = 1 -> y [] k = 2 -> z]
        sorted == Sort!mpsort_mpi(data)
    IN /\ Sort!SortedAcross(sorted)
       /\ \A k \in Tasks : Len(sorted[k]) = Len(data[k])
       /\ \A v \in 0..2 : Sort!SumOver([k \in Tasks |-> Sort!CountLE(sorted[k], v)], Tasks)
                           = Sort!SumOver([k \in Tasks |-> Sort!CountLE(data[k], v)], Tasks)

---------------------------------------------------------------------------
\* HsmlLoop: the search ends with the right number of neighbours for each
\* particle whenever some radius has it, and in time unless a radius is lost,
\* which takes neighbours on several ranks (density_check_neighbours,
\* stellar_density_check_neighbours, treewalk_do_hsml_loop).
SearchRight == Search!SearchRight

\* Hydro: unless very few particles are active, a force is computed from the
\* entropies, densities and pressures predicted, whatever the walk has stored
\* already; each pair counts once in it, and the signal velocity is the largest
\* of all ranks (hydro_ngbiter, hydro_reduce).
ForcesWhole == Flow!ForcesWhole

\* Hydro: the halves of a pair use the same values (density.c:289).
HalvesAgree == Flow!HalvesAgree

\* BlackHole: of those that may swallow a particle the largest ID does,
\* whatever the order of threads and ranks (blackhole.c:329), which is so for
\* gas; for a black hole it may be the next one
\* (blackhole_accretion_ngbiter).
LargestSwallows       == Holes!LargestSwallows
LargestOrNextSwallows == Holes!LargestOrNextSwallows

\* BlackHole: mass is swallowed whole and by one that stays
\* (blackhole_feedback_ngbiter, blackhole_feedback_postprocess).
SwallowedWhole == Holes!SwallowedWhole

\* BlackHole: no heat, no kick and no flag is lost to another thread
\* (blackhole_feedback_ngbiter).
AllHeatKept == Holes!AllHeatKept

\* Winds: each particle is kicked at most once, by the nearest new star, and
\* the list of kicks has room for all (winds_and_feedback, cmp_by_part_id,
\* sfr_wind_feedback_ngbiter).
NearestKicks == Blow!NearestKicks
=============================================================================
