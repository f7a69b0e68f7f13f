-------------------------------- MODULE Winds --------------------------------
(***************************************************************************)
(* winds_and_feedback (libgadget/winds.c): each star made in this step may *)
(* kick the gas around it into the wind.  A first walk sums the weight of  *)
(* the gas near a star, on all ranks, and counts the visits of each rank.  *)
(* In a second walk the threads put what may be kicked on a list of the    *)
(* rank, which the count of the first made room for; then the list is      *)
(* sorted and each particle is kicked once.                                *)
(*                                                                         *)
(* A visit <<s, g>> is what star s does with gas particle g, on the rank   *)
(* of g; how queries reach it is in TreeWalk.                              *)
(***************************************************************************)
EXTENDS Integers, Sequences, FiniteSets, FiniteSetsExt, SequencesExt, Functions

CONSTANTS
  NTask, NThread,
  WindWorlds,          (* new stars, the gas and how far it is from each    *)
  WindEfficiency,      (* windeff, in per cent                              *)
  WindFreeTravelLength, MaxWindFreeTravelTime

VARIABLES
  blowing,       (* the world                                               *)
  wphase,        (* "start", "weights", "kicks", "ended" or "failed"        *)
  visits,        (* those not begun                                         *)
  writing,       (* those that have taken a place on the list: ikick        *)
  nvisited,      (* per rank; there is one counter per thread               *)
  weight,        (* per star and rank, then TotalWeight                     *)
  nkicks, kicks, (* per rank                                                *)
  wind           (* per gas particle: its DelayTime, and who has kicked it  *)

windVars == <<blowing, wphase, visits, writing, nvisited, weight, nkicks, kicks, wind>>

WindHosts == 1..NTask
Stars     == DOMAIN blowing.star
Blown     == DOMAIN blowing.gas
Distance(v) == blowing.distance[v[1]][v[2]]
WRank(v)  == blowing.gas[v[2]].rank
AtHome(v) == WRank(v) = blowing.star[v[1]].rank

\* Both walks visit what is within Hsml.
AllVisits == {v \in Stars \X Blown : Distance(v) <= blowing.star[v[1]].hsml}

WindInit ==
  /\ blowing \in WindWorlds
  /\ wphase = "start"
  /\ visits = {} /\ writing = <<>> /\ weight = <<>> /\ wind = <<>>
  /\ nvisited = <<>> /\ nkicks = <<>> /\ kicks = <<>>

\* winds_find_weights begins.
winds_find_weights ==
  /\ wphase = "start"
  /\ wphase' = "weights"
  /\ visits' = AllVisits
  /\ nvisited' = [r \in WindHosts |-> 0] /\ nkicks' = [r \in WindHosts |-> 0]
  /\ weight' = [s \in Stars |-> 0]
  /\ kicks' = [r \in WindHosts |-> <<>>]
  /\ wind' = [g \in Blown |-> [delay |-> blowing.gas[g].delay, by |-> <<>>]]
  /\ UNCHANGED <<blowing, writing>>

MayVisit(v) ==
  /\ v \in visits
  /\ AtHome(v) \/ ~\E u \in visits \cup DOMAIN writing : WRank(u) = WRank(v) /\ AtHome(u)
  /\ LET here == {u \in DOMAIN writing : WRank(u) = WRank(v)}
     IN  Cardinality(here) < NThread /\ \A u \in here : u[1] # v[1]

InWind(g) == wind[g].delay > 0

\* sfr_wind_weight_ngbiter, with sfr_wind_reduce_weight.
sfr_wind_weight(v) ==
  /\ wphase = "weights" /\ MayVisit(v)
  /\ visits' = visits \ {v}
  /\ IF InWind(v[2]) THEN UNCHANGED <<weight, nvisited>>
     ELSE /\ weight' = [weight EXCEPT ![v[1]] = @ + blowing.gas[v[2]].mass]
          /\ nvisited' = [nvisited EXCEPT ![WRank(v)] = @ + 1]
  /\ UNCHANGED <<blowing, wphase, writing, nkicks, kicks, wind>>

WeightsOver ==
  /\ wphase = "weights" /\ visits = {}
  /\ wphase' = "kicks"
  /\ visits' = AllVisits
  /\ UNCHANGED <<blowing, writing, nvisited, weight, nkicks, kicks, wind>>

maxkicks(r) == nvisited[r] + 2

\* The chance is the star's share of the gas around it.
Drawn(v) ==
  LET star == blowing.star[v[1]]
  IN  /\ weight[v[1]] # 0 /\ star.vdisp > 0
      /\ blowing.random[v[1]][v[2]] * weight[v[1]] < WindEfficiency * star.mass

\* sfr_wind_feedback_ngbiter: a place on the list is taken with an atomic
\* counter.
TakePlace(v) ==
  /\ wphase = "kicks" /\ MayVisit(v)
  /\ visits' = visits \ {v}
  /\ IF InWind(v[2]) \/ ~Drawn(v) THEN UNCHANGED <<wphase, writing, nkicks>>
     ELSE LET r == WRank(v)
          IN  /\ nkicks' = [nkicks EXCEPT ![r] = @ + 1]
              /\ IF nkicks[r] >= maxkicks(r) THEN wphase' = "failed" /\ UNCHANGED writing
                 ELSE writing' = [u \in DOMAIN writing \cup {v} |->
                                   IF u = v THEN nkicks[r] + 1 ELSE writing[u]] /\ UNCHANGED wphase
  /\ UNCHANGED <<blowing, nvisited, weight, kicks, wind>>

Kick(v) == [part |-> v[2], distance |-> Distance(v), star |-> blowing.star[v[1]].id,
            vel |-> blowing.star[v[1]].vdisp]

\* The entry is filled; those of others may be filled before it.
FillPlace(v) ==
  /\ wphase = "kicks" /\ v \in DOMAIN writing
  /\ kicks' = [kicks EXCEPT ![WRank(v)] = [n \in DOMAIN @ \cup {writing[v]} |->
                 IF n = writing[v] THEN Kick(v) ELSE @[n]]]
  /\ writing' = [u \in DOMAIN writing \ {v} |-> writing[u]]
  /\ UNCHANGED <<blowing, wphase, visits, nvisited, weight, nkicks, wind>>

\* cmp_by_part_id; the variant sorts by the particle alone, and leaves the
\* order of its kicks as it is.
by_part(a, b) == a.part <= b.part

cmp_by_part_id(a, b) ==
  \/ a.part < b.part
  \/ a.part = b.part /\ a.distance < b.distance
  \/ a.part = b.part /\ a.distance = b.distance /\ a.star <= b.star

\* A stable sort: what compares as equal stays in order.
Sorted(list) ==
  LET Before(m, n) ==
        \/ ~cmp_by_part_id(list[n], list[m])
        \/ cmp_by_part_id(list[m], list[n]) /\ m < n
      place == [n \in DOMAIN list |->
                  Cardinality({m \in DOMAIN list : Before(m, n)}) + 1]
  IN  [k \in DOMAIN list |-> list[CHOOSE n \in DOMAIN list : place[n] = k]]

\* wind_do_kick.
DelayTime(vel) == Min({MaxWindFreeTravelTime, WindFreeTravelLength \div vel})

\* Each particle is kicked by the first of its entries.
FirstEntry(sorted, k) == k = 1 \/ sorted[k - 1].part # sorted[k].part

KickersOf(g, r) ==
  LET sorted == Sorted(kicks[r])
  IN  [k \in {n \in DOMAIN sorted : sorted[n].part = g /\ FirstEntry(sorted, n)} |-> sorted[k]]

wind_do_kicks ==
  /\ wphase = "kicks" /\ visits = {} /\ writing = <<>>
  /\ wphase' = "ended"
  /\ wind' = [g \in Blown |->
       LET who == KickersOf(g, blowing.gas[g].rank)
       IN  IF DOMAIN who = {} THEN wind[g]
           ELSE LET last == who[Max(DOMAIN who)]
                IN  [delay |-> DelayTime(last.vel),
                     by |-> SetToSeq({who[k].star : k \in DOMAIN who})]]
  /\ UNCHANGED <<blowing, visits, writing, nvisited, weight, nkicks, kicks>>

WindNext ==
  \/ \E v \in visits \cup DOMAIN writing : sfr_wind_weight(v) \/ TakePlace(v) \/ FillPlace(v)
  \/ winds_find_weights \/ WeightsOver \/ wind_do_kicks

WindSpec == WindInit /\ [][WindNext]_windVars

----------------------------------------------------------------------------

\* The list the first walk made room for never overflows, and no entry of it
\* is left out or written twice.
RoomForKicks ==
  /\ wphase # "failed"
  /\ wphase = "ended" => \A r \in WindHosts : DOMAIN kicks[r] = 1..nkicks[r]

\* A particle that several new stars of any rank would kick is kicked once, by
\* the nearest, whatever order the threads put them on the list in ("particles
\* are kicked by the nearest new star", winds.c:327); gas that was in the wind
\* is not.
Kicking(g) ==
  {s \in Stars : <<s, g>> \in AllVisits /\ blowing.gas[g].delay = 0 /\ Drawn(<<s, g>>)}

Nearer(s, t, g) ==
  \/ Distance(<<s, g>>) < Distance(<<t, g>>)
  \/ Distance(<<s, g>>) = Distance(<<t, g>>) /\ blowing.star[s].id <= blowing.star[t].id

NearestKicks ==
  /\ RoomForKicks
  /\ wphase = "ended" => \A g \in Blown :
      wind[g].by = IF Kicking(g) = {} THEN <<>>
                   ELSE LET s == CHOOSE s \in Kicking(g) : \A t \in Kicking(g) : Nearer(s, t, g)
                        IN  <<blowing.star[s].id>>
=============================================================================
