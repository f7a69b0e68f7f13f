------------------------- MODULE RunControl_proofs -------------------------
(***************************************************************************)
(* Proofs about RunControl: whatever the planned outputs, the requests,    *)
(* the number of restarts and the places of the crashes, what Snapshots.txt *)
(* lists can be restarted from, stays so, and has everything planned.      *)
(***************************************************************************)
EXTENDS RunControl, DataLemmas

----------------------------------------------------------------------------
(* Tables of sync points.                                                  *)

Point == [a : Int, write_snapshot : BOOLEAN, write_fof : BOOLEAN,
          write_plane : BOOLEAN, plane_snapnum : Int]

\* The tables that start at TimeStart: the times grow, and groups are planned
\* only together with a snapshot.
Timelines(TimeStart) ==
  {p \in Seq(Point) :
     /\ Len(p) >= 2
     /\ p[1].a = TimeStart /\ p[Len(p)].a = TimeMax
     /\ \A i, j \in 1..Len(p) : i < j => p[i].a < p[j].a
     /\ \A i \in 1..Len(p) : p[i].write_fof => p[i].write_snapshot}

\* A snapshot is planned at time a.
Plans(p, a) == \E i \in 1..Len(p) : p[i].a = a /\ p[i].write_snapshot

\* The sync points are at integer times in their order, the first one at
\* the start.
LEMMA TimelineFacts ==
  ASSUME NEW TS, NEW p \in Timelines(TS)
  PROVE  /\ p \in Seq(Point) /\ Len(p) \in Nat /\ Len(p) >= 2 /\ DOMAIN p = 1..Len(p)
         /\ \A i \in 1..Len(p) : p[i] \in Point /\ p[i].a \in Int
         /\ p[1].a = TS /\ p[Len(p)].a = TimeMax /\ TS \in Int /\ TS < TimeMax
         /\ \A i, j \in 1..Len(p) : i < j => p[i].a < p[j].a
         /\ \A i \in 1..Len(p) : p[i].write_fof => p[i].write_snapshot
<1>1. p \in Seq(Point) /\ Len(p) \in Nat /\ Len(p) >= 2 /\ DOMAIN p = 1..Len(p)
  BY DEF Timelines
<1>2. ASSUME NEW i \in 1..Len(p) PROVE p[i] \in Point /\ p[i].a \in Int
  <2>1. p[i] \in Point
    BY <1>1, <1>2, ElementOfSeq
  <2>. QED BY <2>1 DEF Point
<1>3. 1 \in 1..Len(p) /\ Len(p) \in 1..Len(p)
  BY <1>1
<1>4. /\ p[1].a = TS /\ p[Len(p)].a = TimeMax
      /\ \A i, j \in 1..Len(p) : i < j => p[i].a < p[j].a
      /\ \A i \in 1..Len(p) : p[i].write_fof => p[i].write_snapshot
  BY Zenon DEF Timelines
<1>. QED BY <1>1, <1>2, <1>3, <1>4

\* Every time from the first to the last has its place.
LEMMA PlaceFacts ==
  ASSUME NEW TS, NEW p \in Timelines(TS), NEW a \in Int, TS <= a, a <= TimeMax
  PROVE  /\ Place(p, a) \in 1..Len(p) /\ a <= p[Place(p, a)].a
         /\ \A k \in 1..(Place(p, a) - 1) : p[k].a < a
<1>. DEFINE T == {j \in 1..Len(p) : a <= p[j].a}
<1>1. /\ Len(p) \in Nat /\ DOMAIN p = 1..Len(p) /\ Len(p) \in 1..Len(p)
      /\ \A i \in 1..Len(p) : p[i].a \in Int
      /\ p[Len(p)].a = TimeMax
  BY TimelineFacts
<1>2. Len(p) \in T /\ T \subseteq Nat
  BY <1>1
<1>3. PICK j \in T : \A m \in T : j <= m
  <2>. HIDE DEF T
  <2>. QED BY <1>2, LeastNat
<1>4. \A k \in 1..(j - 1) : p[k].a < a
  BY <1>1, <1>3
<1>5. j \in DOMAIN p /\ a <= p[j].a /\ \A k \in 1..(j - 1) : p[k].a < a
  BY <1>1, <1>3, <1>4
<1>. QED BY <1>1, <1>5 DEF Place

\* A sync point put in its place.
LEMMA Inserted ==
  ASSUME NEW TS, NEW p \in Timelines(TS), NEW a \in Int, TS <= a, a <= TimeMax,
         p[Place(p, a)].a # a
  PROVE  LET j == Place(p, a)
             q == InsertAt(p, j, Blank(a))
         IN /\ q \in Timelines(TS) /\ Len(q) = Len(p) + 1
            /\ j \in 1..Len(q) /\ q[j].a = a
            /\ \A b : Plans(p, b) => Plans(q, b)
<1>. DEFINE j == Place(p, a)
            q == InsertAt(p, j, Blank(a))
<1>1. /\ p \in Seq(Point) /\ Len(p) \in Nat /\ Len(p) >= 2
      /\ \A i \in 1..Len(p) : p[i] \in Point /\ p[i].a \in Int
      /\ p[1].a = TS /\ p[Len(p)].a = TimeMax
      /\ \A i, k \in 1..Len(p) : i < k => p[i].a < p[k].a
      /\ \A i \in 1..Len(p) : p[i].write_fof => p[i].write_snapshot
  BY TimelineFacts
<1>2. j \in 1..Len(p) /\ a < p[j].a /\ \A k \in 1..(j - 1) : p[k].a < a
  BY <1>1, PlaceFacts
<1>3. Blank(a) \in Point /\ Blank(a).a = a /\ ~Blank(a).write_fof
  BY DEF Blank, Point
<1>4. /\ q \in Seq(Point) /\ Len(q) = Len(p) + 1
      /\ \A i \in 1..(j - 1) : q[i] = p[i]
      /\ q[j] = Blank(a)
      /\ \A i \in j..Len(p) : q[i + 1] = p[i]
  <2>1. p \in Seq(Point) /\ j \in 1..Len(p) /\ Blank(a) \in Point
    BY <1>1, <1>2, <1>3
  <2>2. \A s \in Seq(Point), e \in Point, k \in 1..Len(p) :
          s = p => /\ InsertAt(s, k, e) \in Seq(Point)
                   /\ Len(InsertAt(s, k, e)) = Len(s) + 1
                   /\ \A i \in 1..(k - 1) : InsertAt(s, k, e)[i] = s[i]
                   /\ InsertAt(s, k, e)[k] = e
                   /\ \A i \in k..Len(s) : InsertAt(s, k, e)[i + 1] = s[i]
    BY InsertAtProperties
  <2>3. \A k \in 1..Len(p), e \in Point :
          /\ InsertAt(p, k, e) \in Seq(Point)
          /\ Len(InsertAt(p, k, e)) = Len(p) + 1
          /\ \A i \in 1..(k - 1) : InsertAt(p, k, e)[i] = p[i]
          /\ InsertAt(p, k, e)[k] = e
          /\ \A i \in k..Len(p) : InsertAt(p, k, e)[i + 1] = p[i]
    BY <2>1, <2>2, Zenon
  <2>. HIDE DEF j
  <2>. QED BY <2>1, <2>3, Zenon
<1>. HIDE DEF j, q
<1>5. j # 1 /\ j \in 2..Len(p)
  BY <1>1, <1>2
<1>6. /\ \A k \in 1..(j - 1) : k \in 1..Len(p) /\ q[k] = p[k] /\ p[k].a < a
      /\ \A k \in (j + 1)..Len(q) : k - 1 \in j..Len(p) /\ q[k] = p[k - 1]
  <2>1. \A k \in 1..(j - 1) : k \in 1..Len(p) /\ q[k] = p[k] /\ p[k].a < a
    BY <1>1, <1>2, <1>4
  <2>2. ASSUME NEW k \in (j + 1)..Len(q) PROVE k - 1 \in j..Len(p) /\ q[k] = p[k - 1]
    <3>1. PICK i \in j..Len(p) : i = k - 1 /\ i + 1 = k
      BY <1>1, <1>2, <1>4
    <3>2. q[i + 1] = p[i]
      BY <1>4
    <3>. QED BY <3>1, <3>2
  <2>. QED BY <2>1, <2>2
<1>7. \A k \in j..Len(p) : a < p[k].a
  BY <1>1, <1>2
<1>8. ASSUME NEW k \in 1..Len(q), NEW l \in 1..Len(q), k < l
      PROVE  q[k].a < q[l].a
  <2>1. CASE l < j
    <3>1. k \in 1..(j - 1) /\ l \in 1..(j - 1) /\ k < l
      BY <1>1, <1>5, <1>8, <2>1
    <3>2. k \in 1..Len(p) /\ l \in 1..Len(p) /\ q[k] = p[k] /\ q[l] = p[l]
      BY <1>6, <3>1
    <3>3. p[k].a < p[l].a
      BY <1>1, <3>1, <3>2
    <3>. QED BY <3>2, <3>3
  <2>2. CASE l = j
    BY <1>3, <1>4, <1>5, <1>6, <1>8, <2>2
  <2>3. CASE l > j /\ k < j
    <3>1. q[k] = p[k] /\ p[k].a < a /\ k \in 1..Len(p)
      BY <1>5, <1>6, <2>3
    <3>2. PICK i \in j..Len(p) : i = l - 1 /\ q[l] = p[i]
      BY <1>5, <1>6, <2>3
    <3>3. p[i].a \in Int /\ a < p[i].a /\ p[k].a \in Int
      BY <1>1, <1>5, <1>7, <3>1
    <3>. QED BY <3>1, <3>2, <3>3
  <2>4. CASE l > j /\ k = j
    <3>1. PICK i \in j..Len(p) : i = l - 1 /\ q[l] = p[i]
      BY <1>5, <1>6, <2>4
    <3>. QED BY <1>3, <1>4, <1>7, <2>4, <3>1
  <2>5. CASE l > j /\ k > j
    <3>1. PICK i \in j..Len(p) : i = l - 1 /\ q[l] = p[i]
      BY <1>5, <1>6, <2>5
    <3>2. PICK h \in j..Len(p) : h = k - 1 /\ q[k] = p[h]
      BY <1>5, <1>6, <2>5
    <3>3. h < i /\ h \in 1..Len(p) /\ i \in 1..Len(p)
      BY <1>5, <1>8, <3>1, <3>2
    <3>. QED BY <1>1, <3>1, <3>2, <3>3
  <2>. QED BY <1>4, <1>5, <2>1, <2>2, <2>3, <2>4, <2>5
<1>9. ASSUME NEW k \in 1..Len(q) PROVE q[k].write_fof => q[k].write_snapshot
  <2>1. CASE k < j
    BY <1>1, <1>5, <1>6, <2>1
  <2>2. CASE k = j
    BY <1>3, <1>4, <2>2
  <2>3. CASE k > j
    <3>1. PICK i \in j..Len(p) : i = k - 1 /\ q[k] = p[i]
      BY <1>5, <1>6, <2>3
    <3>. QED BY <1>1, <1>5, <3>1
  <2>. QED BY <1>5, <2>1, <2>2, <2>3
<1>10. Len(q) >= 2 /\ q[1].a = TS
  BY <1>1, <1>4, <1>5, 1 \in 1..(j - 1)
<1>11. q[Len(q)].a = TimeMax
  <2>1. Len(q) \in 1..Len(q) /\ Len(q) > j /\ Len(q) - 1 = Len(p)
    BY <1>1, <1>4, <1>5
  <2>2. q[Len(q)] = p[Len(q) - 1]
    BY <1>5, <1>6, <2>1
  <2>. QED BY <1>1, <2>1, <2>2
<1>12. q \in Timelines(TS)
  BY <1>4, <1>8, <1>9, <1>10, <1>11 DEF Timelines
<1>13. ASSUME NEW b, Plans(p, b) PROVE Plans(q, b)
  <2>1. PICK i \in 1..Len(p) : p[i].a = b /\ p[i].write_snapshot
    BY <1>13 DEF Plans
  <2>2. CASE i < j
    <3>1. i \in 1..Len(q) /\ q[i] = p[i]
      BY <1>1, <1>4, <1>5, <2>2
    <3>. QED BY <2>1, <3>1 DEF Plans
  <2>3. CASE i >= j
    <3>1. i + 1 \in 1..Len(q) /\ q[i + 1] = p[i]
      BY <1>1, <1>4, <1>5, <2>3
    <3>. QED BY <2>1, <3>1 DEF Plans
  <2>. QED BY <1>5, <2>2, <2>3
<1>14. j \in 1..Len(q) /\ q[j].a = a
  BY <1>1, <1>3, <1>4, <1>5
<1>. QED BY <1>4, <1>12, <1>13, <1>14 DEF j, q

\* A sync point that is changed at its place, but not in time, and that keeps
\* its snapshot.
LEMMA Changed ==
  ASSUME NEW TS, NEW p \in Timelines(TS), NEW j \in 1..Len(p), NEW x \in Point,
         x.a = p[j].a, p[j].write_snapshot => x.write_snapshot,
         x.write_fof => x.write_snapshot
  PROVE  LET q == [p EXCEPT ![j] = x]
         IN /\ q \in Timelines(TS) /\ Len(q) = Len(p) /\ q[j] = x
            /\ \A b : Plans(p, b) => Plans(q, b)
<1>. DEFINE q == [p EXCEPT ![j] = x]
<1>1. /\ p \in Seq(Point) /\ Len(p) \in Nat /\ Len(p) >= 2
      /\ p[1].a = TS /\ p[Len(p)].a = TimeMax
      /\ \A i, k \in 1..Len(p) : i < k => p[i].a < p[k].a
      /\ \A i \in 1..Len(p) : p[i].write_fof => p[i].write_snapshot
  BY TimelineFacts
<1>2. q \in Seq(Point) /\ Len(q) = Len(p)
  BY <1>1
<1>3. \A i \in 1..Len(p) : q[i] = IF i = j THEN x ELSE p[i]
  BY <1>1
<1>. HIDE DEF q
<1>4. \A i \in 1..Len(p) : /\ q[i].a = p[i].a
                           /\ p[i].write_snapshot => q[i].write_snapshot
                           /\ q[i].write_fof => q[i].write_snapshot
  BY <1>1, <1>3
<1>5. 1 \in 1..Len(p) /\ Len(p) \in 1..Len(p)
  BY <1>1
<1>6. \A i, k \in 1..Len(q) : i < k => q[i].a < q[k].a
  BY <1>1, <1>2, <1>4
<1>7. q \in Timelines(TS)
  BY <1>1, <1>2, <1>4, <1>5, <1>6 DEF Timelines
<1>8. \A b : Plans(p, b) => Plans(q, b)
  BY <1>2, <1>4 DEF Plans
<1>. QED BY <1>2, <1>3, <1>7, <1>8 DEF q

\* What AddPlane changes in a sync point.
LEMMA PointWithPlane ==
  ASSUME NEW m \in Point, NEW n \in Int, m.write_fof => m.write_snapshot
  PROVE  LET x == [m EXCEPT !.write_plane = TRUE, !.plane_snapnum = n]
         IN /\ x \in Point /\ x.a = m.a
            /\ m.write_snapshot => x.write_snapshot
            /\ x.write_fof => x.write_snapshot
<1>. DEFINE x == [m EXCEPT !.write_plane = TRUE, !.plane_snapnum = n]
<1>1. /\ x \in Point /\ x.a = m.a /\ x.write_snapshot = m.write_snapshot
      /\ x.write_fof = m.write_fof
  BY DEF Point
<1>. QED BY <1>1

\* A planned output keeps what was planned before; its snapshot is planned
\* when it is later than no_snapshot_until_time.
LEMMA AddOutputFacts ==
  ASSUME NEW TS, NEW p \in Timelines(TS), NEW until \in Int, NEW a \in Nat
  PROVE  LET q == AddOutput(TS, until, p, a)
         IN /\ q \in Timelines(TS)
            /\ \A b : Plans(p, b) => Plans(q, b)
            /\ TS <= a /\ a <= TimeMax /\ a > until => Plans(q, a)
<1>. DEFINE j == Place(p, a)
            s == IF p[j].a = a THEN p ELSE InsertAt(p, j, Blank(a))
            wanted == a > until
            x == [s[j] EXCEPT !.write_snapshot = @ \/ wanted,
                              !.write_fof = @ \/ (wanted /\ SnapshotWithFOF),
                              !.plane_snapnum = -1]
            q == AddOutput(TS, until, p, a)
<1>0. TS \in Int /\ TimeMax \in Int /\ SnapshotWithFOF \in BOOLEAN
  BY TimelineFacts, RunAssumption
<1>1. CASE a < TS \/ a > TimeMax
  <2>1. q = p
    BY <1>1 DEF AddOutput
  <2>2. ~(TS <= a /\ a <= TimeMax)
    BY <1>0, <1>1
  <2>. QED BY <2>1, <2>2, Zenon
<1>2. CASE TS <= a /\ a <= TimeMax
  <2>1. j \in 1..Len(p)
    BY <1>2, PlaceFacts
  <2>2. /\ s \in Timelines(TS) /\ j \in 1..Len(s) /\ s[j].a = a
        /\ \A b : Plans(p, b) => Plans(s, b)
    <3>1. CASE p[j].a = a
      <4>1. s = p
        BY <3>1
      <4>. HIDE DEF s, j
      <4>. QED BY <2>1, <3>1, <4>1, Zenon
    <3>2. CASE p[j].a # a
      BY <1>2, <3>2, Inserted
    <3>. QED BY <3>1, <3>2
  <2>3. q = [s EXCEPT ![j] = x]
    <3>1. ~(a < TS \/ a > TimeMax)
      BY <1>0, <1>2
    <3>2. q = [s EXCEPT ![j].write_snapshot = @ \/ wanted,
                        ![j].write_fof = @ \/ (wanted /\ SnapshotWithFOF),
                        ![j].plane_snapnum = -1]
      BY <3>1, Zenon DEF AddOutput
    <3>3. s \in Seq(Point) /\ j \in 1..Len(s) /\ s[j] \in Point
      <4>. HIDE DEF s, j
      <4>. QED BY <2>2, TimelineFacts
    <3>. HIDE DEF s, j, wanted, q
    <3>. QED BY <3>2, <3>3 DEF Point
  <2>. HIDE DEF s, j
  <2>4. s[j] \in Point /\ (s[j].write_fof => s[j].write_snapshot)
    BY <2>2, TimelineFacts
  <2>5. /\ x \in Point /\ x.a = s[j].a
        /\ s[j].write_snapshot => x.write_snapshot
        /\ x.write_fof => x.write_snapshot
        /\ wanted => x.write_snapshot
    <3>. DEFINE m == s[j]
                h == m.write_snapshot \/ wanted
                g == m.write_fof \/ (wanted /\ SnapshotWithFOF)
                b == [m EXCEPT !.write_snapshot = h]
                c == [b EXCEPT !.write_fof = g]
    <3>1. /\ h \in BOOLEAN /\ g \in BOOLEAN /\ (g => h)
          /\ (m.write_snapshot => h) /\ (wanted => h)
      BY <2>4, Zenon
    <3>2. x = [c EXCEPT !.plane_snapnum = -1]
      OBVIOUS
    <3>. HIDE DEF h, g, x
    <3>3. b \in Point /\ b.a = m.a /\ b.write_snapshot = h
      BY <2>4, <3>1 DEF Point
    <3>. HIDE DEF b
    <3>4. c \in Point /\ c.a = m.a /\ c.write_snapshot = h /\ c.write_fof = g
      BY <3>1, <3>3 DEF Point
    <3>. HIDE DEF c
    <3>5. x \in Point /\ x.a = m.a /\ x.write_snapshot = h /\ x.write_fof = g
      BY <3>2, <3>4 DEF Point
    <3>. QED BY <3>1, <3>5, Zenon
  <2>. HIDE DEF x, wanted
  <2>6. /\ q \in Timelines(TS) /\ Len(q) = Len(s) /\ q[j] = x
        /\ \A b : Plans(s, b) => Plans(q, b)
    <3>. HIDE DEF q
    <3>1. LET r == [s EXCEPT ![j] = x]
          IN /\ r \in Timelines(TS) /\ Len(r) = Len(s) /\ r[j] = x
             /\ \A b : Plans(s, b) => Plans(r, b)
      BY <2>2, <2>5, Changed
    <3>. QED BY <2>3, <3>1
  <2>7. a > until => Plans(q, a)
    <3>. HIDE DEF q
    <3>. QED BY <2>2, <2>5, <2>6 DEF wanted, Plans
  <2>. QED BY <2>2, <2>6, <2>7
<1>. QED BY <1>0, <1>1, <1>2

\* A plane keeps what was planned before.
LEMMA AddPlaneFacts ==
  ASSUME NEW TS, NEW p \in Timelines(TS), NEW i \in 1..Len(PlaneOutputList)
  PROVE  LET q == AddPlane(TS, p, i)
         IN /\ q \in Timelines(TS)
            /\ \A b : Plans(p, b) => Plans(q, b)
<1>. DEFINE a == PlaneOutputList[i]
            j == Place(p, a)
            s == IF p[j].a - a > PlaneTol THEN InsertAt(p, j, Blank(a)) ELSE p
            x == [s[j] EXCEPT !.write_plane = TRUE, !.plane_snapnum = i - 1]
            q == AddPlane(TS, p, i)
<1>0. TS \in Int /\ TimeMax \in Int /\ PlaneTol \in Nat /\ a \in Nat /\ i \in Int
  BY TimelineFacts, RunAssumption
<1>1. CASE a < TS \/ a > TimeMax
  <2>1. q = p
    BY <1>1 DEF AddPlane
  <2>. QED BY <2>1, Zenon
<1>2. CASE TS <= a /\ a <= TimeMax
  <2>1. j \in 1..Len(p) /\ p[j].a \in Int
    <3>. HIDE DEF a
    <3>. QED BY <1>0, <1>2, PlaceFacts, TimelineFacts
  <2>2. /\ s \in Timelines(TS) /\ j \in 1..Len(s)
        /\ \A b : Plans(p, b) => Plans(s, b)
    <3>. HIDE DEF a
    <3>1. CASE p[j].a - a > PlaneTol
      <4>1. p[j].a # a
        BY <1>0, <2>1, <3>1
      <4>. QED BY <1>0, <1>2, <3>1, <4>1, Inserted
    <3>2. CASE ~(p[j].a - a > PlaneTol)
      <4>1. s = p
        BY <3>2
      <4>. HIDE DEF s, j
      <4>. QED BY <2>1, <4>1, Zenon
    <3>. QED BY <3>1, <3>2
  <2>3. q = [s EXCEPT ![j] = x]
    <3>1. ~(a < TS \/ a > TimeMax)
      BY <1>0, <1>2
    <3>2. q = [s EXCEPT ![j].write_plane = TRUE, ![j].plane_snapnum = i - 1]
      BY <3>1, Zenon DEF AddPlane
    <3>3. s \in Seq(Point) /\ j \in 1..Len(s) /\ s[j] \in Point
      <4>. HIDE DEF s, j
      <4>. QED BY <2>2, TimelineFacts
    <3>. HIDE DEF s, j, q
    <3>. QED BY <3>2, <3>3 DEF Point
  <2>. HIDE DEF s, j
  <2>4. s[j] \in Point /\ (s[j].write_fof => s[j].write_snapshot)
    BY <2>2, TimelineFacts
  <2>5. /\ x \in Point /\ x.a = s[j].a
        /\ s[j].write_snapshot => x.write_snapshot
        /\ x.write_fof => x.write_snapshot
    <3>1. PICK m \in Point : m = s[j] /\ (m.write_fof => m.write_snapshot)
      BY <2>4
    <3>2. x = [m EXCEPT !.write_plane = TRUE, !.plane_snapnum = i - 1]
      BY <3>1
    <3>3. i - 1 \in Int
      BY <1>0
    <3>. HIDE DEF x
    <3>. QED BY <3>1, <3>2, <3>3, PointWithPlane
  <2>. HIDE DEF x, q
  <2>6. LET r == [s EXCEPT ![j] = x]
        IN r \in Timelines(TS) /\ \A b : Plans(s, b) => Plans(r, b)
    BY <2>2, <2>5, Changed
  <2>7. q \in Timelines(TS) /\ \A b : Plans(s, b) => Plans(q, b)
    BY <2>3, <2>6
  <2>8. q \in Timelines(TS) /\ \A b : Plans(p, b) => Plans(q, b)
    BY <2>2, <2>7
  <2>. QED BY <2>8 DEF q
<1>. QED BY <1>0, <1>1, <1>2

\* The planned snapshots later than until are in the table.
LEMMA OutputPointsFacts ==
  ASSUME NEW TS \in Int, TS < TimeMax, NEW until \in Int
  PROVE  /\ OutputPoints(TS, until) \in Timelines(TS)
         /\ \A i \in DOMAIN OutputList :
              TS <= OutputList[i] /\ OutputList[i] <= TimeMax /\ OutputList[i] > until
                => Plans(OutputPoints(TS, until), OutputList[i])
<1>. DEFINE N == Len(OutputList)
            base == <<Blank(TS), [Blank(TimeMax) EXCEPT !.write_snapshot = TRUE,
                                                        !.write_fof = TRUE]>>
            S == Timelines(TS)
            Next1(q, n) == AddOutput(TS, until, q, OutputList[n])
            step == [y \in S \X (1..N) |-> Next1(y[1], y[2])]
            Good(F) == F = [n \in 0..N |->
                              IF n = 0 THEN base
                              ELSE AddOutput(TS, until, F[n - 1], OutputList[n])]
            G == CHOOSE F : Good(F)
<1>1. N \in Nat /\ DOMAIN OutputList = 1..N /\ \A n \in 1..N : OutputList[n] \in Nat
  BY RunAssumption
<1>2. base \in S
  <2>1. Blank(TS) \in Point /\ Blank(TS).a = TS /\ ~Blank(TS).write_fof
    BY DEF Blank, Point
  <2>2. PICK e \in Point : /\ e = [Blank(TimeMax) EXCEPT !.write_snapshot = TRUE,
                                                         !.write_fof = TRUE]
                           /\ e.a = TimeMax /\ e.write_snapshot
    <3>. DEFINE m == Blank(TimeMax)
    <3>1. m \in Point /\ m.a = TimeMax
      BY RunAssumption DEF Blank, Point
    <3>. HIDE DEF m
    <3>. DEFINE c == [m EXCEPT !.write_snapshot = TRUE]
                f == [c EXCEPT !.write_fof = TRUE]
    <3>2. c \in Point /\ c.a = TimeMax /\ c.write_snapshot
      BY <3>1 DEF Point
    <3>. HIDE DEF c
    <3>3. f \in Point /\ f.a = TimeMax /\ f.write_snapshot
      BY <3>2 DEF Point
    <3>4. f = [Blank(TimeMax) EXCEPT !.write_snapshot = TRUE, !.write_fof = TRUE]
      BY Zenon DEF c, m
    <3>. HIDE DEF f
    <3>. QED BY <3>3, <3>4
  <2>3. PICK d \in Point : d = Blank(TS) /\ d.a = TS /\ ~d.write_fof
    BY <2>1
  <2>4. PICK b : b = <<d, e>>
    OBVIOUS
  <2>5. b \in Seq(Point) /\ Len(b) = 2 /\ b[1] = d /\ b[2] = e
    BY <2>4
  <2>6. b \in S
    <3>1. \A i \in 1..2 : i = 1 \/ i = 2
      OBVIOUS
    <3>2. \A i, k \in 1..2 : i < k => i = 1 /\ k = 2
      OBVIOUS
    <3>3. \A i, k \in 1..Len(b) : i < k => b[i].a < b[k].a
      BY <2>2, <2>3, <2>5, <3>2
    <3>4. \A i \in 1..Len(b) : b[i].write_fof => b[i].write_snapshot
      BY <2>2, <2>3, <2>5, <3>1
    <3>5. b[1].a = TS /\ b[Len(b)].a = TimeMax /\ Len(b) >= 2
      BY <2>2, <2>3, <2>5
    <3>. QED BY <2>5, <3>3, <3>4, <3>5, Zenon DEF Timelines
  <2>. QED BY <2>2, <2>3, <2>4, <2>6
<1>3. \A q \in S, n \in 1..N : Next1(q, n) \in S
  BY <1>1, AddOutputFacts
<1>. HIDE DEF base
<1>4. PICK F : Unfolds(F, S, N, base, step)
  <2>1. step \in [S \X (1..N) -> S]
    <3>. HIDE DEF Next1, S, N
    <3>. QED BY <1>3
  <2>. HIDE DEF step, S, N
  <2>. QED BY <1>1, <1>2, <2>1, RecurrenceExists
<1>a. F \in [0..N -> S] /\ F[0] = base /\ \A n \in 1..N : F[n] = step[<<F[n-1], n>>]
  BY <1>4 DEF Unfolds
<1>5. Good(F)
  <2>1. \A n \in 1..N : F[n] = AddOutput(TS, until, F[n - 1], OutputList[n])
    <3>. SUFFICES ASSUME NEW n \in 1..N
                  PROVE  F[n] = AddOutput(TS, until, F[n - 1], OutputList[n])
      OBVIOUS
    <3>1. n - 1 \in 0..N /\ F[n - 1] \in S
      BY <1>1, <1>a
    <3>2. PICK q \in S : q = F[n - 1]
      BY <3>1
    <3>. HIDE DEF S, N
    <3>3. step[<<q, n>>] = AddOutput(TS, until, q, OutputList[n])
      OBVIOUS
    <3>. QED BY <1>a, <3>2, <3>3
  <2>2. DOMAIN F = 0..N /\ F = [n \in 0..N |-> F[n]]
    BY <1>a
  <2>3. \A n \in 0..N : F[n] = IF n = 0 THEN base
                               ELSE AddOutput(TS, until, F[n - 1], OutputList[n])
    BY <1>1, <1>a, <2>1
  <2>. QED BY <2>2, <2>3
<1>6. Good(G)
  <2>. HIDE DEF Good
  <2>. QED BY <1>5
<1>7. OutputPoints(TS, until) = G[N]
  BY DEF OutputPoints, base
<1>. HIDE DEF G
<1>8. /\ G[0] = base
      /\ \A n \in 1..N : G[n] = AddOutput(TS, until, G[n - 1], OutputList[n])
  BY <1>1, <1>6
<1>. DEFINE Wanted(n) == TS <= OutputList[n] /\ OutputList[n] <= TimeMax /\ OutputList[n] > until
            Has(n) == G[n] \in S /\ \A k \in 1..n : Wanted(k) => Plans(G[n], OutputList[k])
            T == {n \in Nat : n <= N => Has(n)}
<1>9. 0 \in T
  BY <1>2, <1>8
<1>10. ASSUME NEW n \in Nat, n \in T PROVE n + 1 \in T
  <2>. SUFFICES ASSUME n + 1 <= N PROVE Has(n + 1)
    OBVIOUS
  <2>1. Has(n) /\ n + 1 \in 1..N /\ (n + 1) - 1 = n /\ OutputList[n + 1] \in Nat
    BY <1>1, <1>10
  <2>2. G[n + 1] = AddOutput(TS, until, G[n], OutputList[n + 1])
    BY <1>8, <2>1
  <2>3. /\ G[n + 1] \in S
        /\ \A b : Plans(G[n], b) => Plans(G[n + 1], b)
        /\ Wanted(n + 1) => Plans(G[n + 1], OutputList[n + 1])
    BY <2>1, <2>2, AddOutputFacts
  <2>4. \A k \in 1..(n + 1) : k \in 1..n \/ k = n + 1
    OBVIOUS
  <2>. HIDE DEF Wanted, S
  <2>. QED BY <2>1, <2>3, <2>4, Zenon
<1>11. N \in T
  <2>. HIDE DEF T, N
  <2>. QED BY <1>1, <1>9, <1>10, NatSetInduction
<1>12. Has(N)
  <2>. HIDE DEF Has, N
  <2>. QED BY <1>1, <1>11
<1>. QED BY <1>1, <1>7, <1>12

\* And stay there when the planes are added.
LEMMA SetupFacts ==
  ASSUME NEW TS \in Int, TS < TimeMax, NEW until \in Int
  PROVE  /\ setup_sync_points(TS, until) \in Timelines(TS)
         /\ \A i \in DOMAIN OutputList :
              TS <= OutputList[i] /\ OutputList[i] <= TimeMax /\ OutputList[i] > until
                => Plans(setup_sync_points(TS, until), OutputList[i])
<1>. DEFINE N == Len(PlaneOutputList)
            base == OutputPoints(TS, until)
            S == Timelines(TS)
            Next1(q, n) == AddPlane(TS, q, n)
            step == [y \in S \X (1..N) |-> Next1(y[1], y[2])]
            Good(F) == F = [n \in 0..N |-> IF n = 0 THEN base
                                           ELSE AddPlane(TS, F[n - 1], n)]
            G == CHOOSE F : Good(F)
<1>1. N \in Nat
  BY RunAssumption
<1>2. base \in S
  BY OutputPointsFacts
<1>3. \A q \in S, n \in 1..N : Next1(q, n) \in S
  BY AddPlaneFacts
<1>4. PICK F : Unfolds(F, S, N, base, step)
  <2>1. step \in [S \X (1..N) -> S]
    <3>. HIDE DEF Next1, S, N
    <3>. QED BY <1>3
  <2>. HIDE DEF step, S, N, base
  <2>. QED BY <1>1, <1>2, <2>1, RecurrenceExists
<1>a. F \in [0..N -> S] /\ F[0] = base /\ \A n \in 1..N : F[n] = step[<<F[n-1], n>>]
  BY <1>4 DEF Unfolds
<1>. HIDE DEF base
<1>5. Good(F)
  <2>1. \A n \in 1..N : F[n] = AddPlane(TS, F[n - 1], n)
    <3>. SUFFICES ASSUME NEW n \in 1..N
                  PROVE  F[n] = AddPlane(TS, F[n - 1], n)
      OBVIOUS
    <3>1. n - 1 \in 0..N /\ F[n - 1] \in S
      BY <1>1, <1>a
    <3>2. PICK q \in S : q = F[n - 1]
      BY <3>1
    <3>. HIDE DEF S, N
    <3>3. step[<<q, n>>] = AddPlane(TS, q, n)
      OBVIOUS
    <3>. QED BY <1>a, <3>2, <3>3
  <2>2. DOMAIN F = 0..N /\ F = [n \in 0..N |-> F[n]]
    BY <1>a
  <2>3. \A n \in 0..N : F[n] = IF n = 0 THEN base ELSE AddPlane(TS, F[n - 1], n)
    BY <1>1, <1>a, <2>1
  <2>. QED BY <2>2, <2>3
<1>6. Good(G)
  <2>. HIDE DEF Good
  <2>. QED BY <1>5
<1>7. setup_sync_points(TS, until) = G[N]
  BY DEF setup_sync_points, base
<1>. HIDE DEF G
<1>8. /\ G[0] = base
      /\ \A n \in 1..N : G[n] = AddPlane(TS, G[n - 1], n)
  BY <1>1, <1>6
<1>. DEFINE Has(n) == G[n] \in S /\ \A b : Plans(base, b) => Plans(G[n], b)
            T == {n \in Nat : n <= N => Has(n)}
<1>9. 0 \in T
  BY <1>2, <1>8
<1>10. ASSUME NEW n \in Nat, n \in T PROVE n + 1 \in T
  <2>. SUFFICES ASSUME n + 1 <= N PROVE Has(n + 1)
    OBVIOUS
  <2>1. Has(n) /\ n + 1 \in 1..N /\ (n + 1) - 1 = n
    BY <1>1, <1>10
  <2>2. G[n + 1] = AddPlane(TS, G[n], n + 1)
    BY <1>8, <2>1
  <2>3. /\ G[n + 1] \in S
        /\ \A b : Plans(G[n], b) => Plans(G[n + 1], b)
    BY <2>1, <2>2, AddPlaneFacts
  <2>. QED BY <2>1, <2>3, Zenon
<1>11. N \in T
  <2>. HIDE DEF T, N
  <2>. QED BY <1>1, <1>9, <1>10, NatSetInduction
<1>12. Has(N)
  <2>. HIDE DEF Has, N
  <2>. QED BY <1>1, <1>11
<1>13. \A i \in DOMAIN OutputList :
         TS <= OutputList[i] /\ OutputList[i] <= TimeMax /\ OutputList[i] > until
           => Plans(base, OutputList[i])
  BY OutputPointsFacts DEF base
<1>. QED BY <1>7, <1>12, <1>13

----------------------------------------------------------------------------
(* Times between the sync points.                                          *)

\* The integer time of sync point n, and of the last.
Ti(n)  == (n - 1) * TIMEBASE
End(p) == Ti(Len(p))

\* It grows with n, by TIMEBASE at each.
LEMMA PlaceOrder ==
  ASSUME NEW m \in Int, NEW n \in Int
  PROVE  /\ Ti(m) \in Int /\ Ti(1) = 0 /\ Ti(m + 1) = Ti(m) + TIMEBASE
         /\ m <= n => Ti(m) <= Ti(n)
         /\ m < n => Ti(m) + TIMEBASE <= Ti(n)
         /\ Ti(m) < Ti(n) => m < n
         /\ Ti(m) <= Ti(n) => m <= n
<1>1. TIMEBASE \in Nat \ {0}
  BY RunAssumption
<1>2. PICK x \in Int, y \in Int : x = m - 1 /\ y = n - 1
  OBVIOUS
<1>3. x <= y => x * TIMEBASE <= y * TIMEBASE
  BY <1>1, Z3
<1>4. x + 1 <= y => (x + 1) * TIMEBASE <= y * TIMEBASE
  BY <1>1, Z3
<1>5. (x + 1) * TIMEBASE = x * TIMEBASE + TIMEBASE /\ (y + 1) * TIMEBASE = y * TIMEBASE + TIMEBASE
  BY <1>1, Z3
<1>6. y <= x => y * TIMEBASE <= x * TIMEBASE
  BY <1>1, Z3
<1>7. y + 1 <= x => (y + 1) * TIMEBASE <= x * TIMEBASE
  BY <1>1, Z3
<1>8. x * TIMEBASE \in Int /\ y * TIMEBASE \in Int /\ 0 * TIMEBASE = 0
  BY <1>1
<1>9. /\ Ti(m) = x * TIMEBASE /\ Ti(n) = y * TIMEBASE /\ Ti(1) = 0
      /\ Ti(m + 1) = (x + 1) * TIMEBASE
  <2>1. (m + 1) - 1 = x + 1 /\ 1 - 1 = 0
    BY <1>2
  <2>. QED BY <1>2, <1>8, <2>1 DEF Ti
<1>10. PICK u \in Int, v \in Int : u = x * TIMEBASE /\ v = y * TIMEBASE
  BY <1>8
<1>11. /\ u = Ti(m) /\ v = Ti(n) /\ Ti(1) = 0 /\ Ti(m + 1) = u + TIMEBASE
  BY <1>5, <1>9, <1>10, Zenon
<1>12. /\ m <= n => u <= v
       /\ m < n => u + TIMEBASE <= v
       /\ n <= m => v <= u
       /\ n < m => v + TIMEBASE <= u
  BY <1>1, <1>2, <1>3, <1>4, <1>5, <1>6, <1>7, <1>10
<1>. QED BY <1>1, <1>11, <1>12

\* Integer times keep the order of the sync points.
LEMMA LogaFacts ==
  ASSUME NEW TS, NEW p \in Timelines(TS), NEW ti \in 0..End(p)
  PROVE  /\ loga_from_ti(p, ti) \in Int
         /\ TS <= loga_from_ti(p, ti) /\ loga_from_ti(p, ti) <= TimeMax
         /\ \A n \in 1..Len(p) : Ti(n) > ti => loga_from_ti(p, ti) < p[n].a
         /\ \A n \in 1..Len(p) : Ti(n) = ti => loga_from_ti(p, ti) = p[n].a
<1>. DEFINE q == ti \div TIMEBASE
            r == ti % TIMEBASE
            L == loga_from_ti(p, ti)
<1>1. TIMEBASE \in Nat \ {0} /\ TimeMax \in Nat
  BY RunAssumption
<1>2. /\ Len(p) \in Nat /\ Len(p) >= 2 /\ \A i \in 1..Len(p) : p[i].a \in Int
      /\ p[1].a = TS /\ p[Len(p)].a = TimeMax /\ TS \in Int /\ TS < TimeMax
      /\ \A i, j \in 1..Len(p) : i < j => p[i].a < p[j].a
  BY TimelineFacts
<1>3. End(p) \in Nat /\ ti \in Nat /\ ti <= End(p)
  <2>1. Ti(1) <= Ti(Len(p)) /\ Ti(1) = 0 /\ Ti(Len(p)) \in Int
    BY <1>2, PlaceOrder
  <2>. QED BY <2>1 DEF End
<1>4. q \in Nat /\ r \in 0..(TIMEBASE - 1) /\ ti = Ti(q + 1) + r
  <2>1. q \in Nat /\ r \in 0..(TIMEBASE - 1) /\ ti = TIMEBASE * q + r
    BY <1>1, <1>3, Z3
  <2>. HIDE DEF q, r
  <2>2. TIMEBASE * q = q * TIMEBASE /\ (q + 1) - 1 = q
    BY <1>1, <2>1, Z3
  <2>. QED BY <2>1, <2>2 DEF Ti
<1>5. L = IF q + 1 = Len(p) THEN p[q + 1].a
          ELSE p[q + 1].a + (r * (p[q + 2].a - p[q + 1].a)) \div TIMEBASE
  <2>1. (q + 1) + 1 = q + 2
    BY <1>4
  <2>. HIDE DEF q, r
  <2>2. L = IF q + 1 = Len(p) THEN p[q + 1].a
          ELSE p[q + 1].a + (r * (p[(q + 1) + 1].a - p[q + 1].a)) \div TIMEBASE
    BY Zenon DEF loga_from_ti, q, r
  <2>. QED BY <2>1, <2>2, Zenon
<1>. HIDE DEF q, r, L
<1>6. q + 1 \in 1..Len(p)
  <2>1. Ti(q + 1) <= Ti(Len(p))
    <3>1. Ti(q + 1) \in Int
      BY <1>4, PlaceOrder
    <3>. QED BY <1>3, <1>4, <3>1 DEF End
  <2>2. q + 1 <= Len(p)
    BY <1>2, <1>4, <2>1, PlaceOrder
  <2>. QED BY <1>2, <1>4, <2>2
\* The order of ti and a sync point is that of q + 1 and its number.
<1>7. ASSUME NEW n \in 1..Len(p)
      PROVE  /\ Ti(n) > ti => n > q + 1
             /\ Ti(n) = ti => n = q + 1 /\ r = 0
  <2>1. n \in Int /\ q + 1 \in Int
    BY <1>2, <1>4
  <2>2. Ti(n) \in Int /\ Ti(q + 1) \in Int
    BY <2>1, PlaceOrder
  <2>3. n <= q + 1 => Ti(n) <= Ti(q + 1)
    BY <2>1, PlaceOrder
  <2>4. q + 1 < n => Ti(q + 1) + TIMEBASE <= Ti(n)
    BY <2>1, PlaceOrder
  <2>5. n < q + 1 => Ti(n) + TIMEBASE <= Ti(q + 1)
    BY <2>1, PlaceOrder
  <2>6. n = q + 1 => Ti(n) = Ti(q + 1)
    OBVIOUS
  <2>. QED BY <1>1, <1>4, <2>1, <2>2, <2>3, <2>4, <2>5, <2>6
<1>8. CASE q + 1 = Len(p)
  <2>1. L = TimeMax
    BY <1>2, <1>5, <1>8
  <2>2. \A n \in 1..Len(p) : ~(Ti(n) > ti)
    BY <1>2, <1>7, <1>8
  <2>3. \A n \in 1..Len(p) : Ti(n) = ti => n = Len(p)
    BY <1>7, <1>8
  <2>. QED BY <1>1, <1>2, <2>1, <2>2, <2>3 DEF L
<1>9. CASE q + 1 # Len(p)
  <2>. DEFINE D == p[q + 2].a - p[q + 1].a
              e == Scaled(r, D, TIMEBASE)
  <2>1. q + 1 \in 1..Len(p) /\ q + 2 \in 1..Len(p) /\ q + 1 < q + 2
    BY <1>2, <1>4, <1>6, <1>9
  <2>2. PICK A \in Int, B \in Int : A = p[q + 1].a /\ B = p[q + 2].a /\ A < B
    BY <1>2, <2>1
  <2>3. D = B - A /\ D \in Nat \ {0}
    BY <2>2
  <2>4. L = A + e
    BY <1>5, <1>9, <2>2, Zenon DEF Scaled
  <2>5. e \in 0..D /\ e < D /\ (r = 0 => e = 0)
    <3>1. r \in 0..TIMEBASE /\ r < TIMEBASE
      BY <1>1, <1>4
    <3>. HIDE DEF D
    <3>. QED BY <1>1, <2>3, <3>1, ScaleBounds
  <2>. HIDE DEF e, D
  <2>6. L \in Int /\ A <= L /\ L < B /\ (r = 0 => L = A)
    BY <2>2, <2>3, <2>4, <2>5
  <2>7. TS <= A /\ B <= TimeMax
    <3>1. /\ 1 \in 1..Len(p) /\ Len(p) \in 1..Len(p)
          /\ 1 = q + 1 \/ 1 < q + 1
          /\ q + 2 = Len(p) \/ q + 2 < Len(p)
      BY <1>2, <1>4, <2>1
    <3>2. p[1].a = TS /\ p[Len(p)].a = TimeMax /\ TS \in Int /\ TimeMax \in Int
      BY <1>2, RunAssumption
    <3>3. TS = A \/ TS < A
      BY <1>2, <2>1, <2>2, <3>1, <3>2
    <3>4. B = TimeMax \/ B < TimeMax
      BY <1>2, <2>1, <2>2, <3>1, <3>2
    <3>. QED BY <2>2, <3>2, <3>3, <3>4
  <2>8. ASSUME NEW n \in 1..Len(p), n > q + 1 PROVE L < p[n].a
    <3>1. B <= p[n].a /\ p[n].a \in Int
      <4>1. n = q + 2 \/ q + 2 < n
        BY <1>2, <1>4, <2>8
      <4>2. B = p[n].a \/ B < p[n].a
        BY <1>2, <2>1, <2>2, <4>1
      <4>3. p[n].a \in Int
        BY <1>2
      <4>. QED BY <2>2, <4>2, <4>3
    <3>. QED BY <2>2, <2>6, <3>1
  <2>9. ASSUME NEW n \in 1..Len(p), n = q + 1, r = 0 PROVE L = p[n].a
    BY <2>2, <2>6, <2>9
  <2>10. L \in Int /\ TS <= L /\ L <= TimeMax
    BY <1>1, <1>2, <2>2, <2>6, <2>7
  <2>. QED BY <1>7, <2>8, <2>9, <2>10 DEF L
<1>. QED BY <1>8, <1>9

\* And back.
LEMMA TiFacts ==
  ASSUME NEW TS, NEW p \in Timelines(TS), NEW t \in Int, TS <= t, t <= TimeMax
  PROVE  /\ ti_from_loga(p, t) \in 0..End(p)
         /\ \A n \in 1..Len(p) : t < p[n].a => ti_from_loga(p, t) < Ti(n)
         /\ \A n \in 1..Len(p) : t <= p[n].a => ti_from_loga(p, t) <= Ti(n)
         /\ t = TimeMax => ti_from_loga(p, t) = End(p)
<1>. DEFINE later == {i \in 2..(Len(p) - 1) : p[i].a > t}
            I == IF later = {} THEN Len(p)
                 ELSE CHOOSE k \in later : \A l \in later : k <= l
            e == ((t - p[I - 1].a) * TIMEBASE) \div (p[I].a - p[I - 1].a)
            R == ti_from_loga(p, t)
<1>1. TIMEBASE \in Nat \ {0} /\ TimeMax \in Nat
  BY RunAssumption
<1>2. /\ Len(p) \in Nat /\ Len(p) >= 2 /\ \A i \in 1..Len(p) : p[i].a \in Int
      /\ p[1].a = TS /\ p[Len(p)].a = TimeMax /\ TS \in Int /\ TS < TimeMax
      /\ \A i, j \in 1..Len(p) : i < j => p[i].a < p[j].a
  BY TimelineFacts
<1>3. R = (I - 2) * TIMEBASE + e
  BY Zenon DEF ti_from_loga
<1>4. later # {} => I \in later /\ \A l \in later : I <= l
  <2>1. ASSUME later # {} PROVE \E k \in later : \A l \in later : k <= l
    <3>1. later \subseteq Nat
      OBVIOUS
    <3>. HIDE DEF later
    <3>. QED BY <2>1, <3>1, LeastNat
  <2>. HIDE DEF later
  <2>. QED BY <2>1
<1>5. later = {} => I = Len(p)
  OBVIOUS
<1>. HIDE DEF I, R
<1>6. I \in 2..Len(p)
  BY <1>2, <1>4, <1>5
<1>7. PICK A \in Int, B \in Int : A = p[I - 1].a /\ B = p[I].a /\ A < B
  BY <1>2, <1>6
<1>8. A <= t /\ (t < B \/ (I = Len(p) /\ t <= B /\ B = TimeMax))
  <2>1. CASE later = {}
    <3>1. I - 1 = 1 \/ I - 1 \in 2..(Len(p) - 1)
      BY <1>2, <1>5, <2>1
    <3>2. A <= t
      BY <1>2, <1>7, <2>1, <3>1
    <3>. QED BY <1>2, <1>5, <1>7, <2>1, <3>2
  <2>2. CASE later # {}
    <3>1. I - 1 = 1 \/ I - 1 \in 2..(Len(p) - 1)
      BY <1>2, <1>4, <2>2
    <3>2. I - 1 \notin later
      BY <1>4, <1>6, <2>2
    <3>3. A <= t
      <4>1. CASE I - 1 = 1
        BY <1>2, <1>7, <4>1
      <4>2. CASE I - 1 \in 2..(Len(p) - 1)
        <5>1. ~(p[I - 1].a > t)
          BY <3>2, <4>2
        <5>. QED BY <1>7, <5>1
      <4>. QED BY <3>1, <4>1, <4>2
    <3>. QED BY <1>4, <1>7, <2>2, <3>3
  <2>. QED BY <2>1, <2>2
<1>9. /\ e \in 0..TIMEBASE /\ (t < B => e < TIMEBASE)
      /\ (t = A => e = 0) /\ (t = B => e = TIMEBASE)
  <2>. DEFINE d == B - A
              x == t - A
  <2>1. d \in Nat \ {0} /\ x \in 0..d /\ (t < B => x < d) /\ (t = A => x = 0) /\ (t = B => x = d)
    <3>1. A \in Int /\ B \in Int /\ t \in Int /\ A < B /\ A <= t /\ t <= B
      BY <1>7, <1>8
    <3>. QED BY <3>1
  <2>2. e = Scaled(x, TIMEBASE, d)
    BY <1>7, Zenon DEF Scaled
  <2>. HIDE DEF d, x, e
  <2>. QED BY <1>1, <2>1, <2>2, ScaleBounds
<1>. HIDE DEF e
<1>10. Ti(I - 1) \in Int /\ Ti(I) \in Int /\ Ti(I) = Ti(I - 1) + TIMEBASE /\ 0 <= Ti(I - 1)
  <2>1. I - 1 \in Int /\ (I - 1) + 1 = I /\ 1 <= I - 1
    BY <1>6
  <2>2. Ti(I - 1) \in Int /\ Ti((I - 1) + 1) = Ti(I - 1) + TIMEBASE
    BY <2>1, PlaceOrder
  <2>4. Ti(I) \in Int
    BY <1>6, PlaceOrder
  <2>3. Ti(1) <= Ti(I - 1) /\ Ti(1) = 0
    BY <2>1, PlaceOrder
  <2>. QED BY <2>1, <2>2, <2>3, <2>4
<1>a. R = Ti(I - 1) + e
  <2>1. (I - 1) - 1 = I - 2
    BY <1>6
  <2>. QED BY <1>3, <2>1 DEF Ti
<1>11. R \in Int /\ Ti(I - 1) <= R /\ R <= Ti(I)
       /\ (t < B => R < Ti(I)) /\ (t = A => R = Ti(I - 1))
       /\ (t = B => R = Ti(I))
  BY <1>1, <1>a, <1>9, <1>10
<1>12. R \in 0..End(p)
  <2>1. Ti(I) <= Ti(Len(p)) /\ Ti(Len(p)) \in Int
    BY <1>2, <1>6, PlaceOrder
  <2>. QED BY <1>10, <1>11, <2>1 DEF End
<1>13. ASSUME NEW n \in 1..Len(p), n >= I
       PROVE  Ti(I) <= Ti(n) /\ Ti(n) \in Int
  <2>1. I \in Int /\ n \in Int /\ I <= n
    BY <1>6, <1>13
  <2>. QED BY <2>1, PlaceOrder
<1>14. ASSUME NEW n \in 1..Len(p), n < I PROVE p[n].a <= A /\ (n # I - 1 => p[n].a < A)
  <2>1. I - 1 \in 1..Len(p) /\ n <= I - 1
    BY <1>6, <1>14
  <2>. QED BY <1>2, <1>7, <2>1
<1>15. ASSUME NEW n \in 1..Len(p), t < p[n].a PROVE R < Ti(n)
  <2>1. n >= I
    BY <1>2, <1>6, <1>7, <1>8, <1>14, <1>15, SMTT(30)
  <2>2. t < B
    <3>1. CASE I = Len(p) /\ B = TimeMax
      BY <1>2, <1>15, <2>1, <3>1
    <3>. QED BY <1>8, <3>1
  <2>. QED BY <1>10, <1>11, <1>13, <2>1, <2>2
<1>16. ASSUME NEW n \in 1..Len(p), t <= p[n].a PROVE R <= Ti(n)
  <2>1. CASE n >= I
    BY <1>10, <1>11, <1>13, <2>1
  <2>2. CASE n < I
    <3>1. p[n].a = A /\ t = A /\ n = I - 1
      BY <1>2, <1>6, <1>7, <1>8, <1>14, <1>16, <2>2
    <3>. QED BY <1>10, <1>11, <3>1
  <2>. QED BY <1>6, <2>1, <2>2
<1>17. ASSUME t = TimeMax PROVE R = End(p)
  <2>1. B <= TimeMax /\ (I < Len(p) => B < TimeMax)
    <3>1. /\ I \in 1..Len(p) /\ Len(p) \in 1..Len(p)
          /\ I = Len(p) \/ I < Len(p)
      BY <1>2, <1>6
    <3>2. p[I].a = B /\ B \in Int /\ p[Len(p)].a = TimeMax
      BY <1>2, <1>7
    <3>3. I < Len(p) => B < TimeMax
      BY <1>2, <3>1, <3>2
    <3>4. I = Len(p) => B = TimeMax
      BY <3>2
    <3>5. TimeMax \in Int
      BY <1>2, <3>1, <3>2
    <3>6. B = TimeMax \/ B < TimeMax
      BY <3>1, <3>3, <3>4
    <3>. QED BY <3>2, <3>3, <3>5, <3>6, SMT
  <2>2. I = Len(p) /\ t = B
    BY <1>1, <1>6, <1>7, <1>8, <1>17, <2>1
  <2>. QED BY <1>11, <2>2 DEF End
<1>. QED BY <1>12, <1>15, <1>16, <1>17 DEF R

\* A PM step does not pass a sync point.
LEMMA PMLengthFacts ==
  ASSUME NEW d \in PMLengths, Ti_Current \in Nat, NEW n \in Nat \ {0}, Ti_Current < Ti(n)
  PROVE  d \in Nat /\ Ti_Current + d <= Ti(n)
<1>1. TIMEBASE \in Nat \ {0} /\ d \in Nat \ {0} /\ (Ti_Current % TIMEBASE) % d = 0
  BY RunAssumption DEF PMLengths
<1>2. PICK k \in 0..20 : d * 2^k = TIMEBASE
  BY <1>1 DEF PMLengths, IsPowerOfTwoPart
<1>3. 2^k \in Int
  BY SMT
<1>4. PICK h \in Int : d * h = TIMEBASE
  BY <1>2, <1>3
<1>5. h \in Nat
  <2>1. h < 0 => d * h < 0
    BY <1>1, Z3
  <2>. QED BY <1>1, <1>4, <2>1
<1>6. PICK q \in Nat, r \in 0..TIMEBASE-1 : Ti_Current = TIMEBASE * q + r /\ Ti_Current % TIMEBASE = r
  BY <1>1, DivMod
<1>b. r \in Nat
  BY <1>1, <1>6
<1>7. PICK u \in Nat, v \in 0..d-1 : r = d * u + v /\ r % d = v
  BY <1>1, <1>b, DivMod
<1>8. Ti_Current % d = 0
  <2>1. r = d * u
    BY <1>1, <1>6, <1>7
  <2>2. TIMEBASE * q = d * (h * q)
    BY <1>1, <1>4, <1>5, Z3
  <2>3. d * (h * q) + d * u = d * (h * q + u)
    BY <1>1, <1>5, Z3
  <2>4. h * q + u \in Nat
    BY <1>5
  <2>5. Ti_Current = d * (h * q + u) + 0
    BY <1>6, <2>1, <2>2, <2>3, <2>4
  <2>6. (d * (h * q + u) + 0) % d = 0
    BY <1>1, <2>4, ModUnique
  <2>. QED BY <2>5, <2>6
<1>9. Ti(n) \in Nat /\ Ti(n) % d = 0
  <2>1. PICK m \in Nat : m = n - 1
    OBVIOUS
  <2>2. m * TIMEBASE = d * (h * m) + 0
    BY <1>1, <1>4, <1>5, Z3
  <2>3. h * m \in Nat /\ m * TIMEBASE \in Nat
    BY <1>1, <1>5
  <2>4. (d * (h * m) + 0) % d = 0
    BY <1>1, <2>3, ModUnique
  <2>. QED BY <2>1, <2>2, <2>3, <2>4 DEF Ti
<1>. QED BY <1>1, <1>8, <1>9, ModBetween

----------------------------------------------------------------------------
(* The inductive invariant.                                                *)

Labels  == {"down", "advance", "query", "physics", "snapshot", "groups",
            "plane", "decide"}
Stamps  == Nat \X Int
Contents == [header : Stamps, blocks : [1..Blocks -> Stamps]]
Actions == [type : Files \cup {"none", "timeout", "auto"}, write_snapshot : BOOLEAN,
            write_fof : BOOLEAN, write_plane : BOOLEAN]

TypeInv ==
  /\ pc \in Labels /\ starts \in Nat /\ block \in Nat
  /\ NumCurrentTiStep \in {0, 1} /\ SnapshotFileCount \in Int
  /\ Snapshots \in Seq([num : Nat, time : Int])
  /\ \A name \in DOMAIN dir : dir[name] \in Contents
  /\ action \in Actions
  /\ Write \in [snapshot : BOOLEAN, fof : BOOLEAN, plane : BOOLEAN]

\* A process has a table of sync points and is in it; it goes on only when
\* there is a next one.
TimeInv ==
  pc # "down" =>
    /\ starts >= 1
    /\ \E TS \in TimeIC..(TimeMax - 1) : SyncPoints \in Timelines(TS)
    /\ Ti_Current \in 0..End(SyncPoints)
    /\ NumCurrentTiStep = 0 => pc = "advance"
    /\ pc = "advance" /\ NumCurrentTiStep = 1
         => \E n \in 1..Len(SyncPoints) : Ti(n) > Ti_Current

\* What is listed is complete, its numbers grow, and groups are only there
\* for what is listed.
Complete(i) ==
  LET num == Snapshots[i].num IN
  /\ PART(num) \in DOMAIN dir
  /\ IsWhole(dir[PART(num)])
  /\ dir[PART(num)].header[2] = Snapshots[i].time
  /\ Snapshots[i].time \in TimeIC..TimeMax
  /\ PIG(num) \in DOMAIN dir =>
       \A b \in 1..Blocks : dir[PIG(num)].blocks[b] \in {None, dir[PART(num)].header}

DiskInv ==
  /\ \A i \in 1..Len(Snapshots) : Complete(i)
  /\ \A i, j \in 1..Len(Snapshots) : i < j => Snapshots[i].num < Snapshots[j].num
  /\ \A num \in Nat : PIG(num) \in DOMAIN dir =>
       \E i \in 1..Len(Snapshots) : Snapshots[i].num = num

\* The number that is given next is not listed.
CountInv ==
  pc # "down" =>
    /\ SnapshotFileCount >= -1
    /\ \A i \in 1..Len(Snapshots) : Snapshots[i].num <= SnapshotFileCount
    /\ pc = "snapshot" =>
         /\ SnapshotFileCount >= 0
         /\ \A i \in 1..Len(Snapshots) : Snapshots[i].num < SnapshotFileCount

\* What is written carries the present time, and what is asked for is written.
WriteInv ==
  /\ action.write_fof => action.write_snapshot
  /\ Write.fof => Write.snapshot
  /\ action.type \in {"checkpoint", "stop", "timeout", "auto"} => action.write_snapshot
  /\ pc = "snapshot" =>
       LET name == PART(SnapshotFileCount) IN
       /\ Write.snapshot
       /\ block > 0 => /\ name \in DOMAIN dir
                       /\ dir[name].header = Stamp
                       /\ \A b \in 1..Blocks : b < block => dir[name].blocks[b] = Stamp
  /\ pc \in {"groups", "plane", "decide"} /\ Write.snapshot =>
       /\ Len(Snapshots) > 0
       /\ Snapshots[Len(Snapshots)].num = SnapshotFileCount
       /\ dir[PART(SnapshotFileCount)].header = Stamp
  /\ pc = "groups" => Write.fof
  /\ pc \in {"snapshot", "groups", "plane", "decide"} /\ action.write_snapshot
       => Write.snapshot

\* The list has every output that is due; the others are still ahead.
Listed(a) == \E i \in 1..Len(Snapshots) : Snapshots[i].time = a
Due == \/ pc = "advance" /\ NumCurrentTiStep = 0
       \/ pc \in {"query", "physics", "snapshot"}
Ahead(a) == \E n \in 1..Len(SyncPoints) :
              /\ SyncPoints[n].a = a /\ SyncPoints[n].write_snapshot
              /\ Ti(n) > Ti_Current \/ (Ti(n) = Ti_Current /\ Due)

Output(a) == \E o \in DOMAIN OutputList : OutputList[o] = a

PlannedInv ==
  /\ pc # "down" => \A a \in TimeIC..TimeMax : Output(a) => Listed(a) \/ Ahead(a)
  /\ Len(Snapshots) > 0 =>
       \A a \in TimeIC..(Snapshots[Len(Snapshots)].time) : Output(a) => Listed(a)

Inv == TypeInv /\ TimeInv /\ DiskInv /\ CountInv /\ WriteInv /\ PlannedInv

----------------------------------------------------------------------------
(* Requests.                                                               *)

\* What a request for a snapshot asks for.
LEMMA SavingFacts ==
  ASSUME NEW t \in Files \cup {"none", "timeout", "auto"}
  PROVE  /\ Saving(t) \in Actions /\ Saving(t).type = t
         /\ Saving(t).write_snapshot
<1>. DEFINE b == [NoAction EXCEPT !.type = t]
            c == [b EXCEPT !.write_snapshot = TRUE]
            d == [c EXCEPT !.write_fof = SnapshotWithFOF]
<1>1. NoAction \in Actions
  BY DEF NoAction, Actions
<1>. HIDE DEF NoAction
<1>2. b \in Actions /\ b.type = t
  BY <1>1 DEF Actions
<1>. HIDE DEF b
<1>3. c \in Actions /\ c.type = t /\ c.write_snapshot
  BY <1>2 DEF Actions
<1>. HIDE DEF c
<1>4. d \in Actions /\ d.type = t /\ d.write_snapshot
  BY <1>3, RunAssumption DEF Actions
<1>5. d = Saving(t)
  BY Zenon DEF Saving, c, b
<1>. HIDE DEF d
<1>. QED BY <1>4, <1>5

Asks == {"checkpoint", "stop", "timeout", "auto"}

\* An action that can be asked for: groups only with a snapshot.
Sensible(x) ==
  /\ x \in Actions
  /\ x.write_fof => x.write_snapshot
  /\ x.type \in Asks => x.write_snapshot

\* The answer to a query is such an action.
LEMMA QueryFacts ==
  ASSUME Query
  PROVE  Sensible(action')
<1>1. Sensible(NoAction) /\ NoAction.type = "none"
  BY DEF Sensible, Actions, NoAction, Asks
<1>2. ASSUME NEW t \in Files \cup {"none", "timeout", "auto"} PROVE Sensible(Saving(t))
  BY <1>2, SavingFacts DEF Sensible
<1>3. ASSUME NEW x, x = [NoAction EXCEPT !.type = "plane", !.write_plane = TRUE]
      PROVE  Sensible(x)
  BY <1>3 DEF Sensible, Actions, NoAction, Asks, Files
<1>4. ASSUME NEW x, x = [NoAction EXCEPT !.type = "stop", !.write_snapshot = TRUE]
      PROVE  Sensible(x)
  BY <1>4 DEF Sensible, Actions, NoAction, Asks, Files
<1>5. ASSUME NEW x, x = [NoAction EXCEPT !.type = "terminate"]
      PROVE  Sensible(x)
  BY <1>5 DEF Sensible, Actions, NoAction, Asks, Files
<1>6. PICK c : Timeout(c) \/ (\E k \in DOMAIN Priority : Answer(c, k)) \/ NoRequest(c)
  BY Zenon DEF Query
<1>7. CASE Timeout(c)
  BY <1>2, <1>7 DEF Timeout
<1>8. CASE NoRequest(c)
  <2>1. action' = Saving("auto") \/ action' = NoAction
    BY <1>8, Zenon DEF NoRequest
  <2>. QED BY <1>1, <1>2, <2>1
<1>9. ASSUME NEW k \in DOMAIN Priority, Answer(c, k) PROVE Sensible(action')
  <2>. DEFINE file == Priority[k]
  <2>1. file \in {"reconfigure", "checkpoint", "plane", "stop", "terminate"}
    <3>1. DOMAIN Priority = 1..5
      BY DEF Priority
    <3>2. k = 1 \/ k = 2 \/ k = 3 \/ k = 4 \/ k = 5
      BY <1>9, <3>1
    <3>. QED BY <3>2 DEF Priority
  <2>2. action' = CASE file = "reconfigure" -> NoAction
                    [] file = "checkpoint"  -> Saving(file)
                    [] file = "plane"       -> [NoAction EXCEPT !.type = file,
                                                  !.write_plane = TRUE]
                    [] file = "stop"        -> [NoAction EXCEPT !.type = file,
                                                  !.write_snapshot = TRUE]
                    [] file = "terminate"   -> [NoAction EXCEPT !.type = file]
    BY <1>9, Zenon DEF Answer
  <2>. HIDE DEF file
  <2>3. CASE file = "reconfigure"
    BY <1>1, <2>2, <2>3
  <2>4. CASE file = "checkpoint"
    <3>1. action' = Saving("checkpoint")
      BY <2>2, <2>4
    <3>. QED BY <1>2, <3>1 DEF Files
  <2>5. CASE file = "plane"
    <3>1. action' = [NoAction EXCEPT !.type = "plane", !.write_plane = TRUE]
      BY <2>2, <2>5
    <3>. QED BY <1>3, <3>1
  <2>6. CASE file = "stop"
    <3>1. action' = [NoAction EXCEPT !.type = "stop", !.write_snapshot = TRUE]
      BY <2>2, <2>6
    <3>. QED BY <1>4, <3>1
  <2>7. CASE file = "terminate"
    <3>1. action' = [NoAction EXCEPT !.type = "terminate"]
      BY <2>2, <2>7
    <3>. QED BY <1>5, <3>1
  <2>. QED BY <2>1, <2>3, <2>4, <2>5, <2>6, <2>7
<1>. QED BY <1>6, <1>7, <1>8, <1>9

----------------------------------------------------------------------------
(* Files.                                                                  *)

\* Different numbers give different directories.
LEMMA NameFacts ==
  ASSUME NEW m, NEW n
  PROVE  /\ PART(m) = PART(n) => m = n
         /\ PIG(m) = PIG(n) => m = n
         /\ PART(m) # PIG(n)
         /\ PART(m) # <<"TIMESTEP-DUMP", 0>> /\ PIG(m) # <<"TIMESTEP-DUMP", 0>>
  BY DEF PART, PIG

\* Putting a value in a directory changes no other one.
LEMMA PutFacts ==
  ASSUME NEW name, NEW d, Put(name, d)
  PROVE  /\ DOMAIN dir' = DOMAIN dir \cup {name}
         /\ dir'[name] = d
         /\ \A n \in DOMAIN dir : n # name => dir'[n] = dir[n]
  BY DEF Put

\* What is in a directory, if it exists.
LEMMA OnFacts ==
  ASSUME TypeInv, NEW name
  PROVE  /\ On(name) \in Contents
         /\ Exists(name) => On(name) = dir[name]
         /\ ~Exists(name) => \A b \in 1..Blocks : On(name).blocks[b] = None
         /\ Empty \in Contents /\ None \in Stamps
<1>1. None \in Stamps /\ Empty \in Contents
  BY DEF None, Stamps, Empty, Contents
<1>2. \A b \in 1..Blocks : Empty.blocks[b] = None
  BY DEF Empty
<1>3. Exists(name) => On(name) = dir[name] /\ dir[name] \in Contents
  BY Zenon DEF TypeInv, On, Exists
<1>4. ~Exists(name) => On(name) = Empty
  BY DEF On
<1>. QED BY <1>1, <1>2, <1>3, <1>4

\* What a process writes is of a time of the simulation.
LEMMA StampFacts ==
  ASSUME TypeInv, TimeInv, pc # "down"
  PROVE  /\ Stamp \in Stamps /\ Stamp # None /\ Stamp[2] = Time
         /\ Time \in TimeIC..TimeMax
         /\ \A n \in 1..Len(SyncPoints) : Ti(n) > Ti_Current => Time < SyncPoints[n].a
         /\ \A n \in 1..Len(SyncPoints) : Ti(n) = Ti_Current => Time = SyncPoints[n].a
<1>1. PICK TS \in TimeIC..(TimeMax - 1) : SyncPoints \in Timelines(TS)
  BY DEF TimeInv
<1>2. Ti_Current \in 0..End(SyncPoints) /\ starts \in Nat /\ starts >= 1
  BY DEF TimeInv, TypeInv
<1>. DEFINE L == loga_from_ti(SyncPoints, Ti_Current)
<1>3. /\ L \in Int /\ TS <= L /\ L <= TimeMax
      /\ \A n \in 1..Len(SyncPoints) : Ti(n) > Ti_Current => L < SyncPoints[n].a
      /\ \A n \in 1..Len(SyncPoints) : Ti(n) = Ti_Current => L = SyncPoints[n].a
  BY <1>1, <1>2, LogaFacts
<1>4. Stamp = <<starts, L>> /\ Time = L
  BY DEF Stamp, Time
<1>. HIDE DEF L
<1>5. Stamp \in Stamps /\ Stamp # None /\ Stamp[2] = L
  BY <1>2, <1>3, <1>4 DEF Stamps, None
<1>6. L \in TimeIC..TimeMax
  BY <1>1, <1>3, RunAssumption
<1>. QED BY <1>3, <1>4, <1>5, <1>6

\* One step of a directory that is being written.
LEMMA SaveFacts ==
  ASSUME TypeInv, TimeInv, pc # "down", NEW name, block <= Blocks, Save(name)
  PROVE  /\ DOMAIN dir' = DOMAIN dir \cup {name}
         /\ \A n \in DOMAIN dir : n # name => dir'[n] = dir[n]
         /\ dir'[name] \in Contents
         /\ block = 0 => dir'[name].header = Stamp /\ dir'[name].blocks = On(name).blocks
         /\ block > 0 => /\ dir'[name].header = On(name).header
                         /\ \A b \in 1..Blocks : dir'[name].blocks[b] =
                              IF b = block THEN Stamp ELSE On(name).blocks[b]
<1>1. On(name) \in Contents /\ Stamp \in Stamps /\ block \in Nat /\ Blocks \in Nat
  BY OnFacts, StampFacts, RunAssumption DEF TypeInv
<1>. DEFINE o == On(name)
            d == IF block = 0 THEN [o EXCEPT !.header = Stamp]
                 ELSE [o EXCEPT !.blocks[block] = Stamp]
<1>2. Put(name, d)
  BY Zenon DEF Save
<1>3. PICK s \in Stamps : s = Stamp
  BY <1>1
<1>4. /\ d \in Contents
      /\ block = 0 => d.header = Stamp /\ d.blocks = o.blocks
      /\ block > 0 => /\ d.header = o.header
                      /\ \A b \in 1..Blocks : d.blocks[b] =
                           IF b = block THEN Stamp ELSE o.blocks[b]
  <2>. HIDE DEF o
  <2>1. o \in [header : Stamps, blocks : [1..Blocks -> Stamps]]
    BY <1>1 DEF o, Contents
  <2>2. CASE block = 0
    <3>1. d = [o EXCEPT !.header = s]
      BY <1>3, <2>2
    <3>. HIDE DEF d
    <3>2. d \in Contents /\ d.header = s /\ d.blocks = o.blocks
      BY <2>1, <3>1 DEF Contents
    <3>. QED BY <1>3, <2>2, <3>2
  <2>3. CASE block > 0
    <3>0. block \in 1..Blocks
      BY <1>1, <2>3
    <3>1. d = [o EXCEPT !.blocks[block] = s]
      BY <1>1, <1>3, <2>3
    <3>. HIDE DEF d
    <3>. DEFINE v == [o.blocks EXCEPT ![block] = s]
    <3>2. v \in [1..Blocks -> Stamps] /\ \A b \in 1..Blocks : v[b] = IF b = block THEN s ELSE o.blocks[b]
      BY <2>1, <3>0
    <3>3. d = [o EXCEPT !.blocks = v]
      BY <3>1
    <3>. HIDE DEF v
    <3>4. d \in Contents /\ d.header = o.header /\ d.blocks = v
      BY <2>1, <3>2, <3>3 DEF Contents
    <3>. QED BY <1>3, <2>3, <3>2, <3>4
  <2>. QED BY <1>1, <2>2, <2>3
<1>. HIDE DEF d
<1>. QED BY <1>2, <1>4, PutFacts

----------------------------------------------------------------------------
(* The invariant holds initially and is kept.                              *)

\* Steps that change no variable of the invariants but pc.
Moves(label) ==
  /\ pc' = label
  /\ UNCHANGED <<dir, Snapshots, starts, SyncPoints, Ti_Current, NumCurrentTiStep,
                 SnapshotFileCount, action, Write, block>>

\* Nothing is listed and nothing is due at first.
LEMMA InitInv ==
  ASSUME Init
  PROVE  Inv
<1>1. NoAction \in Actions /\ ~NoAction.write_fof /\ NoAction.type = "none"
  BY DEF NoAction, Actions
<1>2. Snapshots = <<>> /\ Len(Snapshots) = 0 /\ DOMAIN dir = {} /\ 1..0 = {}
  BY DEF Init
<1>3. TypeInv
  BY <1>1, <1>2 DEF Init, TypeInv, Labels, NoWrite
<1>4. DiskInv
  BY <1>2 DEF DiskInv
<1>5. TimeInv /\ CountInv /\ PlannedInv
  BY <1>2 DEF Init, TimeInv, CountInv, PlannedInv
<1>6. WriteInv
  BY <1>1 DEF Init, WriteInv, NoWrite
<1>. QED BY <1>3, <1>4, <1>5, <1>6 DEF Inv

\* The process ends.
LEMMA DownInv ==
  ASSUME Inv, Moves("down")
  PROVE  Inv'
<1>1. TypeInv'
  BY DEF Inv, TypeInv, Moves, Labels
<1>2. TimeInv' /\ CountInv'
  BY DEF TimeInv, CountInv, Moves
<1>3. DiskInv'
  BY DEF Inv, DiskInv, Complete, Moves, IsWhole
<1>4. WriteInv'
  BY DEF Inv, WriteInv, Moves
<1>5. PlannedInv'
  BY DEF Inv, PlannedInv, Moves, Listed
<1>. QED BY <1>1, <1>2, <1>3, <1>4, <1>5 DEF Inv

\* Nothing changes.
LEMMA SameInv ==
  ASSUME Inv, Moves(pc)
  PROVE  Inv'
<1>1. TypeInv'
  BY DEF Inv, TypeInv, Moves
<1>2. TimeInv'
  BY DEF Inv, TimeInv, Moves, Timelines, End, Ti
<1>3. CountInv'
  BY DEF Inv, CountInv, Moves
<1>4. DiskInv'
  BY DEF Inv, DiskInv, Complete, Moves, IsWhole
<1>5. WriteInv'
  BY DEF Inv, WriteInv, Moves, Stamp, loga_from_ti
<1>6. PlannedInv'
  BY DEF Inv, PlannedInv, Moves, Listed, Ahead, Due, Ti
<1>. QED BY <1>1, <1>2, <1>3, <1>4, <1>5, <1>6 DEF Inv

\* The lines of Snapshots.txt.
LEMMA SnapshotsFacts ==
  ASSUME TypeInv
  PROVE  /\ Len(Snapshots) \in Nat
         /\ Len(Snapshots) = 0 => Snapshots = <<>>
         /\ \A i \in 1..Len(Snapshots) :
              Snapshots[i] \in [num : Nat, time : Int] /\ Snapshots[i].num \in Nat
         /\ DOMAIN Snapshots = 1..Len(Snapshots)
<1>1. PICK R : R = [num : Nat, time : Int]
  OBVIOUS
<1>2. Snapshots \in Seq(R)
  BY <1>1 DEF TypeInv
<1>3. /\ Len(Snapshots) \in Nat
      /\ Len(Snapshots) = 0 => Snapshots = <<>>
      /\ \A i \in 1..Len(Snapshots) : Snapshots[i] \in R
      /\ DOMAIN Snapshots = 1..Len(Snapshots)
  BY <1>2
<1>. QED BY <1>1, <1>3

\* The table of a process that starts is sound, and has every output that is
\* not listed ahead of it.
LEMMA TimelineStart ==
  ASSUME NEW restart \in BOOLEAN, NEW t \in TimeIC..TimeMax, ~restart => t = TimeIC
  PROVE  LET p == init_timeline(t, restart)
         IN /\ \E TS \in TimeIC..(TimeMax - 1) : p \in Timelines(TS)
            /\ ti_from_loga(p, t) \in 0..End(p)
            /\ \A a \in TimeIC..TimeMax : Output(a) /\ (restart => a > t) =>
                 \E n \in 1..Len(p) : /\ p[n].a = a /\ p[n].write_snapshot
                                      /\ Ti(n) >= ti_from_loga(p, t)
                                      /\ restart => Ti(n) > ti_from_loga(p, t)
<1>. DEFINE p == init_timeline(t, restart)
            until == IF restart THEN t ELSE 0
<1>1. /\ TimeIC \in Nat \ {0} /\ TimeMax \in Nat /\ TimeIC < TimeMax
      /\ TIMEBASE \in Nat \ {0} /\ t \in Int
  BY RunAssumption
<1>2. PICK TS \in TimeIC..(TimeMax - 1) :
        p = setup_sync_points(TS, until) /\ TS <= t /\ (restart => TS = TimeIC \/ TS = t)
        /\ (~restart => TS = TimeIC)
  <2>1. CASE ~restart
    <3>1. p = setup_sync_points(TimeIC, 0)
      BY <2>1 DEF init_timeline
    <3>. QED BY <1>1, <2>1, <3>1
  <2>2. CASE restart
    <3>. DEFINE same == setup_sync_points(TimeIC, t)
                fits == IsPowerOfTwoPart(ti_from_loga(same, t) % TIMEBASE)
    <3>1. p = IF fits THEN same ELSE setup_sync_points(t, t)
      BY <2>2, Zenon DEF init_timeline
    <3>2. CASE fits
      <4>1. p = setup_sync_points(TimeIC, until)
        BY <2>2, <3>1, <3>2
      <4>2. TimeIC \in TimeIC..(TimeMax - 1) /\ TimeIC <= t
        BY <1>1
      <4>. HIDE DEF p, until
      <4>. QED BY <2>2, <4>1, <4>2
    <3>3. CASE ~fits
      <4>1. ASSUME t = TimeMax PROVE FALSE
        <5>1. same \in Timelines(TimeIC)
          BY <1>1, SetupFacts
        <5>2. ti_from_loga(same, t) = End(same) /\ Len(same) \in Nat /\ Len(same) >= 2
          <6>. HIDE DEF same
          <6>. QED BY <1>1, <4>1, <5>1, TiFacts, TimelineFacts
        <5>3. End(same) % TIMEBASE = 0
          <6>. HIDE DEF same
          <6>1. PICK m \in Nat : m = Len(same) - 1
            BY <5>2
          <6>2. End(same) = TIMEBASE * m + 0
            <7>1. End(same) = m * TIMEBASE
              BY <6>1 DEF End, Ti
            <7>2. m * TIMEBASE = TIMEBASE * m + 0
              BY <1>1, Z3
            <7>. QED BY <7>1, <7>2
          <6>3. (TIMEBASE * m + 0) % TIMEBASE = 0
            BY <1>1, ModUnique
          <6>. QED BY <6>2, <6>3
        <5>. QED BY <3>3, <5>2, <5>3 DEF IsPowerOfTwoPart
      <4>2. t \in TimeIC..(TimeMax - 1)
        BY <1>1, <4>1
      <4>3. p = setup_sync_points(t, until)
        BY <2>2, <3>1, <3>3
      <4>4. t <= t
        BY <1>1
      <4>. HIDE DEF p, until
      <4>. QED BY <2>2, <4>2, <4>3, <4>4
    <3>. QED BY <3>2, <3>3
  <2>. QED BY <2>1, <2>2
<1>. HIDE DEF p
<1>3. /\ TS \in Int /\ TS < TimeMax /\ until \in Int
  BY <1>1, <1>2
<1>4. /\ p \in Timelines(TS)
      /\ \A i \in DOMAIN OutputList :
           TS <= OutputList[i] /\ OutputList[i] <= TimeMax /\ OutputList[i] > until
             => Plans(p, OutputList[i])
  BY <1>2, <1>3, SetupFacts
<1>5. /\ ti_from_loga(p, t) \in 0..End(p)
      /\ \A n \in 1..Len(p) : t < p[n].a => ti_from_loga(p, t) < Ti(n)
      /\ \A n \in 1..Len(p) : t <= p[n].a => ti_from_loga(p, t) <= Ti(n)
  BY <1>1, <1>2, <1>4, TiFacts
<1>6. ASSUME NEW a \in TimeIC..TimeMax, Output(a), restart => a > t
      PROVE  \E n \in 1..Len(p) : /\ p[n].a = a /\ p[n].write_snapshot
                                  /\ Ti(n) >= ti_from_loga(p, t)
                                  /\ restart => Ti(n) > ti_from_loga(p, t)
  <2>1. PICK o \in DOMAIN OutputList : OutputList[o] = a
    BY <1>6 DEF Output
  <2>2. TS <= a /\ a <= TimeMax /\ a > until /\ t <= a
    BY <1>1, <1>2, <1>6
  <2>3. PICK n \in 1..Len(p) : p[n].a = a /\ p[n].write_snapshot
    BY <1>4, <2>1, <2>2 DEF Plans
  <2>4. ti_from_loga(p, t) <= Ti(n) /\ (restart => ti_from_loga(p, t) < Ti(n))
    BY <1>5, <1>6, <2>2, <2>3
  <2>5. Len(p) \in Nat /\ n \in Int /\ Ti(n) \in Int
    <3>1. Len(p) \in Nat
      BY <1>4, TimelineFacts
    <3>. QED BY <3>1, PlaceOrder
  <2>6. ti_from_loga(p, t) \in Int
    <3>1. Len(p) \in Int
      BY <1>4, TimelineFacts
    <3>2. End(p) \in Int
      BY <3>1, PlaceOrder DEF End
    <3>. QED BY <1>5, <3>2
  <2>. QED BY <2>3, <2>4, <2>5, <2>6
<1>. QED BY <1>2, <1>4, <1>5, <1>6 DEF p

\* A process continues from what is listed last.
LEMMA StartInv ==
  ASSUME Inv, Start
  PROVE  Inv'
<1>. DEFINE num == find_last_snapnum
            restart == num >= 0
            t == IF restart THEN dir[PART(num)].header[2] ELSE TimeIC
            N == Len(Snapshots)
<1>1. /\ pc = "down" /\ pc' = "advance" /\ NumCurrentTiStep' = 0
      /\ starts' = starts + 1
      /\ SyncPoints' = init_timeline(t, restart)
      /\ Ti_Current' = ti_from_loga(SyncPoints', t)
      /\ SnapshotFileCount' = num
      /\ UNCHANGED <<dir, Snapshots, action, Write, block>>
  BY DEF Start, disk
<1>2. /\ N \in Nat
      /\ N = 0 => Snapshots = <<>>
      /\ \A i \in 1..N : Snapshots[i] \in [num : Nat, time : Int] /\ Snapshots[i].num \in Nat
  BY SnapshotsFacts DEF Inv
<1>3. \/ N = 0 /\ num = -1
      \/ N > 0 /\ num = Snapshots[N].num
  <2>1. Snapshots = <<>> <=> N = 0
    BY <1>2
  <2>2. num = IF Snapshots = <<>> THEN -1 ELSE Snapshots[N].num
    BY Zenon DEF find_last_snapnum, Last
  <2>. HIDE DEF num
  <2>. QED BY <1>2, <2>1, <2>2
<1>4. /\ num \in Int /\ num >= -1 /\ restart \in BOOLEAN /\ (restart <=> N > 0)
      /\ \A i \in 1..N : Snapshots[i].num <= num
  <2>1. \A i \in 1..N : i < N => Snapshots[i].num < Snapshots[N].num
    BY <1>2 DEF Inv, DiskInv
  <2>2. N > 0 => Snapshots[N].num \in Nat
    BY <1>2
  <2>. HIDE DEF num, N
  <2>. QED BY <1>2, <1>3, <2>1, <2>2
<1>5. restart => t = Snapshots[N].time /\ t \in TimeIC..TimeMax
  <2>1. N > 0 => Complete(N)
    BY <1>2 DEF Inv, DiskInv
  <2>. QED BY <1>3, <1>4, <2>1 DEF Complete
<1>6. ~restart => t = TimeIC /\ t \in TimeIC..TimeMax
  BY RunAssumption
<1>. HIDE DEF num, t, restart
<1>. DEFINE p == init_timeline(t, restart)
<1>7. /\ \E TS \in TimeIC..(TimeMax - 1) : p \in Timelines(TS)
      /\ ti_from_loga(p, t) \in 0..End(p)
      /\ \A a \in TimeIC..TimeMax : Output(a) /\ (restart => a > t) =>
           \E n \in 1..Len(p) : /\ p[n].a = a /\ p[n].write_snapshot
                                /\ Ti(n) >= ti_from_loga(p, t)
                                /\ restart => Ti(n) > ti_from_loga(p, t)
  BY <1>4, <1>5, <1>6, TimelineStart
<1>8. SyncPoints' = p /\ Ti_Current' = ti_from_loga(p, t)
  BY <1>1
<1>. HIDE DEF p
<1>9. TypeInv'
  BY <1>1, <1>4 DEF Inv, TypeInv, Labels
<1>10. TimeInv'
  <2>1. starts' >= 1
    BY <1>1 DEF Inv, TypeInv
  <2>2. \E TS \in TimeIC..(TimeMax - 1) : SyncPoints' \in Timelines(TS)
    BY <1>7, <1>8
  <2>3. Ti_Current' \in 0..End(SyncPoints')
    BY <1>7, <1>8, Zenon
  <2>4. /\ \E TS \in TimeIC..(TimeMax - 1) : SyncPoints' \in Timelines(TS)'
        /\ Ti_Current' \in 0..End(SyncPoints)'
    BY <2>2, <2>3 DEF Timelines, End, Ti
  <2>. QED BY <1>1, <2>1, <2>4 DEF TimeInv
<1>11. DiskInv'
  BY <1>1 DEF Inv, DiskInv, Complete, IsWhole
<1>12. CountInv'
  BY <1>1, <1>4 DEF CountInv
<1>13. WriteInv'
  BY <1>1 DEF Inv, WriteInv
<1>14. PlannedInv'
  <2>1. ASSUME NEW a \in TimeIC..TimeMax, Output(a) PROVE Listed(a) \/ Ahead(a)'
    <3>1. CASE restart => a > t
      <4>1. PICK n \in 1..Len(p) : /\ p[n].a = a /\ p[n].write_snapshot
                                   /\ Ti(n) >= ti_from_loga(p, t)
        BY <1>7, <2>1, <3>1
      <4>2. Due'
        BY <1>1 DEF Due
      <4>3. Ti(n) \in Int /\ ti_from_loga(p, t) \in Int
        <5>1. PICK TS \in TimeIC..(TimeMax - 1) : p \in Timelines(TS)
          BY <1>7
        <5>2. Len(p) \in Nat
          BY <5>1, TimelineFacts
        <5>3. Ti(n) \in Int /\ End(p) \in Int
          BY <5>2, PlaceOrder DEF End
        <5>. QED BY <1>7, <5>3
      <4>4. Ti(n) > ti_from_loga(p, t) \/ Ti(n) = ti_from_loga(p, t)
        BY <4>1, <4>3
      <4>5. Ti(n)' = Ti(n)
        BY DEF Ti
      <4>. QED BY <1>8, <4>1, <4>2, <4>4, <4>5 DEF Ahead
    <3>2. CASE restart /\ ~(a > t)
      <4>1. a \in TimeIC..(Snapshots[N].time) /\ N > 0
        BY <1>4, <1>5, <2>1, <3>2
      <4>2. Listed(a)
        BY <2>1, <4>1 DEF Inv, PlannedInv
      <4>. QED BY <4>2
    <3>. QED BY <3>1, <3>2
  <2>2. \A a : (Listed(a)' <=> Listed(a)) /\ (Output(a)' <=> Output(a))
    BY <1>1 DEF Listed, Output
  <2>. QED BY <1>1, <2>1, <2>2 DEF Inv, PlannedInv
<1>. QED BY <1>9, <1>10, <1>11, <1>12, <1>13, <1>14 DEF Inv

\* A PM step ends at a sync point or before it.
LEMMA AdvanceInv ==
  ASSUME Inv, Advance
  PROVE  Inv'
<1>1. /\ pc = "advance" /\ pc' = "query" /\ NumCurrentTiStep' = 1
      /\ action' = NoAction /\ Write' = NoWrite
      /\ UNCHANGED <<dir, Snapshots, starts, SyncPoints, SnapshotFileCount, block>>
      /\ \/ NumCurrentTiStep = 0 /\ Ti_Current' = Ti_Current
         \/ /\ NumCurrentTiStep = 1
            /\ \E d \in PMLengths : Ti_Current' = Ti_Current + d
  <2>1. NumCurrentTiStep \in {0, 1}
    BY DEF Inv, TypeInv
  <2>. QED BY <2>1 DEF Advance, disk
<1>2. PICK TS \in TimeIC..(TimeMax - 1) : SyncPoints \in Timelines(TS)
  BY <1>1 DEF Inv, TimeInv
<1>3. /\ Ti_Current \in 0..End(SyncPoints) /\ End(SyncPoints) \in Int
      /\ Len(SyncPoints) \in Nat
      /\ \A n \in 1..Len(SyncPoints) : Ti(n) \in Int /\ Ti(n) <= End(SyncPoints)
  <2>1. Len(SyncPoints) \in Nat
    BY <1>2, TimelineFacts
  <2>2. \A n \in 1..Len(SyncPoints) : Ti(n) \in Int /\ Ti(n) <= Ti(Len(SyncPoints))
    BY <2>1, PlaceOrder
  <2>3. Ti(Len(SyncPoints)) \in Int
    BY <2>1, PlaceOrder
  <2>. QED BY <1>1, <2>1, <2>2, <2>3 DEF Inv, TimeInv, End
<1>4. \A n \in 1..Len(SyncPoints) : Ti(n) > Ti_Current => Ti(n) >= Ti_Current'
  <2>1. CASE Ti_Current' = Ti_Current
    BY <1>3, <2>1
  <2>2. ASSUME NEW d \in PMLengths, Ti_Current' = Ti_Current + d,
               NEW n \in 1..Len(SyncPoints), Ti(n) > Ti_Current
        PROVE  Ti(n) >= Ti_Current'
    <3>1. n \in Nat \ {0} /\ Ti_Current \in Nat /\ Ti_Current < Ti(n)
      BY <1>3, <2>2
    <3>2. d \in Nat /\ Ti_Current + d <= Ti(n)
      BY <3>1, PMLengthFacts
    <3>. QED BY <1>3, <2>2, <3>1, <3>2
  <2>. QED BY <1>1, <2>1, <2>2
<1>5. Ti_Current' \in 0..End(SyncPoints)
  <2>1. CASE Ti_Current' = Ti_Current
    BY <1>3, <2>1
  <2>2. ASSUME NEW d \in PMLengths, Ti_Current' = Ti_Current + d, NumCurrentTiStep = 1
        PROVE  Ti_Current' \in 0..End(SyncPoints)
    <3>1. PICK n \in 1..Len(SyncPoints) : Ti(n) > Ti_Current
      BY <1>1, <2>2 DEF Inv, TimeInv
    <3>2. d \in Nat
      BY RunAssumption DEF PMLengths
    <3>. QED BY <1>3, <1>4, <2>2, <3>1, <3>2
  <2>. QED BY <1>1, <2>1, <2>2
<1>6. TypeInv'
  BY <1>1 DEF Inv, TypeInv, Labels, NoAction, NoWrite, Actions
<1>7. TimeInv'
  <2>1. starts' >= 1
    BY <1>1 DEF Inv, TimeInv
  <2>2. SyncPoints' \in Timelines(TS)' /\ End(SyncPoints)' = End(SyncPoints)
    BY <1>1, <1>2 DEF Timelines, End, Ti
  <2>. QED BY <1>1, <1>2, <1>5, <2>1, <2>2 DEF TimeInv
<1>8. DiskInv'
  BY <1>1 DEF Inv, DiskInv, Complete, IsWhole
<1>9. CountInv'
  BY <1>1 DEF Inv, CountInv
<1>10. WriteInv'
  BY <1>1 DEF WriteInv, NoAction, NoWrite
<1>11. PlannedInv'
  <2>1. Due'
    BY <1>1 DEF Due
  <2>2. ASSUME NEW a \in TimeIC..TimeMax, Ahead(a) PROVE Ahead(a)'
    <3>1. PICK n \in 1..Len(SyncPoints) :
            /\ SyncPoints[n].a = a /\ SyncPoints[n].write_snapshot
            /\ Ti(n) > Ti_Current \/ (Ti(n) = Ti_Current /\ Due)
      BY <2>2 DEF Ahead
    <3>2. Ti(n) >= Ti_Current'
      <4>1. CASE Ti(n) > Ti_Current
        BY <1>4, <4>1
      <4>2. CASE Ti(n) = Ti_Current /\ Due
        <5>1. Ti_Current' = Ti_Current
          BY <1>1, <4>2 DEF Due
        <5>. QED BY <1>3, <4>2, <5>1
      <4>. QED BY <3>1, <4>1, <4>2
    <3>3. Ti(n) > Ti_Current' \/ Ti(n) = Ti_Current'
      BY <1>3, <1>5, <3>2
    <3>4. Ti(n)' = Ti(n)
      BY DEF Ti
    <3>. QED BY <1>1, <2>1, <3>1, <3>3, <3>4 DEF Ahead
  <2>3. \A a : (Listed(a)' <=> Listed(a)) /\ (Output(a)' <=> Output(a))
    BY <1>1 DEF Listed, Output
  <2>4. \A a \in TimeIC..TimeMax : Output(a) => Listed(a) \/ Ahead(a)
    BY <1>1 DEF Inv, PlannedInv
  <2>5. pc' # "down" => \A a \in TimeIC..TimeMax : Output(a)' => Listed(a)' \/ Ahead(a)'
    BY <2>2, <2>3, <2>4
  <2>6. Len(Snapshots') > 0 =>
          \A a \in TimeIC..(Snapshots'[Len(Snapshots')].time) : Output(a)' => Listed(a)'
    BY <1>1, <2>3 DEF Inv, PlannedInv
  <2>. QED BY <2>5, <2>6, Zenon DEF PlannedInv
<1>. QED BY <1>6, <1>7, <1>8, <1>9, <1>10, <1>11 DEF Inv

\* A query changes what is planned for this step, nothing on disk.
LEMMA QueryInv ==
  ASSUME Inv, Query
  PROVE  Inv'
<1>1. /\ pc = "query" /\ pc' \in {"down", "physics"}
      /\ UNCHANGED <<dir, Snapshots, starts, SyncPoints, Ti_Current, NumCurrentTiStep,
                     SnapshotFileCount, Write, block>>
  BY DEF Query
<1>2. Sensible(action')
  BY QueryFacts
<1>3. TypeInv'
  BY <1>1, <1>2 DEF Inv, TypeInv, Labels, Sensible
<1>4. TimeInv'
  BY <1>1 DEF Inv, TimeInv, Timelines, End, Ti
<1>5. DiskInv'
  BY <1>1 DEF Inv, DiskInv, Complete, IsWhole
<1>6. CountInv'
  BY <1>1 DEF Inv, CountInv
<1>7. WriteInv'
  BY <1>1, <1>2 DEF Inv, WriteInv, Sensible, Asks
<1>8. PlannedInv'
  BY <1>1 DEF Inv, PlannedInv, Listed, Ahead, Due, Ti, Output
<1>. QED BY <1>3, <1>4, <1>5, <1>6, <1>7, <1>8 DEF Inv

\* What is due now is written now.
LEMMA PhysicsInv ==
  ASSUME Inv, Physics
  PROVE  Inv'
<1>. DEFINE planned(flag) == \E n \in find_current_sync_point(Ti_Current) :
                                SyncPoints[n][flag]
<1>1. /\ pc = "physics" /\ Write' = Plan /\ block' = 0
      /\ SnapshotFileCount' = SnapshotFileCount
                              + (IF Plan.snapshot \/ Plan.fof THEN 1 ELSE 0)
      /\ pc' = IF Plan.snapshot THEN "snapshot" ELSE IF Plan.fof THEN "groups" ELSE "plane"
      /\ UNCHANGED <<dir, Snapshots, starts, SyncPoints, Ti_Current, NumCurrentTiStep, action>>
  BY DEF Physics, disk
<1>2. PICK TS \in TimeIC..(TimeMax - 1) : SyncPoints \in Timelines(TS)
  BY <1>1 DEF Inv, TimeInv
<1>3. /\ Plan \in [snapshot : BOOLEAN, fof : BOOLEAN, plane : BOOLEAN]
      /\ Plan.snapshot <=> planned("write_snapshot") \/ action.write_snapshot
      /\ Plan.fof <=> planned("write_fof") \/ action.write_fof
  BY DEF Plan
<1>4. \A n \in find_current_sync_point(Ti_Current) :
        n \in 1..Len(SyncPoints) /\ (SyncPoints[n].write_fof => SyncPoints[n].write_snapshot)
  BY <1>2, TimelineFacts DEF find_current_sync_point
<1>5. Plan.fof => Plan.snapshot
  BY <1>3, <1>4 DEF Inv, WriteInv
<1>6. \/ Plan.snapshot /\ pc' = "snapshot" /\ SnapshotFileCount' = SnapshotFileCount + 1
      \/ ~Plan.snapshot /\ pc' = "plane" /\ SnapshotFileCount' = SnapshotFileCount
  BY <1>1, <1>5 DEF Inv, TypeInv
<1>. HIDE DEF planned
<1>7. TypeInv'
  BY <1>1, <1>3, <1>6 DEF Inv, TypeInv, Labels
<1>8. TimeInv'
  BY <1>1, <1>6 DEF Inv, TimeInv, Timelines, End, Ti
<1>9. DiskInv'
  BY <1>1 DEF Inv, DiskInv, Complete, IsWhole
<1>10. CountInv'
  <2>1. \A i \in 1..Len(Snapshots) : Snapshots[i].num \in Int
    BY SnapshotsFacts DEF Inv
  <2>. QED BY <1>1, <1>6, <2>1, SMTT(30) DEF Inv, CountInv, TypeInv
<1>11. WriteInv'
  BY <1>1, <1>3, <1>5, <1>6 DEF Inv, WriteInv
<1>12. PlannedInv'
  <2>1. \A n \in 1..Len(SyncPoints) :
          Ti(n) = Ti_Current /\ SyncPoints[n].write_snapshot => Plan.snapshot
    <3>1. DOMAIN SyncPoints = 1..Len(SyncPoints)
      BY <1>2, TimelineFacts
    <3>. QED BY <1>3, <3>1 DEF find_current_sync_point, Ti, planned
  <2>2. \A a \in TimeIC..TimeMax : Ahead(a) => Ahead(a)'
    BY <1>1, <1>6, <2>1 DEF Ahead, Due, Ti
  <2>3. \A a : (Listed(a)' <=> Listed(a)) /\ (Output(a)' <=> Output(a))
    BY <1>1 DEF Listed, Output
  <2>4. pc' # "down" => \A a \in TimeIC..TimeMax : Output(a)' => Listed(a)' \/ Ahead(a)'
    BY <1>1, <2>2, <2>3 DEF Inv, PlannedInv
  <2>5. Len(Snapshots') > 0 =>
          \A a \in TimeIC..(Snapshots'[Len(Snapshots')].time) : Output(a)' => Listed(a)'
    BY <1>1, <2>3 DEF Inv, PlannedInv
  <2>. QED BY <2>4, <2>5, Zenon DEF PlannedInv
<1>. QED BY <1>7, <1>8, <1>9, <1>10, <1>11, <1>12 DEF Inv

\* A directory that no listed snapshot uses is written.
LEMMA OtherDirectory ==
  ASSUME Inv, NEW name, DOMAIN dir' = DOMAIN dir \cup {name},
         \A n \in DOMAIN dir : n # name => dir'[n] = dir[n],
         UNCHANGED Snapshots,
         \A i \in 1..Len(Snapshots) : PART(Snapshots[i].num) # name,
         \A num \in Nat : PIG(num) # name
  PROVE  DiskInv'
<1>1. ASSUME NEW i \in 1..Len(Snapshots) PROVE Complete(i)'
  <2>. DEFINE num == Snapshots[i].num
  <2>1. Complete(i) /\ num \in Nat
    BY SnapshotsFacts DEF Inv, DiskInv
  <2>2. dir'[PART(num)] = dir[PART(num)] /\ PART(num) \in DOMAIN dir'
    BY <2>1 DEF Complete
  <2>3. PIG(num) \in DOMAIN dir' => PIG(num) \in DOMAIN dir /\ dir'[PIG(num)] = dir[PIG(num)]
    BY <2>1
  <2>4. Snapshots'[i] = Snapshots[i] /\ Snapshots'[i].num = num
    OBVIOUS
  <2>5. IsWhole(dir'[PART(num)]) /\ dir'[PART(num)].header[2] = Snapshots'[i].time
        /\ Snapshots'[i].time \in TimeIC..TimeMax
    BY <2>1, <2>2 DEF Complete, IsWhole
  <2>. QED BY <2>1, <2>2, <2>3, <2>4, <2>5 DEF Complete, IsWhole
<1>2. \A num \in Nat : PIG(num) \in DOMAIN dir' =>
        \E i \in 1..Len(Snapshots) : Snapshots[i].num = num
  BY DEF Inv, DiskInv
<1>3. \A i, j \in 1..Len(Snapshots) : i < j => Snapshots[i].num < Snapshots[j].num
  BY DEF Inv, DiskInv
<1>4. PIG(0)' = PIG(0) /\ \A num : PIG(num)' = PIG(num)
  BY DEF PIG
<1>. QED BY <1>1, <1>2, <1>3 DEF DiskInv, PIG

\* The new snapshot goes to a directory that is not listed.
LEMMA SaveSnapshotInv ==
  ASSUME Inv, SaveSnapshot
  PROVE  Inv'
<1>. DEFINE name == PART(SnapshotFileCount)
<1>1. /\ pc = "snapshot" /\ block <= Blocks /\ Save(name) /\ block' = block + 1
      /\ UNCHANGED <<Snapshots, pc, starts, SyncPoints, Ti_Current, NumCurrentTiStep,
                     SnapshotFileCount, action, Write>>
  BY DEF SaveSnapshot, Save
<1>2. TypeInv /\ TimeInv /\ pc # "down" /\ block \in Nat
  BY <1>1 DEF Inv, TypeInv
<1>3. /\ DOMAIN dir' = DOMAIN dir \cup {name}
      /\ \A n \in DOMAIN dir : n # name => dir'[n] = dir[n]
      /\ dir'[name] \in Contents
      /\ block = 0 => dir'[name].header = Stamp /\ dir'[name].blocks = On(name).blocks
      /\ block > 0 => /\ dir'[name].header = On(name).header
                      /\ \A b \in 1..Blocks : dir'[name].blocks[b] =
                           IF b = block THEN Stamp ELSE On(name).blocks[b]
  BY <1>1, <1>2, SaveFacts
<1>4. block > 0 => On(name) = dir[name] /\ dir[name].header = Stamp
                   /\ \A b \in 1..Blocks : b < block => dir[name].blocks[b] = Stamp
  BY <1>1, <1>2, OnFacts DEF Inv, WriteInv, Exists
<1>5. TypeInv'
  <2>1. \A n \in DOMAIN dir' : dir'[n] \in Contents
    BY <1>3 DEF Inv, TypeInv
  <2>2. block' \in Nat
    BY <1>1, <1>2
  <2>. HIDE DEF name
  <2>. QED BY <1>1, <2>1, <2>2 DEF Inv, TypeInv
<1>6. TimeInv'
  BY <1>1 DEF Inv, TimeInv, Timelines, End, Ti
<1>7. DiskInv'
  <2>1. \A i \in 1..Len(Snapshots) : Snapshots[i].num < SnapshotFileCount /\ Snapshots[i].num \in Int
    BY <1>1, <1>2, SnapshotsFacts DEF Inv, CountInv
  <2>2. \A i \in 1..Len(Snapshots) : PART(Snapshots[i].num) # name
    <3>. SUFFICES ASSUME NEW i \in 1..Len(Snapshots), PART(Snapshots[i].num) = name
                  PROVE  FALSE
      OBVIOUS
    <3>1. Snapshots[i].num = SnapshotFileCount
      BY NameFacts
    <3>2. SnapshotFileCount \in Int
      BY DEF Inv, TypeInv
    <3>. QED BY <2>1, <3>1, <3>2
  <2>3. \A num \in Nat : PIG(num) # name
    BY NameFacts
  <2>. HIDE DEF name
  <2>. QED BY <1>1, <1>3, <2>2, <2>3, OtherDirectory
<1>8. CountInv'
  BY <1>1 DEF Inv, CountInv
<1>9. WriteInv'
  <2>1. Stamp' = Stamp
    BY <1>1 DEF Stamp, loga_from_ti
  <2>2. /\ name \in DOMAIN dir' /\ dir'[name].header = Stamp
        /\ \A b \in 1..Blocks : b < block + 1 => dir'[name].blocks[b] = Stamp
    <3>1. CASE block = 0
      <4>1. \A b \in 1..Blocks : ~(b < block + 1)
        BY <3>1, RunAssumption
      <4>. QED BY <1>3, <3>1, <4>1
    <3>2. CASE block > 0
      <4>1. ASSUME NEW b \in 1..Blocks, b < block + 1 PROVE dir'[name].blocks[b] = Stamp
        <5>1. b = block \/ b < block
          BY <1>2, <4>1, RunAssumption
        <5>. QED BY <1>3, <1>4, <3>2, <4>1, <5>1
      <4>. QED BY <1>3, <1>4, <3>2, <4>1
    <3>. QED BY <1>2, <3>1, <3>2
  <2>3. name' = name
    BY <1>1 DEF PART
  <2>. HIDE DEF name
  <2>4. LET n == PART(SnapshotFileCount)' IN
          /\ n \in DOMAIN dir' /\ dir'[n].header = Stamp'
          /\ \A b \in 1..Blocks : b < block' => dir'[n].blocks[b] = Stamp'
    BY <1>1, <2>1, <2>2, <2>3 DEF name
  <2>. QED BY <1>1, <2>4 DEF Inv, WriteInv
<1>10. PlannedInv'
  BY <1>1 DEF Inv, PlannedInv, Listed, Ahead, Due, Ti, Output
<1>. QED BY <1>5, <1>6, <1>7, <1>8, <1>9, <1>10 DEF Inv

\* Groups are written only for the snapshot listed last, at the same time.
LEMMA SaveGroupsInv ==
  ASSUME Inv, SaveGroups
  PROVE  Inv'
<1>. DEFINE name == PIG(SnapshotFileCount)
            part == PART(SnapshotFileCount)
            N == Len(Snapshots)
<1>1. /\ pc = "groups" /\ block <= Blocks /\ Save(name) /\ block' = block + 1
      /\ UNCHANGED <<Snapshots, pc, starts, SyncPoints, Ti_Current, NumCurrentTiStep,
                     SnapshotFileCount, action, Write>>
  BY DEF SaveGroups, Save
<1>2. TypeInv /\ TimeInv /\ pc # "down" /\ block \in Nat
  BY <1>1 DEF Inv, TypeInv
<1>3. /\ DOMAIN dir' = DOMAIN dir \cup {name}
      /\ \A n \in DOMAIN dir : n # name => dir'[n] = dir[n]
      /\ dir'[name] \in Contents
      /\ block = 0 => dir'[name].header = Stamp /\ dir'[name].blocks = On(name).blocks
      /\ block > 0 => /\ dir'[name].header = On(name).header
                      /\ \A b \in 1..Blocks : dir'[name].blocks[b] =
                           IF b = block THEN Stamp ELSE On(name).blocks[b]
  BY <1>1, <1>2, SaveFacts
<1>4. /\ N > 0 /\ N \in 1..N /\ Snapshots[N].num = SnapshotFileCount
      /\ dir[part].header = Stamp /\ part \in DOMAIN dir /\ Complete(N)
  <2>1. N > 0 /\ Snapshots[N].num = SnapshotFileCount /\ dir[part].header = Stamp
    BY <1>1 DEF Inv, WriteInv
  <2>2. N \in 1..N
    BY <1>2, <2>1, SnapshotsFacts
  <2>. QED BY <2>1, <2>2 DEF Inv, DiskInv, Complete
<1>5. \A n \in DOMAIN dir' : dir'[n] \in Contents
  BY <1>3 DEF Inv, TypeInv
<1>6. TypeInv'
  <2>1. block' \in Nat
    BY <1>1, <1>2
  <2>. HIDE DEF name
  <2>. QED BY <1>1, <1>5, <2>1 DEF Inv, TypeInv
<1>7. TimeInv'
  BY <1>1 DEF Inv, TimeInv, Timelines, End, Ti
<1>8. \A b \in 1..Blocks : dir'[name].blocks[b] \in {None, Stamp}
  <2>1. \A b \in 1..Blocks : On(name).blocks[b] \in {None, Stamp}
    <3>1. CASE Exists(name)
      <4>1. name \in DOMAIN dir /\ On(name) = dir[name]
        BY <1>2, <3>1, OnFacts DEF Exists
      <4>. QED BY <1>4, <4>1 DEF Complete
    <3>2. CASE ~Exists(name)
      BY <1>2, <3>2, OnFacts
    <3>. QED BY <3>1, <3>2
  <2>. QED BY <1>2, <1>3, <2>1
<1>9. DiskInv'
  <2>1. ASSUME NEW i \in 1..N PROVE Complete(i)'
    <3>. DEFINE num == Snapshots[i].num
    <3>1. Complete(i) /\ num \in Nat
      BY <1>2, SnapshotsFacts DEF Inv, DiskInv
    <3>2. dir'[PART(num)] = dir[PART(num)] /\ PART(num) \in DOMAIN dir'
      BY <1>3, <3>1, NameFacts DEF Complete
    <3>3. PIG(num) \in DOMAIN dir' =>
            \A b \in 1..Blocks : dir'[PIG(num)].blocks[b] \in {None, dir'[PART(num)].header}
      <4>1. CASE PIG(num) = name
        <5>1. num = SnapshotFileCount
          BY <4>1, NameFacts
        <5>2. dir'[PART(num)].header = Stamp
          BY <1>4, <3>2, <5>1
        <5>. QED BY <1>8, <4>1, <5>2
      <4>2. CASE PIG(num) # name
        <5>1. PIG(num) \in DOMAIN dir' => PIG(num) \in DOMAIN dir /\ dir'[PIG(num)] = dir[PIG(num)]
          BY <1>3, <4>2
        <5>. QED BY <3>1, <3>2, <5>1 DEF Complete
      <4>. QED BY <4>1, <4>2
    <3>4. Snapshots'[i] = Snapshots[i] /\ Snapshots'[i].num = num
      BY <1>1
    <3>5. IsWhole(dir'[PART(num)]) /\ dir'[PART(num)].header[2] = Snapshots'[i].time
          /\ Snapshots'[i].time \in TimeIC..TimeMax
      BY <3>1, <3>2, <3>4 DEF Complete, IsWhole
    <3>6. PART(num)' = PART(num) /\ PIG(num)' = PIG(num) /\ Snapshots'[i].num = num
      BY <1>1 DEF PART, PIG
    <3>. QED BY <3>2, <3>3, <3>4, <3>5 DEF Complete, IsWhole, PART, PIG, None
  <2>2. ASSUME NEW num \in Nat, PIG(num) \in DOMAIN dir'
        PROVE  \E i \in 1..N : Snapshots[i].num = num
    <3>1. CASE PIG(num) = name
      <4>1. num = SnapshotFileCount
        BY <3>1, NameFacts
      <4>. QED BY <1>4, <4>1
    <3>2. CASE PIG(num) # name
      BY <1>3, <2>2, <3>2 DEF Inv, DiskInv
    <3>. QED BY <3>1, <3>2
  <2>3. \A i, j \in 1..N : i < j => Snapshots[i].num < Snapshots[j].num
    BY DEF Inv, DiskInv
  <2>. QED BY <1>1, <2>1, <2>2, <2>3 DEF DiskInv, PIG
<1>10. CountInv'
  BY <1>1 DEF Inv, CountInv
<1>11. WriteInv'
  <2>1. Stamp' = Stamp
    BY <1>1 DEF Stamp, loga_from_ti
  <2>2. dir'[part] = dir[part]
    BY <1>3, <1>4, NameFacts
  <2>3. part' = part
    BY <1>1 DEF PART
  <2>4. Write.snapshot
    BY <1>1 DEF Inv, WriteInv
  <2>5. dir'[PART(SnapshotFileCount)'].header = Stamp'
    BY <1>4, <2>1, <2>2, <2>3
  <2>6. Len(Snapshots') > 0 /\ Snapshots'[Len(Snapshots')].num = SnapshotFileCount'
    BY <1>1, <1>4
  <2>. QED BY <1>1, <2>4, <2>5, <2>6 DEF Inv, WriteInv
<1>12. PlannedInv'
  BY <1>1 DEF Inv, PlannedInv, Listed, Ahead, Due, Ti, Output
<1>. QED BY <1>6, <1>7, <1>9, <1>10, <1>11, <1>12 DEF Inv

\* A snapshot is listed when all of it is there, and nothing that is due
\* before its time is missing.
LEMMA ListSnapshotInv ==
  ASSUME Inv, ListSnapshot
  PROVE  Inv'
<1>. DEFINE N == Len(Snapshots)
            line == [num |-> SnapshotFileCount, time |-> Time]
            part == PART(SnapshotFileCount)
<1>1. /\ pc = "snapshot" /\ block > Blocks /\ block' = 0
      /\ Snapshots' = Append(Snapshots, line)
      /\ pc' = IF Write.fof THEN "groups" ELSE "plane"
      /\ UNCHANGED <<dir, starts, SyncPoints, Ti_Current, NumCurrentTiStep,
                     SnapshotFileCount, action, Write>>
  BY DEF ListSnapshot
<1>2. /\ TypeInv /\ TimeInv /\ pc # "down" /\ pc' \in {"groups", "plane"}
      /\ block \in Nat /\ SnapshotFileCount \in Nat
  BY <1>1 DEF Inv, TypeInv, CountInv
<1>3. /\ Stamp \in Stamps /\ Stamp # None /\ Stamp[2] = Time /\ Time \in TimeIC..TimeMax
      /\ \A n \in 1..Len(SyncPoints) : Ti(n) > Ti_Current => Time < SyncPoints[n].a
      /\ \A n \in 1..Len(SyncPoints) : Ti(n) = Ti_Current => Time = SyncPoints[n].a
  BY <1>2, StampFacts
<1>4. /\ N \in Nat /\ Len(Snapshots') = N + 1 /\ Snapshots'[N + 1] = line
      /\ \A i \in 1..N : Snapshots'[i] = Snapshots[i]
      /\ Snapshots' \in Seq([num : Nat, time : Int])
  <2>1. PICK R : R = [num : Nat, time : Int]
    OBVIOUS
  <2>2. Snapshots \in Seq(R)
    BY <1>2, <2>1 DEF TypeInv
  <2>3. line \in R
    BY <1>2, <1>3, <2>1, RunAssumption
  <2>. HIDE DEF line
  <2>. QED BY <1>1, <2>1, <2>2, <2>3
<1>5. line.num = SnapshotFileCount /\ line.time = Time
  OBVIOUS
<1>6. /\ part \in DOMAIN dir /\ dir[part].header = Stamp
      /\ \A b \in 1..Blocks : dir[part].blocks[b] = Stamp
  <2>1. block > 0 /\ \A b \in 1..Blocks : b < block
    BY <1>1, <1>2, RunAssumption
  <2>. QED BY <1>1, <2>1 DEF Inv, WriteInv
<1>7. \A i \in 1..N : Snapshots[i].num \in Nat /\ Snapshots[i].num < SnapshotFileCount
  BY <1>1, <1>2, SnapshotsFacts DEF Inv, CountInv
<1>. HIDE DEF line
<1>8. \A i \in 1..Len(Snapshots') : i \in 1..N \/ i = N + 1
  BY <1>4
<1>9. TypeInv'
  BY <1>1, <1>2, <1>4 DEF Inv, TypeInv, Labels
<1>10. TimeInv'
  BY <1>1, <1>2 DEF Inv, TimeInv, Timelines, End, Ti
<1>11. DiskInv'
  <2>1. ASSUME NEW i \in 1..N PROVE Complete(i)'
    <3>1. Complete(i) /\ Snapshots'[i] = Snapshots[i] /\ dir' = dir
      BY <1>1, <1>2, <1>4 DEF Inv, DiskInv
    <3>. QED BY <3>1 DEF Complete, IsWhole
  <2>a. PICK m \in Nat : m = N + 1
    BY <1>4
  <2>2. Complete(m)'
    <3>1. ~(PIG(SnapshotFileCount) \in DOMAIN dir)
      <4>1. \A i \in 1..N : Snapshots[i].num # SnapshotFileCount
        BY <1>2, <1>7
      <4>. QED BY <1>2, <4>1 DEF Inv, DiskInv
    <3>2. IsWhole(dir[part])
      BY <1>3, <1>6 DEF IsWhole
    <3>3. Snapshots'[m].num = SnapshotFileCount /\ Snapshots'[m].time = Time
      BY <1>4, <1>5, <2>a
    <3>. QED BY <1>1, <1>3, <1>6, <3>1, <3>2, <3>3 DEF Complete, IsWhole, PART, PIG
  <2>3. ASSUME NEW i \in 1..(N + 1), NEW j \in 1..(N + 1), i < j
        PROVE  Snapshots'[i].num < Snapshots'[j].num
    <3>1. i \in 1..N
      BY <1>4, <2>3
    <3>2. CASE j \in 1..N
      BY <1>4, <2>3, <3>1, <3>2 DEF Inv, DiskInv
    <3>3. CASE j = N + 1
      BY <1>4, <1>5, <1>7, <3>1, <3>3
    <3>. QED BY <1>4, <3>2, <3>3
  <2>4. ASSUME NEW num \in Nat, PIG(num) \in DOMAIN dir
        PROVE  \E i \in 1..(N + 1) : Snapshots'[i].num = num
    <3>1. PICK i \in 1..N : Snapshots[i].num = num
      BY <2>4 DEF Inv, DiskInv
    <3>2. i \in 1..(N + 1) /\ Snapshots'[i] = Snapshots[i]
      BY <1>4, <3>1
    <3>. QED BY <3>1, <3>2
  <2>6. \A i \in 1..Len(Snapshots') : Complete(i)'
    BY <1>8, <2>1, <2>2, <2>a
  <2>. QED BY <1>1, <1>4, <2>3, <2>4, <2>6 DEF DiskInv, PIG
<1>12. CountInv'
  <2>1. \A i \in 1..Len(Snapshots') : Snapshots'[i].num <= SnapshotFileCount
    <3>1. ASSUME NEW i \in 1..N PROVE Snapshots'[i].num <= SnapshotFileCount
      <4>1. Snapshots[i].num \in Nat /\ Snapshots[i].num < SnapshotFileCount
        BY <1>7
      <4>2. Snapshots'[i] = Snapshots[i]
        BY <1>4
      <4>. QED BY <1>2, <4>1, <4>2
    <3>2. Snapshots'[N + 1].num <= SnapshotFileCount
      BY <1>2, <1>4, <1>5
    <3>. QED BY <1>8, <3>1, <3>2
  <2>. QED BY <1>1, <1>2, <2>1 DEF CountInv
<1>13. WriteInv'
  <2>1. Stamp' = Stamp /\ part' = part
    BY <1>1 DEF Stamp, loga_from_ti, PART
  <2>2. Write.snapshot
    BY <1>1 DEF Inv, WriteInv
  <2>3. Len(Snapshots') > 0 /\ Snapshots'[Len(Snapshots')].num = SnapshotFileCount
    BY <1>4, <1>5
  <2>4. dir'[PART(SnapshotFileCount)'].header = Stamp'
    BY <1>1, <1>6, <2>1
  <2>. QED BY <1>1, <1>2, <2>2, <2>3, <2>4 DEF Inv, WriteInv
<1>14. PlannedInv'
  <2>1. \A a : Listed(a) => Listed(a)'
    BY <1>4 DEF Listed
  <2>2. ASSUME NEW a, a = Time PROVE Listed(a)'
    <3>1. N + 1 \in 1..Len(Snapshots') /\ Snapshots'[N + 1].time = a
      BY <1>4, <1>5, <2>2
    <3>. QED BY <3>1 DEF Listed
  <2>3. ASSUME NEW a \in TimeIC..TimeMax, Ahead(a)
        PROVE  Listed(a)' \/ (Ahead(a)' /\ a > Time)
    <3>1. PICK n \in 1..Len(SyncPoints) :
            /\ SyncPoints[n].a = a /\ SyncPoints[n].write_snapshot
            /\ Ti(n) > Ti_Current \/ (Ti(n) = Ti_Current /\ Due)
      BY <2>3 DEF Ahead
    <3>2. CASE Ti(n) > Ti_Current
      <4>1. a > Time
        BY <1>3, <3>1, <3>2, RunAssumption
      <4>. QED BY <1>1, <3>1, <3>2, <4>1 DEF Ahead, Ti
    <3>3. CASE Ti(n) = Ti_Current
      <4>1. a = Time
        BY <1>3, <3>1, <3>3
      <4>. QED BY <2>2, <4>1
    <3>. QED BY <3>1, <3>2, <3>3
  <2>4. \A a \in TimeIC..TimeMax : Output(a) => Listed(a) \/ Ahead(a)
    BY <1>2 DEF Inv, PlannedInv
  <2>5. \A a \in TimeIC..TimeMax : Output(a) => Listed(a)' \/ (Ahead(a)' /\ a > Time)
    BY <2>1, <2>3, <2>4
  <2>6. Snapshots'[Len(Snapshots')].time = Time
    BY <1>4, <1>5
  <2>7. \A a \in TimeIC..Time : Output(a) => Listed(a)'
    <3>1. \A a \in TimeIC..Time : a \in TimeIC..TimeMax /\ ~(a > Time)
      BY <1>3, RunAssumption
    <3>. QED BY <2>5, <3>1
  <2>8. \A a : Output(a)' <=> Output(a)
    BY DEF Output
  <2>. HIDE DEF N
  <2>9. Len(Snapshots') > 0 =>
          \A a \in TimeIC..(Snapshots'[Len(Snapshots')].time) : Output(a)' => Listed(a)'
    BY <2>6, <2>7, <2>8
  <2>10. pc' # "down" => \A a \in TimeIC..TimeMax : Output(a)' => Listed(a)' \/ Ahead(a)'
    BY <2>5, <2>8
  <2>. QED BY <2>9, <2>10, Zenon DEF PlannedInv
<1>. QED BY <1>9, <1>10, <1>11, <1>12, <1>13, <1>14 DEF Inv

\* Steps from one label to the next.
LEMMA MoveInv ==
  ASSUME Inv, NEW label \in {"plane", "decide", "advance"}, Moves(label),
         \/ pc = "groups" /\ label = "plane"
         \/ pc = "plane" /\ label = "decide"
         \/ /\ pc = "decide" /\ label = "advance"
            /\ find_next_sync_point(Ti_Current)
  PROVE  Inv'
<1>1. NumCurrentTiStep = 1
  BY DEF Inv, TypeInv, TimeInv
<1>2. pc # "down" /\ pc' = label /\ label # "snapshot"
  BY DEF Moves
<1>3. TypeInv'
  BY DEF Inv, TypeInv, Moves, Labels
<1>4. TimeInv'
  <2>1. pc = "decide" => DOMAIN SyncPoints = 1..Len(SyncPoints)
    BY TimelineFacts DEF Inv, TimeInv
  <2>2. pc' = "advance" => \E n \in 1..Len(SyncPoints) : Ti(n) > Ti_Current
    BY <1>2, <2>1 DEF find_next_sync_point, Ti
  <2>. QED BY <1>1, <1>2, <2>2 DEF Inv, TimeInv, Moves, Timelines, End, Ti
<1>5. DiskInv'
  BY DEF Inv, DiskInv, Complete, Moves, IsWhole
<1>6. CountInv'
  BY <1>2 DEF Inv, CountInv, Moves
<1>7. WriteInv'
  BY <1>2 DEF Inv, WriteInv, Moves, Stamp, loga_from_ti
<1>8. PlannedInv'
  <2>1. \A a : Ahead(a) => Ahead(a)'
    BY <1>1, <1>2 DEF Ahead, Due, Moves, Ti
  <2>. QED BY <1>2, <2>1 DEF Inv, PlannedInv, Moves, Listed, Output
<1>. QED BY <1>3, <1>4, <1>5, <1>6, <1>7, <1>8 DEF Inv

\* The dump of a process that finds no time step is no snapshot.
LEMMA BadTimestepInv ==
  ASSUME Inv, BadTimestep
  PROVE  Inv'
<1>. DEFINE name == <<"TIMESTEP-DUMP", 0>>
            d == [Empty EXCEPT !.header = Stamp]
<1>1. /\ pc = "decide" /\ pc' = "down" /\ Put(name, d)
      /\ UNCHANGED <<Snapshots, starts, SyncPoints, Ti_Current, NumCurrentTiStep,
                     SnapshotFileCount, action, Write, block>>
  BY DEF BadTimestep
<1>2. d \in Contents
  <2>1. Empty \in Contents /\ Stamp \in Stamps
    BY <1>1, OnFacts, StampFacts DEF Inv
  <2>2. PICK s \in Stamps : s = Stamp
    BY <2>1
  <2>3. d = [Empty EXCEPT !.header = s]
    BY <2>2
  <2>. HIDE DEF d
  <2>. QED BY <2>1, <2>3 DEF Contents
<1>. HIDE DEF name, d
<1>3. /\ DOMAIN dir' = DOMAIN dir \cup {name}
      /\ dir'[name] = d
      /\ \A n \in DOMAIN dir : n # name => dir'[n] = dir[n]
  BY <1>1, PutFacts
<1>4. TypeInv'
  <2>1. \A n \in DOMAIN dir' : dir'[n] \in Contents
    BY <1>2, <1>3 DEF Inv, TypeInv
  <2>. QED BY <1>1, <2>1 DEF Inv, TypeInv, Labels
<1>5. DiskInv'
  <2>1. /\ \A i \in 1..Len(Snapshots) : PART(Snapshots[i].num) # name
        /\ \A num \in Nat : PIG(num) # name
    BY NameFacts DEF name
  <2>. QED BY <1>1, <1>3, <2>1, OtherDirectory
<1>6. TimeInv' /\ CountInv'
  BY <1>1 DEF TimeInv, CountInv
<1>7. WriteInv'
  BY <1>1 DEF Inv, WriteInv
<1>8. PlannedInv'
  BY <1>1 DEF Inv, PlannedInv, Listed, Output
<1>. QED BY <1>4, <1>5, <1>6, <1>7, <1>8 DEF Inv

\* Each action keeps the invariant.
LEMMA NextInv ==
  ASSUME Inv, [Next]_vars
  PROVE  Inv'
<1>1. CASE UNCHANGED vars
  <2>1. Moves(pc)
    BY <1>1 DEF vars, disk, process, Moves
  <2>. QED BY <2>1, SameInv
<1>2. ASSUME NEW file \in Files, Request(file) PROVE Inv'
  <2>1. Moves(pc)
    BY <1>2 DEF Request, process, Moves
  <2>. QED BY <2>1, SameInv
<1>3. CASE Crash
  <2>1. Moves("down")
    BY <1>3 DEF Crash, disk, Moves
  <2>. QED BY <2>1, DownInv
<1>4. CASE TearLine
  <2>1. Moves("down")
    BY <1>4 DEF TearLine, Moves
  <2>. QED BY <2>1, DownInv
<1>5. CASE GroupsSaved
  <2>1. Moves("plane") /\ pc = "groups"
    BY <1>5 DEF GroupsSaved, disk, Moves
  <2>. QED BY <2>1, MoveInv
<1>6. CASE WritePlane
  <2>1. (Moves("down") \/ Moves("decide")) /\ pc = "plane"
    BY <1>6 DEF WritePlane, disk, Moves
  <2>. QED BY <2>1, MoveInv, DownInv
<1>7. CASE Decide
  <2>1. /\ Moves("down") \/ (Moves("advance") /\ find_next_sync_point(Ti_Current))
        /\ pc = "decide"
    BY <1>7, Zenon DEF Decide, disk, Moves
  <2>. QED BY <2>1, MoveInv, DownInv
<1>. QED BY <1>1, <1>2, <1>3, <1>4, <1>5, <1>6, <1>7, StartInv, AdvanceInv, QueryInv,
            PhysicsInv, SaveSnapshotInv, ListSnapshotInv, SaveGroupsInv, BadTimestepInv
         DEF Next, Run

\* In every state the inductive invariant holds.
LEMMA SpecInv == Spec => []Inv
<1>1. Init => Inv
  BY InitInv
<1>2. Inv /\ [Next]_vars => Inv'
  BY NextInv
<1>. QED BY <1>1, <1>2, PTL DEF Spec

----------------------------------------------------------------------------
(* The properties.                                                         *)

\* It says that what is listed is whole,
LEMMA InvWhole == Inv => ListedIsWhole
<1>. SUFFICES ASSUME Inv, NEW i \in DOMAIN Snapshots
              PROVE  LET num  == Snapshots[i].num
                         part == dir[PART(num)]
                         pig  == On(PIG(num))
                     IN /\ IsWhole(part)
                        /\ part.header[2] = Snapshots[i].time
                        /\ \A b \in 1..Blocks : pig.blocks[b] \in {None, part.header}
  BY DEF ListedIsWhole
<1>. DEFINE num == Snapshots[i].num
<1>1. Complete(i) /\ TypeInv
  BY SnapshotsFacts DEF Inv, DiskInv
<1>2. \A b \in 1..Blocks : On(PIG(num)).blocks[b] \in {None, dir[PART(num)].header}
  <2>1. CASE Exists(PIG(num))
    BY <1>1, <2>1, OnFacts DEF Complete, Exists
  <2>2. CASE ~Exists(PIG(num))
    BY <1>1, <2>2, OnFacts
  <2>. QED BY <2>1, <2>2
<1>. QED BY <1>1, <1>2 DEF Complete

\* and that nothing due before the current time is missing.
LEMMA InvDue == Inv => WrittenWhenDue
<1>. SUFFICES ASSUME Inv PROVE WrittenWhenDue
  OBVIOUS
<1>1. PlannedIsWritten
  <2>. SUFFICES ASSUME pc = "decide", ~find_next_sync_point(Ti_Current),
                       NEW o \in DOMAIN OutputList, OutputList[o] \in TimeIC..TimeMax
                PROVE  \E s \in Range(Snapshots) : s.time = OutputList[o]
    BY DEF PlannedIsWritten
  <2>1. Listed(OutputList[o]) \/ Ahead(OutputList[o])
    BY DEF Inv, PlannedInv, Output
  <2>2. DOMAIN SyncPoints = 1..Len(SyncPoints)
    BY TimelineFacts DEF Inv, TimeInv
  <2>3. NumCurrentTiStep = 1 => ~Ahead(OutputList[o])
    BY <2>2 DEF Ahead, Due, find_next_sync_point, Ti
  <2>4. NumCurrentTiStep = 1
    BY DEF Inv, TimeInv, TypeInv
  <2>5. PICK i \in 1..Len(Snapshots) : Snapshots[i].time = OutputList[o]
    BY <2>1, <2>3, <2>4 DEF Listed
  <2>6. i \in DOMAIN Snapshots
    BY SnapshotsFacts DEF Inv
  <2>. QED BY <2>5, <2>6 DEF Range
<1>2. RequestIsServed
  <2>. SUFFICES ASSUME pc = "decide",
                       \/ action.write_snapshot
                       \/ action.type \in {"checkpoint", "stop", "timeout", "auto"}
                PROVE  Snapshots # <<>> /\ dir[PART(Last(Snapshots).num)].header = Stamp
    BY DEF RequestIsServed
  <2>1. Write.snapshot
    BY DEF Inv, WriteInv
  <2>2. /\ Len(Snapshots) > 0 /\ Snapshots[Len(Snapshots)].num = SnapshotFileCount
        /\ dir[PART(SnapshotFileCount)].header = Stamp
    BY <2>1 DEF Inv, WriteInv
  <2>3. Snapshots # <<>>
    BY <2>2
  <2>. QED BY <2>2, <2>3 DEF Last
<1>. QED BY <1>1, <1>2 DEF WrittenWhenDue

\* Whatever the planned outputs, the requests, the crashes and the restarts:
\* every listed snapshot has all its blocks, written by one process at the
\* time that is listed, and its groups are of the same moment.
THEOREM ListedSnapshotsAreWhole == Spec => []ListedIsWhole
  BY SpecInv, InvWhole, PTL

\* No step changes the directory of a listed snapshot.
THEOREM ListedSnapshotsAreKept == Spec => ListedIsKept
<1>1. Inv /\ [Next]_vars =>
        [\A i \in DOMAIN Snapshots :
           LET num == Snapshots[i].num IN dir'[PART(num)] = dir[PART(num)]]_vars
  <2>. SUFFICES ASSUME Inv, Next, NEW i \in DOMAIN Snapshots
                PROVE  dir'[PART(Snapshots[i].num)] = dir[PART(Snapshots[i].num)]
    OBVIOUS
  <2>. DEFINE part == PART(Snapshots[i].num)
  <2>1. /\ TypeInv /\ TimeInv /\ part \in DOMAIN dir /\ Snapshots[i].num \in Nat
        /\ pc = "snapshot" => Snapshots[i].num < SnapshotFileCount
    BY SnapshotsFacts DEF Inv, DiskInv, Complete, CountInv
  <2>2. CASE SaveSnapshot
    <3>1. pc = "snapshot" /\ block <= Blocks /\ Save(PART(SnapshotFileCount))
      BY <2>2 DEF SaveSnapshot
    <3>2. \A n \in DOMAIN dir : n # PART(SnapshotFileCount) => dir'[n] = dir[n]
      BY <2>1, <3>1, SaveFacts
    <3>3. part # PART(SnapshotFileCount)
      <4>1. Snapshots[i].num # SnapshotFileCount
        BY <2>1, <3>1 DEF TypeInv
      <4>. QED BY <4>1, NameFacts
    <3>. QED BY <2>1, <3>2, <3>3
  <2>3. CASE SaveGroups
    <3>1. pc = "groups" /\ block <= Blocks /\ Save(PIG(SnapshotFileCount))
      BY <2>3 DEF SaveGroups
    <3>2. \A n \in DOMAIN dir : n # PIG(SnapshotFileCount) => dir'[n] = dir[n]
      BY <2>1, <3>1, SaveFacts
    <3>. QED BY <2>1, <3>2, NameFacts
  <2>4. CASE BadTimestep
    <3>1. Put(<<"TIMESTEP-DUMP", 0>>, [Empty EXCEPT !.header = Stamp])
      BY <2>4 DEF BadTimestep
    <3>2. \A n \in DOMAIN dir : n # <<"TIMESTEP-DUMP", 0>> => dir'[n] = dir[n]
      BY <3>1, PutFacts
    <3>. QED BY <2>1, <3>2, NameFacts
  <2>5. CASE UNCHANGED dir
    BY <2>5
  <2>6. SaveSnapshot \/ SaveGroups \/ BadTimestep \/ UNCHANGED dir
    BY DEF Next, Run, Request, Start, Advance, Query, Physics, ListSnapshot, GroupsSaved,
           WritePlane, Decide, Crash, TearLine, disk
  <2>. QED BY <2>2, <2>3, <2>4, <2>5, <2>6
<1>. QED BY <1>1, SpecInv, PTL DEF Spec, ListedIsKept

\* A simulation that ends has every planned snapshot listed, and whoever asks
\* for one has it before the next time step.
THEOREM SnapshotsAreWrittenWhenDue == Spec => []WrittenWhenDue
  BY SpecInv, InvDue, PTL
=============================================================================
