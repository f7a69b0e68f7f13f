----------------------------- MODULE DataLemmas -----------------------------
(***************************************************************************)
(* Facts about natural numbers, sequences and finite sets that the proofs  *)
(* of several components need.  Induction is stated for sets of numbers:   *)
(* a step that proves something for all n names the set of those n.        *)
(***************************************************************************)
EXTENDS Integers, Selection, SequencesExt, SequenceTheorems, FiniteSets,
        FiniteSetTheorems, WellFoundedInduction, TLAPS

\* A set of natural numbers has a least element.
LEMMA LeastNat ==
  ASSUME NEW T, T \subseteq Nat, T # {}
  PROVE  \E n \in T : \A m \in T : n <= m
<1>1. PICK n \in T : \A y \in T : ~ (<<y, n>> \in OpToRel(<, Nat))
  BY NatLessThanWellFounded, WFMin, Zenon
<1>2. \A y \in T : ~(y < n)
  BY <1>1 DEF OpToRel
<1>. QED BY <1>2

\* A set that has 0, and n + 1 with each n, has all natural numbers.
LEMMA NatSetInduction ==
  ASSUME NEW T, 0 \in T, \A n \in Nat : n \in T => n + 1 \in T
  PROVE  Nat \subseteq T
<1>. SUFFICES ASSUME Nat \ T # {} PROVE FALSE
  OBVIOUS
<1>1. PICK n \in Nat \ T : \A m \in Nat \ T : n <= m
  BY LeastNat
<1>2. n - 1 \in Nat /\ n - 1 \in T
  BY <1>1
<1>. QED BY <1>1, <1>2

----------------------------------------------------------------------------
(* Division with remainder.                                                *)

\* Division with remainder.
LEMMA DivMod ==
  ASSUME NEW t \in Nat, NEW d \in Nat \ {0}
  PROVE  \E q \in Nat, r \in 0..d-1 : t = d*q + r /\ t % d = r
<1>1. t = d * (t \div d) + (t % d)
  BY Z3
<1>2. t % d \in 0..d-1
  BY Z3
<1>3. t \div d \in Nat
  BY Z3
<1>4. QED
  BY <1>1, <1>2, <1>3

\* The remainder is the only number that may be one.
LEMMA ModUnique ==
  ASSUME NEW d \in Nat \ {0}, NEW q \in Nat, NEW r \in 0..d-1
  PROVE  (d*q + r) % d = r
  BY Z3

\* A multiple of d plus d is one.
LEMMA ModStep ==
  ASSUME NEW t \in Nat, NEW d \in Nat \ {0}, t % d = 0
  PROVE  (t + d) % d = 0
<1>1. PICK q \in Nat, r \in 0..d-1 : t = d*q + r /\ t % d = r
  BY DivMod
<1>2. t + d = d*(q+1) + 0
  BY <1>1
<1>3. (d*(q+1) + 0) % d = 0
  BY ModUnique
<1>4. QED
  BY <1>2, <1>3

\* Twice a multiple of d is one.
LEMMA ModTwice ==
  ASSUME NEW t \in Nat, NEW d \in Nat \ {0}, t % d = 0
  PROVE  (t + t) % d = 0
<1>1. PICK q \in Nat, r \in 0..d-1 : t = d*q + r /\ t % d = r
  BY DivMod
<1>2. t + t = d*(q + q) + 0 /\ q + q \in Nat /\ 0 \in 0..d-1
  BY <1>1, Z3
<1>3. QED
  BY <1>2, ModUnique

\* The next multiple of d is d away.
LEMMA ModBetween ==
  ASSUME NEW t \in Nat, NEW d \in Nat \ {0}, NEW s \in Nat,
         t % d = 0, s % d = 0, t < s
  PROVE  t + d <= s
<1>1. PICK q \in Nat, r \in 0..d-1 : t = d*q + r /\ t % d = r
  BY DivMod
<1>2. PICK q2 \in Nat, r2 \in 0..d-1 : s = d*q2 + r2 /\ s % d = r2
  BY DivMod
<1>3. t = d*q /\ s = d*q2
  BY <1>1, <1>2
<1>4. q + 1 <= q2
  BY <1>3
<1>5. d*(q+1) <= d*q2
  BY <1>4, Z3
<1>6. QED
  BY <1>3, <1>5

\* A multiple of a multiple of a is a multiple of a.
LEMMA ModTrans ==
  ASSUME NEW t \in Nat, NEW a \in Nat \ {0}, NEW b \in Nat \ {0},
         t % b = 0, b % a = 0
  PROVE  t % a = 0
<1>1. PICK q \in Nat, r \in 0..b-1 : t = b*q + r /\ t % b = r
  BY DivMod
<1>2. PICK q2 \in Nat, r2 \in 0..a-1 : b = a*q2 + r2 /\ b % a = r2
  BY DivMod
<1>3. t = a*(q2*q) + 0
  BY <1>1, <1>2
<1>4. q2*q \in Nat
  OBVIOUS
<1>5. (a*(q2*q) + 0) % a = 0
  BY <1>4, ModUnique
<1>6. QED
  BY <1>3, <1>5

\* What remains of a multiple of a after division by a multiple of a.
LEMMA ModRest ==
  ASSUME NEW t \in Nat, NEW a \in Nat \ {0}, NEW b \in Nat \ {0},
         t % a = 0, b % a = 0
  PROVE  (t % b) % a = 0
<1>1. PICK q \in Nat, r \in 0..b-1 : t = b*q + r /\ t % b = r
  BY DivMod
<1>2. PICK u \in Nat, ru \in 0..a-1 : t = a*u + ru /\ t % a = ru
  BY DivMod
<1>3. PICK v \in Nat, rv \in 0..a-1 : b = a*v + rv /\ b % a = rv
  BY DivMod
<1>4. r = a*(u - v*q)
  <2>1. (a*v)*q = a*(v*q)
    BY Z3
  <2>2. a*(u - v*q) = a*u - a*(v*q)
    BY Z3
  <2>3. QED
    BY <1>1, <1>2, <1>3, <2>1, <2>2
<1>5. u - v*q \in Nat
  <2>1. v*q \in Int
    OBVIOUS
  <2>2. u - v*q < 0 => a*(u - v*q) < 0
    BY <2>1, Z3
  <2>3. QED
    BY <1>1, <1>4, <2>1, <2>2
<1>6. (a*(u - v*q) + 0) % a = 0
  BY <1>5, ModUnique
<1>7. QED
  BY <1>1, <1>4, <1>6

\* A remainder is less than the divisor.
LEMMA ModRange ==
  ASSUME NEW t \in Nat, NEW d \in Nat \ {0}
  PROVE  t % d \in Nat /\ t % d < d /\ t % d <= t
<1>1. PICK q \in Nat, r \in 0..d-1 : t = d*q + r /\ t % d = r
  BY DivMod
<1>2. d*q \in Nat
  OBVIOUS
<1>3. QED
  BY <1>1, <1>2

\* Adding a to a multiple of a either reaches the next multiple of b or adds
\* to the remainder.
LEMMA ModLonger ==
  ASSUME NEW t \in Nat, NEW a \in Nat \ {0}, NEW b \in Nat \ {0},
         t % a = 0, b % a = 0
  PROVE  \/ (t + a) % b = 0 /\ (t % b) + a = b
         \/ (t + a) % b = (t % b) + a
<1>1. PICK q \in Nat, r \in 0..b-1 : t = b*q + r /\ t % b = r
  BY DivMod
<1>2. r \in Nat /\ r < b /\ r % a = 0
  <2>1. (t % b) % a = 0
    BY ModRest
  <2>2. QED
    BY <1>1, <2>1
<1>3. r + a <= b
  BY <1>2, ModBetween
<1>4. b*q \in Nat /\ b*(q+1) = b*q + b
  BY Z3
<1>5. CASE r + a = b
  <2>1. t + a = b*(q+1) + 0
    BY <1>1, <1>2, <1>4, <1>5
  <2>2. (b*(q+1) + 0) % b = 0
    BY ModUnique
  <2>3. QED
    BY <1>1, <1>5, <2>1, <2>2
<1>6. CASE r + a < b
  <2>1. t + a = b*q + (r + a)
    BY <1>1, <1>2, <1>4
  <2>2. r + a \in 0..b-1
    BY <1>2, <1>6
  <2>3. (b*q + (r + a)) % b = r + a
    BY <2>2, ModUnique
  <2>4. QED
    BY <1>1, <2>1, <2>3
<1>7. QED
  BY <1>2, <1>3, <1>5, <1>6

\* Where x of a whole d lies on a scale of n.
Scaled(x, n, d) == (x * n) \div d

\* It is on the scale, and the ends are at its ends.
LEMMA ScaleBounds ==
  ASSUME NEW d \in Nat \ {0}, NEW n \in Nat \ {0}, NEW x \in 0..d
  PROVE  /\ Scaled(x, n, d) \in 0..n
         /\ x < d => Scaled(x, n, d) < n
         /\ x = 0 => Scaled(x, n, d) = 0
         /\ x = d => Scaled(x, n, d) = n
<1>. DEFINE q == (x * n) \div d
            r == (x * n) % d
<1>1. x * n \in Nat
  OBVIOUS
<1>2. q \in Nat /\ r \in 0..d-1 /\ x * n = d * q + r
  BY <1>1, Z3
<1>. HIDE DEF q, r
<1>3. x * n <= d * n
  BY Z3
<1>4. x < d => x * n < d * n
  BY Z3
<1>5. ASSUME n < q PROVE FALSE
  <2>1. d * n < d * q
    BY <1>2, <1>5, Z3
  <2>2. d * q \in Nat /\ d * n \in Nat
    BY <1>2
  <2>. QED BY <1>1, <1>2, <1>3, <2>1, <2>2
<1>6. ASSUME x < d, q = n PROVE FALSE
  <2>1. d * q = d * n /\ d * n \in Nat
    BY <1>6
  <2>. QED BY <1>1, <1>2, <1>4, <1>6, <2>1
<1>7. q \in 0..n /\ (x < d => q < n)
  BY <1>2, <1>5, <1>6
<1>8. ASSUME x = 0 PROVE q = 0
  <2>1. x * n = 0
    BY <1>8
  <2>2. q > 0 => d * q > 0
    BY <1>2, Z3
  <2>. QED BY <1>2, <2>1, <2>2
<1>9. ASSUME x = d PROVE q = n
  <2>1. x * n = d * n
    BY <1>9
  <2>2. q + 1 <= n => d * (q + 1) <= d * n
    BY <1>2, Z3
  <2>3. d * (q + 1) = d * q + d
    BY <1>2, Z3
  <2>4. d * q \in Nat /\ d * n \in Nat
    BY <1>2
  <2>. QED BY <1>2, <1>7, <2>1, <2>2, <2>3, <2>4
<1>. QED BY <1>7, <1>8, <1>9 DEF q, Scaled

----------------------------------------------------------------------------

\* F takes n values in S after base, each from the one before.
Unfolds(F, S, n, base, step) ==
  /\ F \in [0..n -> S]
  /\ F[0] = base
  /\ \A i \in 1..n : F[i] = step[<<F[i-1], i>>]

\* Such a function exists.
LEMMA RecurrenceExists ==
  ASSUME NEW S, NEW N \in Nat, NEW base \in S, NEW step,
         step \in [S \X (1..N) -> S]
  PROVE  \E F : Unfolds(F, S, N, base, step)
<1>. DEFINE Good(n, F) == /\ F[0] = base
                          /\ \A i \in 1..n : F[i] = step[<<F[i-1], i>>]
            T == {n \in Nat : n <= N => \E F \in [0..n -> S] : Good(n, F)}
<1>1. 0 \in T
  <2>1. [i \in 0..0 |-> base] \in [0..0 -> S] /\ Good(0, [i \in 0..0 |-> base])
    OBVIOUS
  <2>. QED BY <2>1
<1>2. ASSUME NEW n \in Nat, n \in T PROVE n + 1 \in T
  <2>. SUFFICES ASSUME n + 1 <= N PROVE \E F \in [0..n+1 -> S] : Good(n + 1, F)
    OBVIOUS
  <2>1. PICK f \in [0..n -> S] : Good(n, f)
    BY <1>2
  <2>2. PICK v \in S : v = step[<<f[n], n + 1>>]
    BY <2>1
  <2>. DEFINE g == [i \in 0..n+1 |-> IF i <= n THEN f[i] ELSE v]
  <2>3. g \in [0..n+1 -> S]
    BY <2>1, <2>2
  <2>4. g[0] = base /\ \A i \in 0..n : g[i] = f[i]
    BY <2>1
  <2>5. g[n+1] = v
    OBVIOUS
  <2>. HIDE DEF g
  <2>6. ASSUME NEW i \in 1..n+1 PROVE g[i] = step[<<g[i-1], i>>]
    <3>1. CASE i = n + 1
      <4>1. i - 1 = n /\ n \in 0..n
        BY <3>1
      <4>2. g[i-1] = f[n]
        BY <2>4, <4>1
      <4>. QED BY <2>2, <2>5, <3>1, <4>2
    <3>2. CASE i \in 1..n
      <4>1. i \in 0..n /\ i - 1 \in 0..n
        BY <3>2
      <4>2. f[i] = step[<<f[i-1], i>>]
        BY <2>1, <3>2
      <4>. QED BY <2>4, <4>1, <4>2
    <3>. QED BY <3>1, <3>2
  <2>. QED BY <2>3, <2>4, <2>6
<1>3. N \in T
  <2>. HIDE DEF T
  <2>. QED BY <1>1, <1>2, NatSetInduction
<1>. QED BY <1>3 DEF Unfolds

\* A sequence with one more element.
LEMMA InsertAtProperties ==
  ASSUME NEW S, NEW s \in Seq(S), NEW e \in S, NEW j \in 1..Len(s)
  PROVE  /\ InsertAt(s, j, e) \in Seq(S)
         /\ Len(InsertAt(s, j, e)) = Len(s) + 1
         /\ \A i \in 1..(j - 1) : InsertAt(s, j, e)[i] = s[i]
         /\ InsertAt(s, j, e)[j] = e
         /\ \A i \in j..Len(s) : InsertAt(s, j, e)[i + 1] = s[i]
<1>. DEFINE a == SubSeq(s, 1, j - 1)
            b == <<e>>
            c == SubSeq(s, j, Len(s))
<1>1. Len(s) \in Nat /\ j \in Nat /\ 1 <= j /\ j <= Len(s)
  OBVIOUS
<1>2. a \in Seq(S) /\ Len(a) = j - 1 /\ \A i \in 1..(j - 1) : a[i] = s[i]
  BY <1>1
<1>3. c \in Seq(S) /\ Len(c) = Len(s) - j + 1 /\ \A i \in 1..(Len(s) - j + 1) : c[i] = s[j + i - 1]
  BY <1>1
<1>4. b \in Seq(S) /\ Len(b) = 1 /\ b[1] = e
  OBVIOUS
<1>. HIDE DEF a, b, c
<1>5. (a \o b) \in Seq(S) /\ Len(a \o b) = j /\ (a \o b)[j] = e
      /\ \A i \in 1..(j - 1) : (a \o b)[i] = s[i]
  <2>1. /\ (a \o b) \in Seq(S) /\ Len(a \o b) = Len(a) + Len(b)
        /\ \A i \in 1..(Len(a) + Len(b)) :
             (a \o b)[i] = IF i <= Len(a) THEN a[i] ELSE b[i - Len(a)]
    BY <1>2, <1>4, ConcatProperties
  <2>. QED BY <1>1, <1>2, <1>4, <2>1
<1>. DEFINE d == a \o b
<1>. HIDE DEF d
<1>6. d \in Seq(S) /\ Len(d) = j /\ d[j] = e /\ \A i \in 1..(j - 1) : d[i] = s[i]
  BY <1>5 DEF d
<1>a. /\ (d \o c) \in Seq(S) /\ Len(d \o c) = Len(d) + Len(c)
      /\ \A i \in 1..(Len(d) + Len(c)) :
           (d \o c)[i] = IF i <= Len(d) THEN d[i] ELSE c[i - Len(d)]
  BY <1>3, <1>6, ConcatProperties
<1>7. (d \o c) \in Seq(S) /\ Len(d \o c) = Len(s) + 1 /\ (d \o c)[j] = e
      /\ \A i \in 1..(j - 1) : (d \o c)[i] = s[i]
  BY <1>1, <1>3, <1>6, <1>a
<1>8. ASSUME NEW i \in j..Len(s) PROVE (d \o c)[i + 1] = s[i]
  <2>1. PICK k \in 1..(Len(s) - j + 1) : k = i + 1 - j /\ j + k - 1 = i
    BY <1>1
  <2>2. c[k] = s[i]
    BY <1>3, <2>1, Zenon
  <2>3. (d \o c)[j + k] = c[k]
    BY <1>1, <1>3, <1>6, <1>a, <2>1
  <2>4. j + k = i + 1
    BY <1>1, <2>1
  <2>. QED BY <2>2, <2>3, <2>4, Zenon
<1>. QED BY <1>7, <1>8 DEF InsertAt, a, b, c, d

Distinct(s) == \A i, j \in DOMAIN s : s[i] = s[j] => i = j

\* F[i] is the first i sequences one behind the other, for i up to n.
Flattened(F, ss, n) ==
  F = [i \in 1..n |-> IF i = 1 THEN ss[i] ELSE F[i-1] \o ss[i]]

\* One step of the recursion in FlattenSeq.
LEMMA FlattenedStep ==
  ASSUME NEW S, NEW ss \in Seq(Seq(S)), NEW n \in Nat, n # 0, n + 1 <= Len(ss),
         NEW f \in [1..n -> Seq(S)], Flattened(f, ss, n)
  PROVE  \E g \in [1..n+1 -> Seq(S)] : Flattened(g, ss, n+1)
<1>. DEFINE g == [i \in 1..n+1 |-> IF i <= n THEN f[i] ELSE f[n] \o ss[n+1]]
<1>0. \A k \in 1..n : f[k] = IF k = 1 THEN ss[k] ELSE f[k-1] \o ss[k]
  BY Zenon DEF Flattened
<1>1. ss[n+1] \in Seq(S) /\ f[n] \in Seq(S)
  OBVIOUS
<1>2. g \in [1..n+1 -> Seq(S)]
  BY <1>1
<1>3. ASSUME NEW i \in 1..n+1
      PROVE  g[i] = IF i = 1 THEN ss[i] ELSE g[i-1] \o ss[i]
  <2>1. CASE i <= n
    <3>1. f[i] = IF i = 1 THEN ss[i] ELSE f[i-1] \o ss[i]
      BY <1>0, <2>1, i \in 1..n
    <3>2. g[i] = f[i] /\ (i # 1 => g[i-1] = f[i-1])
      BY <2>1
    <3>. QED BY <3>1, <3>2
  <2>2. CASE i = n+1
    BY <2>2
  <2>. QED BY <2>1, <2>2
<1>4. g = [i \in 1..n+1 |-> IF i = 1 THEN ss[i] ELSE g[i-1] \o ss[i]]
  <2>. DEFINE h == [i \in 1..n+1 |-> IF i = 1 THEN ss[i] ELSE g[i-1] \o ss[i]]
  <2>1. DOMAIN g = 1..n+1 /\ DOMAIN h = 1..n+1
    OBVIOUS
  <2>2. \A i \in 1..n+1 : g[i] = h[i]
    <3>. HIDE DEF g
    <3>. QED BY <1>3
  <2>3. g = [i \in 1..n+1 |-> g[i]] /\ h = [i \in 1..n+1 |-> h[i]]
    OBVIOUS
  <2>. HIDE DEF g, h
  <2>4. g = h
    BY <2>2, <2>3
  <2>. QED BY <2>4 DEF h
<1>5. Flattened(g, ss, n+1)
  BY <1>4 DEF Flattened
<1>. QED BY <1>2, <1>5

\* The recursive function in FlattenSeq exists.
LEMMA FlattenedExists ==
  ASSUME NEW S, NEW ss \in Seq(Seq(S)), ss # <<>>
  PROVE  \E F \in [1..Len(ss) -> Seq(S)] : Flattened(F, ss, Len(ss))
<1>. DEFINE T == {n \in Nat : n + 1 <= Len(ss) =>
                    \E F \in [1..n+1 -> Seq(S)] : Flattened(F, ss, n+1)}
<1>1. Len(ss) \in Nat \ {0} /\ ss[1] \in Seq(S)
  OBVIOUS
<1>2. 0 \in T
  <2>1. [i \in 1..1 |-> ss[1]] \in [1..1 -> Seq(S)]
    BY <1>1
  <2>2. Flattened([i \in 1..1 |-> ss[1]], ss, 1)
    BY DEF Flattened
  <2>. QED BY <2>1, <2>2
<1>3. ASSUME NEW n \in Nat, n \in T PROVE n + 1 \in T
  <2>. SUFFICES ASSUME n + 2 <= Len(ss)
                PROVE  \E F \in [1..n+2 -> Seq(S)] : Flattened(F, ss, n+2)
    OBVIOUS
  <2>1. PICK f \in [1..n+1 -> Seq(S)] : Flattened(f, ss, n+1)
    BY <1>3, <1>1
  <2>2. n + 1 \in Nat /\ n + 1 # 0 /\ (n + 1) + 1 = n + 2
    OBVIOUS
  <2>. HIDE DEF T
  <2>. QED BY <2>1, <2>2, FlattenedStep
<1>4. Nat \subseteq T
  <2>. HIDE DEF T
  <2>. QED BY <1>2, <1>3, NatSetInduction
<1>5. Len(ss) - 1 \in T
  <2>. HIDE DEF T
  <2>. QED BY <1>1, <1>4
<1>. QED BY <1>1, <1>5

\* So FlattenSeq is its last value.
LEMMA FlattenSeqUnfolds ==
  ASSUME NEW S, NEW ss \in Seq(Seq(S)), ss # <<>>
  PROVE  \E F \in [1..Len(ss) -> Seq(S)] :
           Flattened(F, ss, Len(ss)) /\ FlattenSeq(ss) = F[Len(ss)]
<1>. DEFINE F == CHOOSE F : Flattened(F, ss, Len(ss))
<1>1. Flattened(F, ss, Len(ss))
  BY FlattenedExists
<1>2. FlattenSeq(ss) = F[Len(ss)]
  BY DEF FlattenSeq, Flattened
<1>. DEFINE T == {n \in Nat : n + 1 <= Len(ss) => F[n+1] \in Seq(S)}
<1>3. \A i \in 1..Len(ss) : ss[i] \in Seq(S) /\ Len(ss) \in Nat
  OBVIOUS
<1>. HIDE DEF F
<1>4. \A i \in 1..Len(ss) : F[i] = IF i = 1 THEN ss[i] ELSE F[i-1] \o ss[i]
  BY <1>1 DEF Flattened
<1>5. 0 \in T
  BY <1>3, <1>4
<1>6. ASSUME NEW n \in Nat, n \in T PROVE n + 1 \in T
  <2>. SUFFICES ASSUME n + 2 <= Len(ss) PROVE F[n+2] \in Seq(S)
    OBVIOUS
  <2>1. F[n+1] \in Seq(S) /\ ss[n+2] \in Seq(S)
    BY <1>3, <1>6
  <2>2. F[n+2] = F[n+1] \o ss[n+2]
    <3>1. PICK k \in 1..Len(ss) : k = n + 2 /\ k # 1 /\ k - 1 = n + 1
      BY <1>3
    <3>2. F[k] = IF k = 1 THEN ss[k] ELSE F[k-1] \o ss[k]
      BY <1>4, Zenon
    <3>3. F[k] = F[k-1] \o ss[k]
      BY <3>1, <3>2, Zenon
    <3>. QED BY <3>1, <3>3, Zenon
  <2>. QED BY <2>1, <2>2
<1>7. Nat \subseteq T
  <2>. HIDE DEF T
  <2>. QED BY <1>5, <1>6, NatSetInduction
<1>8. ASSUME NEW i \in 1..Len(ss) PROVE F[i] \in Seq(S)
  <2>1. i - 1 \in T
    <3>. HIDE DEF T
    <3>. QED BY <1>7
  <2>. QED BY <1>3, <2>1
<1>9. F \in [1..Len(ss) -> Seq(S)]
  BY <1>8, <1>1 DEF Flattened
<1>. QED BY <1>1, <1>2, <1>9

\* What one step adds.
LEMMA FlattenedLast ==
  ASSUME NEW S, NEW ss \in Seq(Seq(S)), NEW F \in [1..Len(ss) -> Seq(S)],
         Flattened(F, ss, Len(ss))
  PROVE  /\ ss # <<>> => F[1] = ss[1]
         /\ \A n \in 1..(Len(ss) - 1) : F[n+1] = F[n] \o ss[n+1]
<1>1. \A i \in 1..Len(ss) : F[i] = IF i = 1 THEN ss[i] ELSE F[i-1] \o ss[i]
  BY Zenon DEF Flattened
<1>2. \A i \in 1..Len(ss) : i # 1 => F[i] = F[i-1] \o ss[i]
  BY <1>1, Zenon
<1>3. ASSUME NEW n \in 1..(Len(ss) - 1) PROVE F[n+1] = F[n] \o ss[n+1]
  <2>1. PICK k \in 1..Len(ss) : k = n + 1 /\ k # 1 /\ k - 1 = n
    OBVIOUS
  <2>2. F[k] = F[k-1] \o ss[k]
    BY <1>2, <2>1, Zenon
  <2>. QED BY <2>1, <2>2, Zenon
<1>4. ASSUME ss # <<>> PROVE F[1] = ss[1]
  <2>1. 1 \in 1..Len(ss)
    BY <1>4
  <2>. QED BY <1>1, <2>1, Zenon
<1>. QED BY <1>3, <1>4

\* The elements of two sequences one behind the other.
LEMMA ConcatElements ==
  ASSUME NEW S, NEW a \in Seq(S), NEW b \in Seq(S)
  PROVE  /\ ToSet(a \o b) = ToSet(a) \cup ToSet(b)
         /\ Distinct(a) /\ Distinct(b) /\ ToSet(a) \cap ToSet(b) = {} => Distinct(a \o b)
<1>. DEFINE c == a \o b
<1>1. /\ Len(a) \in Nat /\ Len(b) \in Nat /\ Len(c) = Len(a) + Len(b)
      /\ DOMAIN a = 1..Len(a) /\ DOMAIN b = 1..Len(b) /\ DOMAIN c = 1..Len(c)
      /\ \A i \in 1..Len(a) : c[i] = a[i]
      /\ \A i \in 1..Len(c) : i > Len(a) => c[i] = b[i - Len(a)]
  BY ConcatProperties, LenProperties
<1>. HIDE DEF c
<1>2. \A i \in 1..Len(b) : Len(a) + i \in 1..Len(c) /\ c[Len(a) + i] = b[i]
  BY <1>1
<1>3. \A i \in DOMAIN c : \/ i \in DOMAIN a /\ c[i] = a[i]
                          \/ i - Len(a) \in DOMAIN b /\ c[i] = b[i - Len(a)]
  BY <1>1
<1>4. ToSet(c) = ToSet(a) \cup ToSet(b)
  <2>1. ASSUME NEW x \in ToSet(c) PROVE x \in ToSet(a) \cup ToSet(b)
    <3>1. PICK i \in DOMAIN c : c[i] = x
      BY DEF ToSet
    <3>2. CASE i \in DOMAIN a /\ c[i] = a[i]
      BY <3>1, <3>2 DEF ToSet
    <3>3. CASE i - Len(a) \in DOMAIN b /\ c[i] = b[i - Len(a)]
      BY <3>1, <3>3 DEF ToSet
    <3>. QED BY <1>3, <3>2, <3>3
  <2>2. ASSUME NEW x \in ToSet(a) PROVE x \in ToSet(c)
    BY <1>1 DEF ToSet
  <2>3. ASSUME NEW x \in ToSet(b) PROVE x \in ToSet(c)
    <3>1. PICK i \in 1..Len(b) : b[i] = x
      BY <1>1 DEF ToSet
    <3>. QED BY <1>1, <1>2, <3>1 DEF ToSet
  <2>. QED BY <2>1, <2>2, <2>3
<1>5. ASSUME Distinct(a), Distinct(b), ToSet(a) \cap ToSet(b) = {},
             NEW i \in DOMAIN c, NEW j \in DOMAIN c, c[i] = c[j]
      PROVE  i = j
  <2>1. \A k \in DOMAIN a : a[k] \in ToSet(a)
    BY DEF ToSet
  <2>2. \A k \in DOMAIN b : b[k] \in ToSet(b)
    BY DEF ToSet
  <2>3. CASE i \in DOMAIN a /\ c[i] = a[i] /\ j \in DOMAIN a /\ c[j] = a[j]
    BY <1>5, <2>3 DEF Distinct
  <2>4. CASE /\ i - Len(a) \in DOMAIN b /\ c[i] = b[i - Len(a)]
             /\ j - Len(a) \in DOMAIN b /\ c[j] = b[j - Len(a)]
    <3>1. i - Len(a) = j - Len(a)
      BY <1>5, <2>4, Zenon DEF Distinct
    <3>. QED BY <1>1, <3>1
  <2>5. CASE i \in DOMAIN a /\ c[i] = a[i] /\ j - Len(a) \in DOMAIN b /\ c[j] = b[j - Len(a)]
    BY <1>5, <2>1, <2>2, <2>5
  <2>6. CASE i - Len(a) \in DOMAIN b /\ c[i] = b[i - Len(a)] /\ j \in DOMAIN a /\ c[j] = a[j]
    BY <1>5, <2>1, <2>2, <2>6
  <2>. QED BY <1>3, <2>3, <2>4, <2>5, <2>6
<1>6. Distinct(a) /\ Distinct(b) /\ ToSet(a) \cap ToSet(b) = {} => Distinct(c)
  BY <1>5 DEF Distinct
<1>. QED BY <1>4, <1>6 DEF c

\* FlattenSeq has the elements of all the sequences, and no others; it has no
\* element twice if no sequence has and no two have a common one.
LEMMA FlattenSeqProperties ==
  ASSUME NEW S, NEW ss \in Seq(Seq(S))
  PROVE  /\ FlattenSeq(ss) \in Seq(S)
         /\ ToSet(FlattenSeq(ss)) = UNION {ToSet(ss[i]) : i \in 1..Len(ss)}
         /\ /\ \A i \in 1..Len(ss) : Distinct(ss[i])
            /\ \A i, j \in 1..Len(ss) : i # j => ToSet(ss[i]) \cap ToSet(ss[j]) = {}
            => Distinct(FlattenSeq(ss))
<1>1. CASE ss = <<>>
  <2>1. FlattenSeq(ss) = <<>> /\ Len(ss) = 0
    BY <1>1 DEF FlattenSeq
  <2>2. ToSet(<<>>) = {} /\ Distinct(<<>>) /\ 1..0 = {}
    BY DEF ToSet, Distinct
  <2>3. UNION {ToSet(ss[i]) : i \in 1..Len(ss)} = {}
    BY <2>1, <2>2
  <2>4. FlattenSeq(ss) \in Seq(S)
    BY <2>1
  <2>. QED BY <2>1, <2>2, <2>3, <2>4
<1>2. CASE ss # <<>>
  <2>1. PICK F \in [1..Len(ss) -> Seq(S)] :
          Flattened(F, ss, Len(ss)) /\ FlattenSeq(ss) = F[Len(ss)]
    BY <1>2, FlattenSeqUnfolds
  <2>2. /\ F[1] = ss[1]
        /\ \A n \in 1..(Len(ss) - 1) : F[n+1] = F[n] \o ss[n+1]
    BY <1>2, <2>1, FlattenedLast
  <2>3. Len(ss) \in Nat \ {0}
    BY <1>2
  <2>4. \A i \in 1..Len(ss) : ss[i] \in Seq(S)
    BY ElementOfSeq
  <2>. DEFINE Apart == /\ \A i \in 1..Len(ss) : Distinct(ss[i])
                       /\ \A i, j \in 1..Len(ss) :
                            i # j => ToSet(ss[i]) \cap ToSet(ss[j]) = {}
              Holds(n) == /\ ToSet(F[n]) = UNION {ToSet(ss[k]) : k \in 1..n}
                          /\ Apart => Distinct(F[n])
              T == {n \in Nat : n + 1 <= Len(ss) => Holds(n + 1)}
  <2>5. 0 \in T
    <3>1. 0 + 1 = 1 /\ 1..1 = {1} /\ 1 \in 1..Len(ss)
      BY <2>3
    <3>2. UNION {ToSet(ss[k]) : k \in {1}} = ToSet(ss[1])
      OBVIOUS
    <3>. QED BY <2>2, <3>1, <3>2
  <2>6. ASSUME NEW m \in 1..(Len(ss) - 1), Holds(m) PROVE Holds(m + 1)
    <3>1. m \in 1..Len(ss) /\ m + 1 \in 1..Len(ss) /\ \A k \in 1..m : k \in 1..Len(ss) /\ k # m + 1
      BY <2>3
    <3>2. Holds(m)
      BY <2>6
    <3>3. F[m+1] = F[m] \o ss[m+1]
      BY <2>2, <3>1
    <3>4. F[m] \in Seq(S) /\ ss[m+1] \in Seq(S)
      BY <2>1, <2>4, <3>1
    <3>5. 1..(m+1) = (1..m) \cup {m+1}
      BY <3>1
    <3>6. ToSet(F[m+1]) = UNION {ToSet(ss[k]) : k \in 1..(m+1)}
      <4>1. ToSet(F[m+1]) = ToSet(F[m]) \cup ToSet(ss[m+1])
        BY <3>3, <3>4, ConcatElements
      <4>. QED BY <3>2, <3>5, <4>1, Zenon
    <3>7. ASSUME Apart PROVE Distinct(F[m+1])
      <4>1. ToSet(F[m]) \cap ToSet(ss[m+1]) = {}
        <5>1. ASSUME NEW k \in 1..m PROVE ToSet(ss[k]) \cap ToSet(ss[m+1]) = {}
          <6>1. k \in 1..Len(ss) /\ m + 1 \in 1..Len(ss) /\ k # m + 1
            BY <3>1
          <6>. QED BY <3>7, <6>1, Zenon
        <5>. QED BY <3>2, <5>1
      <4>2. Distinct(F[m]) /\ Distinct(ss[m+1])
        BY <3>1, <3>2, <3>7
      <4>. QED BY <3>3, <3>4, <4>1, <4>2, ConcatElements
    <3>. QED BY <3>6, <3>7
  <2>. HIDE DEF Holds
  <2>7. Len(ss) - 1 \in T
    <3>1. ASSUME NEW n \in Nat, n \in T PROVE n + 1 \in T
      <4>1. n + 1 + 1 <= Len(ss) => Holds(n + 1 + 1)
        <5>1. CASE n + 1 + 1 <= Len(ss)
          <6>1. n + 1 \in 1..(Len(ss) - 1) /\ Holds(n + 1)
            BY <2>3, <3>1, <5>1
          <6>. QED BY <2>6, <6>1
        <5>2. CASE ~(n + 1 + 1 <= Len(ss))
          BY <5>2
        <5>. QED BY <5>1, <5>2
      <4>2. n + 1 \in Nat
        OBVIOUS
      <4>. QED BY <4>1, <4>2
    <3>. HIDE DEF T
    <3>2. Nat \subseteq T
      BY <2>5, <3>1, NatSetInduction
    <3>. QED BY <2>3, <3>2
  <2>8. Holds(Len(ss))
    <3>1. Holds(Len(ss) - 1 + 1)
      BY <2>3, <2>7
    <3>2. Len(ss) - 1 + 1 = Len(ss)
      BY <2>3
    <3>. QED BY <3>1, <3>2
  <2>9. F[Len(ss)] \in Seq(S)
    BY <2>3, Len(ss) \in 1..Len(ss)
  <2>. QED BY <2>1, <2>8, <2>9, Zenon DEF Holds
<1>. QED BY <1>1, <1>2

\* Where each element of the sequences ss stands, up to the n-th of them: a
\* pair of the number of a sequence and a place in it.
ElementsTo(ss, n) == {e \in (1..n) \X (Nat \ {0}) : e[2] <= Len(ss[e[1]])}

\* At is the place, in flat, of each element of the first n sequences.
PlacedBy(at, ss, n, flat) ==
  /\ at \in Bijection(ElementsTo(ss, n), 1..Len(flat))
  /\ \A e \in ElementsTo(ss, n) : flat[at[e]] = ss[e[1]][e[2]]

\* One more sequence behind those that are already placed.
LEMMA PlacesStep ==
  ASSUME NEW S, NEW ss \in Seq(Seq(S)), NEW n \in Nat, n + 1 <= Len(ss),
         NEW flat \in Seq(S), NEW at, PlacedBy(at, ss, n, flat)
  PROVE  \E new : PlacedBy(new, ss, n + 1, flat \o ss[n+1])
<1>. DEFINE l == Len(flat)
            m == Len(ss[n+1])
            A == ElementsTo(ss, n)
            B == ElementsTo(ss, n + 1)
            c == flat \o ss[n+1]
            new == [e \in B |-> IF e \in A THEN at[e] ELSE l + e[2]]
<1>1. /\ l \in Nat /\ m \in Nat /\ ss[n+1] \in Seq(S)
      /\ Len(c) = l + m
      /\ \A i \in 1..l : c[i] = flat[i]
      /\ \A i \in 1..m : c[l + i] = ss[n+1][i]
  <2>1. n + 1 \in 1..Len(ss)
    OBVIOUS
  <2>2. ss[n+1] \in Seq(S)
    BY <2>1
  <2>. QED BY <2>2
<1>2. /\ at \in [A -> 1..l]
      /\ \A d, e \in A : at[d] = at[e] => d = e
      /\ \A i \in 1..l : \E e \in A : at[e] = i
      /\ \A e \in A : flat[at[e]] = ss[e[1]][e[2]]
  BY DEF PlacedBy, Bijection, Injection, IsInjective, Surjection
<1>3. /\ \A e \in A : e \in B
      /\ \A e \in B : e \notin A => e[1] = n + 1 /\ e[2] \in 1..m
      /\ \A i \in 1..m : <<n + 1, i>> \in B /\ <<n + 1, i>> \notin A
      /\ \A e \in B : e = <<e[1], e[2]>>
  BY <1>1 DEF ElementsTo
<1>. HIDE DEF l, m, A, B, c
<1>4. \A e \in B : new[e] = IF e \in A THEN at[e] ELSE l + e[2]
  OBVIOUS
<1>5. new \in [B -> 1..Len(c)]
  <2>1. ASSUME NEW e \in B PROVE new[e] \in 1..Len(c)
    <3>1. CASE e \in A
      BY <1>1, <1>2, <1>4, <3>1
    <3>2. CASE e \notin A
      BY <1>1, <1>3, <1>4, <3>2
    <3>. QED BY <3>1, <3>2
  <2>. QED BY <2>1
<1>. HIDE DEF new
<1>6. ASSUME NEW d \in B, NEW e \in B, new[d] = new[e] PROVE d = e
  <2>1. CASE d \in A /\ e \in A
    BY <1>2, <1>4, <1>6, <2>1
  <2>2. CASE d \in A /\ e \notin A
    BY <1>1, <1>2, <1>3, <1>4, <1>6, <2>2
  <2>3. CASE d \notin A /\ e \in A
    BY <1>1, <1>2, <1>3, <1>4, <1>6, <2>3
  <2>4. CASE d \notin A /\ e \notin A
    <3>1. d[2] = e[2] /\ d[1] = e[1]
      BY <1>1, <1>3, <1>4, <1>6, <2>4
    <3>. QED BY <1>3, <3>1
  <2>. QED BY <2>1, <2>2, <2>3, <2>4
<1>7. ASSUME NEW i \in 1..Len(c) PROVE \E e \in B : new[e] = i
  <2>1. CASE i <= l
    <3>1. PICK e \in A : at[e] = i
      BY <1>1, <1>2, <2>1
    <3>. QED BY <1>3, <1>4, <3>1
  <2>2. CASE i > l
    <3>1. i - l \in 1..m
      BY <1>1, <2>2
    <3>2. <<n + 1, i - l>> \in B /\ new[<<n + 1, i - l>>] = l + (i - l)
      BY <1>3, <1>4, <3>1
    <3>. QED BY <1>1, <3>2
  <2>. QED BY <1>1, <2>1, <2>2
<1>8. ASSUME NEW e \in B PROVE c[new[e]] = ss[e[1]][e[2]]
  <2>1. CASE e \in A
    <3>1. at[e] \in 1..l /\ flat[at[e]] = ss[e[1]][e[2]] /\ new[e] = at[e]
      BY <1>2, <1>4, <2>1
    <3>. QED BY <1>1, <3>1
  <2>2. CASE e \notin A
    <3>1. e[1] = n + 1 /\ e[2] \in 1..m /\ new[e] = l + e[2]
      BY <1>3, <1>4, <2>2
    <3>. QED BY <1>1, <3>1
  <2>. QED BY <2>1, <2>2
<1>9. new \in Bijection(B, 1..Len(c))
  BY <1>5, <1>6, <1>7 DEF Bijection, Injection, IsInjective, Surjection
<1>. QED BY <1>8, <1>9 DEF PlacedBy, B, c

\* FlattenSeq has a place for each element of each sequence, and no other.
LEMMA FlattenSeqPlaces ==
  ASSUME NEW S, NEW ss \in Seq(Seq(S)), ss # <<>>
  PROVE  /\ FlattenSeq(ss) \in Seq(S)
         /\ \E at : PlacedBy(at, ss, Len(ss), FlattenSeq(ss))
<1>1. PICK F \in [1..Len(ss) -> Seq(S)] :
        Flattened(F, ss, Len(ss)) /\ FlattenSeq(ss) = F[Len(ss)]
  BY FlattenSeqUnfolds
<1>2. /\ F[1] = ss[1]
      /\ \A n \in 1..(Len(ss) - 1) : F[n+1] = F[n] \o ss[n+1]
  BY <1>1, FlattenedLast
<1>3. Len(ss) \in Nat \ {0}
  OBVIOUS
<1>4. \A i \in 1..Len(ss) : ss[i] \in Seq(S) /\ F[i] \in Seq(S)
  BY <1>1, ElementOfSeq
<1>. DEFINE Holds(n) == \E at : PlacedBy(at, ss, n, F[n])
            T == {n \in Nat : n + 1 <= Len(ss) => Holds(n + 1)}
<1>5. Holds(1)
  <2>. DEFINE A == ElementsTo(ss, 1)
              at == [e \in A |-> e[2]]
  <2>1. ss[1] \in Seq(S) /\ F[1] = ss[1] /\ Len(ss[1]) \in Nat
    BY <1>2, <1>3, <1>4
  <2>2. /\ \A e \in A : e[1] = 1 /\ e[2] \in 1..Len(ss[1]) /\ e = <<1, e[2]>>
        /\ \A i \in 1..Len(ss[1]) : <<1, i>> \in A
    BY <2>1 DEF ElementsTo
  <2>. HIDE DEF A
  <2>3. at \in Bijection(A, 1..Len(ss[1]))
    <3>1. at \in [A -> 1..Len(ss[1])] /\ \A e \in A : at[e] = e[2]
      BY <2>2
    <3>2. \A d, e \in A : at[d] = at[e] => d = e
      BY <2>2, <3>1
    <3>3. \A i \in 1..Len(ss[1]) : \E e \in A : at[e] = i
      BY <2>2, <3>1
    <3>. HIDE DEF at
    <3>. QED BY <3>1, <3>2, <3>3 DEF Bijection, Injection, IsInjective, Surjection
  <2>4. \A e \in A : F[1][at[e]] = ss[e[1]][e[2]]
    BY <2>1, <2>2
  <2>5. PlacedBy(at, ss, 1, F[1])
    BY <2>1, <2>3, <2>4 DEF PlacedBy, A
  <2>. QED BY <2>5
<1>6. ASSUME NEW m \in 1..(Len(ss) - 1), Holds(m) PROVE Holds(m + 1)
  <2>1. PICK at : PlacedBy(at, ss, m, F[m])
    BY <1>6
  <2>a. m \in Nat /\ m + 1 <= Len(ss) /\ m \in 1..Len(ss)
    BY <1>3
  <2>2. m \in Nat /\ m + 1 <= Len(ss) /\ F[m] \in Seq(S) /\ F[m+1] = F[m] \o ss[m+1]
    BY <1>2, <1>4, <2>a
  <2>3. \E new : PlacedBy(new, ss, m + 1, F[m] \o ss[m+1])
    BY <2>1, <2>2, PlacesStep
  <2>. QED BY <2>2, <2>3
<1>. HIDE DEF Holds
<1>7. Len(ss) - 1 \in T
  <2>1. ASSUME NEW n \in Nat, n \in T PROVE n + 1 \in T
    <3>1. ASSUME n + 1 + 1 <= Len(ss) PROVE Holds(n + 1 + 1)
      <4>1. n + 1 \in 1..(Len(ss) - 1)
        BY <1>3, <3>1
      <4>2. Holds(n + 1)
        BY <1>3, <2>1, <3>1
      <4>. QED BY <1>6, <4>1, <4>2
    <3>2. n + 1 \in Nat
      OBVIOUS
    <3>. QED BY <3>1, <3>2
  <2>2. 0 \in T
    BY <1>5
  <2>. HIDE DEF T
  <2>3. Nat \subseteq T
    BY <2>1, <2>2, NatSetInduction
  <2>. QED BY <1>3, <2>3
<1>8. Holds(Len(ss))
  <2>1. Holds(Len(ss) - 1 + 1)
    BY <1>3, <1>7
  <2>2. Len(ss) - 1 + 1 = Len(ss)
    BY <1>3
  <2>. QED BY <2>1, <2>2
<1>9. FlattenSeq(ss) \in Seq(S)
  BY <1>1, <1>3, <1>4, Len(ss) \in 1..Len(ss)
<1>. QED BY <1>1, <1>8, <1>9 DEF Holds

\* An ordering of a finite set has each of its elements once.
LEMMA OrderingsCover ==
  ASSUME NEW S, IsFiniteSet(S), NEW f \in SetToSeqs(S)
  PROVE  f \in Seq(S) /\ Distinct(f) /\ ToSet(f) = S
<1>. DEFINE D == 1..Cardinality(S)
<1>1. Cardinality(S) \in Nat
  BY FS_CardinalityType
<1>2. f \in [D -> S] /\ \A i, j \in D : i # j => f[i] # f[j]
  BY DEF SetToSeqs
<1>3. IsFiniteSet(D) /\ Cardinality(D) = Cardinality(S)
  BY <1>1, FS_Interval
<1>4. f \in Injection(D, S)
  BY <1>2 DEF Injection, IsInjective
<1>5. f \in Surjection(D, S)
  <2>. HIDE DEF D
  <2>. QED BY <1>3, <1>4, FS_Injection
<1>6. ToSet(f) = S
  BY <1>2, <1>5 DEF Surjection, ToSet
<1>7. f \in Seq(S)
  BY <1>1, <1>2
<1>. QED BY <1>2, <1>6, <1>7 DEF Distinct


----------------------------------------------------------------------------

\* g has the sum of f over each subset of S, as FoldFunction computes it.
SumsOf(g, f, S) ==
  g = [T \in SUBSET S |->
         IF T = {} THEN 0
         ELSE LET x == CHOOSE x \in T : TRUE IN f[x] + g[T \ {x}]]

\* A property of the subsets of a finite set that each has if it is empty or if
\* all have it that lack one of its elements.
LEMMA SubsetInduction ==
  ASSUME NEW S, IsFiniteSet(S), NEW Good,
         \A T \in SUBSET S : (\A x \in T : T \ {x} \in Good) => T \in Good
  PROVE  \A T \in SUBSET S : T \in Good
<1>. DEFINE G == {n \in Nat : \A T \in SUBSET S : Cardinality(T) <= n => T \in Good}
<1>1. \A T \in SUBSET S : IsFiniteSet(T) /\ Cardinality(T) \in Nat
  BY FS_Subset, FS_CardinalityType
<1>2. 0 \in G
  <2>. SUFFICES ASSUME NEW T \in SUBSET S, Cardinality(T) <= 0 PROVE T \in Good
    OBVIOUS
  <2>1. T = {}
    BY <1>1, FS_EmptySet
  <2>. QED BY <2>1
<1>3. ASSUME NEW n \in Nat, n \in G PROVE n + 1 \in G
  <2>. SUFFICES ASSUME NEW T \in SUBSET S, Cardinality(T) <= n + 1 PROVE T \in Good
    OBVIOUS
  <2>1. ASSUME NEW x \in T PROVE T \ {x} \in Good
    <3>1. Cardinality(T \ {x}) = Cardinality(T) - 1
      BY <1>1, FS_RemoveElement
    <3>2. T \ {x} \in SUBSET S /\ Cardinality(T \ {x}) <= n
      BY <1>1, <3>1
    <3>. QED BY <1>3, <3>2
  <2>. QED BY <2>1
<1>4. Cardinality(S) \in G
  <2>. HIDE DEF G
  <2>. QED BY <1>1, <1>2, <1>3, NatSetInduction
<1>5. \A T \in SUBSET S : Cardinality(T) <= Cardinality(S)
  BY FS_Subset
<1>. QED BY <1>4, <1>5

\* The sums over the subsets are well defined.
LEMMA SumsExist ==
  ASSUME NEW S, IsFiniteSet(S), NEW f \in [S -> Int]
  PROVE  \E g : SumsOf(g, f, S)
<1>. DEFINE N    == Cardinality(S) + 1
            Tab  == [SUBSET S -> Int]
            Row(g) == [T \in SUBSET S |->
                         IF T = {} THEN 0
                         ELSE f[CHOOSE x \in T : TRUE] + g[T \ {CHOOSE x \in T : TRUE}]]
            zero == [T \in SUBSET S |-> 0]
            step == [y \in Tab \X (1..N) |-> Row(y[1])]
<1>1. Cardinality(S) \in Nat /\ N \in Nat /\ Cardinality(S) = N - 1
  BY FS_CardinalityType
<1>2. \A g \in Tab : Row(g) \in Tab
  OBVIOUS
<1>3. /\ zero \in Tab /\ step \in [Tab \X (1..N) -> Tab]
      /\ \A g \in Tab, i \in 1..N : step[<<g, i>>] = Row(g)
      /\ \A g : Row(g) = [T \in SUBSET S |-> Row(g)[T]]
      /\ \A g : Row(g)[{}] = 0
      /\ \A g : \A T \in SUBSET S :
           T # {} => Row(g)[T] = f[CHOOSE x \in T : TRUE] + g[T \ {CHOOSE x \in T : TRUE}]
  <2>1. zero \in Tab /\ step \in [Tab \X (1..N) -> Tab]
    BY <1>2
  <2>2. \A g \in Tab, i \in 1..N : step[<<g, i>>] = Row(g)
    <3>. HIDE DEF Tab, Row
    <3>. QED OBVIOUS
  <2>3. \A g : Row(g)[{}] = 0
    <3>1. {} \in SUBSET S
      OBVIOUS
    <3>. QED BY <3>1
  <2>4. \A g : Row(g) = [T \in SUBSET S |-> Row(g)[T]]
    OBVIOUS
  <2>5. \A g : \A T \in SUBSET S :
          T # {} => Row(g)[T] = f[CHOOSE x \in T : TRUE] + g[T \ {CHOOSE x \in T : TRUE}]
    OBVIOUS
  <2>. HIDE DEF Tab, Row, zero, step
  <2>. QED BY <2>1, <2>2, <2>3, <2>4, <2>5
<1>4. \A g \in Tab : g = [T \in SUBSET S |-> g[T]]
  OBVIOUS
<1>. HIDE DEF Tab, Row, zero, step, N
<1>5. PICK F : Unfolds(F, Tab, N, zero, step)
  BY <1>1, <1>3, RecurrenceExists
<1>6. F \in [0..N -> Tab] /\ \A i \in 1..N : F[i] = Row(F[i - 1])
  <2>1. F \in [0..N -> Tab] /\ \A i \in 1..N : F[i] = step[<<F[i - 1], i>>]
    BY <1>5 DEF Unfolds
  <2>2. ASSUME NEW i \in 1..N PROVE F[i - 1] \in Tab
    BY <1>1, <2>1
  <2>. QED BY <1>3, <2>1, <2>2
<1>7. ASSUME NEW T \in SUBSET S
      PROVE  \A i, j \in 0..N : Cardinality(T) < i /\ Cardinality(T) < j => F[i][T] = F[j][T]
  <2>. DEFINE Good == {U \in SUBSET S : \A i, j \in 0..N :
                         Cardinality(U) < i /\ Cardinality(U) < j => F[i][U] = F[j][U]}
  <2>1. ASSUME NEW U \in SUBSET S, \A x \in U : U \ {x} \in Good PROVE U \in Good
    <3>. SUFFICES ASSUME NEW i \in 0..N, NEW j \in 0..N, Cardinality(U) < i, Cardinality(U) < j
                  PROVE  F[i][U] = F[j][U]
      OBVIOUS
    <3>1. IsFiniteSet(U) /\ Cardinality(U) \in Nat
      BY FS_Subset, FS_CardinalityType
    <3>2. F[i][U] = Row(F[i - 1])[U] /\ F[j][U] = Row(F[j - 1])[U]
      BY <1>1, <1>6, <3>1
    <3>3. CASE U = {}
      BY <1>3, <3>2, <3>3
    <3>4. CASE U # {}
      <4>. DEFINE x == CHOOSE x \in U : TRUE
      <4>1. x \in U
        BY <3>4
      <4>. HIDE DEF x
      <4>2. Cardinality(U \ {x}) = Cardinality(U) - 1
        BY <3>1, <4>1, FS_RemoveElement
      <4>3. F[i - 1][U \ {x}] = F[j - 1][U \ {x}]
        <5>1. i - 1 \in 0..N /\ j - 1 \in 0..N
              /\ Cardinality(U \ {x}) < i - 1 /\ Cardinality(U \ {x}) < j - 1
          BY <1>1, <3>1, <4>2
        <5>. QED BY <2>1, <4>1, <5>1
      <4>4. /\ Row(F[i - 1])[U] = f[x] + F[i - 1][U \ {x}]
            /\ Row(F[j - 1])[U] = f[x] + F[j - 1][U \ {x}]
        BY <1>3, <3>4 DEF x
      <4>. QED BY <3>2, <4>3, <4>4
    <3>. QED BY <3>3, <3>4
  <2>. HIDE DEF Good
  <2>2. T \in Good
    BY <2>1, SubsetInduction
  <2>. QED BY <2>2 DEF Good
<1>8. F[N] = Row(F[N])
  <2>1. F[N] \in Tab /\ N \in 1..N /\ F[N] = Row(F[N - 1]) /\ N - 1 \in 0..N
    <3>1. N \in 1..N /\ N \in 0..N /\ N - 1 \in 0..N
      BY <1>1 DEF N
    <3>. QED BY <1>6, <3>1
  <2>2. ASSUME NEW T \in SUBSET S PROVE F[N][T] = Row(F[N])[T]
    <3>1. CASE T = {}
      BY <1>3, <2>1, <3>1
    <3>2. CASE T # {}
      <4>. DEFINE x == CHOOSE x \in T : TRUE
      <4>1. x \in T
        BY <3>2
      <4>. HIDE DEF x
      <4>2. Cardinality(T \ {x}) < Cardinality(S)
        <5>1. IsFiniteSet(T) /\ Cardinality(T) <= Cardinality(S)
          BY FS_Subset
        <5>2. Cardinality(T \ {x}) = Cardinality(T) - 1 /\ Cardinality(T) \in Nat
          BY <4>1, <5>1, FS_RemoveElement, FS_CardinalityType
        <5>. QED BY <1>1, <5>1, <5>2
      <4>3. F[N - 1][T \ {x}] = F[N][T \ {x}]
        <5>1. Cardinality(T \ {x}) < N - 1 /\ Cardinality(T \ {x}) < N /\ N \in 0..N
          <6>1. IsFiniteSet(T \ {x})
            BY FS_Subset
          <6>2. Cardinality(T \ {x}) \in Nat
            BY <6>1, FS_CardinalityType
          <6>. QED BY <1>1, <4>2, <6>2 DEF N
        <5>. QED BY <1>7, <2>1, <5>1
      <4>4. /\ Row(F[N - 1])[T] = f[x] + F[N - 1][T \ {x}]
            /\ Row(F[N])[T] = f[x] + F[N][T \ {x}]
        BY <1>3, <3>2 DEF x
      <4>. QED BY <2>1, <4>3, <4>4
    <3>. QED BY <3>1, <3>2
  <2>3. F[N] = [T \in SUBSET S |-> F[N][T]] /\ Row(F[N]) = [T \in SUBSET S |-> Row(F[N])[T]]
    BY <1>3, <1>4, <2>1
  <2>. QED BY <2>2, <2>3
<1>. QED BY <1>8, Zenon DEF SumsOf, Row

\* SumFunction gives the entry of such a g for the whole set.
LEMMA SumUnfolds ==
  ASSUME NEW S, IsFiniteSet(S), NEW f \in [S -> Int]
  PROVE  \E g : SumsOf(g, f, S) /\ SumFunction(f) = g[S]
<1>1. \E g : SumsOf(g, f, S)
  BY SumsExist
<1>2. SumsOf(CHOOSE g : SumsOf(g, f, S), f, S)
  BY <1>1, Zenon
<1>3. SumFunction(f) = (CHOOSE g : SumsOf(g, f, S))[S]
  <2>1. DOMAIN f = S
    OBVIOUS
  <2>. QED BY <2>1 DEF SumFunction, SumFunctionOnSet, FoldFunctionOnSet, MapThenFoldSet, SumsOf
<1>. QED BY <1>2, <1>3

\* A sum of integers is one, and a sum of zeros is zero.
LEMMA SumInt ==
  ASSUME NEW S, IsFiniteSet(S), NEW f \in [S -> Int]
  PROVE  /\ SumFunction(f) \in Int
         /\ (\A x \in S : f[x] = 0) => SumFunction(f) = 0
<1>1. PICK g : SumsOf(g, f, S) /\ SumFunction(f) = g[S]
  BY SumUnfolds
<1>2. /\ g[{}] = 0
      /\ \A T \in SUBSET S : T # {} => \E x \in T : g[T] = f[x] + g[T \ {x}]
  <2>1. {} \in SUBSET S /\ \A T \in SUBSET S :
          g[T] = IF T = {} THEN 0
                 ELSE f[CHOOSE x \in T : TRUE] + g[T \ {CHOOSE x \in T : TRUE}]
    BY <1>1, Zenon DEF SumsOf
  <2>2. \A T : T # {} => (CHOOSE x \in T : TRUE) \in T
    OBVIOUS
  <2>. QED BY <2>1, <2>2
<1>. DEFINE Good == {T \in SUBSET S : /\ g[T] \in Int
                                      /\ (\A x \in S : f[x] = 0) => g[T] = 0}
<1>3. ASSUME NEW T \in SUBSET S, \A x \in T : T \ {x} \in Good PROVE T \in Good
  <2>1. CASE T = {}
    BY <1>2, <2>1
  <2>2. CASE T # {}
    <3>1. PICK x \in T : g[T] = f[x] + g[T \ {x}]
      BY <1>2, <2>2
    <3>2. g[T \ {x}] \in Int /\ ((\A y \in S : f[y] = 0) => g[T \ {x}] = 0)
      BY <1>3
    <3>3. f[x] \in Int
      OBVIOUS
    <3>4. g[T] \in Int /\ ((\A y \in S : f[y] = 0) => g[T] = 0)
      BY <3>1, <3>2, <3>3
    <3>. QED BY <3>4
  <2>. QED BY <2>1, <2>2
<1>. HIDE DEF Good
<1>4. S \in Good
  BY <1>3, SubsetInduction
<1>. QED BY <1>1, <1>4 DEF Good

\* One term more, or another one, changes the sum by as much.
LEMMA SumPoint ==
  ASSUME NEW S, IsFiniteSet(S), NEW f \in [S -> Int], NEW a \in S, NEW v \in Int
  PROVE  SumFunction([f EXCEPT ![a] = v]) = SumFunction(f) - f[a] + v
<1>. DEFINE h == [f EXCEPT ![a] = v]
<1>0. h \in [S -> Int] /\ h[a] = v /\ \A x \in S : x # a => h[x] = f[x]
  OBVIOUS
<1>. HIDE DEF h
<1>1. PICK g : SumsOf(g, f, S) /\ SumFunction(f) = g[S]
  BY SumUnfolds
<1>2. PICK k : SumsOf(k, h, S) /\ SumFunction(h) = k[S]
  BY <1>0, SumUnfolds
<1>3. \A T \in SUBSET S : T # {} =>
        \E x \in T : g[T] = f[x] + g[T \ {x}] /\ k[T] = h[x] + k[T \ {x}]
  <2>1. \A T \in SUBSET S :
          g[T] = IF T = {} THEN 0
                 ELSE f[CHOOSE x \in T : TRUE] + g[T \ {CHOOSE x \in T : TRUE}]
    BY <1>1, Zenon DEF SumsOf
  <2>2. \A T \in SUBSET S :
          k[T] = IF T = {} THEN 0
                 ELSE h[CHOOSE x \in T : TRUE] + k[T \ {CHOOSE x \in T : TRUE}]
    BY <1>2, Zenon DEF SumsOf
  <2>3. \A T : T # {} => (CHOOSE x \in T : TRUE) \in T
    OBVIOUS
  <2>. QED BY <2>1, <2>2, <2>3
<1>4. g[{}] = 0 /\ k[{}] = 0
  <2>1. {} \in SUBSET S
    OBVIOUS
  <2>. QED BY <1>1, <1>2, <2>1, Zenon DEF SumsOf
<1>. DEFINE Good == {T \in SUBSET S : /\ g[T] \in Int
                                      /\ k[T] = g[T] + (IF a \in T THEN v - f[a] ELSE 0)}
<1>5. ASSUME NEW T \in SUBSET S, \A x \in T : T \ {x} \in Good PROVE T \in Good
  <2>1. CASE T = {}
    BY <1>4, <2>1
  <2>2. CASE T # {}
    <3>1. PICK x \in T : g[T] = f[x] + g[T \ {x}] /\ k[T] = h[x] + k[T \ {x}]
      BY <1>3, <2>2
    <3>2. /\ g[T \ {x}] \in Int
          /\ k[T \ {x}] = g[T \ {x}] + (IF a \in T \ {x} THEN v - f[a] ELSE 0)
      BY <1>5
    <3>3. f[x] \in Int /\ f[a] \in Int
      OBVIOUS
    <3>4. CASE x = a
      BY <1>0, <3>1, <3>2, <3>3, <3>4
    <3>5. CASE x # a
      <4>1. h[x] = f[x] /\ (a \in T \ {x} <=> a \in T)
        BY <1>0, <3>5
      <4>. QED BY <3>1, <3>2, <3>3, <4>1
    <3>. QED BY <3>4, <3>5
  <2>. QED BY <2>1, <2>2
<1>. HIDE DEF Good
<1>6. S \in Good
  BY <1>5, SubsetInduction
<1>7. k[S] = g[S] + (v - f[a]) /\ g[S] \in Int /\ f[a] \in Int
  BY <1>6 DEF Good
<1>. QED BY <1>1, <1>2, <1>7 DEF h

\* h differs from f by the terms of m, each of them at a place of its own.
Spread(h, f, m, b, D, E) ==
  /\ \A d, e \in E : b[d] = b[e] => d = e
  /\ \A e \in E : h[b[e]] = f[b[e]] + m[e]
  /\ \A x \in D : (\A e \in E : x # b[e]) => h[x] = f[x]

\* Then the sums differ by the sum of m.
LEMMA SumSpread ==
  ASSUME NEW D, IsFiniteSet(D), NEW E, IsFiniteSet(E),
         NEW f \in [D -> Int], NEW h \in [D -> Int], NEW m \in [E -> Int],
         NEW b \in [E -> D], Spread(h, f, m, b, D, E)
  PROVE  SumFunction(h) = SumFunction(f) + SumFunction(m)
<1>. DEFINE H(T) == [x \in D |-> IF \E e \in T : x = b[e] THEN h[x] ELSE f[x]]
            M(T) == [e \in E |-> IF e \in T THEN m[e] ELSE 0]
            Good == {T \in SUBSET E : SumFunction(H(T)) = SumFunction(f) + SumFunction(M(T))}
<1>1. \A T \in SUBSET E : H(T) \in [D -> Int] /\ M(T) \in [E -> Int]
  OBVIOUS
<1>2. SumFunction(f) \in Int
  BY SumInt
<1>3. ASSUME NEW T \in SUBSET E, \A e \in T : T \ {e} \in Good PROVE T \in Good
  <2>1. CASE T = {}
    <3>1. H(T) = f /\ \A e \in E : M(T)[e] = 0
      BY <2>1
    <3>2. SumFunction(M(T)) = 0
      <4>. HIDE DEF M
      <4>. QED BY <1>1, <3>1, SumInt
    <3>. HIDE DEF H, M
    <3>. QED BY <1>2, <3>1, <3>2
  <2>2. CASE T # {}
    <3>1. PICK e \in T : TRUE
      BY <2>2
    <3>2. SumFunction(H(T \ {e})) = SumFunction(f) + SumFunction(M(T \ {e}))
      BY <1>3
    <3>3. /\ H(T) = [H(T \ {e}) EXCEPT ![b[e]] = h[b[e]]]
          /\ H(T \ {e})[b[e]] = f[b[e]]
      BY DEF Spread
    <3>4. /\ M(T) = [M(T \ {e}) EXCEPT ![e] = m[e]]
          /\ M(T \ {e})[e] = 0
      OBVIOUS
    <3>5. /\ H(T \ {e}) \in [D -> Int] /\ M(T \ {e}) \in [E -> Int]
          /\ b[e] \in D /\ h[b[e]] \in Int /\ f[b[e]] \in Int /\ m[e] \in Int
          /\ h[b[e]] = f[b[e]] + m[e]
      <4>1. T \ {e} \in SUBSET E /\ e \in E
        OBVIOUS
      <4>2. h[b[e]] = f[b[e]] + m[e]
        BY <4>1 DEF Spread
      <4>. HIDE DEF H, M
      <4>. QED BY <1>1, <4>1, <4>2
    <3>. HIDE DEF H, M
    <3>6. /\ SumFunction(H(T)) = SumFunction(H(T \ {e})) - f[b[e]] + h[b[e]]
          /\ SumFunction(M(T)) = SumFunction(M(T \ {e})) - 0 + m[e]
      <4>1. \A F \in [D -> Int] : SumFunction([F EXCEPT ![b[e]] = h[b[e]]])
                                  = SumFunction(F) - F[b[e]] + h[b[e]]
        <5>. TAKE F \in [D -> Int]
        <5>1. PICK d \in D, v \in Int : d = b[e] /\ v = h[b[e]]
          BY <3>5
        <5>2. SumFunction([F EXCEPT ![d] = v]) = SumFunction(F) - F[d] + v
          BY SumPoint
        <5>. QED BY <5>1, <5>2
      <4>2. \A F \in [E -> Int] : SumFunction([F EXCEPT ![e] = m[e]])
                                  = SumFunction(F) - F[e] + m[e]
        <5>. TAKE F \in [E -> Int]
        <5>1. PICK d \in E, v \in Int : d = e /\ v = m[e]
          BY <3>5
        <5>2. SumFunction([F EXCEPT ![d] = v]) = SumFunction(F) - F[d] + v
          BY SumPoint
        <5>. QED BY <5>1, <5>2
      <4>3. SumFunction(H(T)) = SumFunction(H(T \ {e})) - f[b[e]] + h[b[e]]
        BY <3>3, <3>5, <4>1
      <4>4. SumFunction(M(T)) = SumFunction(M(T \ {e})) - 0 + m[e]
        BY <3>4, <3>5, <4>2
      <4>. QED BY <4>3, <4>4
    <3>7. SumFunction(H(T \ {e})) \in Int /\ SumFunction(M(T \ {e})) \in Int
      BY <3>5, SumInt
    <3>8. SumFunction(H(T)) = SumFunction(f) + SumFunction(M(T))
      <4>1. \A x, y, z, u, v \in Int : z = u + v => (x + y) - u + z = x + (y - 0 + v)
        OBVIOUS
      <4>2. h[b[e]] \in Int /\ f[b[e]] \in Int /\ m[e] \in Int /\ h[b[e]] = f[b[e]] + m[e]
        BY <3>5
      <4>. HIDE DEF Good
      <4>3. (SumFunction(f) + SumFunction(M(T \ {e}))) - f[b[e]] + h[b[e]]
              = SumFunction(f) + (SumFunction(M(T \ {e})) - 0 + m[e])
        BY <1>2, <3>7, <4>1, <4>2
      <4>. QED BY <3>2, <3>6, <4>3, Zenon
    <3>. QED BY <3>8
  <2>. QED BY <2>1, <2>2
<1>4. H(E) = h /\ M(E) = m
  BY DEF Spread
<1>5. E \in Good
  <2>. HIDE DEF Good
  <2>. QED BY <1>3, SubsetInduction
<1>. QED BY <1>4, <1>5

\* The sum over a part of the domain is that of the restricted function.
LEMMA SumOnSet ==
  ASSUME NEW D, IsFiniteSet(D), NEW f \in [D -> Int], NEW S \in SUBSET D
  PROVE  /\ SumFunctionOnSet(f, S) = SumFunction([x \in S |-> f[x]])
         /\ SumFunctionOnSet(f, S) \in Int
<1>. DEFINE h == [x \in S |-> f[x]]
<1>1. IsFiniteSet(S) /\ h \in [S -> Int]
  BY FS_Subset
<1>2. \A x \in S : h[x] = f[x]
  OBVIOUS
<1>. HIDE DEF h
<1>3. PICK g : SumsOf(g, h, S) /\ SumFunction(h) = g[S]
  BY <1>1, SumUnfolds
<1>4. ASSUME NEW k PROVE SumsOf(k, f, S) <=> SumsOf(k, h, S)
  <2>1. ASSUME NEW T \in SUBSET S, T # {}
        PROVE  f[CHOOSE x \in T : TRUE] = h[CHOOSE x \in T : TRUE]
    <3>1. (CHOOSE x \in T : TRUE) \in T
      BY <2>1
    <3>. QED BY <1>2, <3>1
  <2>2. [T \in SUBSET S |->
           IF T = {} THEN 0
           ELSE f[CHOOSE x \in T : TRUE] + k[T \ {CHOOSE x \in T : TRUE}]]
        = [T \in SUBSET S |->
           IF T = {} THEN 0
           ELSE h[CHOOSE x \in T : TRUE] + k[T \ {CHOOSE x \in T : TRUE}]]
    BY <2>1
  <2>. QED BY <2>2, Zenon DEF SumsOf
<1>5. SumsOf(CHOOSE k : SumsOf(k, f, S), f, S)
  BY <1>3, <1>4, Zenon
<1>6. SumFunctionOnSet(f, S) = (CHOOSE k : SumsOf(k, f, S))[S]
  BY DEF SumFunctionOnSet, FoldFunctionOnSet, MapThenFoldSet, SumsOf
<1>7. PICK k : SumsOf(k, h, S) /\ SumFunctionOnSet(f, S) = k[S]
  BY <1>4, <1>5, <1>6, Zenon
<1>. DEFINE Good == {T \in SUBSET S : g[T] = k[T]}
<1>8. \A T \in SUBSET S :
        /\ T = {} => g[T] = 0 /\ k[T] = 0
        /\ T # {} => \E x \in T : g[T] = h[x] + g[T \ {x}] /\ k[T] = h[x] + k[T \ {x}]
  <2>1. \A T \in SUBSET S :
          g[T] = IF T = {} THEN 0
                 ELSE h[CHOOSE x \in T : TRUE] + g[T \ {CHOOSE x \in T : TRUE}]
    BY <1>3, Zenon DEF SumsOf
  <2>2. \A T \in SUBSET S :
          k[T] = IF T = {} THEN 0
                 ELSE h[CHOOSE x \in T : TRUE] + k[T \ {CHOOSE x \in T : TRUE}]
    BY <1>7, Zenon DEF SumsOf
  <2>3. \A T : T # {} => (CHOOSE x \in T : TRUE) \in T
    OBVIOUS
  <2>. QED BY <2>1, <2>2, <2>3
<1>9. ASSUME NEW T \in SUBSET S, \A x \in T : T \ {x} \in Good PROVE T \in Good
  <2>1. CASE T = {}
    BY <1>8, <2>1
  <2>2. CASE T # {}
    <3>1. PICK x \in T : g[T] = h[x] + g[T \ {x}] /\ k[T] = h[x] + k[T \ {x}]
      BY <1>8, <2>2
    <3>2. g[T \ {x}] = k[T \ {x}]
      BY <1>9
    <3>. QED BY <3>1, <3>2
  <2>. QED BY <2>1, <2>2
<1>. HIDE DEF Good
<1>10. S \in Good
  <2>1. IsFiniteSet(S)
    BY <1>1
  <2>2. \A T \in SUBSET S : T \in Good
    BY <1>9, <2>1, SubsetInduction
  <2>. QED BY <2>2
<1>11. SumFunctionOnSet(f, S) = SumFunction(h)
  BY <1>3, <1>7, <1>10 DEF Good
<1>12. SumFunction(h) \in Int
  BY <1>1, SumInt
<1>. QED BY <1>11, <1>12 DEF h

\* Sums over two parts that have nothing in common.
LEMMA SumUnion ==
  ASSUME NEW D, IsFiniteSet(D), NEW f \in [D -> Int],
         NEW S \in SUBSET D, NEW T \in SUBSET D, S \cap T = {}
  PROVE  SumFunctionOnSet(f, S \cup T) = SumFunctionOnSet(f, S) + SumFunctionOnSet(f, T)
<1>. DEFINE U   == S \cup T
            all == [x \in U |-> f[x]]
            fst == [x \in U |-> IF x \in S THEN f[x] ELSE 0]
            nil == [x \in U |-> 0]
            s   == [x \in S |-> f[x]]
            t   == [x \in T |-> f[x]]
            b   == [x \in S |-> x]
            c   == [x \in T |-> x]
<1>1. /\ IsFiniteSet(U) /\ IsFiniteSet(S) /\ IsFiniteSet(T)
      /\ all \in [U -> Int] /\ fst \in [U -> Int] /\ nil \in [U -> Int]
      /\ s \in [S -> Int] /\ t \in [T -> Int] /\ b \in [S -> U] /\ c \in [T -> U]
  <2>1. IsFiniteSet(U) /\ IsFiniteSet(S) /\ IsFiniteSet(T)
    BY FS_Subset
  <2>. QED BY <2>1
<1>2. Spread(fst, nil, s, b, U, S)
  BY DEF Spread
<1>3. Spread(all, fst, t, c, U, T)
  BY DEF Spread
<1>4. \A x \in U : nil[x] = 0
  OBVIOUS
<1>5. /\ SumFunctionOnSet(f, U) = SumFunction(all)
      /\ SumFunctionOnSet(f, S) = SumFunction(s)
      /\ SumFunctionOnSet(f, T) = SumFunction(t)
  <2>1. U \in SUBSET D
    OBVIOUS
  <2>. QED BY <2>1, SumOnSet
<1>. HIDE DEF U, all, fst, nil, s, t, b, c
<1>6. SumFunction(fst) = SumFunction(nil) + SumFunction(s)
  BY <1>1, <1>2, SumSpread
<1>7. SumFunction(all) = SumFunction(fst) + SumFunction(t)
  BY <1>1, <1>3, SumSpread
<1>8. SumFunction(nil) = 0 /\ SumFunction(s) \in Int
  BY <1>1, <1>4, SumInt
<1>. QED BY <1>5, <1>6, <1>7, <1>8 DEF U

\* Sums over nothing, over one element, and of natural numbers.
LEMMA SumParts ==
  ASSUME NEW D, IsFiniteSet(D), NEW f \in [D -> Int]
  PROVE  /\ SumFunctionOnSet(f, {}) = 0
         /\ \A x \in D : SumFunctionOnSet(f, {x}) = f[x]
         /\ SumFunctionOnSet(f, D) = SumFunction(f)
         /\ f \in [D -> Nat] => \A S \in SUBSET D : SumFunctionOnSet(f, S) \in Nat
<1>1. SumFunctionOnSet(f, {}) = 0
  <2>. DEFINE h == [x \in {} |-> f[x]]
  <2>1. h \in [{} -> Int] /\ IsFiniteSet({}) /\ {} \in SUBSET D
    BY FS_EmptySet
  <2>2. SumFunctionOnSet(f, {}) = SumFunction(h)
    BY <2>1, SumOnSet
  <2>. HIDE DEF h
  <2>. QED BY <2>1, <2>2, SumInt
<1>2. ASSUME NEW a \in D PROVE SumFunctionOnSet(f, {a}) = f[a]
  <2>. DEFINE h == [x \in {a} |-> f[x]]
              z == [x \in {a} |-> 0]
  <2>1. h \in [{a} -> Int] /\ z \in [{a} -> Int] /\ IsFiniteSet({a}) /\ {a} \in SUBSET D
        /\ a \in {a} /\ f[a] \in Int
    BY FS_Singleton
  <2>2. SumFunctionOnSet(f, {a}) = SumFunction(h)
    BY <2>1, SumOnSet
  <2>3. h = [z EXCEPT ![a] = f[a]] /\ z[a] = 0 /\ \A x \in {a} : z[x] = 0
    OBVIOUS
  <2>. HIDE DEF h, z
  <2>4. SumFunction(z) = 0
    BY <2>1, <2>3, SumInt
  <2>5. SumFunction([z EXCEPT ![a] = f[a]]) = SumFunction(z) - z[a] + f[a]
    BY <2>1, SumPoint
  <2>. QED BY <2>1, <2>2, <2>3, <2>4, <2>5
<1>3. SumFunctionOnSet(f, D) = SumFunction(f)
  BY DEF SumFunction
<1>4. ASSUME f \in [D -> Nat] PROVE \A S \in SUBSET D : SumFunctionOnSet(f, S) \in Nat
  <2>. DEFINE Good == {S \in SUBSET D : SumFunctionOnSet(f, S) \in Nat}
  <2>1. ASSUME NEW S \in SUBSET D, \A x \in S : S \ {x} \in Good PROVE S \in Good
    <3>1. CASE S = {}
      BY <1>1, <3>1
    <3>2. CASE S # {}
      <4>1. PICK x \in S : TRUE
        BY <3>2
      <4>2. /\ S \ {x} \in SUBSET D /\ {x} \in SUBSET D /\ x \in D
            /\ (S \ {x}) \cap {x} = {} /\ (S \ {x}) \cup {x} = S
        OBVIOUS
      <4>3. SumFunctionOnSet(f, S) = SumFunctionOnSet(f, S \ {x}) + SumFunctionOnSet(f, {x})
        BY <4>2, SumUnion
      <4>4. SumFunctionOnSet(f, S \ {x}) \in Nat /\ SumFunctionOnSet(f, {x}) = f[x] /\ f[x] \in Nat
        BY <1>2, <1>4, <2>1, <4>2
      <4>. QED BY <4>3, <4>4
    <3>. QED BY <3>1, <3>2
  <2>. HIDE DEF Good
  <2>2. \A S \in SUBSET D : S \in Good
    BY <2>1, SubsetInduction
  <2>. QED BY <2>2 DEF Good
<1>. QED BY <1>1, <1>2, <1>3, <1>4

----------------------------------------------------------------------------
(* Elements picked out in increasing order.                                *)

\* The number of elements up to one of them is its place in the set.
LEMMA CountToRanks ==
  ASSUME NEW S \in SUBSET Int, IsFiniteSet(S)
  PROVE  /\ Cardinality(S) \in Nat
         /\ \A i \in S : CountTo(S, i) \in 1..Cardinality(S)
         /\ \A i, j \in S : i < j => CountTo(S, i) < CountTo(S, j)
         /\ \A k \in 1..Cardinality(S) : \E i \in S : CountTo(S, i) = k
<1>. DEFINE n == Cardinality(S)
            Upto(i) == {j \in S : j <= i}
<1>1. n \in Nat
  BY FS_CardinalityType
<1>2. \A i \in S : IsFiniteSet(Upto(i)) /\ Cardinality(Upto(i)) <= n /\ Cardinality(Upto(i)) \in Nat
  BY FS_Subset, FS_CardinalityType
<1>3. \A i \in S : CountTo(S, i) = Cardinality(Upto(i))
  BY DEF CountTo
<1>4. ASSUME NEW i \in S PROVE CountTo(S, i) \in 1..n
  <2>1. Upto(i) # {}
    OBVIOUS
  <2>2. Cardinality(Upto(i)) # 0
    BY <1>2, <2>1, FS_EmptySet
  <2>. QED BY <1>1, <1>2, <1>3, <2>2
<1>5. ASSUME NEW i \in S, NEW j \in S, i < j PROVE CountTo(S, i) < CountTo(S, j)
  <2>1. Upto(i) \in SUBSET Upto(j) /\ Upto(i) # Upto(j)
    <3>1. j \in Upto(j) /\ j \notin Upto(i)
      BY <1>5
    <3>2. \A k \in Upto(i) : k \in Upto(j)
      BY <1>5
    <3>. QED BY <3>1, <3>2
  <2>. HIDE DEF Upto
  <2>2. Cardinality(Upto(i)) <= Cardinality(Upto(j)) /\ Cardinality(Upto(i)) # Cardinality(Upto(j))
    BY <1>2, <2>1, FS_Subset
  <2>. QED BY <1>2, <1>3, <2>2
<1>6. \A k \in 1..n : \E i \in S : CountTo(S, i) = k
  <2>. DEFINE f == [i \in S |-> CountTo(S, i)]
  <2>1. f \in [S -> 1..n]
    BY <1>4
  <2>2. \A i, j \in S : f[i] = f[j] => i = j
    <3>. SUFFICES ASSUME NEW i \in S, NEW j \in S, i # j PROVE CountTo(S, i) # CountTo(S, j)
      OBVIOUS
    <3>1. CASE i < j
      BY <1>1, <1>4, <1>5, <3>1
    <3>2. CASE j < i
      BY <1>1, <1>4, <1>5, <3>2
    <3>. QED BY <3>1, <3>2
  <2>3. f \in Injection(S, 1..n)
    BY <2>1, <2>2 DEF Injection, IsInjective
  <2>4. IsFiniteSet(1..n) /\ Cardinality(1..n) = n
    BY <1>1, FS_Interval
  <2>5. f \in Surjection(S, 1..n)
    <3>. HIDE DEF f
    <3>. QED BY <2>3, <2>4, FS_Injection
  <2>. QED BY <2>5 DEF Surjection
<1>. QED BY <1>1, <1>4, <1>5, <1>6

\* InOrder numbers the elements of the set in increasing order.
LEMMA InOrderProperties ==
  ASSUME NEW S \in SUBSET Int, IsFiniteSet(S)
  PROVE  /\ Cardinality(S) \in Nat
         /\ InOrder(S) \in [1..Cardinality(S) -> S]
         /\ \A k \in 1..Cardinality(S) : CountTo(S, InOrder(S)[k]) = k
         /\ \A i \in S : /\ CountTo(S, i) \in 1..Cardinality(S)
                         /\ InOrder(S)[CountTo(S, i)] = i
         /\ \A j, k \in 1..Cardinality(S) : j < k => InOrder(S)[j] < InOrder(S)[k]
<1>. DEFINE n == Cardinality(S)
            f == InOrder(S)
<1>1. /\ n \in Nat
      /\ \A i \in S : CountTo(S, i) \in 1..n
      /\ \A i, j \in S : i < j => CountTo(S, i) < CountTo(S, j)
      /\ \A k \in 1..n : \E i \in S : CountTo(S, i) = k
  BY CountToRanks
<1>2. ASSUME NEW k \in 1..n PROVE f[k] \in S /\ CountTo(S, f[k]) = k
  <2>1. f[k] = CHOOSE i \in S : CountTo(S, i) = k
    BY DEF InOrder
  <2>. QED BY <1>1, <2>1
<1>3. f \in [1..n -> S]
  BY <1>2 DEF InOrder
<1>4. ASSUME NEW i \in S, NEW j \in S, CountTo(S, i) = CountTo(S, j) PROVE i = j
  <2>1. ~(i < j) /\ ~(j < i)
    BY <1>1, <1>4
  <2>. QED BY <2>1
<1>5. ASSUME NEW i \in S PROVE f[CountTo(S, i)] = i
  <2>1. CountTo(S, i) \in 1..n
    BY <1>1
  <2>2. f[CountTo(S, i)] \in S /\ CountTo(S, f[CountTo(S, i)]) = CountTo(S, i)
    BY <1>2, <2>1
  <2>. QED BY <1>4, <2>2
<1>6. ASSUME NEW j \in 1..n, NEW k \in 1..n, j < k PROVE f[j] < f[k]
  <2>1. f[j] \in Int /\ f[k] \in Int /\ CountTo(S, f[j]) = j /\ CountTo(S, f[k]) = k
    BY <1>2
  <2>2. ~(f[k] < f[j]) /\ f[k] # f[j]
    BY <1>1, <1>2, <1>6, <2>1
  <2>. QED BY <2>1, <2>2
<1>. QED BY <1>1, <1>2, <1>3, <1>5, <1>6

\* What is selected from a sequence.
LEMMA SelectAtProperties ==
  ASSUME NEW T, NEW s \in Seq(T), NEW S \in SUBSET (1..Len(s))
  PROVE  /\ IsFiniteSet(S) /\ Cardinality(S) \in Nat /\ Cardinality(S) <= Len(s)
         /\ InOrder(S) \in [1..Cardinality(S) -> S]
         /\ SelectAt(s, S) \in Seq(T)
         /\ Len(SelectAt(s, S)) = Cardinality(S)
         /\ \A k \in 1..Cardinality(S) :
              /\ SelectAt(s, S)[k] = s[InOrder(S)[k]]
              /\ CountTo(S, InOrder(S)[k]) = k
         /\ \A i \in S : /\ CountTo(S, i) \in 1..Cardinality(S)
                         /\ InOrder(S)[CountTo(S, i)] = i
                         /\ SelectAt(s, S)[CountTo(S, i)] = s[i]
<1>1. IsFiniteSet(S) /\ Cardinality(S) <= Len(s) /\ S \in SUBSET Int
  <2>1. Len(s) \in Nat
    OBVIOUS
  <2>2. IsFiniteSet(1..Len(s)) /\ Cardinality(1..Len(s)) = Len(s)
    BY <2>1, FS_Interval, SMTT(30)
  <2>3. IsFiniteSet(S) /\ Cardinality(S) <= Len(s)
    BY <2>2, FS_Subset
  <2>. QED BY <2>3
<1>2. /\ Cardinality(S) \in Nat
      /\ InOrder(S) \in [1..Cardinality(S) -> S]
      /\ \A k \in 1..Cardinality(S) : CountTo(S, InOrder(S)[k]) = k
      /\ \A i \in S : /\ CountTo(S, i) \in 1..Cardinality(S)
                      /\ InOrder(S)[CountTo(S, i)] = i
  BY <1>1, InOrderProperties
<1>3. SelectAt(s, S) = [k \in 1..Cardinality(S) |-> s[InOrder(S)[k]]]
  BY DEF SelectAt
<1>4. ASSUME NEW k \in 1..Cardinality(S) PROVE s[InOrder(S)[k]] \in T
  <2>1. InOrder(S)[k] \in 1..Len(s)
    BY <1>2
  <2>. QED BY <2>1
<1>5. SelectAt(s, S) \in [1..Cardinality(S) -> T]
  BY <1>2, <1>3, <1>4
<1>6. SelectAt(s, S) \in Seq(T) /\ Len(SelectAt(s, S)) = Cardinality(S)
  BY <1>2, <1>5
<1>7. \A k \in 1..Cardinality(S) : SelectAt(s, S)[k] = s[InOrder(S)[k]]
  BY <1>3
<1>. QED BY <1>1, <1>2, <1>6, <1>7
=============================================================================
