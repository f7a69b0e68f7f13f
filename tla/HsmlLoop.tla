------------------------------ MODULE HsmlLoop ------------------------------
(***************************************************************************)
(* treewalk_do_hsml_loop (libgadget/treewalk.c): a walk is repeated with   *)
(* another radius for those particles that did not find the right number   *)
(* of neighbours, until there are none on any rank.  Three searches use    *)
(* it: density (density.c), with one radius at a time; stellar_density     *)
(* (metal_return.c) and winds_find_vel_disp (veldisp.c), which count the   *)
(* neighbours within several radii in one walk.                            *)
(*                                                                         *)
(* A radius is given by its volume, an integer: factors 1.26, 0.99 and 1/3 *)
(* become 2, 99/102 and 1/27.  A particle's neighbours count one each,     *)
(* which the kernel's weights do not; what the kernel's gradient suggests  *)
(* is a choice between the bounds the code puts on it.                     *)
(***************************************************************************)
EXTENDS Integers, Sequences, FiniteSets, FiniteSetsExt, Functions

CONSTANTS
  NTask,
  Worlds,      (* what is searched, and the particles: their rank, type and *)
               (* slot, Hsml, the masses and sizes of the tree nodes above, *)
               (* and near[q], how far the neighbours on rank q are         *)
  BoxSize,
  NHSML,       (* NHSML, NWINDHSML: radii evaluated in one walk             *)
  DesNumNgb,   (* GetNumNgb(), NUMDMNGB                                     *)
  MaxNumNgbDeviation,   (* MaxNgbDeviation, MAXDMDEVIATION                  *)
  BlackHoleNgbFactor, BlackHoleMaxAccretionRadius, MinGasHsml,
  MeanGasSeparation,
  MAXITER

Ranks == 1..NTask

VARIABLES
  world,
  Hsml,         (* P[i].Hsml, priv->DMRadius                                *)
  Left, Right,  (* per particle; by slot, which is the same order           *)
  found,        (* NumNgb at the radius closest to what is wanted           *)
  queue,        (* WorkSet: particles of a rank this walk has still to do   *)
  redo,         (* NPRedo: those that need another                          *)
  Niteration,
  status        (* "start", "walk", "ended" or "failed"                     *)

hsmlVars == <<world, Hsml, Left, Right, found, queue, redo, Niteration, status>>

PS      == world.parts
Parts   == DOMAIN PS
Lost    == -1     (* not a number *)
IsBH(p) == PS[p].type = "bh"

\* The neighbours of p on rank q within a radius.
Within(p, q, h) == {n \in DOMAIN PS[p].near[q] : PS[p].near[q][n] < h}
Ngb(p, q, h)   == Cardinality(Within(p, q, h))
NumNgb(p, h)   == MapThenSumSet(LAMBDA q : Ngb(p, q, h), Ranks)
NearBox(h)     == 102 * h > 99 * BoxSize
Apart(m, n)    == IF m < n THEN n - m ELSE m - n
AtLeastOne(h)  == IF h < 1 THEN 1 ELSE h
RoundedUp(a, b) == -((-a) \div b)

density_haswork(p)       == PS[p].type \in {"gas", "bh"} /\ ~PS[p].swallowed
metals_haswork(p)        == PS[p].type = "star"
winds_veldisp_haswork(p) == PS[p].type = "gas" /\ ~PS[p].swallowed

HasWork(p) ==
  CASE world.search = "density" -> density_haswork(p)
    [] world.search = "stars"   -> metals_haswork(p)
    [] world.search = "winds"   -> winds_veldisp_haswork(p)

PoorGuess == 500 * 500 * 500

\* set_init_hsml: the size of the first node above the particle with ten times
\* the mass it needs, scaled to that mass.
set_init_hsml(p) ==
  LET nodes == PS[p].nodes
      large == {n \in DOMAIN nodes : 10 * DesNumNgb * PS[p].mass <= nodes[n].mass}
      node  == nodes[IF large = {} THEN Len(nodes) ELSE Min(large)]
      test  == AtLeastOne((node.len * DesNumNgb * PS[p].mass) \div node.mass)
  IN  IF nodes # <<>> /\ test \div PoorGuess < MeanGasSeparation
      THEN test ELSE MeanGasSeparation

Queued(r)    == {p \in Parts : PS[p].rank = r /\ HasWork(p)}
FirstHsml(p) == IF PS[p].hsml = 0 THEN set_init_hsml(p) ELSE PS[p].hsml

HsmlInit ==
  /\ world \in Worlds
  /\ Hsml = <<>> /\ Left = <<>> /\ Right = <<>> /\ found = <<>>
  /\ queue = [r \in Ranks |-> {}]
  /\ redo = [r \in Ranks |-> {}]
  /\ Niteration = 0
  /\ status = "start"

\* density, stellar_density and winds_find_vel_disp set the bounds of all; what
\* has no radius yet got one when the run began (setup_smoothinglengths).
Begin ==
  /\ status = "start"
  /\ Hsml' = [p \in Parts |-> FirstHsml(p)]
  /\ Left' = [p \in Parts |-> 0] /\ Right' = [p \in Parts |-> BoxSize]
  /\ found' = [p \in Parts |-> 0]
  /\ queue' = [r \in Ranks |-> Queued(r)]
  /\ Niteration' = 1
  /\ status' = "walk"
  /\ UNCHANGED <<world, redo>>

----------------------------------------------------------------------------

\* density_check_neighbours after a walk.
Wanted(p) == IF IsBH(p) THEN BlackHoleNgbFactor * DesNumNgb ELSE DesNumNgb

Enough(p, n) == Apart(n, Wanted(p)) <= MaxNumNgbDeviation

\* The bounds are too tight: a bound of zero never is.
Tight(l, r) == l > 0 /\ r - l <= 1

\* The bounds close in on the radius.
Bounded(p, n) ==
  [l |-> IF n < Wanted(p) THEN Hsml[p] ELSE Left[p],
   r |-> IF n < Wanted(p) THEN Right[p] ELSE Hsml[p]]

\* The factor the gradient suggests, at most doubling a volume that is too
\* small, and dividing by 27 at most one too large.
Grown(p, n) ==
  IF n = 0 \/ 2 * Apart(n, Wanted(p)) >= Wanted(p)
  THEN {2 * Hsml[p]} ELSE {2 * Hsml[p], Hsml[p] + AtLeastOne(Hsml[p] \div 4)}

Shrunk(p) == {AtLeastOne(Hsml[p] \div 27), AtLeastOne((3 * Hsml[p]) \div 4)}

\* The next radius: the middle of bounds that are both known.
Guesses(p, n, b) ==
  IF (b.r < BoxSize /\ b.l > 0) \/ NearBox(2 * Hsml[p])
  THEN {(b.l + b.r) \div 2}
  ELSE IF NearBox(b.r) THEN Grown(p, n) ELSE Shrunk(p)

Limited(p, h) ==
  LET m == IF IsBH(p) THEN Min({h, BlackHoleMaxAccretionRadius}) ELSE h
  IN  Max({m, MinGasHsml})

Settle(p, n) ==
  /\ found' = [found EXCEPT ![p] = n]
  /\ queue' = [queue EXCEPT ![PS[p].rank] = @ \ {p}]
  /\ UNCHANGED <<world, Niteration, status>>

Again(p)   == redo' = [redo EXCEPT ![PS[p].rank] = @ \cup {p}]
Done(p)    == UNCHANGED redo
SetTo(p, h) == Hsml' = [Hsml EXCEPT ![p] = h]
SetBounds(p, b) ==
  /\ Left' = [Left EXCEPT ![p] = b.l] /\ Right' = [Right EXCEPT ![p] = b.r]

density_check_neighbours(p) ==
  LET n == NumNgb(p, Hsml[p])
      b == Bounded(p, n)
  IN  /\ Settle(p, n)
      /\ \/ /\ Enough(p, n)
            /\ SetTo(p, Limited(p, Hsml[p])) /\ UNCHANGED <<Left, Right>> /\ Done(p)
         \/ /\ ~Enough(p, n) /\ Tight(Left[p], Right[p])
            /\ SetTo(p, Right[p]) /\ UNCHANGED <<Left, Right>> /\ Done(p)
         \/ /\ ~Enough(p, n) /\ ~Tight(Left[p], Right[p])
            /\ SetBounds(p, b)
            /\ IF IsBH(p) /\ b.l > BlackHoleMaxAccretionRadius
               THEN SetTo(p, BlackHoleMaxAccretionRadius) /\ Done(p)
               ELSE IF b.r < MinGasHsml THEN SetTo(p, MinGasHsml) /\ Done(p)
               ELSE (\E h \in Guesses(p, n, b) : SetTo(p, h)) /\ Again(p)

Density(p) ==
  /\ status = "walk" /\ world.search = "density"
  /\ p \in queue[PS[p].rank]
  /\ density_check_neighbours(p)

----------------------------------------------------------------------------

Cube(n) == n * n * n

\* effhsml and vdispeffdmradius: the i-th of the radii evaluated together.
\* Without an upper bound stars look a little further than Hsml.
FarEnd(p) ==
  IF ~NearBox(Right[p]) THEN Right[p]
  ELSE IF world.search = "winds" THEN Hsml[p]
  ELSE (Hsml[p] * Cube(NHSML + 1)) \div Cube(NHSML)

NearEnd(p) == IF Left[p] = 0 THEN Hsml[p] \div 1000 ELSE Left[p]

effhsml(p, i) ==
  ((i + 1) * (FarEnd(p) - NearEnd(p))) \div (NHSML + 1) + NearEnd(p)

\* stellar_density_ngbiter and wind_vdisp_ngbiter: a rank does not count past
\* the first radius that has too many on this rank alone.
maxcmpteOn(p, q) ==
  LET over == {i \in 0..NHSML - 1 : Ngb(p, q, effhsml(p, i)) > DesNumNgb}
  IN  IF over = {} THEN NHSML ELSE Min(over) + 1

\* stellar_density_reduce and wind_vdisp_reduce: as many radii as all ranks
\* have counted.  The variant takes those of the own rank.
maxcmpteOwn(p) == maxcmpteOn(p, PS[p].rank)

maxcmpte(p) == Min({maxcmpteOn(p, q) : q \in Ranks})

Counted(p, q, i) == IF i < maxcmpteOn(p, q) THEN Ngb(p, q, effhsml(p, i)) ELSE 0

\* ngb_narrow_down.
Counts(p) ==
  [i \in 0..maxcmpte(p) - 1 |-> MapThenSumSet(LAMBDA q : Counted(p, q, i), Ranks)]

Closest(num) ==
  CHOOSE i \in DOMAIN num : \A j \in DOMAIN num :
    LET a == Apart(num[i], DesNumNgb)  b == Apart(num[j], DesNumNgb)
    IN  a < b \/ (a = b /\ i <= j)

TooMany(num) == {i \in DOMAIN num : num[i] > DesNumNgb}

Narrowed(p, num) ==
  LET few == {i \in DOMAIN num : num[i] < DesNumNgb}
  IN  [l |-> IF few = {} THEN Left[p] ELSE effhsml(p, Max(few)),
       r |-> IF TooMany(num) = {} THEN Right[p] ELSE effhsml(p, Min(TooMany(num)))]

\* The volume where a line through two counts has the right number.
Extrapolated(h, lack, dn, dv) == h + RoundedUp(lack * dv, dn)

\* Not too far, while nothing bounds the radius from above.
Farther(p, h, num) ==
  LET last == maxcmpte(p) - 1
      dv   == effhsml(p, last) - effhsml(p, last - 1)
      dn   == num[last] - num[last - 1]
      v    == Extrapolated(h, DesNumNgb - num[last], dn, dv)
  IN  IF last > 0 /\ dn > 0 /\ dv > 0 /\ v >= 0 THEN Min({64 * h, v}) ELSE 64 * h

\* Closer, while nothing bounds it from below.  A negative volume has no cube
\* root.
Closer(p, h, num) ==
  LET first == effhsml(p, 0)
      alone == maxcmpte(p) = 1
      dv    == IF alone THEN first ELSE effhsml(p, 1) - first
      dn    == IF alone THEN num[0] ELSE num[1] - num[0]
      v     == Extrapolated(h, DesNumNgb - num[0], dn, dv)
  IN  IF dv <= 0 \/ dn <= 0 THEN h ELSE IF v < 0 THEN Lost ELSE v

ngb_narrow_down(p, num, b) ==
  LET closest  == effhsml(p, Closest(num))
      farther  == IF NearBox(b.r) THEN Farther(p, closest, num) ELSE closest
      within   == Min({farther, b.r})
      closer   == IF b.l = 0 THEN Closer(p, within, num) ELSE within
  IN  IF closer = Lost THEN Lost ELSE Max({closer, b.l})

RightNumber(n) == Apart(n, DesNumNgb) <= MaxNumNgbDeviation

\* stellar_density_check_neighbours and wind_vdisp_postprocess.
SeveralRadii(p) ==
  LET num == Counts(p)
      b   == Narrowed(p, num)
      n   == num[Closest(num)]
  IN  /\ Settle(p, n)
      /\ SetBounds(p, b)
      /\ SetTo(p, ngb_narrow_down(p, num, b))
      /\ IF RightNumber(n) \/ Tight(b.l, b.r) THEN Done(p) ELSE Again(p)

Several(p) ==
  /\ status = "walk" /\ world.search # "density"
  /\ p \in queue[PS[p].rank] /\ Hsml[p] # Lost
  /\ SeveralRadii(p)

\* Nothing is within a radius that is not a number, and the bounds become the
\* same: winds take any comparison with it for convergence, stars for none.
NotANumber(p) ==
  /\ status = "walk" /\ p \in queue[PS[p].rank] /\ Hsml[p] = Lost
  /\ Settle(p, 0)
  /\ IF world.search = "winds" THEN Done(p) ELSE Again(p)
  /\ UNCHANGED <<Hsml, Left, Right>>

----------------------------------------------------------------------------

WalkOver == status = "walk" /\ \A r \in Ranks : queue[r] = {}

\* MPIU_Any over the ranks.
AnyLeft == \E r \in Ranks : redo[r] # {}

\* All ranks walk again, also those that have nothing to do, unless the search
\* has taken too long ("failed to converge density").
Repeat ==
  /\ WalkOver /\ AnyLeft
  /\ IF Niteration > MAXITER THEN status' = "failed" /\ UNCHANGED <<queue, redo, Niteration>>
     ELSE /\ queue' = redo
          /\ redo' = [r \in Ranks |-> {}]
          /\ Niteration' = Niteration + 1
          /\ UNCHANGED status
  /\ UNCHANGED <<world, Hsml, Left, Right, found>>

EndLoop ==
  /\ WalkOver /\ ~AnyLeft
  /\ status' = "ended"
  /\ UNCHANGED <<world, Hsml, Left, Right, found, queue, redo, Niteration>>

HsmlStep == \E p \in Parts : Density(p) \/ Several(p) \/ NotANumber(p)

HsmlNext == Begin \/ HsmlStep \/ Repeat \/ EndLoop

HsmlSpec == HsmlInit /\ [][HsmlNext]_hsmlVars

----------------------------------------------------------------------------

Volumes == 1..BoxSize

Reachable(p) == \E h \in Volumes : Enough(p, NumNgb(p, h))

AtLimit(p) ==
  /\ world.search = "density"
  /\ LET n == NumNgb(p, Hsml[p])
     IN  \/ Hsml[p] = MinGasHsml /\ n >= Wanted(p) - MaxNumNgbDeviation
         \/ /\ IsBH(p) /\ Hsml[p] = BlackHoleMaxAccretionRadius
            /\ n <= Wanted(p) + MaxNumNgbDeviation

\* The search ends in time, unless a radius was lost; and that happens only
\* where neighbours on several ranks, none of which alone are too many, are
\* too many together.
Split(p) == Cardinality({q \in Ranks : PS[p].near[q] # <<>>}) > 1

SearchEnds ==
  /\ status = "failed" => \E p \in DOMAIN Hsml : Hsml[p] = Lost
  /\ \A p \in DOMAIN Hsml : Hsml[p] = Lost => Split(p)

\* The search ends with the right number of neighbours for each particle
\* whenever some radius has it: only a limit on the radius, or a jump in the
\* number of neighbours at the bracket, leaves a particle without.  And it ends
\* in time.
SearchRight ==
  /\ SearchEnds
  /\ status = "ended" =>
       \A p \in Parts : HasWork(p) /\ Hsml[p] # Lost /\ ~AtLimit(p) =>
         (Enough(p, found[p]) <=> Reachable(p))

\* The loop ends for every particle ("This condition is here to prevent the
\* density code looping forever", metal_return.c:855).
NeverFails == status # "failed"
=============================================================================
