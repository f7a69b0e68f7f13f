----------------------------- MODULE DriftKick -----------------------------
(***************************************************************************)
(* The integer timeline of MP-Gadget and the part of the main loop         *)
(* (libgadget/run.c) that is the same for both gravity integrators: the    *)
(* advance to the next kick, the kick times of the time bins, the long     *)
(* range (PM) kick, and the physics that changes particle types.           *)
(*                                                                         *)
(* Time is an integer.  The interval between two sync points (outputs) has *)
(* Dti[TIMEBINS] units, and a particle in time bin b takes steps of Dti[b] *)
(* units, which start and end at multiples of Dti[b].  A step is           *)
(* kick-drift-kick: velocities are half a step ahead of positions between  *)
(* two steps and meet them where a step ends.                              *)
(*                                                                         *)
(* All ranks hold the same copy of the clock (every input of it is an      *)
(* MPI_Allreduce), so the model has one clock and the particles of all     *)
(* ranks together.                                                         *)
(***************************************************************************)
EXTENDS Integers

CONSTANTS
  TIMEBINS,     (* the longest time bin                                     *)
  Dti,          (* dti_from_timebin: the length of a step of each bin       *)
  NSyncPoints,  (* sync point i is at time i * Dti[TIMEBINS]                *)
  InitTimes,    (* integer times a run may start at                         *)
  Part,         (* particle identities                                      *)
  InitType,     (* the type each particle has when the run starts           *)
  SeedAtStart   (* may the first step already seed black holes?             *)

Bins     == 0..TIMEBINS
TIMEBASE == Dti[TIMEBINS]
Types    == {"gas", "dm", "star", "bh"}

(***************************************************************************)
(* dti_from_timebin: 1 << bin, and 0 for bin 0.                            *)
(***************************************************************************)
ASSUME TimelineAssumption ==
  /\ TIMEBINS \in Nat \ {0}
  /\ Dti \in [Bins -> Nat]
  /\ Dti[0] = 0
  /\ Dti[1] = 2
  /\ \A b \in 1..TIMEBINS-1 : Dti[b+1] = 2 * Dti[b]

(***************************************************************************)
(* init_timeline keeps the timeline of the run a snapshot comes from when  *)
(* the snapshot lies at a sync point or a power of two after one.          *)
(***************************************************************************)
KeptByInitTimeline(t) ==
  \/ t % TIMEBASE = 0
  \/ \E b \in 1..TIMEBINS : t % TIMEBASE = Dti[b]

ASSUME SetupAssumption ==
  /\ NSyncPoints \in Nat \ {0, 1}
  /\ InitTimes \subseteq Nat
  /\ \A t \in InitTimes : t % Dti[1] = 0 /\ KeptByInitTimeline(t)
  /\ Part # {}
  /\ InitType \in [Part -> Types]
  /\ SeedAtStart \in BOOLEAN

----------------------------------------------------------------------------

VARIABLES
  pc,                 (* the part of the main loop that runs next           *)
  isPM,               (* is_PM, computed once at the top of the loop        *)
  firstStep,          (* NumCurrentTiStep == 0                              *)
  Act,                (* the active particles of this step                  *)
  Ti_Current,         (* the universal drift time                           *)
  Ti_kick,            (* per bin: time its velocities have reached          *)
  Ti_lastactivedrift, (* per bin: drift time when it was last active        *)
  mintimebin,         (* shortest occupied bin                              *)
  maxtimebin,
  PM_length,          (* duration of the current long-range step            *)
  PM_start,           (* when it started                                    *)
  PM_kick,            (* time the long-range kicks have reached             *)
  Live,               (* particles that are neither garbage nor swallowed   *)
  Type,
  TimeBinHydro,
  TimeBinGravity,
  Ti_kick_grav,       (* per particle: time its gravity kicks have reached  *)
  Ti_kick_hydro       (* per particle: the same for its hydro kicks         *)

clock    == <<Ti_Current, isPM, firstStep, Act, Ti_lastactivedrift>>
binTimes == <<Ti_kick, mintimebin, maxtimebin>>
pmTimes  == <<PM_length, PM_start, PM_kick>>
kinds    == <<Live, Type>>
partBins == <<TimeBinHydro, TimeBinGravity>>
kicks    == <<Ti_kick_grav, Ti_kick_hydro>>
vars     == <<pc, clock, binTimes, pmTimes, kinds, partBins, kicks>>

\* Where the loop can be: its phases in order, and the ways it ends.
Phases == {"advance", "kick_end", "physics", "timesteps", "kick_begin"}
Ends   == {"done", "bad_timestep", "passed_PM"}

----------------------------------------------------------------------------

IsActive(b, t) == b <= 0 \/ t <= 0 \/ t % Dti[b] = 0

SyncTimes == {i * TIMEBASE : i \in 0..NSyncPoints-1}

\* n is what find_next_sync_point returns at time t.
IsNextSync(n, t) == n > t /\ \A s \in SyncTimes : s > t => n <= s

HasHydro(p) == Type[p] \in {"gas", "bh"}

\* The gas physics runs if there are gas slots, which are set up with the
\* initial conditions.
GasEnabled == \E p \in Part : InitType[p] = "gas"

\* Particles the loops over the active list do not skip.
Active == Act \cap Live

----------------------------------------------------------------------------

Init ==
  /\ pc = "advance"
  /\ isPM = FALSE
  /\ firstStep = TRUE
  /\ Act = {}
  /\ Ti_Current \in InitTimes
  /\ Ti_kick = [b \in Bins |-> Ti_Current]
  /\ Ti_lastactivedrift = [b \in Bins |-> Ti_Current]
  /\ mintimebin = 0
  /\ maxtimebin = 0
  /\ PM_length = 0
  /\ PM_start = Ti_Current
  /\ PM_kick = Ti_Current
  /\ Live = Part
  /\ Type = InitType
  /\ TimeBinHydro = [p \in Part |-> 0]
  /\ TimeBinGravity = [p \in Part |-> 0]
  /\ Ti_kick_grav = [p \in Part |-> Ti_Current]
  /\ Ti_kick_hydro = [p \in Part |-> Ti_Current]

PMEnd == PM_start + PM_length

\* find_next_kick
NextKick == Ti_Current + Dti[mintimebin]

\* Every particle is active on a PM step, otherwise those whose gravity bin
\* or, for gas and black holes, hydro bin ends a step now.
ActiveParticles(pm, now) ==
  {p \in Live : \/ pm
                \/ IsActive(TimeBinGravity[p], now)
                \/ HasHydro(p) /\ IsActive(TimeBinHydro[p], now)}

\* update_lastactive_drift, for bin b at time now.  The variant forgets the
\* bins that hold no particles.
OccupiedLastActive(b, now) ==
  IF b >= mintimebin /\ IsActive(b, now) THEN now ELSE Ti_lastactivedrift[b]

LastActive(b, now) == IF IsActive(b, now) THEN now ELSE Ti_lastactivedrift[b]

\* Drift all particles to the next kick and find who is active there.
\* is_PM_timestep stops the run when the step jumped over the PM boundary.
Advance ==
  /\ pc = "advance"
  /\ Ti_Current' = NextKick
  /\ IF NextKick > PMEnd
     THEN pc' = "passed_PM" /\ UNCHANGED <<isPM, Act, Ti_lastactivedrift>>
     ELSE /\ pc' = "kick_end"
          /\ isPM' = (NextKick = PMEnd)
          /\ Act' = ActiveParticles(isPM', NextKick)
          /\ Ti_lastactivedrift' = [b \in Bins |-> LastActive(b, NextKick)]
  /\ UNCHANGED <<firstStep, binTimes, pmTimes, kinds, partBins, kicks>>

----------------------------------------------------------------------------

\* A variant of update_kick_times: the bins below the shortest occupied one are
\* left behind.
UncarriedKick(b) ==
  IF b >= mintimebin /\ IsActive(b, Ti_Current) THEN Ti_kick[b] + Dti[b] \div 2
                                                ELSE Ti_kick[b]

\* update_kick_times: half a step for each active bin, and the bins below the
\* shortest occupied one are carried along with it.
UpdatedKick(b) ==
  IF mintimebin = 0 /\ maxtimebin = 0 THEN Ti_kick[b]
  ELSE IF b >= mintimebin
       THEN IF IsActive(b, Ti_Current) THEN Ti_kick[b] + Dti[b] \div 2
                                       ELSE Ti_kick[b]
       ELSE IF b >= 1 THEN Ti_kick[b] + Dti[mintimebin] \div 2 ELSE Ti_kick[b]

UpdateKickTimes == Ti_kick' = [b \in Bins |-> UpdatedKick(b)]

\* The variant forgets to ask whether this is a long-range step.
UnguardedPMHalfKick ==
  PM_kick' = PM_kick + PM_length \div 2 /\ UNCHANGED <<PM_length, PM_start>>

PMHalfKick ==
  /\ PM_kick' = IF isPM THEN PM_kick + PM_length \div 2 ELSE PM_kick
  /\ UNCHANGED <<PM_length, PM_start>>

\* The next trip round the loop starts after the opening half kick.
AfterKick == IF pc = "kick_end" THEN "physics" ELSE "advance"

\* What PM_length may be from this PM step on: a power of two the velocities
\* allow, but never beyond the next sync point.
PMLengths ==
  UNION {{IF d > n - PM_kick THEN n - PM_kick ELSE d :
            d \in {1} \cup {Dti[b] : b \in Bins}} :
         n \in {s \in SyncTimes : IsNextSync(s, Ti_Current)}}

\* Bins a particle may ask for when no step may exceed dti_max: the time step
\* criteria, rounded down to a power of two.
WantedBins(dti_max) == {b \in Bins : Dti[b] <= dti_max}

\* Bins a particle that wants a longer step comes to rest in on its way down.
Settled(old) == {b \in Bins : b = old \/ b <= 1 \/ IsActive(b, Ti_Current)}

\* get_timebin_from_dti: what becomes of the wanted bin.
IsNewBin(new, wanted, old) ==
  \/ wanted <= old /\ new = wanted
  \/ /\ wanted > old
     /\ new \in Settled(old)
     /\ old <= new /\ new <= wanted
     /\ \A b \in Settled(old) : b <= wanted => b <= new

----------------------------------------------------------------------------

(***************************************************************************)
(* Between the two half kicks: black holes are seeded in gas on PM steps,  *)
(* active black holes swallow gas and black holes, active gas turns into   *)
(* stars.  The loop ends at the last sync point, or on a PM step when the  *)
(* user asks for it.                                                       *)
(***************************************************************************)
Physics ==
  /\ pc = "physics"
  /\ \E seeds \in SUBSET {p \in Live : Type[p] = "gas"} :
     \E stars \in SUBSET {p \in Active : Type[p] = "gas" /\ p \notin seeds} :
     \E eaten \in SUBSET {p \in Live : HasHydro(p) /\ p \notin stars} :
       /\ seeds # {} => isPM /\ (firstStep => SeedAtStart)
       /\ eaten # {} => GasEnabled /\ \E h \in Active \ eaten : Type[h] = "bh" \/ h \in seeds
       /\ Live' = Live \ eaten
       /\ Type' = [p \in Part |-> IF p \in seeds THEN "bh"
                                  ELSE IF p \in stars THEN "star" ELSE Type[p]]
  /\ \/ pc' = "timesteps" /\ \E s \in SyncTimes : s > Ti_Current
     \/ pc' = "done" /\ (isPM \/ \A s \in SyncTimes : s <= Ti_Current)
  /\ UNCHANGED <<clock, binTimes, pmTimes, partBins, kicks>>

=============================================================================
