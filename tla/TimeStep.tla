------------------------------ MODULE TimeStep ------------------------------
(***************************************************************************)
(* The main loop with one short-range tree force per step                  *)
(* (HierarchicalGravity = 0): find_timesteps and apply_half_kick.          *)
(***************************************************************************)
EXTENDS DriftKick

\* apply_half_kick, as its DEBUG book-keeping records it.  The hydro kick
\* time is moved by half a step of the gravity bin, as in the source.
KickParticles ==
  /\ Ti_kick_grav' = [p \in Part |->
       IF p \in Active /\ IsActive(TimeBinGravity[p], Ti_Current)
       THEN Ti_kick[TimeBinGravity[p]] + Dti[TimeBinGravity[p]] \div 2
       ELSE Ti_kick_grav[p]]
  /\ Ti_kick_hydro' = [p \in Part |->
       IF p \in Active /\ HasHydro(p)
       THEN Ti_kick[TimeBinHydro[p]] + Dti[TimeBinGravity[p]] \div 2
       ELSE Ti_kick_hydro[p]]

\* The half kick that ends a step, and the one that begins the next.
HalfKick ==
  /\ pc \in {"kick_end", "kick_begin"}
  /\ KickParticles
  /\ UpdateKickTimes
  /\ PMHalfKick
  /\ pc' = AfterKick
  /\ firstStep' = (firstStep /\ pc = "kick_end")
  /\ UNCHANGED <<Ti_Current, isPM, Act, Ti_lastactivedrift, mintimebin,
                 maxtimebin, kinds, partBins>>

----------------------------------------------------------------------------

\* find_timesteps: the bins it may choose for a particle.
NewBins(p, pm) ==
  {b \in Bins : \E w \in WantedBins(pm) : IsNewBin(b, w, TimeBinHydro[p])}

\* A bin is stored only if the old hydro bin and the new one end a step now.
MayChange(p, new) ==
  /\ IsActive(TimeBinHydro[p], Ti_Current)
  /\ IsActive(new, Ti_Current)

\* m is the minimum, or the maximum, of the new bins on all ranks.
IsShortest(m, new) ==
  /\ m \in {new[p] : p \in Active} \cup {TIMEBINS}
  /\ \A p \in Active : m <= new[p]

IsLongest(m, new) ==
  /\ m \in {new[p] : p \in Active} \cup {0}
  /\ \A p \in Active : new[p] <= m

\* The long-range step is no longer than the longest short-range one.  The
\* variant leaves it at the length the velocities allow.
UnshrunkPM(pm, hi) == pm
ShrunkPM(pm, hi)   == IF isPM /\ pm > Dti[hi] THEN Dti[hi] ELSE pm

\* set_bh_first_timestep
IsBHFirst(p) == firstStep /\ Type[p] = "bh"

\* The bin each active particle gets and what follows from them, for a PM
\* step that may have length pm.
AssignBins(new, pm) ==
  \E lo, hi \in Bins :
    /\ IsShortest(lo, new)
    /\ IsLongest(hi, new)
    /\ mintimebin' = lo
    /\ maxtimebin' = hi
    /\ TimeBinGravity' = [p \in Part |->
         IF p \in Active /\ MayChange(p, new[p]) THEN new[p]
         ELSE TimeBinGravity[p]]
    /\ TimeBinHydro' = [p \in Part |->
         IF IsBHFirst(p) THEN lo
         ELSE IF p \in Active /\ MayChange(p, new[p]) THEN new[p]
         ELSE TimeBinHydro[p]]
    /\ PM_length' = ShrunkPM(pm, hi)

\* find_timesteps.  A bin below 1 ends the run after a dump.
FindTimesteps ==
  /\ pc = "timesteps"
  /\ \E pm \in (IF isPM THEN PMLengths ELSE {PM_length}) :
     \E new \in [Active -> Bins] :
       /\ \A p \in Active : new[p] \in NewBins(p, pm)
       /\ AssignBins(new, pm)
       /\ pc' = IF \E p \in Active : new[p] < 1 THEN "bad_timestep"
                                                ELSE "kick_begin"
  /\ PM_start' = IF isPM THEN PM_kick ELSE PM_start
  /\ UNCHANGED <<clock, Ti_kick, PM_kick, kinds, kicks>>

----------------------------------------------------------------------------

Stopped == pc \in Ends /\ UNCHANGED vars

Next == Advance \/ HalfKick \/ Physics \/ FindTimesteps \/ Stopped

Spec == Init /\ [][Next]_vars

----------------------------------------------------------------------------

\* Every variable has its type.
TypeOK ==
  /\ pc \in Phases \cup Ends
  /\ isPM \in BOOLEAN /\ firstStep \in BOOLEAN
  /\ Act \subseteq Part /\ Live \subseteq Part
  /\ Ti_Current \in Nat
  /\ Ti_kick \in [Bins -> Nat] /\ Ti_lastactivedrift \in [Bins -> Nat]
  /\ mintimebin \in Bins /\ maxtimebin \in Bins
  /\ PM_length \in Int /\ PM_start \in Int /\ PM_kick \in Int
  /\ Type \in [Part -> Types]
  /\ TimeBinHydro \in [Part -> Bins] /\ TimeBinGravity \in [Part -> Bins]
  /\ Ti_kick_grav \in [Part -> Nat] /\ Ti_kick_hydro \in [Part -> Nat]

\* When a half kick starts, the time interval it integrates over (which comes
\* from the table of bins) starts where the velocity of each particle it kicks
\* is: the checks "had grav kick time" and "had hydro kick time" of
\* apply_half_kick never stop the run.
KickTimesMatch ==
  pc \in {"kick_end", "kick_begin"} => \A p \in Active :
    /\ IsActive(TimeBinGravity[p], Ti_Current) =>
         Ti_kick_grav[p] = Ti_kick[TimeBinGravity[p]]
    /\ HasHydro(p) => Ti_kick_hydro[p] = Ti_kick[TimeBinHydro[p]]

\* While the physics runs, the velocities of all active particles are at the
\* time of their positions (check_kick_drift_times); on a PM step, which is
\* when snapshots are written, that holds for every particle and for the
\* long-range velocity too.
Synchronised ==
  pc \in {"physics", "timesteps"} =>
    /\ \A p \in Active :
         /\ IsActive(TimeBinGravity[p], Ti_Current) =>
              Ti_kick_grav[p] = Ti_Current
         /\ HasHydro(p) => Ti_kick_hydro[p] = Ti_Current
    /\ isPM => /\ PM_kick = Ti_Current
               /\ \A p \in Live : Ti_kick_grav[p] = Ti_Current

\* Between two steps no velocity is more than half a step of its particle
\* away from the position, and the table of last active times, from which
\* hydro_force predicts positions, holds the time that step started.
NoStepMissed ==
  pc = "advance" /\ ~firstStep => \A p \in Live :
    LET bin == TimeBinGravity[p] IN
    /\ Ti_lastactivedrift[bin] = Ti_kick_grav[p] - Dti[bin] \div 2
    /\ Ti_Current < Ti_kick_grav[p] + Dti[bin] \div 2
    /\ HasHydro(p) => Ti_kick_hydro[p] = Ti_kick_grav[p]

\* The loop never steps over the end of a PM step ("Passed end of PM step!").
PMNeverPassed == pc # "passed_PM"

\* The loop stops at every sync point, with a PM step.
SyncPointsVisited ==
  [][\A s \in SyncTimes : Ti_Current < s /\ s <= Ti_Current' =>
       s = Ti_Current' /\ isPM']_vars

\* Every trip round the loop but the first moves the clock, so that no choice
\* of time bins can make the loop spin.
TimeAdvances ==
  [][pc = "advance" /\ pc' # pc /\ ~firstStep => Ti_Current' > Ti_Current]_vars

\* A particle leaves its gravity bin only where a step of that bin ends ("we
\* need to check the gravity timestep", find_timesteps).  It does not hold:
\* MayChange, like the code, asks for the hydro bin, and the two differ for a
\* black hole of the initial conditions.
GravityStepsComplete ==
  [][\A p \in Part : TimeBinGravity'[p] # TimeBinGravity[p] =>
       IsActive(TimeBinGravity[p], Ti_Current)]_vars

=============================================================================
