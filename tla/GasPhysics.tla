------------------------------ MODULE GasPhysics ------------------------------
(***************************************************************************)
(* The walks over neighbours of one time step, in the order run            *)
(* (libgadget/run.c) makes them on all ranks: the gas densities for the    *)
(* hydrodynamics, its forces, the gas around the stars that return metals, *)
(* the search for groups to seed black holes in, the velocity dispersions  *)
(* the winds need, black holes, winds from new stars, and the groups for a *)
(* catalogue.                                                              *)
(*                                                                         *)
(* Each is a component of its own: HsmlLoop (three times), Hydro,          *)
(* FofGroups (twice), BlackHole and Winds.  Every call starts from any of  *)
(* its worlds, and what it keeps in memory is freed when it returns: the   *)
(* particles are described by each in its own way.                         *)
(***************************************************************************)
EXTENDS FofGroups

CONSTANTS
  SearchWorlds, HydroWorlds, BHWorlds, WindWorlds,
  NHost, NHostThread,          (* ranks and threads, but of FofGroups       *)
  BoxSize, NHSML, DesNumNgb, MaxNumNgbDeviation, BlackHoleNgbFactor,
  BlackHoleMaxAccretionRadius, MinGasHsml, MeanGasSeparation, MAXITER,
  MaxEntropy, TIMEBINS,
  WindEfficiency, WindFreeTravelLength, MaxWindFreeTravelTime

ASSUME GasPhysicsAssumption ==
  /\ NHost \in Nat \ {0} /\ NHostThread \in Nat \ {0}
  /\ NHSML \in Nat \ {0, 1} /\ BoxSize \in Nat \ {0} /\ DesNumNgb \in Nat \ {0}
  /\ MinGasHsml <= BlackHoleMaxAccretionRadius
  /\ MaxEntropy \in Nat /\ TIMEBINS \in Nat
  /\ WindEfficiency \in Nat /\ MaxWindFreeTravelTime \in Nat \ {0}

VARIABLES
  stage,        (* the place in run                                         *)
  world, Hsml, Left, Right, found, queue, redo, Niteration, status,
  fluid, hphase, stored, EntVarPred, Pressures, flow, round, at, query, unseen, result, seen,
  holes, bhphase, bh, sph, BH_SwallowID, SPH_SwallowID, todo, doing, out,
  blowing, wphase, visits, writing, nvisited, weight, nkicks, kicks, wind

Search == INSTANCE HsmlLoop WITH NTask <- NHost, Worlds <- SearchWorlds
Flow   == INSTANCE Hydro WITH NTask <- NHost, NThread <- NHostThread
Holes  == INSTANCE BlackHole WITH NTask <- NHost, NThread <- NHostThread, phase <- bhphase
Blow   == INSTANCE Winds WITH NTask <- NHost, NThread <- NHostThread

searchVars == <<world, Hsml, Left, Right, found, queue, redo, Niteration, status>>
flowVars   == <<fluid, hphase, stored, EntVarPred, Pressures, flow, round, at, query, unseen,
                result, seen>>
holesVars  == <<holes, bhphase, bh, sph, BH_SwallowID, SPH_SwallowID, todo, doing, out>>
blowVars   == <<blowing, wphase, visits, writing, nvisited, weight, nkicks, kicks, wind>>
physicsVars == <<stage, vars, searchVars, flowVars, holesVars, blowVars>>

\* What run calls; "hydro" stands for hydro_force and the predictions density
\* has made for it.  Without black holes, star formation or output due in this
\* step some calls are left out.
Stages == <<"density", "hydro", "stars", "seeding", "winds", "blackhole", "cooling",
            "catalogue">>
Now    == IF stage <= Len(Stages) THEN Stages[stage] ELSE "over"

Resting == status = "idle" /\ hphase = "idle" /\ bhphase = "idle" /\ wphase = "idle" /\ phase = "idle"

NoSearch ==
  /\ world = [search |-> "none", parts |-> <<>>] /\ status = "idle" /\ Niteration = 0
  /\ Hsml = <<>> /\ Left = <<>> /\ Right = <<>> /\ found = <<>>
  /\ queue = [r \in 1..NHost |-> {}] /\ redo = [r \in 1..NHost |-> {}]

NoFlow ==
  /\ fluid = [gas |-> <<>>, list |-> FALSE, busy |-> <<>>, slots |-> <<>>, late |-> {}]
  /\ hphase = "idle" /\ round = 1
  /\ stored = <<>> /\ EntVarPred = <<>> /\ Pressures = <<>> /\ flow = <<>>
  /\ at = <<>> /\ query = <<>> /\ unseen = <<>> /\ result = <<>> /\ seen = <<>>

NoHoles ==
  /\ holes = [bh |-> <<>>, gas |-> <<>>] /\ bhphase = "idle"
  /\ bh = <<>> /\ sph = <<>> /\ BH_SwallowID = <<>> /\ SPH_SwallowID = <<>>
  /\ todo = {} /\ doing = <<>> /\ out = <<>>

NoWinds ==
  /\ blowing = [star |-> <<>>, gas |-> <<>>] /\ wphase = "idle"
  /\ visits = {} /\ writing = <<>> /\ weight = <<>> /\ wind = <<>>
  /\ nvisited = <<>> /\ nkicks = <<>> /\ kicks = <<>>

NoGroups ==
  /\ P = [k \in Tasks |-> <<>>] /\ phase = "idle"
  /\ HaloLabel = <<>> /\ Heads = <<>> /\ OldMinID = <<>> /\ PrimaryActive = <<>>
  /\ walking = 0 /\ next = 1 /\ thread = [t \in Threads |-> Idle]
  /\ sent = <<>> /\ queries = {} /\ distance = <<>> /\ hsml = <<>>
  /\ base = <<>> /\ Group = <<>> /\ halo = <<>> /\ GrNr = <<>> /\ made = {}

PhysicsInit == stage = 1 /\ NoSearch /\ NoFlow /\ NoHoles /\ NoWinds /\ NoGroups

---------------------------------------------------------------------------

Call(name) == Resting /\ Now = name /\ UNCHANGED stage

\* density, stellar_density (metal_return) and winds_find_vel_disp.
CallSearch ==
  /\ Now \in {"density", "stars", "winds"} /\ Call(Now)
  /\ world' \in {w \in SearchWorlds : w.search = Now}
  /\ status' = "start"
  /\ UNCHANGED <<Hsml, Left, Right, found, queue, redo, Niteration, flowVars, holesVars, blowVars, vars>>

Call_fof ==
  /\ Now \in {"seeding", "catalogue"} /\ Call(Now)
  /\ P' \in Worlds
  /\ phase' = "start"
  /\ UNCHANGED <<HaloLabel, Heads, OldMinID, PrimaryActive, walking, next, thread, sent,
                 queries, distance, hsml, groupVars, searchVars, flowVars, holesVars, blowVars>>

Call_blackhole ==
  /\ Call("blackhole")
  /\ holes' \in BHWorlds
  /\ bhphase' = "start"
  /\ UNCHANGED <<bh, sph, BH_SwallowID, SPH_SwallowID, todo, doing, out,
                 searchVars, flowVars, blowVars, vars>>

\* winds_and_feedback, after stars have formed.
Call_winds ==
  /\ Call("cooling")
  /\ blowing' \in WindWorlds
  /\ wphase' = "start"
  /\ UNCHANGED <<visits, writing, nvisited, weight, nkicks, kicks, wind,
                 searchVars, flowVars, holesVars, vars>>

\* hydro_force, which uses what density has predicted.
Call_hydro ==
  /\ Call("hydro")
  /\ fluid' \in HydroWorlds
  /\ hphase' = "start"
  /\ UNCHANGED <<stored, EntVarPred, Pressures, flow, round, at, query, unseen, result, seen,
                 searchVars, holesVars, blowVars, vars>>

LeftOut == Resting /\ Now # "over" /\ stage' = stage + 1
           /\ UNCHANGED <<searchVars, flowVars, holesVars, blowVars, vars>>

Return == stage' = stage + 1

SearchReturns ==
  /\ status = "ended" /\ Return
  /\ world' = [search |-> "none", parts |-> <<>>] /\ status' = "idle" /\ Niteration' = 0
  /\ Hsml' = <<>> /\ Left' = <<>> /\ Right' = <<>> /\ found' = <<>>
  /\ queue' = [r \in 1..NHost |-> {}] /\ redo' = [r \in 1..NHost |-> {}]
  /\ UNCHANGED <<flowVars, holesVars, blowVars, vars>>

HydroReturns ==
  /\ hphase = "ended" /\ Return
  /\ fluid' = [gas |-> <<>>, list |-> FALSE, busy |-> <<>>, slots |-> <<>>, late |-> {}]
  /\ hphase' = "idle" /\ round' = 1
  /\ stored' = <<>> /\ EntVarPred' = <<>> /\ Pressures' = <<>> /\ flow' = <<>>
  /\ at' = <<>> /\ query' = <<>> /\ unseen' = <<>> /\ result' = <<>> /\ seen' = <<>>
  /\ UNCHANGED <<searchVars, holesVars, blowVars, vars>>

BlackholeReturns ==
  /\ bhphase = "ended" /\ Return
  /\ holes' = [bh |-> <<>>, gas |-> <<>>] /\ bhphase' = "idle"
  /\ bh' = <<>> /\ sph' = <<>> /\ BH_SwallowID' = <<>> /\ SPH_SwallowID' = <<>>
  /\ todo' = {} /\ doing' = <<>> /\ out' = <<>>
  /\ UNCHANGED <<searchVars, flowVars, blowVars, vars>>

WindsReturn ==
  /\ wphase = "ended" /\ Return
  /\ blowing' = [star |-> <<>>, gas |-> <<>>] /\ wphase' = "idle"
  /\ visits' = {} /\ writing' = <<>> /\ weight' = <<>> /\ wind' = <<>>
  /\ nvisited' = <<>> /\ nkicks' = <<>> /\ kicks' = <<>>
  /\ UNCHANGED <<searchVars, flowVars, holesVars, vars>>

\* fof_finish; the search in "seeding" may be for the quasar bubbles alone.
fof_finish ==
  /\ phase \in {"seeded", "saved"} \/ (Now = "seeding" /\ phase = "found")
  /\ Return
  /\ P' = [k \in Tasks |-> <<>>] /\ phase' = "idle"
  /\ HaloLabel' = <<>> /\ Heads' = <<>> /\ OldMinID' = <<>> /\ PrimaryActive' = <<>>
  /\ walking' = 0 /\ next' = 1 /\ thread' = [t \in Threads |-> Idle]
  /\ sent' = <<>> /\ queries' = {} /\ distance' = <<>> /\ hsml' = <<>>
  /\ base' = <<>> /\ Group' = <<>> /\ halo' = <<>> /\ GrNr' = <<>> /\ made' = {}
  /\ UNCHANGED <<searchVars, flowVars, holesVars, blowVars>>

Within ==
  \/ /\ Search!HsmlNext
     /\ UNCHANGED <<stage, flowVars, holesVars, blowVars, vars>>
  \/ /\ Flow!HydroNext
     /\ UNCHANGED <<stage, searchVars, holesVars, blowVars, vars>>
  \/ /\ Holes!BHNext
     /\ UNCHANGED <<stage, searchVars, flowVars, blowVars, vars>>
  \/ /\ Blow!WindNext
     /\ UNCHANGED <<stage, searchVars, flowVars, holesVars, vars>>
  \/ /\ \/ fof_find
        \/ Now = "seeding" /\ fof_seed
        \/ Now = "catalogue" /\ fof_save_particles
     /\ UNCHANGED <<stage, searchVars, flowVars, holesVars, blowVars>>

\* The step is over, or the run has stopped ("failed to converge").
PhysicsEnded ==
  /\ \/ Resting /\ Now = "over"
     \/ status = "failed"
     \/ wphase = "failed"
  /\ UNCHANGED physicsVars

PhysicsNext ==
  \/ CallSearch \/ Call_hydro \/ Call_fof \/ Call_blackhole \/ Call_winds \/ LeftOut
  \/ Within
  \/ SearchReturns \/ HydroReturns \/ BlackholeReturns \/ WindsReturn \/ fof_finish
  \/ PhysicsEnded

PhysicsSpec == PhysicsInit /\ [][PhysicsNext]_physicsVars
=============================================================================
