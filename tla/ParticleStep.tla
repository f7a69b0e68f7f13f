---------------------------- MODULE ParticleStep ----------------------------
(***************************************************************************)
(* One rank's particle table through the steps of the main loop with       *)
(* hierarchical gravity: everything that adds, converts, removes or moves  *)
(* particles and slots, and the two arrays that are indexed by particle    *)
(* while that happens, the list of active particles and the stored         *)
(* gravitational accelerations.                                            *)
(***************************************************************************)
EXTENDS Slots

CONSTANTS
  InitTypes,    (* types of the particles in the initial conditions         *)
  Generations   (* stars a gas particle may spawn: at most 14 in the source *)

Gas  == 0
Star == 4
Hole == 5

ASSUME StepAssumption ==
  /\ InitTypes \in Seq(PartTypes)
  /\ Len(InitTypes) \in 1..MaxPart
  /\ {Gas, Star, Hole} \subseteq SlotTypes
  /\ Generations \in Nat
  /\ Generations + 1 < GenWrap

VARIABLES
  phase,      (* the part of the main loop that runs next                   *)
  is_PM,
  store,      (* particles and slots                                        *)
  active,     (* Act.ActiveParticle; unused on a PM step                    *)
  numActive,  (* Act.NumActiveParticle                                      *)
  maxActive,  (* Act.MaxActiveParticle                                      *)
  allocated,  (* length Act.ActiveParticle really has                       *)
  accel,      (* GravAccel: per index, whose acceleration is stored there   *)
  newStars    (* pairs of a new star and the gas particle it forms from     *)

lists    == <<active, numActive, maxActive, allocated>>
stepVars == <<phase, is_PM, store, lists, accel, newStars>>

Steps  == {"begin", "gravity", "seed", "swallow", "sfr", "output", "timesteps"}
Stops  == {"no_particle_space", "no_slot", "no_accel", "no_active_space"}

----------------------------------------------------------------------------

NoOne == <<0, 0>>

\* slots_setup_topology and slots_setup_id
InitRank(i) == Cardinality({j \in 1..i : InitTypes[j] = InitTypes[i]})

InitParticle(i) ==
  [ID |-> <<i, 0>>, Type |-> InitTypes[i], IsGarbage |-> FALSE, Generation |-> 0,
   PI |-> IF InitTypes[i] \in SlotTypes THEN InitRank(i) ELSE NoSlot]

FirstSlots(t) ==
  LET mine == {i \in 1..Len(InitTypes) : InitTypes[i] = t}
  IN  [k \in 1..Cardinality(mine) |->
         LET i == CHOOSE i \in mine : InitRank(i) = k
         IN  [ID |-> <<i, 0>>, ReverseLink |-> i]]

StepInit ==
  /\ phase = "begin"
  /\ is_PM = FALSE
  /\ store = [P |-> [i \in 1..Len(InitTypes) |-> InitParticle(i)],
               slot |-> [t \in SlotTypes |-> FirstSlots(t)],
               maxsize |-> [t \in SlotTypes |-> Len(FirstSlots(t)) + SlotsFree]]
  /\ active = <<>> /\ numActive = 0 /\ maxActive = 0 /\ allocated = 0
  /\ accel = <<>>
  /\ newStars = {}

IsActiveIndex(i) == IF is_PM THEN i <= numActive ELSE i \in ToSet(active)

\* Particles of the active list that its users do not skip.
Active == {i \in LiveIndices(store) : IsActiveIndex(i)}

ActiveGas == {i \in Active : store.P[i].Type = Gas}

----------------------------------------------------------------------------

\* The start of a step: a full domain decomposition, which every PM step has and
\* any other may have, sorts the table, and so does ParticlesAlwaysSorted; a
\* decomposition that only exchanges particles may collect garbage.  Then build_active_particles:
\* particles in increasing order, without garbage.  Those that only gravity
\* acts on are left out of the list here.
TablesAtStart(pm) ==
  {GCSorted(store, order) : order \in
     {o \in SetToSeqs(1..NumPart(store)) : IsTypeOrder(store, o)}}
  \cup (IF pm THEN {} ELSE {store} \cup {GC(store, types) : types \in SUBSET SlotTypes})

BeginStep ==
  /\ phase = "begin"
  /\ is_PM' \in BOOLEAN
  /\ store' \in TablesAtStart(is_PM')
  /\ \E chosen \in SUBSET {i \in LiveIndices(store') : store'.P[i].Type \in {Gas, Hole}} :
       /\ is_PM' => chosen = {}
       /\ active' = InOrder(chosen)
       /\ numActive' = IF is_PM' THEN NumPart(store') ELSE Cardinality(chosen)
       /\ maxActive' = IF is_PM' THEN NumPart(store')
                       ELSE Cardinality(chosen) + MaxPart - NumPart(store')
       /\ allocated' = maxActive'
  /\ phase' = "gravity"
  /\ UNCHANGED <<accel, newStars>>

\* hierarchical_gravity_accelerations stores the accelerations of the top rung
\* by particle index, with room for a new star from each gas slot.  All active
\* particles are taken to be on the top rung.
Gravity ==
  /\ phase = "gravity"
  /\ accel' = [i \in 1..(NumPart(store) + Size(store, Gas)) |->
                 IF i \in Active THEN store.P[i].ID ELSE NoOne]
  /\ phase' = "seed"
  /\ UNCHANGED <<is_PM, store, lists, newStars>>

\* fof_seed: room for the new black holes, then one conversion after the other.
ReservedFor(s, t, n) ==
  IF s.maxsize[t] < Size(s, t) + n
  THEN Reserve(s, [s.maxsize EXCEPT ![t] = @ + (11 * n) \div 10]) ELSE s

SeedBlackHoles ==
  /\ phase = "seed"
  /\ \E chosen \in SUBSET {i \in LiveIndices(store) : store.P[i].Type = Gas} :
       /\ chosen # {} => is_PM
       /\ \E order \in SetToSeqs(chosen) :
            store' = Convert(ReservedFor(store, Hole, Cardinality(chosen)), order, Hole)
  /\ phase' = IF Size(store', Hole) > store'.maxsize[Hole] THEN "no_slot" ELSE "swallow"
  /\ UNCHANGED <<is_PM, lists, accel, newStars>>

\* Active black holes swallow gas: blackhole_feedback_ngbiter.
Swallow ==
  /\ phase = "swallow"
  /\ \E eaten \in SUBSET {i \in LiveIndices(store) : store.P[i].Type = Gas} :
       /\ eaten # {} => \E h \in Active : store.P[h].Type = Hole
       /\ store' = MarkGarbage(store, eaten)
  /\ phase' = "sfr"
  /\ UNCHANGED <<is_PM, lists, accel, newStars>>

----------------------------------------------------------------------------
(* Star formation: each active gas particle once.                          *)

\* find_star_mass: a particle that has spawned its share turns into a star as
\* a whole.  The variant allows one star more.
SpawnsOneMore(i) == store.P[i].Generation <= Generations + 1

MaySpawn(i) == store.P[i].Generation <= Generations

\* The check of slots_split_particle.
TableFull(s) == NumPart(s) >= MaxPart

FormStar ==
  /\ phase = "sfr"
  /\ \E i \in ActiveGas :
       /\ \A pair \in newStars : pair[2] # i
       /\ \/ newStars' = newStars \cup {<<i, i>>} /\ UNCHANGED <<phase, store>>
          \/ /\ MaySpawn(i)
             /\ IF TableFull(store)
                THEN phase' = "no_particle_space" /\ UNCHANGED <<store, newStars>>
                ELSE /\ store' = Split(store, i)
                     /\ newStars' = newStars \cup {<<NumPart(store) + 1, i>>}
                     /\ UNCHANGED phase
  /\ UNCHANGED <<is_PM, lists, accel>>

\* sfr_reserve_slots: room for the star slots.  The list of active particles
\* is moved out of the way and allocated again.
StarSlotsShort(n) == Size(store, Star) + n >= store.maxsize[Star]

RoomForStars(n) ==
  IF StarSlotsShort(n)
  THEN Reserve(store, [store.maxsize EXCEPT ![Star] = @ + n]) ELSE store

\* Only stars that were split off are new particles; the variant adds all.
AllNew(queue) == queue

Spawned(queue) == SelectAt(queue, {k \in DOMAIN queue : queue[k][1] # queue[k][2]})

\* make_particle_star for each new star, with the n-th slot behind those in
\* use, then add_new_particle_to_active and copy_gravaccel_new_particle.  The
\* queue of new stars is in the order of the threads.
MakeStars ==
  /\ phase = "sfr"
  /\ \E queue \in SetToSeqs(newStars) :
       LET n        == Len(queue)
           first    == Size(store, Star)
           children == Spawned(queue)
           grown    == numActive + Len(children)
       IN  /\ store' = Convert(RoomForStars(n), [k \in DOMAIN queue |-> queue[k][1]], Star)
           /\ accel' = [i \in DOMAIN accel |->
                IF \E c \in ToSet(children) : c[1] = i
                THEN accel[(CHOOSE c \in ToSet(children) : c[1] = i)[2]]
                ELSE accel[i]]
           /\ active' = IF is_PM THEN active
                        ELSE active \o [k \in 1..Len(children) |-> children[k][1]]
           /\ numActive' = grown
           /\ allocated' = IF ~is_PM /\ StarSlotsShort(n)
                           THEN numActive + MaxPart - NumPart(store) ELSE allocated
           /\ phase' = IF first + n > store'.maxsize[Star] THEN "no_slot"
                       ELSE IF ~is_PM /\ grown > maxActive THEN "no_active_space"
                       ELSE IF \E c \in ToSet(children) : c[1] \notin DOMAIN accel
                       THEN "no_accel" ELSE "output"
  /\ newStars' = {}
  /\ UNCHANGED <<is_PM, maxActive>>

----------------------------------------------------------------------------

\* The active list shrinks with the table.
CountAfterGC(clean) == IF HasGarbage(store) THEN NumPart(clean) ELSE numActive

\* An output collects the garbage first.  If the particles of the groups were
\* exchanged to write them, the table is sorted twice and each particle is
\* back on its rank.
Output ==
  /\ phase = "output"
  /\ \/ UNCHANGED <<store, numActive>>
     \/ /\ is_PM
        /\ \E sorted \in BOOLEAN :
           LET clean == GC(store, {}) IN
           /\ numActive' = CountAfterGC(clean)
           /\ IF sorted
              THEN \E order \in {o \in SetToSeqs(1..NumPart(clean)) : IsTypeOrder(clean, o)} :
                     store' = GCSorted(clean, order)
              ELSE store' = clean
  /\ phase' = "timesteps"
  /\ UNCHANGED <<is_PM, active, maxActive, allocated, accel, newStars>>

\* hierarchical_gravity_and_timesteps reads the stored accelerations; then
\* the list of active particles is freed.
Timesteps ==
  /\ phase = "timesteps"
  /\ active' = <<>> /\ numActive' = 0 /\ maxActive' = 0 /\ allocated' = 0
  /\ accel' = <<>>
  /\ phase' = "begin"
  /\ UNCHANGED <<is_PM, store, newStars>>

Stopped == phase \in Stops /\ UNCHANGED stepVars

StepNext ==
  \/ BeginStep \/ Gravity \/ SeedBlackHoles \/ Swallow \/ FormStar
  \/ MakeStars \/ Output \/ Timesteps \/ Stopped

StepSpec == StepInit /\ [][StepNext]_stepVars

----------------------------------------------------------------------------

\* Every variable has its type.
StepTypeOK ==
  /\ phase \in Steps \cup Stops
  /\ is_PM \in BOOLEAN
  /\ NumPart(store) <= MaxPart
  /\ \A i \in 1..NumPart(store) :
       /\ store.P[i].Type \in PartTypes
       /\ store.P[i].PI \in Nat
       /\ store.P[i].Generation \in 0..GenWrap-1
  /\ numActive \in Nat /\ maxActive \in Nat /\ allocated \in Nat
  /\ newStars \subseteq (1..NumPart(store)) \X (1..NumPart(store))

\* Whatever is seeded, swallowed, spawned, converted and collected, in any
\* order: where no new star waits for its slot, every particle has a slot
\* with its own data (slots_check_id_consistency), and a slot without a particle
\* is marked, so that garbage collection, which does not reset the marks outside
\* of DEBUG builds, can rely on that.  There always is a slot: what is reserved
\* before is enough.
SlotsAlwaysMatch ==
  /\ newStars = {} => SlotsMatch(store) /\ OrphansMarked(store)
  /\ phase \notin {"no_slot", "no_accel"}

\* The 4 bits of the generation never wrap in a way that gives two particles
\* one ID (domain_test_id_uniqueness).
IDsAlwaysUnique == IDsUnique(store)

\* Between the start of a step and its end, the active list holds no particle
\* twice, every entry is a particle of the table, and there are no more than
\* MaxActiveParticle of them, the length the list had when it was built: the
\* check "Tried to add ... active particles" never stops the run.  The check
\* does not know of a list that is shorter by then (ActiveListFits).  On a PM
\* step the loops over the active particles, which run over the first
\* NumActiveParticle entries of the table, reach all of it.
ActiveListHolds ==
  /\ phase \notin {"begin", "gravity"} /\ ~is_PM =>
       /\ Len(active) = numActive
       /\ \A n \in 1..numActive : active[n] \in 1..NumPart(store)
       /\ \A m, n \in 1..numActive : active[m] = active[n] => m = n
  /\ phase # "no_active_space"
  /\ phase = "timesteps" /\ is_PM => numActive = NumPart(store)

\* "We allocate as much space for active particles as we have space for
\* particles" (sfr_eff.c:1128): no entry is written beyond the end of the list.
\* Not so once sfr_reserve_slots (sfr_eff.c:441) has allocated it again, which
\* leaves room for the particles the table has room for now, after the split,
\* and not for those the split has already added.
ActiveListFits == ~is_PM => Len(active) <= allocated

\* The stored acceleration of each active particle is that of the particle
\* itself, or of the gas particle it was spawned by: "we can re-use that as
\* nothing has been drifted since then" (hierarchical_gravity_and_timesteps).
StoredAccelIsOwn ==
  phase = "timesteps" => \A i \in Active :
    i \in DOMAIN accel /\ accel[i][1] = store.P[i].ID[1]

----------------------------------------------------------------------------
(* Values for TLC: two gas particles and a black hole.                     *)
MCThree == <<0, 0, 5>>
MCSlots == {0, 4, 5}
=============================================================================
