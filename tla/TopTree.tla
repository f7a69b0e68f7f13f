------------------------------ MODULE TopTree ------------------------------
(***************************************************************************)
(* ev_toptree (libgadget/treewalk.c): the threads of a rank walk the       *)
(* top-level tree for a queue of particles and note in tables of limited   *)
(* size which particles other ranks must see.  When the table of a thread  *)
(* is full the thread stops and remembers where; when all have stopped the *)
(* tables are exchanged, and the next pass goes on from there.             *)
(***************************************************************************)
EXTENDS Integers, Sequences, FiniteSets, SequencesExt

CONSTANTS
  Threads,
  WorkSetSize,
  MaxExports,       (* table entries a particle may need                    *)
  BunchSize,        (* size of the table of a thread                        *)
  ChunksPerThread,  (* 4 in the source: sets the size of the first chunks   *)
  MaxChunk,         (* 1000 in the source                                   *)
  MaxPasses         (* passes a rank makes only because others are not done *)

ASSUME TopTreeAssumption ==
  /\ IsFiniteSet(Threads) /\ Threads # {}
  /\ WorkSetSize \in Nat
  /\ MaxExports \in Nat /\ BunchSize \in Nat
  /\ MaxExports <= BunchSize
  /\ ChunksPerThread \in Nat \ {0} /\ MaxChunk \in Nat \ {0}
  /\ MaxPasses \in Nat

VARIABLES
  exports,       (* per particle of the queue, the entries it needs         *)
  phase,         (* "walk" while the threads run, else what the rank does   *)
  pc,            (* per thread                                              *)
  currentIndex,  (* next particle of the queue nobody has taken             *)
  chnk, k, end,  (* per thread: its chunk, and where it is in it            *)
  chnksz,        (* per thread: size of the next chunk                      *)
  table,         (* ExportTable_thread: particle of each entry              *)
  full,          (* per thread: BufferFull_thread                           *)
  QueueChunkRestart, QueueChunkEnd,
  WorkSetStart,
  Nexportfull,   (* number of the pass                                      *)
  sent           (* per particle, entries exchanged so far                  *)

chunks == <<currentIndex, chnk, k, end, chnksz>>
resume == <<QueueChunkRestart, QueueChunkEnd>>
passes == <<WorkSetStart, Nexportfull, sent>>
vars   == <<exports, phase, pc, chunks, table, full, resume, passes>>

Queue  == 0..WorkSetSize-1
Errors == {"no_progress", "screwed_up"}

Lower(a, b) == IF a < b THEN a ELSE b

FirstChunk ==
  LET size == WorkSetSize \div (ChunksPerThread * Cardinality(Threads))
  IN  Lower(IF size < 1 THEN 1 ELSE size, MaxChunk)

Each(value) == [t \in Threads |-> value]

----------------------------------------------------------------------------

Init ==
  /\ exports \in [Queue -> 0..MaxExports]
  /\ phase = "walk"
  /\ pc = Each("grab")
  /\ currentIndex = 0
  /\ chnk = Each(0) /\ k = Each(0) /\ end = Each(0)
  /\ chnksz = Each(FirstChunk)
  /\ table = Each(<<>>)
  /\ full = Each(FALSE)
  /\ QueueChunkRestart = Each(0)
  /\ QueueChunkEnd = Each(-1)
  /\ WorkSetStart = 0
  /\ Nexportfull = 0
  /\ sent = [i \in Queue |-> 0]

\* Chunks become smaller near the end of the queue, but never empty.
NextSize(last, size) ==
  IF WorkSetSize < last + size * Cardinality(Threads) /\ size >= 2
  THEN size \div 2 ELSE size

\* The variant takes the chunk up again after the particle that did not fit.
RestartAfter(t) == QueueChunkRestart[t] + 1

RestartAt(t) == QueueChunkRestart[t]

\* The old chunk comes first.
MayResume(t) == Nexportfull > 0 /\ QueueChunkEnd[t] > 0

\* The rest of the chunk the pass before broke off, or one of the queue.
Grab(t) ==
  /\ phase = "walk" /\ pc[t] = "grab"
  /\ IF MayResume(t)
     THEN /\ chnk' = [chnk EXCEPT ![t] = RestartAt(t)]
          /\ end' = [end EXCEPT ![t] = QueueChunkEnd[t]]
          /\ QueueChunkEnd' = [QueueChunkEnd EXCEPT ![t] = -1]
          /\ UNCHANGED currentIndex
     ELSE /\ chnk' = [chnk EXCEPT ![t] = currentIndex]
          /\ end' = [end EXCEPT ![t] = Lower(currentIndex + chnksz[t], WorkSetSize)]
          /\ currentIndex' = currentIndex + chnksz[t]
          /\ UNCHANGED QueueChunkEnd
  /\ k' = [k EXCEPT ![t] = chnk'[t]]
  /\ chnksz' = [chnksz EXCEPT ![t] = NextSize(end'[t], @)]
  /\ pc' = [pc EXCEPT ![t] = "visit"]
  /\ UNCHANGED <<exports, phase, table, full, QueueChunkRestart, passes>>

Entries(i) == [n \in 1..exports[i] |-> i]

Room(t) == BunchSize - Len(table[t])

\* Entries of a particle that does not fit are dropped.  The variant leaves
\* them in the table.
PartialEntries(t, i) == table[t] \o [n \in 1..Room(t) |-> i]

WithoutPartial(t, i) == table[t]

\* The particle fits: all its entries are in the table.
Visit(t) ==
  /\ phase = "walk" /\ pc[t] = "visit"
  /\ k[t] < end[t] /\ exports[k[t]] <= Room(t)
  /\ table' = [table EXCEPT ![t] = @ \o Entries(k[t])]
  /\ k' = [k EXCEPT ![t] = @ + 1]
  /\ UNCHANGED <<exports, phase, pc, currentIndex, chnk, end, chnksz, full, resume, passes>>

\* It does not fit: the thread stops.  What the table holds before the dropped
\* entries must be of an earlier particle.
BufferFull(t) ==
  /\ phase = "walk" /\ pc[t] = "visit"
  /\ k[t] < end[t] /\ exports[k[t]] > Room(t)
  /\ phase' = IF Room(t) > 0 /\ Last(table[t]) >= k[t] THEN "screwed_up" ELSE phase
  /\ table' = [table EXCEPT ![t] = WithoutPartial(t, k[t])]
  /\ full' = [full EXCEPT ![t] = TRUE]
  /\ QueueChunkRestart' = [QueueChunkRestart EXCEPT ![t] = k[t]]
  /\ QueueChunkEnd' = [QueueChunkEnd EXCEPT ![t] = end[t]]
  /\ pc' = [pc EXCEPT ![t] = "out"]
  /\ UNCHANGED <<exports, chunks, passes>>

\* The end of a chunk, and of the thread's part if the queue is empty.
ChunkDone(t) ==
  /\ phase = "walk" /\ pc[t] = "visit"
  /\ k[t] >= end[t]
  /\ pc' = [pc EXCEPT ![t] = IF chnk[t] < WorkSetSize THEN "grab" ELSE "out"]
  /\ UNCHANGED <<exports, phase, chunks, table, full, resume, passes>>

AnyFull == \E t \in Threads : full[t]

\* The end of the parallel region.
Join ==
  /\ phase = "walk" /\ \A t \in Threads : pc[t] = "out"
  /\ phase' = IF AnyFull /\ currentIndex = WorkSetStart THEN "no_progress" ELSE "exchange"
  /\ WorkSetStart' = currentIndex
  /\ UNCHANGED <<exports, pc, chunks, table, full, resume, Nexportfull, sent>>

EntriesOf(i) ==
  Cardinality(UNION {{<<t, n>> : n \in {m \in DOMAIN table[t] : table[t][m] = i}} : t \in Threads})

\* The rounds of treewalk_run end when no rank has a full buffer: this one is
\* done, and the others have to make more passes, or have not.
Done == ~AnyFull

Exchange ==
  /\ phase = "exchange"
  /\ \/ phase' = "done" /\ Done
     \/ phase' = "walk" /\ (AnyFull \/ Nexportfull < MaxPasses)
  /\ sent' = [i \in Queue |-> sent[i] + EntriesOf(i)]
  /\ Nexportfull' = Nexportfull + 1
  /\ pc' = Each("grab")
  /\ chnksz' = Each(FirstChunk)
  /\ table' = Each(<<>>)
  /\ full' = Each(FALSE)
  /\ UNCHANGED <<exports, currentIndex, chnk, k, end, resume, WorkSetStart>>

Over == phase \in {"done"} \cup Errors /\ UNCHANGED vars

Step(t) == Grab(t) \/ Visit(t) \/ BufferFull(t) \/ ChunkDone(t)

Next == (\E t \in Threads : Step(t)) \/ Join \/ Exchange \/ Over

\* Threads run until they have stopped, and the rank goes on after them.
Fairness ==
  /\ \A t \in Threads : WF_vars(Step(t))
  /\ WF_vars(Join) /\ WF_vars(Exchange)

Spec == Init /\ [][Next]_vars /\ Fairness

----------------------------------------------------------------------------

\* Every variable has its type.
TypeOK ==
  /\ phase \in {"walk", "exchange", "done"} \cup Errors
  /\ pc \in [Threads -> {"grab", "visit", "out"}]
  /\ \A t \in Threads :
       /\ Len(table[t]) <= BunchSize
       /\ chnksz[t] \in 1..MaxChunk
       /\ QueueChunkEnd[t] \in -1..WorkSetSize
  /\ WorkSetStart <= currentIndex

\* The top-level tree walk in the eyes of the rounds of treewalk_run.
InBatch == {i \in Queue : EntriesOf(i) > 0}

W == INSTANCE WorkRounds WITH
       work     <- {i \in Queue : exports[i] > 0},
       left     <- {i \in Queue : exports[i] > 0 /\ sent[i] = 0 /\ i \notin InBatch},
       batch    <- InBatch,
       finished <- (phase = "done")

\* Every particle is handed over once, whichever thread has it in its chunk
\* and wherever a pass breaks off, and the walk does not end before; and it does
\* end, done or with "Not enough export space to make progress!" (see below).
HandsOverOnce == W!Spec /\ <>(phase \in {"done", "no_progress"})

\* All entries of a particle are handed over in the same round, and in order:
\* "Something screwed up in export queue" never ends the run.
AllEntriesTogether ==
  /\ phase # "screwed_up"
  /\ \A i \in Queue :
       /\ sent[i] \in {0, exports[i]}
       /\ phase = "done" => sent[i] = exports[i]

\* "Not enough export space to make progress!" (treewalk.c:501): the run stops
\* for it only if the pass has exported nothing.  Not so: a pass in which all
\* threads break off in the chunks they took up again, with full tables, has
\* taken nothing from the queue.
StopsOnlyWithoutProgress ==
  phase = "no_progress" => \A t \in Threads : table[t] = <<>>
=============================================================================
