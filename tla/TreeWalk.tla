------------------------------ MODULE TreeWalk ------------------------------
(***************************************************************************)
(* treewalk_run (libgadget/treewalk.c): all ranks walk their trees.  In    *)
(* each round a rank finds, in the top-level tree, the particles that have *)
(* to visit the trees of other ranks, as many as its export tables hold;   *)
(* the counts are exchanged in a collective call, and queries and results  *)
(* in messages.  The ranks do not meet at the end of a round.              *)
(*                                                                         *)
(* The walk over the top-level tree (TopTree) is one step here, which      *)
(* takes some particles and all their entries, as WorkRounds allows.       *)
(***************************************************************************)
EXTENDS Integers, Sequences, FiniteSets, SequencesExt

CONSTANTS
  NTask,
  Work    (* Work[r][p] is the sequence of the ranks particle p of rank r   *)
          (* must be exported to, one per entry of the export table         *)

Ranks == 1..NTask

ASSUME WorkAssumption ==
  /\ NTask \in Nat \ {0}
  /\ Work \in [Ranks -> Seq(Seq(Ranks))]
  /\ \A r \in Ranks : \A p \in DOMAIN Work[r] : r \notin ToSet(Work[r][p])

VARIABLES
  pc,           (* per rank                                                 *)
  left,         (* particles the top-level tree walk has not exported       *)
  table,        (* ExportTable_thread, that of all threads                  *)
  Nexportfull,  (* per rank, the round it is in                             *)
  Ndone,        (* ranks whose tables were not full, as all have agreed     *)
  primaries,    (* per rank, how often it has walked its own tree           *)
  queries,      (* queries[r][q]: on the way from r to q, tag 101922        *)
  imports,      (* ranks whose queries have not been answered yet           *)
  results,      (* results[r][q]: on the way from r to q, tag 101923        *)
  reduced       (* reduced[r][e]: what has been added for entry e of r      *)

vars == <<pc, left, table, Nexportfull, Ndone, primaries, queries, imports,
          results, reduced>>

\* An entry is a particle and one of its exports.
EntriesOf(r, p) == [n \in DOMAIN Work[r][p] |-> <<p, n>>]
Exports(r)      == UNION {ToSet(EntriesOf(r, p)) : p \in DOMAIN Work[r]}
Task(r, e)      == Work[r][e[1]][e[2]]
Unreceived      == <<0, 0>>

Particles(r) == {p \in DOMAIN Work[r] : Work[r][p] # <<>>}
Channels     == [r \in Ranks |-> [q \in Ranks |-> <<>>]]

At(here)     == \A r \in Ranks : pc[r] = here
Go(r, there) == pc' = [pc EXCEPT ![r] = there]

----------------------------------------------------------------------------

Init ==
  /\ pc = [r \in Ranks |-> "toptree"]
  /\ left = [r \in Ranks |-> Particles(r)]
  /\ table = [r \in Ranks |-> <<>>]
  /\ Nexportfull = [r \in Ranks |-> 0]
  /\ Ndone = 0
  /\ primaries = [r \in Ranks |-> 0]
  /\ queries = Channels
  /\ imports = [r \in Ranks |-> {}]
  /\ results = Channels
  /\ reduced = [r \in Ranks |-> [e \in Exports(r) |-> <<>>]]

\* ev_toptree exports at least one particle, or ends the run.
ev_toptree(r) ==
  /\ pc[r] = "toptree"
  /\ \E some \in SUBSET left[r] :
       /\ left[r] # {} => some # {}
       /\ left' = [left EXCEPT ![r] = @ \ some]
       /\ \E order \in SetToSeqs(some) :
            table' = [table EXCEPT ![r] =
              FlattenSeq([k \in DOMAIN order |-> EntriesOf(r, order[k])])]
  /\ Go(r, "counts")
  /\ UNCHANGED <<Nexportfull, Ndone, primaries, queries, imports, results, reduced>>

\* How many of the first k entries of the table are for rank q.
CountFor(r, q, k) == Cardinality({m \in 1..k : Task(r, table[r][m]) = q})

\* The part of the table for rank q: an entry is packed behind those for the
\* same rank before it (real_send_count).
ForTask(r, q) ==
  [n \in 1..CountFor(r, q, Len(table[r])) |->
     table[r][CHOOSE k \in DOMAIN table[r] :
                Task(r, table[r][k]) = q /\ CountFor(r, q, k) = n]]

\* MPI_fill_commbuffer skips ranks with nothing to send.
Targets(r) == {q \in Ranks : ForTask(r, q) # <<>>}

BufferFull(r) == left[r] # {}

\* ev_export_import_counts and ev_ndone: an MPI_Alltoall and an MPI_Allreduce
\* one after the other.
ev_export_import_counts ==
  /\ At("counts")
  /\ imports' = [r \in Ranks |-> {q \in Ranks : ForTask(q, r) # <<>>}]
  /\ Ndone' = Cardinality({r \in Ranks : ~BufferFull(r)})
  /\ pc' = [r \in Ranks |-> "send"]
  /\ UNCHANGED <<left, table, Nexportfull, primaries, queries, results, reduced>>

Message(r, entries) == [round |-> Nexportfull[r], entries |-> entries]

\* ev_send_recv_export_import: receives for the queries of others are posted,
\* then the own queries are sent.
ev_send_recv_export_import(r) ==
  /\ pc[r] = "send"
  /\ queries' = [queries EXCEPT ![r] = [q \in Ranks |->
       IF q \in Targets(r) THEN Append(@[q], Message(r, ForTask(r, q))) ELSE @[q]]]
  /\ Go(r, "primary")
  /\ UNCHANGED <<left, table, Nexportfull, Ndone, primaries, imports, results, reduced>>

\* Only in the first round; in the variant in each.
InEachRound(r) == TRUE

InFirstRound(r) == Nexportfull[r] = 0

\* ev_primary; then ev_recv_export_result posts the receives for the results.
ev_primary(r) ==
  /\ pc[r] = "primary"
  /\ primaries' = [primaries EXCEPT ![r] = IF InFirstRound(r) THEN @ + 1 ELSE @]
  /\ Go(r, "secondary")
  /\ UNCHANGED <<left, table, Nexportfull, Ndone, queries, imports, results, reduced>>

\* ev_secondary: the queries of a rank that have arrived are answered in one
\* message, in whatever order the ranks' queries arrive.
Answer(r, q) ==
  /\ pc[r] = "secondary"
  /\ q \in imports[r] /\ queries[q][r] # <<>>
  /\ queries' = [queries EXCEPT ![q][r] = Tail(@)]
  /\ results' = [results EXCEPT ![r][q] = Append(@, Head(queries[q][r]))]
  /\ imports' = [imports EXCEPT ![r] = @ \ {q}]
  /\ UNCHANGED <<pc, left, table, Nexportfull, Ndone, primaries, reduced>>

ev_secondary(r) == \E q \in imports[r] : Answer(r, q)

\* All imports have been answered.
AllServed(r) == imports[r] = {}

EndSecondary(r) ==
  /\ pc[r] = "secondary" /\ AllServed(r)
  /\ Go(r, "results")
  /\ UNCHANGED <<left, table, Nexportfull, Ndone, primaries, queries, imports, results, reduced>>

\* Where the result of entry k of the table is looked for among those of its
\* rank: the entries are counted again, rank by rank (real_recv_count).
InResults(r, k) == CountFor(r, Task(r, table[r][k]), k)

Result(r, k) ==
  LET received == results[Task(r, table[r][k])][r]
  IN  IF received = <<>> \/ InResults(r, k) > Len(Head(received).entries)
      THEN Unreceived ELSE Head(received).entries[InResults(r, k)]

\* The wait for the results; the variant leaves it out.
NoWait(r) == TRUE

AllReceived(r) == \A q \in Targets(r) : results[q][r] # <<>>

\* ev_reduce_export_result
ev_reduce_export_result(r) ==
  /\ pc[r] = "results" /\ AllReceived(r)
  /\ reduced' = [reduced EXCEPT ![r] = [e \in Exports(r) |->
       @[e] \o LET ks == {k \in DOMAIN table[r] : table[r][k] = e}
               IN  [n \in 1..Cardinality(ks) |-> Result(r, CHOOSE k \in ks : TRUE)]]]
  /\ results' = [q \in Ranks |-> [results[q] EXCEPT ![r] =
       IF @ = <<>> THEN @ ELSE Tail(@)]]
  /\ table' = [table EXCEPT ![r] = <<>>]
  /\ Go(r, "sends")
  /\ UNCHANGED <<left, Nexportfull, Ndone, primaries, queries, imports>>

\* Rank q has posted the receives for its results.
Posted(q) == pc[q] \in {"secondary", "results"}

\* The messages r has sent have been received, or will be without any further
\* step of the program on the other side.
SendsOver(r) ==
  \A q \in Ranks : queries[r][q] = <<>> /\ (results[r][q] # <<>> => Posted(q))

\* The variant ends the rounds when any rank is done.
NoneDone(n) == n = 0

SomeNotDone(n) == n < NTask

\* The wait for the sends and the end of the round.  The wait may end before
\* the other side has posted its receive: MPI may buffer a message.
EndRound(r) ==
  /\ pc[r] = "sends"
  /\ Nexportfull' = [Nexportfull EXCEPT ![r] = @ + 1]
  /\ Go(r, IF SomeNotDone(Ndone) THEN "toptree" ELSE "finished")
  /\ UNCHANGED <<left, table, Ndone, primaries, queries, imports, results, reduced>>

Step(r) ==
  \/ ev_toptree(r) \/ ev_send_recv_export_import(r) \/ ev_primary(r)
  \/ ev_secondary(r) \/ EndSecondary(r) \/ ev_reduce_export_result(r)

Next == ev_export_import_counts \/ \E r \in Ranks : Step(r) \/ EndRound(r)

\* Every rank goes on when it can; a wait for sends ends when they are over.
Fairness ==
  /\ WF_vars(ev_export_import_counts)
  /\ \A r \in Ranks : WF_vars(Step(r)) /\ WF_vars(EndRound(r) /\ SendsOver(r))

Spec == Init /\ [][Next]_vars /\ Fairness

----------------------------------------------------------------------------

\* Every variable has its type; no message is empty.
TypeOK ==
  /\ pc \in [Ranks -> {"toptree", "counts", "send", "primary", "secondary",
                       "results", "sends", "finished"}]
  /\ Ndone \in 0..NTask
  /\ \A r, q \in Ranks : \A m \in ToSet(queries[r][q]) \cup ToSet(results[r][q]) :
       m.entries # <<>>
  /\ \A r \in Ranks : left[r] \subseteq Particles(r) /\ ToSet(table[r]) \subseteq Exports(r)

\* No result is added twice or to another particle than asked for it ("Error in
\* communication: IDs mismatch"), and a rank that goes on to the postprocessing
\* has walked its own tree once and added one result for each export.
AddedOnce ==
  \A r \in Ranks :
    /\ \A e \in Exports(r) : Len(reduced[r][e]) <= 1 /\ ToSet(reduced[r][e]) \subseteq {e}
    /\ primaries[r] <= 1
    /\ pc[r] = "finished" =>
         primaries[r] = 1 /\ \A e \in Exports(r) : Len(reduced[r][e]) = 1

\* Though the ranks do not meet at the end of a round, messages of two rounds,
\* which have the same tags, are never on the way together.
RoundsApart ==
  \A r, q \in Ranks :
    /\ Len(queries[r][q]) <= 1 /\ Len(results[r][q]) <= 1
    /\ \A m \in ToSet(queries[r][q]) : m.round = Nexportfull[r] /\ m.round = Nexportfull[q]
    /\ \A m \in ToSet(results[r][q]) : m.round = Nexportfull[q]

\* The whole walk handles each export once and is over only when none is
\* left on any rank.
Pending == UNION {{r} \X {e \in Exports(r) : reduced[r][e] = <<>>} : r \in Ranks}
Taken   == UNION {{r} \X ToSet(table[r]) : r \in Ranks}

W == INSTANCE WorkRounds WITH
       work     <- UNION {{r} \X Exports(r) : r \in Ranks},
       left     <- Pending \ Taken,
       batch    <- Taken,
       finished <- At("finished")

\* The tree walk implements the rounds of work, and every rank gets through
\* it: no wait is for ever.
DoesAllWork == W!Spec /\ <>At("finished")
=============================================================================
