----------------------------- MODULE SnapshotIO -----------------------------
(***************************************************************************)
(* A snapshot is written by some ranks and read by others (petaio.c,       *)
(* init.c).  Each property of each particle type is a block of a BigFile,  *)
(* written and read by CollectiveIO.  A failed access ends the program; it *)
(* may also die at any time.  It is then started again, comes to the same  *)
(* place, and writes over what it finds, until the snapshot is complete.   *)
(* Then a run on another number of ranks starts from it.                   *)
(***************************************************************************)
EXTENDS CollectiveIO

CONSTANTS
  Particles,           \* the particles of each writing rank: sequences
  Writers,             \* IO.NumWriters of each start
  ReadTasks,           \* ranks of the run that reads
  BytesPerFile, WritersPerFile, MinNumWriters, EnableAggregatedIO

VARIABLES
  pc,
  starts,
  parts,               \* particle table of each rank
  NTotal,              \* particles of each type, of all ranks
  block,               \* entry of the IO table
  header               \* lines of the attribute file of block Header

vars == <<ioVars, pc, starts, parts, NTotal, block, header>>

Types == {0, 1, 4}

Particle == [Type : Types, ID : Nat, Density : Nat, Entropy : Nat, DelayTime : Nat,
             IsGarbage : BOOLEAN]

WriteTasks == Cardinality(DOMAIN Particles)

\* IO.NumWriters is 0 when each rank writes.
ASSUME SnapshotAssumption ==
  /\ DOMAIN Particles # {} /\ IsFiniteSet(DOMAIN Particles)
  /\ DOMAIN Particles = 0..(WriteTasks - 1)
  /\ \A r \in DOMAIN Particles : Particles[r] \in Seq(Particle)
  /\ Writers \in Seq(Nat)
  /\ {ReadTasks, BytesPerFile, WritersPerFile, AggThreshold, CHUNK} \subseteq Nat \ {0}
  /\ MinNumWriters \in Nat /\ Faults \in Nat
  /\ EnableAggregatedIO \in BOOLEAN

Entry(ptype, name, setter, required) ==
  [ptype |-> ptype, name |-> name, setter |-> setter, required |-> required]

\* Mutant: the blocks are in the order of their names.
UnorderedIOTable ==
  <<Entry(0, "DelayTime", TRUE, FALSE), Entry(0, "InternalEnergy", TRUE, TRUE),
    Entry(0, "Density", TRUE, TRUE), Entry(0, "ID", TRUE, TRUE),
    Entry(1, "ID", TRUE, TRUE), Entry(1, "Potential", FALSE, FALSE),
    Entry(4, "ID", TRUE, TRUE)>>

\* register_io_blocks, for some of the blocks: properties of all types, then
\* those of gas.  The density is registered before the energy.
Registered ==
  <<Entry(0, "ID", TRUE, TRUE), Entry(1, "ID", TRUE, TRUE),
    Entry(1, "Potential", FALSE, FALSE), Entry(4, "ID", TRUE, TRUE),
    Entry(0, "Density", TRUE, TRUE), Entry(0, "InternalEnergy", TRUE, TRUE),
    Entry(0, "DelayTime", TRUE, FALSE)>>

\* order_by_type: blocks of a type are together, in the order of registration.
OfType(ptype) ==
  SelectAt(Registered, {i \in DOMAIN Registered : Registered[i].ptype = ptype})

IOTable == OfType(0) \o OfType(1) \o OfType(4)

\* petaio_build_selection: indices of particles.
petaio_build_selection(r, ptype) ==
  InOrder({i \in DOMAIN parts[r] : ~parts[r][i].IsGarbage /\ parts[r][i].Type = ptype})

\* The getters.  The energy of gas is its entropy times a power of its
\* density, here the first.
Getter(name, p) == CASE name = "ID"             -> p.ID
                     [] name = "Potential"      -> p.ID
                     [] name = "Density"        -> p.Density
                     [] name = "InternalEnergy" -> p.Entropy * p.Density
                     [] name = "DelayTime"      -> p.DelayTime

\* The setters: the entropy is found with the density the particle has.
Setter(name, p, value) ==
  CASE name = "ID"             -> [p EXCEPT !.ID = value]
    [] name = "Density"        -> [p EXCEPT !.Density = value]
    [] name = "InternalEnergy" ->
         [p EXCEPT !.Entropy = IF p.Density = 0 THEN 0 ELSE value \div p.Density]
    [] name = "DelayTime"      -> [p EXCEPT !.DelayTime = value]

\* petaio_build_buffer.
Buffer(r, e) == LET selection == petaio_build_selection(r, e.ptype)
                IN [i \in DOMAIN selection |-> Getter(e.name, parts[r][selection[i]])]

\* petaio_readout_buffer: the rows belong to the particles of the type, in
\* the order in which these are in the table.
Readout(table, e, data) ==
  [i \in DOMAIN table |->
     IF table[i].Type = e.ptype
     THEN Setter(e.name, table[i],
                 data[Cardinality({j \in 1..i : table[j].Type = e.ptype})])
     ELSE table[i]]

\* petaio_save_block: how many files and how many writers, for n rows of a
\* byte each.
FilesAndWriters(n) ==
  LET NumWriters == IF Writers[starts] = 0 THEN NTask ELSE Writers[starts]
      files    == (n + BytesPerFile - 1) \div BytesPerFile
      writers  == Min({NumWriters, files * WritersPerFile})
      raised   == (MinNumWriters + WritersPerFile - 1) \div WritersPerFile
  IN [writers |-> IF EnableAggregatedIO THEN Max({writers, MinNumWriters})
                  ELSE NumWriters,
      files   |-> IF n = 0 THEN 0
                  ELSE IF ~EnableAggregatedIO THEN NumWriters
                  ELSE IF writers < MinNumWriters THEN raised ELSE files]

Counts(ptype) == [r \in Ranks |-> Len(petaio_build_selection(r, ptype))]

----------------------------------------------------------------------------

NoOp       == [kind |-> "none", name |-> <<0, "ID">>, count |-> <<>>, concurrency |-> 1,
            seggrp |-> [totalsize |-> 0]]

Init ==
  /\ NTask = WriteTasks
  /\ op = NoOp /\ phase = "idle" /\ left = {} /\ bb = <<>> /\ rows = <<>>
  /\ rt = <<>> /\ group = <<>>
  /\ disk = [n \in {} |-> 0] /\ faults = 0
  /\ pc = "dead" /\ starts = 0
  /\ parts = Particles
  /\ NTotal = [t \in Types |-> 0] /\ block = 0 /\ header = <<>>

\* A start of the run that writes; or another one after a failure.
StartAgain ==
  /\ pc = "dead"
  /\ starts < Len(Writers)
  /\ starts' = starts + 1
  /\ pc' = "header"
  /\ phase' = "idle"
  /\ UNCHANGED <<NTask, op, left, bb, rows, rt, group, disk, faults, parts,
                 NTotal, block, header>>

\* The attributes of the header, in order of their names.
TotNumPart     == 1
TotNumPartInit == 2

\* petaio_save_snapshot, up to petaio_write_header.  An error ends the run,
\* and what fclose loses leaves a block without attributes.
WriteHeader ==
  /\ pc = "header"
  /\ NTotal' = [t \in Types |-> SumFunction(Counts(t))]
  /\ LET counts == <<NTotal'[0], NTotal'[1], NTotal'[4]>>
         attrs  == attrset_set_attr(attrset_set_attr(<<>>, TotNumPart, counts),
                                    TotNumPartInit, counts)
     IN \E e \in {0, -1, 1} :
          /\ TryBuffered(e)
          /\ header' = IF e = 0 THEN attrset_write_attr_set_v2(attrs) ELSE <<>>
          /\ pc' = IF e = -1 THEN "dead" ELSE "saving"
  /\ block' = 1
  /\ UNCHANGED <<NTask, io, disk, starts, parts>>

\* Types that no particle has are left out, but not stars and black holes.
IsWritten(e) == NTotal[e.ptype] > 0 \/ e.ptype >= 4

Idle == phase \in {"idle", "closed"}

\* The loop over the IO table in petaio_save_snapshot.
SaveBlock ==
  LET e == IOTable[block] IN
  /\ pc = "saving" /\ Idle
  /\ block <= Len(IOTable)
  /\ block' = block + 1
  /\ IF IsWritten(e)
     THEN Call("write", <<e.ptype, e.name>>, Counts(e.ptype),
               FilesAndWriters(NTotal[e.ptype]).writers,
               [r \in Ranks |-> Buffer(r, e)])
     ELSE UNCHANGED ioVars
  /\ UNCHANGED <<pc, starts, parts, NTotal, header>>

\* Only now is the snapshot listed (RunControl).
Saved ==
  /\ pc = "saving" /\ Idle
  /\ block > Len(IOTable)
  /\ pc' = "saved"
  /\ phase' = "idle"
  /\ UNCHANGED <<NTask, op, left, bb, rows, rt, group, disk, faults, starts,
                 parts, NTotal, block, header>>

\* A collective step, with the number of files petaio_save_block asks for.
Collective ==
  /\ pc \in {"saving", "reading"}
  /\ Step(FilesAndWriters(totalsize).files)
  /\ UNCHANGED <<pc, starts, parts, NTotal, block, header>>

\* endrun after an error, of all ranks, except when a block that is not
\* required cannot be opened.
Failed ==
  /\ phase = "raised"
  /\ ~(pc = "reading" /\ ~IOTable[block].required /\ bb = <<>>)
  /\ pc' = IF pc = "saving" THEN "dead" ELSE "down"
  /\ phase' = "idle"
  /\ UNCHANGED <<NTask, op, left, bb, rows, rt, group, disk, faults, starts,
                 parts, NTotal, block, header>>

Crash ==
  /\ pc = "saving"
  /\ pc' = "dead"
  /\ phase' = "idle"
  /\ UNCHANGED <<NTask, op, left, bb, rows, rt, group, disk, faults, starts,
                 parts, NTotal, block, header>>

----------------------------------------------------------------------------
(* The restart                                                             *)

\* init_alloc_particle_slot_memory: every type is divided evenly.
NLocal(r, total, n) == ((r + 1) * total) \div n - (r * total) \div n

Unset(t) == [Type |-> t, ID |-> 0, Density |-> 0, Entropy |-> 0,
             DelayTime |-> 0, IsGarbage |-> FALSE]
\* slots_setup_topology: the table is in order of type.
Topology(r, total, n) ==
  LET OfKind(t) == [i \in 1..NLocal(r, total[t], n) |-> Unset(t)]
  IN  OfKind(0) \o OfKind(1) \o OfKind(4)

\* petaio_read_header_internal; the run ends if the attribute is not there.
ReadNTotal ==
  LET counts == attrset_get_attr(attrset_read_attr_set_v2(header), TotNumPart, 3, <<0, 0, 0>>)
  IN [t \in Types |-> counts[IF t = 4 THEN 3 ELSE t + 1]]

NoHeader ==
  /\ pc = "saved"
  /\ attrset_lookup_attr(attrset_read_attr_set_v2(header), TotNumPart) = {}
  /\ pc' = "down"
  /\ UNCHANGED <<ioVars, starts, parts, NTotal, block, header>>

BeginRead ==
  /\ pc = "saved"
  /\ Parses(header)
  /\ attrset_lookup_attr(attrset_read_attr_set_v2(header), TotNumPart) # {}
  /\ NTask' = ReadTasks
  /\ NTotal' = ReadNTotal
  /\ parts' = [r \in 0..(ReadTasks - 1) |-> Topology(r, ReadNTotal, ReadTasks)]
  /\ block' = 1
  /\ bb' = <<>>
  /\ pc' = "reading"
  /\ UNCHANGED <<op, phase, left, rows, rt, group, disk, faults, starts, header>>

\* The loop over the IO table in petaio_read_snapshot.
ReadBlock ==
  LET e == IOTable[block] IN
  /\ pc = "reading" /\ phase = "idle"
  /\ block <= Len(IOTable)
  /\ IF NTotal[e.ptype] > 0 /\ e.setter
     THEN /\ LET n == [r \in Ranks |-> Len(petaio_build_selection(r, e.ptype))]
             IN Call("read", <<e.ptype, e.name>>, n, Writers[starts],
                     [r \in Ranks |-> [i \in 1..n[r] |-> 0]])
          /\ UNCHANGED block
     ELSE block' = block + 1 /\ UNCHANGED ioVars
  /\ UNCHANGED <<pc, starts, parts, NTotal, header>>

\* The setters.
ReadOut ==
  /\ pc = "reading"
  /\ phase = "closed"
  /\ parts' = [r \in Ranks |-> Readout(parts[r], IOTable[block], rows[r])]
  /\ block' = block + 1
  /\ bb' = <<>>
  /\ phase' = "idle"
  /\ UNCHANGED <<NTask, op, left, rows, rt, group, disk, faults, pc, starts, NTotal,
                 header>>

\* A block that is not required cannot be opened: its values stay unset.
SkipBlock ==
  /\ pc = "reading"
  /\ phase = "raised"
  /\ ~IOTable[block].required /\ bb = <<>>
  /\ block' = block + 1
  /\ phase' = "idle"
  /\ UNCHANGED <<NTask, op, left, bb, rows, rt, group, disk, faults, pc, starts,
                 parts, NTotal, header>>

Restored ==
  /\ pc = "reading" /\ phase = "idle"
  /\ block > Len(IOTable)
  /\ pc' = "restored"
  /\ UNCHANGED <<ioVars, starts, parts, NTotal, block, header>>

Work == \/ WriteHeader \/ SaveBlock \/ Collective \/ Saved \/ Failed
        \/ NoHeader \/ BeginRead \/ ReadBlock \/ ReadOut \/ SkipBlock \/ Restored

\* The end: everything else that stops is a deadlock.
Ended ==
  /\ pc \in {"restored", "down"} \/ (pc = "dead" /\ starts = Len(Writers))
  /\ UNCHANGED vars

Next == StartAgain \/ Work \/ Crash \/ Ended

Spec == Init /\ [][Next]_vars

----------------------------------------------------------------------------
(* Properties                                                              *)

TypeOK ==
  /\ phase \in {"idle", "create", "open", "truncate", "transfer", "close",
                "closed", "raised"}
  /\ pc \in {"dead", "header", "saving", "saved", "reading", "restored", "down"}
  /\ left \subseteq Ranks
  /\ faults \in 0..Faults /\ starts \in 0..Len(Writers)
  /\ \A n \in DOMAIN disk :
       /\ DOMAIN disk[n].files = DOMAIN disk[n].fsize
       /\ \A f \in DOMAIN disk[n].files : Len(disk[n].files[f]) <= disk[n].fsize[f]
  /\ phase = "transfer" =>
       \A g \in DOMAIN group : group[g].segment \in Nat /\ group[g].todo \in Nat

\* Whatever a run on any number of ranks restores is what was saved: every
\* particle that was not garbage, once, with the values of one particle in
\* all its properties.  An optional block that cannot be opened is lost.
RestartRoundTrip ==
  LET Kept(p)  == IF faults = 0 THEN p ELSE [p EXCEPT !.DelayTime = 0]
      Live(t, R) == FoldLeft(LAMBDA b, r : b \o SelectSeq(t[r], LAMBDA p : ~p.IsGarbage),
                             <<>>, [i \in 1..Cardinality(R) |-> i - 1])
      AsBag(s) == LET values == {Kept(s[i]) : i \in DOMAIN s}
                  IN [v \in values |-> Cardinality({i \in DOMAIN s : Kept(s[i]) = v})]
  IN pc = "restored" =>
       AsBag(Live(parts, 0..(ReadTasks - 1))) = AsBag(Live(Particles, DOMAIN Particles))

\* The blocks of a snapshot.
Written == {<<e.ptype, e.name>> : e \in {f \in Range(IOTable) : IsWritten(f)}}

\* The rows of a snapshot that counts as saved are complete: each block has
\* the files of its layout, every row of them has been written by this run,
\* and where there is a header its checksums are those of the data.  So no
\* error that a rank meets in any collective call is lost
\* (big_file_mpi_broadcast_anyerror), and nothing of an interrupted run
\* shines through.
RowsAreComplete ==
  pc = "saved" =>
    /\ Written \subseteq DOMAIN disk
    /\ \A name \in Written :
         /\ SizeOf(disk[name].fsize) = NTotal[name[1]]
         /\ \A f \in DOMAIN disk[name].files :
              /\ Len(disk[name].files[f]) = disk[name].fsize[f]
              /\ \A j \in DOMAIN disk[name].files[f] : disk[name].files[f][j] # 0
              /\ disk[name].header =>
                   disk[name].fchecksum[f] = SumFunction(disk[name].files[f])

\* And it can be read: the snapshot's header and those of its blocks are there
\* ("Failed to close block", petaio_save_block and petaio_write_header, when
\* they cannot be written).  It does not hold: what fclose returns is not
\* looked at.
SavedIsReadable ==
  pc = "saved" => header # <<>> /\ \A name \in Written : disk[name].header

\* Groups whose leader has rows of the block to move.
AtWork == {g \in DOMAIN group : group[g].moving /\ group[g].todo > 0 /\ group[g].e = 0}

\* These rows.
RowsLeft(g) ==
  LET at == foffset(bb[0].fsize, group[g].ptr.fileid) + group[g].ptr.roffset
  IN  at..(at + group[g].todo - 1)

\* Not more ranks than NumWriters access the files of a block at once
\* (_throttle_action), and no two of them write the same row.
WritersApart ==
  phase = "transfer" =>
    /\ Cardinality(AtWork) <= op.concurrency
    /\ \A g, h \in AtWork : g # h => RowsLeft(g) \cap RowsLeft(h) = {}
=============================================================================
