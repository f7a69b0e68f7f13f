---------------------------- MODULE CollectiveIO ----------------------------
(***************************************************************************)
(* All ranks write or read one block of a BigFile together                 *)
(* (bigfile-mpi.c, mp-mpiu.c).  Rank 0 makes the directory and the header, *)
(* each rank empties its share of the files, the ranks are divided into    *)
(* groups of segments, and in each group one segment after the other moves *)
(* its rows through one rank, its leader, chunk by chunk.                  *)
(*                                                                         *)
(* Any access to the file system may fail, Faults times.  Rows are written *)
(* without a buffer (_big_file_open_a_file), so that fwrite knows whether  *)
(* they are in the file.  Headers and attributes go through a buffer that  *)
(* fclose empties, and nobody looks at what it returns: they may be lost   *)
(* without an error.  A row is a number, and 0 is a row of a file that     *)
(* nobody has written.                                                     *)
(***************************************************************************)
EXTENDS Selection, SequencesExt, FiniteSetsExt, Functions

(***************************************************************************)
(* A block of a BigFile (bigfile.c): a column of rows, divided over a      *)
(* number of files, with a header that gives the size and the checksum of  *)
(* each file, and a set of attributes.  Rows are counted from 0, files     *)
(* from 1.                                                                 *)
(***************************************************************************)

----------------------------------------------------------------------------
(* Layout                                                                  *)

\* big_file_mpi_create_block: rows are divided evenly, some files may get none.
FileSizes(size, Nfile) ==
  [i \in 1..Nfile |-> (size * i) \div Nfile - (size * (i - 1)) \div Nfile]

\* foffset[i] of the code; foffset(fsize, Len(fsize) + 1) is the size of the block.
foffset(fsize, i) == SumFunctionOnSet(fsize, 1..(i - 1))
SizeOf(fsize)     == foffset(fsize, Len(fsize) + 1)

\* big_block_seek: bisection for the last file that does not begin after
\* offset.  A turn of its loop, and left and right after n turns, of which no
\* more are needed than there are files.
Halved(fsize, offset, w) ==
  LET mid == (w.right - w.left) \div 2 + w.left
  IN IF w.right <= w.left + 1 THEN w
     ELSE IF foffset(fsize, mid) <= offset THEN [w EXCEPT !.left = mid]
                                           ELSE [w EXCEPT !.right = mid]

Bisected(fsize, offset) ==
  LET w[n \in 0..Len(fsize)] ==
        IF n = 0 THEN [left |-> 1, right |-> Len(fsize) + 1]
        ELSE Halved(fsize, offset, w[n - 1])
  IN  w[Len(fsize)]

big_block_seek(fsize, offset) ==
  LET file == IF Len(fsize) = 0 THEN 1 ELSE Bisected(fsize, offset).left
  IN [fileid |-> file,
      roffset |-> IF Len(fsize) = 0 THEN 0 ELSE offset - foffset(fsize, file),
      ok |-> offset <= SizeOf(fsize)]

\* One turn of the loop in big_block_read and big_block_write: at most CHUNK
\* rows, and never beyond the end of the file ptr is in.
ChunkSize(fsize, ptr, left, CHUNK) ==
  Min({CHUNK, left, fsize[ptr.fileid] - ptr.roffset})

\* The test before the loop: "Writing beyond the block".
Fits(fsize, offset, n) == offset + n <= SizeOf(fsize)

\* sysvsum, for a chunk of rows.
sysvsum(sum, rows) == sum + SumFunction(rows)

----------------------------------------------------------------------------
(* Headers and attributes                                                  *)

\* The list of attributes is kept sorted by name: attrset_add_attr sorts it
\* and attrset_lookup_attr searches it by bisection.
attrset_lookup_attr(attrs, name) == {i \in DOMAIN attrs : attrs[i].name = name}

\* attrset_set_attr: what is there under this name is removed first.
attrset_set_attr(attrs, name, data) ==
  SelectAt(attrs, {i \in DOMAIN attrs : attrs[i].name < name})
    \o <<[name |-> name, data |-> data]>>
    \o SelectAt(attrs, {i \in DOMAIN attrs : attrs[i].name > name})

\* attrset_write_attr_set_v2: a line has the name, the length and the data.
attrset_write_attr_set_v2(attrs) ==
  [i \in DOMAIN attrs |-> <<attrs[i].name, Len(attrs[i].data), attrs[i].data>>]

\* attrset_read_attr_set_v2.  Without data the next word of the line is taken
\* for them, so such a line fails.
Parses(lines) == \A i \in DOMAIN lines : lines[i][2] > 0
attrset_read_attr_set_v2(lines) ==
  LET read[i \in 0..Len(lines)] ==
        IF i = 0 THEN <<>> ELSE attrset_set_attr(read[i - 1], lines[i][1], lines[i][3])
  IN  read[Len(lines)]

\* attrset_get_attr: the default when the name is not there, or the length
\* differs.
attrset_get_attr(attrs, name, nmemb, default) ==
  LET found == {i \in attrset_lookup_attr(attrs, name) : Len(attrs[i].data) = nmemb}
  IN IF found = {} THEN default ELSE attrs[Min(found)].data

-----------------------------------------------------------------------------
CONSTANTS
  AggThreshold,        \* a segment has not much more rows than this
  CHUNK,               \* rows that are moved at a time
  Faults               \* bound: how many accesses fail

VARIABLES
  NTask,
  op,                  \* the call: [kind, name, count, concurrency, seggrp]
  phase,
  left,                \* ranks that still have to empty their files
  bb,                  \* the BigBlock of each rank: [fsize, fchecksum, dirty]
  rows,                \* the array of each rank
  rt,                  \* the return code of each rank
  group,               \* the loop of each group in _throttle_action
  disk,                \* of each block: [fsize, fchecksum, files], and whether
                       \* its header is there
  faults

io    == <<op, phase, left, bb, rows, rt, group>>
ioVars == <<NTask, io, disk, faults>>

Ranks == 0..(NTask - 1)

\* An access to the file system succeeds (0) or fails (-1).
Try(e) == /\ e \in {0, -1}
          /\ e = -1 => faults < Faults
          /\ faults' = faults - e

\* A file that is written through a buffer (big_block_flush,
\* attrset_write_attr_set_v2): it succeeds, fails (-1), or is found to have
\* failed by fclose, and is empty (1).
TryBuffered(e) == /\ e \in {0, -1, 1}
                  /\ e # 0 => faults < Faults
                  /\ faults' = IF e = 0 THEN faults ELSE faults + 1

\* Mutant: an error of the first rank is taken for no error.
SwallowedError(ranks, err) ==
  LET failed == {r \in ranks \ {Min(ranks)} : err[r] # 0}
  IN IF failed = {} THEN 0 ELSE err[Max(failed)]

\* big_file_mpi_broadcast_anyerror: the code of the last rank that failed.
AnyError(ranks, err) ==
  LET failed == {r \in ranks : err[r] # 0}
  IN IF failed = {} THEN 0 ELSE err[Max(failed)]

----------------------------------------------------------------------------
(* The segmenter                                                           *)

\* MPIU_Segmenter_collect_sizes.
SumOf(count, ranks) == SumFunctionOnSet(count, ranks)
collect_sizes(count) ==
  [myoffset  |-> [r \in Ranks |-> SumOf(count, 0..(r - 1))],
   totalsize |-> SumOf(count, Ranks)]

\* The limit is in bytes in the code and is compared with rows: a row is one
\* byte here.
avgsegsize(totalsize, concurrency) ==
  Min({Max({totalsize \div concurrency, 1}), AggThreshold})

\* _MPIU_Segmenter_assign_colors: a color ends with the rank that makes it too
\* large.  These are the last ranks of the colors.
ColorEnds(count, avg) ==
  LET ends[n \in 0..NTask] ==
        IF n = 0 THEN {}
        ELSE IF SumOf(count, Max(ends[n - 1] \cup {-1}) + 1 .. n - 1) > avg
             THEN ends[n - 1] \cup {n - 1} ELSE ends[n - 1]
  IN  ends[NTask]
Color(ends, r) == Cardinality({e \in ends : e < r})

\* Segments are divided evenly among the groups; some groups may have none.
GroupOf(segment, Nsegments, concurrency) == (segment * concurrency) \div Nsegments

\* MPIU_Segmenter_init, with the offsets of the ranks.  Ranks that have no
\* rows are in a segment and a group of their own.
Segmenter_init(count, concurrency) ==
  LET sizes     == collect_sizes(count)
      ends      == ColorEnds(count, avgsegsize(sizes.totalsize, concurrency))
      Nsegments == Color(ends, NTask - 1) + 1
      segment   == [r \in Ranks |-> IF count[r] = 0 THEN NTask + 1 ELSE Color(ends, r)]
  IN [ThisSegment |-> segment,
      GroupID     |-> [r \in Ranks |-> IF count[r] = 0 THEN concurrency + 1
                                       ELSE GroupOf(segment[r], Nsegments, concurrency)],
      myoffset    |-> sizes.myoffset,
      totalsize   |-> sizes.totalsize]

Groups           == Range(op.seggrp.GroupID)
Members(g)       == {r \in Ranks : op.seggrp.GroupID[r] = g}
segment_start(g) == Min({op.seggrp.ThisSegment[r] : r \in Members(g)})
segment_end(g)   == Max({op.seggrp.ThisSegment[r] : r \in Members(g)}) + 1
InSegment(g, s)  == {r \in Members(g) : op.seggrp.ThisSegment[r] = s}
myoffset(r)      == op.seggrp.myoffset[r]
totalsize        == op.seggrp.totalsize

\* MPIU_GetLoc: the first of the ranks with the least data.
segment_leader(ranks) ==
  Min({r \in ranks : \A q \in ranks : op.count[r] <= op.count[q]})

----------------------------------------------------------------------------
(* Create, open, close                                                     *)

Call(kind, name, count, concurrency, data) ==
  /\ LET writers == IF concurrency <= 0 THEN NTask ELSE concurrency
     IN op' = [kind |-> kind, name |-> name, count |-> count,
               concurrency |-> writers,
               seggrp |-> Segmenter_init(count, writers)]
  /\ phase' = IF kind = "write" THEN "create" ELSE "open"
  /\ rows' = data
  /\ rt' = [r \in Ranks |-> 0]
  /\ UNCHANGED <<NTask, left, bb, group, disk, faults>>

Store(block) == disk' = [n \in DOMAIN disk \cup {op.name} |->
                           IF n = op.name THEN block ELSE disk[n]]

\* The files that are in the directory from an earlier run stay.
Files(fsize) == IF op.name \in DOMAIN disk
                THEN [i \in DOMAIN fsize |->
                        IF i \in DOMAIN disk[op.name].files
                        THEN disk[op.name].files[i] ELSE <<>>]
                ELSE [i \in DOMAIN fsize |-> <<>>]

\* _big_file_mpi_create_block, _big_block_create_internal: rank 0 makes the
\* header, and the others have its copy.
CreateHeader(Nfile) ==
  LET fsize == FileSizes(totalsize, Nfile)
      zeros == [i \in 1..Nfile |-> 0]
  IN /\ phase = "create"
     /\ \E e \in {0, -1, 1} :
          /\ TryBuffered(e)
          /\ IF e # -1
             THEN /\ Store([fsize |-> fsize, fchecksum |-> zeros,
                            files |-> Files(fsize), header |-> e = 0])
                  /\ bb' = [r \in Ranks |-> [fsize |-> fsize,
                                             fchecksum |-> zeros,
                                             dirty |-> FALSE]]
                  /\ left' = Ranks
                  /\ phase' = "truncate"
             ELSE /\ phase' = "raised"
                  /\ UNCHANGED <<disk, bb, left>>
     /\ UNCHANGED <<NTask, op, rows, rt, group>>

\* The files a rank empties: the end of _big_block_mpi_create.
Share(r) == LET Nfile == Len(bb[r].fsize)
            IN ((Nfile * r) \div NTask + 1)..((Nfile * (r + 1)) \div NTask)

Truncate(r) ==
  /\ phase = "truncate"
  /\ r \in left
  /\ left' = left \ {r}
  /\ \E e \in {0, -1} :
       /\ Share(r) = {} => e = 0
       /\ Try(e)
       /\ rt' = [rt EXCEPT ![r] = e]
       /\ IF e = 0
          THEN disk' = [disk EXCEPT ![op.name].files =
                          [i \in DOMAIN @ |-> IF i \in Share(r) THEN <<>> ELSE @[i]]]
          ELSE UNCHANGED disk
  /\ UNCHANGED <<NTask, op, phase, bb, rows, group>>

\* Each group begins with its first segment.
FreshGroups ==
  [g \in Groups |-> [segment |-> segment_start(g), moving |-> FALSE,
                     ptr |-> [fileid |-> 1, roffset |-> 0], buf |-> <<>>,
                     todo |-> 0, e |-> 0]]

Truncated ==
  /\ phase = "truncate"
  /\ left = {}
  /\ rt' = [r \in Ranks |-> AnyError(Ranks, rt)]
  /\ phase' = IF rt'[0] = 0 THEN "transfer" ELSE "raised"
  /\ group' = FreshGroups
  /\ UNCHANGED <<NTask, op, left, bb, rows, disk, faults>>

\* _big_block_mpi_open: rank 0 reads the header.
HasHeader == op.name \in DOMAIN disk /\ disk[op.name].header

OpenHeader ==
  /\ phase = "open"
  /\ \E e \in {0, -1} :
       /\ ~HasHeader => e = -1
       /\ IF HasHeader THEN Try(e) ELSE UNCHANGED faults
       /\ phase' = IF e = 0 THEN "transfer" ELSE "raised"
       /\ bb' = IF e = -1 THEN bb
                ELSE [r \in Ranks |-> [fsize |-> disk[op.name].fsize,
                                       fchecksum |-> disk[op.name].fchecksum,
                                       dirty |-> FALSE]]
  /\ group' = FreshGroups
  /\ UNCHANGED <<NTask, op, left, rows, rt, disk>>

\* The reduction in big_block_mpi_flush.
ReducedChecksum ==
  [i \in DOMAIN bb[0].fchecksum |->
     SumFunction([r \in Ranks |-> bb[r].fchecksum[i]])]

\* big_block_mpi_close: rank 0 writes the header if any rank has written.
CloseBlock ==
  /\ phase = "close"
  /\ LET dirty == \E r \in Ranks : bb[r].dirty
     IN \E e \in {0, -1, 1} :
          /\ ~dirty => e = 0
          /\ TryBuffered(e)
          /\ IF dirty /\ e # -1
             THEN disk' = [disk EXCEPT ![op.name].fchecksum = ReducedChecksum,
                                       ![op.name].header = (e = 0)]
             ELSE UNCHANGED disk
          /\ phase' = IF e = -1 THEN "raised" ELSE "closed"
  /\ UNCHANGED <<NTask, op, left, bb, rows, rt, group>>

----------------------------------------------------------------------------
(* The transfer                                                            *)

\* Mutant: the leader moves the rows to its own place.
LeaderOffset(ranks) == myoffset(segment_leader(ranks))

\* The place of a segment is the place of its first rank.
SegmentOffset(ranks) == myoffset(Min(ranks))

Gathered(ranks) ==
  FlattenSeq([i \in 1..NTask |-> IF i - 1 \in ranks THEN rows[i - 1] ELSE <<>>])

NextSegment(g) == [group EXCEPT ![g].segment = @ + 1, ![g].moving = FALSE]

\* The top of the loop in _throttle_action, and the beginning of _aggregated:
\* after an error in the group nothing more is moved.
EnterSegment(g) ==
  LET s     == group[g].segment
      ranks == InSegment(g, s)
      err   == AnyError(Members(g), rt)
      fsize == bb[Min(Members(g))].fsize
      n     == SumOf(op.count, ranks)
      ptr   == big_block_seek(fsize, SegmentOffset(ranks))
  IN /\ phase = "transfer"
     /\ ~group[g].moving /\ s < segment_end(g)
     /\ rt' = [r \in Ranks |-> IF r \in Members(g) THEN err ELSE rt[r]]
     /\ IF err # 0 \/ ranks = {}
        THEN group' = NextSegment(g) /\ UNCHANGED bb
        ELSE /\ group' = [group EXCEPT ![g] =
                  [segment |-> s, moving |-> TRUE,
                   ptr     |-> [fileid |-> ptr.fileid, roffset |-> ptr.roffset],
                   buf     |-> IF op.kind = "write" THEN Gathered(ranks) ELSE <<>>,
                   todo    |-> n,
                   e       |-> IF Fits(fsize, SegmentOffset(ranks), n) THEN 0 ELSE -1]]
             /\ bb' = IF op.kind = "write" /\ n > 0
                      THEN [bb EXCEPT ![segment_leader(ranks)].dirty = TRUE]
                      ELSE bb
     /\ UNCHANGED <<NTask, op, phase, left, rows, disk, faults>>

\* One turn of the loop of big_block_write or big_block_read, by the leader.
\* The checksum is changed before the file is.  Rows that the file has not
\* reached yet, between its end and the chunk, are a hole in it.
MoveChunk(g) ==
  LET w      == group[g]
      leader == segment_leader(InSegment(g, w.segment))
      fsize  == bb[leader].fsize
      n      == ChunkSize(fsize, w.ptr, w.todo, CHUNK)
      f      == w.ptr.fileid
      place  == (w.ptr.roffset + 1)..(w.ptr.roffset + n)
      next   == big_block_seek(fsize, foffset(fsize, f) + w.ptr.roffset + n)
      moved  == [w EXCEPT !.ptr  = [fileid |-> next.fileid, roffset |-> next.roffset],
                          !.todo = @ - n]
      file   == disk[op.name].files[f]
      found  == SubSeq(file, w.ptr.roffset + 1, w.ptr.roffset + n)
      short  == op.kind = "read" /\ Len(found) < n
  IN /\ phase = "transfer"
     /\ w.moving /\ w.todo > 0 /\ w.e = 0
     /\ bb' = IF op.kind = "read" THEN bb
              ELSE [bb EXCEPT ![leader].fchecksum[f] =
                      sysvsum(@, SubSeq(w.buf, 1, n))]
     /\ \E e \in {0, -1} :
          /\ short => e = -1
          /\ IF short THEN UNCHANGED faults ELSE Try(e)
          /\ IF e = -1
             THEN group' = [group EXCEPT ![g].e = -1] /\ UNCHANGED disk
             ELSE IF op.kind = "write"
             THEN /\ disk' = [disk EXCEPT ![op.name].files[f] =
                       [j \in 1..Max({Len(file), w.ptr.roffset + n}) |->
                          IF j \in place THEN w.buf[j - w.ptr.roffset]
                          ELSE IF j <= Len(file) THEN file[j] ELSE 0]]
                  /\ group' = [group EXCEPT ![g] =
                       [moved EXCEPT !.buf = SubSeq(w.buf, n + 1, Len(w.buf))]]
             ELSE /\ group' = [group EXCEPT ![g] =
                       [moved EXCEPT !.buf = w.buf \o found]]
                  /\ UNCHANGED disk
     /\ UNCHANGED <<NTask, op, phase, left, rows, rt>>

\* The end of _aggregated.
EndSegment(g) ==
  LET w     == group[g]
      ranks == InSegment(g, w.segment)
      first == Min(ranks)
      err   == AnyError(ranks, [r \in ranks |->
                 IF r = segment_leader(ranks) THEN w.e ELSE 0])
  IN /\ phase = "transfer"
     /\ w.moving /\ (w.todo = 0 \/ w.e # 0)
     /\ rt' = [r \in Ranks |-> IF r \in ranks THEN err ELSE rt[r]]
     /\ rows' = IF op.kind = "write" \/ w.e # 0 THEN rows
                ELSE [r \in Ranks |->
                  IF r \in ranks
                  THEN SubSeq(w.buf, myoffset(r) - myoffset(first) + 1,
                              myoffset(r) - myoffset(first) + op.count[r])
                  ELSE rows[r]]
     /\ group' = NextSegment(g)
     /\ UNCHANGED <<NTask, op, phase, left, bb, disk, faults>>

\* The end of _throttle_action.
EndTransfer ==
  /\ phase = "transfer"
  /\ \A g \in Groups : group[g].segment = segment_end(g)
  /\ rt' = [r \in Ranks |-> AnyError(Ranks, rt)]
  /\ phase' = IF rt'[0] = 0 THEN "close" ELSE "raised"
  /\ UNCHANGED <<NTask, op, left, bb, rows, group, disk, faults>>

Step(Nfile) ==
  \/ CreateHeader(Nfile) \/ OpenHeader \/ Truncated \/ EndTransfer \/ CloseBlock
  \/ \E r \in Ranks : Truncate(r)
  \/ \E g \in DOMAIN group : EnterSegment(g) \/ MoveChunk(g) \/ EndSegment(g)
=============================================================================
