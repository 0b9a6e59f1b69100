----------------------------- MODULE HashResume -----------------------------
(***************************************************************************)
(* Hashing one file over many runs: csum_whole_file() reads it buffer by   *)
(* buffer, stages block and extent digests, and every so often commits a   *)
(* checkpoint from which the next run picks up (resume_scan(),             *)
(* adopt_resume()).  Runs are interrupted or killed at any point, the file *)
(* is rewritten or defragmented at any point, and writes to the hashfile   *)
(* fail.                                                                   *)
(*                                                                         *)
(* A file is a row of cells.  A hash block is BlockLen cells and a read    *)
(* buffer holds one block.  The value of a cell names the cell and the     *)
(* version of the file it was read from, so that two digests (sequences of *)
(* values) are equal only if they digest the same bytes.                   *)
(*                                                                         *)
(* A unit of the batched writer runs under the write lock from begin to    *)
(* end, so it is one step.  A short read is taken as the end of the file:  *)
(* the next read returns 0.  The assertion in fill_buffer() is a guard, as *)
(* a run that aborts is one that is killed.  The file's name, id and       *)
(* generation belong to the listing, not to this module.                   *)
(***************************************************************************)
EXTENDS Integers, FiniteSets, FiniteSetsExt, Sequences

CONSTANTS
    Shape,      \* version -> its size and the extent maps it may lie in
    BlockLen,   \* blocksize, and the size of the read buffer
    Interval,   \* checkpoint_interval
    BatchMax,   \* block_batch_max
    Modes,      \* what --dedupe-options a run may be given
    MaxFaults   \* bound on failed writes

Versions == DOMAIN Shape
Extents == [from : Nat, len : Nat \ {0}, skip : BOOLEAN]

ASSUME ShapeOK ==
    \* An SQLite code, taken as a length, is less than a block.
    /\ BlockLen \in Nat \ {0, 1} /\ Interval \in Nat \ {0}
    /\ BatchMax \in Nat \ {0} /\ MaxFaults \in Nat
    /\ Modes \subseteq {"default", "partial", "whole"}
    /\ Versions = 1 .. Cardinality(Versions) /\ Versions # {}
    /\ \A v \in Versions :
          /\ Shape[v].size \in Nat \ {0}
          /\ Shape[v].maps # {}
          /\ \A m \in Shape[v].maps :
                /\ m \subseteq Extents /\ IsFiniteSet(m)
                /\ \A e, f \in m : e # f =>
                      \/ e.from + e.len <= f.from
                      \/ f.from + f.len <= e.from
          \* A version keeps its holes and its preallocated space.
          /\ \A m, n \in Shape[v].maps : \A e \in m :
                \A c \in e.from .. e.from + e.len - 1 :
                   \E f \in n : /\ f.from <= c /\ c < f.from + f.len
                                /\ f.skip = e.skip

VARIABLES
    disk,       \* the file: its version (mtime) and the map it lies in
    db,         \* the hashfile as committed
    batch,      \* the hashfile as the open write transaction has it
    run,        \* the run: its mode, an interrupt seen, the batch lost
    ctx,        \* struct scan_ctxt and struct hashes of the csum worker
    pc,         \* where the file is in the run, "down" between two runs
    faults,     \* writes that failed so far
    astray      \* history: the code of a failed write was taken as a length

vars == <<disk, db, batch, run, ctx, pc, faults, astray>>

-----------------------------------------------------------------------------
(***************************************************************************)
(* The file's content and its map.                                         *)
(***************************************************************************)
Size(v) == Shape[v].size
End(e) == e.from + e.len
MapEnd(map) == Max({0} \cup {End(e) : e \in map})
MaxSize == Max({Size(v) : v \in Versions})

InData(map, c) == \E e \in map : ~e.skip /\ e.from <= c /\ c < End(e)

\* A byte's value: unallocated and preallocated space reads as zeroes.
Cell(v, map, c) == IF InData(map, c) THEN v * MaxSize + c ELSE 0

\* A version without holes or preallocated space.
Solid(v) == \A m \in Shape[v].maps : \A c \in 0 .. Size(v) - 1 : InData(m, c)

BlockOf(c) == (c \div BlockLen) * BlockLen
MappedBlock(map, b) == \E e \in map : e.from < b + BlockLen /\ End(e) > b

Cells(v, map, a, b) == [i \in 1 .. (b - a) |-> Cell(v, map, a + i - 1)]

\* get_extent: the extent that holds off, or the next one; 0 or 1 of them.
GetExtent(map, off) ==
    LET later == {e \in map : End(e) > off}
    IN  {e \in later : \A f \in later : e.from <= f.from}

\* hole_run_length: how many cells of whole unmapped blocks start at off.
HoleRun(map, size, off) ==
    LET e == GetExtent(map, off) IN
    CASE e = {} -> size - off
      [] \E x \in e : x.from >= off + BlockLen ->
            BlockOf((CHOOSE x \in e : TRUE).from) - off
      [] OTHER -> 0

\* Mutant of BlockIgnored: some preallocated space is enough.
BlockIgnored_Any(map, off) ==
    \E e \in map : e.skip /\ e.from < off + BlockLen /\ End(e) > off

\* is_area_ignored of one block: preallocated, with at most holes around it.
BlockIgnored(map, off) ==
    LET inside == {e \in map : e.from < off + BlockLen /\ End(e) > off}
    IN  inside # {} /\ \A e \in inside : e.skip

-----------------------------------------------------------------------------
(***************************************************************************)
(* The file's rows in the hashfile.                                        *)
(***************************************************************************)
NoRow == [mtime |-> 0, digest |-> <<>>, mode |-> "default"]
NoCheckpoint == [off |-> 0, mtime |-> 0, csum |-> <<>>,
                 ext_csum |-> <<>>, ext |-> {}]
NoFile == [row |-> NoRow, blocks |-> {}, extents |-> {}, ck |-> NoCheckpoint]

Hashed(d) == d.row.digest # <<>>

\* Mutant of RemoveFrom: the blocks behind the offset stay.
RemoveFrom_Blocks(d, off) ==
    [d EXCEPT !.extents = {e \in @ : e.loff < off}]

\* dbfile_remove_hashes_from, dbfile_remove_checkpoint
RemoveFrom(d, off) ==
    [d EXCEPT !.blocks = {b \in @ : b.loff < off},
              !.extents = {e \in @ : e.loff < off}]
RemoveCheckpoint(d) == [d EXCEPT !.ck = NoCheckpoint]

\* The blocks are deleted first: what one failed delete leaves.
PartlyRemoved(d, off) == {d, [RemoveFrom(d, off) EXCEPT !.extents = d.extents]}

\* store_block_batch and store_extent_batch insert: a key stored before fails.
Fits(d, staged_blocks, staged_extents) ==
    /\ \A s \in staged_blocks, b \in d.blocks : s.loff # b.loff
    /\ \A s \in staged_extents, e \in d.extents :
          <<s.loff, s.len>> # <<e.loff, e.len>>

Stored(d, staged_blocks, staged_extents) ==
    [d EXCEPT !.blocks = @ \cup staged_blocks,
              !.extents = @ \cup staged_extents]

-----------------------------------------------------------------------------
(***************************************************************************)
(* The batched writer.  Fault counts one failed write.                     *)
(***************************************************************************)
Fault == faults < MaxFaults /\ faults' = faults + 1

\* scan_write_end: the batch is committed if it has been open long enough.
UnitEnd(d) ==
    /\ ~run.lost
    /\ batch' = d /\ db' \in {db, d}
    /\ UNCHANGED <<run, faults>>

\* A unit that goes on although one of its writes failed.
UnitEndWithout(outcomes) ==
    /\ ~run.lost /\ Fault
    /\ \E d \in outcomes : batch' = d /\ db' \in {db, d}
    /\ UNCHANGED run

\* scan_write_flush
UnitFlush(d) ==
    /\ ~run.lost
    /\ batch' = d /\ db' = d
    /\ UNCHANGED <<run, faults>>

\* scan_write_begin refuses, or the unit fails and scan_write_abort drops it.
UnitFails ==
    /\ (run.lost /\ UNCHANGED faults) \/ Fault
    /\ UNCHANGED <<db, batch, run>>

\* batch_lost: SQLite rolled the transaction back, or could not commit it.
BatchLost ==
    /\ ~run.lost /\ Fault
    /\ batch' = db /\ run' = [run EXCEPT !.lost = TRUE]
    /\ UNCHANGED db

-----------------------------------------------------------------------------
\* left: what is still in the buffer of what was read.
Idle == [off |-> 0, csum |-> <<>>, ext_csum |-> <<>>, left |-> <<>>, map |-> {},
         mtime |-> 0, blocks |-> {}, extents |-> {}, last |-> 0, on |-> TRUE,
         resume |-> NoCheckpoint]

Down == [mode |-> "default", stop |-> FALSE, lost |-> FALSE]

\* The hashfile is empty, and the file is anything.
Init ==
    /\ \E v \in Versions : disk \in {[ver |-> v, map |-> m] : m \in Shape[v].maps}
    /\ db = NoFile /\ batch = NoFile
    /\ run = Down /\ ctx = Idle /\ pc = "down" /\ faults = 0 /\ astray = FALSE

Active == pc # "down"

\* Mutant of Prune: a checkpoint does not keep a row.
Prune_Checkpoints(d) == IF ~Hashed(d) THEN NoFile ELSE d

\* dbfile_prune_unscanned_files, at the start of a run: a row without a digest
\* goes, unless there is a checkpoint.
Prune(d) == IF ~Hashed(d) /\ d.ck = NoCheckpoint THEN NoFile ELSE d

StartRun ==
    /\ pc = "down"
    /\ db' = Prune(db) /\ batch' = Prune(db)
    /\ \E mode \in Modes : run' = [Down EXCEPT !.mode = mode]
    /\ pc' = "list" /\ ctx' = Idle
    /\ UNCHANGED <<disk, faults, astray>>

(***************************************************************************)
(* __scan_file: the file as the walk's statx saw it, against its row.      *)
(***************************************************************************)

Unchanged(d) == d.row.mtime = disk.ver

\* The file is up to date, is tried for a resume, or is hashed from the start.
ListFile ==
    /\ pc = "list"
    /\ pc' = IF run.stop \/ (Unchanged(db) /\ Hashed(db)) THEN "done"
             ELSE IF Unchanged(db) /\ db.ck # NoCheckpoint THEN "resume"
             ELSE "store"
    /\ ctx' = [Idle EXCEPT !.mtime = disk.ver]
    /\ UNCHANGED <<disk, db, batch, run, faults, astray>>

\* dbfile_load_checkpoint, and resume_scan's test of it.
Usable(ck) ==
    ck.mtime = ctx.mtime /\ 0 < ck.off /\ ck.off < Size(ctx.mtime)

\* A usable checkpoint: what was hashed behind it goes.  A delete that fails
\* goes unnoticed.
TakeCheckpoint ==
    /\ pc = "resume" /\ Usable(batch.ck)
    /\ \/ UnitEnd(RemoveFrom(batch, batch.ck.off))
       \/ UnitEndWithout(PartlyRemoved(batch, batch.ck.off))
       \/ BatchLost
    /\ ctx' = [ctx EXCEPT !.resume = batch.ck]
    /\ pc' = "open"
    /\ UNCHANGED <<disk, astray>>

\* An unusable one is deleted.  A writer that refuses a unit has the same
\* outcome: the file is hashed from the start.
RefuseCheckpoint ==
    /\ pc = "resume"
    /\ \/ ~Usable(batch.ck) /\ UnitEnd(RemoveCheckpoint(batch))
       \/ UnitFails
       \/ BatchLost
    /\ pc' = "store"
    /\ UNCHANGED <<disk, ctx, astray>>

\* store_file_row: the row is replaced, and all that hung on it goes with it.
StoreRow ==
    /\ pc = "store"
    /\ \/ /\ UnitEnd([NoFile EXCEPT !.row.mtime = ctx.mtime])
          /\ pc' = "open"
       \/ (UnitFails \/ BatchLost) /\ pc' = "done"
    /\ UNCHANGED <<disk, ctx, astray>>

(***************************************************************************)
(* The worker opens the file and takes the checkpoint up, or declines.     *)
(***************************************************************************)
\* Mutant of LayoutMoved: a checkpoint of another extent is adopted.
LayoutMoved_Never(r) == FALSE

\* The extent whose digest is carried is no longer where it was.
LayoutMoved(r) ==
    LET e == GetExtent(disk.map, r.off)
        place(x) == <<x.from, x.len>>
    IN  /\ r.ext_csum # <<>>
        /\ \/ {place(x) : x \in e} # {place(x) : x \in r.ext}
           \/ \E x \in e : x.from >= r.off

\* The offset is inside a data extent that no digest is carried of.
NoExtentState(r) ==
    /\ r.ext_csum = <<>> /\ run.mode # "whole"
    /\ \E x \in GetExtent(disk.map, r.off) : x.from < r.off /\ ~x.skip

\* The file is freed unhashed, or cannot be opened or mapped.
SkipFile ==
    /\ pc = "open"
    /\ UnitFails \/ (run.stop /\ UNCHANGED <<db, batch, run, faults>>)
    /\ pc' = "done"
    /\ UNCHANGED <<disk, ctx, astray>>

Resuming == ctx.resume # NoCheckpoint

\* adopt_resume, or a file that is hashed from the start.
OpenFile ==
    /\ pc = "open" /\ ~run.stop /\ ~run.lost
    /\ Resuming => ~LayoutMoved(ctx.resume) /\ ~NoExtentState(ctx.resume)
    /\ ctx' = [ctx EXCEPT !.map = disk.map,
                          !.off = ctx.resume.off, !.last = ctx.resume.off,
                          !.csum = ctx.resume.csum,
                          !.ext_csum = ctx.resume.ext_csum]
    /\ pc' = "read"
    /\ UNCHANGED <<disk, db, batch, run, faults, astray>>

\* decline_resume: all that was stored goes, as far as it can be deleted.
Decline ==
    /\ pc = "open" /\ ~run.stop /\ ~run.lost
    /\ Resuming /\ (LayoutMoved(ctx.resume) \/ NoExtentState(ctx.resume))
    /\ \/ UnitEnd(RemoveCheckpoint(RemoveFrom(batch, 0)))
       \/ UnitEndWithout({RemoveFrom(batch, 0), batch}
                           \cup {RemoveCheckpoint(d) : d \in PartlyRemoved(batch, 0)})
       \/ BatchLost
    /\ ctx' = [ctx EXCEPT !.map = disk.map]
    /\ pc' = "read"
    /\ UNCHANGED <<disk, astray>>

(***************************************************************************)
(* The loop of csum_whole_file.                                            *)
(***************************************************************************)
FileSize == Size(ctx.mtime)
Hole == HoleRun(ctx.map, FileSize, ctx.off)

\* A hole is not read: the digest takes in its offset and length.
SkipHole ==
    /\ pc = "read" /\ ctx.off < FileSize /\ Hole > 0
    /\ ctx' = [ctx EXCEPT
                 !.off = @ + Hole,
                 !.csum = @ \o [i \in 1 .. Hole |-> -(ctx.off + 1)]]
    /\ UNCHANGED <<disk, db, batch, run, pc, faults, astray>>

\* fill_buffer: preallocated space is not read, but taken as zeroes.
Faked ==
    BlockIgnored(ctx.map, ctx.off) /\ ctx.off + BlockLen <= FileSize

\* next_hole_block: nothing is read from the next whole unmapped block on.  It
\* comes before a buffer is full only if the read starts inside a block.
NextBlock == BlockOf(ctx.off + BlockLen - 1)
Capped ==
    /\ ctx.off < NextBlock /\ NextBlock < FileSize
    /\ ~MappedBlock(ctx.map, NextBlock) /\ ~Faked
ReadCap == IF Capped THEN NextBlock ELSE FileSize

BufferLen ==
    IF Faked THEN BlockLen
    ELSE Max({Len(ctx.left), Min({BlockLen, ReadCap - ctx.off,
                                  Size(disk.ver) - ctx.off})})

Buffer ==
    IF Faked THEN [i \in 1 .. BlockLen |-> 0]
    ELSE ctx.left \o Cells(disk.ver, disk.map, ctx.off + Len(ctx.left),
                           ctx.off + BufferLen)

\* The loop is at a block that has data, or preallocated space.
AtData ==
    /\ pc = "read" /\ ctx.off < FileSize /\ Hole = 0
    /\ Faked \/ Len(ctx.left) <= ReadCap - ctx.off

\* process_blocks, and process_block of the last, partial one.
BlockRows ==
    IF /\ run.mode = "partial" /\ ~Faked /\ BufferLen > 0
       /\ BufferLen = BlockLen => ~BlockIgnored(ctx.map, ctx.off)
    THEN {[loff |-> ctx.off, digest |-> Buffer]} ELSE {}

\* process_extents, of n cells of the buffer.  The data extents they reach, and
\* those they end: the one with the file's last byte may go on behind it.
Reached(n) ==
    {e \in ctx.map : ~e.skip /\ e.from < ctx.off + n /\ End(e) > ctx.off}

\* Mutant of Ended: an extent that goes on behind the file never ends.
Ended_InFile(e, n) == End(e) <= ctx.off + n

Ended(e, n) == Min({End(e), FileSize}) <= ctx.off + n

\* What they hold of an extent.
Part(e, n) ==
    LET lo == Max({ctx.off, e.from})
        hi == Min({ctx.off + n, End(e)})
    IN  SubSeq(Buffer, lo - ctx.off + 1, hi - ctx.off)

\* The digest in progress goes to the first extent reached, whichever it is.
ExtentDigest(e, n) ==
    IF \A f \in Reached(n) : e.from <= f.from THEN ctx.ext_csum \o Part(e, n)
    ELSE Part(e, n)

ExtentRows(n) ==
    {[loff |-> e.from, len |-> e.len, digest |-> ExtentDigest(e, n)] :
        e \in {r \in Reached(n) : Ended(r, n)}}

ExtentCsum(n) ==
    IF ctx.off + n > MapEnd(ctx.map) THEN <<>>
    ELSE IF Reached(n) = {} THEN ctx.ext_csum
    ELSE LET last == CHOOSE e \in Reached(n) : \A f \in Reached(n) : f.from <= e.from
         IN  IF Ended(last, n) THEN <<>> ELSE ExtentDigest(last, n)

\* n cells of the buffer are digested, the rest stays in it.
Consume(n, rows) ==
    LET by_extent == run.mode # "whole"
    IN  ctx' = [ctx EXCEPT
                  !.off = @ + n,
                  !.csum = @ \o SubSeq(Buffer, 1, n),
                  !.left = SubSeq(Buffer, n + 1, BufferLen),
                  !.blocks = rows,
                  !.extents = @ \cup (IF by_extent THEN ExtentRows(n) ELSE {}),
                  !.ext_csum = IF by_extent THEN ExtentCsum(n) ELSE @]

BatchFull ==
    Cardinality(ctx.blocks) >= BatchMax /\ BlockRows # {}

\* Mutant of AfterBuffer: an interrupted file is dropped as it is.
AfterBuffer_NoLeave(off) ==
    IF run.stop \/ run.lost THEN "done"
    ELSE IF ctx.on /\ off - ctx.last >= Interval THEN "save"
    ELSE "read"

\* Where the loop goes on at offset off, short of the end of the file.
AfterBuffer(off) ==
    IF run.stop \/ run.lost
    THEN IF ctx.on /\ off > ctx.last /\ ~run.lost THEN "leave" ELSE "done"
    ELSE IF ctx.on /\ off - ctx.last >= Interval THEN "save"
    ELSE "read"

ReadBuffer ==
    /\ AtData /\ ~Capped /\ ~BatchFull
    /\ Consume(BufferLen, ctx.blocks \cup BlockRows)
    /\ LET off == ctx.off + BufferLen
           eof == BufferLen < BlockLen \/ off = FileSize
       IN  pc' = IF eof THEN "final" ELSE AfterBuffer(off)
    /\ UNCHANGED <<disk, db, batch, run, faults, astray>>

\* Less than a block before a hole: what there is, but no block of it, so that
\* a run that wants blocks takes nothing, and tries again for ever.
ReadToHole ==
    /\ AtData /\ Capped
    /\ IF Size(disk.ver) < ReadCap THEN pc' = "done" /\ UNCHANGED ctx
       ELSE LET n == IF run.mode = "partial" THEN 0 ELSE BufferLen
            IN  Consume(n, ctx.blocks) /\ pc' = AfterBuffer(ctx.off + n)
    /\ UNCHANGED <<disk, db, batch, run, faults, astray>>

\* flush_block_hashes
Flushing == AtData /\ ~Capped /\ BatchFull

FlushBlocks ==
    /\ Flushing
    /\ Fits(batch, ctx.blocks, {})
    /\ UnitEnd(Stored(batch, ctx.blocks, {}))
    /\ ctx' = [ctx EXCEPT !.blocks = {}]
    /\ UNCHANGED <<disk, pc, astray>>

\* The unit fails with a code of SQLite's, or on a key that is there.
FlushRefused ==
    /\ ~run.lost
    /\ Fault \/ (~Fits(batch, ctx.blocks, {}) /\ UNCHANGED faults)
    /\ UNCHANGED <<db, batch, run>>

LastBlock == BufferLen < BlockLen \/ ctx.off + BlockLen = FileSize

\* The writer's own -1, or a batch lost, ends the file, and so does any failure
\* at its last block.
FlushFails ==
    /\ Flushing
    /\ \/ BatchLost
       \/ run.lost /\ UNCHANGED <<db, batch, run, faults>>
       \/ LastBlock /\ FlushRefused
    /\ pc' = "done"
    /\ UNCHANGED <<disk, ctx, astray>>

\* Any other failure of a whole block: process_blocks() returns the code, which
\* csum_whole_file() takes as a length.  At the end of the file the rest of the
\* block is a last block of its own, for which the write is tried again.
CodeAsLength ==
    /\ Flushing /\ BufferLen = BlockLen
    /\ \E code \in 1 .. BlockLen - 1 :
          IF LastBlock
          THEN /\ Fits(batch, ctx.blocks, {})
               /\ UnitEndWithout({Stored(batch, ctx.blocks, {})})
               /\ Consume(BlockLen, {[loff |-> ctx.off + code,
                                      digest |-> SubSeq(Buffer, code + 1, BlockLen)]})
               /\ pc' = "final"
          ELSE /\ FlushRefused
               /\ Consume(code, ctx.blocks)
               /\ pc' = AfterBuffer(ctx.off + code)
    /\ astray' = TRUE
    /\ UNCHANGED disk

(***************************************************************************)
(* write_checkpoint: the staged hashes and the checkpoint in one unit,     *)
(* committed at once.                                                      *)
(***************************************************************************)
\* Mutant of Checkpoint: the digest of the extent in progress is left out.
Checkpoint_NoExtent ==
    [off |-> ctx.off, mtime |-> ctx.mtime, csum |-> ctx.csum,
     ext_csum |-> <<>>, ext |-> {}]

\* Mutant of Checkpoint: its offset is that of the checkpoint before it.
Checkpoint_LastOffset ==
    [off |-> ctx.last, mtime |-> ctx.mtime, csum |-> ctx.csum,
     ext_csum |-> ctx.ext_csum,
     ext |-> IF ctx.ext_csum = <<>> THEN {} ELSE GetExtent(ctx.map, ctx.off)]

Checkpoint ==
    [off |-> ctx.off, mtime |-> ctx.mtime, csum |-> ctx.csum,
     ext_csum |-> ctx.ext_csum,
     ext |-> IF ctx.ext_csum = <<>> THEN {} ELSE GetExtent(ctx.map, ctx.off)]

WriteCheckpoint ==
    /\ pc \in {"save", "leave"}
    /\ Fits(batch, ctx.blocks, ctx.extents)
    /\ ctx.ext_csum # <<>> => GetExtent(ctx.map, ctx.off) # {}
    /\ UnitFlush([Stored(batch, ctx.blocks, ctx.extents)
                    EXCEPT !.ck = Checkpoint])
    /\ ctx' = [ctx EXCEPT !.blocks = {}, !.extents = {}, !.last = ctx.off]
    /\ pc' = IF pc = "save" THEN "read" ELSE "done"
    /\ UNCHANGED <<disk, astray>>

\* The checkpoint is not written, and hashing goes on without checkpoints.  The
\* extents are stored first; what was stored counts as stored although the unit
\* is rolled back.
Staged(blocks, extents) ==
    ctx' = [ctx EXCEPT !.on = FALSE, !.blocks = blocks, !.extents = extents]

CheckpointFails ==
    /\ pc \in {"save", "leave"}
    /\ \/ /\ \/ run.lost \/ ~Fits(batch, {}, ctx.extents)
             \/ ctx.ext_csum # <<>> /\ GetExtent(ctx.map, ctx.off) = {}
          /\ Staged(ctx.blocks, ctx.extents)
          /\ UNCHANGED <<db, batch, run, faults>>
       \/ /\ ~run.lost /\ ~Fits(batch, ctx.blocks, {})
          /\ Staged(ctx.blocks, {})
          /\ UNCHANGED <<db, batch, run, faults>>
       \/ /\ ~run.lost /\ (UnitFails \/ BatchLost)
          /\ \/ Staged(ctx.blocks, ctx.extents)
             \/ Staged(ctx.blocks, {})
             \/ Staged({}, {})
    /\ pc' = IF pc = "save" THEN "read" ELSE "done"
    /\ UNCHANGED <<disk, astray>>

(***************************************************************************)
(* The end of the file: its last hashes, its digest, and the checkpoint    *)
(* that is no longer needed, in one unit.                                  *)
(***************************************************************************)
\* Mutant of Finished: the checkpoint stays.
Finished_KeepsCheckpoint ==
    [Stored(batch, ctx.blocks, ctx.extents) EXCEPT
        !.row = [@ EXCEPT !.digest = ctx.csum, !.mode = run.mode]]

Finished ==
    [Stored(batch, ctx.blocks, ctx.extents) EXCEPT
        !.row = [@ EXCEPT !.digest = ctx.csum, !.mode = run.mode],
        !.ck = IF ctx.last # 0 THEN NoCheckpoint ELSE @]

\* Not so if the file shrank under the reader.
Complete == ctx.off = FileSize

AtEnd == pc = "final" \/ (pc = "read" /\ ctx.off >= FileSize)

FinishFile ==
    /\ AtEnd
    /\ \/ /\ Complete /\ Fits(batch, ctx.blocks, ctx.extents)
          /\ UnitEnd(Finished) \/ UnitFails \/ BatchLost
       \/ /\ ~Complete \/ ~Fits(batch, ctx.blocks, ctx.extents)
          /\ UNCHANGED <<db, batch, run, faults>>
    /\ pc' = "done"
    /\ UNCHANGED <<disk, ctx, astray>>

(***************************************************************************)
(* The rest of the run, and the world around it.                           *)
(***************************************************************************)
\* scan_writer_close, or what is open is lost.
EndRun ==
    /\ pc = "done"
    /\ \/ db' = batch /\ batch' = batch /\ UNCHANGED faults
       \/ Fault /\ batch' = db /\ UNCHANGED db
    /\ run' = Down /\ ctx' = Idle /\ pc' = "down"
    /\ UNCHANGED <<disk, astray>>

\* SIGKILL: what is not committed is gone.
Kill ==
    /\ Active
    /\ batch' = db /\ run' = Down /\ ctx' = Idle /\ pc' = "down"
    /\ UNCHANGED <<disk, db, faults, astray>>

Interrupt ==
    /\ Active /\ ~run.stop
    /\ run' = [run EXCEPT !.stop = TRUE]
    /\ UNCHANGED <<disk, db, batch, ctx, pc, faults, astray>>

\* Units of other files share the batch: they commit it, or lose it.
OtherFiles ==
    /\ Active
    /\ (db # batch /\ UnitFlush(batch)) \/ BatchLost
    /\ UNCHANGED <<disk, ctx, pc, astray>>

\* Someone writes the file.
Rewrite ==
    /\ disk.ver + 1 \in Versions
    /\ \E m \in Shape[disk.ver + 1].maps :
          disk' = [ver |-> disk.ver + 1, map |-> m]
    /\ UNCHANGED <<db, batch, run, ctx, pc, faults, astray>>

\* A defragmentation or a deduplication moves the file: mtime and size stay.
Defragment ==
    /\ \E m \in Shape[disk.ver].maps \ {disk.map} : disk' = [disk EXCEPT !.map = m]
    /\ UNCHANGED <<db, batch, run, ctx, pc, faults, astray>>

Listing == ListFile \/ TakeCheckpoint \/ RefuseCheckpoint \/ StoreRow
Hashing ==
    \/ SkipFile \/ OpenFile \/ Decline \/ SkipHole \/ ReadBuffer \/ ReadToHole
    \/ FlushBlocks \/ FlushFails \/ CodeAsLength
    \/ WriteCheckpoint \/ CheckpointFails \/ FinishFile

Next ==
    \/ StartRun \/ Listing \/ Hashing \/ EndRun
    \/ Kill \/ Interrupt \/ OtherFiles \/ Rewrite \/ Defragment

Spec == Init /\ [][Next]_vars

-----------------------------------------------------------------------------
(***************************************************************************)
(* What resuming must not change.                                          *)
(***************************************************************************)
\* A straight scan's digest of the whole file: a run of whole unmapped blocks
\* by where it starts, any other cell by its value.
RunStart(map, c) ==
    Min({b \in {BlockOf(x) : x \in 0 .. c} :
            \A x \in b .. c : ~MappedBlock(map, BlockOf(x))})

Straight(v, map, n) ==
    [i \in 1 .. n |->
        IF MappedBlock(map, BlockOf(i - 1)) THEN Cell(v, map, i - 1)
        ELSE -(RunStart(map, i - 1) + 1)]

\* Straight digests of blocks, up to offset n.
StraightBlocks(v, map, n) ==
    {[loff |-> b, digest |-> Cells(v, map, b, Min({b + BlockLen, Size(v)}))] :
        b \in {x \in {BlockOf(c) : c \in 0 .. n - 1} :
                 /\ MappedBlock(map, x)
                 /\ x + BlockLen <= Size(v) => ~BlockIgnored(map, x)}}

ExtentIsContent(e, v, map) ==
    e.digest = Cells(v, map, e.loff, Min({e.loff + e.len, Size(v)}))

\* Every data cell before n is in one extent, except those of an open one.
CoveredOnce(d, map, n, open) ==
    \A c \in {x \in 0 .. n - 1 : InData(map, x)} \ open :
        Cardinality({e \in d.extents : e.loff <= c /\ c < e.loff + e.len}) = 1

UpToDate(d) == Hashed(d) /\ Unchanged(d)

(***************************************************************************)
(* Properties.                                                             *)
(***************************************************************************)
\* No code was taken as a length, or the file has no holes that this moves.
Regular == astray => Solid(disk.ver)

\* A file the hashfile calls up to date has the digest one straight scan of it
\* computes, over whatever interruptions, kills, rewrites and failures it was
\* hashed; off the grid of the blocks only if it has neither holes nor
\* preallocated space.
DigestIsContent ==
    Regular => \A d \in {db, batch} : UpToDate(d) =>
        d.row.digest = Straight(disk.ver, disk.map, Size(disk.ver))

\* Each extent digest of such a file is of that extent's bytes and no others.
ExtentsAreContent ==
    Regular => \A d \in {db, batch} : UpToDate(d) =>
        \A e \in d.extents : ExtentIsContent(e, disk.ver, disk.map)

\* Such a file has the hashes a straight scan stores: every data byte is in
\* one extent, and every block that is not preallocated has its digest.
NothingSkipped ==
    \A d \in {db, batch} : UpToDate(d) =>
        /\ d.row.mode # "whole" =>
              CoveredOnce(d, disk.map, Size(disk.ver), {})
        /\ d.row.mode = "partial" =>
              d.blocks = StraightBlocks(disk.ver, disk.map, Size(disk.ver))

\* A checkpoint and the hashes before it belong together: its state is that of
\* a straight scan at its offset, and no byte before it is without a hash.
CheckpointIsPrefix ==
    \A d \in {db, batch} : d.ck # NoCheckpoint /\ d.ck.mtime = disk.ver =>
        LET before == RemoveFrom(d, d.ck.off)
            open == UNION {e.from .. d.ck.off - 1 : e \in d.ck.ext}
        IN  /\ d.ck.csum = Straight(disk.ver, disk.map, d.ck.off)
            /\ \A e \in before.extents : ExtentIsContent(e, disk.ver, disk.map)
            /\ "whole" \notin Modes => CoveredOnce(before, disk.map, d.ck.off, open)
            /\ Modes = {"partial"} =>
                  before.blocks = StraightBlocks(disk.ver, disk.map, d.ck.off)

\* What a worker has staged is not stored yet, so that no insert runs into a
\* row of an earlier run and takes the unit down, unless a write failed.
NoKeyTwice ==
    faults = 0 /\ pc \in {"read", "save", "leave", "final"} =>
        Fits(batch, ctx.blocks, ctx.extents)

\* A checkpoint row exists only while the file is partially hashed, unless a
\* delete failed.
CheckpointOnlyUnhashed ==
    faults = 0 => \A d \in {db, batch} : d.ck # NoCheckpoint => ~Hashed(d)

\* A committed checkpoint is not lost: while the file's content and its map
\* stay, a later run or a kill never moves it back.
CheckpointKept ==
    [][/\ db.ck # NoCheckpoint /\ db.ck.mtime = disk.ver
       /\ Shape[disk.ver].maps = {disk.map}
       => db'.ck.off >= db.ck.off \/ Hashed(db')]_vars

\* A scan too long for one sitting converges.  If nobody kills runs or moves
\* the file any more, and again and again a run gets to open the file before it
\* is interrupted, the file is hashed for good.
Disturbed == Kill \/ Rewrite \/ Defragment
Sittings == []<>(pc = "read" \/ UpToDate(db))
Converges == <>[][~Disturbed]_vars /\ Sittings => <>[]UpToDate(db)

FairSpec ==
    /\ Spec
    /\ WF_vars(StartRun) /\ WF_vars(Listing) /\ WF_vars(Hashing)
    /\ WF_vars(EndRun)
=============================================================================
