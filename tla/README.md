# A TLA+ specification of oans

oans finds files, extents and blocks with equal content on btrfs and XFS and asks
the kernel to share their storage (FIDEDUPERANGE). This directory holds TLA+
modules translated from its C source in `src/src/`, the TLC configurations that
check them on small instances, and proofs for TLAPS of what matters most.

## 1. The system

One process per run, over a hashfile (SQLite, WAL) that outlives it. `main()`
(oans.c) installs the signal handler, opens the hashfile, reads the watermark
`dedupe_seq`, scans, and dedupes.

| Component | State it keeps | Operations | Interacts with |
|---|---|---|---|
| Scan (file_scan.c, csum.c) | directory queue, list of files to hash, seen inodes, generation counter, checkpoints | walk, describe, hash, checkpoint, resume, prune | hashfile (batched writer under `dbfile_lock`), progress, interruption |
| Hashfile (dbfile.c) | tables files, extents, blocks, hashes' checkpoints, config | open/recreate, store, the three window queries, remove, prune, sync config | everything |
| Streaming dedupe (oans.c, run_dedupe.c) | batches, FIFO of sealed ones, pool, `outstanding`, `cut_short`, watermark in memory | load a window, push, seal, dedupe, reap, drain | loaders, filerecs, group loop |
| Group loop (run_dedupe.c `dedupe_extent_list`) | open files, one ioctl context, the target | open members, fill a context, run it, account the results | ioctl rounds, hashfile, filerec fds |
| Ioctl rounds (dedupe.c) | lists queued / in_progress / completed, offset, remaining length | add, round, pop | the kernel |
| Block search (find_dupes.c) | a pool over the global filerec list | one job per file | filerecs, the batch's extent tree |
| Filerecs (filerec.c) | global tree by id, lifetime refs, fd refs | new, get, put, open once, free unreferenced | all of the dedupe phase |
| Results trees (results-tree.c, hash-tree.c) | groups by (digest, length), blocks by digest | insert, remove | loaders, group loop |
| Storage (fiemap.c, storage.c, btrfs-util.c) | none | extent maps, shared bytes, device kind | scan, group loop |
| Interruption (interrupt.c) | one atomic flag | handle, ask | every loop |
| Thread pools (threads.c) | queue, worker count | push, wait until idle, free | scan, block search |
| Run life cycle (oans.c, dbfile.c) | the hashfile's brand, version, block size, filesystem, stored configuration, history; the exit status | parse options, open, create, rebuild, report, remove, replay, scan, store, record | hashfile, scan, dedupe phase |
| Path patterns (glob.c), utilities, progress | | | |

**What is hard.** Windows are loaded while earlier ones are being deduped. Workers
change the disk and the tables the loaders read. A signal can arrive, a process
can die, a load or a write can fail at every point, and what the next run does
depends only on the tables and one number. A group with more than 119 members
takes several contexts, each several ioctls, whose destinations can fail, change
or shrink one by one. The hazards are listed in `PROJECT.json`, each at its line.

**What makes each part correct.**

- Streaming: the watermark names only what was dealt with; a complete run shares
  everything; whole-file and extent passes never touch one file; no filerec is
  used after it is freed; the phase always ends.
- Group loop: each member is accounted once; nothing stays open; the asserts hold.
- Ioctl rounds: each request is reported once, source and destination ranges stay
  in step, the rounds end, the space credited is the space shared.
- Walk: every file below the roots is listed, none outside them; the walk ends, and
  ends after the last file; no file stays in the work queue; a run that cannot
  dedupe or covers less than it was asked to says so.
- Scan: each file is hashed once, its generation is above the watermark and not
  below that of a file scanned earlier, a resumed file has the hash of a fresh
  one, the prune drops no file that exists.
- Hashfile: what another version or blocksize wrote is not trusted, another program's
  database is not touched, whatever a killed run leaves can be opened.
- Run life cycle: a replay is the last stored configuration, whole; the exit status
  tells success, failure, incomplete and interrupted runs apart.

## 2. The modules

| Module | Models |
|---|---|
| `StreamDedupe` | the streaming dedupe phase with its loaders, pool, block search life cycle, watermark, interruption and restart |
| `MCStreamDedupe` | its instances |
| `StreamDedupeProofs` | its theorems |
| `LeastElements` | facts about least and greatest elements which the proofs share |
| `DedupeGroup` | `dedupe_extent_list()`: the loop over one group's members, and the file descriptors its workers share |
| `MCDedupeGroup` | its instances |
| `DedupeGroupProofs` | its theorems |
| `DedupeRequests` | abstract: what one ioctl context promises its caller |
| `DedupeIoctl` | the rounds of one ioctl context; implements `DedupeRequests` |
| `MCDedupeIoctl` | its instances |
| `DedupeIoctlProofs` | its theorems |
| `HashResume` | hashing one file over many runs: the listing's test, the read loop, checkpoints and resuming, over the batched writer's units |
| `MCHashResume` | its instances |
| `HashResumeProofs` | its theorems |
| `FileListing` | the rows of the hashfile over many runs: what the listing makes of each name, the workers that fill rows in by id, batches and their loss, the prune |
| `MCFileListing` | its instances |
| `FileListingProofs` | its theorems |
| `ScanWalk` | the threads of the scan: seeding the roots, the walkers, the consumer, the csum workers, the queues between them, the probes of the filesystem |
| `MCScanWalk` | its instances |
| `ScanWalkProofs` | its theorems |
| `HashfileRuns` | runs on one hashfile: identify, create, rebuild, check, the report modes, replay, what a scan leaves behind, the stored configuration, the exit status |
| `MCHashfileRuns` | its instances |
| `HashfileRunsProofs` | its theorems |

### StreamDedupe

State and code:

| Variables | Code |
|---|---|
| `storage`, `gone` | the filesystem: on which copy's original extents a copy now lives, which files were deleted |
| `seq`, `extents`, `durable` | hashfile: `files.dedupe_seq` of a row (0: no row), which files have rows in `extents`, `config.dedupe_seq` |
| `pc`, `lo`, `max`, `first_seq`, `open_batch`, `loaded`, `topush` | where the main thread is in `stream_duplicates()`, `stream_load_batch()`, `push_results()` |
| `dedupe_seq`, `watermark_frozen`, `load_failed_at` | the statics of the same names |
| `inflight`, `outstanding`, `cut_short`, `held` | `struct dedupe_batch`, a batch named by its `seq_hi` |
| `queue`, `job`, `todo`, `target` | the GThreadPool, a worker in `dedupe_extent_list()` |
| `filerecs`, `dups_tree`, `searching` | the global filerec list, the block tree, the search pool's jobs |
| `settled`, `unsaved`, `refused`, `runs`, `faults` | history and bounds; `unsaved`: this process's last write of the watermark failed; no guard but the bounds reads them |

Actions are the critical sections: everything done under `producer_mutex` is one
step. A run is `StartRun` (scan, prune, phase begin), then for each window
`LoopHead`, `Reap`\*, `Wait`/`AwaitSlot`/`Drain`, `LoadSameFiles`, `HoldFilerecs`,
`PushItem`\*, `FilesPushed`, `LoadExtentHashes`, `LoadBlockHashes`, `SearchDone`,
`HoldFilerecs`, `PushItem`\*, `ExtentsPushed`, `SealBatch`, `NextWindow`, and
`EndRun`. Workers take, skip, dedupe member by member, and finish. `Interrupt`,
`Kill` and `Delete` can happen at every step.

Abstractions, and why they lose nothing the properties tell apart:

- A file is its row id. A file changed since an earlier run is a deleted file and
  a new one, which is what a rescan makes of it for the dedupe phase.
- A group is a constant: the files whose digest and size (or length) are equal.
  Several extents of one group in one file count as one.
- The FIFO of batches is a set: batches are sealed in the order of `seq_hi`, so the
  front is the least. `outstanding` is the set of items instead of their number.
- The pool gives out items in any order (the code sorts by work within a pass).
- A reap is one step: only the producer touches what `free_batch` changes, and
  a kill inside it is a kill before or after, as the watermark's write is atomic.
- Storage: moving a member onto a target makes both live on the target's extents.
  One member is one step; the ioctl rounds below are `DedupeIoctl`.
- What the block search finds in a window is any subset of its groups.
- `refused` stands for every reason to pass a member over: it cannot be opened, has
  changed since the scan, the kernel refuses. When it is the loader's target, all
  of the item may be left apart.

Not in the model: a hashfile that cannot be opened for reading at the start of
the phase (the run fails before anything happens), running out of memory, a
failing lookup of the last generation.

### DedupeIoctl

One `struct dedupe_ctxt` from `new_dedupe_ctxt()` to its last popped result.

| Variables | Code |
|---|---|
| `orig_len`, `len`, `off`, `aligned` | the context's original and remaining length, how far the source's offset moved, whole blocks only |
| `queued`, `in_progress`, `completed` | the three lists; destinations are numbered in the order queued, so a list is a set |
| `src_length`, `info` | the ioctl's argument: `same->src_length`, each `info[i]`'s bytes and status |
| `req_total`, `req_unshared`, `req_status` | a `struct dedupe_req`; its offset is its start plus `req_total` |
| `kernel`, `at_eof`, `shared`, `refused`, `failed` | the world: how the kernel treats an unaligned end, whose file ends with its range, how much of each is really shared, whom the kernel refused, whether the source was empty or the ioctl failed |
| `result` | what `pop_one_dedupe_result()` returned |

`Add`\* and `Clamp` fill the context, then `Populate`, `Ioctl` (or `IoctlFails`) and
`Process` are one turn of `dedupe_extents()`, and `Pop` hands back. `Ioctl` taken twice
is the retry with whole blocks after an EINVAL. The kernel is external: it refuses
a destination for any reason, and deals with a length that ends inside a block of
a destination that goes on in one of three ways (shortens it and says so, shortens
it and reports all of it, refuses it). The actions of the caller around the context
are `run_dedupe.c`'s group loop. Lengths are in units of which a block has
`BlockSize`, with `BlockSize` 2: inside a block or on its edge is all there is to tell.

### DedupeGroup

What a worker does with one item, below the step `DedupeMember` of `StreamDedupe`
and above the contexts of `DedupeIoctl`.

| Variables | Code |
|---|---|
| `gone`, `changed`, `rows`, `faults` | files deleted, rewritten since the scan, still in the hashfile; bound on faults |
| `fd`, `fd_refs` | the descriptor and its count of each `struct filerec`, under `filerec_fd_mutex` |
| `list`, `pos`, `tgt` | `dext->de_extents`, the member the loop is at, `tgt_extent` |
| `ctxt`, `queued` | the ioctl context and its requests |
| `open_files` | the `open_once` list; during the rescan the one file `fiemap_scan_extent()` holds |
| `accounted` | how often each member was reported: target, alone, passed over, dropped, or with a result |

`CleanDeduped` starts a group; `OpenMember`, `StatMember`, `Place` and `MapMember` are the
stages of one turn; `RunIoctl`, `CloseFile`\*, `FreeContext` and `Reopen` end a context;
`Leave` reaches the asserts; `RescanOpen` and `RescanClose` follow for extent groups.
Every open and close is a step of its own, so that workers interleave between them.
Left out: the net-shared diagnostic, which opens and closes its files like the
rescan, the extent maps (a member shares the target's storage or not), the byte
accounting, and the commit, which is part of `FinishItem` of `StreamDedupe`.
A group is two members at least and a sequence of files: a file may be in it twice.

### HashResume

One file, from the first time a run lists it to the digest that lasts, over any
number of runs.

| Variables | Code |
|---|---|
| `disk` | the world: the file's version (its mtime; sizes and extents hang on it) and the extent map it lies in |
| `db`, `batch` | the file's rows in `files`, `blocks`, `extents`, `scan_checkpoints`: as committed, and as the scan writer's open transaction has them |
| `run` | the run's `--dedupe-options` (`default`, `partial`, `whole`), `interrupted()`, `scan_batch_lost` |
| `ctx` | `struct scan_ctxt` and `struct hashes` with `last_checkpoint`, `checkpoints_enabled`, the queued `scan_resume` and the mtime and size listed; `left` is what the read buffer still holds (`dl_offset`, `dl_len`) |
| `pc` | where the file is: listed, resumed, stored, opened, read, checkpointed, finished |
| `faults` | bound on failed writes |
| `astray` | history: the code of a failed block store was taken as a length |

A run is `StartRun` (with the prune of unhashed rows), `ListFile`, `TakeCheckpoint` or
`RefuseCheckpoint` and `StoreRow`, `OpenFile` or `Decline`, then `SkipHole`, `ReadBuffer`,
`FlushBlocks` and `WriteCheckpoint` until `FinishFile`, and `EndRun`. `Kill`, `Interrupt`,
`Rewrite`, `Defragment` and the commits of `OtherFiles` can happen at every step.

A unit of the batched writer (`scan_write_begin` to `scan_write_end`) runs under the
write lock and is one step; it may commit the batch or not, since the clock decides.
It can fail and be rolled back, go on without a write whose result the code does
not look at, or take the whole batch with it.

A flush of block hashes that fails in the middle of a file (`FlushFails`, `CodeAsLength`)
ends the file only if the code is negative, the batch is lost, or the block is the last one.
Any other code of SQLite's is positive: `process_blocks()` returns it as the bytes processed
(`file_scan.c:3340-3341`), `csum_whole_file()` looks for a negative number only
(`file_scan.c:4174-4178`), and so many bytes are digested, the rest stays in the buffer and the
offset is off the grid of the blocks from there on. `Consume`, the reads (`BufferLen`,
`Buffer`, `Capped`), the extents and the checkpoints are modelled at any offset for that
reason. Before a hole such a read ends within a block (`ReadToHole`); a run that wants
block hashes then takes nothing and tries again until it is interrupted.

A byte's value names the version and the place it was read from, and a digest is
the sequence of values fed to it: equal digests are digests of equal bytes.
A hole's descriptor is its offset and length; here it is one entry per cell that
names the offset, which is as much. A block has two cells: data can share one
with a hole, preallocated space or the end of the file, on either side.

Left out: checkpoints of version 1, `skip_zeroes`, inline extents, the layout copy,
physical offsets. A read buffer holds one block. A read that falls short is taken
for the end of the file; the code reads once more. The file's name, id and generation
belong to `FileListing`.

### FileListing

Many files and names over many runs; how one file is hashed is `HashResume`'s.

| Variables | Code |
|---|---|
| `tree`, `version` | the world: which inode each name holds, and what was last written to it (content, mtime and size) |
| `disk`, `batch` | the tables `files` and `scan_checkpoints` by id: as committed, and as the scan writer's open transaction has them |
| `snap` | the listing's read transaction (`scan_read_open`), without the rows of inodes already queued |
| `run` | the phase, `interrupted()` and `filescan_batch_lost()`, `seen_files`, `seen_inodes`; and history: whether a file was passed over, whether the tree changed since its start, whether the run before went through |
| `todo`, `fileq` | names the walkers have still to read; `walk_fileq` |
| `jobs` | requests in the work queue and the csum workers' current ones: id, what was listed, resume point, what is open, what was fed to the digest |
| `gone` | ids `dbfile_prune_missing_files_report()` has collected |
| `changes`, `faults`; `calm`, `mistaken` | bounds; history, see below and section 6 |

`Start` is the prune of unhashed rows and `seed_checkpointed_files()`. A walker reads
a name (`WalkName`); the consumer takes the head of the queue and does one of
`PassOver`, `LeaveAlone`, `ResumeScan` and `StoreFileRow`, which are the ways through
`__scan_file()`, from the snapshot, which `Flush` ends. Workers go through `OpenJob`
(or `DropJob`), `CheckpointJob` and `FinishJob` or `GiveUp`. `ListingDone`, `ScanDone`,
`PruneCollect` and `PruneDelete` end the run. `Signal`, `BatchLost` and `Kill` can strike
in between, and so can other processes: between runs they do anything, during a run
they write, delete and create (and reuse inodes), but do not move or link.

A unit of the writer is one step and may commit the batch with it (`EndUnit`). What
is rolled back, or killed, is the batch back to `disk`. `StoreFileRow` is two units where
the row has a checkpoint of no use: the first one, which drops it, may be the one that
commits, and the second may fail. `ResumeScan` goes on, as the code does, when its unit
fails; the request is then `late` (history). Ids are the largest one plus 1,
as SQLite gives them out; rows that stand in the way of a `UNIQUE` go, with their
checkpoints. `Renumber` counts ids from 1 again at the start of a run, when no id is in
anybody's memory. Whether a file can be opened is whether its name is there. A halted run
drops at once what its threads would drop one by one. The dedupe phase is one step that
raises the watermark; one that does not would leave more rows above it.

Left out: directories, symlinks and excludes, the size-ordered work queue, the copy of
a layout from another file, the recheck of rows without flags (`scan_row_ok()`),
subvolumes (an inode is an inode and its subvolume), failing deletes in the prune.

### ScanWalk

One scan, from the first root to the last csum worker. What the consumer writes for a
file is `FileListing`, what a worker does with it is `HashResume`; here a file is put in
the work queue unless its inode was queued before or its row is up to date.

| Variables | Code |
|---|---|
| `world` | the tree, its filesystems and subvolumes, the command line, the hashfile's `fs_uuid` and checkpoints; constant in a run |
| `main`, `args` | where the main thread is between `scan_files_from_cmdline()` and `scan_workq_drain()`, its `ret`, the roots or checkpointed files still to seed |
| `roots` | `scan_root_paths`, `nr_roots_seeded`, `nr_roots_unusable`, `seed_fs_lock_failed` |
| `locked` | `locked_fs`, with the counts of the FIDEDUPERANGE probe |
| `dirq`, `fileq`, `pending` | `walk_dirq`, `walk_fileq`, `walk_dir_pending` |
| `walker` | each walker in `walk_thread()` and `process_dir()`: its directory, the entries left, the one it is asking about |
| `roSubvols`, `roLost`, `roCount`, `verified` | `ro_subvols`: the devices with an answer and those whose answer is a failed ioctl; the skipped subvolumes counted; `verified_devs` |
| `seen`, `workq`, `draining`, `worker` | the inodes queued, `scan_workq`, the csum workers |
| `halt`, `faults` | `interrupted()`, `walk_abort`, `scan_batch_lost`; bound on faults |
| `unopened`, `listed`, `hashed` | history, which no guard reads |

`SeedRoot` is `scan_file()` with all of `check_file()` for a root, `LoadCheckpoints` and
`SeedFile` are `seed_checkpointed_files()` with `walk_would_reach()`, and `StartWalk`
releases the seeding token. A walker takes a directory, checks its entries one by one
(`ReadEntry`) and ends it. Between looking into a cache and putting the answer in there
is an ioctl without the lock; so `RoAnswered` and `DevProbed` are steps of their own.
`Consume` takes one item of the file queue, with the question whether the filesystem can
do FIDEDUPERANGE where that is open; `JoinWalkers` judges the walk, closes the work
queue and wakes the workers; `Take`, `Starve` and `Hash` are a csum worker. A worker
that finds the queue empty goes to sleep in the same step, which is what holding the
mutex until `g_cond_wait()` means.

`check_file()` is one set of predicates in the order of its tests (`Filtered`, `AsksRo`,
`OnLocked`), used by the roots, the walkers and the seeds alike, as in the code. The property
`AllDue` compares with `Due`, which is defined by levels and by the uuid and has none of
the caches.

The question whether a subvolume is read-only can fail at every place that puts it. A failed
ioctl is cached as "writable" for every thread, unless another one was first
(`RoInsert`); where the path does not even open, it alone is let by and nothing is cached
(`RoUnopened`). `OnlyDue` counts what these let in as due, and nothing else: the other paths
of a subvolume in which one did not open, and what lies behind any other filter, are not.

Left out: symlinks and other kinds are one kind "other"; name lengths and `DT_UNKNOWN`;
the listing's read transaction, and the rows (both in `FileListing`);
spurious wakeups. A bucket of the work queue is one size here.

### HashfileRuns

Any runs on one hashfile, one after another, over what may be found at its path: no file, an
empty one, one of this version, of an older one or of duperemove, or another program's
database.

| Variables | Code |
|---|---|
| `file` | the hashfile as committed: its tables, `application_id`, the rows `version_major`, `block_size` and `fs_uuid` of `config`, the files hashed and the block size they were hashed with, the stored scan configuration, the kinds of runs in its history |
| `run` | the process: where it is in `main()`, its command line, `options`, roots, excludes, the roots lost, `locked_fs`, the open batch and transaction, `ret`, `interrupted()`, its exit status |
| `present` | the roots that exist |
| `last` | history: the configuration of the last run that stored one |
| `runs`, `faults`, `moves` | bounds |

`Start` is `parse_options()` and the check for a file that must exist. `Open` is
`__dbfile_open_handle()` with `dbfile_identify()`, `CreateTables`, `Brand`, `Check` and
`SyncDefaults` are `dbfile_prepare()`, a statement at a time, so that a kill can come
between any two of them. `Report`, `RemoveRows` and `DropBlocks` are the modes that do
not scan. A scan is `Replay` (if no roots were given), `Seed`, `HashFile`\* and
`Commit`\*, `EndScan` with the filesystem's uuid, `Persist` (a statement of the
transaction at a time), `Duplicates` with the prune, and `Finish` with the history.
In `Seed` any set of calls may fail: a root before the lock is turned down uncounted
(`Rejected`), one behind it is counted (`Unusable`), and a directory or file that cannot be read
is reported and left in `unread`. In `Check` the failed read of `application_id` is a mismatch
like any other, and the run recreates the file (`Recreates`).
`End` is the code behind `out:` in `main()`. `Signal`, `Kill` and `Move` (a root that
comes or goes) can happen at any time.

A kill leaves what SQLite has committed: the process dies, the machine does not
(the hashfile is written with `synchronous = OFF`, so a power cut promises nothing).

Left out: scans without a hashfile (theirs is in memory), vacuum, the search indexes
(derived data), the contents of the reports. A pattern excludes the file it names. A dedupe
phase succeeds or fails; `StreamDedupe` has the rest. Two processes on one hashfile at once are
not modelled.

## 3. Runs

| Run | Instance | What it shows |
|---|---|---|
| `stream_faults` | 1 whole-file group, 3 files, 3 generations, 2 runs, 2 workers, kills and signals, one fault of any kind | `WatermarkSound`, `ExitMeansDone`, `NoUseAfterFree`, `TargetStays` |
| `stream_mixed` | a whole-file and an extent group that share a file, windows of 2 generations, one fault | `DisjointPasses`, `Convergence` |
| `stream_partial` | an extent and a block group, block search on, one fault, `FairSpec` | `SearchScope`, `NoUseAfterFree`, `PhaseEnds` |
| `group` | 2 workers, a group with two extents of one file and a rescan, a whole-file group of two of its files, contexts of 1 request, one fault, `FairSpec` | `UsesItsOwn`, `NothingLeft`, `Accounted`, `GroupsEnd` |
| `ioctl` | 2 destinations, calls shorter than a round, lengths of several rounds and a tail, all kernels | `CreditReal`, `Complete`, `EachAnsweredOnce` (refinement of `DedupeRequests!Spec`, with its fairness) |
| `resume` | block hashes on, a file that is in one of three maps, shrinks, is back at its size in another map, and grows with holes, preallocated space and a trailing hole, found at any of the five; `FairSpec` | `DigestIsContent`, `ExtentsAreContent`, `NothingSkipped`, `CheckpointIsPrefix`, `CheckpointKept`, `Converges` |
| `resume_faults` | a file in one of three maps, rewritten so that a hole follows, each run with any of three `--dedupe-options`, two failed writes | `DigestIsContent`, `NoKeyTwice`, `CheckpointOnlyUnhashed` |
| `listing` | 2 files, 2 names, runs over both or one of them, 2 changes at any time, one fault, kills and signals | `Settled`, `RequestsOwnRows`, `CommittedStays`, `HashedIsFresh` |
| `walk` | 21 small trees, 2 walkers, 2 csum workers, one fault or signal, `FairSpec` | `StopIsLast`, `OnlyDue`, `AllDue`, `AllHashed`, `HonestExit`, `WalkEnds` |
| `runs` | 17 command lines, 3 runs, 8 kinds of file found, kills and signals, one fault, one root that comes or goes | `OneBlocksize`, `ReplayWhole`, `HonestStatus`, `Reopens`, `LeftAlone` |
| `walk_dropped_root` | two roots, no fault | `RootsCovered` is violated (section 6) |
| `runs_filesystem` | scans of three roots on two filesystems, kills | `OneFilesystem` is violated (section 6) |

**Bounds.** Three generations are what it takes to have one batch reaped, one in
flight and one being loaded; two in flight need no fourth. Two runs separate
copies below the phase's start from new ones, the distinction the target query
makes (`?3`); three are only needed for the finding. Two workers can hold two
items of different windows. One fault is enough: each is absorbed by what it
leaves in the tables, and the kill is not counted among them. `LastIsBest` ranks
the last file scanned first, so that the target is a late arrival and every
window before it has to look ahead. In `stream_mixed` the file in both groups is
what the static exclusion is about. Deadlock is checked in every run but those of
`ScanWalk` and `HashfileRuns`, which really stop; that the walk does not stop early is
`WalkEnds`. `Finished` lets the other models stutter only after the last run.

A context of one request makes the member after it the first of a context, the
situation of #392 at members 120 and 240 of a real group, and the group of four
needs three contexts; one fault lets a target be lost or a member passed over.

Two destinations are the first of the ioctl (whose EINVAL is looked at) and one that
falls behind or goes further. `MaxLen` allows several rounds and a tail under
a block, odd lengths the unaligned end, and a `CallLen` under `RoundLen` the old
kernels that dedupe 16 MiB of a call at most.

The resumed file is three to eleven cells long, so that there are up to three
checkpoints, one inside an extent, one at the edge of one, and a partial block at the
end. `Interval` is the distance of checkpoints in cells (3: after every second block),
`BatchMax` the blocks staged before they are flushed: 1 makes every second block
flush. The number of runs is not bounded. Two failed writes are a failed checkpoint
and a failure of what deals with it, or two flushes whose codes are taken as lengths. A block
is two cells, so such a code is one cell, inside the block as the codes of SQLite are below
4096. `NoKeyTwice` and `CheckpointOnlyUnhashed` are
stated of histories without a failed write, `ExtentsAreContent`, `NothingSkipped` and
`CheckpointIsPrefix` checked on runs with one set of options: section 6 says why.

In `listing` the number of runs is not bounded, that of changes to the tree is: two are
what it takes to replace a file, to move one over another and write it, or to leave a
row whose inode and whose name are of two different files. With one name in the queue
ahead of the consumer (`MaxListed`), and the seeds, a listed file can be overtaken by
every kind of change. Two files are one row and another that takes its name, its
inode or its id. With three changes the state space is eight times as large and takes
longer than the rest together; nothing else turns up there. A digest is the set of (file, version) that was fed to it.

The trees of `walk` have four to nine paths each, with one kind of difficulty per tree
(`MCScanWalk` names them): subvolumes below two directories so that two walkers ask
about one device, with links of one file and a foreign mount; the same with a read-only
subvolume skipped; a checkpoint in such a subvolume; an excluded directory with a checkpoint in it; nested roots; a
filesystem to be asked, with files that can and cannot answer, in both orders; roots on
several filesystems, with and without a stored uuid. Two walkers and two workers are
what it takes to race; one fault is one failed call or one signal, and in the runs
without one `AllDue` and `AllHashed` have to hold. `MaxTries` and `MaxUnasked` are 2
instead of 16 and more: one file that leaves the question open and one that exhausts the
patience.

In `runs` the first run leaves a state, the second can be killed in the middle of taking
it up, and the third finds what is left. With one fault a step fails once and the run
after it is undisturbed, which is what `Reopens` is about. Block sizes 4 and 8 and two
versions are what a run can disagree on.

**Fairness.** `FairSpec` has weak fairness for the producer, for the search pool and for
each worker: the operating system runs every runnable thread and `g_cond_signal` wakes a
waiter. Nothing makes a signal, a crash or another run happen. Spurious wakeups are left
out; they only repeat a check. `DedupeIoctl` is sequential: weak fairness of its steps
says that the worker running it is scheduled and that ioctls return. `HashResume` is
fair to the listing, to the worker and to the start of another run. `ScanWalk` is fair
to the main thread, to each walker and to each csum worker; calls need not fail, and
signals need not come. `HashfileRuns` has no liveness property: `Reopens` says what a
run ends in, and each of its parts has its own. `Converges` is conditional, as the code
can promise no more: from some time on nobody kills runs or touches the file (signals
may go on), and again and again a run gets to open the file before it is interrupted.

## 4. Proofs

`StreamDedupeProofs` proves for all values of the constants, from the named
assumptions `ConstantsOK` and `NoWorkOK` of `StreamDedupe`:

- `TypeCorrect`: `Spec => []TypeOK`.
- `WatermarkTheorem`: `Spec => []WatermarkSound`, the Ctrl+C invariant: a live copy
  of a loaded kind of group whose generation the durable watermark covers was
  dealt with. This holds for any number of files, groups, workers, windows, runs
  and batches in flight, with kills, signals, failed loads, failed watermark
  writes, refusals and deletions in any order.
- `InvariantHolds`: the inductive invariant they rest on.
- `FilerecsInUse`: `Spec => []NoUseAfterFree`.
- `SearchSees`: `Spec => []SearchScope`.
- `PassesDisjoint`: `Spec => []DisjointPasses`.
- `TargetNeverMoves`: `Spec => TargetStays`, an action property.
- `CleanExitDone`: `Spec => []ExitMeansDone`, of the watermark in the hashfile, with any
  writes of it lost but the last.
- `ConvergenceTheorem`: `Spec => []Convergence`.

`WatermarkSound` says nothing of what is in memory, so it is not inductive: a reap
could move the watermark past something nobody dealt with. `IInv` adds

- `Phase`: what the program counter implies (which batch is open and above every
  sealed one, what may be loaded, that a phase that is not running has nothing),
  that queue and jobs are what the batches count as outstanding, and that the
  watermark in memory is not below the durable one and below every window in
  flight;
- `Accounted`: while a phase runs, every live copy of a group it loads, in a window
  it has loaded, is settled, or `Excused` (its window is at or above the lowest
  failed load, or behind a batch that was cut short, so that no reap can reach it),
  or answered for by an item of the batch of its window, queued or being worked on.

A reap takes the front batch with nothing outstanding. Nothing answers for its
copies any more, so they are settled or excused, and an excused one is out of the
reach of the capped or frozen watermark. Each step's proof is one lemma per
conjunct and one case per action.

The other theorems have invariants of their own, each inductive together with `IInv` and
those before it:

- `Memory`: a batch in flight holds the filerecs of its items, the trees being filled name
  listed ones, and what is loaded is handed on in its stage. That is `NoUseAfterFree`.
- `Scope`: only batches in flight or open hold anything, and with a block search there is
  one of them, so the filerecs listed are those of the open batch or of its trees.
- `Targets`: what an item in flight was loaded with. Items of one content have one target;
  a whole-file item has at least two copies where an extent item has none of them; and a
  worker is at the elected target before it has opened another one. `DisjointPasses` and
  `TargetStays` follow.
- `Exit`: as long as no load failed and no signal came, the watermark in memory is where the
  windows are, or a batch in flight will take it there; and unless the last write failed, the
  one in the hashfile is the same.
- `Conv`: how far a group has come together. Before a phase, what earlier runs dealt with
  lives where the copy that leads does; during it, each copy of a window that was loaded is
  tied to the leading copy or an item still to be done answers for it; after a clean exit,
  all are tied. `Due`, the later of the generations of a copy and its leader, says in which
  window that is decided, and `Apart` what it cannot say (section 6).

`DedupeIoctlProofs` proves for any number of destinations and any lengths, from
`ConstantsOK` of `DedupeIoctl` (rounds and calls are whole blocks):

- `Types`: `Spec => []TypeOK`, no subtraction of lengths underflows.
- `StaysInStep`: `Spec => []InStep`.
- `CreditIsReal`: `Spec => []CreditReal`.
- `Implements`: `Spec => Requests!Safety`, the safety part of `EachAnsweredOnce`.
- `RoundsComplete`: `Spec => []Complete`.

`InStep` holds although each destination moves by its own answer and the source by
the largest one. The invariant `IInv` says why: an answer is nothing, the whole
blocks of a call, or all of it (`AnsweredCall`), and a call that ends inside a block
is all that is left of the range (`Round`). So a destination that falls behind one
that went further does so only when nothing is left to ask for (`Progress`). `ListsOK`
says in which list a request can be at each stage, and `Credit` that a total never
exceeds what is shared.

For `Complete`, `Covered` says that each destination the kernel did not refuse has all it is
to get (`Enough`, `Goal`) or is going on with as much as the source is past of (`Going`). The
largest answer of a round moves the source, and whoever gave less has reached its own goal
(`ProcessCovered`). `Whole` adds that the source moves by whole blocks but for the end. The
retry with whole blocks needs the EINVAL of the first destination; under the condition that
`Complete` has on the kernel (`Heeded`), either all destinations get it or none.

`DedupeGroupProofs` proves for any number of workers, groups of any length, any
sharing of files and any limit of the ioctl, from `GroupsOK` of `DedupeGroup`
(groups have at least two members, an ioctl takes at least a source and a
destination): `GroupTypes`, `GroupFdsCounted`, `GroupUsesItsOwn`,
`GroupNothingLeft`, `GroupHasRoom`, `GroupAccounted` and `GroupRowsKept`, each
`Spec => []P` for the invariant of its name.

What a worker owns is the invariant `Local`: where its context and target can be at
each stage (`Where`), that the members up to its position and no others were
counted once, but for the queued ones (`Tally`), which files it holds (`Holds`) and
that the context is not full while the loop goes on (`Room`). The steps of w keep
`Local(w)` and touch nothing that `Local(v)` speaks of (`LocalSame`, `OneSteps`).
Workers meet only in `fd` and `fd_refs`: `OpenOnceStep` and `CloseOneStep` show that
the count stays the number of holders, so a held file has an open descriptor
(`HeldIsOpen`), and with `Holds` that is `UsesItsOwn`.

`ScanWalkProofs` proves for any number of walkers and csum workers, any trees, and any
faults and signals, from `ScanWalkConstants` and `WorldsOK` of `ScanWalk` (there is a walker,
finitely many; no path is the sentinel or what a worker does when it has none; roots and
checkpoints are paths of the tree, and a checkpoint is of a file with something in it) and
`SizesOK` (a largest size exists, since sizes have a width); the last two also from `TreesOK`
(finitely many paths, in trees of directories, and a uuid belongs to one filesystem. The code
tells filesystems other than btrfs by their device; were one a block copy of another,
`Due`, which goes by the uuid, could not tell them apart):

- `WalkStopIsLast`: `Spec => []StopIsLast`, what the comment on `walk_dir_pending`
  (`file_scan.c:1688-1694`) claims.
- `SubvolumesCountedOnce`: `Spec => []CountedOnce`.
- `ExitIsHonest`: `Spec => []HonestExit`.
- `EverythingHashed`: `Spec => []AllHashed`.
- `ListsOnlyDue`: `Spec => []OnlyDue`.
- `ListsAllDue`: `Spec => []AllDue`.

`StopIsLast` does not mention the counter, on which it rests. `IInv` has the walk either
`Going`: the counter is the number of directories queued, plus that of walkers with one
in hand, plus one while the main thread seeds, it is not zero, and no queue has a
sentinel; or `Over`: no walker has a directory, the directory queue holds sentinels
only, and the file queue ends in its only one. `FinishedKeeps` is the one step between
the two: when the counter falls from 1, the sum says that nothing is queued and nobody
else is busy. `PushKeepsGoing` and `EntryKeeps` show that a directory is counted before
the one it was found in is counted off. `CountedOnce` has an invariant of its own
(`Counts`): only a device that has been asked is counted.

`Honest` follows the verdict on FIDEDUPERANGE from the first root to the exit status.
`AllHashed` rests on `Once`, that an inode taken is in one place of the work queue, in one
worker's hands, or hashed, and nothing in two; and on `Kept`, that while nothing has failed
an inode that was taken is in one of the three, and what a walker listed is still in the
file queue or was handled. The step that could lose one is the wakeup: `Starve` sends a
worker to sleep only over an empty queue, and `Kept` has a worker gone only once the queue
is closed and empty.

`OnlyDue` and `AllDue` compare the walk with levels below the roots. `DueIsReach` first shows
these to end at the least set closed under going down (`Reach`): a level either adds a
path or is the last, and there are only so many. `Locks` says what is known of the
filesystem, so a cached device is one of its subvolumes; `Held`, that what is queued or in
hand is in `Reach`, and which tests an entry has passed that waits for an ioctl. With both, a
walker lists what is due. A checkpointed file goes another way, up from the file: `AboveIs`,
`AboveInLine` and `SeededIsReached` show that a path from which every directory up to
its root would be taken is reached from there. `NoneMissed`, while nothing failed: there is a
set of paths met, and what is missing from it has its directory queued, or a walker that
reads it has it left (`Met`). When the walk is over that set is closed, so it has all of
`Reach`. A failed question only makes `Reach` larger (`Growing`, `MoreReach`), and no step in
which nothing failed does.

`HashfileRunsProofs` proves for any command lines, any roots and any number of runs, faults
and kills, from `HashfileRunsConstants`, `CommandsOK` and `FoundOK` of `HashfileRuns`
(every scan has a hashfile; the hashfiles found are ones that earlier runs can have left):

- `HashfileOneBlocksize`: `Spec => []OneBlocksize`.
- `HashfileReplayWhole`: `Spec => []ReplayWhole`.
- `HashfileLeftAlone`: `Spec => LeftAlone`, an action property.
- `StatusIsHonest`: `Spec => []HonestStatus`.
- `RunsReopen`: `Spec => []Reopens`. Not for all that a killed run can leave: what was killed
  after the `config` table and before the brand is refused for good (section 6), and the
  antecedent of `Reopens` leaves it out.

`IInv` says at which points of a run the process and the hashfile agree. `Blocksizes`: from the
check on, the run has the block size that is stored or, before it is stored, that nothing
contradicts; a rebuild empties the rows with it. `Turned`: a foreign file keeps every run at
its opening. `Replays`: a bare replay that found this version's hashfile still has it.
`Remembers`: what is stored is what was last stored whole, since the transaction's state is in
the process until it commits.

`HInv` adds to it, for the status, `Told` (a run's roots are those of its command line or, in a
replay, the stored ones that exist) and `Reaches` (below the roots of a scan that counted none as
unusable is nothing but what it has seen, has to do, or reported as unreadable); and for `Reopens`, `Welcome`: an undisturbed run
over what was killed before meets nothing at any stage that stops it. `Among`, the roots that exist in the
order given, is a recursive function; what it keeps is proved with `CountUp` and
`StepByStep` of `LeastElements`, induction as the lack of a least counterexample.

`FileListingProofs` proves for any files, names and roots, any number of changes and runs,
from `ListingConstants` of `FileListing` (no file is `NoFile`, roots are sets of names):

- `ListingTypes`: `Spec => []Types`.
- `HashesAreFresh`: `Spec => HashedIsFresh`, an action property, but for files resumed
  although their row could not be moved (`late`).
- `RequestsHaveTheirRows`: `Spec => []RequestsOwnRows`.
- `HashedAndCommittedStay`: `Spec => CommittedStays`, an action property.
- `QuietRunsSettle`: `Spec => []Settled`.

`Due` says that the row of every request that is not `late` is in a generation that the dedupe
phase has still to look at. `RequestsOwnRows` needs far more, since a request is an id, and ids and names go from file to
file. A row is in danger where its name holds, or held when it was read, a second file.
`Owned` says of each such pair why it is harmless: if the row of a request may yet be replaced,
the file is not there any more as it was listed (`JobsListed`); what another row may be
replaced by has no row itself that would be renamed to this one, unless nobody asks for it
any more (`RowsLeft`); the items of the file queue keep apart in the same way, a walked one
from a seeded one too (`ItemsListed`); the snapshot's row of a file is the batch's, unless
the file is gone (`Remembered`); and a name is read once (`WalkOnce`). The hard steps are
`StoreFileRow`, which may remove two rows and rename a third, and `ResumeScan`, which trusts
the snapshot.

`CommittedStays` rests on `Kept`, which holds as long as nothing changes during a run: the
batch has what is committed and true as well; of a file that is not queued yet the listing
sees what the batch has (`Agreed`); and a request's row has no digest yet, and each file has
one request at most (`Unhashed`). So neither the commit of a unit nor the loss of the batch
takes a digest away, and the listing, although it reads a snapshot, does not queue a hashed file.

`Settled` needs two more, of histories without mistakes. `Honest`: a digest or a checkpoint of
the version that a file has now is of what it holds, in the rows of `disk`, `batch` and the
snapshot as well as with the workers (`Trusted`). Versions that a file had before may say
anything; what matters is that nothing takes them for the present one. `Distinct`: no file and
no name has two rows. `Settling` then says how far an undisturbed run has come. Each file is
ahead of the listing (`Ahead`) or has a row at its name that is hashed or that a request is out
for (`Covered`); the ids seen are those of files that exist. At the end of the scan no request is
left, so each file has a true row; at the prune `Distinct` makes it the only one, and a row that the
prune leaves is of a deleted file at whose name there is another, whose own row has
another name.

`HashResumeProofs` proves for files of any shape, with any versions and maps, any block size,
distance of checkpoints and size of a flush, and any number of runs, kills, signals, failed
writes, rewrites and moves, from `ShapeOK` of `HashResume` (an extent map is a finite set of
extents that do not overlap, and the maps of a version have their holes and preallocated
space at the same places):

- `DigestsAreContent`: `Spec => [](~astray => DigestIsContent)`, with runs of any options and any
  failures, as long as no code of a failed block store has been taken as a length: the claim of
  `test_hash_resume.py:9-11`, of the digest.
- `StagedIsNew`: `Spec => []NoKeyTwice`.
- `CheckpointsGo`: `Spec => []CheckpointOnlyUnhashed`.
- `ExtentsAreTrue`: `OneKind` implies `Spec => [](~astray => ExtentsAreContent)`, likewise.
- `NothingIsSkipped`: `NeverFailed` and `OneMode` imply `Spec => []NothingSkipped`.
- `CheckpointsArePrefixes`: `NeverFailed` and `OneKind` imply `Spec => []CheckpointIsPrefix`.
- `CheckpointsAreKept`: `NeverFailed` and `OneKind` imply `Spec => CheckpointKept`.

All of them are shown up to the step that takes a code as a length (`~astray`, which no step
undoes: `StaysAstray`); in the last three no write fails, and `NoFault` shows that then there is no such
step, as every flush finds its keys free. What `DigestIsContent` says beyond it, of files
without holes and preallocated space, is only model-checked.

Five invariants. `Agree`, for the digest: what the hashfile, committed or staged, says of the
version on disk is what a straight scan would say (`Right`); the reader's digest is a straight
scan's up to its offset, unless the file was written since it was listed, and the row it is
going to is of the version that was listed (`Reader`, `Writer`). A checkpoint of another version
is refused by its mtime, which is why `Right` need not say anything of it. A move of the file in the
middle of a scan changes no byte, and holes stay where they are, so the straight scan of the
new map is that of the old one.

`Keys`, while no write failed: what is stored and staged lies before the reader's offset, and when
a worker opens the file, before the checkpoint it got (`Opening`, `Reading`); no stored extent
goes on behind a checkpoint (`Keyed`), as an extent is stored with the checkpoint behind it or with
the digest. A row is so new if it starts where the reader is, and a checkpoint is there only if
the worker knows of it, so the final unit drops it. With a failed write neither property is
claimed (section 6).

`Contents`, for the extents: what a checkpoint or the reader carries is the digest of what the
open extent has before the offset (`Carries`, `Carry`), with no more than one extent open
(`OneOpen`). Adopting a checkpoint (`CarryAdopted`), a read (`ReadCarries`), a hole (`HoleShuts`)
and the end of an extent keep that. `OneKind` is that no run is given `only_whole_files` or all are: a
whole-file run passes the digest on as it found it, the first item on resuming in
section 6.

`Coverage`, while no write failed: each data byte before an offset is in one stored or staged
row, except that those of the extent the offset is inside of are in none (`Covers`; `Behind` says
the same of a checkpoint in the terms it has, as it may be of another map of the file), and the
blocks are exactly those a straight scan stores so far (`StraightBlocksAre`, `BlocksRead`,
`BlocksHole`). Every read or hole adds one extent at the most (`CoversRead`, `CoversHole`), and on
resuming the rows behind the checkpoint are gone (`CoversAdopted`). `NeverFailed` and `OneMode`, that
all runs have the same mode, are needed: without them hashes do stay missing, the second and the
third item in section 6.

`Lasting`, while no write failed: as long as a committed checkpoint is of the version on disk and
that lies in one map only (`Steady`), the batch is as far as what is committed, or further (`Ahead`).
The two ways to lose it do not happen. `resume_scan()` finds the committed row, and by `Coverage` its
checkpoint is usable, so neither is it deleted nor the row replaced. `adopt_resume()` does
not decline it (`Adopts`), because the extent state saved with it is what the open extent there has
(`Placed`); a whole-file run that came between could have left a checkpoint without one,
hence `OneKind`.

Only proved, as the instances would not show more: `TypeCorrect`, `Types`, `GroupTypes`,
`ListingTypes`, `StaysInStep`, `GroupFdsCounted`, `GroupHasRoom`, `GroupRowsKept`, `SubvolumesCountedOnce`.

Only model-checked: liveness (`PhaseEnds`, the fair part of `EachAnsweredOnce`, `GroupsEnd`,
`Converges`, `WalkEnds`), which is out of the prover's reach, and `DigestIsContent` of a file whose offset
went astray. Every other invariant and every action property of the passing runs is proved.

## 5. Plan

What is there: `StreamDedupe`, `DedupeIoctl` with `DedupeRequests`, `DedupeGroup`,
`HashResume`, `FileListing`, `ScanWalk` and `HashfileRuns`. What could follow, in this order:

1. `FileListing`: the layout copied from a donor.
2. `StreamDedupe`: an abstract `Watermark` specification (a prefix of generations that only
   grows, done before it is named) that it implements.
3. `DedupeGroup`: an abstract "each member gets one verdict" that it implements, and
   `StreamDedupe`'s steps as its abstraction.
4. `ThreadPool`: wait-idle and free against push.
5. Algorithms: extent maps, path patterns, the block comparison, against
   reference definitions.

## 6. Disagreements between code and comments

Two runs show one each.

`walk_dropped_root`: as long as no root has locked the run onto a filesystem,
`check_file()` turns a root whose `probe_fs()` fails down with `seed_reject()`
(`file_scan.c:1466-1468`, `1497-1499`). That sets `seed_fs_lock_failed`, which counts
only if no root is seeded at all, and leaves `nr_roots_unusable` alone. With such a root
first and a good one second the run exits 0 and has not covered a root it was given;
with the good one first it exits 2. `test_exit_status.py:11` says that exit 2 means
"completed, but covered less than asked", and `file_scan.c:1331-1334` that a dropped
root is counted "so the run exits 2. It used to be dropped with no message and exit 0".

`runs_filesystem`: rows are committed while the scan runs, the filesystem's uuid after
it (`oans.c:1943`). A first run that is killed, or that loses a batch, leaves rows and
no uuid. The next one takes the hashfile for empty (`file_scan.c:1463`: "hashfile was
empty. We lock on the file.") and may lock it onto another filesystem; then rows of both
are in it. `test_scan_scope.py:66-84` wants that refused. A run none of whose roots
resolves has the same effect: it ends with exit 2 and stores the null uuid of
`locked_fs` over the one that was there, and a configuration without roots over the one
for the replay.

The others were met while modelling, and seen with TLC on variants of the runs above;
what the properties leave out because of them is said in each case.

`dbfile.c:1223` says of a window's duplicates that "the old copies - already
mutually shared from their own pass - never need reloading". They
need not be: the elected target is deleted
after the prune and before the workers of two windows open it. Each window falls
back on its own first member, the copies end up on two different storages, both
windows count as done, and later runs load only new copies and one target. The
space is reclaimed only once a new target is elected that is itself a new file.
`Convergence` leaves out the groups that lost a member. It leaves out one more kind (`Apart`), an
extent group that lost a copy to a whole-file group and of which a worker had to pass over
another. That other one may be what later windows dedupe against, so that copies nobody passed
over stay apart. It takes five files to see.

`dedupe_advance_seq()` drops the result of its write (`oans.c:1381`), although the comment at
`oans.c:1358` calls what it moves durable. A lost write is made good by that of the next window;
after the last window there is none, the run exits clean, and the next one loads and
dedupes again what lies above the old watermark. `ExitMeansDone` leaves out
that one case (`unsaved`).

`__scan_file()` ignores that the unit fails which moves the row of a file it resumes into this run's
generation (`file_scan.c:2729-2734`), and queues the file. If the watermark has reached the old
generation by then, the hashes land where, says the comment above it (`2722-2726`),
dedupe never looks; the file waits for a change. `HashedIsFresh` leaves out the answer to
such a request (`LateAnswer`); without that, TLC finds it violated with one failed write.

`file_scan.c:266-268` says that units were introduced because rolling back the whole
batch "used to leave workers writing hashes against ids that were gone, or that the
next insert reused for another file". There is another way there.
`a` (at `x`) and `b` (at `y`, with a second link `z`) have checkpoints, and `mv x y` comes
before the next run. Storing `a` renames its row to `y`, which deletes `b`'s, and the new
row of `a` gets the id of `b`'s. The listing's snapshot still shows `b`'s row, unchanged and
with its checkpoint, and `resume_scan()` queues it: two workers write to one row.
If the id is not reused, the file is hashed for nothing. `RequestsOwnRows` and `Settled`
hold as long as no file was displaced, that is, moved away from the name of its row
while another file took that name, at the start of a run or during it (`Displaced`, `calm`).

Both also leave out histories in which an inode number is used again during a run while the
snapshot or the batch has a row of the file that had it before (`Reborn`; `RequestsOwnRows`
in the run at hand, `Settled` in any, in `mistaken`). `rename_if_needed()` goes by the id of
the snapshot's row, which may be another file's in the batch by then, and renames that. With three
files TLC finds two requests with one id: `g` is queued, unlinked, and `f`'s old
inode number comes up at its name; `f`'s row moves there and gives way to a new one with
the id of `g`'s. TLC has not seen a false row come of it; the proof of `Settled` needs
requests to own their rows, in earlier runs as well.

What `RequestsOwnRows` allows is a row lost to what replaced the file at its name, and it
compares the version as well: a row may go to another file at its name which is unlinked
again before the file comes back there. `is_file_renamed()` takes such a file for
a hard link: of two hashed files that swap their names neither is noticed, and each row
keeps the other's path. `Settled` names one more exception: the row of a deleted file
stays while its name is one of several links to another file.

A worker opens the path it was given and does not ask whether that is still the inode
which was listed (`file_scan.c:4066`). If a file has two names, the listed one is unlinked and another
file is created there before it is opened, the other file's content is hashed into the row of the
first, with the first one's mtime and size. As the first file lives on unchanged under its second
name, later runs find its row up to date and leave the digest as it is, until the file
is written. Three changes do it. Nothing is deduped wrongly, as the kernel compares the data, but
copies of the file are not found. `mistaken` leaves this case out of `Settled` (`Misled`).

`dedupe.h:45-50` says of a context's `aligned` that a request's destination came back
EINVAL once and its lengths are rounded down from there on. The retry at
`dedupe.c:509` looks at `info[0]` only: if the first destination ends with its file and
is taken, and the second goes on behind the range, a kernel that rejects unaligned
lengths fails the second one and none of it is shared. `Complete` leaves that case out.

The others are about resuming (`HashResume`). `test_hash_resume.py:9-11` states the
property: a file hashed across any number of interruptions has "exactly the digest,
extent hashes and block hashes it would have had from one straight-through scan".

- A default run checkpoints inside an extent, with the digest
  of the extent so far. A run with `only_whole_files` takes it up, feeds no extent, and
  saves the same digest with a later offset (`write_checkpoint()` does not ask for the
  options). A default run finds the same extent there and finishes a digest that
  lacks the bytes between.
- In runs of different options some hashes are never computed: `adopt_resume()` notices missing extent
  state inside an extent only. On an extent's edge, or when the run that resumes wants
  block hashes and the one before did not, the hashes before the offset stay missing,
  and the file counts as hashed.
- `store_extent_batch()` and `store_block_batch()` reset their
  index before the checkpoint's unit is through. If it fails later it is rolled back,
  hashing goes on without checkpoints, and the digest is stored without those hashes.
- `CheckpointOnlyUnhashed` needs its `faults = 0`: `decline_resume()` ignores whether the
  checkpoint could be deleted, and the worker takes it for gone, so the final unit
  leaves it beside the digest. `dbfile.c:491-493` says it is dropped the moment the
  digest lands. Nothing reads the row of a hashed file.
- A flush of block hashes that fails with a code of SQLite's does not end the file: the
  code is taken as the number of bytes processed (`file_scan.c:3340-3341`, `file_scan.c:4174-4178`),
  and hashing goes on so many bytes further. `file_scan.c:3240-3241` says that "block boundaries - and
  therefore block hashes - stay identical to a plain read", and `file_scan.c:3482-3483` that "a block
  hashed at an offset a plain read would not use matches no other file's". From there on the
  block hashes are of such offsets, and so is the next checkpoint, which a later run takes up as it
  is. Without holes the file's digest is right nevertheless, as the bytes that were not processed are
  still in the buffer. With holes, or preallocated space, it is not. Take blocks of two cells and a
  file of eight with data in 0-2 and 6-7: a flush that fails at 2 with the code 1 leaves the reader at 3 with
  one byte in the buffer. There the whole block is a hole; it is skipped with a descriptor of
  offset 3 instead of 4, and the byte left over is taken for cell 6, in the digest of the file and in
  that of the extent at 6. The file counts as hashed with a digest no copy has. And if what
  is left before a hole is less than a block, a run with block hashes takes nothing of it and
  reads it again and again until it is interrupted. `Regular` leaves these files out of
  `DigestIsContent` and `ExtentsAreContent`.

The digest of the whole file is right in all of them but the last, as it is fed in every mode alike and
stored in one unit with the last hashes: `DigestIsContent` holds in `resume_faults`, with every mode and two
failed writes. `resume`, where `ExtentsAreContent` and `NothingSkipped` are checked, has one set of options
and no failing write; `ExtentsAreTrue` shows that the failing write does not matter to the first, short of
the last item.

About the walk: a failed `btrfs_subvol_is_readonly()` is cached as "not read-only" (`file_scan.c:1075-1076`)
and a path that does not open is taken for one (`file_scan.c:1128-1130`), so with
`--skip-readonly-subvols` one failed call lists a whole snapshot. `file_scan.c:1427-1430` puts the
cost of such a scan at "reading ~20 TiB". The comments at the calls name the cases they have in mind ("not a
subvolume, or an old kernel", "unreadable is someone else's error to report"); `OnlyDue` counts what is let
in as due.

And about the hashfile:

- `oans.c:626-628` and the manual (`docs/man/oans.md:328-329`) say that after block hashes were dropped
  a later partial run re-hashes the tree to rebuild them. `__scan_file()` leaves an unchanged file with a
  digest alone whatever the options are (`file_scan.c:2687-2692`), so it does not; the same goes for a
  tree first scanned without partial.
- A run killed while it creates a hashfile, after the `config` table and before the brand, leaves a file
  with a schema, no `application_id` and no version row. `dbfile_identify()` takes that for another program's
  (`dbfile.c:305-318`), and every later run refuses it; the manual (`docs/man/oans.md:664-667`) says that
  one can stop and re-run. `Reopens` asks for a branded file, or one without a schema.
- A failed read of `application_id` is 0 (`dbfile_query_u64()`, `dbfile.c:225-234`), `dbfile_check()` takes that
  for a foreign file (`dbfile.c:389`), and `dbfile_prepare()` unlinks the run's own hashfile
  (`dbfile.c:771-776`), with all the hashes and the stored configuration. `dbfile.c:246-250` says of the
  other reader that "a failure is an error rather than a 0" and must not read as "empty".
  `LeftAlone` allows it, at that place and for that failure only.
- Directories that cannot be read are reported and counted as skipped, and the run still exits 0
  (`file_scan.c:1759-1766`); the same goes for the roots of `walk_dropped_root`. `HonestStatus` therefore promises
  what is below the roots except what was `unread`.
- When `dbfile_prepare()` cannot unlink a hashfile of another version it returns with the handle
  closed (`dbfile.c:774-782`), and the caller closes it again (`dbfile.c:978-980`).

## 7. Not modelled

- Results trees, path patterns, the block comparison, extent maps beyond `get_extent`: pure data structures and functions,
  which unit tests reach well; on the plan.
- Thread pools: the scan's and the search's pools are in `ScanWalk` and `StreamDedupe`, with GLib's own queue;
  `threads.c` itself is on the plan.
- The progress display, formatting, memory statistics and vendored containers keep no state that
  another part's correctness depends on.
- Two runs that write one hashfile at the same time, which the manual rules out, and power cuts.
- Scans without a hashfile, vacuum, the search indexes, the layout copied from a donor, `skip_zeroes`, inline
  extents, running out of memory (which mostly aborts).
