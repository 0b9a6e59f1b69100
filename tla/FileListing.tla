----------------------------- MODULE FileListing -----------------------------
(***************************************************************************)
(* Which rows the hashfile has, over many runs: the walk lists names, one  *)
(* consumer (__scan_file()) decides for each what its row becomes, csum    *)
(* workers fill rows in by id, and the prune drops rows of deleted files.  *)
(*                                                                         *)
(* The consumer decides from a snapshot of the hashfile that is up to ten  *)
(* seconds old, while it and the workers write to a batch that nobody else *)
(* sees until it is committed.  A signal, a kill or a failed write may end *)
(* a run between any two of these steps, and files come, go, move and      *)
(* change.  How a worker hashes one file is module HashResume's subject;   *)
(* here a digest is the set of contents it was fed, and a version stands   *)
(* for the content and the mtime and size that go with it.                 *)
(***************************************************************************)
EXTENDS Integers, FiniteSets, FiniteSetsExt, Functions

CONSTANTS
    Files,      \* inodes
    Names,      \* paths
    NoFile,     \* what a free name holds
    Roots,      \* the sets of names a run may be pointed at
    MaxChanges, \* bound on changes to the file system
    MaxFaults,  \* bound on failed writes
    MaxListed   \* bound on names the walk is ahead of the consumer

ASSUME ListingConstants ==
    /\ NoFile \notin Files
    /\ Roots \subseteq SUBSET Names
    /\ MaxChanges \in Nat /\ MaxFaults \in Nat /\ MaxListed \in Nat \ {0}

VARIABLES
    tree,       \* name -> the file it holds
    version,    \* file -> what was written to it last
    disk,       \* the rows of the hashfile as committed, by id
    batch,      \* the rows as the scan's open write transaction has them
    snap,       \* what the listing's read transaction sees of inodes it may
                \* still ask for, NoSnap outside one
    run,        \* the run, struct below
    todo,       \* names the walkers have not read yet
    fileq,      \* walk_fileq: what they have read
    jobs,       \* requests queued for hashing or being hashed
    gone,       \* ids the prune has collected
    changes,    \* changes to the file system so far
    faults,     \* failed writes so far
    calm,       \* history: no file was Displaced at the start of a run, or
                \* during it
    mistaken    \* history: an inode number was Reborn or the scan Misled

vars == <<tree, version, disk, batch, snap, run, todo, fileq, jobs, gone,
          changes, faults, calm, mistaken>>

NoRows == [i \in {} |-> 0]
NoSnap == [open |-> FALSE, rows |-> NoRows]
NoCheckpoint == [version |-> 0, fed |-> {}]

\* The records (a digest is a set of pairs of a file and a version):
\*   a row     [ino, name, version, digest, checkpoint, fresh]; one with no
\*             digest has an empty one, fresh says that its generation is
\*             above the watermark of the dedupe phase
\*   its checkpoint [version, fed]
\*   run       [phase, roots, halt, seenIds, seenInodes] and, as history,
\*             missed: a file was passed over, quiet: no change since its
\*             start, reborn: an inode number with a row was used again since,
\*             complete: the last run went through; halt says whether
\*             interrupted() or filescan_batch_lost()
\*   fileq     struct scan_item: [name, ino, version, seed]
\*   jobs      struct file_to_scan: [id, name, ino, version, resume, state, fd,
\*             fed, checkpointed] and, as history, late: its row could not be
\*             moved into the run's generation

(***************************************************************************)
(* The statements of dbfile.c, as functions of the rows.                   *)
(***************************************************************************)
NewId(rows) == Max(DOMAIN rows \cup {0}) + 1

\* ON CONFLICT REPLACE: rows that are in the way go, and their checkpoints.
Without(rows, doomed) == Restrict(rows, DOMAIN rows \ doomed)

Named(rows, name) == {i \in DOMAIN rows : rows[i].name = name}
OfFile(rows, file) == {i \in DOMAIN rows : rows[i].ino = file}

RenameFile(rows, id, name) ==
    IF id \notin DOMAIN rows THEN rows
    ELSE [Without(rows, Named(rows, name) \ {id}) EXCEPT ![id].name = name]

StoreFileInfo(rows, item) ==
    LET rest == Without(rows,
                        Named(rows, item.name) \cup OfFile(rows, item.ino))
        row == [ino |-> item.ino, name |-> item.name, version |-> item.version,
                digest |-> {}, checkpoint |-> NoCheckpoint, fresh |-> TRUE]
    IN  [i \in DOMAIN rest \cup {NewId(rows)} |->
            IF i = NewId(rows) THEN row ELSE rest[i]]

UpdateDedupeSeq(rows, id) ==
    IF id \in DOMAIN rows THEN [rows EXCEPT ![id].fresh = TRUE] ELSE rows

StoreCheckpoint(rows, id, cp) == [rows EXCEPT ![id].checkpoint = cp]

RemoveCheckpoint(rows, id) ==
    IF id \in DOMAIN rows THEN StoreCheckpoint(rows, id, NoCheckpoint) ELSE rows

UpdateScannedFile(rows, id, digest) == [rows EXCEPT ![id].digest = digest]

\* Only the order of ids and the gaps matter: count from the lowest.
Renumber(rows) ==
    LET low == Min(DOMAIN rows \cup {NewId(rows)})
    IN  [i \in {j - low + 1 : j \in DOMAIN rows} |-> rows[i + low - 1]]

PruneUnscanned(rows) ==
    Without(rows, {i \in DOMAIN rows : /\ rows[i].digest = {}
                                       /\ rows[i].checkpoint = NoCheckpoint})

\* A dedupe phase that went through moves the watermark past every row.
RaiseWatermark(rows) == [i \in DOMAIN rows |-> [rows[i] EXCEPT !.fresh = FALSE]]

(***************************************************************************)
(* The file system.  Between two runs anything may happen; during one,     *)
(* files are written, deleted and created, but names are not moved about.  *)
(***************************************************************************)
Holds(file) == {n \in Names : tree[n] = file}
Exists(file) == Holds(file) # {}

Now(file) == <<file, version[file]>>

\* A file that has moved away from the name its row has, while another file
\* has taken that name: is_file_renamed() cannot tell it from a hard link.
Displaced(rows) ==
    \E i \in DOMAIN rows : /\ Exists(rows[i].ino)
                           /\ tree[rows[i].name] \notin {NoFile, rows[i].ino}

\* A file that is queued under one of its names has lost that name to another
\* file, which will be opened in its place, and lives on under a second one.
Misled ==
    \E it \in fileq \cup jobs : /\ Exists(it.ino)
                               /\ tree[it.name] \notin {NoFile, it.ino}

MayChange == changes < MaxChanges

\* During a run, a file is created with the inode number of one that has a row.
Reborn ==
    /\ run.phase # "idle"
    /\ \E rows \in {batch, snap.rows} :
          \E i \in DOMAIN rows : Exists(rows[i].ino)' /\ ~Exists(rows[i].ino)

Changed ==
    /\ changes' = changes + 1
    /\ run' = [run EXCEPT !.quiet = FALSE, !.complete = FALSE,
                          !.reborn = @ \/ Reborn]
    /\ UNCHANGED <<disk, batch, snap, todo, fileq, jobs, gone, faults>>
    /\ calm' = (calm /\ (run.phase = "idle" \/ ~Displaced(batch)'))
    /\ mistaken' = (mistaken \/ Reborn \/ Misled')

Write(file) ==
    /\ MayChange
    /\ Exists(file)
    /\ version' = [version EXCEPT ![file] = @ + 1]
    /\ UNCHANGED tree
    /\ Changed

Unlink(name) ==
    /\ MayChange
    /\ tree[name] # NoFile
    /\ tree' = [tree EXCEPT ![name] = NoFile]
    /\ UNCHANGED version
    /\ Changed

\* An inode number may be one that was used before.
Create(name, file) ==
    /\ MayChange
    /\ tree[name] = NoFile /\ ~Exists(file)
    /\ tree' = [tree EXCEPT ![name] = file]
    /\ version' = [version EXCEPT ![file] = @ + 1]
    /\ Changed

Link(from, to) ==
    /\ MayChange
    /\ run.phase = "idle"
    /\ tree[from] # NoFile /\ tree[to] = NoFile
    /\ tree' = [tree EXCEPT ![to] = tree[from]]
    /\ UNCHANGED version
    /\ Changed

\* rename(2): a file at the new name is lost.
Move(from, to) ==
    /\ MayChange
    /\ run.phase = "idle"
    /\ tree[from] # NoFile /\ tree[to] # tree[from]
    /\ tree' = [tree EXCEPT ![from] = NoFile, ![to] = tree[from]]
    /\ UNCHANGED version
    /\ Changed

(***************************************************************************)
(* A run, and its end.                                                     *)
(***************************************************************************)

Idle(complete, quiet) ==
    [phase |-> "idle", roots |-> {}, halt |-> "no", seenIds |-> {},
     seenInodes |-> {}, missed |-> FALSE, quiet |-> quiet, reborn |-> FALSE,
     complete |-> complete]

Init ==
    /\ tree \in [Names -> Files \cup {NoFile}]
    /\ \A m, n \in Names : tree[m] = tree[n] /\ tree[m] # NoFile => m = n
    /\ version = [f \in Files |-> 1]
    /\ disk = NoRows /\ batch = NoRows
    /\ snap = NoSnap
    /\ run = Idle(FALSE, FALSE)
    /\ todo = {} /\ fileq = {} /\ jobs = {} /\ gone = {}
    /\ changes = 0 /\ faults = 0
    /\ calm = TRUE /\ mistaken = FALSE

Stat(name, seed) == [name |-> name, ino |-> tree[name],
                     version |-> version[tree[name]], seed |-> seed]

\* seed_checkpointed_files() looks at the files of checkpoints first.
Seeds(rows, roots) ==
    {Stat(n, TRUE) : n \in {rows[i].name : i \in
        {j \in DOMAIN rows : /\ rows[j].checkpoint # NoCheckpoint
                             /\ rows[j].name \in roots
                             /\ tree[rows[j].name] # NoFile}}}

Start ==
    /\ run.phase = "idle"
    /\ \E roots \in Roots :
          /\ run' = [Idle(FALSE, TRUE) EXCEPT !.phase = "listing",
                                              !.roots = roots]
          /\ todo' = roots
          /\ disk' = Renumber(PruneUnscanned(disk))
          /\ batch' = disk'
          /\ fileq' = Seeds(disk', roots)
    /\ calm' = (calm /\ ~Displaced(disk'))
    /\ UNCHANGED <<tree, version, snap, jobs, gone, changes, faults, mistaken>>

\* The process dies: what was not committed is not there.
Kill ==
    /\ run.phase # "idle"
    /\ run' = Idle(FALSE, run.quiet)
    /\ batch' = disk
    /\ snap' = NoSnap /\ todo' = {} /\ fileq' = {} /\ jobs' = {} /\ gone' = {}
    /\ UNCHANGED <<tree, version, disk, changes, faults, calm, mistaken>>

\* scan_write_end(): the batch is committed once it has been open for a while.
EndUnit(rows) ==
    /\ batch' = rows
    /\ disk' \in {disk, rows}

Halted == run.halt # "no"

\* The scan is to stop.  Walkers, consumer and workers drain what is queued for
\* them, and what was seen is of no use any more: there will be no prune.
Halt(why) ==
    /\ run.phase \in {"listing", "hashing"} /\ run.halt # "lost"
    /\ run' = [Idle(FALSE, run.quiet) EXCEPT !.phase = "hashing", !.halt = why,
                                             !.reborn = run.reborn]
    /\ todo' = {} /\ fileq' = {}
    /\ jobs' = {job \in jobs : job.state = "reading"}
    /\ snap' = NoSnap
    /\ UNCHANGED <<tree, version, gone, changes, calm, mistaken>>

Signal ==
    /\ Halt("signal") /\ ~Halted
    /\ disk' = IF snap.open THEN batch ELSE disk
    /\ UNCHANGED <<batch, faults>>

\* A commit fails, or SQLite rolls the whole transaction back.
BatchLost ==
    /\ Halt("lost")
    /\ faults < MaxFaults
    /\ faults' = faults + 1
    /\ batch' = disk
    /\ UNCHANGED disk

(***************************************************************************)
(* The listing: walkers and the consumer.                                  *)
(***************************************************************************)
\* A walker reads a name and stats it.
WalkName(name) ==
    /\ run.phase = "listing"
    /\ name \in todo
    /\ Cardinality({item \in fileq : ~item.seed}) < MaxListed
    /\ todo' = todo \ {name}
    /\ fileq' = IF tree[name] = NoFile THEN fileq
                ELSE fileq \cup {Stat(name, FALSE)}
    /\ UNCHANGED <<tree, version, disk, batch, snap, run, jobs, gone, changes,
                   faults, calm, mistaken>>

\* scan_read_flush(): the read transaction is ten seconds old.
Flush ==
    /\ run.phase = "listing" /\ snap.open
    /\ disk' = batch
    /\ snap' = NoSnap
    /\ UNCHANGED <<tree, version, batch, run, todo, fileq, jobs, gone, changes,
                   faults, calm, mistaken>>

\* The head of the file queue: what was seeded, then what the walkers pushed.
Pops(item) ==
    /\ run.phase = "listing"
    /\ item \in fileq
    /\ item.seed \/ \A other \in fileq : ~other.seed
    /\ fileq' = fileq \ {item}

\* Another link to a file that is queued already.
PassOver(item) ==
    /\ Pops(item)
    /\ item.ino \in run.seenInodes
    /\ UNCHANGED <<tree, version, disk, batch, snap, run, todo, jobs, gone,
                   changes, faults, calm, mistaken>>

\* dbfile_describe_file(), with a fresh snapshot if none is open.
Visible == IF snap.open THEN snap.rows ELSE disk

Described(item) == OfFile(Visible, item.ino)

\* Mutant of Renamed: rows keep the name they have.
Renamed_Never(id, item) == FALSE

Renamed(id, item) ==
    /\ Visible[id].name # item.name
    /\ tree[Visible[id].name] = NoFile

Unchanged(id, item) == Visible[id].version = item.version

UpToDate(id, item) ==
    /\ Unchanged(id, item)
    /\ Visible[id].digest # {}
    /\ ~Renamed(id, item)

\* Carry on from its checkpoint?  Asked of a row that is no further.
CheckpointAsked(id, item) ==
    /\ Unchanged(id, item)
    /\ Visible[id].digest = {}
    /\ ~Renamed(id, item)
    /\ Visible[id].checkpoint # NoCheckpoint

CheckpointUsable(id, item) ==
    /\ CheckpointAsked(id, item)
    /\ Visible[id].checkpoint.version = item.version

\* scan_read_tick() leaves the snapshot open.  Of an inode that was queued
\* nothing is read any more, so its row is dropped from what is remembered.
Tick == snap' = [open |-> TRUE,
                 rows |-> Without(Visible, {i \in DOMAIN Visible :
                                    Visible[i].ino \in run'.seenInodes})]

Scans(item) ==
    /\ Pops(item)
    /\ item.ino \notin run.seenInodes
    /\ UNCHANGED <<tree, version, todo, gone, changes, calm, mistaken>>

LeaveAlone(item) ==
    /\ Scans(item)
    /\ \E id \in Described(item) :
          /\ UpToDate(id, item)
          /\ run' = [run EXCEPT !.seenIds = @ \cup {id}]
    /\ Tick
    /\ UNCHANGED <<disk, batch, jobs, faults>>

\* Mutant of Queue: the inode is not remembered.
Queue_ForgetsInode(item, id, resume, late) ==
    /\ run' = [run EXCEPT !.seenIds = @ \cup {id}]
    /\ jobs' = jobs \cup {[id |-> id, name |-> item.name, ino |-> item.ino,
                           version |-> item.version, resume |-> resume,
                           state |-> "queued", fd |-> NoFile, fed |-> {},
                           checkpointed |-> resume # {}, late |-> late]}

Queue(item, id, resume, late) ==
    /\ run' = [run EXCEPT !.seenIds = @ \cup {id},
                          !.seenInodes = @ \cup {item.ino}]
    /\ jobs' = jobs \cup {[id |-> id, name |-> item.name, ino |-> item.ino,
                           version |-> item.version, resume |-> resume,
                           state |-> "queued", fd |-> NoFile, fed |-> {},
                           checkpointed |-> resume # {}, late |-> late]}

\* Mutant of ResumeScan: the row stays in its generation.
ResumeScan_OldGeneration(item) ==
    /\ Scans(item)
    /\ \E id \in Described(item) :
          /\ CheckpointUsable(id, item)
          /\ EndUnit(batch)
          /\ Queue(item, id, Visible[id].checkpoint.fed, FALSE)
    /\ Tick
    /\ UNCHANGED faults

\* A file whose hashing was interrupted goes on, in this run's generation.  The
\* unit that moves its row there may fail: the file is queued all the same.
ResumeScan(item) ==
    /\ Scans(item)
    /\ \E id \in Described(item), late \in BOOLEAN :
          /\ CheckpointUsable(id, item)
          /\ IF late THEN faults < MaxFaults /\ faults' = faults + 1
             ELSE UNCHANGED faults
          /\ EndUnit(IF late THEN batch ELSE UpdateDedupeSeq(batch, id))
          /\ Queue(item, id, Visible[id].checkpoint.fed, late)
    /\ Tick

\* A row without a checkpoint to carry on from is written anew.  Dropping a
\* checkpoint of no use is a unit of its own, which may commit the batch.
StoreFileRow(item) ==
    /\ Scans(item)
    /\ \A id \in Described(item) :
          ~UpToDate(id, item) /\ ~CheckpointUsable(id, item)
    /\ LET old == IF Described(item) = {} THEN 0
                  ELSE CHOOSE id \in Described(item) : TRUE
           dropped == old # 0 /\ CheckpointAsked(old, item)
           asked == IF dropped THEN RemoveCheckpoint(batch, old) ELSE batch
           named == IF old # 0 /\ Renamed(old, item)
                    THEN RenameFile(asked, old, item.name) ELSE asked
           stored == StoreFileInfo(named, item)
       IN  \/ /\ batch' = stored
              /\ disk' \in {disk, stored} \cup (IF dropped THEN {asked} ELSE {})
              /\ Queue(item, NewId(named), {}, FALSE)
              /\ UNCHANGED faults
           \/ /\ faults < MaxFaults     \* scan_write_abort(): skip the file
              /\ faults' = faults + 1
              /\ EndUnit(asked)
              /\ run' = [run EXCEPT !.missed = TRUE]
              /\ UNCHANGED jobs
    /\ Tick

\* The queue is empty and the walkers are through.
ListingDone ==
    /\ run.phase = "listing"
    /\ todo = {} /\ fileq = {}
    /\ run' = [run EXCEPT !.phase = "hashing"]
    /\ snap' = NoSnap
    /\ disk' = IF snap.open THEN batch ELSE disk
    /\ UNCHANGED <<tree, version, batch, todo, fileq, jobs, gone, changes,
                   faults, calm, mistaken>>

(***************************************************************************)
(* The csum workers.                                                       *)
(***************************************************************************)
InScan == run.phase \in {"listing", "hashing"}

Drop(job) == jobs' = jobs \ {job}
Becomes(job, next) == jobs' = (jobs \ {job}) \cup {next}

Fed(job) == job.fed \cup {Now(job.fd)}

\* There is nothing to open at the name any more.
DropJob(job) ==
    /\ InScan
    /\ job.state = "queued"
    /\ tree[job.name] = NoFile
    /\ Drop(job)
    /\ run' = [run EXCEPT !.missed = TRUE]
    /\ UNCHANGED <<tree, version, disk, batch, snap, todo, fileq, gone, changes,
                   faults, calm, mistaken>>

\* Open what the name holds now; adopt_resume() may decline the checkpoint if
\* that is something else.  (Of the same content in other extents: HashResume.)
OpenJob(job) ==
    /\ InScan
    /\ job.state = "queued"
    /\ tree[job.name] # NoFile
    /\ LET open == [job EXCEPT !.state = "reading", !.fd = tree[job.name],
                              !.resume = {}]
       IN  \/ /\ Becomes(job, [open EXCEPT !.fed = job.resume])
              /\ UNCHANGED <<disk, batch>>
           \/ /\ job.resume \notin {{}, {Now(open.fd)}}
              /\ Becomes(job, [open EXCEPT !.checkpointed = FALSE])
              /\ EndUnit(RemoveCheckpoint(batch, job.id))
    /\ UNCHANGED <<tree, version, snap, run, todo, fileq, gone, changes,
                   faults, calm, mistaken>>

\* write_checkpoint(): its unit commits the whole batch.  A row that is gone
\* fails it, and the file goes on without.
CheckpointJob(job) ==
    /\ InScan /\ run.halt # "lost"
    /\ job.state = "reading"
    /\ job.id \in DOMAIN batch
    /\ batch' = StoreCheckpoint(batch, job.id, [version |-> job.version,
                                                fed |-> Fed(job)])
    /\ disk' = batch'
    /\ Becomes(job, [job EXCEPT !.fed = Fed(job), !.checkpointed = TRUE])
    /\ UNCHANGED <<tree, version, snap, run, todo, fileq, gone, changes, faults,
                   calm, mistaken>>

\* The final unit.  The hashes of a row that is gone violate a foreign key.
FinishJob(job) ==
    /\ InScan /\ run.halt # "lost"
    /\ job.state = "reading"
    /\ Drop(job)
    /\ IF job.id \in DOMAIN batch
       THEN EndUnit(UpdateScannedFile(
                IF job.checkpointed THEN RemoveCheckpoint(batch, job.id)
                ELSE batch, job.id, Fed(job)))
       ELSE UNCHANGED <<disk, batch>>
    /\ run' = [run EXCEPT !.missed = @ \/ job.id \notin DOMAIN batch]
    /\ UNCHANGED <<tree, version, snap, todo, fileq, gone, changes, faults,
                   calm, mistaken>>

\* The run is halted, the size has changed while reading, or the unit failed.
GiveUp(job) ==
    /\ InScan
    /\ job.state = "reading"
    /\ \/ (Halted \/ Now(job.fd) # <<job.ino, job.version>>)
          /\ UNCHANGED faults
       \/ faults < MaxFaults /\ faults' = faults + 1
    /\ Drop(job)
    /\ run' = [run EXCEPT !.missed = TRUE]
    /\ UNCHANGED <<tree, version, disk, batch, snap, todo, fileq, gone, changes,
                   calm, mistaken>>

\* filescan_free(): the workers have joined and the batch is committed.
ScanDone ==
    /\ run.phase = "hashing"
    /\ jobs = {}
    /\ disk' = batch
    /\ run' = IF Halted THEN Idle(FALSE, run.quiet)
              ELSE [run EXCEPT !.phase = "prune"]
    /\ UNCHANGED <<tree, version, batch, snap, todo, fileq, jobs, gone, changes,
                   faults, calm, mistaken>>

(***************************************************************************)
(* The prune, and the dedupe phase as far as it concerns the rows.         *)
(***************************************************************************)
\* Mutant of PruneCollect: whatever this run has not come across is gone.
PruneCollect_Unseen ==
    /\ run.phase = "prune"
    /\ gone' = DOMAIN disk \ run.seenIds
    /\ run' = [run EXCEPT !.phase = "delete"]
    /\ UNCHANGED <<tree, version, disk, batch, snap, todo, fileq, jobs, changes,
                   faults, calm, mistaken>>

PruneCollect ==
    /\ run.phase = "prune"
    /\ gone' = {i \in DOMAIN disk : /\ i \notin run.seenIds
                                    /\ tree[disk[i].name] = NoFile}
    /\ run' = [run EXCEPT !.phase = "delete"]
    /\ UNCHANGED <<tree, version, disk, batch, snap, todo, fileq, jobs, changes,
                   faults, calm, mistaken>>

PruneDelete ==
    /\ run.phase = "delete"
    /\ disk' = RaiseWatermark(Without(disk, gone))
    /\ batch' = disk'
    /\ gone' = {}
    /\ run' = Idle(~run.missed /\ run.roots = Names, run.quiet)
    /\ UNCHANGED <<tree, version, snap, todo, fileq, jobs, changes, faults,
                   calm, mistaken>>

Next ==
    \/ Start \/ Kill \/ Signal \/ BatchLost
    \/ Flush \/ ListingDone \/ ScanDone \/ PruneCollect \/ PruneDelete
    \/ \E file \in Files : Write(file)
    \/ \E name \in Names :
          \/ Unlink(name) \/ WalkName(name)
          \/ \E file \in Files : Create(name, file)
          \/ \E to \in Names : Link(name, to) \/ Move(name, to)
    \/ \E item \in fileq :
          PassOver(item) \/ LeaveAlone(item) \/ ResumeScan(item)
             \/ StoreFileRow(item)
    \/ \E job \in jobs :
          DropJob(job) \/ OpenJob(job) \/ CheckpointJob(job) \/ FinishJob(job)
             \/ GiveUp(job)

Spec == Init /\ [][Next]_vars

-----------------------------------------------------------------------------
(***************************************************************************)
(* Correctness.                                                            *)
(***************************************************************************)

\* A row that says of its file what is true of it: where it is, what was last
\* written to it, and a digest of just that.
True(row) ==
    /\ tree[row.name] = row.ino
    /\ row.version = version[row.ino]
    /\ row.digest = {Now(row.ino)}

KnownFiles == {disk[i].ino : i \in {j \in DOMAIN disk : True(disk[j])}}

\* After a run over the whole tree that was not cut short, that passed nothing
\* over and during which nothing changed, the hashfile describes the tree: each
\* file has a row, and its row is true.  Whatever earlier runs left behind:
\* checkpoints, rows of deleted, replaced, renamed or rewritten files, digests
\* of what was at a name only when it was opened.  The only other rows are of
\* deleted files whose name is now one of several links to another file.
\* (Without a file displaced: of two that swapped names, neither is noticed.
\* Without one misled: what is opened at the name of a file with several is
\* hashed as that file, whose own mtime goes on vouching for it.  And without an
\* inode number used again during a run: the row it had may be renamed, and take
\* the place of one that a worker has been asked to fill.  README 6.)
Settled ==
    calm /\ ~mistaken /\ run.complete /\ run.quiet =>
        /\ \A f \in Files : Exists(f) => OfFile(disk, f) # {}
        /\ \A i \in DOMAIN disk :
              \/ True(disk[i])
              \/ /\ ~Exists(disk[i].ino) /\ tree[disk[i].name] # NoFile
                 /\ Holds(tree[disk[i].name]) # {disk[i].name}

\* A request that waits for a worker, or that one works on, carries the id of
\* its own file's row; it may have lost it only to what has replaced the file
\* at its name since it was queued.  Workers write "hashes against ids that
\* were gone, or that the next insert reused for another file" if this fails
\* (file_scan.c:266-268).  As long as no file was displaced, from whose stale
\* row resume_scan() queues an id that is gone or another's, and no inode number
\* reused, under which rename_if_needed() renames a row of that id (README 6).
RequestsOwnRows ==
    calm /\ ~run.reborn /\ run.halt # "lost" =>
        \A job \in jobs :
           IF job.id \in DOMAIN batch THEN batch[job.id].ino = job.ino
           ELSE <<tree[job.name], version[job.ino]>> # <<job.ino, job.version>>

\* What was hashed and committed about a file that has stayed as it was stays
\* in the hashfile, whatever becomes of the run: rows are replaced, renamed,
\* pruned, resumed and rolled back around it.
CommittedStays ==
    [][calm /\ run'.quiet =>
          KnownFiles \subseteq KnownFiles']_vars

\* A request whose row stayed in its old generation has been answered.
LateAnswer(i) == \E job \in jobs : job.id = i /\ job.late /\ job \notin jobs'

\* Hashes get into the hashfile above the watermark of the dedupe phase, which
\* never looks at what is at or below it; but for those of a file that was
\* resumed although its row could not be moved above it (README 6).
HashedIsFresh ==
    [][\A i \in DOMAIN batch \cap DOMAIN batch' :
          batch[i].digest = {} /\ batch'[i].digest # {} /\ ~LateAnswer(i)
             /\ run'.phase = run.phase /\ run'.halt = run.halt =>
             batch'[i].fresh]_vars
=============================================================================
