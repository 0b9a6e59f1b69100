------------------------------ MODULE ScanWalk ------------------------------
(***************************************************************************)
(* The threads of the scan: the roots are seeded and lock the run onto one *)
(* filesystem, walker threads read directories, one consumer decides what  *)
(* is hashed and whether the filesystem can be deduplicated at all, csum   *)
(* workers hash.  Two queues and a counter of directories connect them.    *)
(*                                                                         *)
(* What the consumer writes to the hashfile is module FileListing's        *)
(* subject: here a file is hashed unless its inode was taken before or its *)
(* row is up to date.  Module HashResume has what a worker does to it.     *)
(***************************************************************************)
EXTENDS Integers, Sequences, SequencesExt

CONSTANTS
    Worlds,     \* what is on disk, in the hashfile and on the command line
    Walkers,    \* walker threads, walk_nthreads
    Workers,    \* csum workers, options.io_threads
    None,       \* no path, no uuid, no device
    Stop,       \* WALK_STOP
    MaxTries,   \* FS_PROBE_MAX_TRIES
    MaxUnasked, \* FS_PROBE_MAX_UNASKED
    MaxFaults   \* bound on calls that fail, and on a signal

\* A world has
\*   node    path -> [up, kind, size, dev, excluded, ino, fresh, host]
\*   fs      device -> [uuid, btrfs, named, ro, answer], named: on the
\*           allowlist, ro: a read-only subvolume
\*   args    the roots given, None for one that does not resolve
\*   stored  the uuid in the hashfile's config
\*   resumed the files the hashfile has checkpoints of
\*   opt     [recurse, skipRo, min, max]
\* host says how a file takes the question whether FIDEDUPERANGE works.
Hosts == {"any", "small", "shut", "owned", "rofs", "gone"}

ASSUME ScanWalkConstants ==
    /\ Walkers # {} /\ Workers # {}
    /\ IsFiniteSet(Walkers)
    /\ Stop # None
    /\ MaxTries \in Nat \ {0} /\ MaxUnasked \in Nat \ {0} /\ MaxFaults \in Nat

\* No path is the sentinel or what a worker does, and what is given or stored
\* names paths.  A file with a checkpoint has something left to hash.
ASSUME WorldsOK ==
    \A w \in Worlds :
        /\ Stop \notin DOMAIN w.node
        /\ {"idle", "asleep", "gone"} \cap DOMAIN w.node = {}
        /\ w.args \in Seq(DOMAIN w.node \cup {None})
        /\ w.resumed \in Seq(DOMAIN w.node)
        /\ \A p \in Range(w.resumed) : w.node[p].size > 0
        /\ \A p \in DOMAIN w.node : w.node[p].host \in Hosts

\* Sizes have a width, so one of them is the largest.
Sizes == UNION {{w.node[p].size : p \in DOMAIN w.node} : w \in Worlds}
ASSUME SizesOK ==
    /\ Sizes \subseteq Nat
    /\ Sizes # {} => \E m \in Sizes : \A s \in Sizes : s <= m

\* Paths are trees of directories.  A filesystem has a uuid to itself: where
\* two devices share one, they are subvolumes of one btrfs.
ASSUME TreesOK ==
    \A w \in Worlds :
        /\ None \notin DOMAIN w.node /\ None \notin DOMAIN w.fs
        /\ IsFiniteSet(DOMAIN w.node)
        /\ \A p \in DOMAIN w.node :
              /\ w.node[p].dev \in DOMAIN w.fs
              /\ w.node[p].up # None => /\ w.node[p].up \in DOMAIN w.node
                                       /\ w.node[w.node[p].up].kind = "dir"
        /\ \A S \in SUBSET DOMAIN w.node : S # {} => \E p \in S : w.node[p].up \notin S
        /\ \A d, e \in DOMAIN w.fs :
              d # e /\ w.fs[d].uuid = w.fs[e].uuid /\ w.fs[d].uuid # None =>
                 w.fs[d].btrfs /\ w.fs[e].btrfs

VARIABLES
    world,      \* constant during a run
    main,       \* the main thread: [at, ret]
    args,       \* roots to seed
    roots,      \* scan_root_paths, nr_roots_seeded, nr_roots_unusable,
                \* seed_fs_lock_failed
    locked,     \* locked_fs
    dirq,       \* walk_dirq
    fileq,      \* walk_fileq
    pending,    \* walk_dir_pending
    walker,     \* each walker: [at, dir, left, entry]
    roSubvols,  \* ro_subvols: the devices it has an answer for
    roLost,     \* those cached as writable because the ioctl failed
    unopened,   \* history: the paths let by because open() failed before it
    roCount,    \* device -> times counted as a skipped subvolume
    verified,   \* verified_devs
    seen,       \* the inodes queued for hashing (seen_slots)
    workq,      \* scan_workq: bucket -> files
    draining,
    worker,     \* each csum worker: "idle", "asleep", "gone" or its file
    halt,       \* what stops the run: [signal, abort, lost]
    faults,     \* faults so far
    listed,     \* history: the files that were put on fileq
    hashed      \* history: inode -> times hashed

walkVars == <<dirq, fileq, pending, walker, listed>>
seedVars == <<args, roots, locked>>
roVars == <<roSubvols, roLost, unopened, roCount>>
devVars == <<roVars, verified>>
hashVars == <<seen, workq, draining, worker, hashed>>
vars == <<world, main, seedVars, walkVars, devVars, hashVars, halt, faults>>

Node(p) == world.node[p]
Fs(p) == world.fs[Node(p).dev]
Paths == DOMAIN world.node
Children(p) == {q \in Paths : Node(q).up = p}
Regular(p) == Node(p).kind = "file"

\* scan_bucket(): the classes of work left, one for each size here.  Of a
\* checkpointed file less is left than its size.
Buckets == 0 .. Max(Sizes)
Bucket(p) == IF p \in Range(world.resumed) THEN Node(p).size - 1 ELSE Node(p).size

Init ==
    /\ world \in Worlds
    /\ main = [at |-> "seeding", ret |-> 0]
    /\ args = world.args
    /\ roots = [paths |-> <<>>, seeded |-> 0, unusable |-> 0, failed |-> FALSE]
    /\ locked = [uuid |-> None, dev |-> None, btrfs |-> FALSE, dedupe |-> "NO",
                 tries |-> 0, unasked |-> 0]
    /\ dirq = <<>> /\ fileq = <<>>
    /\ pending = 1
    /\ walker = [w \in Walkers |->
                    [at |-> "unborn", dir |-> None, left |-> {}, entry |-> None]]
    /\ roSubvols = {} /\ roLost = {} /\ unopened = {} /\ verified = {}
    /\ roCount = [d \in DOMAIN world.fs |-> 0]
    /\ seen = {}
    /\ workq = [b \in Buckets |-> <<>>]
    /\ draining = FALSE
    /\ worker = [w \in Workers |-> "idle"]
    /\ halt = [signal |-> FALSE, abort |-> FALSE, lost |-> FALSE]
    /\ faults = 0
    /\ listed = {}
    /\ hashed = [i \in {world.node[p].ino : p \in DOMAIN world.node} |-> 0]

Fault == faults < MaxFaults /\ faults' = faults + 1
NoFault == UNCHANGED faults

walk_aborted == halt.abort \/ halt.lost

(***************************************************************************)
(* check_file(), in the order of its tests.                                *)
(***************************************************************************)
\* is_excluded(), the kind and the size.
Filtered(p) ==
    \/ Node(p).excluded
    \/ Node(p).kind \notin {"file", "dir"}
    \/ Regular(p) /\ Node(p).size < world.opt.min
    \/ Regular(p) /\ world.opt.max # 0 /\ Node(p).size > world.opt.max

AsksRo == locked.btrfs /\ world.opt.skipRo

\* A path is in a read-only subvolume to be skipped, unless the question was
\* lost for its device, or cannot be put because the path does not open.
RoSkips(p, lost, shut) ==
    /\ AsksRo /\ Fs(p).ro
    /\ Node(p).dev \notin lost /\ p \notin shut

\* ro_subvol_lookup() after its ioctl, the failure of which reads as writable:
\* the thread that inserts the answer counts it, the others agree with it.
RoInsert(d, failed) ==
    /\ roSubvols' = roSubvols \cup {d}
    /\ roLost' = IF failed /\ d \notin roSubvols THEN roLost \cup {d} ELSE roLost
    /\ roCount' = IF world.fs[d].ro /\ ~failed /\ d \notin roSubvols
                  THEN [roCount EXCEPT ![d] = @ + 1] ELSE roCount
    /\ UNCHANGED unopened

\* dev_is_readonly_subvol(): a path that does not open is let by, and nothing
\* is cached.
RoUnopened(p) == /\ unopened' = unopened \cup {p}
                 /\ UNCHANGED <<roSubvols, roLost, roCount>>

\* Mutant of OnLocked: subvolumes are told apart by device.
OnLocked_ByDevice(p) == Node(p).dev = locked.dev

\* A path is on the locked filesystem by its uuid on btrfs, where every
\* subvolume has a device of its own, and by its device elsewhere.
OnLocked(p) ==
    IF locked.btrfs THEN Fs(p).btrfs /\ Fs(p).uuid = locked.uuid
                    ELSE Node(p).dev = locked.dev

\* What the rest of check_file() says of a root.  Before a root is locked
\* onto, the hashfile's uuid is the one to match; a filesystem without a uuid
\* cannot be told apart.
RootVerdict(p) ==
    IF locked.dev # None THEN IF OnLocked(p) THEN "accept" ELSE "other"
    ELSE IF Fs(p).uuid = None THEN "reject"
    ELSE IF world.stored \in {None, Fs(p).uuid} THEN "lock"
    ELSE "wrong"

FileqPush(p) == /\ fileq' = Append(fileq, p)
                /\ listed' = listed \cup {p}
                /\ UNCHANGED <<dirq, pending>>
\* Mutant of DirqPush: the directory is not counted.
DirqPush_Uncounted(p) == /\ dirq' = Append(dirq, p)
                         /\ UNCHANGED <<fileq, listed, pending>>

DirqPush(p) == /\ dirq' = Append(dirq, p)
               /\ pending' = pending + 1
               /\ UNCHANGED <<fileq, listed>>
Push(p) == IF Regular(p) THEN FileqPush(p) ELSE DirqPush(p)
NoPush == UNCHANGED <<dirq, fileq, pending, listed>>

(***************************************************************************)
(* scan_file(): seed one root.  The main thread is alone.                  *)
(***************************************************************************)
RootUnusable == /\ roots' = [roots EXCEPT !.unusable = @ + 1]
                /\ NoPush
                /\ UNCHANGED <<locked, verified>>

RootFails == /\ roots' = [roots EXCEPT !.failed = TRUE]
             /\ NoPush
             /\ UNCHANGED <<locked, verified>>

RootWrong == /\ roots' = [roots EXCEPT !.unusable = @ + 1, !.failed = TRUE]
             /\ NoPush
             /\ UNCHANGED <<locked, verified>>

RootTaken(p) ==
    /\ roots' = [roots EXCEPT !.paths = Append(@, p), !.seeded = @ + 1]
    /\ Push(p)

RootLocks(p) ==
    /\ RootTaken(p)
    /\ locked' = [locked EXCEPT !.uuid = Fs(p).uuid, !.dev = Node(p).dev,
                                !.btrfs = Fs(p).btrfs,
                                !.dedupe = IF Fs(p).named THEN "YES" ELSE "UNKNOWN"]
    /\ UNCHANGED verified

RootAccepted(p) ==
    /\ RootTaken(p)
    /\ verified' = IF locked.btrfs THEN verified \cup {Node(p).dev} ELSE verified
    /\ UNCHANGED locked

RootSkipped == NoPush /\ UNCHANGED <<roots, locked, verified>>

\* What is left of check_file() once the subvolume is known; any number of its
\* calls failing is one fault.
RootJudged(p) ==
    \/ RootVerdict(p) = "other" /\ RootUnusable
    \/ RootVerdict(p) = "reject" /\ RootFails
    \/ RootVerdict(p) = "wrong" /\ RootWrong
    \/ RootVerdict(p) = "lock" /\ RootLocks(p)
    \/ RootVerdict(p) = "accept" /\ RootAccepted(p)
RootUnprobed(p) ==
    \/ locked.dev = None /\ RootFails
    \/ locked.btrfs /\ Node(p).dev \notin verified /\ RootUnusable

SeedRoot ==
    /\ main.at = "seeding"
    /\ args # <<>>
    /\ args' = Tail(args)
    /\ LET p == Head(args)
           dev == Node(p).dev
       IN  \/ p = None /\ RootUnusable /\ NoFault /\ UNCHANGED roVars
           \/ Fault /\ RootUnusable /\ UNCHANGED roVars    \* realpath(), statx()
           \/ /\ p # None /\ Filtered(p)
              /\ RootSkipped /\ NoFault /\ UNCHANGED roVars
           \/ /\ p # None /\ ~Filtered(p) /\ RoSkips(p, roLost, {})
              /\ RootSkipped /\ NoFault /\ RoInsert(dev, FALSE)
           \/ /\ p # None /\ ~Filtered(p) /\ ~RoSkips(p, roLost, {})
              /\ \/ RootJudged(p) /\ NoFault
                 \/ RootUnprobed(p) /\ Fault                 \* probe_fs()
              /\ IF AsksRo THEN RoInsert(dev, FALSE) ELSE UNCHANGED roVars
           \/ /\ p # None /\ ~Filtered(p) /\ AsksRo /\ dev \notin roSubvols
              /\ Fault                                    \* open(), ioctl()
              /\ RoInsert(dev, TRUE) \/ RoUnopened(p)
              /\ RootJudged(p) \/ RootUnprobed(p)
    /\ UNCHANGED <<world, main, walker, hashVars, halt>>

(***************************************************************************)
(* filescan_walk_run(): files with checkpoints first, then the threads.    *)
(***************************************************************************)
\* The directories a path is in.
Above == LET above[p \in Paths] == IF Node(p).up = None THEN {}
                                   ELSE {Node(p).up} \cup above[Node(p).up]
         IN  above

\* check_file() of an entry, by a thread that has the caches to itself.
EntryTaken(p, lost, shut) ==
    /\ ~Filtered(p)
    /\ ~RoSkips(p, lost, shut)
    /\ Regular(p) \/ OnLocked(p)

\* path_under_a_root(): the first root given that has the path below it.
RootOf(p) ==
    LET has == {i \in DOMAIN roots.paths : roots.paths[i] \in Above[p] \cup {p}}
    IN  IF has = {} THEN None ELSE roots.paths[Min(has)]

\* walk_would_reach(), over the directories between the root and the path.
Between(p) == Above[p] \ (Above[RootOf(p)] \cup {RootOf(p)})

\* Mutant of WalkWouldReach: being below the root is enough.
WalkWouldReach_Below(p, lost, shut) == TRUE

WalkWouldReach(p, lost, shut) ==
    /\ Between(p) # {} => world.opt.recurse
    /\ \A d \in Between(p) : EntryTaken(d, lost, shut)

Seeded(p, lost, shut) == /\ RootOf(p) # None
                         /\ WalkWouldReach(p, lost, shut)
                         /\ Regular(p) /\ EntryTaken(p, lost, shut)

\* What the seeding of a file asks on its way, up to the first directory
\* refused.
Asked(p, lost, shut) ==
    IF RootOf(p) = None \/ (Between(p) # {} /\ ~world.opt.recurse) THEN {}
    ELSE {q \in Between(p) \cup {p} :
             /\ ~Filtered(q)
             /\ \A d \in Between(p) \cap Above[q] : EntryTaken(d, lost, shut)}

\* The caches after it, with the devices whose ioctl failed now or before and
\* the paths that did not open: one is put the question only while nothing is
\* cached, and only the paths of a device before its first answer.
SeedCaches(p, lost, shut) ==
    LET asked == Asked(p, lost, shut)
        devs == {Node(q).dev : q \in asked \ shut}
        dirs == {Node(q).dev :
                    q \in {r \in asked : ~Regular(r) /\ EntryTaken(r, lost, shut)}}
        news == {d \in devs \ (roSubvols \cup lost) : AsksRo /\ world.fs[d].ro}
    IN  /\ shut \subseteq asked
        /\ \A q \in shut : \A r \in (asked \cap Above[q]) \cup {q} :
              Node(r).dev = Node(q).dev => r \in shut /\ Node(r).dev \notin roSubvols
        /\ lost \subseteq roLost \cup (devs \ roSubvols)
        /\ roLost \subseteq lost
        /\ roSubvols' = IF AsksRo THEN roSubvols \cup devs ELSE roSubvols
        /\ roLost' = lost
        /\ unopened' = unopened \cup shut
        /\ roCount' = [d \in DOMAIN roCount |-> roCount[d] + IF d \in news THEN 1 ELSE 0]
        /\ verified' = IF locked.btrfs THEN verified \cup dirs ELSE verified

\* seed_checkpointed_files(), before there are threads.
LoadCheckpoints ==
    /\ main.at = "seeding"
    /\ args = <<>>
    /\ main' = [main EXCEPT !.at = "resuming"]
    /\ \/ args' = world.resumed /\ NoFault
       \/ args' = <<>> /\ Fault             \* left to the walk
    /\ UNCHANGED <<world, roots, locked, walkVars, devVars, hashVars, halt>>

SeedFile ==
    /\ main.at = "resuming"
    /\ args # <<>>
    /\ args' = Tail(args)
    /\ LET p == Head(args)
       IN  \/ /\ IF Seeded(p, roLost, {}) THEN FileqPush(p) ELSE NoPush
              /\ SeedCaches(p, roLost, {}) /\ NoFault
           \/ /\ AsksRo /\ Fault                          \* open(), ioctl()
              /\ \E lost \in SUBSET DOMAIN world.fs, shut \in SUBSET (Between(p) \cup {p}) :
                    /\ SeedCaches(p, lost, shut)
                    /\ IF Seeded(p, lost, shut) THEN FileqPush(p) ELSE NoPush
           \/ NoPush /\ Fault /\ UNCHANGED devVars          \* statx()
    /\ UNCHANGED <<world, main, roots, locked, walker, hashVars, halt>>

Stops == [i \in 1 .. Cardinality(Walkers) |-> Stop]

\* dirq_finished(): whoever takes the counter to zero stops the walkers and
\* tells the consumer.
DirqFinished ==
    /\ pending' = pending - 1
    /\ dirq' = IF pending = 1 THEN dirq \o Stops ELSE dirq

Finished ==
    /\ DirqFinished
    /\ fileq' = IF pending = 1 THEN Append(fileq, Stop) ELSE fileq

StartWalk ==
    /\ main.at = "resuming"
    /\ args = <<>>
    /\ main' = [main EXCEPT !.at = "walking"]
    /\ walker' = [w \in Walkers |-> [walker[w] EXCEPT !.at = "idle"]]
    /\ Finished
    /\ UNCHANGED <<world, seedVars, listed, devVars, hashVars, halt, faults>>

(***************************************************************************)
(* walk_thread() and process_dir().                                        *)
(***************************************************************************)
Walker(w, at) == walker' = [walker EXCEPT ![w].at = at]
MainOnly == <<world, main, seedVars, hashVars>>

\* Mutant of TakeDir: once interrupted, what is dropped is not counted off.
TakeDir_Dropped(w) ==
    /\ walker[w].at = "idle"
    /\ dirq # <<>>
    /\ dirq' = Tail(dirq)
    /\ LET d == Head(dirq)
       IN  \/ d = Stop /\ Walker(w, "gone")
           \/ d # Stop /\ halt.signal /\ UNCHANGED walker
           \/ /\ d # Stop /\ ~halt.signal
              /\ walker' = [walker EXCEPT ![w] =
                    [@ EXCEPT !.at = "reading", !.dir = d, !.left = Children(d)]]
    /\ UNCHANGED <<MainOnly, fileq, pending, listed, devVars, halt, faults>>

\* Interrupted or aborted, a directory is not read, but it is still counted
\* off; one that cannot be opened is counted off, too.
TakeDir(w) ==
    /\ walker[w].at = "idle"
    /\ dirq # <<>>
    /\ dirq' = Tail(dirq)
    /\ LET d == Head(dirq)
       IN  \/ d = Stop /\ Walker(w, "gone") /\ NoFault
           \/ /\ d # Stop
              /\ \/ /\ halt.signal \/ walk_aborted
                    /\ walker' = [walker EXCEPT ![w] = [@ EXCEPT !.at = "reading", !.dir = d]]
                    /\ NoFault
                 \/ /\ ~halt.signal /\ ~walk_aborted
                    /\ walker' = [walker EXCEPT ![w] =
                          [@ EXCEPT !.at = "reading", !.dir = d, !.left = Children(d)]]
                    /\ NoFault
                 \/ /\ walker' = [walker EXCEPT ![w] = [@ EXCEPT !.at = "reading", !.dir = d]]
                    /\ Fault
    /\ UNCHANGED <<MainOnly, fileq, pending, listed, devVars, halt>>

\* The entry goes to its queue, or nowhere; the walker reads on.
Entry(w, at, p, entry) ==
    walker' = [walker EXCEPT ![w] =
                  [walker[w] EXCEPT !.at = at, !.left = @ \ {p}, !.entry = entry]]
Drop(w, p) == Entry(w, "reading", p, None) /\ NoPush
Give(w, p) == Entry(w, "reading", p, None) /\ Push(p)

\* The check of a directory's filesystem: a known device is not asked again.
CheckDev(w, p) ==
    IF Regular(p) \/ (locked.btrfs /\ Node(p).dev \in verified) \/ (~locked.btrfs /\ OnLocked(p))
    THEN Give(w, p)
    ELSE IF locked.btrfs THEN Entry(w, "probing", p, p) /\ NoPush
    ELSE Drop(w, p)

ReadEntry(w) ==
    /\ walker[w].at = "reading"
    /\ \E p \in walker[w].left :
          \/ /\ Filtered(p) \/ (~Regular(p) /\ ~world.opt.recurse)
             /\ Drop(w, p) /\ NoFault
          \/ Drop(w, p) /\ Fault            \* statx(), malloc(), strdup()
          \/ /\ ~Filtered(p) /\ (Regular(p) \/ world.opt.recurse)
             /\ CASE AsksRo /\ Node(p).dev \notin roSubvols ->
                        Entry(w, "asking", p, p) /\ NoPush
                  [] Node(p).dev \in roSubvols /\ RoSkips(p, roLost, {}) -> Drop(w, p)
                  [] OTHER -> CheckDev(w, p)
             /\ NoFault
    /\ UNCHANGED <<MainOnly, devVars, halt>>

\* The answer of the ioctl is inserted under the lock, where another walker
\* may have been first, and the first one's is taken.
RoAnswered(w) ==
    /\ walker[w].at = "asking"
    /\ LET p == walker[w].entry
       IN  \/ /\ \/ RoInsert(Node(p).dev, FALSE) /\ NoFault
                 \/ RoInsert(Node(p).dev, TRUE) /\ Fault
              /\ IF RoSkips(p, roLost', {}) THEN Drop(w, p) ELSE CheckDev(w, p)
           \/ RoUnopened(p) /\ CheckDev(w, p) /\ Fault
    /\ UNCHANGED <<MainOnly, verified, halt>>

DevProbed(w) ==
    /\ walker[w].at = "probing"
    /\ LET p == walker[w].entry
       IN  \/ Drop(w, p) /\ Fault /\ UNCHANGED verified
           \/ /\ OnLocked(p)
              /\ verified' = verified \cup {Node(p).dev}
              /\ Give(w, p) /\ NoFault
           \/ ~OnLocked(p) /\ Drop(w, p) /\ NoFault /\ UNCHANGED verified
    /\ UNCHANGED <<MainOnly, roVars, halt>>

EndDir(w) ==
    /\ walker[w].at = "reading"
    /\ walker[w].left = {}
    /\ walker' = [walker EXCEPT ![w] = [@ EXCEPT !.at = "idle", !.dir = None]]
    /\ Finished
    /\ UNCHANGED <<MainOnly, listed, devVars, halt, faults>>

(***************************************************************************)
(* The consumer, on the main thread.                                       *)
(***************************************************************************)
Wake(w) == worker' = [worker EXCEPT ![w] = "idle"]
Asleep == {w \in Workers : worker[w] = "asleep"}

\* scan_workq_push(): the signal wakes one of the workers that wait.
WorkqPush(p) ==
    /\ workq' = [workq EXCEPT ![Bucket(p)] = Append(@, p)]
    /\ IF Asleep = {} THEN UNCHANGED worker ELSE \E w \in Asleep : Wake(w)

\* __scan_file(): of the links of an inode the first is hashed.
ScanFile(p) ==
    IF Node(p).host = "gone" \/ Node(p).fresh \/ Node(p).ino \in seen
    THEN UNCHANGED <<seen, workq, worker>>
    ELSE /\ seen' = seen \cup {Node(p).ino}
         /\ WorkqPush(p)

Proceed(p) == /\ ScanFile(p)
              /\ UNCHANGED <<main, halt>>

\* fs_probe_refuse(): the walkers have to stop, too.
Refuse == /\ main' = [main EXCEPT !.ret = 1]
          /\ halt' = [halt EXCEPT !.abort = TRUE]
          /\ UNCHANGED <<seen, workq, worker>>

\* fs_dedupe_probe_settled(), by what the file answers.
NotAsked(p) ==
    /\ locked' = [locked EXCEPT !.unasked = @ + 1]
    /\ IF locked.unasked + 1 < MaxUnasked THEN Proceed(p) ELSE Refuse

NoAnswer(p) ==
    /\ locked' = [locked EXCEPT !.tries = @ + 1]
    /\ IF locked.tries + 1 < MaxTries THEN Proceed(p) ELSE Refuse

Answers(p) ==
    CASE Node(p).host = "rofs" -> {"UNKNOWN"}
      [] Node(p).host \in {"any", "owned"} -> {"UNKNOWN", Fs(p).answer}
      [] OTHER -> {}

AskFile(p) ==
    \/ Node(p).host = "gone" /\ Proceed(p) /\ UNCHANGED locked
    \/ Node(p).host \in {"small", "shut"} /\ NotAsked(p)
    \/ \E answer \in Answers(p) :
          \/ /\ answer = "UNKNOWN"
             /\ IF Node(p).host = "owned" THEN NotAsked(p) ELSE NoAnswer(p)
          \/ /\ answer = "YES"
             /\ locked' = [locked EXCEPT !.dedupe = "YES"]
             /\ Proceed(p)
          \/ /\ answer = "NO"
             /\ locked' = [locked EXCEPT !.dedupe = "NO"]
             /\ Refuse

Discards == main.ret # 0 \/ halt.signal \/ halt.lost

Consume ==
    /\ main.at = "walking"
    /\ fileq # <<>>
    /\ fileq' = Tail(fileq)
    /\ LET p == Head(fileq)
       IN  \/ /\ p = Stop
              /\ main' = [main EXCEPT !.at = "joining"]
              /\ NoFault
              /\ UNCHANGED <<locked, seen, workq, worker, halt>>
           \/ /\ p # Stop /\ Discards
              /\ NoFault
              /\ UNCHANGED <<main, locked, seen, workq, worker, halt>>
           \/ /\ p # Stop /\ ~Discards
              /\ IF locked.dedupe = "YES" THEN Proceed(p) /\ UNCHANGED locked
                                          ELSE AskFile(p)
              /\ NoFault
           \/ /\ p # Stop /\ ~Discards /\ locked.dedupe = "YES"
              /\ Fault                      \* a write fails, or worse
              /\ \/ main' = [main EXCEPT !.ret = 1] /\ UNCHANGED halt
                 \/ halt' = [halt EXCEPT !.lost = TRUE] /\ UNCHANGED main
              /\ UNCHANGED <<locked, seen, workq, worker>>
    /\ UNCHANGED <<world, args, roots, dirq, pending, walker, listed, devVars,
                   draining, hashed>>

\* Mutant of FsUnusable: a walk that asked no file is not reported.
FsUnusable_Asked ==
    ~halt.signal /\ locked.dedupe = "UNKNOWN" /\ locked.tries + locked.unasked > 0

\* filescan_seed_failed() and filescan_report_fs_unusable().
SeedFailed == roots.failed /\ roots.seeded = 0
FsUnusable == ~halt.signal /\ locked.dedupe = "UNKNOWN"

\* The walkers are joined, the run is judged, and the csum workers are told
\* that no more is coming.
JoinWalkers ==
    /\ main.at = "joining"
    /\ \A w \in Walkers : walker[w].at = "gone"
    /\ main' = [at |-> "draining",
                ret |-> IF main.ret # 0 \/ halt.lost \/ SeedFailed \/ FsUnusable
                        THEN 1 ELSE 0]
    /\ draining' = TRUE
    /\ worker' = [w \in Workers |-> IF w \in Asleep THEN "idle" ELSE worker[w]]
    /\ UNCHANGED <<world, seedVars, walkVars, devVars, seen, workq, hashed,
                   halt, faults>>

JoinWorkers ==
    /\ main.at = "draining"
    /\ \A w \in Workers : worker[w] = "gone"
    /\ main' = [at |-> "done", ret |-> IF halt.lost THEN 1 ELSE main.ret]
    /\ UNCHANGED <<world, seedVars, walkVars, devVars, hashVars, halt, faults>>

(***************************************************************************)
(* scan_worker().                                                          *)
(***************************************************************************)
Occupied == {b \in Buckets : workq[b] # <<>>}

\* The largest class of work left goes first.
Take(w) ==
    /\ worker[w] = "idle"
    /\ Occupied # {}
    /\ LET b == Max(Occupied)
       IN  /\ workq' = [workq EXCEPT ![b] = Tail(@)]
           /\ IF halt.signal \/ halt.lost THEN UNCHANGED worker
              ELSE worker' = [worker EXCEPT ![w] = Head(workq[b])]
    /\ UNCHANGED <<draining, hashed, halt, faults>>

\* Mutant of Starve: a worker leaves as soon as the queue is closed.
Starve_Closed(w) ==
    /\ worker[w] = "idle"
    /\ Occupied = {} \/ draining
    /\ worker' = [worker EXCEPT ![w] = IF draining THEN "gone" ELSE "asleep"]
    /\ UNCHANGED <<workq, draining, hashed, halt, faults>>

Starve(w) ==
    /\ worker[w] = "idle"
    /\ Occupied = {}
    /\ worker' = [worker EXCEPT ![w] = IF draining THEN "gone" ELSE "asleep"]
    /\ UNCHANGED <<workq, draining, hashed, halt, faults>>

Hash(w) ==
    /\ worker[w] \in Paths
    /\ Wake(w)
    /\ \/ /\ hashed' = [hashed EXCEPT ![Node(worker[w]).ino] = @ + 1]
          /\ NoFault
          /\ UNCHANGED halt
       \/ /\ Fault                          \* the batch is rolled back
          /\ halt' = [halt EXCEPT !.lost = TRUE]
          /\ UNCHANGED hashed
    /\ UNCHANGED <<workq, draining>>

WorkerStep(w) ==
    /\ Take(w) \/ Starve(w) \/ Hash(w)
    /\ UNCHANGED <<world, main, seedVars, walkVars, devVars, seen>>

Signal ==
    /\ main.at # "done"
    /\ ~halt.signal
    /\ Fault
    /\ halt' = [halt EXCEPT !.signal = TRUE]
    /\ UNCHANGED <<world, main, seedVars, walkVars, devVars, hashVars>>

MainStep ==
    \/ SeedRoot \/ LoadCheckpoints \/ SeedFile \/ StartWalk
    \/ Consume \/ JoinWalkers \/ JoinWorkers
WalkerStep(w) ==
    TakeDir(w) \/ ReadEntry(w) \/ RoAnswered(w) \/ DevProbed(w) \/ EndDir(w)

Next ==
    \/ MainStep
    \/ \E w \in Walkers : WalkerStep(w)
    \/ \E w \in Workers : WorkerStep(w)
    \/ Signal

\* Threads run; calls need not fail.
Fairness ==
    /\ WF_vars(MainStep)
    /\ \A w \in Walkers : WF_vars(WalkerStep(w))
    /\ \A w \in Workers : WF_vars(WorkerStep(w))

Spec == Init /\ [][Next]_vars
FairSpec == Spec /\ Fairness

(***************************************************************************)
(* Properties.                                                             *)
(***************************************************************************)
\* What the walk is meant to list: level by level below the roots, by the
\* uuid of the filesystem.  What a failed question let by counts as writable.
Wanted(p) == /\ ~Filtered(p)
             /\ ~RoSkips(p, roLost, unopened)
             /\ Regular(p) \/ (world.opt.recurse /\ Fs(p).uuid = locked.uuid)
Due == LET reached[n \in 0 .. Cardinality(Paths)] ==
             IF n = 0 THEN Range(roots.paths)
             ELSE LET last == reached[n - 1]
                  IN  last \cup {p \in Paths : Node(p).up \in last /\ Wanted(p)}
       IN  {p \in reached[Cardinality(Paths)] : Regular(p)}

ExitStatus == IF main.ret # 0 THEN 1 ELSE IF roots.unusable # 0 THEN 2 ELSE 0
Undisturbed == main.at = "done" /\ faults = 0

\* The comment on walk_dir_pending (file_scan.c:1688-1694): when the counter
\* reaches zero every file has been queued.  Behind the consumer's STOP comes
\* nothing, and no directory is queued or being read.
StopIsLast ==
    (Stop \in Range(fileq) \/ main.at \in {"joining", "draining", "done"}) =>
        /\ \A i \in DOMAIN fileq : fileq[i] = Stop => i = Len(fileq)
        /\ Range(dirq) \subseteq {Stop}
        /\ \A w \in Walkers : walker[w].at \in {"idle", "gone"}

\* Nothing is listed that is excluded, in a skipped subvolume, on another
\* filesystem or below a directory the walk does not enter, whether a walker
\* met it or a checkpoint brought it.  A failed question lets in what the code
\* takes for writable then, and no more: after a failed ioctl the subvolume,
\* for every thread, after a failed open() the one path.
OnlyDue == listed \subseteq Due

\* Without a fault and unless the filesystem was refused, the walk lists all
\* there is to list, in whatever order the walkers took the directories and
\* whatever they cached.
AllDue == Undisturbed /\ ~halt.abort => listed = Due

\* No inode is hashed twice, and in such a run every one listed that needs it
\* is hashed before the run is over: no worker leaves a file in the queue or
\* sleeps through one.
AllHashed ==
    /\ \A i \in DOMAIN hashed : hashed[i] <= 1
    /\ Undisturbed /\ main.ret = 0 =>
          \A p \in listed : Node(p).host = "gone" \/ Node(p).fresh \/ hashed[Node(p).ino] = 1

\* A run that was not stopped and reports success has either been told that
\* the filesystem supports FIDEDUPERANGE or had no root to look at, by the
\* user's own choice.
HonestExit ==
    main.at = "done" /\ main.ret = 0 /\ ~halt.signal =>
        locked.dedupe = "YES" \/ (roots.seeded = 0 /\ ~roots.failed)

\* Walkers race for the answer about a subvolume, which is counted once.
CountedOnce == \A d \in DOMAIN roCount : roCount[d] <= 1

\* Whatever fails, and when, the walk unwinds: every thread is joined.
WalkEnds == <>(main.at = "done")

\* A run that exits 0 has covered every root but those the user's own options
\* leave out.
RootsCovered ==
    main.at = "done" /\ ExitStatus = 0 /\ ~halt.signal =>
        \A i \in DOMAIN world.args :
            LET p == world.args[i]
            IN  \/ p # None /\ (Filtered(p) \/ (world.opt.skipRo /\ Fs(p).ro))
                \/ p \in Range(roots.paths)
=============================================================================
