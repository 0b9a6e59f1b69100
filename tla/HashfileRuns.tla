---------------------------- MODULE HashfileRuns ----------------------------
(***************************************************************************)
(* Runs of oans on one hashfile, one after another: what kind of file is   *)
(* found, how it is created, branded and rebuilt, the configuration a run  *)
(* stores and a later one replays, and the status a run exits with.  A run *)
(* can be killed between any two of its writes; what SQLite has committed  *)
(* stays.                                                                  *)
(*                                                                         *)
(* What happens inside a scan and inside a dedupe phase is the subject of  *)
(* the other modules; here a scan adds a row for every file below the      *)
(* roots that has none, batch by batch, and a dedupe phase succeeds or not.*)
(***************************************************************************)
EXTENDS Integers, Sequences, FiniteSets, SequencesExt

CONSTANTS
    Commands,    \* command lines
    Found,       \* what may be at the hashfile's path before the first run
    Tree,        \* root -> the files below it
    FsOf,        \* root -> its filesystem
    BlockSizes,  \* the block sizes -b accepts
    BadPatterns, \* exclude patterns the parser of this version rejects
    None,        \* no value, no row
    MaxRuns,     \* bound on runs
    MaxFaults,   \* bound on database and system calls that fail
    MaxMoves     \* bound on roots that come and go

\* A command line has
\*   modes     the report modes asked for: "report" for those that only read,
\*             "rm" for -R, "prune" for --prune-block-hashes
\*   hashfile  is there a --hashfile
\*   files     the roots, or the files to remove; stdin: they came from there
\*   bs        -b
\*   opts      [dedupe, partial, whole, min, max]
\*   excludes  patterns; here a pattern is the file it matches
\* A hashfile has
\*   schema    "none", "empty", "config" (the first table only), "full", or
\*             "alien", the tables of another program
\*   app       application_id: None for 0, "oans" or "alien"
\*   major     the version rows: None, "mine" or "old"
\*   bs, fs    the rows block_size and fs_uuid, None for none and for null
\*   rows      [file, bs, blocks] of every hashed file
\*   scan      the stored configuration, [opts, roots, excludes], or None
\*   history   the runs recorded, "complete" or "cut" by a signal
Roots == DOMAIN Tree
Gone == [schema |-> "none", app |-> None, major |-> None, bs |-> None, fs |-> None,
         rows |-> {}, scan |-> None, history |-> {}]
Empty == [Gone EXCEPT !.schema = "empty"]

ASSUME HashfileRunsConstants ==
    /\ MaxRuns \in Nat /\ MaxFaults \in Nat /\ MaxMoves \in Nat
    /\ None \notin {"oans", "alien"} /\ None \notin BlockSizes

\* Runs without a hashfile, which keep theirs in memory, are left out.
ASSUME CommandsOK ==
    \A c \in Commands : /\ c.modes \subseteq {"report", "rm", "prune"}
                        /\ c.modes = {} => c.files \in Seq(Roots)
                        /\ ~c.hashfile => c.modes # {} \/ c.files = <<>>

\* The hashfiles found are ones that earlier runs can have left.
ASSUME FoundOK ==
    \A f \in Found :
        /\ f = [x \in DOMAIN Gone |-> f[x]]
        /\ f.schema = "none" => f = Gone
        /\ f.schema = "alien" => f.app # "oans"
        /\ f.bs = None => f.rows = {}
        /\ \A r \in f.rows : "bs" \in DOMAIN r /\ r.bs = f.bs
        /\ f.scan # None => f.scan.roots \in Seq(Roots)
        /\ "cut" \notin f.history

VARIABLES
    file,       \* the hashfile
    run,        \* the process, see Idle
    present,    \* the roots that exist
    last,       \* history: the configuration of the last run that stored one
    runs, faults, moves

vars == <<file, run, present, last, runs, faults, moves>>

Idle == [at |-> "off", cmd |-> None, found |-> None, since |-> 0,
         bs |-> None, opts |-> None, roots |-> <<>>, excludes |-> {},
         replaying |-> FALSE, dropped |-> 0, unusable |-> 0,
         unread |-> {},
         todo |-> {}, seen |-> {}, batch |-> {}, locked |-> None,
         txn |-> None, ret |-> 0, interrupted |-> FALSE, status |-> None]

Init ==
    /\ file \in Found
    /\ run = Idle
    /\ present \in {Roots}
    /\ last = file.scan
    /\ runs = 0 /\ faults = 0 /\ moves = 0

Goto(at) == run' = [run EXCEPT !.at = at]
Same == UNCHANGED <<present, last, runs, moves>>
Rest == Same /\ UNCHANGED faults
\* A call that fails.
Fault == faults < MaxFaults /\ faults' = faults + 1 /\ Same

(***************************************************************************)
(* main(): the exit status.                                                *)
(***************************************************************************)
\* Every failure is 1, a complete run that covered less is 2, and a signal
\* shows over these two successes only.
Status(ret, interrupted, incomplete) ==
    IF ret # 0 THEN 1
    ELSE IF interrupted THEN 130
    ELSE IF incomplete THEN 2 ELSE 0

\* Mutant of End: a root a replay leaves out is not one the run has missed.
End_Dropped(ret) ==
    run' = [run EXCEPT !.at = "ended",
                       !.status = Status(ret, run.interrupted, run.unusable # 0)]

End(ret) ==
    run' = [run EXCEPT !.at = "ended", !.status =
               Status(ret, run.interrupted, run.unusable # 0 \/ run.dropped # 0)]

\* A mode that is not a scan has no status but success and failure.
EndMode(ret) == run' = [run EXCEPT !.at = "ended", !.status = ret]

\* SQLITE_ERROR and SQLITE_INTERNAL.
Fails == /\ Fault
         /\ \E code \in {1, 2} : End(code)
         /\ UNCHANGED file
GivesUp == End(1) /\ UNCHANGED file /\ Rest
FailsMode == Fault /\ EndMode(1) /\ UNCHANGED file

Mode(c) == IF c.modes = {} THEN "scan" ELSE CHOOSE m \in c.modes : TRUE
Bare(c) == c.modes = {} /\ c.files = <<>> /\ ~c.stdin

\* parse_options(): an option's value, and then what the options say together.
ValueRefused(c) == c.bs \notin BlockSizes \/ c.excludes \cap BadPatterns # {}
Conflicting(c) ==
    \/ c.opts.whole /\ c.opts.partial
    \/ c.opts.max # 0 /\ c.opts.max < c.opts.min
    \/ Cardinality(c.modes) > 1
    \/ c.modes # {} /\ ~c.hashfile
    \/ c.modes = {"rm"} /\ c.files = <<>>
    \/ c.modes \in {{"report"}, {"prune"}} /\ c.files # <<>>
    \/ c.modes = {} /\ c.files = <<>> /\ ~c.hashfile
OptionsRefused(c) == ValueRefused(c) \/ Conflicting(c)

\* hashfile_exists(): a bare replay, -R and --prune-block-hashes do not make
\* the file.
MustExist(c) == Bare(c) \/ c.modes \in {{"rm"}, {"prune"}}

Start(c) ==
    /\ run.at \in {"off", "ended"}
    /\ runs < MaxRuns
    /\ runs' = runs + 1
    /\ LET r == [Idle EXCEPT !.cmd = c, !.found = file, !.since = faults + moves, !.bs = c.bs,
                    !.opts = c.opts, !.roots = c.files, !.excludes = c.excludes]
       IN  run' = IF OptionsRefused(c) \/ (MustExist(c) /\ file.schema = "none")
                  THEN [r EXCEPT !.at = "ended", !.status = 1]
                  ELSE [r EXCEPT !.at = "opening"]
    /\ UNCHANGED <<file, present, last, faults, moves>>

(***************************************************************************)
(* __dbfile_open_handle(), dbfile_prepare() and what they call.            *)
(***************************************************************************)
ReadOnly == run.cmd.modes = {"report"}
Stop(ret) == IF Mode(run.cmd) = "scan" THEN End(ret) ELSE EndMode(ret)
Refuses == Stop(1) /\ UNCHANGED file /\ Rest
NotReported == EndMode(1) /\ UNCHANGED file /\ Rest
OpenFails == Fault /\ Stop(1) /\ UNCHANGED file

\* Mutant of Identify: a file without a brand is taken for a new one.
Identify_Unasked ==
    IF file.app = "oans" THEN "ours"
    ELSE IF file.app = "alien" THEN "foreign" ELSE "new"

\* Mutant of Identify: the version is asked for before the brand.
Identify_ByVersion ==
    IF file.app = "alien" \/ file.schema = "alien" THEN "foreign"
    ELSE IF file.schema = "empty" THEN "new"
    ELSE IF file.major = None THEN "foreign"
    ELSE IF file.app = "oans" THEN "ours" ELSE "old"

\* dbfile_identify()
Identify ==
    IF file.app = "oans" THEN "ours"
    ELSE IF file.app = "alien" THEN "foreign"
    ELSE IF file.schema = "empty" THEN "new"
    ELSE IF file.schema = "alien" \/ file.major = None THEN "foreign"
    ELSE "old"

\* Opening makes the file; a report does not.
OpenMissing ==
    /\ file.schema = "none"
    /\ IF ReadOnly THEN NotReported
       ELSE file' = Empty /\ UNCHANGED run /\ Rest

OpenFound ==
    /\ file.schema # "none"
    /\ CASE Identify = "ours" ->
                /\ Goto(IF ReadOnly THEN "checking" ELSE "creating")
                /\ UNCHANGED file /\ Rest
         [] Identify = "new" /\ ~ReadOnly ->
                Goto("creating") /\ UNCHANGED file /\ Rest
         [] Identify = "old" /\ ~ReadOnly ->
                file' = Gone /\ UNCHANGED run /\ Rest     \* unlink()
         [] OTHER -> Refuses

Open == run.at = "opening" /\ (OpenMissing \/ OpenFound \/ OpenFails)

\* create_tables(): one statement at a time, the config table first.
CreateTables ==
    /\ run.at = "creating"
    /\ \/ /\ file.schema # "full"
          /\ file' = [file EXCEPT !.schema = IF @ = "empty" THEN "config" ELSE "full"]
          /\ UNCHANGED run /\ Rest
       \/ /\ file.schema = "full"
          /\ Goto("branding") /\ UNCHANGED file /\ Rest
       \/ OpenFails

\* The brand, for a file without one; a failure to write it is not looked at.
Brand ==
    /\ run.at = "branding"
    /\ Goto("checking")
    /\ \/ file' = [file EXCEPT !.app = IF @ = None THEN "oans" ELSE @] /\ Rest
       \/ UNCHANGED file /\ Fault

\* dbfile_get_config(): what has no row has the value this run would give it.
\* dbfile_check() wants the brand and this version.
Mismatch == file.app # "oans" \/ file.major = "old"
\* Mutant of BlocksizeOf: -b wins.
BlocksizeOf_Asked(f, asked) == asked
BlocksizeOf(f, asked) == IF f.bs = None THEN asked ELSE f.bs

\* The check reads the brand again, by dbfile_query_u64(): a read that fails is
\* a brand of 0, and the program's own hashfile then no hashfile of it.
Recreates == IF ReadOnly THEN EndMode(1) /\ UNCHANGED file
             ELSE file' = Gone /\ Goto("opening")       \* unlink()

Check ==
    /\ run.at = "checking"
    /\ \/ Mismatch /\ Recreates /\ Rest
       \/ ~Mismatch /\ Recreates /\ Fault
       \/ /\ ~Mismatch
          /\ run' = [run EXCEPT !.at = IF ReadOnly THEN "report" ELSE "syncing",
                                !.bs = BlocksizeOf(file, @)]
          /\ UNCHANGED file /\ Rest
       \/ OpenFails

\* __dbfile_sync_config(): a statement each, version_major last.
SyncDefaults ==
    /\ run.at = "syncing"
    /\ \/ /\ file.bs # run.bs
          /\ file' = [file EXCEPT !.bs = run.bs]
          /\ UNCHANGED run /\ Rest
       \/ /\ file.bs = run.bs
          /\ file' = [file EXCEPT !.major = "mine"]
          /\ Goto(Mode(run.cmd)) /\ Rest
       \/ OpenFails

(***************************************************************************)
(* The modes that are not a scan.                                          *)
(***************************************************************************)
Report == /\ run.at = "report"
          /\ \/ EndMode(0) /\ UNCHANGED file /\ Rest
             \/ FailsMode

\* rm_db_files(): all paths are tried, the first failure is the status.
RemoveRows ==
    /\ run.at = "rm"
    /\ LET named == Range(run.cmd.files)
       IN  \/ /\ file' = [file EXCEPT !.rows = {r \in @ : r.file \notin named}]
              /\ EndMode(IF named \subseteq {r.file : r \in file.rows} THEN 0 ELSE 1)
              /\ Rest
           \/ \E done \in SUBSET named :
                 /\ file' = [file EXCEPT !.rows = {r \in @ : r.file \notin done}]
                 /\ EndMode(1) /\ Fault

\* prune_block_hashes()
DropBlocks ==
    /\ run.at = "prune"
    /\ LET without == {[r EXCEPT !.blocks = FALSE] : r \in file.rows}
       IN  \/ file' = [file EXCEPT !.rows = without] /\ EndMode(0) /\ Rest
           \/ file' = [file EXCEPT !.rows = without] /\ EndMode(1) /\ Fault
           \/ FailsMode

(***************************************************************************)
(* main(), from the opened hashfile to the scan.                           *)
(***************************************************************************)
Among(roots, some) ==
    LET kept[i \in 0 .. Len(roots)] ==
            IF i = 0 THEN <<>>
            ELSE IF roots[i] \in some THEN Append(kept[i - 1], roots[i]) ELSE kept[i - 1]
    IN  kept[Len(roots)]
Live(roots) == Among(roots, present)

\* dbfile_load_scan_config(), apply_scan_config(), drop_missing_roots().
Replayable(sc) ==
    /\ sc.excludes \cap BadPatterns = {}
    /\ Live(sc.roots) # <<>>

Replay ==
    /\ run.at = "scan" /\ Bare(run.cmd) /\ ~run.replaying
    /\ \/ LET sc == file.scan
          IN  IF sc = None THEN GivesUp
              ELSE IF ~Replayable(sc) THEN GivesUp
              ELSE /\ run' = [run EXCEPT
                         !.replaying = TRUE, !.opts = sc.opts, !.roots = Live(sc.roots),
                         !.excludes = @ \cup sc.excludes,
                         !.dropped = Len(sc.roots) - Len(Live(sc.roots))]
                   /\ UNCHANGED file /\ Rest
       \/ Fault /\ End(1) /\ UNCHANGED file

\* Seeding the roots, by the rules of module ScanWalk, and what is below
\* those taken and not excluded.  probe_fs() may fail for some of them: before
\* the run is locked on a filesystem such a root is rejected without being
\* counted.  Directories and files that cannot be read are skipped.
Below(roots) == UNION {Tree[r] : r \in roots} \ run.excludes
UpToDate == {r.file : r \in file.rows}

Probed(failing) == Among(run.roots, present \ failing)
Locked(failing) ==
    IF Probed(failing) = <<>> THEN None
    ELSE IF file.fs # None THEN file.fs ELSE FsOf[Head(Probed(failing))]
Taken(failing) == {r \in Range(Probed(failing)) : FsOf[r] = Locked(failing)}
Rejected(failing) ==
    {i \in DOMAIN run.roots : /\ run.roots[i] \in failing
                              /\ \A j \in 1 .. i - 1 : run.roots[j] \notin Taken(failing)}
Unusable(failing) ==
    {i \in DOMAIN run.roots \ Rejected(failing) : run.roots[i] \notin Taken(failing)}

Seeded(failing, unread) ==
    LET below == Below(Taken(failing)) \ unread
    IN  [run EXCEPT
           !.at = "scanning", !.locked = Locked(failing),
           !.unusable = Cardinality(Unusable(failing)),
           !.unread = unread \cup Below({run.roots[i] : i \in Rejected(failing)}),
           !.todo = below \ UpToDate, !.seen = below \cap UpToDate,
           !.ret = IF Live(run.roots) # <<>> /\ Taken(failing) = {} THEN 1 ELSE 0]

Seed ==
    /\ run.at = "scan" /\ (Bare(run.cmd) => run.replaying)
    /\ \/ \E failing \in SUBSET present :
             \E unread \in SUBSET Below(Taken(failing)) :
                /\ run' = Seeded(failing, unread)
                /\ IF failing = {} /\ unread = {} THEN Rest ELSE Fault
       \/ Fault /\ End(1)       \* the rows of unhashed files stay
    /\ UNCHANGED file

(***************************************************************************)
(* scan_files().                                                           *)
(***************************************************************************)
HashFile ==
    /\ run.at = "scanning" /\ ~run.interrupted
    /\ \E f \in run.todo :
          run' = [run EXCEPT !.todo = @ \ {f}, !.seen = @ \cup {f},
                             !.batch = @ \cup {[file |-> f, bs |-> run.bs,
                                                blocks |-> run.opts.partial]}]
    /\ UNCHANGED file /\ Rest

Commit ==
    /\ run.at = "scanning"
    /\ run.batch # {}
    /\ \/ /\ file' = [file EXCEPT !.rows = @ \cup run.batch]
          /\ run' = [run EXCEPT !.batch = {}]
          /\ Rest
       \/ /\ Fault                                        \* the batch is lost
          /\ run' = [run EXCEPT !.at = "ended", !.status = 1]
          /\ UNCHANGED file

\* The filesystem is stored when the scan is over, whatever was stored.
EndScan ==
    /\ run.at = "scanning"
    /\ run.batch = {}
    /\ run.todo = {} \/ run.interrupted
    /\ IF run.ret # 0 THEN GivesUp
       ELSE \/ /\ file' = [file EXCEPT !.fs = run.locked]
               /\ Goto("persisting") /\ Rest
            \/ Fails

(***************************************************************************)
(* persist_scan_config() and dbfile_store_scan_config(), one transaction.  *)
(***************************************************************************)
Config == [opts |-> run.opts, roots |-> Live(run.cmd.files), excludes |-> run.cmd.excludes]
Blank == [opts |-> None, roots |-> <<>>, excludes |-> {}]
Persists == ~run.replaying /\ ~run.cmd.stdin

\* Mutant of Stage: the statements are not one transaction.
Stage_NoTransaction(new) ==
    /\ run' = [run EXCEPT !.txn = new]
    /\ file' = [file EXCEPT !.scan = new]

Stage(new) == run' = [run EXCEPT !.txn = new] /\ UNCHANGED file

Persist ==
    /\ run.at = "persisting"
    /\ \/ /\ ~Persists
          /\ Goto("dupes") /\ UNCHANGED file /\ Rest
       \/ /\ Persists
          /\ LET old == IF run.txn # None THEN run.txn
                        ELSE IF file.scan # None THEN file.scan ELSE Blank
             IN  \/ old.opts # Config.opts /\ Stage([old EXCEPT !.opts = Config.opts])
                 \/ /\ old.opts = Config.opts /\ old.roots # Config.roots
                    /\ Stage([old EXCEPT !.roots = Config.roots])
                 \/ /\ old.opts = Config.opts /\ old.roots = Config.roots
                    /\ old.excludes # Config.excludes
                    /\ Stage([old EXCEPT !.excludes = Config.excludes])
          /\ Rest
       \/ /\ Persists
          /\ (IF run.txn # None THEN run.txn ELSE file.scan) = Config
          /\ file' = [file EXCEPT !.scan = Config]        \* commit
          /\ last' = Config
          /\ run' = [run EXCEPT !.at = "dupes", !.txn = None]
          /\ UNCHANGED <<present, runs, faults, moves>>
       \/ /\ Persists
          /\ Fault                                        \* rollback
          /\ run' = [run EXCEPT !.at = "dupes", !.txn = None]
          /\ UNCHANGED file

(***************************************************************************)
(* process_duplicates() and the end of main().                             *)
(***************************************************************************)
\* The prune stats what the walk has not seen.
Pruned == {r \in file.rows : r.file \in run.seen
                             \/ \E d \in present : r.file \in Tree[d]}

Duplicates ==
    /\ run.at = "dupes"
    /\ \/ run.interrupted /\ Goto("recording") /\ UNCHANGED file /\ Rest
       \/ /\ ~run.interrupted
          /\ file' = [file EXCEPT !.rows = Pruned]
          /\ \/ Goto("recording") /\ Rest
             \/ run' = [run EXCEPT !.at = "recording", !.ret = 1] /\ Fault
       \/ /\ ~run.interrupted                             \* the prune fails
          /\ Goto("recording") /\ UNCHANGED file /\ Fault

\* dbfile_record_run(), unless interrupted.
RecordRun ==
    IF run.interrupted THEN {}
    ELSE {IF run.todo = {} THEN "complete" ELSE "cut"}

Finish ==
    /\ run.at = "recording"
    /\ End(run.ret)
    /\ \/ file' = [file EXCEPT !.history = @ \cup RecordRun] /\ Rest
       \/ UNCHANGED file /\ Fault

(***************************************************************************)
(* What happens to a run, and to the disk.                                 *)
(***************************************************************************)
Running == run.at \notin {"off", "ended"}

Signal == /\ Running /\ ~run.interrupted
          /\ run' = [run EXCEPT !.interrupted = TRUE]
          /\ UNCHANGED file /\ Rest

Kill == /\ Running
        /\ run' = Idle
        /\ UNCHANGED file /\ Rest

Move == /\ moves < MaxMoves
        /\ moves' = moves + 1
        /\ \E r \in Roots :
              present' = IF r \in present THEN present \ {r} ELSE present \cup {r}
        /\ UNCHANGED <<file, run, last, runs, faults>>

Next ==
    \/ \E c \in Commands : Start(c)
    \/ Open \/ CreateTables \/ Brand \/ Check \/ SyncDefaults
    \/ Report \/ RemoveRows \/ DropBlocks
    \/ Replay \/ Seed \/ HashFile \/ Commit \/ EndScan
    \/ Persist \/ Duplicates \/ Finish
    \/ Signal \/ Kill \/ Move

Spec == Init /\ [][Next]_vars

(***************************************************************************)
(* Properties.                                                             *)
(***************************************************************************)
\* The file of another program is not written, nor any file by a report, nor
\* the stored configuration by the replay of it, unless a read of the brand has
\* failed and the whole hashfile is made anew; and where no hashfile is, a bare
\* replay leaves none.
Foreign == file.app = "alien" \/ file.schema = "alien"
LeftAlone ==
    [][/\ Foreign => file' = file
       /\ Running /\ (ReadOnly \/ (Bare(run.cmd) /\ run.found.schema = "none")) =>
             file' = file
       /\ Running /\ Bare(run.cmd) /\ run.found.app = "oans" /\ run.found.major # "old" =>
             file'.scan = file.scan \/ (file' = Gone /\ Fault /\ run.at = "checking")]_vars

\* Block hashes of two block sizes are never in one hashfile, whatever -b the
\* runs were given and wherever they were killed.
OneBlocksize == \A r \in file.rows : r.bs = file.bs

\* A replay does what the last run that stored its configuration was told to
\* do, all of it: no stored exclude is left out, no two configurations mix, and
\* its roots are the stored ones that exist.
ReplayWhole ==
    run.replaying =>
        /\ last # None
        /\ run.opts = last.opts
        /\ last.excludes \subseteq run.excludes
        /\ \E some \in SUBSET Roots : run.roots = Among(last.roots, some)

\* What a run was asked to cover.
Asked == IF run.replaying THEN Range(last.roots) ELSE Range(run.cmd.files)
ScanEnded == run.at = "ended" /\ run.cmd.modes = {}

\* 0 is a scan that reached everything below every root asked for but what it
\* has reported as unreadable: roots rejected before there was a filesystem to
\* lock on, which are not counted, and what was skipped below the others.  2 is
\* one that missed a root and nothing else, 130 one that nothing but the signal
\* cut short; and the history has no run that was cut short.
HonestStatus ==
    /\ ScanEnded =>
        /\ run.status \in {0, 1, 2, 130}
        /\ run.status \in {0, 2} => run.todo = {} /\ run.ret = 0 /\ ~run.interrupted
        /\ run.status = 0 => Below(Asked) \subseteq run.seen \cup run.unread
        /\ run.status = 2 => run.unusable # 0 \/ run.dropped # 0
        /\ run.status = 130 => run.interrupted
    /\ "cut" \notin file.history

\* An undisturbed run opens a hashfile that earlier runs of oans, wherever they
\* were killed, left branded, empty or not there at all, and completes, if its
\* roots exist and are on the hashfile's filesystem.  One left between its first
\* table and its brand is not among them: it is refused for good.
Reopens ==
    /\ ScanEnded
    /\ run.since = faults + moves /\ ~run.interrupted
    /\ \/ run.found.app = "oans"
       \/ run.found.app = None /\ run.found.schema \in {"none", "empty"}
    /\ ~Bare(run.cmd) /\ ~OptionsRefused(run.cmd)
    /\ Range(run.cmd.files) \subseteq present
    /\ \A r \in Range(run.cmd.files) :
          FsOf[r] = IF run.found.fs = None THEN FsOf[Head(run.cmd.files)] ELSE run.found.fs
    => run.status = 0

\* The rows of a hashfile are of one filesystem, the one it is locked on.
OneFilesystem ==
    Cardinality({FsOf[d] : d \in {e \in Roots : \E r \in file.rows : r.file \in Tree[e]}}) <= 1
=============================================================================
