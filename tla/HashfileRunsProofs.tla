------------------------- MODULE HashfileRunsProofs -------------------------
(***************************************************************************)
(* Proofs about HashfileRuns, for any command lines, any trees and any     *)
(* number of runs, faults and kills.                                       *)
(*                                                                         *)
(* What is in the hashfile follows from one inductive invariant, IInv,     *)
(* which says at which points of a run the hashfile and the process agree. *)
(* What a run exits with follows from a second one, HInv, on top of it:    *)
(* which roots the run has, what is left to do below them, and what an     *)
(* undisturbed run meets on its way.                                       *)
(***************************************************************************)
EXTENDS HashfileRuns, LeastElements, FiniteSetTheorems, TLAPS

-----------------------------------------------------------------------------
(* The inductive invariant. *)

\* What the process and the hashfile are made of.
RunFields ==
    {"at", "cmd", "found", "since", "bs", "opts", "roots", "excludes",
     "replaying", "dropped", "unusable", "unread", "todo", "seen", "batch", "locked",
     "txn", "ret", "interrupted", "status"}
FileFields == {"schema", "app", "major", "bs", "fs", "rows", "scan", "history"}
Shape == /\ run = [x \in RunFields |-> run[x]]
         /\ file = [x \in FileFields |-> file[x]]

\* The rows have the block size of the hashfile, which the run takes over
\* before it hashes and never changes again.
Blocksizes ==
    /\ \A r \in file.rows : "bs" \in DOMAIN r /\ r.bs = file.bs
    /\ file.bs = None => file.rows = {}
    /\ \A r \in run.batch : "bs" \in DOMAIN r /\ r.bs = run.bs
    /\ run.at \notin {"scanning", "ended"} => run.batch = {}
    /\ run.at \notin {"off", "ended"} => run.bs # None
    /\ run.at = "syncing" => file.bs \in {None, run.bs}
    /\ run.at \in {"scan", "scanning"} => file.bs = run.bs

\* A foreign file is never got past, and a report never past the checks.
Turned ==
    /\ file.schema = "none" => file.app # "alien"
    /\ file.schema = "alien" => file.app # "oans"
    /\ Foreign => run.at \in {"off", "opening", "ended"}
    /\ Running /\ ReadOnly => run.at \in {"opening", "checking", "report"}

\* A bare replay has found a hashfile, keeps it if it is of this version, unless
\* its brand could not be read and all is gone, and scans only what it has read
\* there.
Replays ==
    Running /\ Bare(run.cmd) =>
        /\ run.found.schema # "none"
        /\ run.found.app = "oans" /\ run.found.major # "old" =>
              /\ \/ file.schema # "none" /\ file.app = "oans" /\ file.major # "old"
                 \/ file.scan = None
              /\ run.at \in {"scanning", "persisting", "dupes", "recording"} => run.replaying

\* A stored configuration is the last one stored whole.
Remembers ==
    /\ present \subseteq Roots
    /\ file.scan # None => file.scan = last
    /\ ReplayWhole

IInv == Shape /\ Blocksizes /\ Turned /\ Replays /\ Remembers

-----------------------------------------------------------------------------
LEMMA Initially == Init => IInv
<1>. SUFFICES ASSUME Init PROVE IInv
  OBVIOUS
<1>1. /\ run = Idle /\ Idle = [x \in RunFields |-> Idle[x]]
      /\ Idle.at = "off" /\ Idle.batch = {} /\ ~Idle.replaying
  BY DEF Init, Idle, RunFields
<1>2. DOMAIN Gone = FileFields /\ Gone.app = None
  BY DEF Gone, FileFields
<1>3. file = [x \in FileFields |-> file[x]]
  BY <1>2, FoundOK DEF Init
<1>4. Shape
  BY <1>1, <1>3 DEF Shape
<1>5. Blocksizes
  BY <1>1, FoundOK DEF Init, Blocksizes
<1>6. Turned
  BY <1>1, <1>2, FoundOK, HashfileRunsConstants DEF Init, Turned, Running
<1>7. Replays
  BY <1>1 DEF Replays, Running
<1>8. Remembers
  BY <1>1 DEF Init, Remembers, ReplayWhole
<1>. QED BY <1>4, <1>5, <1>6, <1>7, <1>8 DEF IInv

\* What a run starts from, and what is left of a hashfile that is removed.
LEMMA IdleFacts ==
    /\ Idle = [x \in RunFields |-> Idle[x]]
    /\ Idle.at = "off" /\ Idle.batch = {} /\ ~Idle.replaying
BY DEF Idle, RunFields

LEMMA GoneFacts ==
    /\ Gone = [x \in FileFields |-> Gone[x]]
    /\ Gone.schema = "none" /\ Gone.app = None /\ Gone.bs = None /\ Gone.rows = {} /\ Gone.scan = None
    /\ Empty = [x \in FileFields |-> Empty[x]]
    /\ Empty.schema = "empty" /\ Empty.app = None /\ Empty.bs = None /\ Empty.rows = {} /\ Empty.scan = None
BY DEF Gone, Empty, FileFields

\* A step that moves the run on, or ends it, leaves the rest of it alone.
SameRun ==
    /\ run'.cmd = run.cmd /\ run'.found = run.found /\ run'.bs = run.bs
    /\ run'.batch = run.batch /\ run'.opts = run.opts /\ run'.roots = run.roots
    /\ run'.excludes = run.excludes /\ run'.replaying = run.replaying

LEMMA OnlyAt ==
    ASSUME IInv, NEW at, NEW status,
           \/ run' = [run EXCEPT !.at = at]
           \/ run' = [run EXCEPT !.at = at, !.status = status]
    PROVE  run'.at = at /\ SameRun
<1>1. CASE run' = [run EXCEPT !.at = at]
  BY <1>1 DEF IInv, Shape, RunFields, SameRun
<1>2. CASE run' = [run EXCEPT !.at = at, !.status = status]
  BY <1>2 DEF IInv, Shape, RunFields, SameRun
<1>. QED BY <1>1, <1>2

LEMMA OpenKeeps == ASSUME IInv, Open PROVE IInv'
<1>0. /\ run.at = "opening" /\ run'.at \in {"opening", "creating", "checking", "ended"}
      /\ SameRun
  <2>1. \/ run' = run
        \/ \E status : \E at \in {"creating", "checking", "ended"} :
              \/ run' = [run EXCEPT !.at = at]
              \/ run' = [run EXCEPT !.at = at, !.status = status]
    BY DEF Open, OpenMissing, OpenFound, OpenFails, NotReported, Refuses, Stop, Goto, End, EndMode
  <2>2. run.at = "opening"
    BY DEF Open
  <2>3. CASE run' = run
    BY <2>2, <2>3 DEF SameRun
  <2>. QED BY <2>1, <2>2, <2>3, OnlyAt
<1>1. Shape'
  BY GoneFacts DEF IInv, Shape, RunFields, FileFields, Open, OpenMissing, OpenFound, OpenFails, NotReported, Refuses, Stop, Identify, Goto, End, EndMode, Fault, Rest, Same
<1>2. Blocksizes'
  <2>1. file' = file \/ file' = Gone \/ file' = Empty
    BY DEF Open, OpenMissing, OpenFound, OpenFails, NotReported, Refuses, Stop, Identify, Goto, End, EndMode, Fault, Rest, Same
  <2>. QED BY <1>0, <2>1, GoneFacts DEF IInv, Blocksizes, SameRun
<1>3. Turned'
  BY HashfileRunsConstants, GoneFacts DEF IInv, Shape, Turned, Foreign, Running, ReadOnly, RunFields, FileFields, Open, OpenMissing, OpenFound, OpenFails, NotReported, Refuses, Stop, Identify, Goto, End, EndMode, Fault, Rest, Same
<1>4. Replays'
  <2>1. \/ file' = file
        \/ file.schema = "none" /\ file' = Empty
        \/ Identify = "old" /\ file' = Gone
    BY DEF Open, OpenMissing, OpenFound, OpenFails, NotReported, Refuses, Rest, Same
  <2>2. CASE file' = file
    BY <1>0, <2>2 DEF IInv, Replays, Running, Bare, SameRun
  <2>3. CASE Identify = "old" /\ file' = Gone
    BY <1>0, <2>3, GoneFacts, HashfileRunsConstants
       DEF IInv, Replays, Running, Bare, SameRun, Identify
  <2>4. CASE file.schema = "none" /\ file' = Empty
    BY <1>0, <2>4, GoneFacts DEF IInv, Replays, Running, Bare, SameRun
  <2>. QED BY <2>1, <2>2, <2>3, <2>4
<1>5. Remembers'
  BY GoneFacts DEF IInv, Shape, Remembers, ReplayWhole, RunFields, FileFields, Open, OpenMissing, OpenFound, OpenFails, NotReported, Refuses, Stop, Identify, Goto, End, EndMode, Fault, Rest, Same
<1>. QED BY <1>1, <1>2, <1>3, <1>4, <1>5 DEF IInv

LEMMA CreateTablesKeeps == ASSUME IInv, CreateTables PROVE IInv'
<1>1. Shape'
  BY DEF IInv, Shape, RunFields, FileFields, CreateTables, OpenFails, Stop, Goto, End, EndMode, Fault, Rest, Same
<1>2. Blocksizes'
  BY HashfileRunsConstants DEF IInv, Shape, Blocksizes, RunFields, FileFields, CreateTables, OpenFails, Stop, Goto, End, EndMode, Fault, Rest, Same
<1>3. Turned'
  BY HashfileRunsConstants DEF IInv, Shape, Turned, Foreign, Running, ReadOnly, RunFields, FileFields, CreateTables, OpenFails, Stop, Goto, End, EndMode, Fault, Rest, Same
<1>4. Replays'
  BY DEF IInv, Shape, Turned, Replays, Running, Bare, RunFields, FileFields, CreateTables, OpenFails, Stop, Goto, End, EndMode, Fault, Rest, Same
<1>5. Remembers'
  BY DEF IInv, Shape, Remembers, ReplayWhole, RunFields, FileFields, CreateTables, OpenFails, Stop, Goto, End, EndMode, Fault, Rest, Same
<1>. QED BY <1>1, <1>2, <1>3, <1>4, <1>5 DEF IInv

LEMMA BrandKeeps == ASSUME IInv, Brand PROVE IInv'
<1>1. Shape'
  BY DEF IInv, Shape, RunFields, FileFields, Brand, Goto, End, EndMode, Fault, Rest, Same
<1>2. Blocksizes'
  BY HashfileRunsConstants DEF IInv, Shape, Blocksizes, RunFields, FileFields, Brand, Goto, End, EndMode, Fault, Rest, Same
<1>3. Turned'
  BY HashfileRunsConstants DEF IInv, Shape, Turned, Foreign, Running, ReadOnly, RunFields, FileFields, Brand, Goto, End, EndMode, Fault, Rest, Same
<1>4. Replays'
  BY DEF IInv, Shape, Turned, Replays, Running, Bare, RunFields, FileFields, Brand, Goto, End, EndMode, Fault, Rest, Same
<1>5. Remembers'
  BY DEF IInv, Shape, Remembers, ReplayWhole, RunFields, FileFields, Brand, Goto, End, EndMode, Fault, Rest, Same
<1>. QED BY <1>1, <1>2, <1>3, <1>4, <1>5 DEF IInv

LEMMA CheckKeeps == ASSUME IInv, Check PROVE IInv'
<1>1. Shape'
  BY GoneFacts DEF IInv, Shape, RunFields, FileFields, Check, Mismatch, Recreates, OpenFails, NotReported, Stop, BlocksizeOf, Goto, End, EndMode, Fault, Rest, Same
<1>2. Blocksizes'
  <2>1. run.at = "checking" /\ run.batch = {} /\ run.bs # None
    BY DEF IInv, Blocksizes, Check
  <2>2. file' \in {file, Gone} /\ run'.batch = run.batch
    BY DEF IInv, Shape, RunFields, FileFields, Check, Mismatch, Recreates, OpenFails, NotReported, Stop, BlocksizeOf, Goto, End, EndMode, Fault, Rest, Same
  <2>3. \/ run'.bs = run.bs /\ run'.at \in {"opening", "ended"}
        \/ /\ run'.at \in {"report", "syncing"} /\ file' = file
           /\ run'.bs = IF file.bs = None THEN run.bs ELSE file.bs
    BY DEF IInv, Shape, RunFields, FileFields, Check, Mismatch, Recreates, OpenFails, NotReported, Stop, BlocksizeOf, Goto, End, EndMode, Fault, Rest, Same
  <2>. QED BY <2>1, <2>2, <2>3, GoneFacts DEF IInv, Blocksizes
<1>3. Turned'
  BY HashfileRunsConstants, GoneFacts DEF IInv, Shape, Turned, Foreign, Running, ReadOnly, RunFields, FileFields, Check, Mismatch, Recreates, OpenFails, NotReported, Stop, BlocksizeOf, Goto, End, EndMode, Fault, Rest, Same
<1>4. Replays'
  <2>1. /\ run'.at \in {"opening", "report", "syncing", "ended"}
        /\ run'.cmd = run.cmd /\ run'.found = run.found /\ run.at = "checking"
    <3>1. \/ \E status : \E at \in {"opening", "ended"} :
                \/ run' = [run EXCEPT !.at = at]
                \/ run' = [run EXCEPT !.at = at, !.status = status]
          \/ \E bs : \E at \in {"report", "syncing"} : run' = [run EXCEPT !.at = at, !.bs = bs]
      BY DEF Check, Recreates, OpenFails, NotReported, Stop, Goto, End, EndMode
    <3>2. ASSUME NEW bs, NEW at \in {"report", "syncing"}, run' = [run EXCEPT !.at = at, !.bs = bs]
          PROVE  run'.at = at /\ run'.cmd = run.cmd /\ run'.found = run.found
      BY <3>2 DEF IInv, Shape, RunFields
    <3>3. run.at = "checking"
      BY DEF Check
    <3>. QED BY <3>1, <3>2, <3>3, OnlyAt DEF SameRun
  <2>2. file' = file \/ file' = Gone
    BY DEF Check, Recreates, OpenFails, NotReported
  <2>. QED BY <2>1, <2>2, GoneFacts DEF IInv, Replays, Running, Bare
<1>5. Remembers'
  BY GoneFacts DEF IInv, Shape, Remembers, ReplayWhole, RunFields, FileFields, Check, Mismatch, Recreates, OpenFails, NotReported, Stop, BlocksizeOf, Goto, End, EndMode, Fault, Rest, Same
<1>. QED BY <1>1, <1>2, <1>3, <1>4, <1>5 DEF IInv

LEMMA SyncDefaultsKeeps == ASSUME IInv, SyncDefaults PROVE IInv'
<1>1. Shape'
  BY DEF IInv, Shape, RunFields, FileFields, SyncDefaults, OpenFails, Stop, Goto, End, EndMode, Fault, Rest, Same
<1>2. Blocksizes'
  BY HashfileRunsConstants DEF IInv, Shape, Blocksizes, RunFields, FileFields, SyncDefaults, OpenFails, Stop, Goto, End, EndMode, Fault, Rest, Same
<1>3. Turned'
  BY HashfileRunsConstants DEF IInv, Shape, Turned, Foreign, Running, ReadOnly, RunFields, FileFields, SyncDefaults, OpenFails, Stop, Goto, End, EndMode, Fault, Rest, Same
<1>4. Replays'
  BY DEF IInv, Shape, Turned, Replays, Running, Bare, RunFields, FileFields, SyncDefaults, OpenFails, Stop, Goto, End, EndMode, Fault, Rest, Same, Mode
<1>5. Remembers'
  BY DEF IInv, Shape, Remembers, ReplayWhole, RunFields, FileFields, SyncDefaults, OpenFails, Stop, Goto, End, EndMode, Fault, Rest, Same
<1>. QED BY <1>1, <1>2, <1>3, <1>4, <1>5 DEF IInv

LEMMA ReportKeeps == ASSUME IInv, Report PROVE IInv'
<1>1. Shape'
  BY DEF IInv, Shape, RunFields, FileFields, Report, FailsMode, Goto, End, EndMode, Fault, Rest, Same
<1>2. Blocksizes'
  BY HashfileRunsConstants DEF IInv, Shape, Blocksizes, RunFields, FileFields, Report, FailsMode, Goto, End, EndMode, Fault, Rest, Same
<1>3. Turned'
  BY HashfileRunsConstants DEF IInv, Shape, Turned, Foreign, Running, ReadOnly, RunFields, FileFields, Report, FailsMode, Goto, End, EndMode, Fault, Rest, Same
<1>4. Replays'
  BY DEF IInv, Shape, Turned, Replays, Running, Bare, RunFields, FileFields, Report, FailsMode, Goto, End, EndMode, Fault, Rest, Same
<1>5. Remembers'
  BY DEF IInv, Shape, Remembers, ReplayWhole, RunFields, FileFields, Report, FailsMode, Goto, End, EndMode, Fault, Rest, Same
<1>. QED BY <1>1, <1>2, <1>3, <1>4, <1>5 DEF IInv

LEMMA RemoveRowsKeeps == ASSUME IInv, RemoveRows PROVE IInv'
<1>1. Shape'
  BY DEF IInv, Shape, RunFields, FileFields, RemoveRows, Goto, End, EndMode, Fault, Rest, Same
<1>2. Blocksizes'
  <2>1. PICK done : file' = [file EXCEPT !.rows = {r \in file.rows : r.file \notin done}]
    BY DEF RemoveRows
  <2>2. file'.rows \subseteq file.rows /\ file'.bs = file.bs
    BY <2>1 DEF IInv, Shape, FileFields
  <2>3. PICK ret : run' = [run EXCEPT !.at = "ended", !.status = ret]
    BY DEF RemoveRows, EndMode
  <2>4. run'.batch = run.batch /\ run'.bs = run.bs /\ run'.at = "ended"
    BY <2>3 DEF IInv, Shape, RunFields
  <2>. QED BY <2>2, <2>4 DEF IInv, Blocksizes, RemoveRows
<1>3. Turned'
  BY HashfileRunsConstants DEF IInv, Shape, Turned, Foreign, Running, ReadOnly, RunFields, FileFields, RemoveRows, Goto, End, EndMode, Fault, Rest, Same
<1>4. Replays'
  BY DEF IInv, Shape, Turned, Replays, Running, Bare, RunFields, FileFields, RemoveRows, Goto, End, EndMode, Fault, Rest, Same
<1>5. Remembers'
  BY DEF IInv, Shape, Remembers, ReplayWhole, RunFields, FileFields, RemoveRows, Goto, End, EndMode, Fault, Rest, Same
<1>. QED BY <1>1, <1>2, <1>3, <1>4, <1>5 DEF IInv

LEMMA DropBlocksKeeps == ASSUME IInv, DropBlocks PROVE IInv'
<1>1. Shape'
  BY DEF IInv, Shape, RunFields, FileFields, DropBlocks, FailsMode, Goto, End, EndMode, Fault, Rest, Same
<1>2. Blocksizes'
  <2>. DEFINE without == {[r EXCEPT !.blocks = FALSE] : r \in file.rows}
  <2>1. file'.rows \in {file.rows, without} /\ file'.bs = file.bs
    BY DEF IInv, Shape, RunFields, FileFields, DropBlocks, FailsMode, Goto, End, EndMode, Fault, Rest, Same
  <2>2. run'.batch = run.batch /\ run'.bs = run.bs /\ run'.at = "ended"
    <3>1. \E status : run' = [run EXCEPT !.at = "ended", !.status = status]
      BY DEF DropBlocks, FailsMode, EndMode
    <3>. QED BY <3>1, OnlyAt DEF SameRun
  <2>3. \A r \in without : "bs" \in DOMAIN r /\ r.bs = file.bs
    BY DEF IInv, Blocksizes
  <2>. QED BY <2>1, <2>2, <2>3 DEF IInv, Blocksizes, DropBlocks
<1>3. Turned'
  BY HashfileRunsConstants DEF IInv, Shape, Turned, Foreign, Running, ReadOnly, RunFields, FileFields, DropBlocks, FailsMode, Goto, End, EndMode, Fault, Rest, Same
<1>4. Replays'
  BY DEF IInv, Shape, Turned, Replays, Running, Bare, RunFields, FileFields, DropBlocks, FailsMode, Goto, End, EndMode, Fault, Rest, Same
<1>5. Remembers'
  BY DEF IInv, Shape, Remembers, ReplayWhole, RunFields, FileFields, DropBlocks, FailsMode, Goto, End, EndMode, Fault, Rest, Same
<1>. QED BY <1>1, <1>2, <1>3, <1>4, <1>5 DEF IInv

LEMMA ReplayKeeps == ASSUME IInv, Replay PROVE IInv'
<1>1. Shape'
  BY DEF IInv, Shape, RunFields, FileFields, Replay, GivesUp, Goto, End, EndMode, Fault, Rest, Same
<1>2. Blocksizes'
  BY HashfileRunsConstants DEF IInv, Shape, Blocksizes, RunFields, FileFields, Replay, GivesUp, Goto, End, EndMode, Fault, Rest, Same
<1>3. Turned'
  BY HashfileRunsConstants DEF IInv, Shape, Turned, Foreign, Running, ReadOnly, RunFields, FileFields, Replay, GivesUp, Goto, End, EndMode, Fault, Rest, Same
<1>4. Replays'
  BY DEF IInv, Shape, Turned, Replays, Running, Bare, RunFields, FileFields, Replay, GivesUp, Goto, End, EndMode, Fault, Rest, Same
<1>5. Remembers'
  <2>1. file' = file /\ last' = last /\ present' = present
    BY DEF Replay, GivesUp, Fault, Rest, Same
  <2>2. \/ /\ run'.replaying = run.replaying /\ run'.opts = run.opts
           /\ run'.roots = run.roots /\ run'.excludes = run.excludes
        \/ /\ file.scan # None
           /\ run'.opts = file.scan.opts /\ run'.roots = Among(file.scan.roots, present)
           /\ file.scan.excludes \subseteq run'.excludes
    <3>. DEFINE sc == file.scan
                live == Live(sc.roots)
    <3>1. \/ End(1)
          \/ /\ sc # None
             /\ \E n : run' = [run EXCEPT
                   !.replaying = TRUE, !.opts = sc.opts, !.roots = live,
                   !.excludes = run.excludes \cup sc.excludes, !.dropped = n]
      BY DEF Replay, GivesUp
    <3>2. CASE End(1)
      BY <3>2 DEF End, IInv, Shape, RunFields
    <3>3. ASSUME sc # None, NEW n,
                 run' = [run EXCEPT
                   !.replaying = TRUE, !.opts = sc.opts, !.roots = live,
                   !.excludes = run.excludes \cup sc.excludes, !.dropped = n]
          PROVE /\ run'.opts = sc.opts /\ run'.roots = live
                /\ run'.excludes = run.excludes \cup sc.excludes
      <4>. HIDE DEF sc, live
      <4>. QED BY <3>3 DEF IInv, Shape, RunFields
    <3>. QED BY <3>1, <3>2, <3>3 DEF Live
  <2>. QED BY <2>1, <2>2 DEF IInv, Remembers, ReplayWhole
<1>. QED BY <1>1, <1>2, <1>3, <1>4, <1>5 DEF IInv

\* What seeding leaves of the run and of the hashfile.
LEMMA SeedLeaves ==
    ASSUME IInv, Seed
    PROVE  /\ UNCHANGED <<file, present, last>> /\ Shape'
           /\ run.at = "scan" /\ run'.at \in {"scanning", "ended"}
           /\ (Bare(run.cmd) => run.replaying)
           /\ run'.cmd = run.cmd /\ run'.found = run.found /\ run'.bs = run.bs
           /\ run'.batch = run.batch /\ run'.opts = run.opts /\ run'.roots = run.roots
           /\ run'.excludes = run.excludes /\ run'.replaying = run.replaying
<1>1. /\ UNCHANGED <<file, present, last>>
      /\ run.at = "scan" /\ (Bare(run.cmd) => run.replaying)
  BY DEF Seed, Fault, Rest, Same
<1>2. (\E F, U : run' = Seeded(F, U)) \/ End(1)
  BY Zenon DEF Seed
<1>3. CASE End(1)
  BY <1>1, <1>3 DEF End, IInv, Shape, RunFields
<1>4. ASSUME NEW F, NEW U, run' = Seeded(F, U)
      PROVE  /\ Shape' /\ run'.at = "scanning"
             /\ run'.cmd = run.cmd /\ run'.found = run.found /\ run'.bs = run.bs
             /\ run'.batch = run.batch /\ run'.opts = run.opts /\ run'.roots = run.roots
             /\ run'.excludes = run.excludes /\ run'.replaying = run.replaying
  BY <1>1, <1>4 DEF Seeded, IInv, Shape, RunFields
<1>. QED BY <1>1, <1>2, <1>3, <1>4

LEMMA SeedKeeps == ASSUME IInv, Seed PROVE IInv'
<1>1. Shape'
  BY SeedLeaves
<1>2. Blocksizes'
  BY SeedLeaves DEF IInv, Blocksizes
<1>3. Turned'
  BY SeedLeaves DEF IInv, Turned, Foreign, Running, ReadOnly
<1>4. Replays'
  BY SeedLeaves DEF IInv, Replays, Running, Bare
<1>5. Remembers'
  BY SeedLeaves DEF IInv, Remembers, ReplayWhole
<1>. QED BY <1>1, <1>2, <1>3, <1>4, <1>5 DEF IInv

LEMMA HashFileKeeps == ASSUME IInv, HashFile PROVE IInv'
<1>1. Shape'
  BY DEF IInv, Shape, RunFields, FileFields, HashFile, Goto, End, EndMode, Fault, Rest, Same
<1>2. Blocksizes'
  BY HashfileRunsConstants DEF IInv, Shape, Blocksizes, RunFields, FileFields, HashFile, Goto, End, EndMode, Fault, Rest, Same
<1>3. Turned'
  BY HashfileRunsConstants DEF IInv, Shape, Turned, Foreign, Running, ReadOnly, RunFields, FileFields, HashFile, Goto, End, EndMode, Fault, Rest, Same
<1>4. Replays'
  BY DEF IInv, Shape, Turned, Replays, Running, Bare, RunFields, FileFields, HashFile, Goto, End, EndMode, Fault, Rest, Same
<1>5. Remembers'
  BY DEF IInv, Shape, Remembers, ReplayWhole, RunFields, FileFields, HashFile, Goto, End, EndMode, Fault, Rest, Same
<1>. QED BY <1>1, <1>2, <1>3, <1>4, <1>5 DEF IInv

LEMMA CommitKeeps == ASSUME IInv, Commit PROVE IInv'
<1>1. Shape'
  BY DEF IInv, Shape, RunFields, FileFields, Commit, Goto, End, EndMode, Fault, Rest, Same
<1>2. Blocksizes'
  <2>1. file'.rows \in {file.rows, file.rows \cup run.batch} /\ file'.bs = file.bs
    BY DEF IInv, Shape, RunFields, FileFields, Commit, Goto, End, EndMode, Fault, Rest, Same
  <2>2. run'.batch \in {run.batch, {}} /\ run'.bs = run.bs /\ run'.at \in {"scanning", "ended"}
    BY DEF IInv, Shape, RunFields, FileFields, Commit, Goto, End, EndMode, Fault, Rest, Same
  <2>3. run.at = "scanning" /\ file.bs = run.bs /\ run.bs # None
    BY DEF IInv, Blocksizes, Commit
  <2>. QED BY <2>1, <2>2, <2>3 DEF IInv, Blocksizes
<1>3. Turned'
  BY HashfileRunsConstants DEF IInv, Shape, Turned, Foreign, Running, ReadOnly, RunFields, FileFields, Commit, Goto, End, EndMode, Fault, Rest, Same
<1>4. Replays'
  BY DEF IInv, Shape, Turned, Replays, Running, Bare, RunFields, FileFields, Commit, Goto, End, EndMode, Fault, Rest, Same
<1>5. Remembers'
  BY DEF IInv, Shape, Remembers, ReplayWhole, RunFields, FileFields, Commit, Goto, End, EndMode, Fault, Rest, Same
<1>. QED BY <1>1, <1>2, <1>3, <1>4, <1>5 DEF IInv

LEMMA EndScanKeeps == ASSUME IInv, EndScan PROVE IInv'
<1>1. Shape'
  BY DEF IInv, Shape, RunFields, FileFields, EndScan, Fails, GivesUp, Goto, End, EndMode, Fault, Rest, Same
<1>2. Blocksizes'
  <2>1. file'.rows = file.rows /\ file'.bs = file.bs
    BY DEF IInv, Shape, RunFields, FileFields, EndScan, Fails, GivesUp, Goto, End, EndMode, Fault, Rest, Same
  <2>2. run'.batch = run.batch /\ run'.bs = run.bs /\ run'.at \in {"persisting", "ended"}
    BY DEF IInv, Shape, RunFields, FileFields, EndScan, Fails, GivesUp, Goto, End, EndMode, Fault, Rest, Same
  <2>3. run.at = "scanning" /\ run.batch = {}
    BY DEF EndScan
  <2>. QED BY <2>1, <2>2, <2>3 DEF IInv, Blocksizes
<1>3. Turned'
  BY HashfileRunsConstants DEF IInv, Shape, Turned, Foreign, Running, ReadOnly, RunFields, FileFields, EndScan, Fails, GivesUp, Goto, End, EndMode, Fault, Rest, Same
<1>4. Replays'
  BY DEF IInv, Shape, Turned, Replays, Running, Bare, RunFields, FileFields, EndScan, Fails, GivesUp, Goto, End, EndMode, Fault, Rest, Same
<1>5. Remembers'
  BY DEF IInv, Shape, Remembers, ReplayWhole, RunFields, FileFields, EndScan, Fails, GivesUp, Goto, End, EndMode, Fault, Rest, Same
<1>. QED BY <1>1, <1>2, <1>3, <1>4, <1>5 DEF IInv

LEMMA PersistKeeps == ASSUME IInv, Persist PROVE IInv'
<1>1. Shape'
  BY DEF IInv, Shape, RunFields, FileFields, Persist, Persists, Stage, Goto, End, EndMode, Fault, Rest, Same
<1>2. Blocksizes'
  BY HashfileRunsConstants DEF IInv, Shape, Blocksizes, RunFields, FileFields, Persist, Persists, Stage, Goto, End, EndMode, Fault, Rest, Same
<1>3. Turned'
  BY HashfileRunsConstants DEF IInv, Shape, Turned, Foreign, Running, ReadOnly, RunFields, FileFields, Persist, Persists, Stage, Goto, End, EndMode, Fault, Rest, Same
<1>4. Replays'
  BY DEF IInv, Shape, Turned, Replays, Running, Bare, RunFields, FileFields, Persist, Persists, Stage, Goto, End, EndMode, Fault, Rest, Same
<1>5. Remembers'
  BY DEF IInv, Shape, Remembers, ReplayWhole, RunFields, FileFields, Persist, Persists, Stage, Goto, End, EndMode, Fault, Rest, Same
<1>. QED BY <1>1, <1>2, <1>3, <1>4, <1>5 DEF IInv

LEMMA DuplicatesKeeps == ASSUME IInv, Duplicates PROVE IInv'
<1>1. Shape'
  BY DEF IInv, Shape, RunFields, FileFields, Duplicates, Pruned, Goto, End, EndMode, Fault, Rest, Same
<1>2. Blocksizes'
  <2>1. file'.rows \subseteq file.rows /\ file'.bs = file.bs
    BY DEF IInv, Shape, RunFields, FileFields, Duplicates, Pruned, Goto, End, EndMode, Fault, Rest, Same
  <2>2. run'.batch = run.batch /\ run'.bs = run.bs /\ run'.at \in {"ended", "recording"}
    <3>1. \/ run' = [run EXCEPT !.at = "recording"]
          \/ run' = [run EXCEPT !.at = "recording", !.ret = 1]
      BY DEF Duplicates, Goto
    <3>2. CASE run' = [run EXCEPT !.at = "recording"]
      BY <3>2, OnlyAt DEF SameRun
    <3>3. CASE run' = [run EXCEPT !.at = "recording", !.ret = 1]
      BY <3>3 DEF IInv, Shape, RunFields
    <3>. QED BY <3>1, <3>2, <3>3
  <2>3. run.at \notin {"scanning", "off", "ended"}
    BY DEF Duplicates
  <2>. QED BY <2>1, <2>2, <2>3 DEF IInv, Blocksizes
<1>3. Turned'
  BY HashfileRunsConstants DEF IInv, Shape, Turned, Foreign, Running, ReadOnly, RunFields, FileFields, Duplicates, Pruned, Goto, End, EndMode, Fault, Rest, Same
<1>4. Replays'
  BY DEF IInv, Shape, Turned, Replays, Running, Bare, RunFields, FileFields, Duplicates, Pruned, Goto, End, EndMode, Fault, Rest, Same
<1>5. Remembers'
  BY DEF IInv, Shape, Remembers, ReplayWhole, RunFields, FileFields, Duplicates, Pruned, Goto, End, EndMode, Fault, Rest, Same
<1>. QED BY <1>1, <1>2, <1>3, <1>4, <1>5 DEF IInv

LEMMA FinishKeeps == ASSUME IInv, Finish PROVE IInv'
<1>1. Shape'
  BY DEF IInv, Shape, RunFields, FileFields, Finish, Goto, End, EndMode, Fault, Rest, Same
<1>2. Blocksizes'
  BY HashfileRunsConstants DEF IInv, Shape, Blocksizes, RunFields, FileFields, Finish, Goto, End, EndMode, Fault, Rest, Same
<1>3. Turned'
  BY HashfileRunsConstants DEF IInv, Shape, Turned, Foreign, Running, ReadOnly, RunFields, FileFields, Finish, Goto, End, EndMode, Fault, Rest, Same
<1>4. Replays'
  BY DEF IInv, Shape, Turned, Replays, Running, Bare, RunFields, FileFields, Finish, Goto, End, EndMode, Fault, Rest, Same
<1>5. Remembers'
  BY DEF IInv, Shape, Remembers, ReplayWhole, RunFields, FileFields, Finish, Goto, End, EndMode, Fault, Rest, Same
<1>. QED BY <1>1, <1>2, <1>3, <1>4, <1>5 DEF IInv

LEMMA SignalKeeps == ASSUME IInv, Signal PROVE IInv'
<1>1. Shape'
  BY DEF IInv, Shape, RunFields, FileFields, Signal, Goto, End, EndMode, Fault, Rest, Same
<1>2. Blocksizes'
  BY HashfileRunsConstants DEF IInv, Shape, Blocksizes, RunFields, FileFields, Signal, Goto, End, EndMode, Fault, Rest, Same
<1>3. Turned'
  BY HashfileRunsConstants DEF IInv, Shape, Turned, Foreign, Running, ReadOnly, RunFields, FileFields, Signal, Goto, End, EndMode, Fault, Rest, Same
<1>4. Replays'
  BY DEF IInv, Shape, Turned, Replays, Running, Bare, RunFields, FileFields, Signal, Goto, End, EndMode, Fault, Rest, Same
<1>5. Remembers'
  BY DEF IInv, Shape, Remembers, ReplayWhole, RunFields, FileFields, Signal, Goto, End, EndMode, Fault, Rest, Same
<1>. QED BY <1>1, <1>2, <1>3, <1>4, <1>5 DEF IInv

LEMMA KillKeeps == ASSUME IInv, Kill PROVE IInv'
<1>1. Shape'
  BY IdleFacts DEF IInv, Shape, RunFields, FileFields, Kill, Goto, End, EndMode, Fault, Rest, Same
<1>2. Blocksizes'
  BY HashfileRunsConstants, IdleFacts DEF IInv, Shape, Blocksizes, RunFields, FileFields, Kill, Goto, End, EndMode, Fault, Rest, Same
<1>3. Turned'
  BY HashfileRunsConstants, IdleFacts DEF IInv, Shape, Turned, Foreign, Running, ReadOnly, RunFields, FileFields, Kill, Goto, End, EndMode, Fault, Rest, Same
<1>4. Replays'
  BY IdleFacts DEF IInv, Shape, Turned, Replays, Running, Bare, RunFields, FileFields, Kill, Goto, End, EndMode, Fault, Rest, Same
<1>5. Remembers'
  BY IdleFacts DEF IInv, Shape, Remembers, ReplayWhole, RunFields, FileFields, Kill, Goto, End, EndMode, Fault, Rest, Same
<1>. QED BY <1>1, <1>2, <1>3, <1>4, <1>5 DEF IInv

LEMMA MoveKeeps == ASSUME IInv, Move PROVE IInv'
<1>1. Shape'
  BY DEF IInv, Shape, RunFields, FileFields, Move, Goto, End, EndMode, Fault, Rest, Same
<1>2. Blocksizes'
  BY HashfileRunsConstants DEF IInv, Shape, Blocksizes, RunFields, FileFields, Move, Goto, End, EndMode, Fault, Rest, Same
<1>3. Turned'
  BY HashfileRunsConstants DEF IInv, Shape, Turned, Foreign, Running, ReadOnly, RunFields, FileFields, Move, Goto, End, EndMode, Fault, Rest, Same
<1>4. Replays'
  BY DEF IInv, Shape, Turned, Replays, Running, Bare, RunFields, FileFields, Move, Goto, End, EndMode, Fault, Rest, Same
<1>5. Remembers'
  BY DEF IInv, Shape, Remembers, ReplayWhole, RunFields, FileFields, Move, Goto, End, EndMode, Fault, Rest, Same
<1>. QED BY <1>1, <1>2, <1>3, <1>4, <1>5 DEF IInv

\* The command line is what a run starts with; it is not looked at again.
LEMMA StartKeeps == ASSUME IInv, NEW c \in Commands, Start(c) PROVE IInv'
<1>. DEFINE started == [Idle EXCEPT !.cmd = c, !.found = file, !.since = faults + moves,
                 !.bs = c.bs, !.opts = c.opts, !.roots = c.files, !.excludes = c.excludes]
<1>1. /\ started = [x \in RunFields |-> started[x]]
      /\ started.cmd = c /\ started.found = file /\ started.bs = c.bs
      /\ started.batch = {} /\ ~started.replaying
  BY IdleFacts DEF RunFields
<1>2. \/ run' = [started EXCEPT !.at = "ended", !.status = 1]
      \/ /\ run' = [started EXCEPT !.at = "opening"]
         /\ c.bs \in BlockSizes /\ ~(Bare(c) /\ file.schema = "none")
  BY DEF Start, OptionsRefused, ValueRefused, MustExist
<1>. HIDE DEF started
<1>10. /\ run' = [x \in RunFields |-> run'[x]]
      /\ run'.cmd = c /\ run'.found = file /\ run'.bs = c.bs
      /\ run'.batch = {} /\ ~run'.replaying
      /\ \/ run'.at = "ended"
         \/ /\ run'.at = "opening" /\ c.bs \in BlockSizes
            /\ ~(Bare(c) /\ file.schema = "none")
  BY <1>1, <1>2 DEF RunFields
<1>3. UNCHANGED <<file, present, last>>
  BY DEF Start
<1>4. Shape'
  BY <1>10, <1>3 DEF IInv, Shape
<1>5. Blocksizes'
  BY <1>10, <1>3, HashfileRunsConstants DEF IInv, Blocksizes
<1>6. Turned'
  BY <1>10, <1>3 DEF IInv, Turned, Foreign, Running, ReadOnly
<1>7. Replays'
  BY <1>10, <1>3 DEF IInv, Replays, Running, Bare
<1>8. Remembers'
  BY <1>10, <1>3 DEF IInv, Remembers, ReplayWhole
<1>. QED BY <1>4, <1>5, <1>6, <1>7, <1>8 DEF IInv

LEMMA NextKeeps == IInv /\ [Next]_vars => IInv'
<1>. SUFFICES ASSUME IInv, [Next]_vars PROVE IInv'
  OBVIOUS
<1>1. CASE UNCHANGED vars
  BY <1>1 DEF vars, IInv, Shape, Blocksizes, Turned, Replays, Remembers, ReplayWhole,
              Foreign, Running, ReadOnly, Bare
<1>2. CASE Next
  BY <1>2, StartKeeps, OpenKeeps, CreateTablesKeeps, BrandKeeps, CheckKeeps,
     SyncDefaultsKeeps, ReportKeeps, RemoveRowsKeeps, DropBlocksKeeps, ReplayKeeps,
     SeedKeeps, HashFileKeeps, CommitKeeps, EndScanKeeps, PersistKeeps,
     DuplicatesKeeps, FinishKeeps, SignalKeeps, KillKeeps, MoveKeeps DEF Next
<1>. QED BY <1>1, <1>2

LEMMA InvariantHolds == Spec => []IInv
BY Initially, NextKeeps, PTL DEF Spec

\* What a step does to the file, by who may not write it.
Alone ==
    /\ Foreign => file' = file
    /\ Running /\ (ReadOnly \/ (Bare(run.cmd) /\ run.found.schema = "none")) => file' = file
    /\ Running /\ Bare(run.cmd) /\ run.found.app = "oans" /\ run.found.major # "old" =>
          file'.scan = file.scan \/ (file' = Gone /\ Fault /\ run.at = "checking")

LEMMA StepLeavesAlone == ASSUME IInv, [Next]_vars PROVE Alone \/ UNCHANGED vars
<1>. USE DEF IInv, Shape, FileFields, Turned, Replays, Foreign, Running, ReadOnly, Alone
<1>1. ASSUME NEW c \in Commands, Start(c) PROVE Alone
  BY <1>1 DEF Start
<1>2. CASE Open
  BY <1>2, GoneFacts, HashfileRunsConstants, SMTT(60) DEF Open, OpenMissing, OpenFound, OpenFails, NotReported, Refuses, Stop, Identify, Rest, Same, Fault
<1>3. CASE CreateTables
  BY <1>3 DEF CreateTables, OpenFails
<1>4. CASE Brand
  BY <1>4 DEF Brand
<1>5. CASE Check
  BY <1>5, GoneFacts, HashfileRunsConstants
     DEF Check, Mismatch, Recreates, OpenFails, NotReported
<1>6. CASE SyncDefaults
  BY <1>6 DEF SyncDefaults, OpenFails
<1>7. CASE Report
  BY <1>7 DEF Report, FailsMode
<1>8. CASE RemoveRows
  BY <1>8 DEF RemoveRows
<1>9. CASE DropBlocks
  BY <1>9 DEF DropBlocks, FailsMode
<1>10. CASE Replay
  BY <1>10 DEF Replay, GivesUp
<1>11. CASE Seed
  BY <1>11 DEF Seed
<1>12. CASE HashFile
  BY <1>12 DEF HashFile
<1>13. CASE Commit
  BY <1>13 DEF Commit
<1>14. CASE EndScan
  BY <1>14 DEF EndScan, Fails, GivesUp
<1>15. CASE Persist
  BY <1>15 DEF Persist, Persists, Stage
<1>16. CASE Duplicates
  BY <1>16 DEF Duplicates
<1>17. CASE Finish
  BY <1>17 DEF Finish
<1>18. CASE Signal
  BY <1>18 DEF Signal
<1>19. CASE Kill
  BY <1>19 DEF Kill
<1>20. CASE Move
  BY <1>20 DEF Move
<1>. QED BY <1>1, <1>2, <1>3, <1>4, <1>5, <1>6, <1>7, <1>8, <1>9, <1>10, <1>11, <1>12, <1>13, <1>14, <1>15, <1>16, <1>17, <1>18, <1>19, <1>20 DEF Next

-----------------------------------------------------------------------------
\* Block hashes of two block sizes are never in one hashfile (dbfile_check(),
\* which makes a run take over the block size it finds).
THEOREM HashfileOneBlocksize == Spec => []OneBlocksize
<1>1. IInv => OneBlocksize
  BY DEF IInv, Blocksizes, OneBlocksize
<1>. QED BY <1>1, InvariantHolds, PTL

\* A replay is a replay of all that was stored (dbfile_load_scan_config() and
\* apply_scan_config() on what dbfile_store_scan_config() wrote as a unit).
THEOREM HashfileReplayWhole == Spec => []ReplayWhole
<1>1. IInv => ReplayWhole
  BY DEF IInv, Remembers
<1>. QED BY <1>1, InvariantHolds, PTL

\* Another program's file is never written, nor any file by a report, nor by a
\* bare replay the configuration it found, unless dbfile_check() cannot read the
\* brand and has the whole hashfile unlinked (dbfile_identify() before anything
\* is created, set_modes() of a report, persist_scan_config()).
THEOREM HashfileLeftAlone == Spec => LeftAlone
<1>1. IInv /\ [Next]_vars => [Alone]_vars
  BY StepLeavesAlone
<1>. QED BY <1>1, InvariantHolds, PTL DEF Spec, LeftAlone, Alone

-----------------------------------------------------------------------------
(* The roots that are left of those stored or given. *)

\* The loop of drop_missing_roots().
AmongLoop(f, s, T) ==
    /\ Among(s, T) = f[Len(s)] /\ f[0] = <<>>
    /\ \A i \in 1 .. Len(s) : f[i] = IF s[i] \in T THEN Append(f[i - 1], s[i]) ELSE f[i - 1]

LEMMA AmongSteps ==
    ASSUME NEW S, NEW s \in Seq(S), NEW T
    PROVE  \E f \in [0 .. Len(s) -> Seq(S)] : AmongLoop(f, s, T)
<1>. DEFINE n == Len(s)
            Q == Seq(S)
            step == [i \in 1 .. n |-> [x \in Q |-> IF s[i] \in T THEN Append(x, s[i]) ELSE x]]
<1>1. n \in Nat /\ <<>> \in Q /\ \A i \in 1 .. n : s[i] \in S
  OBVIOUS
<1>2. step \in [1 .. n -> [Q -> Q]]
  BY <1>1
<1>3. \A i \in 1 .. n : \A x \in Q :
         step[i][x] = IF s[i] \in T THEN Append(x, s[i]) ELSE x
  OBVIOUS
<1>. HIDE DEF step, Q
<1>4. PICK f \in [0 .. n -> Q] :
         f[0] = <<>> /\ \A i \in 1 .. n : f[i] = step[i][f[i - 1]]
  <2>. DEFINE nil == <<>>
  <2>1. nil \in Q
    BY <1>1
  <2>. HIDE DEF n, nil
  <2>3. n \in Nat
    BY <1>1
  <2>2. \E f \in [0 .. n -> Q] : Stepwise(f, n, nil, step)
    BY <1>2, <2>1, <2>3, StepByStep
  <2>. QED BY <2>2 DEF nil, Stepwise
<1>5. \A i \in 1 .. n : f[i] = IF s[i] \in T THEN Append(f[i - 1], s[i]) ELSE f[i - 1]
  <2>. SUFFICES ASSUME NEW i \in 1 .. n
                PROVE  f[i] = IF s[i] \in T THEN Append(f[i - 1], s[i]) ELSE f[i - 1]
    OBVIOUS
  <2>1. i - 1 \in 0 .. n /\ f[i - 1] \in Q
    BY <1>1
  <2>. QED BY <1>3, <1>4, <2>1
<1>. DEFINE F == CHOOSE kept : kept = [i \in 0 .. Len(s) |-> IF i = 0 THEN <<>>
                    ELSE IF s[i] \in T THEN Append(kept[i - 1], s[i]) ELSE kept[i - 1]]
<1>6. f = [i \in 0 .. Len(s) |-> IF i = 0 THEN <<>>
                    ELSE IF s[i] \in T THEN Append(f[i - 1], s[i]) ELSE f[i - 1]]
  <2>1. \A i \in 0 .. n : i = 0 \/ i \in 1 .. n
    BY <1>1
  <2>. QED BY <1>4, <1>5, <2>1
<1>7. F = [i \in 0 .. Len(s) |-> IF i = 0 THEN <<>>
                    ELSE IF s[i] \in T THEN Append(F[i - 1], s[i]) ELSE F[i - 1]]
  BY <1>6
<1>8. Among(s, T) = F[Len(s)]
  BY DEF Among
<1>. HIDE DEF F
<1>9. \A i \in 1 .. n : F[i] = IF s[i] \in T THEN Append(F[i - 1], s[i]) ELSE F[i - 1]
  <2>1. \A i \in 1 .. n : i \in 0 .. Len(s) /\ i # 0
    BY <1>1
  <2>. HIDE DEF n
  <2>. QED BY <1>7, <2>1
<1>10. \A i \in 0 .. n : F[i] = f[i]
  <2>. DEFINE P == {i \in 0 .. n : F[i] = f[i]}
  <2>1. 0 \in P
    BY <1>1, <1>4, <1>7
  <2>2. ASSUME NEW i \in 1 .. n, i - 1 \in P PROVE i \in P
    BY <1>5, <1>9, <2>2
  <2>. HIDE DEF P, n
  <2>3. \A i \in 0 .. n : i \in P
    BY <1>1, <2>1, <2>2, CountUp
  <2>. QED BY <2>3 DEF P
<1>11. n \in 0 .. n
  BY <1>1
<1>12. Among(s, T) = f[Len(s)]
  BY <1>8, <1>10, <1>11
<1>. HIDE DEF F
<1>. QED BY <1>4, <1>5, <1>12 DEF Q, AmongLoop

LEMMA AmongAll ==
    ASSUME NEW S, NEW s \in Seq(S), NEW T, Range(s) \subseteq T
    PROVE  Among(s, T) = s
<1>1. PICK f \in [0 .. Len(s) -> Seq(S)] : AmongLoop(f, s, T)
  BY AmongSteps
<1>. DEFINE P == {i \in 0 .. Len(s) : Len(f[i]) = i /\ \A k \in 1 .. i : f[i][k] = s[k]}
<1>2. 0 \in P
  BY <1>1 DEF AmongLoop
<1>3. ASSUME NEW i \in 1 .. Len(s), i - 1 \in P PROVE i \in P
  <2>1. /\ i - 1 \in 0 .. Len(s) /\ f[i - 1] \in Seq(S) /\ Len(f[i - 1]) = i - 1
        /\ \A k \in 1 .. i - 1 : f[i - 1][k] = s[k]
    BY <1>3
  <2>0. s[i] \in T /\ s[i] \in S
    BY DEF Range
  <2>2. f[i] = Append(f[i - 1], s[i])
    BY <1>1, <2>0 DEF AmongLoop
  <2>3. Len(f[i]) = i /\ \A k \in 1 .. i : f[i][k] = s[k]
    BY <2>0, <2>1, <2>2
  <2>. QED BY <2>3
<1>. HIDE DEF P
<1>4. Len(s) \in Nat /\ Len(s) \in 0 .. Len(s)
  OBVIOUS
<1>5. Len(s) \in P
  BY <1>2, <1>3, <1>4, CountUp
<1>6. f[Len(s)] \in Seq(S) /\ Among(s, T) = f[Len(s)]
  BY <1>1, <1>4 DEF AmongLoop
<1>7. Len(f[Len(s)]) = Len(s) /\ \A k \in 1 .. Len(s) : f[Len(s)][k] = s[k]
  BY <1>5 DEF P
<1>. QED BY <1>6, <1>7

LEMMA AmongShort ==
    ASSUME NEW S, NEW s \in Seq(S), NEW T
    PROVE  /\ Among(s, T) \in Seq(S) /\ Len(Among(s, T)) <= Len(s)
           /\ Len(Among(s, T)) = Len(s) => Range(s) \subseteq T
<1>1. PICK f \in [0 .. Len(s) -> Seq(S)] : AmongLoop(f, s, T)
  BY AmongSteps
<1>. DEFINE P == {i \in 0 .. Len(s) : Len(f[i]) <= i /\ (Len(f[i]) = i => \A k \in 1 .. i : s[k] \in T)}
<1>2. 0 \in P
  BY <1>1 DEF AmongLoop
<1>3. ASSUME NEW i \in 1 .. Len(s), i - 1 \in P PROVE i \in P
  <2>1. /\ i - 1 \in 0 .. Len(s) /\ f[i - 1] \in Seq(S) /\ s[i] \in S /\ Len(f[i - 1]) \in Nat
        /\ Len(f[i - 1]) <= i - 1 /\ (Len(f[i - 1]) = i - 1 => \A k \in 1 .. i - 1 : s[k] \in T)
    BY <1>3
  <2>2. CASE s[i] \in T
    <3>0. f[i] = Append(f[i - 1], s[i])
      BY <1>1, <2>2 DEF AmongLoop
    <3>1. Len(f[i]) = Len(f[i - 1]) + 1
      BY <2>1, <3>0
    <3>2. \A k \in 1 .. i : k = i \/ k \in 1 .. i - 1
      OBVIOUS
    <3>3. Len(f[i]) <= i
      BY <2>1, <3>1
    <3>4. ASSUME Len(f[i]) = i PROVE \A k \in 1 .. i : s[k] \in T
      <4>1. Len(f[i - 1]) = i - 1
        BY <2>1, <3>1, <3>4
      <4>. QED BY <2>1, <2>2, <3>2, <4>1
    <3>. QED BY <2>1, <3>3, <3>4
  <2>3. CASE s[i] \notin T
    <3>1. f[i] = f[i - 1]
      BY <1>1, <2>3 DEF AmongLoop
    <3>2. Len(f[i]) <= i /\ Len(f[i]) # i
      BY <2>1, <3>1
    <3>. QED BY <2>1, <3>2
  <2>. QED BY <2>2, <2>3
<1>. HIDE DEF P
<1>4. Len(s) \in Nat /\ Len(s) \in 0 .. Len(s)
  OBVIOUS
<1>5. Len(s) \in P
  BY <1>2, <1>3, <1>4, CountUp
<1>6. f[Len(s)] \in Seq(S) /\ Among(s, T) = f[Len(s)]
  BY <1>1, <1>4 DEF AmongLoop
<1>. QED BY <1>5, <1>6 DEF P, Range

-----------------------------------------------------------------------------
(* What a run was told, and what became of it. *)

Late == {"scanning", "persisting", "dupes", "recording"}

\* A run's roots are those of its command line or, in a replay, those of the
\* stored ones that exist.
Told ==
    /\ run.at # "off" => run.cmd \in Commands
    /\ file.scan # None => file.scan.roots \in Seq(Roots)
    /\ run.at \in {"scan"} \cup Late => run.cmd.modes = {}
    /\ run.at \in {"report", "rm", "prune"} => run.cmd.modes # {}
    /\ run.replaying => /\ Bare(run.cmd)
                        /\ run.roots \in Seq(Roots)
                        /\ run.dropped = 0 => run.roots = last.roots
    /\ Running /\ ~run.replaying => run.roots = run.cmd.files /\ run.dropped = 0

\* Nothing is below the roots of a scan that missed none but what it has seen,
\* has to do or could not read, and only the signal leaves it things to do.
Reaches ==
    /\ run.at \in Late \ {"scanning"} => run.todo = {} \/ run.interrupted
    /\ run.at \in Late /\ run.unusable = 0 /\ run.dropped = 0 =>
          Below(Asked) \subseteq run.todo \cup run.seen \cup run.unread
    /\ HonestStatus

\* The run Reopens is about, so far.
Undisturbed ==
    /\ run.cmd.modes = {} /\ ~Bare(run.cmd) /\ ~OptionsRefused(run.cmd)
    /\ run.since = faults + moves /\ ~run.interrupted
    /\ \/ run.found.app = "oans"
       \/ run.found.app = None /\ run.found.schema \in {"none", "empty"}
    /\ Range(run.cmd.files) \subseteq present
    /\ \A r \in Range(run.cmd.files) :
          FsOf[r] = IF run.found.fs = None THEN FsOf[Head(run.cmd.files)] ELSE run.found.fs

\* It meets nothing that stops it.
Welcome ==
    /\ faults \in Nat /\ moves \in Nat
    /\ run.since \in Nat /\ run.since <= faults + moves
    /\ Running /\ Undisturbed =>
          /\ run.at \notin Late => file.fs \in {None, run.found.fs}
          /\ run.at = "opening" => \/ file.app = "oans"
                                   \/ file.app = None /\ file.schema \in {"none", "empty"}
          /\ run.at \in {"creating", "branding"} => file.app \in {"oans", None}
          /\ run.at = "checking" => file.app = "oans"
          /\ run.at \in Late => run.ret = 0 /\ run.unusable = 0
    /\ Reopens

HInv == IInv /\ Told /\ Reaches /\ Welcome
Honest == Told /\ Reaches /\ Welcome

-----------------------------------------------------------------------------
\* What a step leaves of the run it is a step of.
Counts ==
    \/ UNCHANGED <<faults, moves, present>>
    \/ faults' = faults + 1 /\ moves' = moves
    \/ faults' = faults /\ moves' = moves + 1
Carried ==
    /\ run'.cmd = run.cmd /\ run'.found = run.found /\ run'.since = run.since
    /\ run.interrupted => run'.interrupted
    /\ Counts

LEMMA HonestlyInitially == Init => Honest
<1>. SUFFICES ASSUME Init PROVE Honest
  OBVIOUS
<1>1. /\ run = Idle /\ Idle.at = "off" /\ ~Idle.replaying /\ Idle.since = 0
      /\ faults = 0 /\ moves = 0
  BY DEF Init, Idle
<1>2. Told
  BY <1>1, FoundOK DEF Told, Init, Running, Late
<1>3. Reaches
  BY <1>1, FoundOK DEF Reaches, Init, HonestStatus, ScanEnded, Late
<1>4. Welcome
  BY <1>1 DEF Welcome, Running, Reopens, ScanEnded, Late
<1>. QED BY <1>2, <1>3, <1>4 DEF Honest

\* A run nothing has disturbed now was not disturbed before either.
LEMMA Calm ==
    ASSUME Welcome, Carried, Undisturbed'
    PROVE  Undisturbed /\ UNCHANGED <<faults, moves, present>>
<1>1. run'.since = faults' + moves' /\ run.since <= faults + moves /\ run'.since = run.since
      /\ faults \in Nat /\ moves \in Nat /\ run.since \in Nat
  BY DEF Welcome, Carried, Undisturbed
<1>2. UNCHANGED <<faults, moves, present>>
  BY <1>1 DEF Carried, Counts
<1>. QED BY <1>1, <1>2 DEF Carried, Undisturbed, Bare, OptionsRefused, ValueRefused, Conflicting

LEMMA CountersKeep ==
    ASSUME Welcome, Carried
    PROVE  /\ faults' \in Nat /\ moves' \in Nat
           /\ run'.since \in Nat /\ run'.since <= faults' + moves'
BY DEF Welcome, Carried, Counts

\* The end of a run that failed, or of one that is not a scan.
LEMMA EndsBadly ==
    ASSUME HInv, Carried, NEW s, s = 1 \/ run.cmd.modes # {}, ~Undisturbed', Running,
           run' = [run EXCEPT !.at = "ended", !.status = s],
           file'.scan = file.scan, file'.history = file.history, last' = last
    PROVE  Honest'
<1>1. /\ run'.at = "ended" /\ run'.status = s /\ run'.cmd = run.cmd
      /\ run'.replaying = run.replaying /\ run'.roots = run.roots /\ run'.dropped = run.dropped
  BY DEF HInv, IInv, Shape, RunFields
<1>2. Told'
  BY <1>1 DEF HInv, Told, Running, Late, Bare
<1>3. Reaches'
  <2>1. ScanEnded' => run'.status = 1
    BY <1>1 DEF ScanEnded
  <2>2. "cut" \notin file'.history
    BY DEF HInv, Reaches, HonestStatus
  <2>3. HonestStatus'
    BY <2>1, <2>2 DEF HonestStatus
  <2>. QED BY <1>1, <2>3 DEF Reaches, Late
<1>4. Reopens'
  <2>. USE DEF Undisturbed, Reopens, ScanEnded, Bare, OptionsRefused, ValueRefused, Conflicting
  <2>. QED OBVIOUS
<1>5. Welcome'
  BY <1>1, <1>4, CountersKeep DEF HInv, Welcome, Running
<1>. QED BY <1>2, <1>3, <1>5 DEF Honest

\* A step of a run that has not seeded its roots yet.
LEMMA EarlyOn ==
    ASSUME HInv, Carried, Running, run'.at \notin {"off", "ended"} \cup Late,
           run'.roots = run.roots, run'.replaying = run.replaying, run'.dropped = run.dropped,
           file'.scan \in {file.scan, None}, file'.history \in {file.history, {}}, last' = last,
           run'.at = "scan" => run.cmd.modes = {},
           run'.at \in {"report", "rm", "prune"} => run.cmd.modes # {},
           Undisturbed' =>
               /\ file'.fs \in {None, run.found.fs}
               /\ run'.at = "opening" => \/ file'.app = "oans"
                                         \/ file'.app = None /\ file'.schema \in {"none", "empty"}
               /\ run'.at \in {"creating", "branding"} => file'.app \in {"oans", None}
               /\ run'.at = "checking" => file'.app = "oans"
    PROVE  Honest'
<1>1. Told'
  BY DEF HInv, Told, Running, Carried, Bare
<1>2. Reaches'
  BY DEF HInv, Reaches, HonestStatus, ScanEnded, Late
<1>3. Reopens'
  BY DEF Reopens, ScanEnded
<1>4. Welcome'
  BY <1>3, CountersKeep DEF HInv, Welcome, Running, Carried
<1>. QED BY <1>1, <1>2, <1>4 DEF Honest

LEMMA FailureIsOne ==
    ASSUME Stop(1) \/ End(1) \/ EndMode(1)
    PROVE  run' = [run EXCEPT !.at = "ended", !.status = 1]
BY DEF Stop, End, EndMode, Status

LEMMA FaultDisturbs == ASSUME Welcome, Carried, Fault PROVE ~Undisturbed'
<1>1. faults' = faults + 1 /\ faults \in Nat
  BY DEF Fault, Welcome
<1>. QED BY <1>1, Calm

\* A step that moves the run on, or ends it, changes nothing else of it.
Advances ==
    \/ run' = run
    \/ \E at : run' = [run EXCEPT !.at = at]
    \/ \E at, status : run' = [run EXCEPT !.at = at, !.status = status]

Kept ==
    /\ run'.cmd = run.cmd /\ run'.found = run.found /\ run'.since = run.since
    /\ run'.interrupted = run.interrupted /\ run'.roots = run.roots
    /\ run'.replaying = run.replaying /\ run'.dropped = run.dropped
    /\ run'.unusable = run.unusable /\ run'.unread = run.unread /\ run'.todo = run.todo /\ run'.seen = run.seen
    /\ run'.excludes = run.excludes /\ run'.ret = run.ret

LEMMA AdvanceKeeps == ASSUME HInv, Advances PROVE Kept
<1>. USE DEF HInv, IInv, Shape, RunFields, Kept
<1>1. CASE run' = run
  BY <1>1
<1>2. ASSUME NEW at, run' = [run EXCEPT !.at = at] PROVE Kept
  BY <1>2
<1>3. ASSUME NEW at, NEW status, run' = [run EXCEPT !.at = at, !.status = status] PROVE Kept
  BY <1>3
<1>. QED BY <1>1, <1>2, <1>3 DEF Advances

LEMMA MovesTo == ASSUME HInv, NEW at, Goto(at) PROVE Advances /\ run'.at = at
BY DEF HInv, IInv, Shape, RunFields, Goto, Advances

LEMMA EndAdvances ==
    ASSUME NEW ret, End(ret) \/ EndMode(ret) \/ Stop(ret)
    PROVE  Advances
BY DEF End, EndMode, Stop, Advances

LEMMA ModeIs ==
    ASSUME NEW c \in Commands
    PROVE  /\ c.modes = {} => Mode(c) = "scan"
           /\ c.modes # {} => Mode(c) \in {"report", "rm", "prune"}
BY CommandsOK DEF Mode

LEMMA OpenCounts == ASSUME HInv, Open PROVE Carried
<1>. USE DEF Carried, Counts
<1>1. Advances
  <2>1. \/ \E ret : EndMode(ret) \/ Stop(ret)
        \/ \E at : Goto(at)
        \/ run' = run
    BY DEF Open, OpenMissing, OpenFound, OpenFails, NotReported, Refuses
  <2>. QED BY <2>1, EndAdvances, MovesTo DEF Advances
<1>2. UNCHANGED <<faults, moves, present>> \/ (faults' = faults + 1 /\ moves' = moves)
  BY DEF Open, OpenMissing, OpenFound, OpenFails, NotReported, Refuses, Rest, Same, Fault
<1>. QED BY <1>1, <1>2, AdvanceKeeps DEF Kept

LEMMA OpenHonest == ASSUME HInv, Open PROVE Honest'
<1>1. Carried
  BY OpenCounts
<1>2. run.at = "opening" /\ Running /\ run.at \notin Late /\ last' = last
  BY DEF Open, OpenMissing, OpenFound, OpenFails, NotReported, Refuses, Fault, Rest, Same, Running, Late
<1>3. ASSUME run' = [run EXCEPT !.at = "ended", !.status = 1], ~Undisturbed', UNCHANGED file
      PROVE Honest'
  BY <1>1, <1>2, <1>3, EndsBadly
<1>4. Undisturbed => ~ReadOnly
  BY DEF Undisturbed, ReadOnly
<1>5. Undisturbed' =>
        /\ Undisturbed /\ ~ReadOnly /\ file.fs \in {None, run.found.fs}
        /\ \/ file.app = "oans"
           \/ file.app = None /\ file.schema \in {"none", "empty"}
  BY <1>1, <1>2, <1>4, Calm DEF HInv, Welcome
<1>6. CASE OpenFails
  <2>1. run' = [run EXCEPT !.at = "ended", !.status = 1] /\ UNCHANGED file
    BY <1>6, FailureIsOne DEF OpenFails
  <2>. QED BY <1>1, <1>3, <1>6, <2>1, FaultDisturbs DEF OpenFails, HInv
<1>7. CASE OpenMissing
  <2>1. CASE ReadOnly
    <3>1. run' = [run EXCEPT !.at = "ended", !.status = 1] /\ UNCHANGED file
      BY <1>7, <2>1, FailureIsOne DEF OpenMissing, NotReported
    <3>. QED BY <1>3, <1>5, <2>1, <3>1
  <2>2. CASE ~ReadOnly
    <3>1. file' = Empty /\ run' = run
      BY <1>7, <2>2 DEF OpenMissing
    <3>2. /\ Empty.scan = None /\ Empty.history = {} /\ Empty.fs = None
          /\ Empty.app = None /\ Empty.schema = "empty"
      BY DEF Empty, Gone
    <3>. HIDE DEF Empty
    <3>. QED BY <1>1, <1>2, <3>1, <3>2, EarlyOn DEF Running
  <2>. QED BY <2>1, <2>2
<1>8. CASE OpenFound
  <2>1. \/ /\ file.app = "oans" /\ UNCHANGED file
           /\ Goto(IF ReadOnly THEN "checking" ELSE "creating")
        \/ Identify = "new" /\ ~ReadOnly /\ Goto("creating") /\ UNCHANGED file
        \/ Identify = "old" /\ ~ReadOnly /\ run' = run /\ file' = Gone
        \/ Identify # "ours" /\ (Identify = "new" => ReadOnly) /\ Refuses
    BY <1>8 DEF OpenFound, Identify
  <2>3. CASE Identify # "ours" /\ (Identify = "new" => ReadOnly) /\ Refuses
    <3>1. run' = [run EXCEPT !.at = "ended", !.status = 1] /\ UNCHANGED file
      BY <2>3, FailureIsOne DEF Refuses
    <3>2. ASSUME Undisturbed' PROVE FALSE
      BY <1>5, <1>8, <2>3, <3>2, HashfileRunsConstants DEF Identify, OpenFound
    <3>. QED BY <1>3, <3>1, <3>2
  <2>4. CASE Identify = "old" /\ ~ReadOnly /\ run' = run /\ file' = Gone
    <3>2. /\ Gone.scan = None /\ Gone.history = {} /\ Gone.fs = None
          /\ Gone.app = None /\ Gone.schema = "none"
      BY DEF Gone
    <3>. HIDE DEF Gone
    <3>. QED BY <1>1, <1>2, <2>4, <3>2, EarlyOn DEF Running
  <2>5. CASE /\ file.app = "oans" /\ UNCHANGED file
             /\ Goto(IF ReadOnly THEN "checking" ELSE "creating")
    <3>1. run'.at \in {"checking", "creating"} /\ run'.roots = run.roots
          /\ run'.replaying = run.replaying /\ run'.dropped = run.dropped
      BY <2>5, MovesTo, AdvanceKeeps DEF Kept
    <3>. QED BY <1>1, <1>2, <1>5, <2>5, <3>1, EarlyOn DEF Late
  <2>6. CASE Identify = "new" /\ ~ReadOnly /\ Goto("creating") /\ UNCHANGED file
    <3>1. run'.at = "creating" /\ run'.roots = run.roots
          /\ run'.replaying = run.replaying /\ run'.dropped = run.dropped
      BY <2>6, MovesTo, AdvanceKeeps DEF Kept
    <3>. QED BY <1>1, <1>2, <1>5, <2>6, <3>1, EarlyOn DEF Late
  <2>. QED BY <2>1, <2>3, <2>4, <2>5, <2>6
<1>. QED BY <1>6, <1>7, <1>8 DEF Open

\* A step of a scan after its roots were seeded, short of the run's end.
LEMMA LateOn ==
    ASSUME HInv, Carried, run.at \in Late, run'.at \in Late,
           run'.roots = run.roots, run'.replaying = run.replaying, run'.dropped = run.dropped,
           run'.unusable = run.unusable, run'.unread = run.unread,
           run'.excludes = run.excludes,
           run.todo \cup run.seen \subseteq run'.todo \cup run'.seen,
           run'.at # "scanning" => run'.todo = {} \/ run'.interrupted,
           file'.scan = None \/ file'.scan = file.scan \/ file'.scan.roots \in Seq(Roots),
           file'.history = file.history,
           run.replaying => last' = last,
           Undisturbed' => run'.ret = 0
    PROVE  Honest'
<1>1. run.at \notin {"off", "ended"} /\ run'.at \notin {"off", "ended"} /\ run'.cmd = run.cmd
  BY DEF Late, Carried
<1>2. Told'
  BY <1>1 DEF HInv, Told, Running, Bare, Late
<1>3. Below(Asked)' = Below(Asked)
  BY <1>1 DEF Below, Asked
<1>4. HonestStatus'
  BY <1>1 DEF HInv, Reaches, HonestStatus, ScanEnded
<1>5. Reaches'
  BY <1>3, <1>4 DEF HInv, Reaches
<1>6. Reopens'
  BY <1>1 DEF Reopens, ScanEnded
<1>7. Undisturbed' => Undisturbed
  BY Calm DEF HInv
<1>8. Welcome'
  BY <1>1, <1>6, <1>7, CountersKeep DEF HInv, Welcome, Running, Late
<1>. QED BY <1>2, <1>5, <1>8 DEF Honest

LEMMA FailsHonestly ==
    ASSUME HInv, Carried, Running, Advances, run'.at = "ended", run'.status = 1 \/ run.cmd.modes # {},
           ~Undisturbed', file'.scan = file.scan, file'.history = file.history, last' = last
    PROVE  Honest'
<1>1. run' = [run EXCEPT !.at = "ended", !.status = run'.status]
  BY DEF HInv, IInv, Shape, RunFields, Advances
<1>. QED BY <1>1, EndsBadly

\* The ways a step of a run before its scan goes on, or stops.
LEMMA CreateTablesHonest == ASSUME HInv, CreateTables PROVE Honest'
<1>1. run.at = "creating" /\ Running /\ last' = last
  BY DEF CreateTables, OpenFails, Fault, Rest, Same, Running
<1>2. \/ /\ run' = run /\ UNCHANGED <<faults, moves, present>>
         /\ \E schema : file' = [file EXCEPT !.schema = schema]
      \/ Goto("branding") /\ UNCHANGED file /\ UNCHANGED <<faults, moves, present>>
      \/ OpenFails
  BY DEF CreateTables, Rest, Same
<1>3. Carried
  <2>1. Advances
    BY <1>2, MovesTo, EndAdvances DEF Advances, OpenFails
  <2>2. Counts
    BY <1>2 DEF Counts, OpenFails, Fault, Same
  <2>. QED BY <2>1, <2>2, AdvanceKeeps DEF Kept, Carried
<1>4. Undisturbed' => Undisturbed /\ file.fs \in {None, run.found.fs} /\ file.app \in {"oans", None}
  BY <1>1, <1>3, Calm DEF HInv, Welcome, Late
<1>5. CASE run' = run /\ \E schema : file' = [file EXCEPT !.schema = schema]
  <2>1. /\ file'.app = file.app /\ file'.fs = file.fs
        /\ file'.scan = file.scan /\ file'.history = file.history
    BY <1>5 DEF HInv, IInv, Shape, FileFields
  <2>. QED BY <1>1, <1>3, <1>4, <1>5, <2>1, EarlyOn DEF Running, Late
<1>6. CASE Goto("branding") /\ UNCHANGED file
  <2>1. run'.at = "branding" /\ Kept
    BY <1>6, MovesTo, AdvanceKeeps
  <2>. QED BY <1>1, <1>3, <1>4, <1>6, <2>1, EarlyOn DEF Kept, Late
<1>7. CASE OpenFails
  <2>1. run' = [run EXCEPT !.at = "ended", !.status = 1] /\ UNCHANGED file /\ Fault
    BY <1>7, FailureIsOne DEF OpenFails
  <2>. QED BY <1>1, <1>3, <2>1, FaultDisturbs, EndsBadly DEF HInv
<1>. QED BY <1>2, <1>5, <1>6, <1>7

LEMMA BrandHonest == ASSUME HInv, Brand PROVE Honest'
<1>1. run.at = "branding" /\ Running /\ last' = last /\ Goto("checking")
  BY DEF Brand, Fault, Rest, Same, Running
<1>2. run'.at = "checking" /\ Kept
  BY <1>1, MovesTo, AdvanceKeeps
<1>3. Carried
  BY <1>2 DEF Kept, Carried, Counts, Brand, Fault, Rest, Same
<1>4. Undisturbed' => Undisturbed /\ file.fs \in {None, run.found.fs} /\ file.app \in {"oans", None}
  BY <1>1, <1>3, Calm DEF HInv, Welcome, Late
<1>5. CASE UNCHANGED file /\ Fault
  <2>1. ~Undisturbed'
    BY <1>3, <1>5, FaultDisturbs DEF HInv
  <2>. QED BY <1>1, <1>2, <1>3, <1>5, <2>1, EarlyOn DEF Kept, Late
<1>6. CASE file' = [file EXCEPT !.app = IF file.app = None THEN "oans" ELSE file.app]
  <2>1. /\ file'.app = IF file.app = None THEN "oans" ELSE file.app
        /\ file'.fs = file.fs /\ file'.scan = file.scan /\ file'.history = file.history
    BY <1>6 DEF HInv, IInv, Shape, FileFields
  <2>. QED BY <1>1, <1>2, <1>3, <1>4, <2>1, EarlyOn DEF Kept, Late
<1>. QED BY <1>5, <1>6 DEF Brand

LEMMA CheckHonest == ASSUME HInv, Check PROVE Honest'
<1>1. run.at = "checking" /\ Running /\ last' = last
  BY DEF Check, Recreates, NotReported, OpenFails, Fault, Rest, Same, Running
<1>. DEFINE on == [run EXCEPT !.at = IF ReadOnly THEN "report" ELSE "syncing",
                              !.bs = BlocksizeOf(file, run.bs)]
<1>2. \/ ReadOnly /\ EndMode(1) /\ UNCHANGED file /\ UNCHANGED <<faults, moves, present>>
      \/ ReadOnly /\ EndMode(1) /\ UNCHANGED file /\ Fault
      \/ /\ Goto("opening") /\ file' = Gone
         /\ (UNCHANGED <<faults, moves, present>> \/ Fault)
      \/ run' = on /\ UNCHANGED file /\ UNCHANGED <<faults, moves, present>>
      \/ OpenFails
  BY DEF Check, Recreates, Rest, Same, NotReported
<1>3. ASSUME run' = on
      PROVE  Kept /\ run'.at = IF ReadOnly THEN "report" ELSE "syncing"
  BY <1>3 DEF HInv, IInv, Shape, RunFields, Kept
<1>. HIDE DEF on
<1>4. Carried
  <2>1. Kept
    BY <1>2, <1>3, MovesTo, EndAdvances, AdvanceKeeps DEF OpenFails
  <2>2. Counts
    BY <1>2 DEF Counts, OpenFails, Fault, Same
  <2>. QED BY <2>1, <2>2 DEF Kept, Carried
<1>5. Undisturbed' => Undisturbed /\ file.fs \in {None, run.found.fs} /\ file.app = "oans"
  BY <1>1, <1>4, Calm DEF HInv, Welcome, Late
<1>6. CASE ReadOnly /\ EndMode(1) /\ UNCHANGED file
  <2>1. ~Undisturbed'
    BY <1>5, <1>6 DEF Undisturbed, ReadOnly
  <2>. QED BY <1>1, <1>4, <1>6, <2>1, FailureIsOne, EndsBadly
<1>7. CASE Goto("opening") /\ file' = Gone
  <2>1. run'.at = "opening" /\ Kept
    BY <1>7, MovesTo, AdvanceKeeps
  <2>2. /\ Gone.scan = None /\ Gone.history = {} /\ Gone.fs = None
        /\ Gone.app = None /\ Gone.schema = "none"
    BY DEF Gone
  <2>. HIDE DEF Gone
  <2>. QED BY <1>1, <1>4, <1>7, <2>1, <2>2, EarlyOn DEF Kept, Late
<1>8. CASE run' = on /\ UNCHANGED file
  <2>1. run'.at \in {"report", "syncing"} /\ (run'.at = "report" => run.cmd.modes # {}) /\ Kept
    BY <1>3, <1>8 DEF ReadOnly
  <2>. QED BY <1>1, <1>4, <1>5, <1>8, <2>1, EarlyOn DEF Kept, Late
<1>9. CASE OpenFails
  <2>1. run' = [run EXCEPT !.at = "ended", !.status = 1] /\ UNCHANGED file /\ Fault
    BY <1>9, FailureIsOne DEF OpenFails
  <2>. QED BY <1>1, <1>4, <2>1, FaultDisturbs, EndsBadly DEF HInv
<1>. QED BY <1>2, <1>6, <1>7, <1>8, <1>9

LEMMA SyncDefaultsHonest == ASSUME HInv, SyncDefaults PROVE Honest'
<1>1. run.at = "syncing" /\ Running /\ last' = last
  BY DEF SyncDefaults, OpenFails, Fault, Rest, Same, Running
<1>2. \/ /\ run' = run /\ UNCHANGED <<faults, moves, present>>
         /\ file' = [file EXCEPT !.bs = run.bs]
      \/ /\ Goto(Mode(run.cmd)) /\ UNCHANGED <<faults, moves, present>>
         /\ file' = [file EXCEPT !.major = "mine"]
      \/ OpenFails
  BY DEF SyncDefaults, Rest, Same
<1>3. Carried
  <2>1. Advances
    BY <1>2, MovesTo, EndAdvances DEF Advances, OpenFails
  <2>2. Counts
    BY <1>2 DEF Counts, OpenFails, Fault, Same
  <2>. QED BY <2>1, <2>2, AdvanceKeeps DEF Kept, Carried
<1>4. Undisturbed' => Undisturbed /\ file.fs \in {None, run.found.fs}
  BY <1>1, <1>3, Calm DEF HInv, Welcome, Late
<1>5. CASE \/ file' = [file EXCEPT !.bs = run.bs]
           \/ file' = [file EXCEPT !.major = "mine"]
  <2>1. /\ file'.app = file.app /\ file'.fs = file.fs
        /\ file'.scan = file.scan /\ file'.history = file.history
    BY <1>5 DEF HInv, IInv, Shape, FileFields
  <2>2. CASE run' = run
    BY <1>1, <1>3, <1>4, <2>1, <2>2, EarlyOn DEF Running, Late
  <2>3. CASE Goto(Mode(run.cmd))
    <3>1. run'.at = Mode(run.cmd) /\ Kept
      BY <2>3, MovesTo, AdvanceKeeps
    <3>2. run.cmd \in Commands
      BY <1>1 DEF HInv, Told
    <3>3. \/ run'.at = "scan" /\ run.cmd.modes = {}
          \/ run'.at \in {"report", "rm", "prune"} /\ run.cmd.modes # {}
      BY <3>1, <3>2, ModeIs
    <3>. QED BY <1>1, <1>3, <1>4, <2>1, <3>1, <3>3, EarlyOn DEF Kept, Late
  <2>4. CASE OpenFails
    <3>1. run' = [run EXCEPT !.at = "ended", !.status = 1] /\ Fault
      BY <2>4, FailureIsOne DEF OpenFails
    <3>. QED BY <1>1, <1>3, <2>1, <3>1, FaultDisturbs, EndsBadly DEF HInv
  <2>. QED BY <1>2, <2>2, <2>3, <2>4
<1>6. CASE OpenFails
  <2>1. run' = [run EXCEPT !.at = "ended", !.status = 1] /\ UNCHANGED file /\ Fault
    BY <1>6, FailureIsOne DEF OpenFails
  <2>. QED BY <1>1, <1>3, <2>1, FaultDisturbs, EndsBadly DEF HInv
<1>. QED BY <1>2, <1>5, <1>6

\* The modes that are not a scan promise nothing about a scan.
LEMMA ModeHonest ==
    ASSUME HInv, run.at \in {"report", "rm", "prune"}, NEW status, EndMode(status), Counts,
           file'.scan = file.scan, file'.history = file.history, last' = last
    PROVE  Honest'
<1>1. Running /\ run.cmd.modes # {}
  BY DEF HInv, Told, Running
<1>2. run' = [run EXCEPT !.at = "ended", !.status = status] /\ Kept
  BY EndAdvances, AdvanceKeeps DEF EndMode
<1>3. Carried /\ ~Undisturbed'
  BY <1>1, <1>2 DEF Kept, Carried, Undisturbed
<1>. QED BY <1>1, <1>2, <1>3, EndsBadly

LEMMA ReportHonest == ASSUME HInv, Report PROVE Honest'
<1>1. /\ run.at = "report" /\ UNCHANGED file /\ last' = last /\ Counts
      /\ EndMode(0) \/ EndMode(1)
  BY DEF Report, FailsMode, Fault, Rest, Same, Counts
<1>. QED BY <1>1, ModeHonest

LEMMA RemoveRowsHonest == ASSUME HInv, RemoveRows PROVE Honest'
<1>1. /\ run.at = "rm" /\ last' = last /\ Counts
      /\ \E status : EndMode(status)
      /\ \E done : file' = [file EXCEPT !.rows = {r \in file.rows : r.file \notin done}]
  BY DEF RemoveRows, Fault, Rest, Same, Counts
<1>2. file'.scan = file.scan /\ file'.history = file.history
  BY <1>1 DEF HInv, IInv, Shape, FileFields
<1>. QED BY <1>1, <1>2, ModeHonest

LEMMA DropBlocksHonest == ASSUME HInv, DropBlocks PROVE Honest'
<1>1. /\ run.at = "prune" /\ last' = last /\ Counts
      /\ EndMode(0) \/ EndMode(1)
      /\ file' = file \/ \E rows : file' = [file EXCEPT !.rows = rows]
  BY DEF DropBlocks, FailsMode, Fault, Rest, Same, Counts
<1>2. file'.scan = file.scan /\ file'.history = file.history
  BY <1>1 DEF HInv, IInv, Shape, FileFields
<1>. QED BY <1>1, <1>2, ModeHonest

\* A replay's roots are the stored ones, and it has dropped none only if they
\* all exist.
LEMMA ReplayHonest == ASSUME HInv, Replay PROVE Honest'
<1>1. /\ run.at = "scan" /\ Running /\ Bare(run.cmd) /\ ~run.replaying /\ UNCHANGED <<file, last>>
      /\ run.at \notin Late
  BY DEF Replay, GivesUp, Fault, Rest, Same, Running, Late
<1>. DEFINE sc == file.scan
            live == Live(sc.roots)
            n == Len(sc.roots) - Len(live)
<1>2. \/ End(1) /\ Counts
      \/ /\ sc # None /\ UNCHANGED <<faults, moves, present>>
         /\ run' = [run EXCEPT !.replaying = TRUE, !.opts = sc.opts, !.roots = live,
                               !.excludes = run.excludes \cup sc.excludes, !.dropped = n]
  BY DEF Replay, GivesUp, Fault, Rest, Same, Counts
<1>3. CASE End(1) /\ Counts
  <2>1. run' = [run EXCEPT !.at = "ended", !.status = 1] /\ Kept
    BY <1>3, FailureIsOne, EndAdvances, AdvanceKeeps
  <2>2. Carried /\ ~Undisturbed'
    BY <1>1, <1>3, <2>1 DEF Kept, Carried, Undisturbed, Bare
  <2>. QED BY <1>1, <2>1, <2>2, EndsBadly
<1>4. CASE /\ sc # None /\ UNCHANGED <<faults, moves, present>>
           /\ run' = [run EXCEPT !.replaying = TRUE, !.opts = sc.opts, !.roots = live,
                                 !.excludes = run.excludes \cup sc.excludes, !.dropped = n]
  <2>1. sc.roots \in Seq(Roots) /\ last = sc
    BY <1>4 DEF HInv, Told, IInv, Remembers
  <2>2. live \in Seq(Roots) /\ (Len(live) = Len(sc.roots) => live = sc.roots)
    BY <2>1, AmongShort, AmongAll DEF Live
  <2>3. n = 0 => live = sc.roots
    BY <2>1, <2>2
  <2>. HIDE DEF live, n, sc
  <2>4. /\ run'.at = "scan" /\ run'.cmd = run.cmd /\ run'.found = run.found /\ run'.since = run.since
        /\ run'.interrupted = run.interrupted /\ run'.replaying /\ run'.roots = live /\ run'.dropped = n
    BY <1>1, <1>4 DEF HInv, IInv, Shape, RunFields
  <2>5. Carried
    BY <1>4, <2>4 DEF Carried, Counts
  <2>6. run'.dropped = 0 => run'.roots = last'.roots
    BY <1>1, <2>1, <2>3, <2>4
  <2>7. Told'
    BY <1>1, <2>2, <2>4, <2>6 DEF HInv, Told, Running, Bare, Late
  <2>8. HonestStatus'
    BY <1>1, <2>4 DEF HInv, Reaches, HonestStatus, ScanEnded
  <2>9. Reaches'
    BY <2>4, <2>8 DEF Reaches, Late
  <2>10. ~Undisturbed'
    BY <1>1, <2>4 DEF Undisturbed, Bare
  <2>11. Welcome'
    BY <2>4, <2>5, <2>10, CountersKeep DEF HInv, Welcome, Reopens, ScanEnded
  <2>. QED BY <2>7, <2>9, <2>11 DEF Honest
<1>. QED BY <1>2, <1>3, <1>4

\* No root unusable means every root that was not rejected is one of those taken.
LEMMA NoneUnusable ==
    ASSUME NEW S, NEW roots \in Seq(S), NEW taken, NEW rejected
    PROVE  Cardinality({i \in DOMAIN roots \ rejected : roots[i] \notin taken}) = 0
              <=> \A i \in DOMAIN roots \ rejected : roots[i] \in taken
<1>. DEFINE out == {i \in DOMAIN roots \ rejected : roots[i] \notin taken}
<1>1. IsFiniteSet(out)
  <2>1. IsFiniteSet(1 .. Len(roots)) /\ out \subseteq 1 .. Len(roots)
    BY FS_Interval
  <2>. QED BY <2>1, FS_Subset
<1>2. Cardinality(out) = 0 <=> out = {}
  BY <1>1, FS_EmptySet
<1>. QED BY <1>2

LEMMA SeedHonest == ASSUME HInv, Seed PROVE Honest'
<1>. DEFINE below(F, U) == Below(Taken(F)) \ U
            unread(F, U) == U \cup Below({run.roots[i] : i \in Rejected(F)})
            some(F, U) == /\ run' = Seeded(F, U)
                          /\ IF F = {} /\ U = {} THEN Rest ELSE Fault
<1>1. /\ run.at = "scan" /\ Running /\ (Bare(run.cmd) => run.replaying)
      /\ UNCHANGED <<file, present, last>> /\ run.at \notin Late
  BY SeedLeaves DEF HInv, Running, Late
<1>2. (\E F, U : some(F, U)) \/ (Fault /\ End(1))
  BY DEF Seed
<1>3. run.cmd \in Commands /\ run.cmd.modes = {} /\ run.cmd.files \in Seq(Roots)
  BY <1>1, CommandsOK DEF HInv, Told
<1>4. run.roots \in Seq(Roots) /\ (~run.replaying => run.roots = run.cmd.files /\ run.dropped = 0)
  BY <1>1, <1>3 DEF HInv, Told
<1>5. CASE Fault /\ End(1)
  <2>1. run' = [run EXCEPT !.at = "ended", !.status = 1] /\ Kept
    BY <1>5, FailureIsOne, EndAdvances, AdvanceKeeps
  <2>2. Carried
    BY <1>5, <2>1 DEF Kept, Carried, Counts, Fault, Same
  <2>. QED BY <1>1, <1>5, <2>1, <2>2, FaultDisturbs, EndsBadly DEF HInv
<1>6. ASSUME NEW F, NEW U, some(F, U) PROVE Honest'
  <2>0. Counts /\ ((F = {} /\ U = {}) \/ Fault)
    BY <1>6 DEF Counts, Rest, Same, Fault
  <2>1. Cardinality(Unusable(F)) = 0
           <=> \A i \in DOMAIN run.roots \ Rejected(F) : run.roots[i] \in Taken(F)
    BY <1>4, NoneUnusable DEF Unusable
  <2>2. Cardinality(Unusable(F)) = 0 => Below(Range(run.roots)) \subseteq below(F, U) \cup unread(F, U)
    BY <2>1 DEF Range, Below
  <2>3. /\ run'.at = "scanning" /\ run'.cmd = run.cmd /\ run'.found = run.found /\ run'.since = run.since
        /\ run'.interrupted = run.interrupted /\ run'.replaying = run.replaying
        /\ run'.roots = run.roots /\ run'.dropped = run.dropped /\ run'.excludes = run.excludes
    BY <1>6 DEF Seeded, HInv, IInv, Shape, RunFields
  <2>4. /\ run'.todo = below(F, U) \ UpToDate /\ run'.seen = below(F, U) \cap UpToDate
        /\ run'.unread = unread(F, U) /\ run'.unusable = Cardinality(Unusable(F))
        /\ run'.ret = IF Live(run.roots) # <<>> /\ Taken(F) = {} THEN 1 ELSE 0
    BY <1>6 DEF Seeded, HInv, IInv, Shape, RunFields
  <2>. HIDE DEF unread, below
  <2>5. Carried
    BY <2>0, <2>3 DEF Carried
  <2>6. Told'
    BY <1>1, <1>3, <2>3 DEF HInv, Told, Running, Bare, Late
  <2>7. HonestStatus'
    BY <1>1, <2>3 DEF HInv, Reaches, HonestStatus, ScanEnded
  <2>8. run.dropped = 0 => Asked = Range(run.roots)
    BY <1>4 DEF HInv, Told, Asked
  <2>9. Below(Asked)' = Below(Asked)
    BY <1>1, <2>3 DEF Below, Asked
  <2>10. Reaches'
    <3>1. run'.unusable = 0 /\ run'.dropped = 0 =>
             Below(Asked)' \subseteq run'.todo \cup run'.seen \cup run'.unread
      BY <2>2, <2>3, <2>4, <2>8, <2>9
    <3>. QED BY <2>3, <2>7, <3>1 DEF Reaches, Late
  <2>11. ASSUME Undisturbed' PROVE run'.ret = 0 /\ run'.unusable = 0
    <3>1. /\ Undisturbed /\ file.fs \in {None, run.found.fs} /\ ~run.replaying /\ F = {}
      BY <1>1, <2>0, <2>5, <2>11, Calm, FaultDisturbs DEF HInv, Welcome, Undisturbed, Told
    <3>2. run.roots = run.cmd.files /\ Range(run.roots) \subseteq present
      BY <1>4, <3>1 DEF Undisturbed
    <3>3. Live(run.roots) = run.roots /\ Probed(F) = run.roots
      <4>1. Range(run.roots) \subseteq present \ F
        BY <3>1, <3>2
      <4>. QED BY <1>4, <3>2, <4>1, AmongAll DEF Live, Probed
    <3>4. CASE run.roots = <<>>
      <4>1. DOMAIN run.roots = {}
        BY <3>4
      <4>. QED BY <2>1, <2>4, <3>3, <3>4, <4>1
    <3>5. CASE run.roots # <<>>
      <4>1. Locked(F) = IF file.fs # None THEN file.fs ELSE FsOf[Head(run.roots)]
        BY <3>3, <3>5 DEF Locked
      <4>2. Head(run.roots) \in Range(run.roots)
        BY <1>4, <3>5 DEF Range
      <4>3. \A r \in Range(run.roots) : FsOf[r] = Locked(F)
        BY <3>1, <3>2, <4>1, <4>2 DEF Undisturbed
      <4>4. Taken(F) = Range(run.roots)
        BY <3>3, <4>3 DEF Taken
      <4>5. \A i \in DOMAIN run.roots : run.roots[i] \in Taken(F)
        BY <4>4 DEF Range
      <4>. QED BY <2>1, <2>4, <4>2, <4>4, <4>5
    <3>. QED BY <3>4, <3>5
  <2>12. Reopens'
    BY <2>3 DEF Reopens, ScanEnded
  <2>13. Welcome'
    BY <2>3, <2>5, <2>11, <2>12, CountersKeep DEF HInv, Welcome, Running, Late
  <2>. QED BY <2>6, <2>10, <2>13 DEF Honest
<1>. QED BY <1>2, <1>5, <1>6

LEMMA CalmRet ==
    ASSUME HInv, Carried, run.at \in Late
    PROVE  Undisturbed' => run.ret = 0 /\ run.unusable = 0 /\ run.dropped = 0
<1>1. Running
  BY DEF Running, Late
<1>2. Undisturbed' => ~Bare(run.cmd)
  BY Calm DEF HInv, Undisturbed
<1>. QED BY <1>1, <1>2, Calm DEF HInv, Welcome, Told

LEMMA HashFileHonest == ASSUME HInv, HashFile PROVE Honest'
<1>1. run.at = "scanning" /\ run.at \in Late /\ UNCHANGED <<file, last, faults, moves, present>>
  BY DEF HashFile, Rest, Same, Late
<1>2. PICK f, batch :
         run' = [run EXCEPT !.todo = run.todo \ {f}, !.seen = run.seen \cup {f}, !.batch = batch]
  BY DEF HashFile
<1>3. /\ run'.at = "scanning" /\ run'.todo = run.todo \ {f} /\ run'.seen = run.seen \cup {f}
      /\ run'.cmd = run.cmd /\ run'.found = run.found /\ run'.since = run.since
      /\ run'.interrupted = run.interrupted /\ run'.replaying = run.replaying
      /\ run'.roots = run.roots /\ run'.dropped = run.dropped /\ run'.excludes = run.excludes
      /\ run'.unusable = run.unusable /\ run'.unread = run.unread /\ run'.ret = run.ret
  BY <1>1, <1>2 DEF HInv, IInv, Shape, RunFields
<1>4. Carried
  BY <1>1, <1>3 DEF Carried, Counts
<1>5. run.todo \cup run.seen \subseteq run'.todo \cup run'.seen
  BY <1>3
<1>. QED BY <1>1, <1>3, <1>4, <1>5, CalmRet, LateOn

LEMMA CommitHonest == ASSUME HInv, Commit PROVE Honest'
<1>1. run.at = "scanning" /\ run.at \in Late /\ Running /\ last' = last
  BY DEF Commit, Fault, Rest, Same, Late, Running
<1>2. CASE Fault /\ run' = [run EXCEPT !.at = "ended", !.status = 1] /\ UNCHANGED file
  <2>1. Kept
    BY <1>2, AdvanceKeeps DEF Advances
  <2>2. Carried
    BY <1>2, <2>1 DEF Kept, Carried, Counts, Fault, Same
  <2>. QED BY <1>1, <1>2, <2>2, FaultDisturbs, EndsBadly DEF HInv
<1>3. CASE /\ file' = [file EXCEPT !.rows = file.rows \cup run.batch]
           /\ run' = [run EXCEPT !.batch = {}] /\ UNCHANGED <<faults, moves, present>>
  <2>1. /\ run'.at = "scanning" /\ run'.todo = run.todo /\ run'.seen = run.seen
        /\ run'.cmd = run.cmd /\ run'.found = run.found /\ run'.since = run.since
        /\ run'.interrupted = run.interrupted /\ run'.replaying = run.replaying
        /\ run'.roots = run.roots /\ run'.dropped = run.dropped /\ run'.excludes = run.excludes
        /\ run'.unusable = run.unusable /\ run'.unread = run.unread /\ run'.ret = run.ret
    BY <1>1, <1>3 DEF HInv, IInv, Shape, RunFields
  <2>2. file'.scan = file.scan /\ file'.history = file.history
    BY <1>3 DEF HInv, IInv, Shape, FileFields
  <2>3. Carried
    BY <1>3, <2>1 DEF Carried, Counts
  <2>. QED BY <1>1, <2>1, <2>2, <2>3, CalmRet, LateOn
<1>. QED BY <1>2, <1>3 DEF Commit, Rest, Same

LEMMA EndScanHonest == ASSUME HInv, EndScan PROVE Honest'
<1>1. /\ run.at = "scanning" /\ run.at \in Late /\ Running /\ last' = last
      /\ run.todo = {} \/ run.interrupted
  BY DEF EndScan, GivesUp, Fails, Fault, Rest, Same, Late, Running
<1>2. \/ run.ret # 0 /\ End(1) /\ UNCHANGED file /\ UNCHANGED <<faults, moves, present>>
      \/ /\ file' = [file EXCEPT !.fs = run.locked]
         /\ Goto("persisting") /\ UNCHANGED <<faults, moves, present>>
      \/ Fault /\ (\E code \in {1, 2} : End(code)) /\ UNCHANGED file
  BY DEF EndScan, GivesUp, Fails, Rest, Same
<1>3. CASE \E code \in {1, 2} : End(code)
  <2>1. run' = [run EXCEPT !.at = "ended", !.status = 1] /\ Kept
    <3>1. PICK code \in {1, 2} : End(code)
      BY <1>3
    <3>2. run' = [run EXCEPT !.at = "ended", !.status = 1]
      <4>1. code # 0
        OBVIOUS
      <4>2. Status(code, run.interrupted, run.unusable # 0 \/ run.dropped # 0) = 1
        BY <4>1 DEF Status
      <4>. QED BY <3>1, <4>2 DEF End
    <3>. QED BY <3>1, <3>2, EndAdvances, AdvanceKeeps
  <2>2. UNCHANGED file /\ (run.ret # 0 \/ Fault) /\ Counts
    <3>1. CASE Goto("persisting")
      BY <2>1, <3>1 DEF HInv, IInv, Shape, RunFields, Goto
    <3>. QED BY <1>2, <3>1 DEF Counts, Fault, Same
  <2>3. Carried
    BY <2>1, <2>2 DEF Kept, Carried
  <2>4. ~Undisturbed'
    BY <1>1, <2>2, <2>3, FaultDisturbs, CalmRet DEF HInv
  <2>. QED BY <1>1, <2>1, <2>2, <2>3, <2>4, EndsBadly
<1>4. CASE /\ file' = [file EXCEPT !.fs = run.locked]
           /\ Goto("persisting") /\ UNCHANGED <<faults, moves, present>>
  <2>1. run'.at = "persisting" /\ Kept
    BY <1>4, MovesTo, AdvanceKeeps
  <2>2. file'.scan = file.scan /\ file'.history = file.history
    BY <1>4 DEF HInv, IInv, Shape, FileFields
  <2>3. Carried
    BY <1>4, <2>1 DEF Kept, Carried, Counts
  <2>. QED BY <1>1, <2>1, <2>2, <2>3, CalmRet, LateOn DEF Kept, Late
<1>. QED BY <1>2, <1>3, <1>4

LEMMA PersistHonest == ASSUME HInv, Persist PROVE Honest'
<1>1. /\ run.at = "persisting" /\ run.at \in Late
      /\ run.todo = {} \/ run.interrupted
  BY DEF Persist, HInv, Reaches, Late
<1>2. run.cmd \in Commands /\ run.cmd.modes = {} /\ run.cmd.files \in Seq(Roots)
  BY <1>1, CommandsOK DEF HInv, Told
<1>3. Config.roots \in Seq(Roots)
  BY <1>2, AmongShort DEF Config, Live
<1>4. /\ run'.at \in {"persisting", "dupes"} /\ run'.todo = run.todo /\ run'.seen = run.seen
      /\ run'.cmd = run.cmd /\ run'.found = run.found /\ run'.since = run.since
      /\ run'.interrupted = run.interrupted /\ run'.replaying = run.replaying
      /\ run'.roots = run.roots /\ run'.dropped = run.dropped /\ run'.excludes = run.excludes
      /\ run'.unusable = run.unusable /\ run'.unread = run.unread /\ run'.ret = run.ret
  <2>1. \/ run' = [run EXCEPT !.at = "dupes"]
        \/ run' = [run EXCEPT !.at = "dupes", !.txn = None]
        \/ \E new : run' = [run EXCEPT !.txn = new]
    BY DEF Persist, Goto, Stage
  <2>2. CASE run' = [run EXCEPT !.at = "dupes"]
    BY <2>2 DEF HInv, IInv, Shape, RunFields
  <2>3. CASE run' = [run EXCEPT !.at = "dupes", !.txn = None]
    BY <2>3 DEF HInv, IInv, Shape, RunFields
  <2>4. ASSUME NEW new, run' = [run EXCEPT !.txn = new]
        PROVE  /\ run'.at = run.at /\ run'.todo = run.todo /\ run'.seen = run.seen
               /\ run'.cmd = run.cmd /\ run'.found = run.found /\ run'.since = run.since
               /\ run'.interrupted = run.interrupted /\ run'.replaying = run.replaying
               /\ run'.roots = run.roots /\ run'.dropped = run.dropped
               /\ run'.excludes = run.excludes /\ run'.unusable = run.unusable
               /\ run'.unread = run.unread /\ run'.ret = run.ret
    BY <2>4 DEF HInv, IInv, Shape, RunFields
  <2>. QED BY <1>1, <2>1, <2>2, <2>3, <2>4
<1>5. /\ file' = file \/ file' = [file EXCEPT !.scan = Config]
      /\ run.replaying => last' = last
      /\ Counts
  BY DEF Persist, Persists, Stage, Rest, Same, Fault, Counts
<1>6. /\ file'.scan = file.scan \/ file'.scan = Config
      /\ file'.history = file.history
  <2>. HIDE DEF Config
  <2>. QED BY <1>5 DEF HInv, IInv, Shape, FileFields
<1>7. Carried
  BY <1>4, <1>5 DEF Carried
<1>. QED BY <1>1, <1>3, <1>4, <1>5, <1>6, <1>7, CalmRet, LateOn DEF Late

LEMMA DuplicatesHonest == ASSUME HInv, Duplicates PROVE Honest'
<1>1. /\ run.at = "dupes" /\ run.at \in Late
      /\ run.todo = {} \/ run.interrupted
      /\ last' = last
  BY DEF Duplicates, HInv, Reaches, Late, Fault, Rest, Same
<1>2. \/ Goto("recording") /\ Counts
      \/ run' = [run EXCEPT !.at = "recording", !.ret = 1] /\ Fault
  BY DEF Duplicates, Rest, Same, Fault, Counts
<1>3. file' = file \/ \E rows : file' = [file EXCEPT !.rows = rows]
  BY DEF Duplicates
<1>4. file'.scan = file.scan /\ file'.history = file.history
  BY <1>3 DEF HInv, IInv, Shape, FileFields
<1>5. CASE Goto("recording") /\ Counts
  <2>1. run'.at = "recording" /\ Kept
    BY <1>5, MovesTo, AdvanceKeeps
  <2>2. Carried
    BY <1>5, <2>1 DEF Kept, Carried
  <2>. QED BY <1>1, <1>4, <2>1, <2>2, CalmRet, LateOn DEF Kept, Late
<1>6. CASE run' = [run EXCEPT !.at = "recording", !.ret = 1] /\ Fault
  <2>1. /\ run'.at = "recording" /\ run'.todo = run.todo /\ run'.seen = run.seen
        /\ run'.cmd = run.cmd /\ run'.found = run.found /\ run'.since = run.since
        /\ run'.interrupted = run.interrupted /\ run'.replaying = run.replaying
        /\ run'.roots = run.roots /\ run'.dropped = run.dropped /\ run'.excludes = run.excludes
        /\ run'.unusable = run.unusable /\ run'.unread = run.unread
    BY <1>6 DEF HInv, IInv, Shape, RunFields
  <2>2. Carried
    BY <1>6, <2>1 DEF Carried, Counts, Fault, Same
  <2>3. ~Undisturbed'
    BY <1>6, <2>2, FaultDisturbs DEF HInv
  <2>. QED BY <1>1, <1>4, <2>1, <2>2, <2>3, LateOn DEF Late
<1>. QED BY <1>2, <1>5, <1>6

\* The end: the status says what the run is known to have done.
LEMMA FinishHonest == ASSUME HInv, Finish PROVE Honest'
<1>1. /\ run.at = "recording" /\ run.at \in Late /\ End(run.ret) /\ last' = last
      /\ run.todo = {} \/ run.interrupted
  BY DEF Finish, HInv, Reaches, Late, Fault, Rest, Same
<1>. DEFINE missed == run.unusable # 0 \/ run.dropped # 0
<1>2. Kept /\ run'.at = "ended" /\ run'.status = Status(run.ret, run.interrupted, missed)
  <2>1. Kept
    BY <1>1, EndAdvances, AdvanceKeeps
  <2>2. run' = [run EXCEPT !.at = "ended", !.status = Status(run.ret, run.interrupted, missed)]
    BY <1>1 DEF End
  <2>. HIDE DEF missed
  <2>. QED BY <2>1, <2>2 DEF HInv, IInv, Shape, RunFields
<1>3. Carried
  BY <1>2 DEF Finish, Kept, Carried, Counts, Fault, Rest, Same
<1>4. file'.scan = file.scan /\ file'.history \in {file.history, file.history \cup RecordRun}
  BY DEF Finish, HInv, IInv, Shape, FileFields
<1>5. "cut" \notin file'.history
  BY <1>1, <1>4 DEF HInv, Reaches, HonestStatus, RecordRun
<1>6. Told'
  BY <1>1, <1>2, <1>3, <1>4 DEF HInv, Told, Kept, Carried, Running, Bare, Late
<1>7. Below(Asked)' = Below(Asked)
  BY <1>1, <1>2 DEF Below, Asked, Kept
<1>8. run.unusable = 0 /\ run.dropped = 0 => Below(Asked) \subseteq run.todo \cup run.seen \cup run.unread
  BY <1>1 DEF HInv, Reaches
<1>9. HonestStatus'
  <2>1. CASE run.ret # 0
    <3>1. run'.status = 1
      BY <1>2, <2>1 DEF Status
    <3>. QED BY <1>5, <3>1 DEF HonestStatus
  <2>2. CASE run.ret = 0 /\ run.interrupted
    <3>1. run'.status = 130 /\ run'.interrupted
      BY <1>2, <2>2 DEF Status, Kept
    <3>. QED BY <1>5, <3>1 DEF HonestStatus
  <2>3. CASE run.ret = 0 /\ ~run.interrupted
    <3>1. run'.status = IF missed THEN 2 ELSE 0
      BY <1>2, <2>3 DEF Status
    <3>2. run'.todo = {} /\ run'.ret = 0 /\ ~run'.interrupted
      BY <1>1, <1>2, <2>3 DEF Kept
    <3>3. CASE missed
      <4>1. run'.status = 2 /\ (run'.unusable # 0 \/ run'.dropped # 0)
        BY <1>2, <3>1, <3>3 DEF Kept
      <4>. HIDE DEF missed
      <4>. QED BY <1>5, <3>2, <4>1 DEF HonestStatus
    <3>4. CASE ~missed
      <4>1. run'.status = 0 /\ Below(Asked) \subseteq run'.seen \cup run'.unread
        BY <1>1, <1>2, <1>8, <2>3, <3>1, <3>4 DEF Kept
      <4>. HIDE DEF missed
      <4>. QED BY <1>5, <1>7, <3>2, <4>1 DEF HonestStatus
    <3>. QED BY <3>3, <3>4
  <2>. QED BY <2>1, <2>2, <2>3
<1>10. Reaches'
  BY <1>2, <1>9 DEF Reaches, Late
<1>11. Undisturbed' => run'.status = 0
  <2>. SUFFICES ASSUME Undisturbed' PROVE run'.status = 0
    OBVIOUS
  <2>1. run.ret = 0 /\ run.unusable = 0 /\ run.dropped = 0
    BY <1>1, <1>3, CalmRet
  <2>2. ~run.interrupted
    BY <1>2 DEF Undisturbed, Kept
  <2>. QED BY <1>2, <2>1, <2>2 DEF Status
<1>12. Reopens'
  <2>. USE DEF Undisturbed, ScanEnded, Bare, OptionsRefused, ValueRefused, Conflicting
  <2>. QED BY <1>11 DEF Reopens
<1>13. Welcome'
  BY <1>2, <1>3, <1>12, CountersKeep DEF HInv, Welcome, Running
<1>. QED BY <1>6, <1>10, <1>13 DEF Honest

LEMMA SignalHonest == ASSUME HInv, Signal PROVE Honest'
<1>1. Running /\ UNCHANGED <<file, last, faults, moves, present>> /\ run' = [run EXCEPT !.interrupted = TRUE]
  BY DEF Signal, Rest, Same
<1>2. /\ run'.at = run.at /\ run'.todo = run.todo /\ run'.seen = run.seen
      /\ run'.cmd = run.cmd /\ run'.found = run.found /\ run'.since = run.since
      /\ run'.interrupted /\ run'.replaying = run.replaying
      /\ run'.roots = run.roots /\ run'.dropped = run.dropped /\ run'.excludes = run.excludes
      /\ run'.unusable = run.unusable /\ run'.unread = run.unread
  BY <1>1 DEF HInv, IInv, Shape, RunFields
<1>3. Carried /\ ~Undisturbed'
  BY <1>1, <1>2 DEF Carried, Counts, Undisturbed
<1>4. CASE run.at \in Late
  BY <1>1, <1>2, <1>3, <1>4, LateOn
<1>5. CASE run.at \notin Late
  <2>1. run'.at \notin {"off", "ended"} \cup Late
    BY <1>1, <1>2, <1>5 DEF Running
  <2>2. /\ run'.at = "scan" => run.cmd.modes = {}
        /\ run'.at \in {"report", "rm", "prune"} => run.cmd.modes # {}
    BY <1>2 DEF HInv, Told
  <2>. QED BY <1>1, <1>2, <1>3, <2>1, <2>2, EarlyOn
<1>. QED BY <1>4, <1>5

LEMMA MoveHonest == ASSUME HInv, Move PROVE Honest'
<1>1. UNCHANGED <<file, run, last, faults>> /\ moves' = moves + 1
  BY DEF Move
<1>2. Carried
  BY <1>1 DEF Carried, Counts
<1>3. ~Undisturbed'
  BY <1>1, <1>2, Calm DEF HInv, Welcome
<1>4. Told'
  BY <1>1 DEF HInv, Told, Running, Bare
<1>5. Below(Asked)' = Below(Asked) /\ HonestStatus'
  BY <1>1 DEF HInv, Reaches, HonestStatus, ScanEnded, Below, Asked
<1>6. Reaches'
  BY <1>1, <1>5 DEF HInv, Reaches
<1>7. Reopens'
  <2>. USE DEF Undisturbed, Reopens, ScanEnded, Bare, OptionsRefused, ValueRefused, Conflicting
  <2>. QED BY <1>3
<1>8. Welcome'
  BY <1>1, <1>2, <1>3, <1>7, CountersKeep DEF Welcome, HInv
<1>. QED BY <1>4, <1>6, <1>8 DEF Honest

LEMMA KillHonest == ASSUME HInv, Kill PROVE Honest'
<1>1. /\ UNCHANGED <<file, present, last, faults, moves>> /\ run' = Idle
      /\ Idle.at = "off" /\ ~Idle.replaying /\ Idle.since = 0
  BY DEF Kill, Rest, Same, Idle
<1>. HIDE DEF Idle
<1>2. Told'
  BY <1>1 DEF HInv, Told, Running, Late
<1>3. Reaches'
  BY <1>1 DEF HInv, Reaches, HonestStatus, ScanEnded, Late
<1>4. Welcome'
  BY <1>1 DEF HInv, Welcome, Running, Reopens, ScanEnded
<1>. QED BY <1>2, <1>3, <1>4 DEF Honest

LEMMA StartHonest == ASSUME HInv, NEW c \in Commands, Start(c) PROVE Honest'
<1>. DEFINE started == [Idle EXCEPT !.cmd = c, !.found = file, !.since = faults + moves,
                 !.bs = c.bs, !.opts = c.opts, !.roots = c.files, !.excludes = c.excludes]
<1>0. Idle.dropped = 0
  BY DEF Idle
<1>1. /\ started = [x \in RunFields |-> started[x]]
      /\ started.cmd = c /\ started.found = file /\ started.since = faults + moves
      /\ started.roots = c.files /\ ~started.replaying /\ started.dropped = 0
  BY <1>0, IdleFacts DEF RunFields
<1>2. \/ /\ OptionsRefused(c) \/ (MustExist(c) /\ file.schema = "none")
         /\ run' = [started EXCEPT !.at = "ended", !.status = 1]
      \/ /\ ~OptionsRefused(c) /\ ~(MustExist(c) /\ file.schema = "none")
         /\ run' = [started EXCEPT !.at = "opening"]
  BY DEF Start
<1>3. UNCHANGED <<file, present, last, faults, moves>>
  BY DEF Start
<1>. HIDE DEF started
<1>4. /\ run'.cmd = c /\ run'.found = file /\ run'.since = faults + moves
      /\ run'.roots = c.files /\ ~run'.replaying /\ run'.dropped = 0
      /\ \/ /\ OptionsRefused(c) \/ (MustExist(c) /\ file.schema = "none")
            /\ run'.at = "ended" /\ run'.status = 1
         \/ run'.at = "opening"
  BY <1>1, <1>2 DEF RunFields
<1>5. Told'
  BY <1>3, <1>4 DEF HInv, Told, Running, Late
<1>6. HonestStatus'
  <2>1. "cut" \notin file'.history
    BY <1>3 DEF HInv, Reaches, HonestStatus
  <2>2. ScanEnded' => run'.status = 1
    BY <1>4 DEF ScanEnded
  <2>. QED BY <2>1, <2>2 DEF HonestStatus
<1>7. Reaches'
  BY <1>4, <1>6 DEF Reaches, Late
<1>8. Reopens'
  <2>1. ASSUME run'.at = "ended", run'.cmd.modes = {} PROVE OptionsRefused(run'.cmd) \/ Bare(run'.cmd)
    BY <1>4, <2>1 DEF MustExist
  <2>. QED BY <2>1 DEF Reopens, ScanEnded, Bare, OptionsRefused, ValueRefused, Conflicting
<1>9. Welcome'
  BY <1>3, <1>4, <1>8 DEF HInv, Welcome, Running, Undisturbed, Late
<1>. QED BY <1>5, <1>7, <1>9 DEF Honest

LEMMA NextHonest == HInv /\ [Next]_vars => HInv'
<1>. SUFFICES ASSUME HInv, [Next]_vars PROVE HInv'
  OBVIOUS
<1>1. IInv'
  BY NextKeeps DEF HInv
<1>2. CASE UNCHANGED vars
  <2>1. UNCHANGED <<file, run, present, last, faults, moves>>
    BY <1>2 DEF vars
  <2>2. Told' /\ Reaches'
    BY <2>1 DEF HInv, Told, Reaches, HonestStatus, ScanEnded, Below, Asked, Running, Bare
  <2>3. Welcome'
    BY <2>1 DEF HInv, Welcome, Running, Undisturbed, Reopens, ScanEnded, Bare,
                OptionsRefused, ValueRefused, Conflicting
  <2>. QED BY <1>1, <2>2, <2>3 DEF HInv
<1>3. CASE Next
  <2>1. Honest'
    BY <1>3, StartHonest, OpenHonest, CreateTablesHonest, BrandHonest, CheckHonest,
       SyncDefaultsHonest, ReportHonest, RemoveRowsHonest, DropBlocksHonest, ReplayHonest,
       SeedHonest, HashFileHonest, CommitHonest, EndScanHonest, PersistHonest,
       DuplicatesHonest, FinishHonest, SignalHonest, KillHonest, MoveHonest DEF Next
  <2>. QED BY <1>1, <2>1 DEF HInv, Honest
<1>. QED BY <1>2, <1>3

LEMMA HonestyHolds == Spec => []HInv
<1>1. Init => HInv
  BY Initially, HonestlyInitially DEF HInv, Honest
<1>. QED BY <1>1, NextHonest, PTL DEF Spec

-----------------------------------------------------------------------------
\* The status a scan exits with is what it did: 0 leaves out nothing but what it
\* could not read, roots rejected before there was a lock included (the end of
\* main(), on what seeding, replaying and the signal left).
THEOREM StatusIsHonest == Spec => []HonestStatus
<1>1. HInv => HonestStatus
  BY DEF HInv, Reaches
<1>. QED BY <1>1, HonestyHolds, PTL

\* An undisturbed run opens a hashfile left branded, empty or missing, and
\* completes (dbfile_identify(), create_tables() and dbfile_check() on a file
\* that was configured or locked only in part).  Nothing is claimed of one left
\* with tables and no brand, which dbfile_identify() refuses.
THEOREM RunsReopen == Spec => []Reopens
<1>1. HInv => Reopens
  BY DEF HInv, Welcome
<1>. QED BY <1>1, HonestyHolds, PTL
=============================================================================
