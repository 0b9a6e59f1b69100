--------------------------- MODULE ScanWalkProofs ---------------------------
(***************************************************************************)
(* Proofs about ScanWalk, for any trees, any number of walkers and         *)
(* workers, and faults and signals anywhere.                               *)
(*                                                                         *)
(*   IInv    the counter of directories tells when the walk is over: while *)
(*           it is going, the counter is the number of directories queued  *)
(*           plus that of walkers that have one in hand, plus one while    *)
(*           the main thread is still seeding; when it falls to zero       *)
(*           nothing is left that could raise it again                     *)
(*   Counts  a subvolume is counted with the insert of its answer          *)
(*   Honest  what is known of the filesystem, and the exit status          *)
(*   Once    an inode taken is in one place: queued, in a worker's hands   *)
(*           or hashed                                                     *)
(*   Kept    while nothing fails, a file listed is in the file queue or    *)
(*           has been seen to, and an inode taken is somewhere             *)
(*   Locks   the filesystem the run is locked onto, and the devices that   *)
(*           are known to be on it                                         *)
(*   Held    what is listed, queued or in hand is due                      *)
(*   NoneMissed  while nothing fails, what is due and not listed is in a   *)
(*           queue or in somebody's hands, or below what is                *)
(***************************************************************************)
EXTENDS ScanWalk, LeastElements, FiniteSetTheorems, TLAPS

-----------------------------------------------------------------------------
(* The inductive invariant. *)

Seeding == main.at \in {"seeding", "resuming"}
Token == IF Seeding THEN 1 ELSE 0
AtDir == {"reading", "asking", "probing"}
Busy == {w \in Walkers : walker[w].at \in AtDir}

\* What the threads hold: paths, never the sentinel.
Threads ==
    /\ world \in Worlds
    /\ args \in Seq(Paths \cup {None})
    /\ main = [at |-> main.at, ret |-> main.ret]
    /\ main.at = "resuming" => args \in Seq(Paths)
    /\ walker \in [Walkers -> [at : AtDir \cup {"unborn", "idle", "gone"},
                               dir : Paths \cup {None}, left : SUBSET Paths,
                               entry : Paths \cup {None}]]
    /\ \A w \in Walkers :
          /\ walker[w].at = "unborn" <=> Seeding
          /\ walker[w].at \in {"asking", "probing"} => walker[w].entry \in Paths

\* The walk before its counter is zero, and after.
Going ==
    /\ main.at \in {"seeding", "resuming", "walking"}
    /\ dirq \in Seq(Paths) /\ fileq \in Seq(Paths)
    /\ pending \in Nat \ {0}
    /\ pending = Len(dirq) + Cardinality(Busy) + Token
    /\ \A w \in Walkers : walker[w].at # "gone"
Over ==
    /\ main.at \in {"walking", "joining", "draining", "done"}
    /\ dirq \in Seq({Stop})
    /\ Busy = {}
    /\ IF main.at = "walking" THEN \E s \in Seq(Paths) : fileq = Append(s, Stop)
                              ELSE fileq = <<>>

IInv == Threads /\ (Going \/ Over)

-----------------------------------------------------------------------------
LEMMA StopIsNoPath == Threads => Stop \notin Paths /\ None # Stop
BY ScanWalkConstants, WorldsOK DEF Threads, Paths

LEMMA BusyCount ==
    /\ IsFiniteSet(Busy) /\ Cardinality(Busy) \in Nat
    /\ Cardinality(Busy) = 0 <=> Busy = {}
<1>1. Busy \in SUBSET Walkers
  BY DEF Busy
<1>. QED BY <1>1, ScanWalkConstants, FS_Subset, FS_CardinalityType, FS_EmptySet

LEMMA Initially == Init => IInv
<1>. SUFFICES ASSUME Init PROVE IInv
  OBVIOUS
<1>1. Paths = DOMAIN world.node
  BY DEF Paths
<1>2. Threads
  BY <1>1, WorldsOK DEF Init, Threads, AtDir, Seeding
<1>3. Busy = {} /\ Token = 1
  BY DEF Init, Busy, AtDir, Token, Seeding
<1>4. Going
  BY <1>3, FS_EmptySet DEF Init, Going
<1>. QED BY <1>2, <1>4 DEF IInv

\* A push keeps the counter and the queue in step.
LEMMA PushCounts ==
    ASSUME Going, NoPush \/ \E p \in Paths : Push(p)
    PROVE  /\ dirq' \in Seq(Paths) /\ fileq' \in Seq(Paths)
           /\ pending' \in Nat \ {0}
           /\ pending' - Len(dirq') = pending - Len(dirq)
<1>1. dirq \in Seq(Paths) /\ fileq \in Seq(Paths) /\ pending \in Nat \ {0} /\ Len(dirq) \in Nat
  BY DEF Going
<1>2. CASE NoPush
  BY <1>1, <1>2 DEF NoPush
<1>3. ASSUME NEW p \in Paths, Push(p)
      PROVE  \/ /\ fileq' = Append(fileq, p) /\ UNCHANGED <<dirq, pending>>
             \/ /\ dirq' = Append(dirq, p) /\ pending' = pending + 1 /\ UNCHANGED fileq
  BY <1>3 DEF Push, FileqPush, DirqPush
<1>4. ASSUME NEW p \in Paths, Push(p)
      PROVE  /\ dirq' \in Seq(Paths) /\ fileq' \in Seq(Paths)
             /\ pending' \in Nat \ {0}
             /\ pending' - Len(dirq') = pending - Len(dirq)
  <2>1. CASE fileq' = Append(fileq, p) /\ UNCHANGED <<dirq, pending>>
    BY <1>1, <2>1
  <2>2. CASE dirq' = Append(dirq, p) /\ pending' = pending + 1 /\ UNCHANGED fileq
    <3>1. dirq' \in Seq(Paths) /\ Len(dirq') = Len(dirq) + 1
      BY <1>1, <2>2
    <3>. QED BY <1>1, <2>2, <3>1
  <2>. QED BY <1>3, <1>4, <2>1, <2>2
<1>. QED BY <1>2, <1>4

LEMMA PushKeepsGoing ==
    ASSUME Going, NoPush \/ \E p \in Paths : Push(p),
           world' = world, main'.at = main.at, Busy' = Busy,
           \A w \in Walkers : walker'[w].at # "gone"
    PROVE  Going'
<1>1. Paths' = Paths
  BY DEF Paths
<1>2. Token' = Token /\ Token \in Nat
  BY DEF Token, Seeding
<1>3. Cardinality(Busy)' = Cardinality(Busy) /\ Cardinality(Busy) \in Nat
  BY BusyCount
<1>4. /\ dirq' \in Seq(Paths) /\ fileq' \in Seq(Paths) /\ pending' \in Nat \ {0}
      /\ pending' - Len(dirq') = pending - Len(dirq)
  BY PushCounts
<1>5. /\ main.at \in {"seeding", "resuming", "walking"}
      /\ dirq \in Seq(Paths) /\ Len(dirq) \in Nat /\ Len(dirq') \in Nat /\ pending \in Nat
      /\ pending = Len(dirq) + Cardinality(Busy) + Token
  BY <1>4 DEF Going
<1>6. pending' = Len(dirq') + Cardinality(Busy) + Token
  <2>1. pending = Len(dirq) + (Cardinality(Busy) + Token)
    BY <1>2, <1>3, <1>5
  <2>2. pending' - Len(dirq') = Cardinality(Busy) + Token
    BY <1>2, <1>3, <1>4, <1>5, <2>1
  <2>. QED BY <1>2, <1>3, <1>4, <1>5, <2>2
<1>7. pending' = Len(dirq') + Cardinality(Busy)' + Token'
  BY <1>2, <1>3, <1>6
<1>8. main'.at \in {"seeding", "resuming", "walking"}
  BY <1>5
<1>9. dirq' \in Seq(Paths') /\ fileq' \in Seq(Paths')
  BY <1>1, <1>4
<1>10. \A w \in Walkers : walker'[w].at # "gone"
  OBVIOUS
<1>11. pending' \in Nat \ {0}
  BY <1>4
<1>. QED BY ONLY <1>7, <1>8, <1>9, <1>10, <1>11 DEF Going

\* Nothing that the invariant is about changes.
LEMMA OthersKeep ==
    ASSUME IInv, UNCHANGED <<world, main, args, dirq, fileq, pending, walker>>
    PROVE  IInv'
BY DEF IInv, Threads, Going, Over, Paths, Busy, Token, Seeding

-----------------------------------------------------------------------------
(* The main thread seeds. *)

LEMMA SeedRootKeeps == ASSUME IInv, SeedRoot PROVE IInv'
<1>1. Going /\ Threads
  BY DEF IInv, Over, SeedRoot
<1>2. UNCHANGED <<world, main, walker>>
  BY DEF SeedRoot
<1>3. args' \in Seq(Paths \cup {None})
  BY <1>1 DEF Threads, SeedRoot
<1>4. Threads'
  BY <1>1, <1>2, <1>3 DEF Threads, Paths, Seeding, SeedRoot
<1>5. NoPush \/ \E p \in Paths : Push(p)
  <2>1. Head(args) \in Paths \cup {None}
    BY <1>1 DEF Threads, SeedRoot
  <2>2. NoPush \/ (Head(args) # None /\ Push(Head(args)))
    BY DEF SeedRoot, RootSkipped, RootJudged, RootUnprobed, RootUnusable, RootFails, RootWrong,
       RootTaken, RootLocks, RootAccepted
  <2>. QED BY <2>1, <2>2
<1>6. Busy' = Busy /\ \A w \in Walkers : walker'[w].at # "gone"
  BY <1>1, <1>2 DEF Busy, Going
<1>7. Going'
  BY <1>1, <1>2, <1>5, <1>6, PushKeepsGoing
<1>. QED BY <1>4, <1>7 DEF IInv

LEMMA LoadCheckpointsKeeps == ASSUME IInv, LoadCheckpoints PROVE IInv'
<1>1. Going /\ Threads
  BY DEF IInv, Over, LoadCheckpoints
<1>2. UNCHANGED <<world, dirq, fileq, pending, walker>> /\ main' = [main EXCEPT !.at = "resuming"]
  BY DEF LoadCheckpoints, walkVars
<1>3. main'.at = "resuming" /\ main' = [at |-> main'.at, ret |-> main'.ret]
  BY <1>1, <1>2 DEF Threads
<1>4. args' \in Seq(Paths)
  <2>1. world.resumed \in Seq(Paths)
    BY <1>1, WorldsOK DEF Threads, Paths
  <2>2. args' = world.resumed \/ args' = <<>>
    BY DEF LoadCheckpoints
  <2>3. <<>> \in Seq(Paths)
    OBVIOUS
  <2>. QED BY <2>1, <2>2, <2>3
<1>5. args' \in Seq(Paths \cup {None})
  BY <1>4
<1>6. Seeding /\ Seeding'
  BY <1>3 DEF Seeding, LoadCheckpoints
<1>7. Threads'
  BY <1>1, <1>2, <1>3, <1>4, <1>5, <1>6 DEF Threads, Paths
<1>8. Busy' = Busy /\ Token' = Token /\ Paths' = Paths
  BY <1>2, <1>6 DEF Busy, Token, Paths
<1>9. Going'
  BY <1>1, <1>2, <1>3, <1>8 DEF Going
<1>. QED BY <1>7, <1>9 DEF IInv

LEMMA SeedFileKeeps == ASSUME IInv, SeedFile PROVE IInv'
<1>1. Going /\ Threads
  BY DEF IInv, Over, SeedFile
<1>2. UNCHANGED <<world, main, walker>>
  BY DEF SeedFile
<1>3. Head(args) \in Paths /\ args' \in Seq(Paths)
  BY <1>1 DEF Threads, SeedFile
<1>4. args' \in Seq(Paths \cup {None})
  BY <1>3
<1>5. Threads'
  BY <1>1, <1>2, <1>3, <1>4 DEF Threads, Paths, Seeding
<1>6. \A lost, shut : Seeded(Head(args), lost, shut) => Regular(Head(args))
  BY DEF Seeded
<1>7. NoPush \/ Push(Head(args))
  BY <1>6 DEF SeedFile, Push
<1>8. Busy' = Busy /\ \A w \in Walkers : walker'[w].at # "gone"
  BY <1>1, <1>2 DEF Busy, Going
<1>9. Going'
  BY <1>1, <1>2, <1>3, <1>7, <1>8, PushKeepsGoing
<1>. QED BY <1>5, <1>9 DEF IInv

-----------------------------------------------------------------------------
(* Counting off: what the one does that takes the counter to zero. *)

LEMMA StopsAreStops == Stops \in Seq({Stop})
<1>1. Cardinality(Walkers) \in Nat
  BY ScanWalkConstants, FS_CardinalityType
<1>. QED BY <1>1 DEF Stops

LEMMA FinishedKeeps ==
    ASSUME Going, Finished, world' = world, main'.at = "walking",
           Cardinality(Busy') \in Nat,
           Cardinality(Busy) + Token = Cardinality(Busy') + 1,
           Cardinality(Busy') = 0 => Busy' = {},
           \A w \in Walkers : walker'[w].at # "gone"
    PROVE  Going' \/ Over'
<1>1. /\ dirq \in Seq(Paths) /\ fileq \in Seq(Paths) /\ pending \in Nat \ {0} /\ Len(dirq) \in Nat
      /\ pending = Len(dirq) + (Cardinality(Busy) + Token)
  <2>1. Cardinality(Busy) \in Nat /\ Token \in Nat
    BY BusyCount DEF Token
  <2>. QED BY <2>1 DEF Going
<1>2. pending = Len(dirq) + Cardinality(Busy') + 1
  BY <1>1
<1>3. Paths' = Paths /\ Token' = 0
  BY DEF Paths, Token, Seeding
<1>4. CASE pending = 1
  <2>1. Len(dirq) = 0 /\ Cardinality(Busy') = 0
    BY <1>1, <1>2, <1>4
  <2>2. dirq = <<>> /\ dirq' = dirq \o Stops /\ fileq' = Append(fileq, Stop)
    BY <1>1, <1>4, <2>1 DEF Finished, DirqFinished
  <2>3. dirq' \in Seq({Stop})
    BY <2>2, StopsAreStops
  <2>. QED BY <1>1, <1>3, <2>1, <2>2, <2>3 DEF Over
<1>5. CASE pending # 1
  <2>1. dirq' = dirq /\ fileq' = fileq /\ pending' = pending - 1
    BY <1>5 DEF Finished, DirqFinished
  <2>. QED BY <1>1, <1>2, <1>3, <1>5, <2>1 DEF Going
<1>. QED BY <1>4, <1>5

LEMMA StartWalkKeeps == ASSUME IInv, StartWalk PROVE IInv'
<1>1. Going /\ Threads
  BY DEF IInv, Over, StartWalk
<1>2. /\ Finished /\ UNCHANGED <<world, args>>
      /\ main' = [main EXCEPT !.at = "walking"]
      /\ walker' = [w \in Walkers |-> [walker[w] EXCEPT !.at = "idle"]]
  BY DEF StartWalk, seedVars
<1>3. main'.at = "walking" /\ main' = [at |-> main'.at, ret |-> main'.ret]
  BY <1>1, <1>2 DEF Threads
<1>4. Seeding /\ ~Seeding' /\ Token = 1
  BY <1>3 DEF Seeding, Token, StartWalk
<1>5. \A w \in Walkers : walker'[w] = [walker[w] EXCEPT !.at = "idle"] /\ walker'[w].at = "idle"
  BY <1>1, <1>2 DEF Threads
<1>6. Threads'
  BY <1>1, <1>2, <1>3, <1>4, <1>5 DEF Threads, Paths, AtDir
<1>7. Busy = {} /\ Busy' = {}
  BY <1>1, <1>4, <1>5 DEF Busy, Threads, AtDir
<1>8. Going' \/ Over'
  BY <1>1, <1>2, <1>3, <1>4, <1>5, <1>7, FS_EmptySet, FinishedKeeps
<1>. QED BY <1>6, <1>8 DEF IInv

-----------------------------------------------------------------------------
(* The walkers. *)

\* Who has a directory in hand keeps the walk from being over.
LEMMA BusyGoes ==
    ASSUME IInv, NEW w \in Walkers, walker[w].at \in AtDir
    PROVE  Threads /\ Going /\ w \in Busy /\ ~Seeding /\ main.at = "walking"
<1>1. Threads /\ w \in Busy
  BY DEF IInv, Busy
<1>2. Going
  BY <1>1 DEF IInv, Over
<1>3. ~Seeding
  BY <1>1 DEF Threads, AtDir
<1>. QED BY <1>1, <1>2, <1>3 DEF Going, Seeding

LEMMA EntryKeeps ==
    ASSUME IInv, NEW w \in Walkers, walker[w].at \in AtDir,
           NEW at \in AtDir, NEW p, NEW entry \in Paths \cup {None},
           at \in {"asking", "probing"} => entry \in Paths,
           Entry(w, at, p, entry), NoPush \/ \E q \in Paths : Push(q),
           UNCHANGED <<world, main, args>>
    PROVE  IInv'
<1>1. Threads /\ Going /\ w \in Busy /\ ~Seeding
  BY BusyGoes
<1>2. walker' = [walker EXCEPT ![w] =
                    [walker[w] EXCEPT !.at = at, !.left = walker[w].left \ {p}, !.entry = entry]]
  BY DEF Entry
<1>3. /\ walker'[w].at = at /\ walker'[w].entry = entry
      /\ \A v \in Walkers \ {w} : walker'[v] = walker[v]
  BY <1>1, <1>2 DEF Threads
<1>4. walker' \in [Walkers -> [at : AtDir \cup {"unborn", "idle", "gone"},
                               dir : Paths \cup {None}, left : SUBSET Paths,
                               entry : Paths \cup {None}]]
  BY <1>1, <1>2 DEF Threads
<1>5. \A v \in Walkers : /\ walker'[v].at = "unborn" <=> Seeding
                         /\ walker'[v].at \in {"asking", "probing"} => walker'[v].entry \in Paths
  <2>. SUFFICES ASSUME NEW v \in Walkers
                PROVE  /\ walker'[v].at = "unborn" <=> Seeding
                       /\ walker'[v].at \in {"asking", "probing"} => walker'[v].entry \in Paths
    OBVIOUS
  <2>1. CASE v = w
    BY <1>1, <1>3, <2>1 DEF AtDir
  <2>2. CASE v # w
    BY <1>1, <1>3, <2>2 DEF Threads
  <2>. QED BY <2>1, <2>2
<1>6. Threads'
  <2>1. Paths' = Paths /\ (Seeding' <=> Seeding)
    BY DEF Paths, Seeding
  <2>. QED BY <1>1, <1>4, <1>5, <2>1 DEF Threads
<1>7. Busy' = Busy /\ \A v \in Walkers : walker'[v].at # "gone"
  BY <1>1, <1>3 DEF Busy, Going, AtDir
<1>8. Going'
  BY <1>1, <1>7, PushKeepsGoing
<1>. QED BY <1>6, <1>8 DEF IInv

LEMMA CheckDevDoes ==
    ASSUME NEW w \in Walkers, NEW p \in Paths, CheckDev(w, p)
    PROVE  Drop(w, p) \/ Give(w, p) \/ (Entry(w, "probing", p, p) /\ NoPush)
BY DEF CheckDev

LEMMA DropGiveKeep ==
    ASSUME IInv, NEW w \in Walkers, walker[w].at \in AtDir, NEW p \in Paths,
           Drop(w, p) \/ Give(w, p) \/ (Entry(w, "probing", p, p) /\ NoPush)
              \/ (Entry(w, "asking", p, p) /\ NoPush),
           UNCHANGED <<world, main, args>>
    PROVE  IInv'
<1>1. "reading" \in AtDir /\ "asking" \in AtDir /\ "probing" \in AtDir
  BY DEF AtDir
<1>2. CASE Drop(w, p) \/ Give(w, p)
  <2>1. Entry(w, "reading", p, None) /\ (NoPush \/ \E q \in Paths : Push(q))
    BY <1>2 DEF Drop, Give
  <2>. QED BY <1>1, <2>1, EntryKeeps
<1>3. CASE Entry(w, "probing", p, p) /\ NoPush
  BY <1>1, <1>3, EntryKeeps
<1>4. CASE Entry(w, "asking", p, p) /\ NoPush
  BY <1>1, <1>4, EntryKeeps
<1>. QED BY <1>2, <1>3, <1>4

LEMMA ReadEntryKeeps == ASSUME IInv, NEW w \in Walkers, ReadEntry(w) PROVE IInv'
<1>1. walker[w].at \in AtDir /\ UNCHANGED <<world, main, args>>
  BY DEF ReadEntry, AtDir, MainOnly, seedVars
<1>2. walker[w].left \subseteq Paths
  BY BusyGoes, <1>1 DEF Threads
<1>3. PICK p \in walker[w].left :
         \/ Drop(w, p)
         \/ Entry(w, "asking", p, p) /\ NoPush
         \/ CheckDev(w, p)
  BY DEF ReadEntry
<1>4. Drop(w, p) \/ Give(w, p) \/ (Entry(w, "probing", p, p) /\ NoPush)
         \/ (Entry(w, "asking", p, p) /\ NoPush)
  BY <1>2, <1>3, CheckDevDoes
<1>. QED BY <1>1, <1>2, <1>4, DropGiveKeep

LEMMA RoAnsweredKeeps == ASSUME IInv, NEW w \in Walkers, RoAnswered(w) PROVE IInv'
<1>1. walker[w].at = "asking" /\ walker[w].at \in AtDir /\ UNCHANGED <<world, main, args>>
  BY DEF RoAnswered, AtDir, MainOnly, seedVars
<1>2. walker[w].entry \in Paths
  BY <1>1, BusyGoes DEF Threads
<1>3. Drop(w, walker[w].entry) \/ CheckDev(w, walker[w].entry)
  BY DEF RoAnswered
<1>. QED BY <1>1, <1>2, <1>3, CheckDevDoes, DropGiveKeep

LEMMA DevProbedKeeps == ASSUME IInv, NEW w \in Walkers, DevProbed(w) PROVE IInv'
<1>1. walker[w].at = "probing" /\ walker[w].at \in AtDir /\ UNCHANGED <<world, main, args>>
  BY DEF DevProbed, AtDir, MainOnly, seedVars
<1>2. walker[w].entry \in Paths
  BY <1>1, BusyGoes DEF Threads
<1>3. Drop(w, walker[w].entry) \/ Give(w, walker[w].entry)
  BY DEF DevProbed
<1>. QED BY <1>1, <1>2, <1>3, DropGiveKeep

LEMMA EndDirKeeps == ASSUME IInv, NEW w \in Walkers, EndDir(w) PROVE IInv'
<1>1. /\ walker[w].at \in AtDir /\ UNCHANGED <<world, main, args>> /\ Finished
      /\ walker' = [walker EXCEPT ![w] = [walker[w] EXCEPT !.at = "idle", !.dir = None]]
  BY DEF EndDir, AtDir, MainOnly, seedVars
<1>2. Threads /\ Going /\ w \in Busy /\ ~Seeding /\ main.at = "walking"
  BY <1>1, BusyGoes
<1>3. /\ walker'[w].at = "idle"
      /\ \A v \in Walkers \ {w} : walker'[v] = walker[v]
  BY <1>1, <1>2 DEF Threads
<1>4. walker' \in [Walkers -> [at : AtDir \cup {"unborn", "idle", "gone"},
                               dir : Paths \cup {None}, left : SUBSET Paths,
                               entry : Paths \cup {None}]]
  BY <1>1, <1>2 DEF Threads
<1>5. \A v \in Walkers : /\ walker'[v].at = "unborn" <=> Seeding
                         /\ walker'[v].at \in {"asking", "probing"} => walker'[v].entry \in Paths
  BY <1>2, <1>3 DEF Threads
<1>6. Threads'
  BY <1>1, <1>2, <1>4, <1>5 DEF Threads, Paths, Seeding
<1>7. Busy' = Busy \ {w}
  BY <1>2, <1>3 DEF Busy, AtDir
<1>8. /\ Cardinality(Busy') = Cardinality(Busy) - 1 /\ Cardinality(Busy') \in Nat
      /\ Cardinality(Busy') = 0 => Busy' = {}
  BY <1>2, <1>7, BusyCount, FS_RemoveElement, FS_CardinalityType, FS_EmptySet
<1>9. Token = 0 /\ Cardinality(Busy) \in Nat
  BY <1>2, BusyCount DEF Token
<1>10. \A v \in Walkers : walker'[v].at # "gone"
  BY <1>2, <1>3 DEF Going
<1>11. Cardinality(Busy) + Token = Cardinality(Busy') + 1
  BY <1>8, <1>9
<1>12. Going' \/ Over'
  BY <1>1, <1>2, <1>8, <1>10, <1>11, FinishedKeeps
<1>. QED BY <1>6, <1>12 DEF IInv

LEMMA TakeDirKeeps == ASSUME IInv, NEW w \in Walkers, TakeDir(w) PROVE IInv'
<1>1. /\ walker[w].at = "idle" /\ dirq # <<>> /\ dirq' = Tail(dirq)
      /\ UNCHANGED <<world, main, args, fileq, pending>>
  BY DEF TakeDir, MainOnly, seedVars
<1>2. Threads /\ ~Seeding /\ Stop \notin Paths /\ Paths' = Paths
  BY <1>1, StopIsNoPath DEF IInv, Threads, Paths
<1>3. CASE Head(dirq) = Stop
  <2>1. Over
    BY <1>1, <1>2, <1>3 DEF IInv, Going
  <2>2. walker' = [walker EXCEPT ![w].at = "gone"]
    BY <1>3 DEF TakeDir, Walker
  <2>3. walker'[w].at = "gone" /\ \A v \in Walkers \ {w} : walker'[v] = walker[v]
    BY <1>2, <2>2 DEF Threads
  <2>4. Threads'
    <3>1. walker' \in [Walkers -> [at : AtDir \cup {"unborn", "idle", "gone"},
                                   dir : Paths \cup {None}, left : SUBSET Paths,
                                   entry : Paths \cup {None}]]
      BY <1>2, <2>2 DEF Threads
    <3>2. \A v \in Walkers :
             /\ walker'[v].at = "unborn" <=> Seeding
             /\ walker'[v].at \in {"asking", "probing"} => walker'[v].entry \in Paths
      BY <1>2, <2>3 DEF Threads
    <3>. QED BY <1>1, <1>2, <3>1, <3>2 DEF Threads, Seeding
  <2>5. Busy' = {}
    BY <2>1, <2>3 DEF Over, Busy, AtDir
  <2>6. dirq' \in Seq({Stop})
    BY <1>1, <2>1 DEF Over
  <2>7. Over'
    BY <1>1, <1>2, <2>1, <2>5, <2>6 DEF Over
  <2>. QED BY <2>4, <2>7 DEF IInv
<1>4. CASE Head(dirq) # Stop
  <2>1. Going /\ Head(dirq) \in Paths
    BY <1>1, <1>4 DEF IInv, Going, Over
  <2>2. \E left \in SUBSET Paths :
           walker' = [walker EXCEPT ![w] =
              [walker[w] EXCEPT !.at = "reading", !.dir = Head(dirq), !.left = left]]
    <3>1. walker[w].left \in SUBSET Paths /\ Children(Head(dirq)) \in SUBSET Paths
      BY <1>2 DEF Threads, Children
    <3>2. [walker[w] EXCEPT !.at = "reading", !.dir = Head(dirq)]
          = [walker[w] EXCEPT !.at = "reading", !.dir = Head(dirq), !.left = walker[w].left]
      BY <1>2 DEF Threads
    <3>3. \/ walker' = [walker EXCEPT ![w] =
                [walker[w] EXCEPT !.at = "reading", !.dir = Head(dirq)]]
          \/ walker' = [walker EXCEPT ![w] =
                [walker[w] EXCEPT !.at = "reading", !.dir = Head(dirq),
                                  !.left = Children(Head(dirq))]]
      BY <1>4 DEF TakeDir
    <3>. QED BY <3>1, <3>2, <3>3
  <2>3. PICK left \in SUBSET Paths :
           walker' = [walker EXCEPT ![w] =
              [walker[w] EXCEPT !.at = "reading", !.dir = Head(dirq), !.left = left]]
    BY <2>2
  <2>4. walker'[w].at = "reading" /\ \A v \in Walkers \ {w} : walker'[v] = walker[v]
    BY <1>2, <2>3 DEF Threads
  <2>5. walker' \in [Walkers -> [at : AtDir \cup {"unborn", "idle", "gone"},
                                 dir : Paths \cup {None}, left : SUBSET Paths,
                                 entry : Paths \cup {None}]]
    BY <1>2, <2>1, <2>3 DEF Threads, AtDir
  <2>6. Threads'
    BY <1>1, <1>2, <2>4, <2>5 DEF Threads, Paths, Seeding
  <2>7. Busy' = Busy \cup {w} /\ w \notin Busy
    BY <1>1, <2>4 DEF Busy, AtDir
  <2>8. Cardinality(Busy') = Cardinality(Busy) + 1 /\ Cardinality(Busy) \in Nat
    BY <2>7, BusyCount, FS_AddElement
  <2>9. /\ dirq \in Seq(Paths) /\ dirq' \in Seq(Paths) /\ Len(dirq) \in Nat
        /\ Len(dirq') = Len(dirq) - 1
    BY <1>1, <2>1 DEF Going
  <2>10. Token = 0 /\ Token' = 0
    BY <1>1, <1>2 DEF Token, Seeding
  <2>11. pending' = Len(dirq') + Cardinality(Busy') + Token'
    BY <1>1, <2>1, <2>8, <2>9, <2>10 DEF Going
  <2>12. \A v \in Walkers : walker'[v].at # "gone"
    BY <2>1, <2>4 DEF Going
  <2>13. Going'
    BY <1>1, <1>2, <2>1, <2>9, <2>11, <2>12 DEF Going
  <2>. QED BY <2>6, <2>13 DEF IInv
<1>. QED BY <1>3, <1>4

-----------------------------------------------------------------------------
(* The consumer, the joins and the workers. *)

LEMMA ConsumeMain ==
    ASSUME Threads, Consume
    PROVE  /\ main' = [at |-> main'.at, ret |-> main'.ret]
           /\ main'.at = IF Head(fileq) = Stop THEN "joining" ELSE "walking"
<1>1. main.at = "walking" /\ main = [at |-> main.at, ret |-> main.ret]
  BY DEF Threads, Consume
<1>2. \/ Head(fileq) = Stop /\ main' = [main EXCEPT !.at = "joining"]
      \/ Head(fileq) # Stop /\ (main' = main \/ main' = [main EXCEPT !.ret = 1])
  <2>1. CASE Head(fileq) = Stop
    BY <2>1 DEF Consume
  <2>2. ASSUME AskFile(Head(fileq)) \/ Proceed(Head(fileq))
        PROVE  main' = main \/ main' = [main EXCEPT !.ret = 1]
    BY <2>2 DEF AskFile, Proceed, NotAsked, NoAnswer, Refuse
  <2>3. CASE Head(fileq) # Stop
    BY <2>2, <2>3 DEF Consume
  <2>. QED BY <2>1, <2>3
<1>. QED BY <1>1, <1>2

LEMMA ConsumeKeeps == ASSUME IInv, Consume PROVE IInv'
<1>1. /\ Threads /\ main.at = "walking" /\ fileq # <<>> /\ fileq' = Tail(fileq)
      /\ UNCHANGED <<world, args, dirq, pending, walker>>
  BY DEF IInv, Consume
<1>2. /\ main' = [at |-> main'.at, ret |-> main'.ret]
      /\ main'.at = IF Head(fileq) = Stop THEN "joining" ELSE "walking"
  BY <1>1, ConsumeMain
<1>3. Stop \notin Paths /\ Paths' = Paths /\ ~Seeding /\ ~Seeding'
  BY <1>1, <1>2, StopIsNoPath DEF Paths, Seeding
<1>4. Threads'
  BY <1>1, <1>2, <1>3 DEF Threads
<1>5. Busy' = Busy /\ Token' = Token
  BY <1>1, <1>3 DEF Busy, Token
<1>6. CASE Going
  <2>1. Head(fileq) \in Paths /\ fileq' \in Seq(Paths)
    BY <1>1, <1>6 DEF Going
  <2>2. main'.at = "walking"
    BY <1>2, <1>3, <2>1
  <2>3. Going'
    BY <1>1, <1>3, <1>5, <1>6, <2>1, <2>2 DEF Going
  <2>. QED BY <1>4, <2>3 DEF IInv
<1>7. CASE Over
  <2>1. PICK s \in Seq(Paths) : fileq = Append(s, Stop)
    BY <1>1, <1>7 DEF Over
  <2>2. CASE s = <<>>
    <3>1. Head(fileq) = Stop /\ fileq' = <<>>
      BY <1>1, <2>1, <2>2
    <3>. QED BY <1>1, <1>2, <1>4, <1>5, <1>7, <3>1 DEF IInv, Over
  <2>3. CASE s # <<>>
    <3>1. Head(fileq) \in Paths /\ Tail(s) \in Seq(Paths) /\ fileq' = Append(Tail(s), Stop)
      BY <1>1, <2>1, <2>3
    <3>2. main'.at = "walking"
      BY <1>2, <1>3, <3>1
    <3>3. Over'
      BY <1>1, <1>3, <1>5, <1>7, <3>1, <3>2 DEF Over
    <3>. QED BY <1>4, <3>3 DEF IInv
  <2>. QED BY <2>2, <2>3
<1>. QED BY <1>6, <1>7 DEF IInv

LEMMA JoinsKeep == ASSUME IInv, JoinWalkers \/ JoinWorkers PROVE IInv'
<1>1. /\ Threads /\ main.at \in {"joining", "draining"}
      /\ UNCHANGED <<world, args, dirq, fileq, pending, walker>>
  BY DEF IInv, JoinWalkers, JoinWorkers, seedVars, walkVars
<1>2. main'.at \in {"draining", "done"} /\ main' = [at |-> main'.at, ret |-> main'.ret]
  BY DEF JoinWalkers, JoinWorkers
<1>3. ~Seeding /\ ~Seeding' /\ Paths' = Paths
  BY <1>1, <1>2 DEF Seeding, Paths
<1>4. Threads'
  BY <1>1, <1>2, <1>3 DEF Threads
<1>5. Over /\ Busy' = Busy
  BY <1>1 DEF IInv, Going, Busy
<1>6. Over'
  BY <1>1, <1>2, <1>3, <1>5 DEF Over
<1>. QED BY <1>4, <1>6 DEF IInv

LEMMA WorkerStepKeeps == ASSUME IInv, NEW w \in Workers, WorkerStep(w) PROVE IInv'
BY OthersKeep DEF WorkerStep, seedVars, walkVars

LEMMA SignalKeeps == ASSUME IInv, Signal PROVE IInv'
BY OthersKeep DEF Signal, seedVars, walkVars

-----------------------------------------------------------------------------
(* The theorem. *)

LEMMA NextKeeps == IInv /\ [Next]_vars => IInv'
<1>. SUFFICES ASSUME IInv, [Next]_vars PROVE IInv'
  OBVIOUS
<1>1. CASE MainStep
  BY <1>1, SeedRootKeeps, LoadCheckpointsKeeps, SeedFileKeeps, StartWalkKeeps,
     ConsumeKeeps, JoinsKeep DEF MainStep
<1>2. ASSUME NEW w \in Walkers, WalkerStep(w) PROVE IInv'
  BY <1>2, TakeDirKeeps, ReadEntryKeeps, RoAnsweredKeeps, DevProbedKeeps, EndDirKeeps
     DEF WalkerStep
<1>3. ASSUME NEW w \in Workers, WorkerStep(w) PROVE IInv'
  BY <1>3, WorkerStepKeeps
<1>4. CASE Signal
  BY <1>4, SignalKeeps
<1>5. CASE UNCHANGED vars
  BY <1>5, OthersKeep DEF vars, seedVars, walkVars
<1>. QED BY <1>1, <1>2, <1>3, <1>4, <1>5 DEF Next

LEMMA InvariantHolds == Spec => []IInv
<1>1. Init => IInv
  BY Initially
<1>2. IInv /\ [Next]_vars => IInv'
  BY NextKeeps
<1>. QED BY <1>1, <1>2, PTL DEF Spec

LEMMA InvariantStops == IInv => StopIsLast
<1>. SUFFICES ASSUME IInv, Stop \in Range(fileq) \/ main.at \in {"joining", "draining", "done"}
              PROVE  /\ \A i \in DOMAIN fileq : fileq[i] = Stop => i = Len(fileq)
                     /\ Range(dirq) \subseteq {Stop}
                     /\ \A w \in Walkers : walker[w].at \in {"idle", "gone"}
  BY DEF StopIsLast
<1>1. Threads /\ Stop \notin Paths
  BY StopIsNoPath DEF IInv
<1>2. Over
  <2>1. ASSUME Going PROVE Stop \notin Range(fileq) /\ main.at \notin {"joining", "draining", "done"}
    BY <1>1, <2>1 DEF Going, Range
  <2>. QED BY <2>1 DEF IInv
<1>3. \A i \in DOMAIN fileq : fileq[i] = Stop => i = Len(fileq)
  <2>1. CASE main.at = "walking"
    <3>1. PICK s \in Seq(Paths) : fileq = Append(s, Stop)
      BY <1>2, <2>1 DEF Over
    <3>2. \A i \in 1 .. Len(s) : fileq[i] \in Paths
      BY <3>1
    <3>. QED BY <1>1, <3>1, <3>2
  <2>2. CASE main.at # "walking"
    BY <1>2, <2>2 DEF Over
  <2>. QED BY <2>1, <2>2
<1>4. Range(dirq) \subseteq {Stop}
  BY <1>2 DEF Over, Range
<1>5. \A w \in Walkers : walker[w].at \in {"idle", "gone"}
  <2>1. ~Seeding
    BY <1>2 DEF Over, Seeding
  <2>2. \A w \in Walkers : walker[w].at \notin AtDir
    BY <1>2 DEF Over, Busy
  <2>. QED BY <1>1, <2>1, <2>2 DEF Threads
<1>. QED BY <1>3, <1>4, <1>5

\* The counter of directories is what it should be: once the consumer has been
\* told to stop, by whichever walker took walk_dir_pending to zero, nothing is
\* queued behind and no directory is in a walker's hands, wherever calls
\* failed or a signal came in between (dirq_finished(), walk_thread()).
THEOREM WalkStopIsLast == Spec => []StopIsLast
<1>1. IInv => StopIsLast
  BY InvariantStops
<1>. QED BY <1>1, InvariantHolds, PTL

-----------------------------------------------------------------------------
(* The count of skipped subvolumes. *)

\* A device is counted only with the insert of its answer.
Counts ==
    /\ roCount \in [DOMAIN roCount -> {0, 1}]
    /\ \A d \in DOMAIN roCount \ roSubvols : roCount[d] = 0

LEMMA SameCounts ==
    ASSUME Counts, roCount' = roCount, roSubvols \subseteq roSubvols'
    PROVE  Counts'
BY DEF Counts

LEMMA RoInsertCounts == ASSUME Counts, NEW d, NEW failed, RoInsert(d, failed) PROVE Counts'
<1>1. roSubvols' = roSubvols \cup {d}
  BY DEF RoInsert
<1>2. CASE roCount' = roCount
  BY <1>1, <1>2, SameCounts
<1>3. CASE d \notin roSubvols /\ roCount' = [roCount EXCEPT ![d] = @ + 1]
  <2>1. DOMAIN roCount' = DOMAIN roCount
    BY <1>3
  <2>2. ASSUME NEW e \in DOMAIN roCount
        PROVE  roCount'[e] \in {0, 1} /\ (e \notin roSubvols' => roCount'[e] = 0)
    <3>1. CASE e = d
      BY <1>1, <1>3, <3>1 DEF Counts
    <3>2. CASE e # d
      BY <1>1, <1>3, <3>2 DEF Counts
    <3>. QED BY <3>1, <3>2
  <2>3. roCount' = [e \in DOMAIN roCount' |-> roCount'[e]]
    BY <1>3
  <2>. QED BY <2>1, <2>2, <2>3 DEF Counts
<1>. QED BY <1>2, <1>3 DEF RoInsert

LEMMA SeedFileCounts == ASSUME Counts, SeedFile PROVE Counts'
<1>1. CASE UNCHANGED devVars
  BY <1>1, SameCounts DEF devVars, roVars
<1>2. CASE ~ UNCHANGED devVars
  <2>0. PICK lost, shut : SeedCaches(Head(args), lost, shut)
    BY <1>2 DEF SeedFile
  <2>. DEFINE devs == {Node(q).dev : q \in Asked(Head(args), lost, shut) \ shut}
              news == {d \in devs \ (roSubvols \cup lost) : AsksRo /\ world.fs[d].ro}
  <2>1. /\ roSubvols' = IF AsksRo THEN roSubvols \cup devs ELSE roSubvols
        /\ roCount' = [d \in DOMAIN roCount |-> roCount[d] + IF d \in news THEN 1 ELSE 0]
    BY <2>0 DEF SeedCaches
  <2>2. \A d \in news : d \notin roSubvols /\ d \in roSubvols'
    BY <2>1
  <2>3. roSubvols \subseteq roSubvols'
    BY <2>1
  <2>. HIDE DEF news
  <2>4. ASSUME NEW d \in DOMAIN roCount
        PROVE  roCount'[d] \in {0, 1} /\ (d \notin roSubvols' => roCount'[d] = 0)
    <3>1. CASE d \in news
      <4>1. roCount[d] = 0 /\ roCount'[d] = roCount[d] + 1 /\ d \in roSubvols'
        BY <2>1, <2>2, <3>1 DEF Counts
      <4>. QED BY <4>1
    <3>2. CASE d \notin news
      <4>1. roCount'[d] = roCount[d] + 0 /\ roCount[d] \in {0, 1}
        BY <2>1, <3>2 DEF Counts
      <4>2. roCount'[d] = roCount[d]
        BY <4>1
      <4>. QED BY <2>3, <4>1, <4>2 DEF Counts
    <3>. QED BY <3>1, <3>2
  <2>. QED BY <2>1, <2>4 DEF Counts
<1>. QED BY <1>1, <1>2

LEMMA NextCounts == Counts /\ [Next]_vars => Counts'
<1>. SUFFICES ASSUME Counts, [Next]_vars PROVE Counts'
  OBVIOUS
<1>1. CASE SeedRoot
  <2>1. \/ \E failed : RoInsert(Node(Head(args)).dev, failed)
        \/ roCount' = roCount /\ roSubvols \subseteq roSubvols'
    BY <1>1 DEF SeedRoot, RoUnopened, roVars
  <2>. QED BY <2>1, RoInsertCounts, SameCounts
<1>2. CASE SeedFile
  BY <1>2, SeedFileCounts
<1>3. CASE LoadCheckpoints \/ StartWalk \/ Consume \/ JoinWalkers \/ JoinWorkers \/ Signal
  BY <1>3, SameCounts DEF LoadCheckpoints, StartWalk, Consume, JoinWalkers, JoinWorkers, Signal, devVars,
     roVars
<1>4. ASSUME NEW w \in Walkers, WalkerStep(w) PROVE Counts'
  <2>1. RoAnswered(w) \/ UNCHANGED <<roSubvols, roCount>>
    BY <1>4 DEF WalkerStep, TakeDir, ReadEntry, DevProbed, EndDir, devVars, roVars
  <2>2. RoAnswered(w) => Counts'
    BY RoInsertCounts, SameCounts DEF RoAnswered, RoUnopened
  <2>. QED BY <2>1, <2>2, SameCounts
<1>5. ASSUME NEW w \in Workers, WorkerStep(w) PROVE Counts'
  BY <1>5, SameCounts DEF WorkerStep, devVars, roVars
<1>6. CASE UNCHANGED vars
  BY <1>6, SameCounts DEF vars, devVars, roVars
<1>. QED BY <1>1, <1>2, <1>3, <1>4, <1>5, <1>6 DEF Next, MainStep

\* Whatever walkers ask about the same subvolume at once, it is counted once:
\* the count goes with the insert under the lock, which finds the answer of the
\* one that was first (ro_subvol_lookup()).
THEOREM SubvolumesCountedOnce == Spec => []CountedOnce
<1>1. Init => Counts
  BY DEF Init, Counts
<1>2. Counts /\ [Next]_vars => Counts'
  BY NextCounts
<1>3. Counts => CountedOnce
  BY DEF Counts, CountedOnce
<1>. QED BY <1>1, <1>2, <1>3, PTL DEF Spec

-----------------------------------------------------------------------------
(* What the exit status says of the filesystem. *)

\* A root that was taken has settled whether the filesystem is known to
\* support FIDEDUPERANGE, or is still to be asked; one that does not ends the
\* run in an error.
Honest ==
    /\ main = [at |-> main.at, ret |-> main.ret]
    /\ halt = [signal |-> halt.signal, abort |-> halt.abort, lost |-> halt.lost]
    /\ roots = [paths |-> roots.paths, seeded |-> roots.seeded,
                unusable |-> roots.unusable, failed |-> roots.failed]
    /\ locked = [uuid |-> locked.uuid, dev |-> locked.dev, btrfs |-> locked.btrfs,
                 dedupe |-> locked.dedupe, tries |-> locked.tries, unasked |-> locked.unasked]
    /\ locked.dedupe \in {"YES", "NO", "UNKNOWN"} /\ roots.seeded \in Nat
    /\ main.at = "seeding" /\ locked.dev # None => locked.dedupe # "NO"
    /\ locked.dedupe = "NO" /\ roots.seeded # 0 => main.ret # 0
    /\ main.at \in {"draining", "done"} /\ main.ret = 0 /\ ~halt.signal =>
           locked.dedupe = "YES" \/ (roots.seeded = 0 /\ ~roots.failed)

LEMMA HonestKept ==
    ASSUME Honest, UNCHANGED <<main, roots, locked>>,
           halt' = halt \/ halt' = [halt EXCEPT !.lost = TRUE] \/ halt' = [halt EXCEPT !.signal = TRUE]
    PROVE  Honest'
BY DEF Honest

LEMMA TakenHonest ==
    ASSUME Honest, main' = main, halt' = halt, main.at = "seeding", NEW p,
           RootLocks(p) \/ (RootAccepted(p) /\ locked.dev # None)
    PROVE  Honest'
<1>1. /\ roots' = [roots EXCEPT !.paths = Append(@, p), !.seeded = @ + 1]
      /\ locked'.dedupe \in {"YES", "UNKNOWN"}
      /\ locked' = [uuid |-> locked'.uuid, dev |-> locked'.dev, btrfs |-> locked'.btrfs,
                    dedupe |-> locked'.dedupe, tries |-> locked'.tries, unasked |-> locked'.unasked]
  <2>1. CASE RootLocks(p)
    BY <2>1 DEF RootLocks, RootTaken, Honest
  <2>2. CASE RootAccepted(p) /\ locked.dev # None
    BY <2>2 DEF RootAccepted, RootTaken, Honest
  <2>. QED BY <2>1, <2>2
<1>2. /\ roots' = [paths |-> Append(roots.paths, p), seeded |-> roots.seeded + 1,
                   unusable |-> roots.unusable, failed |-> roots.failed]
      /\ roots.seeded \in Nat
  BY <1>1 DEF Honest
<1>3. roots' = [paths |-> roots'.paths, seeded |-> roots'.seeded,
                unusable |-> roots'.unusable, failed |-> roots'.failed]
      /\ roots'.seeded \in Nat
  BY <1>2
<1>4. main'.at = "seeding"
  OBVIOUS
<1>. QED BY <1>1, <1>3, <1>4 DEF Honest

LEMMA SeedRootHonest == ASSUME Honest, SeedRoot PROVE Honest'
<1>1. main' = main /\ halt' = halt /\ main.at = "seeding"
  BY DEF SeedRoot
<1>. DEFINE p == Head(args)
<1>2. CASE RootLocks(p) \/ (RootVerdict(p) = "accept" /\ RootAccepted(p))
  <2>1. RootVerdict(p) = "accept" => locked.dev # None
    BY DEF RootVerdict
  <2>. QED BY <1>1, <1>2, <2>1, TakenHonest
<1>3. CASE RootUnusable \/ RootFails \/ RootWrong \/ UNCHANGED <<roots, locked>>
  BY <1>1, <1>3 DEF RootUnusable, RootFails, RootWrong, Honest
<1>. QED BY <1>2, <1>3 DEF SeedRoot, RootSkipped, RootJudged, RootUnprobed

LEMMA ConsumeHonest == ASSUME Honest, Consume PROVE Honest'
<1>1. roots' = roots /\ main.at = "walking"
  BY DEF Consume
<1>2. \/ main' = [main EXCEPT !.at = "joining"]
      \/ main' = main
      \/ main' = [main EXCEPT !.ret = 1]
  <2>1. ASSUME AskFile(Head(fileq)) \/ Proceed(Head(fileq))
        PROVE  main' = main \/ main' = [main EXCEPT !.ret = 1]
    BY <2>1 DEF AskFile, Proceed, NotAsked, NoAnswer, Refuse
  <2>. QED BY <2>1 DEF Consume
<1>3. \/ halt' = halt \/ halt' = [halt EXCEPT !.abort = TRUE]
      \/ halt' = [halt EXCEPT !.lost = TRUE]
  <2>1. ASSUME AskFile(Head(fileq)) \/ Proceed(Head(fileq))
        PROVE  halt' = halt \/ halt' = [halt EXCEPT !.abort = TRUE]
    BY <2>1 DEF AskFile, Proceed, NotAsked, NoAnswer, Refuse
  <2>. QED BY <2>1 DEF Consume
<1>4. \/ locked' = locked
      \/ locked' = [locked EXCEPT !.unasked = @ + 1]
      \/ locked' = [locked EXCEPT !.tries = @ + 1]
      \/ locked' = [locked EXCEPT !.dedupe = "YES"]
      \/ locked' = [locked EXCEPT !.dedupe = "NO"] /\ main' = [main EXCEPT !.ret = 1]
  <2>1. ASSUME AskFile(Head(fileq))
        PROVE  \/ locked' = locked
               \/ locked' = [locked EXCEPT !.unasked = @ + 1]
               \/ locked' = [locked EXCEPT !.tries = @ + 1]
               \/ locked' = [locked EXCEPT !.dedupe = "YES"]
               \/ locked' = [locked EXCEPT !.dedupe = "NO"] /\ main' = [main EXCEPT !.ret = 1]
    BY <2>1 DEF AskFile, NotAsked, NoAnswer, Refuse
  <2>. QED BY <2>1 DEF Consume
<1>. QED BY <1>1, <1>2, <1>3, <1>4 DEF Honest

LEMMA NextHonest == Honest /\ [Next]_vars => Honest'
<1>. SUFFICES ASSUME Honest, [Next]_vars PROVE Honest'
  OBVIOUS
<1>1. CASE SeedRoot \/ Consume
  BY <1>1, SeedRootHonest, ConsumeHonest
<1>2. CASE LoadCheckpoints \/ StartWalk
  BY <1>2 DEF LoadCheckpoints, StartWalk, Honest, seedVars
<1>3. CASE JoinWalkers
  <2>1. /\ main' = [at |-> "draining",
                    ret |-> IF main.ret # 0 \/ halt.lost \/ SeedFailed \/ FsUnusable THEN 1 ELSE 0]
        /\ UNCHANGED <<roots, locked, halt>>
    BY <1>3 DEF JoinWalkers, seedVars
  <2>. QED BY <2>1 DEF Honest, SeedFailed, FsUnusable
<1>4. CASE JoinWorkers
  BY <1>4 DEF JoinWorkers, Honest, seedVars
<1>5. CASE \/ SeedFile \/ Signal \/ UNCHANGED vars
           \/ (\E w \in Walkers : WalkerStep(w)) \/ (\E w \in Workers : WorkerStep(w))
  <2>1. UNCHANGED <<main, roots, locked>>
    BY <1>5 DEF SeedFile, Signal, vars, WalkerStep, TakeDir, ReadEntry, RoAnswered, DevProbed,
       EndDir, MainOnly, seedVars, WorkerStep
  <2>2. halt' = halt \/ halt' = [halt EXCEPT !.lost = TRUE] \/ halt' = [halt EXCEPT !.signal = TRUE]
    BY <1>5 DEF SeedFile, Signal, vars, WalkerStep, TakeDir, ReadEntry, RoAnswered, DevProbed,
       EndDir, WorkerStep, Take, Starve, Hash
  <2>. QED BY <2>1, <2>2, HonestKept
<1>. QED BY <1>1, <1>2, <1>3, <1>4, <1>5 DEF Next, MainStep

\* Success is not reported for a filesystem that was never seen to support
\* FIDEDUPERANGE (filescan_seed_failed(), filescan_report_fs_unusable()).
THEOREM ExitIsHonest == Spec => []HonestExit
<1>1. Init => Honest
  BY DEF Init, Honest
<1>2. Honest => HonestExit
  BY DEF Honest, HonestExit
<1>. QED BY <1>1, <1>2, NextHonest, PTL DEF Spec

-----------------------------------------------------------------------------
(* Where a file is between the consumer and the worker that hashes it. *)

Ino(p) == Node(p).ino
Inodes == {Ino(p) : p \in Paths}
Slots(b) == 1 .. Len(workq[b])

\* An inode taken is in one place of the queue, in one worker's hands, or has
\* been hashed; nothing is in two places.
Unhashed(p) == Ino(p) \in seen /\ hashed[Ino(p)] = 0
Once ==
    /\ workq \in [Buckets -> Seq(Paths)]
    /\ worker \in [Workers -> Paths \cup {"idle", "asleep", "gone"}]
    /\ hashed \in [Inodes -> {0, 1}]
    /\ \A i \in Inodes : hashed[i] = 1 => i \in seen
    /\ \A b \in Buckets : \A k \in Slots(b) : Unhashed(workq[b][k])
    /\ \A w \in Workers : worker[w] \in Paths => Unhashed(worker[w])
    /\ \A b, c \in Buckets : \A k \in Slots(b), l \in Slots(c) :
          Ino(workq[b][k]) = Ino(workq[c][l]) => b = c /\ k = l
    /\ \A v, w \in Workers :
          worker[v] \in Paths /\ worker[w] \in Paths /\ Ino(worker[v]) = Ino(worker[w]) => v = w
    /\ \A b \in Buckets : \A k \in Slots(b) : \A w \in Workers :
          worker[w] \in Paths => Ino(workq[b][k]) # Ino(worker[w])

\* And while nothing fails, none gets lost on the way from the file queue.
InQueue(i) == \E b \in Buckets : \E k \in Slots(b) : Ino(workq[b][k]) = i
InHand(i) == \E w \in Workers : worker[w] \in Paths /\ Ino(worker[w]) = i
Handled(p) == Node(p).host = "gone" \/ Node(p).fresh \/ Ino(p) \in seen
Kept ==
    /\ faults \in Nat
    /\ faults = 0 => ~halt.signal /\ ~halt.lost
    /\ draining <=> main.at \in {"draining", "done"}
    /\ (\E w \in Workers : worker[w] = "gone") => draining /\ Occupied = {}
    /\ main.at = "done" => \A w \in Workers : worker[w] = "gone"
    /\ faults = 0 => \A i \in seen : i \in Inodes /\ (hashed[i] = 1 \/ InQueue(i) \/ InHand(i))
    /\ listed \subseteq Paths
    /\ faults = 0 /\ main.ret = 0 => \A p \in listed : p \in Range(fileq) \/ Handled(p)

LEMMA SizeIn == ASSUME Threads, NEW p \in Paths PROVE Node(p).size \in Sizes
<1>1. world \in Worlds /\ p \in DOMAIN world.node
  BY DEF Threads, Paths
<1>2. Node(p).size \in {world.node[q].size : q \in DOMAIN world.node}
  BY <1>1 DEF Node
<1>. QED BY <1>1, <1>2 DEF Sizes

LEMMA BucketIn == ASSUME Threads, NEW p \in Paths PROVE Bucket(p) \in Buckets
<1>1. world \in Worlds /\ world.resumed \in Seq(Paths)
  BY WorldsOK DEF Threads, Paths
<1>2. Node(p).size \in Sizes
  BY SizeIn
<1>3. Sizes \subseteq Nat /\ Max(Sizes) \in Sizes /\ \A s \in Sizes : s <= Max(Sizes)
  BY <1>2, SizesOK DEF Max
<1>4. Node(p).size \in Nat /\ Max(Sizes) \in Nat /\ Node(p).size <= Max(Sizes)
  BY <1>2, <1>3
<1>5. p \in Range(world.resumed) => Node(p).size > 0
  BY <1>1, WorldsOK DEF Node, Paths
<1>6. Bucket(p) \in Nat /\ Bucket(p) <= Max(Sizes)
  BY <1>4, <1>5 DEF Bucket
<1>. QED BY <1>4, <1>6 DEF Buckets

LEMMA FullestIn == ASSUME Threads, Once, Occupied # {} PROVE Max(Occupied) \in Occupied
<1>1. PICK b \in Buckets : workq[b] # <<>>
  BY DEF Occupied
<1>2. workq[b][1] \in Paths
  <2>1. workq[b] \in Seq(Paths) /\ Len(workq[b]) # 0
    BY <1>1 DEF Once, Occupied
  <2>. QED BY <2>1
<1>3. Sizes # {}
  BY <1>2, SizeIn
<1>4. Max(Sizes) \in Nat
  BY <1>3, SizesOK DEF Max
<1>5. Occupied \in SUBSET (0 .. Max(Sizes))
  BY DEF Occupied, Buckets
<1>. QED BY <1>4, <1>5, MaxIn

\* The consumer takes one file from the queue and gives it to the workers.
LEMMA PushOnce ==
    ASSUME Threads, Once, NEW p \in Paths, Ino(p) \notin seen,
           seen' = seen \cup {Ino(p)}, WorkqPush(p), UNCHANGED <<world, hashed>>
    PROVE  /\ Once'
           /\ \A i : InQueue(i) \/ i = Ino(p) => InQueue(i)'
           /\ \A i : InHand(i) => InHand(i)'
           /\ \A w \in Workers : worker'[w] = "gone" => worker[w] = "gone"
<1>1. PICK B \in Buckets : B = Bucket(p)
  BY BucketIn
<1>2. /\ Paths' = Paths /\ Inodes' = Inodes
      /\ \A q : Ino(q)' = Ino(q)
  BY DEF Paths, Inodes, Ino, Node
<1>3. {"idle", "asleep", "gone"} \cap Paths = {}
  BY WorldsOK DEF Threads, Paths
<1>4. /\ worker' \in [Workers -> Paths \cup {"idle", "asleep", "gone"}]
      /\ \A w \in Workers : worker'[w] # worker[w] => worker[w] = "asleep" /\ worker'[w] = "idle"
  BY DEF WorkqPush, Wake, Asleep, Once
<1>5. \A w \in Workers : worker'[w] \in Paths <=> worker[w] \in Paths
  BY <1>3, <1>4
<1>6. \A w \in Workers : worker'[w] \in Paths => worker'[w] = worker[w]
  BY <1>3, <1>4
<1>7. /\ workq' \in [Buckets -> Seq(Paths)]
      /\ workq'[B] = Append(workq[B], p)
      /\ \A b \in Buckets \ {B} : workq'[b] = workq[b]
  BY <1>1 DEF WorkqPush, Once
<1>0. PICK n : n = Len(workq[B]) + 1
  OBVIOUS
<1>8. /\ n \in Nat /\ n \in Slots(B)' /\ workq'[B][n] = p
      /\ \A b \in Buckets : \A k \in Slots(b)' :
            (b = B /\ k = n) \/ (k \in Slots(b) /\ workq'[b][k] = workq[b][k])
      /\ \A b \in Buckets : \A k \in Slots(b) :
            k \in Slots(b)' /\ workq'[b][k] = workq[b][k]
  <2>1. workq[B] \in Seq(Paths)
    BY <1>1 DEF Once
  <2>2. n \in Nat /\ n \in Slots(B)' /\ workq'[B][n] = p
    BY <1>0, <1>7, <2>1 DEF Slots
  <2>3. /\ \A k \in Slots(B)' : k = n \/ (k \in Slots(B) /\ workq'[B][k] = workq[B][k])
        /\ \A k \in Slots(B) : k \in Slots(B)' /\ workq'[B][k] = workq[B][k]
    BY <1>0, <1>7, <2>1 DEF Slots
  <2>4. \A b \in Buckets \ {B} : Slots(b)' = Slots(b) /\ workq'[b] = workq[b]
    BY <1>7 DEF Slots
  <2>. QED BY <2>2, <2>3, <2>4
<1>9. hashed[Ino(p)] = 0 /\ Ino(p) \in Inodes
  BY DEF Once, Inodes
<1>10. \A b \in Buckets : \A k \in Slots(b) : Ino(workq[b][k]) # Ino(p)
  BY DEF Once, Unhashed
<1>11. \A w \in Workers : worker[w] \in Paths => Ino(worker[w]) # Ino(p)
  BY DEF Once, Unhashed
<1>12. \A b \in Buckets : \A k \in Slots(b)' : Unhashed(workq[b][k])'
  BY <1>2, <1>8, <1>9 DEF Once, Unhashed
<1>13. \A w \in Workers : worker'[w] \in Paths' => Unhashed(worker[w])'
  BY <1>2, <1>6 DEF Once, Unhashed
<1>14. \A b, c \in Buckets : \A k \in Slots(b)', l \in Slots(c)' :
          Ino(workq'[b][k]) = Ino(workq'[c][l]) => b = c /\ k = l
  BY <1>8, <1>10 DEF Once
<1>15. \A v, w \in Workers :
          worker'[v] \in Paths /\ worker'[w] \in Paths /\ Ino(worker'[v]) = Ino(worker'[w]) => v = w
  BY <1>6 DEF Once
<1>16. \A b \in Buckets : \A k \in Slots(b)' : \A w \in Workers :
          worker'[w] \in Paths => Ino(workq'[b][k]) # Ino(worker'[w])
  BY <1>6, <1>8, <1>11 DEF Once
<1>17. \A i \in Inodes : hashed[i] = 1 => i \in seen'
  BY DEF Once
<1>18. Once'
  BY <1>2, <1>4, <1>7, <1>12, <1>13, <1>14, <1>15, <1>16, <1>17 DEF Once
<1>19. ASSUME NEW i, i = Ino(p) PROVE InQueue(i)'
  BY <1>1, <1>2, <1>8, <1>19 DEF InQueue
<1>20. ASSUME NEW i, InQueue(i) PROVE InQueue(i)'
  BY <1>2, <1>8, <1>20 DEF InQueue
<1>21. ASSUME NEW i, InHand(i) PROVE InHand(i)'
  BY <1>2, <1>5, <1>6, <1>21 DEF InHand
<1>22. \A w \in Workers : worker'[w] = "gone" => worker[w] = "gone"
  BY <1>4
<1>. QED BY <1>18, <1>19, <1>20, <1>21, <1>22

\* Steps that leave the queue alone and give no worker a file.
LEMMA HandsOnce ==
    ASSUME Once, UNCHANGED <<world, workq, hashed, seen>>,
           worker' \in [Workers -> Paths \cup {"idle", "asleep", "gone"}],
           \A w \in Workers : worker'[w] \in Paths => worker'[w] = worker[w]
    PROVE  Once'
<1>1. Paths' = Paths /\ Inodes' = Inodes /\ \A q : Ino(q)' = Ino(q)
  BY DEF Paths, Inodes, Ino, Node
<1>2. \A b : Slots(b)' = Slots(b)
  BY DEF Slots
<1>3. \A p : Unhashed(p)' <=> Unhashed(p)
  BY <1>1 DEF Unhashed
<1>4. \A w \in Workers : worker'[w] \in Paths => Unhashed(worker'[w])
  BY DEF Once
<1>5. \A v, w \in Workers :
         worker'[v] \in Paths /\ worker'[w] \in Paths /\ Ino(worker'[v]) = Ino(worker'[w]) => v = w
  BY DEF Once
<1>6. \A b \in Buckets : \A k \in Slots(b) : \A w \in Workers :
         worker'[w] \in Paths => Ino(workq[b][k]) # Ino(worker'[w])
  BY DEF Once
<1>7. \A b \in Buckets : \A k \in Slots(b)' : Unhashed(workq[b][k])'
  BY <1>2, <1>3 DEF Once
<1>8. \A w \in Workers : worker'[w] \in Paths' => Unhashed(worker[w])'
  BY <1>1, <1>3, <1>4
<1>9. \A b, c \in Buckets : \A k \in Slots(b), l \in Slots(c) :
         Ino(workq[b][k]) = Ino(workq[c][l]) => b = c /\ k = l
  BY DEF Once
<1>. QED BY <1>1, <1>2, <1>5, <1>6, <1>7, <1>8, <1>9 DEF Once

\* A worker takes the first of a class, or drops it when the run is stopped.
LEMMA TakeOnce ==
    ASSUME Threads, Once, NEW w \in Workers, Take(w), UNCHANGED <<world, seen>>
    PROVE  /\ Once'
           /\ ~halt.signal /\ ~halt.lost =>
                 \A i : InQueue(i) \/ InHand(i) => InQueue(i)' \/ InHand(i)'
           /\ \A v \in Workers : worker'[v] = "gone" => worker[v] = "gone"
<1>1. PICK B \in Buckets : B = Max(Occupied) /\ workq[B] # <<>>
  BY FullestIn DEF Take, Occupied
<1>2. PICK q : q = Head(workq[B])
  OBVIOUS
<1>3. /\ worker[w] = "idle" /\ workq' = [workq EXCEPT ![B] = Tail(@)] /\ hashed' = hashed
      /\ IF halt.signal \/ halt.lost THEN worker' = worker ELSE worker' = [worker EXCEPT ![w] = q]
  BY <1>1, <1>2 DEF Take
<1>4. /\ Paths' = Paths /\ Inodes' = Inodes /\ (\A p : Ino(p)' = Ino(p))
      /\ \A p : Unhashed(p)' <=> Unhashed(p)
  BY <1>3 DEF Paths, Inodes, Ino, Node, Unhashed
<1>5. {"idle", "asleep", "gone"} \cap Paths = {}
  BY WorldsOK DEF Threads, Paths
<1>6. workq[B] \in Seq(Paths) /\ q \in Paths /\ q = workq[B][1] /\ 1 \in Slots(B)
  BY <1>1, <1>2 DEF Once, Slots
<1>7. /\ workq' \in [Buckets -> Seq(Paths)] /\ workq'[B] = Tail(workq[B])
      /\ \A b \in Buckets \ {B} : workq'[b] = workq[b]
  BY <1>1, <1>3, <1>6 DEF Once
<1>8. /\ \A k \in Slots(B)' : k \in Nat /\ k + 1 \in Slots(B) /\ workq'[B][k] = workq[B][k + 1]
      /\ \A k \in Slots(B) : k = 1 \/ (k - 1 \in Slots(B)' /\ workq'[B][k - 1] = workq[B][k])
  BY <1>1, <1>6, <1>7 DEF Slots
<1>9. \A b \in Buckets \ {B} : Slots(b)' = Slots(b)
  BY <1>7 DEF Slots
\* What is in the queue afterwards was there before, in a place of its own, and
\* is not what was taken.
<1>10. \A b \in Buckets : \A k \in Slots(b)' :
          \E l \in Slots(b) : /\ workq'[b][k] = workq[b][l]
                              /\ l = IF b = B THEN k + 1 ELSE k
                              /\ b = B => l # 1
  <2>. SUFFICES ASSUME NEW b \in Buckets, NEW k \in Slots(b)'
                PROVE  \E l \in Slots(b) : /\ workq'[b][k] = workq[b][l]
                                           /\ l = IF b = B THEN k + 1 ELSE k
                                           /\ b = B => l # 1
    OBVIOUS
  <2>1. CASE b = B
    <3>1. k \in Nat /\ k # 0 /\ k + 1 \in Slots(B) /\ workq'[B][k] = workq[B][k + 1]
      BY <1>8, <2>1 DEF Slots
    <3>. QED BY <2>1, <3>1
  <2>2. CASE b # B
    BY <1>7, <1>9, <2>2
  <2>. QED BY <2>1, <2>2
<1>11. \A b \in Buckets : \A k \in Slots(b)' : Unhashed(workq'[b][k])
  BY <1>10 DEF Once
<1>12. \A b, c \in Buckets : \A k \in Slots(b)', l \in Slots(c)' :
          Ino(workq'[b][k]) = Ino(workq'[c][l]) => b = c /\ k = l
  <2>. SUFFICES ASSUME NEW b \in Buckets, NEW c \in Buckets,
                       NEW k \in Slots(b)', NEW l \in Slots(c)',
                       Ino(workq'[b][k]) = Ino(workq'[c][l])
                PROVE  b = c /\ k = l
    OBVIOUS
  <2>1. PICK i \in Slots(b) : workq'[b][k] = workq[b][i] /\ i = IF b = B THEN k + 1 ELSE k
    BY <1>10
  <2>2. PICK j \in Slots(c) : workq'[c][l] = workq[c][j] /\ j = IF c = B THEN l + 1 ELSE l
    BY <1>10
  <2>3. b = c /\ i = j
    BY <2>1, <2>2 DEF Once
  <2>4. k \in Int /\ l \in Int
    BY DEF Slots
  <2>. QED BY <2>1, <2>2, <2>3, <2>4
<1>13. \A b \in Buckets : \A k \in Slots(b)' : Ino(workq'[b][k]) # Ino(q)
  BY <1>6, <1>10 DEF Once
<1>14. \A v \in Workers : worker'[v] = worker[v] \/ (v = w /\ worker'[v] = q)
  BY <1>3 DEF Once
<1>15. worker' \in [Workers -> Paths \cup {"idle", "asleep", "gone"}]
  BY <1>3, <1>6 DEF Once
<1>16. \A v \in Workers : worker'[v] \in Paths => Unhashed(worker'[v])
  BY <1>6, <1>14 DEF Once
<1>17. \A v \in Workers : worker[v] \in Paths => Ino(worker[v]) # Ino(q)
  BY <1>6 DEF Once
<1>18. \A u, v \in Workers :
          worker'[u] \in Paths /\ worker'[v] \in Paths /\ Ino(worker'[u]) = Ino(worker'[v]) => u = v
  BY <1>14, <1>17 DEF Once
<1>19. \A b \in Buckets : \A k \in Slots(b)' : \A v \in Workers :
          worker'[v] \in Paths => Ino(workq'[b][k]) # Ino(worker'[v])
  BY <1>10, <1>13, <1>14 DEF Once
<1>20. hashed' = hashed /\ seen' = seen /\ hashed \in [Inodes -> {0, 1}]
       /\ \A i \in Inodes : hashed[i] = 1 => i \in seen
  BY <1>3 DEF Once
<1>21. Once'
  <2>1. \A b \in Buckets : \A k \in Slots(b)' : Unhashed(workq[b][k])'
    BY <1>4, <1>11
  <2>2. \A v \in Workers : worker'[v] \in Paths' => Unhashed(worker[v])'
    BY <1>4, <1>16
  <2>. QED BY <1>4, <1>7, <1>12, <1>15, <1>18, <1>19, <1>20, <2>1, <2>2 DEF Once
<1>22. ASSUME ~halt.signal, ~halt.lost, NEW i, InQueue(i) \/ InHand(i)
       PROVE  InQueue(i)' \/ InHand(i)'
  <2>1. worker'[w] = q /\ \A v \in Workers \ {w} : worker'[v] = worker[v]
    BY <1>3, <1>22 DEF Once
  <2>2. CASE InHand(i)
    BY <1>3, <1>4, <1>5, <2>1, <2>2 DEF InHand
  <2>3. ASSUME NEW b \in Buckets, NEW k \in Slots(b), Ino(workq[b][k]) = i
        PROVE  InQueue(i)' \/ InHand(i)'
    <3>1. CASE b = B /\ k = 1
      BY <1>4, <1>6, <2>1, <2>3, <3>1 DEF InHand
    <3>2. CASE b = B /\ k # 1
      BY <1>4, <1>8, <2>3, <3>2 DEF InQueue
    <3>3. CASE b # B
      BY <1>4, <1>7, <1>9, <2>3, <3>3 DEF InQueue
    <3>. QED BY <3>1, <3>2, <3>3
  <2>. QED BY <1>22, <2>2, <2>3 DEF InQueue
<1>23. \A v \in Workers : worker'[v] = "gone" => worker[v] = "gone"
  BY <1>5, <1>6, <1>14
<1>. QED BY <1>21, <1>22, <1>23

LEMMA HashOnce ==
    ASSUME Threads, Once, NEW w \in Workers, Hash(w), UNCHANGED <<world, seen>>
    PROVE  /\ Once'
           /\ Fault \/ \A i : InHand(i) => InHand(i)' \/ hashed'[i] = 1
           /\ Fault \/ (NoFault /\ halt' = halt)
           /\ \A i \in Inodes : hashed[i] = 1 => hashed'[i] = 1
           /\ \A i : InQueue(i) => InQueue(i)'
           /\ \A v \in Workers : worker'[v] = "gone" => worker[v] = "gone"
<1>1. PICK p \in Paths : p = worker[w]
  BY DEF Hash
<1>2. workq' = workq /\ worker' = [worker EXCEPT ![w] = "idle"]
  BY DEF Hash, Wake
<1>3. Paths' = Paths /\ Inodes' = Inodes /\ (\A q : Ino(q)' = Ino(q)) /\ \A b : Slots(b)' = Slots(b)
  BY <1>2 DEF Paths, Inodes, Ino, Node, Slots
<1>4. {"idle", "asleep", "gone"} \cap Paths = {}
  BY WorldsOK DEF Threads, Paths
<1>5. /\ worker' \in [Workers -> Paths \cup {"idle", "asleep", "gone"}]
      /\ worker'[w] = "idle" /\ \A v \in Workers \ {w} : worker'[v] = worker[v]
  BY <1>2 DEF Once
<1>6. \A v \in Workers : worker'[v] \in Paths =>
         v # w /\ worker'[v] = worker[v] /\ Ino(worker[v]) # Ino(p)
  BY <1>1, <1>4, <1>5 DEF Once
<1>7. \A b \in Buckets : \A k \in Slots(b) : Ino(workq[b][k]) # Ino(p)
  BY <1>1 DEF Once
<1>8. Ino(p) \in seen /\ Ino(p) \in Inodes /\ hashed[Ino(p)] = 0
  BY <1>1 DEF Once, Unhashed, Inodes
<1>9. \/ Fault /\ hashed' = hashed
      \/ NoFault /\ halt' = halt /\ hashed' = [hashed EXCEPT ![Ino(p)] = @ + 1]
  BY <1>1 DEF Hash, Ino
<1>10. /\ hashed' \in [Inodes -> {0, 1}]
       /\ \A i \in Inodes : hashed'[i] = hashed[i] \/ (i = Ino(p) /\ hashed'[i] = 1)
  <2>1. CASE hashed' = hashed
    BY <2>1 DEF Once
  <2>2. CASE hashed' = [hashed EXCEPT ![Ino(p)] = @ + 1]
    <3>1. hashed[Ino(p)] + 1 = 1
      BY <1>8
    <3>. QED BY <1>8, <2>2, <3>1 DEF Once
  <2>. QED BY <1>9, <2>1, <2>2
<1>11. \A q : Unhashed(q) /\ Ino(q) \in Inodes /\ Ino(q) # Ino(p) => Unhashed(q)'
  BY <1>3, <1>10 DEF Unhashed
<1>12. \A b \in Buckets : \A k \in Slots(b)' : Unhashed(workq[b][k])'
  <2>1. \A b \in Buckets : \A k \in Slots(b) : workq[b][k] \in Paths /\ Unhashed(workq[b][k])
    BY DEF Once, Slots
  <2>. QED BY <1>2, <1>3, <1>7, <1>11, <2>1 DEF Inodes
<1>13. \A v \in Workers : worker'[v] \in Paths' => Unhashed(worker[v])'
  BY <1>3, <1>6, <1>11 DEF Once, Inodes
<1>14. Once'
  <2>1. \A i \in Inodes : hashed'[i] = 1 => i \in seen
    BY <1>8, <1>10 DEF Once
  <2>2. \A u, v \in Workers :
           worker'[u] \in Paths /\ worker'[v] \in Paths /\ Ino(worker'[u]) = Ino(worker'[v]) => u = v
    BY <1>6 DEF Once
  <2>3. \A b \in Buckets : \A k \in Slots(b) : \A v \in Workers :
           worker'[v] \in Paths => Ino(workq[b][k]) # Ino(worker'[v])
    BY <1>6 DEF Once
  <2>4. /\ workq \in [Buckets -> Seq(Paths)]
        /\ \A b, c \in Buckets : \A k \in Slots(b), l \in Slots(c) :
              Ino(workq[b][k]) = Ino(workq[c][l]) => b = c /\ k = l
    BY DEF Once
  <2>. QED BY <1>2, <1>3, <1>5, <1>10, <1>12, <1>13, <2>1, <2>2, <2>3, <2>4 DEF Once
<1>15. Fault \/ \A i : InHand(i) => InHand(i)' \/ hashed'[i] = 1
  <2>. SUFFICES ASSUME ~Fault, NEW i, NEW v \in Workers, worker[v] \in Paths, Ino(worker[v]) = i
                PROVE  InHand(i)' \/ hashed'[i] = 1
    BY DEF InHand
  <2>1. CASE v = w
    BY <1>1, <1>8, <1>9, <2>1 DEF Once
  <2>2. CASE v # w
    BY <1>3, <1>5, <2>2 DEF InHand
  <2>. QED BY <2>1, <2>2
<1>16. \A i : InQueue(i) => InQueue(i)'
  BY <1>2, <1>3 DEF InQueue
<1>17. \A v \in Workers : worker'[v] = "gone" => worker[v] = "gone"
  BY <1>5
<1>. QED BY <1>9, <1>10, <1>14, <1>15, <1>16, <1>17

\* What is listed newly is in the file queue, and what was in it still is.
QueueGrows ==
    \A p \in listed' :
        /\ p \in Paths
        /\ p \in listed /\ p \in Range(fileq) => p \in Range(fileq')
        /\ p \notin listed => p \in Range(fileq')

\* The seeding and the walkers only add to the file queue.
LEMMA QuietKept ==
    ASSUME Once, Kept, UNCHANGED <<world, hashVars>>,
           Fault \/ (NoFault /\ halt' = halt), main'.ret = main.ret,
           main'.at \in {"draining", "done"} <=> main.at \in {"draining", "done"},
           main'.at = "done" => main.at = "done",
           QueueGrows
    PROVE  Once' /\ Kept'
<1>1. Once'
  BY HandsOnce DEF hashVars, Once
<1>2. /\ Paths' = Paths /\ Inodes' = Inodes /\ (\A q : Ino(q)' = Ino(q)) /\ Occupied' = Occupied
      /\ \A i : (InQueue(i)' <=> InQueue(i)) /\ (InHand(i)' <=> InHand(i))
      /\ \A q : Handled(q)' <=> Handled(q)
  BY DEF Paths, Inodes, Ino, Node, Slots, InQueue, InHand, Handled, hashVars, Occupied
<1>3. faults' \in Nat /\ (faults' = 0 => faults = 0 /\ halt' = halt)
  BY DEF Fault, NoFault, Kept
<1>4. Kept'
  <2>1. faults' = 0 => \A i \in seen' : i \in Inodes' /\ (hashed'[i] = 1 \/ InQueue(i)' \/ InHand(i)')
    BY <1>2, <1>3 DEF Kept, hashVars
  <2>2. faults' = 0 /\ main'.ret = 0 => \A p \in listed' : p \in Range(fileq)' \/ Handled(p)'
    BY <1>2, <1>3 DEF Kept, QueueGrows
  <2>3. faults' = 0 => ~halt'.signal /\ ~halt'.lost
    BY <1>3 DEF Kept
  <2>5. listed' \subseteq Paths'
    BY <1>2 DEF QueueGrows
  <2>4. /\ draining' <=> main'.at \in {"draining", "done"}
        /\ (\E w \in Workers : worker'[w] = "gone") => draining' /\ Occupied' = {}
        /\ main'.at = "done" => \A w \in Workers : worker'[w] = "gone"
    BY <1>2 DEF Kept, hashVars
  <2>. QED BY <1>2, <1>3, <2>1, <2>2, <2>3, <2>4, <2>5 DEF Kept
<1>. QED BY <1>1, <1>4

LEMMA PushListed ==
    ASSUME listed \subseteq Paths, fileq \in Seq(Paths),
           NoPush \/ \E p \in Paths : Push(p)
    PROVE  QueueGrows
<1>1. CASE UNCHANGED <<listed, fileq>>
  BY <1>1 DEF QueueGrows
<1>2. ASSUME NEW q \in Paths, fileq' = Append(fileq, q), listed' = listed \cup {q}
      PROVE  QueueGrows
  <2>1. /\ Len(fileq') = Len(fileq) + 1 /\ Len(fileq) \in Nat
        /\ fileq'[Len(fileq) + 1] = q
        /\ \A i \in 1 .. Len(fileq) : fileq'[i] = fileq[i]
    BY <1>2
  <2>2. q \in Range(fileq') /\ Range(fileq) \subseteq Range(fileq')
    BY <1>2, <2>1 DEF Range
  <2>. QED BY <1>2, <2>2 DEF QueueGrows
<1>3. UNCHANGED <<listed, fileq>> \/ \E q \in Paths : fileq' = Append(fileq, q) /\ listed' = listed \cup {q}
  BY DEF NoPush, Push, FileqPush, DirqPush
<1>. QED BY <1>1, <1>2, <1>3

LEMMA AppendListed ==
    ASSUME listed \subseteq Paths, listed' = listed, NEW S, fileq \in Seq(S),
           fileq' = fileq \/ fileq' = Append(fileq, Stop), Stop \in S
    PROVE  QueueGrows
<1>1. Range(fileq) \subseteq Range(fileq')
  <2>1. CASE fileq' = Append(fileq, Stop)
    <3>1. Len(fileq') = Len(fileq) + 1 /\ \A i \in 1 .. Len(fileq) : fileq'[i] = fileq[i]
      BY <2>1
    <3>. QED BY <2>1, <3>1 DEF Range
  <2>. QED BY <2>1
<1>. QED BY <1>1 DEF QueueGrows

LEMMA FileqHolds == IInv => fileq \in Seq(Paths \cup {Stop})
<1>1. ASSUME Going PROVE fileq \in Seq(Paths \cup {Stop})
  BY <1>1 DEF Going
<1>2. ASSUME Over PROVE fileq \in Seq(Paths \cup {Stop})
  <2>1. ASSUME NEW s \in Seq(Paths), fileq = Append(s, Stop)
        PROVE  fileq \in Seq(Paths \cup {Stop})
    BY <2>1
  <2>2. <<>> \in Seq(Paths \cup {Stop})
    OBVIOUS
  <2>3. fileq = <<>> \/ \E s \in Seq(Paths) : fileq = Append(s, Stop)
    BY <1>2 DEF Over
  <2>. QED BY <2>1, <2>2, <2>3
<1>. QED BY <1>1, <1>2 DEF IInv

LEMMA SeedsKept ==
    ASSUME IInv, Once, Kept, SeedRoot \/ SeedFile \/ LoadCheckpoints \/ StartWalk
    PROVE  Once' /\ Kept'
<1>1. /\ Threads /\ Going /\ fileq \in Seq(Paths) /\ listed \subseteq Paths
      /\ main = [at |-> main.at, ret |-> main.ret]
  BY DEF IInv, Over, Going, Threads, Kept, SeedRoot, SeedFile, LoadCheckpoints, StartWalk
<1>2. UNCHANGED <<world, hashVars, halt>> /\ (Fault \/ NoFault)
  <2>1. UNCHANGED <<world, hashVars, halt>>
    BY DEF SeedRoot, SeedFile, LoadCheckpoints, StartWalk
  <2>2. Fault \/ NoFault
    BY DEF SeedRoot, SeedFile, LoadCheckpoints, StartWalk, NoFault
  <2>. QED BY <2>1, <2>2
<1>3. /\ main'.ret = main.ret /\ main.at \notin {"draining", "done"}
      /\ main'.at \in {"seeding", "resuming", "walking"}
  <2>1. main.at \in {"seeding", "resuming"}
    BY DEF SeedRoot, SeedFile, LoadCheckpoints, StartWalk
  <2>2. main' = main \/ main' = [main EXCEPT !.at = "resuming"] \/ main' = [main EXCEPT !.at = "walking"]
    BY DEF SeedRoot, SeedFile, LoadCheckpoints, StartWalk
  <2>. QED BY <1>1, <2>1, <2>2
<1>4. \/ NoPush \/ \E p \in Paths : Push(p)
      \/ listed' = listed /\ (fileq' = fileq \/ fileq' = Append(fileq, Stop))
  <2>1. CASE SeedRoot
    <3>1. Head(args) \in Paths \cup {None}
      BY <1>1, <2>1 DEF Threads, SeedRoot
    <3>2. NoPush \/ (Head(args) # None /\ Push(Head(args)))
      BY <2>1 DEF SeedRoot, RootSkipped, RootJudged, RootUnprobed, RootUnusable, RootFails,
         RootWrong, RootTaken, RootLocks, RootAccepted
    <3>. QED BY <3>1, <3>2
  <2>2. CASE SeedFile
    <3>1. Head(args) \in Paths
      BY <1>1, <2>2 DEF Threads, SeedFile
    <3>2. NoPush \/ Push(Head(args))
      BY <2>2 DEF SeedFile, Push, Seeded
    <3>. QED BY <3>1, <3>2
  <2>3. CASE LoadCheckpoints \/ StartWalk
    BY <2>3 DEF LoadCheckpoints, StartWalk, walkVars, Finished
  <2>. QED BY <2>1, <2>2, <2>3
<1>5. fileq \in Seq(Paths \cup {Stop})
  BY <1>1
<1>6. QueueGrows
  BY <1>1, <1>4, <1>5, PushListed, AppendListed
<1>. QED BY <1>2, <1>3, <1>6, QuietKept

LEMMA WalkerKept ==
    ASSUME IInv, Once, Kept, NEW w \in Walkers, WalkerStep(w)
    PROVE  Once' /\ Kept'
<1>1. Threads /\ listed \subseteq Paths
  BY DEF IInv, Kept
<1>2. /\ UNCHANGED <<world, main, hashVars, halt>>
      /\ Fault \/ NoFault
  BY DEF WalkerStep, TakeDir, ReadEntry, RoAnswered, DevProbed, EndDir, MainOnly, NoFault
<1>3. CASE TakeDir(w) \/ EndDir(w)
  <2>1. listed' = listed /\ (fileq' = fileq \/ fileq' = Append(fileq, Stop))
    BY <1>3 DEF TakeDir, EndDir, Finished
  <2>2. fileq \in Seq(Paths \cup {Stop})
    BY FileqHolds
  <2>3. QueueGrows
    BY <1>1, <2>1, <2>2, AppendListed
  <2>. QED BY <1>2, <2>3, QuietKept
<1>4. CASE ReadEntry(w) \/ RoAnswered(w) \/ DevProbed(w)
  <2>1. walker[w].at \in AtDir
    BY <1>4 DEF ReadEntry, RoAnswered, DevProbed, AtDir
  <2>2. Going
    BY <2>1, BusyGoes
  <2>3. NoPush \/ \E p \in Paths : Push(p)
    <3>1. CASE ReadEntry(w)
      <4>1. walker[w].left \subseteq Paths
        BY <1>1 DEF Threads
      <4>. QED BY <3>1, <4>1 DEF ReadEntry, CheckDev, Drop, Give
    <3>2. CASE RoAnswered(w) \/ DevProbed(w)
      <4>1. walker[w].entry \in Paths
        BY <1>1, <3>2 DEF Threads, RoAnswered, DevProbed
      <4>. QED BY <3>2, <4>1 DEF RoAnswered, DevProbed, CheckDev, Drop, Give
    <3>. QED BY <1>4, <3>1, <3>2
  <2>4. QueueGrows
    BY <1>1, <2>2, <2>3, PushListed DEF Going
  <2>. QED BY <1>2, <2>4, QuietKept
<1>. QED BY <1>3, <1>4 DEF WalkerStep

-----------------------------------------------------------------------------
(* The consumer takes a file off the queue; the threads end. *)

\* Of the rest of the queue, and of the file taken when it was seen to.
LEMMA TailListed ==
    ASSUME IInv, fileq # <<>>, fileq' = Tail(fileq), listed' = listed, NEW p \in Range(fileq),
           p # Head(fileq)
    PROVE  p \in Range(fileq')
<1>1. fileq \in Seq(Paths \cup {Stop})
  BY FileqHolds
<1>2. PICK i \in 1 .. Len(fileq) : p = fileq[i]
  BY <1>1 DEF Range
<1>3. i # 1 /\ i - 1 \in 1 .. Len(fileq')
  BY <1>1, <1>2
<1>4. fileq'[i - 1] = p
  BY <1>1, <1>2, <1>3
<1>5. DOMAIN fileq' = 1 .. Len(fileq')
  BY <1>1
<1>6. i - 1 \in DOMAIN fileq'
  BY <1>3, <1>5
<1>. QED BY <1>4, <1>6 DEF Range

\* __scan_file() leaves the file seen to, and nothing that was taken lost.
LEMMA ScanFileOnce ==
    ASSUME Threads, Once, NEW p \in Paths, ScanFile(p), UNCHANGED <<world, hashed>>
    PROVE  /\ Once'
           /\ Handled(p)'
           /\ seen' \subseteq seen \cup {Ino(p)} /\ seen \subseteq seen'
           /\ \A i : InQueue(i) => InQueue(i)'
           /\ \A i : InHand(i) => InHand(i)'
           /\ \A i \in seen' : i \in seen \/ InQueue(i)'
           /\ \A w \in Workers : worker'[w] = "gone" => worker[w] = "gone"
<1>1. \A q : Ino(q)' = Ino(q) /\ Node(q)' = Node(q)
  BY DEF Ino, Node
<1>2. CASE UNCHANGED <<seen, workq, worker>> /\ Handled(p)
  <2>1. Once'
    BY <1>2, HandsOnce DEF Once
  <2>2. Handled(p)'
    BY <1>1, <1>2 DEF Handled
  <2>3. \A i : (InQueue(i) => InQueue(i)') /\ (InHand(i) => InHand(i)')
    BY <1>1, <1>2 DEF InQueue, InHand, Slots, Paths
  <2>. QED BY <1>2, <2>1, <2>2, <2>3
<1>3. CASE Ino(p) \notin seen /\ seen' = seen \cup {Ino(p)} /\ WorkqPush(p)
  <2>1. Handled(p)'
    BY <1>1, <1>3 DEF Handled
  <2>. QED BY <1>3, <2>1, PushOnce
<1>. QED BY <1>2, <1>3 DEF ScanFile, Handled, Ino

\* What becomes of the file at the head, when nothing fails and the run goes on.
LEMMA ConsumeScans ==
    ASSUME Consume, Kept, ~Fault, faults = 0, main'.ret = 0, main.ret = 0, Head(fileq) # Stop
    PROVE  ScanFile(Head(fileq))
<1>1. ~Discards
  BY DEF Discards, Kept
<1>2. ASSUME Refuse PROVE FALSE
  BY <1>2 DEF Refuse
<1>. QED BY <1>1, <1>2 DEF Consume, AskFile, NotAsked, NoAnswer, Proceed, Refuse

LEMMA ConsumeKept == ASSUME IInv, Honest, Once, Kept, Consume PROVE Once' /\ Kept'
<1>. DEFINE p == Head(fileq)
<1>1. /\ Threads /\ main.at = "walking" /\ fileq # <<>> /\ fileq' = Tail(fileq)
      /\ UNCHANGED <<world, listed, draining, hashed>>
      /\ listed \subseteq Paths /\ fileq \in Seq(Paths \cup {Stop}) /\ p \in Paths \cup {Stop}
  BY FileqHolds DEF IInv, Consume, walkVars, Kept
<1>2. main'.at \in {"joining", "walking"} /\ (main'.ret = 0 => main.ret = 0)
  <2>1. main = [at |-> main.at, ret |-> main.ret]
    BY <1>1 DEF Threads
  <2>2. \/ main' = [main EXCEPT !.at = "joining"]
        \/ main' = main
        \/ main' = [main EXCEPT !.ret = 1]
    BY DEF Consume, AskFile, NotAsked, NoAnswer, Proceed, Refuse
  <2>. QED BY <1>1, <2>1, <2>2
<1>3. ~draining /\ ~draining' /\ \A w \in Workers : worker[w] # "gone"
  BY <1>1 DEF Kept
<1>4. UNCHANGED <<seen, workq, worker>> \/ (p \in Paths /\ ScanFile(p))
  <2>1. p = Stop => UNCHANGED <<seen, workq, worker>>
    BY DEF Consume
  <2>2. p # Stop => p \in Paths
    BY <1>1
  <2>3. UNCHANGED <<seen, workq, worker>> \/ ScanFile(p)
    BY DEF Consume, AskFile, NotAsked, NoAnswer, Proceed, Refuse
  <2>. QED BY <2>1, <2>2, <2>3
<1>5. /\ Once' /\ seen \subseteq seen'
      /\ \A i : (InQueue(i) => InQueue(i)') /\ (InHand(i) => InHand(i)')
      /\ \A i \in seen' : i \in seen \/ (InQueue(i)' /\ i \in Inodes)
      /\ \A w \in Workers : worker'[w] = "gone" => worker[w] = "gone"
  <2>1. CASE UNCHANGED <<seen, workq, worker>>
    <3>1. Once'
      BY <1>1, <2>1, HandsOnce DEF Once
    <3>2. \A i : (InQueue(i) => InQueue(i)') /\ (InHand(i) => InHand(i)')
      BY <1>1, <2>1 DEF InQueue, InHand, Slots, Paths, Ino, Node
    <3>. QED BY <2>1, <3>1, <3>2
  <2>2. CASE p \in Paths /\ ScanFile(p)
    BY <1>1, <2>2, ScanFileOnce DEF Inodes
  <2>. QED BY <1>4, <2>1, <2>2
<1>6. faults' \in Nat /\ (faults' = 0 => faults = 0 /\ ~Fault /\ ~halt'.signal /\ ~halt'.lost)
  <2>1. Fault \/ NoFault
    BY DEF Consume
  <2>2. Fault => faults' = faults + 1
    BY DEF Fault
  <2>3. faults' \in Nat /\ (faults' = 0 => faults = 0 /\ ~Fault)
    BY <2>1, <2>2 DEF NoFault, Kept
  <2>4. Fault \/ halt' = halt \/ halt' = [halt EXCEPT !.abort = TRUE]
    BY DEF Consume, AskFile, NotAsked, NoAnswer, Proceed, Refuse
  <2>5. faults = 0 => ~halt.signal /\ ~halt.lost
    BY DEF Kept
  <2>6. ~Fault => halt'.signal = halt.signal /\ halt'.lost = halt.lost
    BY <2>4 DEF Honest
  <2>. QED BY <2>3, <2>5, <2>6
<1>7. ASSUME faults' = 0, main'.ret = 0, NEW q \in listed'
      PROVE  q \in Range(fileq)' \/ Handled(q)'
  <2>1. q \in listed /\ q \in Paths
    BY <1>1, <1>7
  <2>2. q \in Range(fileq) \/ Handled(q)
    BY <1>2, <1>6, <1>7, <2>1 DEF Kept
  <2>3. CASE Handled(q)
    BY <1>1, <1>5, <2>3 DEF Handled, Ino, Node
  <2>4. CASE q \in Range(fileq) /\ q # p
    BY <1>1, <2>4, TailListed
  <2>5. CASE q = p
    <3>1. Stop \notin Paths
      BY <1>1, StopIsNoPath
    <3>2. ScanFile(p)
      BY <1>2, <1>6, <1>7, <2>1, <2>5, <3>1, ConsumeScans
    <3>3. ScanFile(q)
      BY <3>2, <2>5
    <3>. QED BY <1>1, <2>1, <3>3, ScanFileOnce
  <2>. QED BY <2>2, <2>3, <2>4, <2>5
<1>8. Inodes' = Inodes /\ Paths' = Paths
  BY <1>1 DEF Inodes, Ino, Node, Paths
<1>9. faults' = 0 => \A i \in seen' : i \in Inodes' /\ (hashed'[i] = 1 \/ InQueue(i)' \/ InHand(i)')
  BY <1>1, <1>5, <1>6, <1>8 DEF Kept
<1>10. \A w \in Workers : worker'[w] # "gone"
  BY <1>3, <1>5
<1>11. Kept'
  BY <1>1, <1>2, <1>3, <1>6, <1>7, <1>8, <1>9, <1>10 DEF Kept
<1>. QED BY <1>5, <1>11

LEMMA JoinWalkersKept == ASSUME Threads, Once, Kept, JoinWalkers PROVE Once' /\ Kept'
<1>1. /\ main.at = "joining" /\ main'.at = "draining" /\ (main'.ret = 0 => main.ret = 0)
      /\ draining' = TRUE /\ UNCHANGED <<world, listed, fileq, seen, workq, hashed, halt, faults>>
      /\ worker' = [w \in Workers |-> IF w \in Asleep THEN "idle" ELSE worker[w]]
  BY DEF JoinWalkers, walkVars
<1>2. {"idle", "asleep", "gone"} \cap Paths = {}
  BY WorldsOK DEF Threads, Paths
<1>3. /\ worker' \in [Workers -> Paths \cup {"idle", "asleep", "gone"}]
      /\ \A w \in Workers : worker'[w] = worker[w] \/ (worker[w] = "asleep" /\ worker'[w] = "idle")
  BY <1>1 DEF Once, Asleep
<1>4. Once'
  BY <1>1, <1>2, <1>3, HandsOnce
<1>5. /\ Paths' = Paths /\ Inodes' = Inodes /\ (\A i : InQueue(i)' <=> InQueue(i))
      /\ \A q : Handled(q)' <=> Handled(q)
  BY <1>1 DEF Paths, Inodes, InQueue, Slots, Ino, Node, Handled
<1>6. \A i : InHand(i) => InHand(i)'
  BY <1>1, <1>2, <1>3, <1>5 DEF InHand, Ino, Node
<1>7. \A w \in Workers : worker'[w] # "gone"
  <2>1. \A w \in Workers : worker[w] # "gone"
    BY <1>1 DEF Kept
  <2>. QED BY <1>3, <2>1
<1>8. faults' = 0 => \A i \in seen' : i \in Inodes' /\ (hashed'[i] = 1 \/ InQueue(i)' \/ InHand(i)')
  BY <1>1, <1>5, <1>6 DEF Kept
<1>9. faults' = 0 /\ main'.ret = 0 => \A p \in listed' : p \in Range(fileq)' \/ Handled(p)'
  BY <1>1, <1>5 DEF Kept
<1>10. Kept'
  BY <1>1, <1>5, <1>7, <1>8, <1>9 DEF Kept
<1>. QED BY <1>4, <1>10

LEMMA JoinWorkersKept == ASSUME Once, Kept, JoinWorkers PROVE Once' /\ Kept'
<1>1. /\ main.at = "draining" /\ main'.at = "done" /\ (main'.ret = 0 /\ faults = 0 => main.ret = 0)
      /\ \A w \in Workers : worker[w] = "gone"
      /\ UNCHANGED <<world, listed, fileq, hashVars, halt, faults>>
  BY DEF JoinWorkers, walkVars, Kept
<1>2. Once'
  BY <1>1, HandsOnce DEF hashVars, Once
<1>3. /\ Paths' = Paths /\ Inodes' = Inodes /\ Occupied' = Occupied
      /\ \A i : (InQueue(i)' <=> InQueue(i)) /\ (InHand(i)' <=> InHand(i))
      /\ \A q : Handled(q)' <=> Handled(q)
  BY <1>1 DEF Paths, Inodes, Ino, Node, Slots, InQueue, InHand, Handled, hashVars, Occupied
<1>4. faults' = 0 => \A i \in seen' : i \in Inodes' /\ (hashed'[i] = 1 \/ InQueue(i)' \/ InHand(i)')
  BY <1>1, <1>3 DEF Kept, hashVars
<1>5. faults' = 0 /\ main'.ret = 0 => \A p \in listed' : p \in Range(fileq)' \/ Handled(p)'
  BY <1>1, <1>3 DEF Kept
<1>6. Kept'
  BY <1>1, <1>3, <1>4, <1>5 DEF Kept, hashVars
<1>. QED BY <1>2, <1>6

LEMMA WorkerKept ==
    ASSUME Threads, Once, Kept, NEW w \in Workers, WorkerStep(w) PROVE Once' /\ Kept'
<1>1. UNCHANGED <<world, main, listed, fileq, seen, draining>>
  BY DEF WorkerStep, walkVars, Take, Starve, Hash
<1>2. /\ Paths' = Paths /\ Inodes' = Inodes /\ (\A q : Ino(q)' = Ino(q))
      /\ \A q : Handled(q)' <=> Handled(q)
  BY <1>1 DEF Paths, Inodes, Ino, Node, Handled
<1>3. /\ Once' /\ ((faults' = faults /\ halt' = halt) \/ Fault)
      /\ (\E v \in Workers : worker'[v] = "gone") => draining /\ Occupied' = {}
      /\ faults' = 0 => \A i \in seen : hashed'[i] = 1 \/ InQueue(i)' \/ InHand(i)'
  <2>1. CASE Take(w)
    <3>1. faults' = faults /\ halt' = halt /\ hashed' = hashed /\ Occupied # {}
      BY <2>1 DEF Take
    <3>2. \A v \in Workers : worker[v] # "gone"
      BY <3>1 DEF Kept
    <3>3. \A v \in Workers : worker'[v] # "gone"
      BY <1>1, <2>1, <3>2, TakeOnce
    <3>. QED BY <1>1, <2>1, <3>1, <3>3, TakeOnce DEF Kept
  <2>2. CASE Starve(w)
    <3>1. /\ worker[w] = "idle" /\ Occupied = {} /\ UNCHANGED <<workq, hashed, halt, faults>>
          /\ worker' = [worker EXCEPT ![w] = IF draining THEN "gone" ELSE "asleep"]
      BY <2>2 DEF Starve
    <3>2. {"idle", "asleep", "gone"} \cap Paths = {}
      BY WorldsOK DEF Threads, Paths
    <3>3. /\ worker' \in [Workers -> Paths \cup {"idle", "asleep", "gone"}]
          /\ worker'[w] = (IF draining THEN "gone" ELSE "asleep")
          /\ \A v \in Workers \ {w} : worker'[v] = worker[v]
      BY <3>1 DEF Once
    <3>4. Once'
      BY <1>1, <3>1, <3>2, <3>3, HandsOnce
    <3>5. (\E v \in Workers : worker'[v] = "gone") => draining /\ Occupied' = {}
      BY <3>1, <3>3 DEF Kept, Occupied
    <3>6. \A i : (InQueue(i) => InQueue(i)') /\ (InHand(i) => InHand(i)')
      <4>1. \A i : InQueue(i) => InQueue(i)'
        BY <1>2, <3>1 DEF InQueue, Slots
      <4>2. \A i : InHand(i) => InHand(i)'
        BY <1>2, <3>1, <3>2, <3>3 DEF InHand
      <4>. QED BY <4>1, <4>2
    <3>. QED BY <3>1, <3>4, <3>5, <3>6 DEF Kept
  <2>3. CASE Hash(w)
    <3>1. workq' = workq /\ Occupied' = Occupied
      BY <2>3 DEF Hash, Occupied
    <3>2. (\E v \in Workers : worker'[v] = "gone") => draining /\ Occupied' = {}
      BY <1>1, <2>3, <3>1, HashOnce DEF Kept
    <3>3. Fault => faults' # 0
      BY DEF Fault, Kept
    <3>4. faults' = 0 => \A i \in seen : hashed'[i] = 1 \/ InQueue(i)' \/ InHand(i)'
      <4>1. faults' = 0 => faults = 0
        BY <3>3, <2>3 DEF Hash, NoFault
      <4>. QED BY <1>1, <2>3, <3>3, <4>1, HashOnce DEF Kept
    <3>. QED BY <1>1, <2>3, <3>2, <3>4, HashOnce DEF NoFault
  <2>. QED BY <2>1, <2>2, <2>3 DEF WorkerStep
<1>4. faults' \in Nat /\ (faults' = 0 => faults = 0 /\ halt' = halt)
  BY <1>3 DEF Fault, Kept
<1>5. main.at = "done" => \A v \in Workers : worker'[v] = "gone"
  <2>1. main.at = "done" => Occupied = {} /\ worker[w] = "gone"
    BY DEF Kept
  <2>2. worker[w] # "gone"
    <3>1. "gone" \notin Paths
      BY WorldsOK DEF Threads, Paths
    <3>. QED BY <3>1 DEF WorkerStep, Take, Starve, Hash
  <2>. QED BY <2>1, <2>2
<1>6. faults' = 0 /\ main'.ret = 0 => \A p \in listed' : p \in Range(fileq)' \/ Handled(p)'
  BY <1>1, <1>2, <1>4 DEF Kept
<1>7. faults' = 0 => \A i \in seen' : i \in Inodes' /\ (hashed'[i] = 1 \/ InQueue(i)' \/ InHand(i)')
  BY <1>1, <1>2, <1>3, <1>4 DEF Kept
<1>8. Kept'
  BY <1>1, <1>2, <1>3, <1>4, <1>5, <1>6, <1>7 DEF Kept
<1>. QED BY <1>3, <1>8

LEMMA InitKept == Init => Once /\ Kept
<1>. SUFFICES ASSUME Init PROVE Once /\ Kept
  OBVIOUS
<1>1. hashed = [i \in Inodes |-> 0]
  BY DEF Init, Inodes, Ino, Node, Paths
<1>2. workq = [b \in Buckets |-> <<>>] /\ seen = {} /\ worker = [w \in Workers |-> "idle"]
  BY DEF Init
<1>3. "idle" \notin Paths
  BY WorldsOK DEF Init, Paths
<1>4. Once
  BY <1>1, <1>2, <1>3 DEF Once, Slots
<1>5. Kept
  BY <1>2 DEF Init, Kept
<1>. QED BY <1>4, <1>5

LEMMA NextKept == IInv /\ Honest /\ Once /\ Kept /\ [Next]_vars => Once' /\ Kept'
<1>. SUFFICES ASSUME IInv, Honest, Once, Kept, [Next]_vars PROVE Once' /\ Kept'
  OBVIOUS
<1>0. Threads
  BY DEF IInv
<1>1. CASE MainStep
  BY <1>0, <1>1, SeedsKept, ConsumeKept, JoinWalkersKept, JoinWorkersKept DEF MainStep
<1>2. ASSUME NEW w \in Walkers, WalkerStep(w) PROVE Once' /\ Kept'
  BY <1>2, WalkerKept
<1>3. ASSUME NEW w \in Workers, WorkerStep(w) PROVE Once' /\ Kept'
  BY <1>0, <1>3, WorkerKept
<1>4. CASE Signal \/ UNCHANGED vars
  <2>1. UNCHANGED <<world, main, hashVars, listed, fileq>> /\ (Fault \/ (NoFault /\ halt' = halt))
    BY <1>4 DEF Signal, vars, walkVars, NoFault
  <2>2. QueueGrows
    BY <2>1 DEF QueueGrows, Kept
  <2>. QED BY <2>1, <2>2, QuietKept
<1>. QED BY <1>1, <1>2, <1>3, <1>4 DEF Next

LEMMA KeptHashes == IInv /\ Once /\ Kept => AllHashed
<1>. SUFFICES ASSUME IInv, Once, Kept PROVE AllHashed
  OBVIOUS
<1>1. \A i \in DOMAIN hashed : hashed[i] <= 1
  BY DEF Once
<1>2. ASSUME Undisturbed, main.ret = 0, NEW p \in listed
      PROVE  Node(p).host = "gone" \/ Node(p).fresh \/ hashed[Node(p).ino] = 1
  <2>1. main.at = "done" /\ faults = 0 /\ fileq = <<>>
    BY <1>2 DEF Undisturbed, IInv, Going, Over
  <2>2. Handled(p)
    BY <1>2, <2>1 DEF Kept, Range
  <2>3. Occupied = {} /\ \A w \in Workers : worker[w] = "gone"
    BY <2>1, ScanWalkConstants DEF Kept
  <2>4. \A i : ~InQueue(i)
    BY <2>3 DEF InQueue, Slots, Occupied
  <2>5. \A i : ~InHand(i)
    BY <2>3, WorldsOK DEF InHand, IInv, Threads, Paths
  <2>6. Ino(p) \in seen => hashed[Ino(p)] = 1
    BY <2>1, <2>4, <2>5 DEF Kept
  <2>. QED BY <2>2, <2>6 DEF Handled, Ino
<1>. QED BY <1>1, <1>2 DEF AllHashed

\* However the consumer's pushes, the workers' taking and sleeping and the end
\* of the walk fall together, no inode is hashed twice, and a run in which
\* nothing failed has hashed all it listed that needs it (__scan_file(),
\* scan_workq_push(), scan_worker()).
THEOREM EverythingHashed == Spec => []AllHashed
<1>1. Init => IInv /\ Honest /\ Once /\ Kept
  BY Initially, InitKept DEF Init, Honest
<1>2. IInv /\ Honest /\ Once /\ Kept /\ [Next]_vars => (IInv /\ Honest /\ Once /\ Kept)'
  BY NextKeeps, NextHonest, NextKept
<1>. QED BY <1>1, <1>2, KeptHashes, PTL DEF Spec

-----------------------------------------------------------------------------
(* What is due: the least set that has the roots and, with a directory, what *)
(* is wanted of it.                                                          *)

Up(p) == Node(p).up
Closed(S) == \A p \in Paths : Up(p) \in S /\ Wanted(p) => p \in S
Reach == {p \in Paths : \A S \in SUBSET Paths :
                           Range(roots.paths) \subseteq S /\ Closed(S) => p \in S}

\* Every nonempty set of paths has one that is in none of the others.
LEMMA Uppermost ==
    ASSUME Threads, NEW S \in SUBSET Paths, S # {}
    PROVE  \E p \in S : Up(p) \notin S
BY TreesOK DEF Threads, Paths, Up, Node

LEMMA UpIn ==
    ASSUME Threads, NEW p \in Paths
    PROVE  Up(p) # None => Up(p) \in Paths /\ ~Regular(Up(p))
BY TreesOK DEF Threads, Paths, Up, Node, Regular

LEMMA ReachHas ==
    ASSUME roots.paths \in Seq(Paths)
    PROVE  Range(roots.paths) \subseteq Reach
BY DEF Reach, Range

LEMMA ReachIsClosed == Closed(Reach)
BY DEF Reach, Closed

LEMMA ReachIsLeast ==
    ASSUME NEW S \in SUBSET Paths, Range(roots.paths) \subseteq S, Closed(S)
    PROVE  Reach \subseteq S
BY DEF Reach

\* Due's levels end there.
LEMMA DueIsReach ==
    ASSUME Threads, roots.paths \in Seq(Paths)
    PROVE  Due = {p \in Reach : Regular(p)}
<1>. DEFINE N == Cardinality(Paths)
            More(T) == T \cup {p \in Paths : Up(p) \in T /\ Wanted(p)}
            Levels(f) == f = [n \in 0 .. N |-> IF n = 0 THEN Range(roots.paths)
                              ELSE f[n - 1] \cup {p \in Paths : Up(p) \in f[n - 1] /\ Wanted(p)}]
            F == CHOOSE f : Levels(f)
<1>1. IsFiniteSet(Paths) /\ N \in Nat
  BY TreesOK, FS_CardinalityType DEF Threads, Paths
<1>2. Range(roots.paths) \in SUBSET Paths
  BY DEF Range
<1>3. Levels(F)
  <2>. DEFINE Q == SUBSET Paths
              first == Range(roots.paths)
              step == [n \in 1 .. N |-> [T \in Q |-> More(T)]]
  <2>1. step \in [1 .. N -> [Q -> Q]]
    OBVIOUS
  <2>2. \A n \in 1 .. N : \A T \in Q : step[n][T] = More(T)
    OBVIOUS
  <2>3. first \in Q
    BY <1>2
  <2>4. \E f \in [0 .. N -> Q] : Stepwise(f, N, first, step)
    <3>. HIDE DEF step, Q, first, N
    <3>. QED BY <1>1, <2>1, <2>3, StepByStep
  <2>. HIDE DEF step
  <2>5. PICK f \in [0 .. N -> Q] : f[0] = first /\ \A n \in 1 .. N : f[n] = step[n][f[n - 1]]
    BY <2>4 DEF Stepwise
  <2>. HIDE DEF N
  <2>6. \A n \in 0 .. N : f[n] = IF n = 0 THEN first
                       ELSE f[n - 1] \cup {p \in Paths : Up(p) \in f[n - 1] /\ Wanted(p)}
    <3>. SUFFICES ASSUME NEW n \in 0 .. N, n # 0
                  PROVE  f[n] = f[n - 1] \cup {p \in Paths : Up(p) \in f[n - 1] /\ Wanted(p)}
      BY <2>5
    <3>1. n \in 1 .. N /\ n - 1 \in 0 .. N
      BY <1>1
    <3>. QED BY <2>2, <2>5, <3>1
  <2>7. Levels(f)
    BY <2>5, <2>6
  <2>. HIDE DEF Levels
  <2>. QED BY <2>7
<1>4. Due = {p \in F[N] : Regular(p)}
  BY DEF Due, Up
<1>. HIDE DEF N, F
<1>5. F[0] = Range(roots.paths) /\ 0 \in 0 .. N /\ N \in 0 .. N
  BY <1>1, <1>3
<1>6. \A n \in 1 .. N : n \in 0 .. N /\ n - 1 \in 0 .. N /\ F[n] = More(F[n - 1])
  BY <1>1, <1>3
<1>. HIDE DEF Levels
<1>7. \A n \in 0 .. N : F[n] \subseteq Reach
  <2>. DEFINE P == {n \in 0 .. N : F[n] \subseteq Reach}
  <2>1. 0 \in P
    BY <1>5, ReachHas
  <2>2. ASSUME NEW n \in 1 .. N, n - 1 \in P PROVE n \in P
    BY <1>6, <2>2, ReachIsClosed DEF Closed
  <2>. HIDE DEF P
  <2>3. \A n \in 0 .. N : n \in P
    BY <1>1, <2>1, <2>2, CountUp
  <2>. QED BY <2>3 DEF P
<1>8. \A n \in 0 .. N : F[n] \in SUBSET Paths
  BY <1>7 DEF Reach
<1>9. \A n \in 0 .. N : n <= Cardinality(F[n]) \/ Closed(F[n])
  <2>. DEFINE P == {n \in 0 .. N : n <= Cardinality(F[n]) \/ Closed(F[n])}
  <2>1. 0 \in P
    BY <1>1, <1>5, <1>8, FS_Subset, FS_CardinalityType
  <2>2. ASSUME NEW n \in 1 .. N, n - 1 \in P PROVE n \in P
    <3>1. F[n] = More(F[n - 1]) /\ F[n - 1] \subseteq Paths /\ F[n] \subseteq Paths
      BY <1>6, <1>8
    <3>2. CASE Closed(F[n - 1])
      <4>1. F[n] = F[n - 1]
        BY <3>1, <3>2 DEF Closed
      <4>. QED BY <1>6, <3>2, <4>1
    <3>3. CASE ~Closed(F[n - 1])
      <4>1. IsFiniteSet(F[n]) /\ IsFiniteSet(F[n - 1])
        BY <1>1, <3>1, FS_Subset
      <4>2. F[n - 1] \subseteq F[n] /\ F[n - 1] # F[n]
        BY <3>1, <3>3 DEF Closed
      <4>3. Cardinality(F[n - 1]) < Cardinality(F[n])
        BY <4>1, <4>2, FS_Subset, FS_CardinalityType
      <4>4. n - 1 <= Cardinality(F[n - 1])
        BY <2>2, <3>3
      <4>5. Cardinality(F[n]) \in Nat /\ Cardinality(F[n - 1]) \in Nat
        BY <4>1, FS_CardinalityType
      <4>. QED BY <1>6, <4>3, <4>4, <4>5
    <3>. QED BY <3>2, <3>3
  <2>. HIDE DEF P
  <2>3. \A n \in 0 .. N : n \in P
    BY <1>1, <2>1, <2>2, CountUp
  <2>. QED BY <2>3 DEF P
<1>10. Closed(F[N])
  <2>1. CASE N <= Cardinality(F[N])
    <3>1. F[N] = Paths
      BY <1>1, <1>5, <1>8, <2>1, FS_Subset, FS_CardinalityType DEF N
    <3>. QED BY <3>1 DEF Closed
  <2>. QED BY <1>5, <1>9, <2>1
<1>11. \A n \in 0 .. N : F[0] \subseteq F[n]
  <2>. DEFINE P == {n \in 0 .. N : F[0] \subseteq F[n]}
  <2>1. 0 \in P
    BY <1>5
  <2>2. ASSUME NEW n \in 1 .. N, n - 1 \in P PROVE n \in P
    BY <1>6, <2>2
  <2>. HIDE DEF P
  <2>3. \A n \in 0 .. N : n \in P
    BY <1>1, <2>1, <2>2, CountUp
  <2>. QED BY <2>3 DEF P
<1>12. F[N] = Reach
  BY <1>5, <1>7, <1>8, <1>10, <1>11, ReachIsLeast
<1>. QED BY <1>4, <1>12

-----------------------------------------------------------------------------
(* The directories above a path. *)

\* Above adds one directory after the other.
LEMMA AboveIs ==
    ASSUME Threads, NEW p \in Paths
    PROVE  Above[p] = IF Up(p) = None THEN {} ELSE {Up(p)} \cup Above[Up(p)]
<1>. DEFINE From(q, S) == /\ Up(q) # None => Up(q) \in S
                          /\ \A r \in S : Up(r) # None => Up(r) \in S
            Anc(q) == {r \in Paths : \A S \in SUBSET Paths : From(q, S) => r \in S}
            Adds(f) == f = [q \in Paths |-> IF Up(q) = None THEN {} ELSE {Up(q)} \cup f[Up(q)]]
            F == CHOOSE f : Adds(f)
            f == [q \in Paths |-> Anc(q)]
<1>1. ASSUME NEW q \in Paths
      PROVE  f[q] = IF Up(q) = None THEN {} ELSE {Up(q)} \cup f[Up(q)]
  <2>1. CASE Up(q) = None
    <3>1. From(q, {}) /\ {} \in SUBSET Paths
      BY <2>1
    <3>2. Anc(q) = {}
      <4>. HIDE DEF From
      <4>. QED BY <3>1
    <3>. QED BY <2>1, <3>2
  <2>2. CASE Up(q) # None
    <3>. DEFINE u == Up(q)
    <3>1. u \in Paths
      BY <2>2, UpIn
    <3>2. \A S \in SUBSET Paths : From(q, S) => u \in S /\ From(u, S)
      BY <2>2
    <3>3. {u} \cup Anc(u) \subseteq Anc(q)
      BY <3>1, <3>2
    <3>4. From(q, {u} \cup Anc(u))
      <4>1. Up(u) # None => Up(u) \in Anc(u)
        BY <3>1, UpIn
      <4>2. ASSUME NEW r \in Anc(u), Up(r) # None PROVE Up(r) \in Anc(u)
        BY <4>2, UpIn
      <4>. QED BY <4>1, <4>2
    <3>5. {u} \cup Anc(u) \in SUBSET Paths
      BY <3>1
    <3>6. Anc(q) \subseteq {u} \cup Anc(u)
      <4>. HIDE DEF From
      <4>. QED BY <3>4, <3>5
    <3>. HIDE DEF Anc
    <3>. QED BY <2>2, <3>1, <3>3, <3>6
  <2>. QED BY <2>1, <2>2
<1>2. Adds(f)
  <2>. HIDE DEF Anc
  <2>. QED BY <1>1
<1>. HIDE DEF f
<1>3. Adds(F)
  <2>. HIDE DEF Adds
  <2>. QED BY <1>2
<1>4. Above = F
  BY DEF Above, Up
<1>. HIDE DEF F
<1>. QED BY <1>3, <1>4

\* What is above what is above a path is above it.
LEMMA AboveAbove ==
    ASSUME Threads, NEW p \in Paths, NEW q \in Above[p]
    PROVE  q \in Paths /\ Above[q] \subseteq Above[p]
<1>. DEFINE S == {r \in Paths : \E t \in Above[r] : ~(t \in Paths /\ Above[t] \subseteq Above[r])}
<1>1. ASSUME NEW r \in S, Up(r) \notin S PROVE FALSE
  <2>1. PICK t \in Above[r] : ~(t \in Paths /\ Above[t] \subseteq Above[r])
    OBVIOUS
  <2>2. Up(r) # None /\ Up(r) \in Paths /\ Above[r] = {Up(r)} \cup Above[Up(r)]
    BY <2>1, AboveIs, UpIn
  <2>3. t # Up(r) /\ t \in Above[Up(r)]
    BY <2>1, <2>2
  <2>. QED BY <1>1, <2>1, <2>2, <2>3
<1>2. S \in SUBSET Paths
  OBVIOUS
<1>3. S = {}
  <2>. HIDE DEF S
  <2>. QED BY <1>1, <1>2, Uppermost
<1>. QED BY <1>3

\* No path is above itself.
LEMMA NotAboveItself == ASSUME Threads, NEW p \in Paths PROVE p \notin Above[p]
<1>. DEFINE S == {r \in Paths : r \in Above[r]}
<1>1. ASSUME NEW r \in S, Up(r) \notin S PROVE FALSE
  <2>1. Up(r) # None /\ Up(r) \in Paths /\ Above[r] = {Up(r)} \cup Above[Up(r)]
    BY AboveIs, UpIn
  <2>2. r # Up(r)
    BY <1>1
  <2>3. r \in Above[Up(r)]
    BY <2>1, <2>2
  <2>4. Above[r] \subseteq Above[Up(r)]
    BY <2>1, <2>3, AboveAbove
  <2>. QED BY <1>1, <2>1, <2>4
<1>2. S \in SUBSET Paths
  OBVIOUS
<1>3. S = {}
  <2>. HIDE DEF S
  <2>. QED BY <1>1, <1>2, Uppermost
<1>. QED BY <1>3

\* Of two paths above one, one is above the other.
LEMMA AboveInLine ==
    ASSUME Threads, NEW p \in Paths, NEW q \in Above[p] \cup {p}, NEW r \in Above[p] \cup {p}
    PROVE  q \in Above[r] \cup {r} \/ r \in Above[q]
<1>. DEFINE S == {s \in Paths : \E a, b \in Above[s] \cup {s} :
                     ~(a \in Above[b] \cup {b} \/ b \in Above[a])}
<1>1. ASSUME NEW s \in S, Up(s) \notin S PROVE FALSE
  <2>1. PICK a, b \in Above[s] \cup {s} : ~(a \in Above[b] \cup {b} \/ b \in Above[a])
    OBVIOUS
  <2>2. a # s /\ b # s /\ a \in Above[s]
    BY <2>1
  <2>3. Up(s) # None /\ Up(s) \in Paths /\ Above[s] = {Up(s)} \cup Above[Up(s)]
    BY <2>2, AboveIs, UpIn
  <2>4. a \in Above[Up(s)] \cup {Up(s)} /\ b \in Above[Up(s)] \cup {Up(s)}
    BY <2>2, <2>3
  <2>. QED BY <1>1, <2>1, <2>3, <2>4
<1>2. S \in SUBSET Paths
  OBVIOUS
<1>3. S = {}
  <2>. HIDE DEF S
  <2>. QED BY <1>1, <1>2, Uppermost
<1>. QED BY <1>3

\* A file that seed_checkpointed_files() lists is one that the walk would reach.
LEMMA SeededIsReached ==
    ASSUME Threads, roots.paths \in Seq(Paths), NEW p \in Paths,
           NEW shut, Seeded(p, roLost', shut), shut \subseteq unopened',
           UNCHANGED <<world, roots, locked>>,
           \A q \in Paths : EntryTaken(q, roLost', shut) /\ ~Regular(q) => Fs(q).uuid = locked.uuid
    PROVE  p \in Reach'
<1>0. /\ Paths' = Paths /\ Range(roots.paths) \subseteq Reach'
      /\ \A q \in Paths : Up(q) \in Reach' /\ Wanted(q)' => q \in Reach'
      /\ Reach' \subseteq Paths
  <2>1. Paths' = Paths /\ \A q : Up(q)' = Up(q)
    BY DEF Paths, Up, Node
  <2>2. Closed(Reach)'
    BY DEF Reach, Closed
  <2>3. Range(roots.paths) \subseteq Reach'
    BY <2>1 DEF Reach, Range
  <2>. QED BY <2>1, <2>2, <2>3 DEF Closed, Reach
<1>. DEFINE r == RootOf(p)
            C == (Above[p] \cup {p}) \ (Above[r] \cup {r})
<1>1. r \in Range(roots.paths) /\ r \in Above[p] \cup {p} /\ r \in Paths
  <2>. DEFINE has == {i \in DOMAIN roots.paths : roots.paths[i] \in Above[p] \cup {p}}
  <2>1. has # {} /\ r = roots.paths[Min(has)]
    BY DEF Seeded, RootOf
  <2>2. has \in SUBSET Nat
    OBVIOUS
  <2>3. Min(has) \in has
    <3>. HIDE DEF has
    <3>. QED BY <2>1, <2>2, MinIn
  <2>4. PICK i \in has : r = roots.paths[i]
    BY <2>1, <2>3, Zenon
  <2>5. i \in DOMAIN roots.paths /\ roots.paths[i] \in Above[p] \cup {p}
    OBVIOUS
  <2>6. r \in Range(roots.paths) /\ Range(roots.paths) \subseteq Paths
    BY <2>4, <2>5 DEF Range
  <2>. HIDE DEF r
  <2>. QED BY <2>4, <2>5, <2>6
<1>2. r \in Reach'
  BY <1>0, <1>1
<1>3. \A q \in C : q \in Paths
  BY AboveAbove
<1>4. ASSUME NEW q \in C PROVE Wanted(q)'
  <2>0. /\ Filtered(q)' <=> Filtered(q)
        /\ Regular(q)' <=> Regular(q)
        /\ Fs(q)' = Fs(q)
        /\ RoSkips(q, roLost, unopened)' => RoSkips(q, roLost', shut)
    BY DEF Filtered, Regular, Fs, Node, RoSkips, AsksRo
  <2>1. CASE q = p
    BY <2>0, <2>1 DEF Seeded, EntryTaken, Wanted
  <2>2. CASE q # p
    <3>1. q \in Between(p)
      BY <2>2 DEF Between
    <3>2. EntryTaken(q, roLost', shut) /\ world.opt.recurse
      BY <3>1 DEF Seeded, WalkWouldReach
    <3>. QED BY <1>3, <2>0, <3>2 DEF EntryTaken, Wanted
  <2>. QED BY <2>1, <2>2
<1>. HIDE DEF r
<1>5. ASSUME NEW q \in C, Up(q) \notin C \ Reach' PROVE q \in Reach'
  <2>1. q \in Paths /\ r \in Above[q]
    BY <1>1, <1>3, AboveInLine
  <2>2. Up(q) \in Paths /\ Above[q] = {Up(q)} \cup Above[Up(q)]
    BY <2>1, AboveIs, UpIn
  <2>3. Up(q) \in Above[p] \cup {p}
    BY <2>2, AboveAbove
  <2>4. CASE r = Up(q)
    BY <1>0, <1>2, <1>4, <2>1, <2>4
  <2>5. CASE r # Up(q)
    <3>1. r \in Above[Up(q)]
      BY <2>1, <2>2, <2>5
    <3>2. Up(q) \notin Above[r]
      BY <1>1, <2>2, <3>1, AboveAbove, NotAboveItself
    <3>3. Up(q) \in Reach'
      BY <1>5, <2>3, <2>5, <3>2
    <3>. QED BY <1>0, <1>4, <2>1, <3>3
  <2>. QED BY <2>4, <2>5
<1>6. C \subseteq Reach'
  <2>1. C \ Reach' \in SUBSET Paths
    BY <1>3
  <2>. HIDE DEF C
  <2>. QED BY <1>5, <2>1, Uppermost
<1>7. CASE p \in Above[r]
  <2>1. r = p \/ r \in Above[p]
    BY <1>1
  <2>. QED BY <1>1, <1>7, <2>1, AboveAbove, NotAboveItself
<1>. QED BY <1>2, <1>6, <1>7

-----------------------------------------------------------------------------
(* Nothing is listed or held that is not due, and nothing due is missed. *)

\* The first root taken fixes the filesystem; a device is verified if it is one
\* of its subvolumes.
Locks ==
    /\ roots.paths \in Seq(Paths)
    /\ IF locked.dev = None
       THEN roots.paths = <<>> /\ locked.btrfs = FALSE
       ELSE /\ locked.dev \in DOMAIN world.fs
            /\ locked.uuid = world.fs[locked.dev].uuid /\ locked.uuid # None
            /\ locked.btrfs = world.fs[locked.dev].btrfs
    /\ Seeding /\ locked.dev = None => verified = {}
    /\ locked.btrfs => \A d \in verified : d \in DOMAIN world.fs /\ world.fs[d].uuid = locked.uuid

\* In a subvolume to be skipped, as far as the questions were answered.
Skips(p) == RoSkips(p, roLost, unopened)

\* What is listed, queued or in a walker's hands is due.  An entry that waits
\* for an ioctl has passed the tests before it.
Held ==
    /\ \A p \in listed : p \in Reach /\ Regular(p)
    /\ Range(dirq) \subseteq Reach \cup {Stop}
    /\ \A w \in Walkers :
          IF walker[w].at \in AtDir
          THEN /\ walker[w].dir \in Reach
               /\ walker[w].left \subseteq Children(walker[w].dir)
               /\ walker[w].at # "reading" =>
                     LET p == walker[w].entry
                     IN  /\ Up(p) = walker[w].dir
                         /\ ~Filtered(p) /\ (Regular(p) \/ world.opt.recurse)
                         /\ walker[w].at = "asking" => AsksRo
                         /\ walker[w].at = "probing" =>
                               locked.btrfs /\ ~Regular(p) /\ ~Skips(p)
          ELSE walker[w].left = {}

\* What w has still to look at.
Left(w) == walker[w].left \cup IF walker[w].at = "reading" THEN {} ELSE {walker[w].entry}
Reads(w, p) == walker[w].at \in AtDir /\ walker[w].dir = Up(p) /\ p \in Left(w)

\* T is what was met so far: what is wanted below it is in it, or its directory
\* is queued, or someone who reads that has it left.
Met(T) ==
    /\ Range(roots.paths) \subseteq T
    /\ \A p \in T : Regular(p) => p \in listed
    /\ \A p \in Paths \ T : Up(p) \in T /\ Wanted(p) =>
          Up(p) \in Range(dirq) \/ \E w \in Walkers : Reads(w, p)

Calm == faults = 0 /\ ~halt.abort
NoneMissed == Calm => unopened = {} /\ \E T \in SUBSET Paths : Met(T)

\* A question that fails lets in more than before.
Growing == /\ roLost \subseteq roLost' /\ unopened \subseteq unopened'
           /\ NoFault => UNCHANGED <<roLost, unopened>>

LEMMA AppendRange ==
    ASSUME NEW S, NEW s \in Seq(S), NEW x
    PROVE  Range(Append(s, x)) = Range(s) \cup {x}
<1>1. /\ DOMAIN Append(s, x) = 1 .. Len(s) + 1 /\ DOMAIN s = 1 .. Len(s) /\ Len(s) \in Nat
      /\ Append(s, x)[Len(s) + 1] = x /\ \A i \in 1 .. Len(s) : Append(s, x)[i] = s[i]
  OBVIOUS
<1>2. 1 .. Len(s) + 1 = (1 .. Len(s)) \cup {Len(s) + 1}
  BY <1>1
<1>. QED BY <1>1, <1>2 DEF Range

LEMMA TailRange ==
    ASSUME NEW S, NEW s \in Seq(S), s # <<>>
    PROVE  Range(s) = {Head(s)} \cup Range(Tail(s))
<1>1. /\ DOMAIN s = 1 .. Len(s) /\ Len(s) \in Nat \ {0} /\ Head(s) = s[1]
      /\ DOMAIN Tail(s) = 1 .. Len(s) - 1 /\ \A i \in 1 .. Len(s) - 1 : Tail(s)[i] = s[i + 1]
  OBVIOUS
<1>2. ASSUME NEW i \in 1 .. Len(s) PROVE s[i] = Head(s) \/ \E j \in DOMAIN Tail(s) : Tail(s)[j] = s[i]
  <2>1. CASE i = 1
    BY <1>1, <2>1
  <2>2. CASE i # 1
    <3>1. i - 1 \in 1 .. Len(s) - 1 /\ i - 1 + 1 = i
      BY <1>1, <2>2
    <3>. QED BY <1>1, <3>1
  <2>. QED BY <2>1, <2>2
<1>3. \A j \in 1 .. Len(s) - 1 : j + 1 \in 1 .. Len(s)
  BY <1>1
<1>4. 1 \in 1 .. Len(s)
  BY <1>1
<1>. QED BY <1>1, <1>2, <1>3, <1>4 DEF Range

LEMMA DirqHolds == IInv => dirq \in Seq(Paths \cup {Stop})
<1>1. Seq(Paths) \subseteq Seq(Paths \cup {Stop}) /\ Seq({Stop}) \subseteq Seq(Paths \cup {Stop})
  OBVIOUS
<1>. QED BY <1>1 DEF IInv, Going, Over

\* Who is on the locked filesystem.
LEMMA OnLockedIs ==
    ASSUME Threads, Locks, NEW p \in Paths
    PROVE  /\ OnLocked(p) => Fs(p).uuid = locked.uuid
           /\ locked.dev # None /\ Fs(p).uuid = locked.uuid => OnLocked(p)
<1>1. Node(p).dev \in DOMAIN world.fs /\ None \notin DOMAIN world.fs
  BY TreesOK DEF Threads, Paths, Node
<1>2. OnLocked(p) => locked.dev # None
  BY <1>1 DEF OnLocked, Locks
<1>3. CASE locked.dev # None
  <2>1. /\ locked.dev \in DOMAIN world.fs
        /\ locked.uuid = world.fs[locked.dev].uuid /\ locked.uuid # None
        /\ locked.btrfs = world.fs[locked.dev].btrfs
    BY <1>3 DEF Locks
  <2>2. Node(p).dev # locked.dev /\ Fs(p).uuid = locked.uuid => Fs(p).btrfs /\ locked.btrfs
    <3>1. \A d, e \in DOMAIN world.fs :
              d # e /\ world.fs[d].uuid = world.fs[e].uuid /\ world.fs[d].uuid # None =>
                 world.fs[d].btrfs /\ world.fs[e].btrfs
      BY TreesOK DEF Threads
    <3>. QED BY <1>1, <2>1, <3>1 DEF Fs
  <2>. QED BY <2>1, <2>2 DEF OnLocked, Fs
<1>. QED BY <1>2, <1>3

LEMMA OnLockedUuid ==
    ASSUME Threads, Locks
    PROVE  \A lost, shut : \A q \in Paths :
              EntryTaken(q, lost, shut) /\ ~Regular(q) => Fs(q).uuid = locked.uuid
BY OnLockedIs DEF EntryTaken

LEMMA NoneReached == roots.paths = <<>> => Reach = {}
<1>1. Closed({})
  BY DEF Closed
<1>. QED BY <1>1 DEF Reach, Range

LEMMA HandsLocked ==
    ASSUME Locks, Held, NEW w \in Walkers, walker[w].at \in AtDir
    PROVE  locked.dev # None
BY NoneReached DEF Locks, Held

\* What depends on the tree, the roots and the filesystem only.
LEMMA SameReach ==
    ASSUME world' = world, roots'.paths = roots.paths, locked'.uuid = locked.uuid,
           locked'.btrfs = locked.btrfs, UNCHANGED <<roLost, unopened>>
    PROVE  /\ Paths' = Paths /\ Reach' = Reach
           /\ \A p : Up(p)' = Up(p) /\ Node(p)' = Node(p) /\ Children(p)' = Children(p)
           /\ \A p : Fs(p)' = Fs(p) /\ (Regular(p)' <=> Regular(p)) /\ (Filtered(p)' <=> Filtered(p))
           /\ \A p : (Wanted(p)' <=> Wanted(p)) /\ (Skips(p)' <=> Skips(p))
           /\ AsksRo' = AsksRo
<1>1. Paths' = Paths /\ AsksRo' = AsksRo
  BY DEF Paths, AsksRo
<1>2. \A p : Up(p)' = Up(p) /\ Node(p)' = Node(p) /\ Children(p)' = Children(p)
  BY <1>1 DEF Up, Node, Children
<1>3. \A p : Fs(p)' = Fs(p) /\ (Regular(p)' <=> Regular(p)) /\ (Filtered(p)' <=> Filtered(p))
  BY <1>2 DEF Fs, Regular, Filtered
<1>4. \A p : (Wanted(p)' <=> Wanted(p)) /\ (Skips(p)' <=> Skips(p))
  BY <1>1, <1>2, <1>3 DEF Wanted, Skips, RoSkips
<1>5. \A S : Closed(S)' <=> Closed(S)
  BY <1>1, <1>2, <1>4 DEF Closed
<1>6. Reach' = Reach
  BY <1>1, <1>5 DEF Reach
<1>. QED BY <1>1, <1>2, <1>3, <1>4, <1>6

LEMMA MoreReach ==
    ASSUME world' = world, roots'.paths = roots.paths, locked'.uuid = locked.uuid,
           locked'.btrfs = locked.btrfs, Growing
    PROVE  /\ Paths' = Paths /\ Reach \subseteq Reach'
           /\ \A p : Up(p)' = Up(p) /\ Node(p)' = Node(p) /\ Children(p)' = Children(p)
           /\ \A p : Fs(p)' = Fs(p) /\ (Regular(p)' <=> Regular(p)) /\ (Filtered(p)' <=> Filtered(p))
           /\ \A p : (Wanted(p) => Wanted(p)') /\ (Skips(p)' => Skips(p))
           /\ AsksRo' = AsksRo
<1>1. Paths' = Paths /\ AsksRo' = AsksRo
  BY DEF Paths, AsksRo
<1>2. \A p : Up(p)' = Up(p) /\ Node(p)' = Node(p) /\ Children(p)' = Children(p)
  BY <1>1 DEF Up, Node, Children
<1>3. \A p : Fs(p)' = Fs(p) /\ (Regular(p)' <=> Regular(p)) /\ (Filtered(p)' <=> Filtered(p))
  BY <1>2 DEF Fs, Regular, Filtered
<1>4. \A p : Skips(p)' => Skips(p)
  BY <1>1, <1>2, <1>3 DEF Skips, RoSkips, Growing
<1>5. \A p : Wanted(p) => Wanted(p)'
  BY <1>1, <1>3, <1>4 DEF Wanted, Skips
<1>6. \A S : Closed(S)' => Closed(S)
  BY <1>1, <1>2, <1>5 DEF Closed
<1>7. Reach \subseteq Reach'
  BY <1>1, <1>6 DEF Reach
<1>. QED BY <1>1, <1>2, <1>3, <1>4, <1>5, <1>7

LEMMA SameMet ==
    ASSUME world' = world, roots'.paths = roots.paths, locked'.uuid = locked.uuid,
           locked'.btrfs = locked.btrfs, Locks, Held, locked'.dev = locked.dev,
           UNCHANGED <<dirq, listed, walker>>,
           Seeding' => Seeding, verified' = verified, Growing,
           NoneMissed, Calm' => Calm /\ NoFault
    PROVE  Locks' /\ Held' /\ NoneMissed'
<1>1. Locks'
  BY MoreReach DEF Locks
<1>2. Held'
  BY MoreReach DEF Held
<1>3. ASSUME Calm' PROVE unopened' = {} /\ \E T \in SUBSET Paths : Met(T)'
  <2>1. UNCHANGED <<roLost, unopened>>
    BY <1>3 DEF Growing
  <2>2. \A w, p : Reads(w, p)' <=> Reads(w, p)
    BY <2>1, SameReach DEF Reads, Left
  <2>3. \A T : Met(T) => Met(T)'
    BY <2>1, <2>2, SameReach DEF Met
  <2>. QED BY <1>3, <2>1, <2>3 DEF NoneMissed
<1>4. Paths' = Paths
  BY DEF Paths
<1>. QED BY <1>1, <1>2, <1>3, <1>4 DEF NoneMissed

\* A call that fails is no calm step, and calm does not come back.
LEMMA CalmBefore ==
    ASSUME Kept, Fault \/ NoFault, halt'.abort = halt.abort
    PROVE  Calm' => Calm /\ NoFault /\ ~Fault
BY DEF Kept, Fault, NoFault, Calm

LEMMA QuietMet ==
    ASSUME Honest, Kept, Locks, Held, NoneMissed,
           Consume \/ JoinWalkers \/ JoinWorkers \/ LoadCheckpoints \/ Signal
              \/ (\E w \in Workers : WorkerStep(w)) \/ UNCHANGED vars
    PROVE  Locks' /\ Held' /\ NoneMissed'
<1>1. UNCHANGED <<world, roots, dirq, listed, walker, verified, roLost, unopened>>
  BY DEF Consume, JoinWalkers, JoinWorkers, LoadCheckpoints, Signal, WorkerStep, vars, walkVars,
         seedVars, devVars, roVars
<1>2. locked'.uuid = locked.uuid /\ locked'.btrfs = locked.btrfs /\ locked'.dev = locked.dev
  <2>1. CASE Consume
    <3>1. \/ locked' = locked
          \/ locked' = [locked EXCEPT !.unasked = @ + 1]
          \/ locked' = [locked EXCEPT !.tries = @ + 1]
          \/ locked' = [locked EXCEPT !.dedupe = "YES"]
          \/ locked' = [locked EXCEPT !.dedupe = "NO"]
      BY <2>1 DEF Consume, AskFile, NotAsked, NoAnswer
    <3>. QED BY <3>1 DEF Honest
  <2>2. CASE ~Consume
    BY <2>2 DEF JoinWalkers, JoinWorkers, LoadCheckpoints, Signal, WorkerStep, vars, seedVars
  <2>. QED BY <2>1, <2>2
<1>3. Seeding' => Seeding
  <2>1. CASE Consume
    <3>1. \/ main' = [main EXCEPT !.at = "joining"]
          \/ main' = main
          \/ main' = [main EXCEPT !.ret = 1]
      BY <2>1 DEF Consume, AskFile, Proceed, NotAsked, NoAnswer, Refuse
    <3>. QED BY <3>1 DEF Honest, Seeding
  <2>2. CASE ~Consume
    BY <2>2 DEF JoinWalkers, JoinWorkers, LoadCheckpoints, Signal, WorkerStep, vars, Seeding
  <2>. QED BY <2>1, <2>2
<1>4. Calm' => Calm /\ NoFault
  <2>1. faults' = faults \/ faults' = faults + 1
    BY DEF Consume, JoinWalkers, JoinWorkers, LoadCheckpoints, Signal, WorkerStep, Take, Starve,
           Hash, vars, Fault, NoFault
  <2>2. halt.abort => halt'.abort
    <3>1. \/ halt' = halt \/ halt' = [halt EXCEPT !.abort = TRUE]
          \/ halt' = [halt EXCEPT !.lost = TRUE] \/ halt' = [halt EXCEPT !.signal = TRUE]
      BY DEF Consume, AskFile, Proceed, NotAsked, NoAnswer, Refuse, JoinWalkers, JoinWorkers,
             LoadCheckpoints, Signal, WorkerStep, Take, Starve, Hash, vars
    <3>. QED BY <3>1 DEF Honest
  <2>. QED BY <2>1, <2>2 DEF Calm, Kept, NoFault
<1>. QED BY <1>1, <1>2, <1>3, <1>4, SameMet DEF Growing

\* A root is taken: onto what is queued or listed.
LEMMA PushDoes ==
    ASSUME NEW S, dirq \in Seq(S), NEW p, Push(p)
    PROVE  IF Regular(p) THEN listed' = listed \cup {p} /\ dirq' = dirq
           ELSE listed' = listed /\ Range(dirq') = Range(dirq) \cup {p}
BY AppendRange DEF Push, FileqPush, DirqPush

LEMMA RootTakenMet ==
    ASSUME IInv, Honest, Kept, Locks, Held, NoneMissed, SeedRoot, NEW p \in Paths,
           p = Head(args), Growing,
           \/ RootVerdict(p) = "lock" /\ RootLocks(p)
           \/ RootVerdict(p) = "accept" /\ RootAccepted(p)
    PROVE  Locks' /\ Held' /\ NoneMissed'
<1>1. /\ Threads /\ Going /\ Seeding /\ Seeding'
      /\ UNCHANGED <<world, main, walker, halt>> /\ (Fault \/ NoFault)
      /\ roots'.paths = Append(roots.paths, p) /\ Push(p)
  <2>1. Threads /\ Going /\ Seeding
    BY DEF IInv, Over, SeedRoot, Seeding
  <2>2. RootTaken(p)
    BY DEF RootLocks, RootAccepted
  <2>3. roots'.paths = Append(roots.paths, p) /\ Push(p)
    BY <2>2 DEF RootTaken, Honest
  <2>4. UNCHANGED <<world, main, walker, halt>> /\ (Fault \/ NoFault)
    BY DEF SeedRoot, NoFault
  <2>. QED BY <2>1, <2>3, <2>4 DEF Seeding
<1>2. /\ Paths' = Paths /\ dirq \in Seq(Paths) /\ roots.paths \in Seq(Paths)
      /\ Node(p).dev \in DOMAIN world.fs /\ Node(p).dev # None
  BY <1>1, TreesOK DEF Paths, Going, Locks, Threads, Node
<1>3. /\ roots'.paths \in Seq(Paths)
      /\ Range(roots'.paths) = Range(roots.paths) \cup {p}
  BY <1>1, <1>2, AppendRange
<1>4. IF Regular(p) THEN listed' = listed \cup {p} /\ dirq' = dirq
      ELSE listed' = listed /\ Range(dirq') = Range(dirq) \cup {p}
  BY <1>1, <1>2, PushDoes
<1>5. /\ \A q : Up(q)' = Up(q) /\ Node(q)' = Node(q) /\ Children(q)' = Children(q)
      /\ \A q : Fs(q)' = Fs(q) /\ (Regular(q)' <=> Regular(q)) /\ (Filtered(q)' <=> Filtered(q))
  BY <1>1, <1>2 DEF Up, Node, Children, Fs, Regular, Filtered
<1>6. /\ \A w \in Walkers : walker[w].at \notin AtDir
      /\ \A w \in Walkers : walker'[w].at \notin AtDir
  BY <1>1 DEF Threads, AtDir
<1>7. p \in Reach'
  BY <1>2, <1>3 DEF Reach
<1>8. Calm' => Calm /\ UNCHANGED <<roLost, unopened>>
  BY <1>1, CalmBefore DEF Growing
<1>9. CASE RootVerdict(p) = "lock" /\ RootLocks(p)
  <2>1. /\ locked.dev = None /\ Fs(p).uuid # None /\ verified' = verified
        /\ locked'.uuid = Fs(p).uuid /\ locked'.dev = Node(p).dev /\ locked'.btrfs = Fs(p).btrfs
    BY <1>9 DEF RootVerdict, RootLocks, Honest
  <2>2. roots.paths = <<>> /\ verified = {} /\ Reach = {}
    BY <1>1, <2>1, NoneReached DEF Locks
  <2>3. Locks'
    BY <1>1, <1>2, <1>3, <2>1, <2>2 DEF Locks, Fs
  <2>4. listed = {} /\ Range(dirq) \subseteq {Stop}
    BY <2>2 DEF Held
  <2>5. Held'
    <3>1. \A q \in listed' : q \in Reach' /\ Regular(q)'
      BY <1>4, <1>5, <1>7, <2>4
    <3>2. Range(dirq') \subseteq Reach' \cup {Stop}
      BY <1>4, <1>7, <2>4
    <3>. QED BY <1>1, <1>6, <3>1, <3>2 DEF Held
  <2>6. Met({p})'
    <3>0. Range(roots.paths) = {}
      BY <2>2 DEF Range
    <3>1. Range(roots'.paths) \subseteq {p}
      BY <1>3, <3>0
    <3>2. Regular(p)' => p \in listed'
      BY <1>4, <1>5
    <3>3. ASSUME NEW q \in Paths, Up(q) = p PROVE p \in Range(dirq')
      <4>1. ~Regular(p)
        BY <1>1, <1>2, <3>3, UpIn, WorldsOK, TreesOK DEF Threads, Paths
      <4>. QED BY <1>4, <4>1
    <3>. QED BY <1>2, <1>5, <3>1, <3>2, <3>3 DEF Met
  <2>7. NoneMissed'
    BY <1>2, <1>8, <2>6 DEF NoneMissed
  <2>. QED BY <2>3, <2>5, <2>7
<1>10. CASE RootVerdict(p) = "accept" /\ RootAccepted(p)
  <2>1. /\ locked.dev # None /\ OnLocked(p) /\ locked' = locked
        /\ verified' = IF locked.btrfs THEN verified \cup {Node(p).dev} ELSE verified
    BY <1>10 DEF RootVerdict, RootAccepted
  <2>2. Fs(p).uuid = locked.uuid
    BY <1>1, <2>1, OnLockedIs
  <2>3. Locks'
    BY <1>1, <1>2, <1>3, <2>1, <2>2 DEF Locks, Fs
  <2>4. /\ AsksRo' = AsksRo /\ \A q : Wanted(q) => Wanted(q)'
        /\ Calm' => \A q : Wanted(q)' <=> Wanted(q)
    <3>1. AsksRo' = AsksRo
      BY <1>1, <2>1 DEF AsksRo
    <3>2. \A q : RoSkips(q, roLost, unopened)' => RoSkips(q, roLost, unopened)
      BY <1>5, <3>1 DEF RoSkips, Growing
    <3>3. Calm' => \A q : RoSkips(q, roLost, unopened)' <=> RoSkips(q, roLost, unopened)
      BY <1>5, <1>8, <3>1 DEF RoSkips
    <3>. QED BY <1>1, <1>5, <2>1, <3>1, <3>2, <3>3 DEF Wanted
  <2>5. \A S : Closed(S)' => Closed(S)
    BY <1>2, <1>5, <2>4 DEF Closed
  <2>6. Reach \subseteq Reach'
    BY <1>2, <1>3, <2>5 DEF Reach
  <2>7. Held'
    <3>1. \A q \in listed' : q \in Reach' /\ Regular(q)'
      BY <1>4, <1>5, <1>7, <2>6 DEF Held
    <3>2. Range(dirq') \subseteq Reach' \cup {Stop}
      BY <1>4, <1>7, <2>6 DEF Held
    <3>3. \A w \in Walkers : walker'[w].left = {}
      BY <1>1, <1>6 DEF Held
    <3>. QED BY <1>6, <3>1, <3>2, <3>3 DEF Held
  <2>8. ASSUME Calm', NEW T \in SUBSET Paths, Met(T) PROVE Met(T \cup {p})'
    <3>1. Range(roots'.paths) \subseteq T \cup {p}
      BY <1>3, <2>8 DEF Met
    <3>2. \A q \in T \cup {p} : Regular(q)' => q \in listed'
      BY <1>4, <1>5, <2>8 DEF Met
    <3>3. ASSUME NEW q \in Paths \ (T \cup {p}), Up(q) \in T \cup {p}, Wanted(q)
          PROVE  Up(q) \in Range(dirq')
      <4>1. CASE Up(q) = p
        <5>1. ~Regular(p)
          BY <1>1, <4>1, UpIn, TreesOK DEF Threads, Paths
        <5>. QED BY <1>4, <4>1, <5>1
      <4>2. CASE Up(q) \in T
        <5>1. Up(q) \in Range(dirq)
          BY <1>6, <2>8, <3>3, <4>2 DEF Met, Reads
        <5>. QED BY <1>4, <5>1
      <4>. QED BY <3>3, <4>1, <4>2
    <3>. QED BY <1>2, <1>5, <2>4, <2>8, <3>1, <3>2, <3>3 DEF Met
  <2>9. NoneMissed'
    <3>1. SUFFICES ASSUME Calm' PROVE unopened' = {} /\ \E T \in SUBSET Paths : Met(T)'
      BY <1>2 DEF NoneMissed
    <3>2. PICK T \in SUBSET Paths : Met(T)
      BY <1>8, <3>1 DEF NoneMissed
    <3>3. Met(T \cup {p})' /\ T \cup {p} \in SUBSET Paths
      BY <2>8, <3>1, <3>2
    <3>4. unopened' = {}
      BY <1>8, <3>1 DEF NoneMissed
    <3>. QED BY <3>3, <3>4
  <2>. QED BY <2>3, <2>7, <2>9
<1>. QED BY <1>9, <1>10

LEMMA SeedRootMet ==
    ASSUME IInv, Honest, Kept, Locks, Held, NoneMissed, SeedRoot
    PROVE  Locks' /\ Held' /\ NoneMissed'
<1>. DEFINE p == Head(args)
<1>1. /\ UNCHANGED <<world, main, walker, halt>> /\ (Fault \/ NoFault) /\ p \in Paths \cup {None}
      /\ Paths' = Paths
  <2>1. UNCHANGED <<world, main, walker, halt>> /\ (Fault \/ NoFault)
        /\ main.at = "seeding" /\ args # <<>>
    BY DEF SeedRoot
  <2>2. args \in Seq(Paths \cup {None})
    BY DEF IInv, Threads
  <2>. QED BY <2>1, <2>2 DEF Paths
<1>0. Growing
  BY DEF Growing, SeedRoot, RoInsert, RoUnopened, roVars, Fault, NoFault, Kept
<1>2. CASE p \in Paths /\ \/ RootVerdict(p) = "lock" /\ RootLocks(p)
                          \/ RootVerdict(p) = "accept" /\ RootAccepted(p)
  BY <1>0, <1>2, RootTakenMet
<1>3. CASE \/ RootUnusable \/ RootFails \/ RootWrong
           \/ NoPush /\ UNCHANGED <<roots, locked, verified>>
  <2>1. roots'.paths = roots.paths /\ UNCHANGED <<locked, verified, dirq, listed>>
    BY <1>3 DEF RootUnusable, RootFails, RootWrong, NoPush, Honest
  <2>2. Calm' => Calm /\ NoFault
    BY <1>1, CalmBefore
  <2>3. Seeding' => Seeding
    BY <1>1 DEF Seeding
  <2>. QED BY <1>0, <1>1, <2>1, <2>2, <2>3, SameMet
<1>4. \/ RootUnusable \/ RootFails \/ RootWrong
      \/ NoPush /\ UNCHANGED <<roots, locked, verified>>
      \/ p # None /\ RootVerdict(p) = "lock" /\ RootLocks(p)
      \/ p # None /\ RootVerdict(p) = "accept" /\ RootAccepted(p)
  BY DEF SeedRoot, RootSkipped, RootJudged, RootUnprobed
<1>. QED BY <1>1, <1>2, <1>3, <1>4

LEMMA SeedFileMet ==
    ASSUME IInv, Honest, Kept, Locks, Held, NoneMissed, SeedFile
    PROVE  Locks' /\ Held' /\ NoneMissed'
<1>. DEFINE p == Head(args)
<1>0. PICK shut : \/ /\ SeedCaches(p, roLost', shut) /\ dirq' = dirq
                     /\ \/ listed' = listed
                        \/ Seeded(p, roLost', shut) /\ listed' = listed \cup {p}
                     /\ NoFault => roLost' = roLost /\ shut = {}
                  \/ UNCHANGED <<dirq, listed, devVars>>
  <2>1. CASE /\ IF Seeded(p, roLost, {}) THEN FileqPush(p) ELSE NoPush
             /\ SeedCaches(p, roLost, {})
    <3>1. roLost' = roLost
      BY <2>1 DEF SeedCaches
    <3>. QED BY <2>1, <3>1 DEF FileqPush, NoPush
  <2>2. ASSUME NEW lost, NEW shut, SeedCaches(p, lost, shut), Fault,
               IF Seeded(p, lost, shut) THEN FileqPush(p) ELSE NoPush
        PROVE  /\ SeedCaches(p, roLost', shut) /\ dirq' = dirq
               /\ \/ listed' = listed
                  \/ Seeded(p, roLost', shut) /\ listed' = listed \cup {p}
               /\ ~NoFault
    <3>1. roLost' = lost
      BY <2>2 DEF SeedCaches
    <3>2. ~NoFault
      BY <2>2 DEF Fault, NoFault, Kept
    <3>. QED BY <2>2, <3>1, <3>2 DEF FileqPush, NoPush
  <2>3. CASE NoPush /\ UNCHANGED devVars
    BY <2>3 DEF NoPush
  <2>. QED BY <2>1, <2>2, <2>3 DEF SeedFile
<1>. DEFINE dirs == {Node(q).dev :
                        q \in {r \in Asked(p, roLost', shut) :
                                 ~Regular(r) /\ EntryTaken(r, roLost', shut)}}
<1>1. /\ Threads /\ Going /\ Seeding /\ p \in Paths
      /\ UNCHANGED <<world, main, roots, locked, walker, halt>> /\ (Fault \/ NoFault)
  BY DEF IInv, Over, Threads, Seeding, SeedFile, NoFault
<1>2. verified' = verified \/ (locked.btrfs /\ verified' = verified \cup dirs)
  BY <1>0 DEF SeedCaches, devVars
<1>3. /\ dirq' = dirq
      /\ \/ listed' = listed
         \/ /\ Seeded(p, roLost', shut) /\ shut \subseteq unopened'
            /\ listed' = listed \cup {p}
  BY <1>0 DEF SeedCaches
<1>10. Growing
  BY <1>0 DEF Growing, SeedCaches, devVars, roVars
<1>4. Locks'
  <2>1. \A d \in dirs : d \in DOMAIN world.fs /\ world.fs[d].uuid = locked.uuid
    <3>. SUFFICES ASSUME NEW q \in Asked(p, roLost', shut), ~Regular(q),
                         EntryTaken(q, roLost', shut)
                  PROVE  Node(q).dev \in DOMAIN world.fs /\ Fs(q).uuid = locked.uuid
      BY DEF Fs
    <3>1. q \in Paths
      BY <1>1, AboveAbove DEF Asked, Between
    <3>. QED BY <1>1, <3>1, OnLockedUuid, TreesOK DEF Threads, Paths, Node
  <2>2. locked.dev = None => locked.btrfs = FALSE
    BY DEF Locks
  <2>. HIDE DEF dirs
  <2>. QED BY <1>1, <1>2, <2>1, <2>2 DEF Locks, Paths, Seeding
<1>5. /\ Reach \subseteq Reach' /\ Paths' = Paths /\ AsksRo' = AsksRo
      /\ \A q : Up(q)' = Up(q) /\ Node(q)' = Node(q) /\ Children(q)' = Children(q)
      /\ \A q : Fs(q)' = Fs(q) /\ (Regular(q)' <=> Regular(q)) /\ (Filtered(q)' <=> Filtered(q))
      /\ \A q : Skips(q)' => Skips(q)
  BY <1>1, <1>10, MoreReach
<1>6. Held'
  <2>1. Seeded(p, roLost', shut) /\ shut \subseteq unopened' => p \in Reach' /\ Regular(p)
    <3>1. Threads /\ roots.paths \in Seq(Paths) /\ p \in Paths
          /\ UNCHANGED <<world, roots, locked>>
          /\ \A q \in Paths : EntryTaken(q, roLost', shut) /\ ~Regular(q) => Fs(q).uuid = locked.uuid
      BY <1>1, OnLockedUuid DEF Locks
    <3>. HIDE DEF p
    <3>2. Seeded(p, roLost', shut) => Regular(p)
      BY DEF Seeded
    <3>. QED BY <3>1, <3>2, SeededIsReached
  <2>2. \A q \in listed' : q \in Reach' /\ Regular(q)'
    BY <1>3, <1>5, <2>1 DEF Held
  <2>. QED BY <1>1, <1>3, <1>5, <2>2 DEF Held
<1>8. Calm' => Calm /\ UNCHANGED <<roLost, unopened>>
  BY <1>1, <1>10, CalmBefore DEF Growing
<1>7. ASSUME Calm', NEW T \in SUBSET Paths, Met(T) PROVE Met(T)'
  <2>0. \A q : Wanted(q)' <=> Wanted(q)
    BY <1>1, <1>7, <1>8, SameReach
  <2>1. \A w, q : Reads(w, q)' <=> Reads(w, q)
    BY <1>1, <1>5 DEF Reads, Left
  <2>. QED BY <1>1, <1>3, <1>5, <1>7, <2>0, <2>1 DEF Met
<1>9. NoneMissed'
  BY <1>5, <1>7, <1>8 DEF NoneMissed
<1>. QED BY <1>4, <1>6, <1>9

\* The walkers start, and whoever counts off the last directory stops them:
\* the queue gets nothing but sentinels, and no one was left with anything.
LEMMA FinishedMet ==
    ASSUME IInv, Honest, Kept, Locks, Held, NoneMissed, Finished,
           UNCHANGED <<world, roots, locked, listed, verified, halt, faults, roLost, unopened>>,
           Seeding' => Seeding,
           \A w \in Walkers :
              \/ walker'[w] = walker[w]
              \/ /\ walker[w].at \notin AtDir \/ (walker[w].at = "reading" /\ walker[w].left = {})
                 /\ walker'[w].at \notin AtDir /\ walker'[w].left = walker[w].left
    PROVE  Locks' /\ Held' /\ NoneMissed'
<1>1. /\ Reach' = Reach /\ Paths' = Paths /\ AsksRo' = AsksRo
      /\ \A q : Up(q)' = Up(q) /\ Node(q)' = Node(q) /\ Children(q)' = Children(q)
      /\ \A q : Fs(q)' = Fs(q) /\ (Regular(q)' <=> Regular(q)) /\ (Filtered(q)' <=> Filtered(q))
      /\ \A q : (Wanted(q)' <=> Wanted(q)) /\ (Skips(q)' <=> Skips(q))
  BY SameReach
<1>2. Locks'
  BY <1>1 DEF Locks
<1>3. Range(dirq') \subseteq Range(dirq) \cup {Stop} /\ Range(dirq) \subseteq Range(dirq')
  <2>1. dirq \in Seq(Paths \cup {Stop}) /\ Stops \in Seq({Stop})
    BY DirqHolds, StopsAreStops
  <2>2. dirq' = dirq \/ dirq' = dirq \o Stops
    BY DEF Finished, DirqFinished
  <2>3. CASE dirq' = dirq \o Stops
    <3>1. /\ Len(dirq) \in Nat /\ Len(Stops) \in Nat /\ DOMAIN dirq = 1 .. Len(dirq)
          /\ DOMAIN dirq' = 1 .. Len(dirq) + Len(Stops)
          /\ \A i \in 1 .. Len(dirq) : dirq'[i] = dirq[i]
          /\ \A i \in Len(dirq) + 1 .. Len(dirq) + Len(Stops) :
                dirq'[i] = Stops[i - Len(dirq)] /\ i - Len(dirq) \in 1 .. Len(Stops)
      BY <2>1, <2>3
    <3>2. \A i \in DOMAIN dirq' : i \in 1 .. Len(dirq) \/ i \in Len(dirq) + 1 .. Len(dirq) + Len(Stops)
      BY <3>1
    <3>3. \A i \in 1 .. Len(Stops) : Stops[i] = Stop
      BY <2>1
    <3>4. \A i \in DOMAIN dirq' : dirq'[i] \in Range(dirq) \cup {Stop}
      BY <3>1, <3>2, <3>3 DEF Range
    <3>5. \A i \in DOMAIN dirq : i \in DOMAIN dirq' /\ dirq[i] = dirq'[i]
      BY <3>1
    <3>. QED BY <3>4, <3>5 DEF Range
  <2>. QED BY <2>2, <2>3
<1>4. Held'
  <2>1. \A q \in listed' : q \in Reach' /\ Regular(q)'
    BY <1>1 DEF Held
  <2>2. Range(dirq') \subseteq Reach' \cup {Stop}
    BY <1>1, <1>3 DEF Held
  <2>3. ASSUME NEW w \in Walkers, walker'[w] # walker[w]
        PROVE  walker'[w].at \notin AtDir /\ walker'[w].left = {}
    BY <2>3 DEF Held
  <2>. QED BY <1>1, <2>1, <2>2, <2>3 DEF Held
<1>5. \A w \in Walkers : \A q : Reads(w, q) => Reads(w, q)'
  BY <1>1 DEF Reads, Left
<1>6. ASSUME NEW T \in SUBSET Paths, Met(T) PROVE Met(T)'
  BY <1>1, <1>3, <1>5, <1>6 DEF Met
<1>. QED BY <1>1, <1>2, <1>4, <1>6 DEF NoneMissed, Calm

LEMMA CountedOffMet ==
    ASSUME IInv, Honest, Kept, Locks, Held, NoneMissed,
           StartWalk \/ \E w \in Walkers : EndDir(w)
    PROVE  Locks' /\ Held' /\ NoneMissed'
<1>1. CASE StartWalk
  <2>1. /\ Finished
        /\ UNCHANGED <<world, roots, locked, listed, verified, halt, faults, roLost, unopened>>
        /\ walker' = [w \in Walkers |-> [walker[w] EXCEPT !.at = "idle"]]
        /\ Threads /\ Seeding
    BY <1>1 DEF StartWalk, seedVars, devVars, roVars, IInv, Seeding
  <2>2. \A w \in Walkers : /\ walker[w].at \notin AtDir
                           /\ walker'[w].at = "idle" /\ walker'[w].left = walker[w].left
    BY <2>1 DEF Threads, AtDir
  <2>3. "idle" \notin AtDir
    BY DEF AtDir
  <2>. QED BY <2>1, <2>2, <2>3, FinishedMet
<1>2. ASSUME NEW w \in Walkers, EndDir(w) PROVE Locks' /\ Held' /\ NoneMissed'
  <2>1. /\ Finished
        /\ UNCHANGED <<world, main, roots, locked, listed, verified, halt, faults, roLost, unopened>>
        /\ walker[w].at = "reading" /\ walker[w].left = {}
        /\ walker' = [walker EXCEPT ![w] = [walker[w] EXCEPT !.at = "idle", !.dir = None]]
        /\ Threads
    BY <1>2 DEF EndDir, MainOnly, seedVars, devVars, roVars, IInv
  <2>2. /\ walker'[w].at = "idle" /\ walker'[w].left = walker[w].left
        /\ \A v \in Walkers \ {w} : walker'[v] = walker[v]
    BY <2>1 DEF Threads
  <2>3. "idle" \notin AtDir /\ (Seeding' => Seeding)
    BY <2>1 DEF AtDir, Seeding
  <2>. QED BY <2>1, <2>2, <2>3, FinishedMet
<1>. QED BY <1>1, <1>2

LEMMA TakeDirMet ==
    ASSUME IInv, Honest, Kept, Locks, Held, NoneMissed, NEW w \in Walkers, TakeDir(w)
    PROVE  Locks' /\ Held' /\ NoneMissed'
<1>. DEFINE d == Head(dirq)
<1>1. /\ UNCHANGED <<world, main, roots, locked, listed, verified, halt, roLost, unopened>>
      /\ Fault \/ NoFault
      /\ walker[w].at = "idle" /\ dirq # <<>> /\ dirq' = Tail(dirq) /\ Threads
      /\ dirq \in Seq(Paths \cup {Stop})
  BY DirqHolds DEF TakeDir, MainOnly, seedVars, devVars, roVars, NoFault, IInv
<1>2. Range(dirq) = {d} \cup Range(dirq') /\ d \in Paths \cup {Stop}
  BY <1>1, TailRange
<1>3. walker[w].left = {}
  BY <1>1 DEF Held, AtDir
<1>4. /\ \A v \in Walkers \ {w} : walker'[v] = walker[v]
      /\ \/ d = Stop /\ walker'[w].at = "gone" /\ walker'[w].left = {}
         \/ /\ d # Stop /\ walker'[w].at = "reading" /\ walker'[w].dir = d
            /\ \/ walker'[w].left = Children(d)
               \/ walker'[w].left = {} /\ (Fault \/ halt.signal \/ walk_aborted)
  <2>1. \/ d = Stop /\ walker' = [walker EXCEPT ![w].at = "gone"]
        \/ /\ d # Stop /\ (Fault \/ halt.signal \/ walk_aborted)
           /\ walker' = [walker EXCEPT ![w] = [walker[w] EXCEPT !.at = "reading", !.dir = d]]
        \/ /\ d # Stop
           /\ walker' = [walker EXCEPT ![w] =
                 [walker[w] EXCEPT !.at = "reading", !.dir = d, !.left = Children(d)]]
    BY DEF TakeDir, Walker
  <2>. QED BY <1>1, <1>3, <2>1 DEF Threads
<1>5. /\ Reach' = Reach /\ Paths' = Paths /\ AsksRo' = AsksRo
      /\ \A q : Up(q)' = Up(q) /\ Node(q)' = Node(q) /\ Children(q)' = Children(q)
      /\ \A q : Fs(q)' = Fs(q) /\ (Regular(q)' <=> Regular(q)) /\ (Filtered(q)' <=> Filtered(q))
      /\ \A q : (Wanted(q)' <=> Wanted(q)) /\ (Skips(q)' <=> Skips(q))
  BY <1>1, SameReach
<1>6. Locks'
  BY <1>1, <1>5 DEF Locks, Seeding
<1>7. Held'
  <2>1. \A q \in listed' : q \in Reach' /\ Regular(q)'
    BY <1>1, <1>5 DEF Held
  <2>2. Range(dirq') \subseteq Reach' \cup {Stop} /\ (d # Stop => d \in Reach)
    BY <1>2, <1>5 DEF Held
  <2>3. IF walker'[w].at \in AtDir
        THEN walker'[w].at = "reading" /\ walker'[w].dir \in Reach
             /\ walker'[w].left \subseteq Children(walker'[w].dir)
        ELSE walker'[w].left = {}
    BY <1>4, <2>2 DEF AtDir
  <2>. QED BY <1>1, <1>4, <1>5, <2>1, <2>2, <2>3 DEF Held
<1>8. Calm' => Calm /\ walker'[w].left = IF d = Stop THEN {} ELSE Children(d)
  <2>1. Calm' => Calm /\ ~Fault
    BY <1>1, CalmBefore
  <2>2. Calm => ~halt.signal /\ ~walk_aborted
    BY DEF Calm, Kept, walk_aborted
  <2>. QED BY <1>4, <2>1, <2>2
<1>9. ASSUME Calm', NEW T \in SUBSET Paths, Met(T) PROVE Met(T)'
  <2>1. ASSUME NEW q \in Paths \ T, Up(q) \in T, Wanted(q)
        PROVE  Up(q) \in Range(dirq') \/ \E v \in Walkers : Reads(v, q)'
    <3>1. CASE Up(q) = d
      <4>1. d # Stop /\ q \in Children(d)
        BY <1>1, <1>9, <2>1, <3>1, StopIsNoPath DEF Children, Up
      <4>2. Reads(w, q)'
        BY <1>4, <1>5, <1>8, <1>9, <3>1, <4>1 DEF Reads, Left, AtDir
      <4>. QED BY <4>2
    <3>2. CASE Up(q) # d /\ Up(q) \in Range(dirq)
      BY <1>2, <3>2
    <3>3. ASSUME NEW v \in Walkers, Reads(v, q) PROVE Reads(v, q)'
      <4>1. v # w
        BY <1>1, <3>3 DEF Reads, AtDir
      <4>. QED BY <1>4, <1>5, <3>3, <4>1 DEF Reads, Left
    <3>. QED BY <1>9, <2>1, <3>1, <3>2, <3>3 DEF Met
  <2>. QED BY <1>1, <1>5, <1>9, <2>1 DEF Met
<1>. QED BY <1>1, <1>5, <1>6, <1>7, <1>8, <1>9 DEF NoneMissed

LEMMA EntryAt ==
    ASSUME Threads, NEW w \in Walkers, NEW at, NEW p, NEW entry, Entry(w, at, p, entry)
    PROVE  walker'[w].at = at
BY DEF Entry, Threads

\* One entry is dropped, given to a queue, or put to the kernel.
LEMMA EntryMet ==
    ASSUME IInv, Locks, Held, NoneMissed, NEW w \in Walkers, walker[w].at \in AtDir,
           NEW p \in Paths, Up(p) = walker[w].dir,
           walker[w].at # "reading" => p = walker[w].entry,
           UNCHANGED <<world, main, roots, locked>>, Locks', Growing, Calm' => Calm /\ NoFault,
           \/ Drop(w, p) /\ (Calm' => ~Wanted(p)')
           \/ Give(w, p) /\ Wanted(p)'
           \/ \E at \in {"asking", "probing"} :
                 /\ Entry(w, at, p, p) /\ NoPush
                 /\ ~Filtered(p) /\ (Regular(p) \/ world.opt.recurse)
                 /\ at = "asking" => AsksRo
                 /\ at = "probing" => locked.btrfs /\ ~Regular(p) /\ ~Skips(p)'
    PROVE  Held' /\ NoneMissed'
<1>1. Threads /\ Going /\ dirq \in Seq(Paths)
  BY BusyGoes DEF Going
<1>2. /\ Reach \subseteq Reach' /\ Paths' = Paths /\ AsksRo' = AsksRo
      /\ \A q : Up(q)' = Up(q) /\ Node(q)' = Node(q) /\ Children(q)' = Children(q)
      /\ \A q : Fs(q)' = Fs(q) /\ (Regular(q)' <=> Regular(q)) /\ (Filtered(q)' <=> Filtered(q))
      /\ \A q : Skips(q)' => Skips(q)
  BY MoreReach
<1>0. Calm' => UNCHANGED <<roLost, unopened>> /\ \A q : Wanted(q)' <=> Wanted(q)
  BY SameReach DEF Growing
<1>3. PICK at \in AtDir, entry \in {p, None} : Entry(w, at, p, entry) /\ (at # "reading" => entry = p)
  BY DEF Drop, Give, AtDir
<1>4. /\ \A v \in Walkers \ {w} : walker'[v] = walker[v]
      /\ walker'[w].at = at /\ walker'[w].dir = walker[w].dir /\ walker'[w].entry = entry
      /\ walker'[w].left = walker[w].left \ {p}
  BY <1>1, <1>3 DEF Entry, Threads
<1>5. \/ UNCHANGED <<dirq, listed>>
      \/ Wanted(p)' /\ Push(p)
  BY DEF Drop, Give, NoPush
<1>6. Push(p) => IF Regular(p) THEN listed' = listed \cup {p} /\ dirq' = dirq
                 ELSE listed' = listed /\ Range(dirq') = Range(dirq) \cup {p}
  BY <1>1, PushDoes
<1>7. Wanted(p)' => p \in Reach'
  <2>1. Closed(Reach)'
    BY DEF Reach, Closed
  <2>2. Up(p)' \in Reach'
    BY <1>2 DEF Held
  <2>. QED BY <1>2, <2>1, <2>2 DEF Closed
<1>8. at # "reading" => /\ ~Filtered(p) /\ (Regular(p) \/ world.opt.recurse)
                        /\ at = "asking" => AsksRo
                        /\ at = "probing" => locked.btrfs /\ ~Regular(p) /\ ~Skips(p)'
  <2>1. ASSUME NEW b \in {"asking", "probing"}, Entry(w, b, p, p) PROVE at = b
    BY <1>1, <1>4, <2>1, EntryAt
  <2>2. ASSUME Drop(w, p) \/ Give(w, p) PROVE at = "reading"
    <3>1. Entry(w, "reading", p, None)
      BY <2>2 DEF Drop, Give
    <3>. QED BY <1>1, <1>4, <3>1, EntryAt
  <2>. QED BY <2>1, <2>2
<1>9. Held'
  <2>1. \A q \in listed' : q \in Reach' /\ Regular(q)'
    BY <1>2, <1>5, <1>6, <1>7 DEF Held
  <2>2. Range(dirq') \subseteq Reach' \cup {Stop}
    BY <1>2, <1>5, <1>6, <1>7 DEF Held
  <2>3. /\ walker'[w].dir \in Reach /\ walker'[w].left \subseteq Children(walker'[w].dir)
        /\ at # "reading" => Up(walker'[w].entry) = walker'[w].dir /\ walker'[w].entry = p
    BY <1>3, <1>4 DEF Held
  <2>4. ASSUME NEW v \in Walkers
        PROVE  IF walker'[v].at \in AtDir
               THEN /\ walker'[v].dir \in Reach
                    /\ walker'[v].left \subseteq Children(walker'[v].dir)
                    /\ walker'[v].at # "reading" =>
                          /\ Up(walker'[v].entry) = walker'[v].dir
                          /\ ~Filtered(walker'[v].entry)
                          /\ Regular(walker'[v].entry) \/ world.opt.recurse
                          /\ walker'[v].at = "asking" => AsksRo
                          /\ walker'[v].at = "probing" =>
                                /\ locked.btrfs /\ ~Regular(walker'[v].entry)
                                /\ \A q : q = walker'[v].entry => ~Skips(q)'
               ELSE walker'[v].left = {}
    <3>1. CASE v = w
      BY <1>4, <1>8, <2>3, <3>1
    <3>2. CASE v # w
      BY <1>2, <1>4, <3>2 DEF Held
    <3>. QED BY <3>1, <3>2
  <2>. QED BY <1>2, <2>1, <2>2, <2>4 DEF Held
<1>10. ASSUME Calm', NEW T \in SUBSET Paths, Met(T)
       PROVE  \E U \in SUBSET Paths : Met(U)'
  <2>1. ASSUME NEW v \in Walkers, NEW q, q # p, Reads(v, q) PROVE Reads(v, q)'
    <3>1. CASE v = w
      BY <1>2, <1>4, <2>1, <3>1 DEF Reads, Left
    <3>2. CASE v # w
      BY <1>2, <1>4, <2>1, <3>2 DEF Reads, Left
    <3>. QED BY <3>1, <3>2
  <2>0. \A q : Wanted(q)' <=> Wanted(q)
    BY <1>0, <1>10
  <2>2. CASE Push(p) /\ Wanted(p)
    <3>1. Range(roots'.paths) \subseteq T \cup {p}
      BY <1>10 DEF Met
    <3>2. \A q \in T \cup {p} : Regular(q)' => q \in listed'
      BY <1>2, <1>6, <1>10, <2>2 DEF Met
    <3>3. ASSUME NEW q \in Paths \ (T \cup {p}), Up(q) \in T \cup {p}, Wanted(q)
          PROVE  Up(q) \in Range(dirq') \/ \E v \in Walkers : Reads(v, q)'
      <4>1. CASE Up(q) = p
        <5>1. ~Regular(p)
          BY <1>1, <4>1, UpIn, TreesOK DEF Threads, Paths
        <5>. QED BY <1>6, <2>2, <4>1, <5>1
      <4>2. CASE Up(q) \in T
        <5>1. Up(q) \in Range(dirq) \/ \E v \in Walkers : Reads(v, q)
          BY <1>10, <3>3, <4>2 DEF Met
        <5>. QED BY <1>6, <2>1, <2>2, <3>3, <5>1
      <4>. QED BY <3>3, <4>1, <4>2
    <3>4. Met(T \cup {p})'
      BY <1>2, <2>0, <3>1, <3>2, <3>3 DEF Met
    <3>. QED BY <3>4
  <2>3. CASE ~(Push(p) /\ Wanted(p))
    <3>1. UNCHANGED <<dirq, listed>>
      BY <1>5, <2>0, <2>3
    <3>2. Wanted(p) => Reads(w, p)'
      <4>1. ASSUME Wanted(p) PROVE at # "reading"
        <5>1. PICK b \in {"asking", "probing"} : Entry(w, b, p, p)
          BY <1>10, <2>0, <2>3, <4>1 DEF Give
        <5>2. at = b
          BY <1>1, <1>4, <5>1, EntryAt
        <5>. QED BY <5>2
      <4>. QED BY <1>2, <1>3, <1>4, <4>1 DEF Reads, Left
    <3>3. ASSUME NEW q \in Paths \ T, Up(q) \in T, Wanted(q)
          PROVE  Up(q) \in Range(dirq') \/ \E v \in Walkers : Reads(v, q)'
      <4>1. Up(q) \in Range(dirq) \/ \E v \in Walkers : Reads(v, q)
        BY <1>10, <3>3 DEF Met
      <4>. QED BY <2>1, <3>1, <3>2, <3>3, <4>1
    <3>4. Met(T)'
      BY <1>2, <1>10, <2>0, <3>1, <3>3 DEF Met
    <3>. QED BY <3>4
  <2>. QED BY <2>2, <2>3
<1>11. NoneMissed'
  BY <1>0, <1>2, <1>10 DEF NoneMissed
<1>. QED BY <1>9, <1>11

\* CheckDev of an entry that has passed the tests before it.
LEMMA CheckDevMet ==
    ASSUME Threads, Locks, Held, NEW w \in Walkers, walker[w].at \in AtDir, NEW p \in Paths,
           CheckDev(w, p), ~Filtered(p), Regular(p) \/ world.opt.recurse, ~Skips(p)',
           UNCHANGED <<world, locked>>
    PROVE  \/ Drop(w, p) /\ ~Wanted(p)'
           \/ Give(w, p) /\ Wanted(p)'
           \/ /\ Entry(w, "probing", p, p) /\ NoPush
              /\ locked.btrfs /\ ~Regular(p)
<1>1. locked.dev # None
  BY HandsLocked
<1>2. Wanted(p)' <=> Regular(p) \/ Fs(p).uuid = locked.uuid
  BY DEF Wanted, Skips, Filtered, Regular, Fs, Node
<1>3. OnLocked(p) <=> Fs(p).uuid = locked.uuid
  BY <1>1, OnLockedIs
<1>4. locked.btrfs /\ Node(p).dev \in verified => Fs(p).uuid = locked.uuid
  BY DEF Locks, Fs
<1>. QED BY <1>2, <1>3, <1>4 DEF CheckDev

LEMMA WalkerMet ==
    ASSUME IInv, Honest, Kept, Locks, Held, NoneMissed, NEW w \in Walkers,
           ReadEntry(w) \/ RoAnswered(w) \/ DevProbed(w)
    PROVE  Locks' /\ Held' /\ NoneMissed'
<1>1. /\ walker[w].at \in AtDir /\ Threads /\ ~Seeding /\ locked.dev # None
      /\ UNCHANGED <<world, main, roots, locked, halt>> /\ (Fault \/ NoFault)
  <2>1. /\ walker[w].at \in AtDir /\ UNCHANGED <<world, main, roots, locked, halt>>
        /\ (Fault \/ NoFault)
    BY DEF ReadEntry, RoAnswered, DevProbed, AtDir, MainOnly, seedVars, NoFault
  <2>. QED BY <2>1, BusyGoes, HandsLocked
<1>2. Calm' => Calm /\ ~Fault /\ NoFault
  BY <1>1, CalmBefore
<1>0. Growing
  BY DEF Growing, ReadEntry, RoAnswered, DevProbed, RoInsert, RoUnopened, devVars, roVars, Fault,
         NoFault, Kept
<1>11. /\ \A q : (Skips(q)' => Skips(q)) /\ (Filtered(q)' <=> Filtered(q))
       /\ \A q : (Regular(q)' <=> Regular(q)) /\ Fs(q)' = Fs(q) /\ Node(q)' = Node(q)
       /\ AsksRo' = AsksRo /\ (Calm' => unopened' = {})
  BY <1>0, <1>1, <1>2, MoreReach DEF NoneMissed, Growing
<1>12. ASSUME NEW q, RoSkips(q, roLost, {})' \/ RoSkips(q, roLost', {})
       PROVE  Calm' => ~Wanted(q)'
  BY <1>11, <1>12 DEF RoSkips, Wanted
<1>13. ASSUME NEW q, ~RoSkips(q, roLost', {}) \/ q \in unopened' PROVE ~Skips(q)'
  BY <1>11, <1>13 DEF RoSkips, Skips
<1>3. walker[w].at # "reading" =>
         LET p == walker[w].entry
         IN  /\ p \in Paths /\ Up(p) = walker[w].dir
             /\ ~Filtered(p) /\ (Regular(p) \/ world.opt.recurse)
             /\ walker[w].at = "asking" => AsksRo
             /\ walker[w].at = "probing" => locked.btrfs /\ ~Regular(p) /\ ~Skips(p)
  BY <1>1 DEF Held, Threads, AtDir
<1>4. Locks'
  <2>1. \/ verified' = verified
        \/ DevProbed(w) /\ OnLocked(walker[w].entry)
           /\ verified' = verified \cup {Node(walker[w].entry).dev}
    BY DEF ReadEntry, RoAnswered, DevProbed, devVars
  <2>2. CASE verified' = verified
    BY <1>1, <2>2 DEF Locks, Paths, Seeding
  <2>3. CASE /\ DevProbed(w) /\ OnLocked(walker[w].entry)
             /\ verified' = verified \cup {Node(walker[w].entry).dev}
    <3>1. walker[w].entry \in Paths
      BY <1>3, <2>3 DEF DevProbed
    <3>2. /\ Node(walker[w].entry).dev \in DOMAIN world.fs
          /\ world.fs[Node(walker[w].entry).dev].uuid = locked.uuid
      BY <1>1, <2>3, <3>1, OnLockedIs, TreesOK DEF Threads, Paths, Node, Fs
    <3>. QED BY <1>1, <2>3, <3>2 DEF Locks, Paths, Seeding
  <2>. QED BY <2>1, <2>2, <2>3
<1>5. CASE ReadEntry(w)
  <2>1. PICK p \in walker[w].left :
           \/ /\ Filtered(p) \/ (~Regular(p) /\ ~world.opt.recurse)
              /\ Drop(w, p)
           \/ Drop(w, p) /\ Fault
           \/ /\ ~Filtered(p) /\ (Regular(p) \/ world.opt.recurse)
              /\ \/ AsksRo /\ Entry(w, "asking", p, p) /\ NoPush
                 \/ RoSkips(p, roLost, {}) /\ Drop(w, p)
                 \/ ~RoSkips(p, roLost, {}) /\ CheckDev(w, p)
    <3>1. RoSkips(walker[w].dir, roLost, {}) => AsksRo
      BY DEF RoSkips
    <3>. QED BY <1>5 DEF ReadEntry, RoSkips
  <2>2. p \in Paths /\ Up(p) = walker[w].dir /\ walker[w].at = "reading"
    BY <1>1, <1>5 DEF Held, Children, Up, ReadEntry
  <2>7. roLost' = roLost
    BY <1>5 DEF ReadEntry, devVars, roVars
  <2>3. CASE Drop(w, p) /\ (Calm' => ~Wanted(p)')
    BY <1>0, <1>1, <1>2, <1>4, <2>2, <2>3, EntryMet
  <2>4. CASE /\ ~Filtered(p) /\ (Regular(p) \/ world.opt.recurse)
             /\ AsksRo /\ Entry(w, "asking", p, p) /\ NoPush
    BY <1>0, <1>1, <1>2, <1>4, <2>2, <2>4, EntryMet
  <2>5. CASE /\ ~Filtered(p) /\ (Regular(p) \/ world.opt.recurse)
             /\ ~RoSkips(p, roLost, {}) /\ CheckDev(w, p)
    <3>0. ~Skips(p)'
      BY <1>13, <2>5, <2>7
    <3>1. \/ Drop(w, p) /\ ~Wanted(p)'
          \/ Give(w, p) /\ Wanted(p)'
          \/ Entry(w, "probing", p, p) /\ NoPush /\ locked.btrfs /\ ~Regular(p)
      BY <1>1, <2>2, <2>5, <3>0, CheckDevMet
    <3>. QED BY <1>0, <1>1, <1>2, <1>4, <2>2, <2>5, <3>0, <3>1, EntryMet
  <2>6. /\ Filtered(p) \/ (~Regular(p) /\ ~world.opt.recurse) => ~Wanted(p)'
        /\ RoSkips(p, roLost, {}) => (Calm' => ~Wanted(p)')
    <3>1. Filtered(p) \/ (~Regular(p) /\ ~world.opt.recurse) => ~Wanted(p)'
      BY <1>1, <1>11 DEF Wanted
    <3>. QED BY <1>12, <2>7, <3>1
  <2>. QED BY <1>2, <1>4, <2>1, <2>3, <2>4, <2>5, <2>6
<1>6. CASE RoAnswered(w) \/ DevProbed(w)
  <2>0. PICK p : p = walker[w].entry
    OBVIOUS
  <2>1. /\ p \in Paths /\ Up(p) = walker[w].dir /\ ~Filtered(p)
        /\ Regular(p) \/ world.opt.recurse
    BY <1>3, <1>6, <2>0 DEF RoAnswered, DevProbed
  <2>2. \/ Drop(w, p) /\ (Calm' => ~Wanted(p)')
        \/ Give(w, p) /\ Wanted(p)'
        \/ Entry(w, "probing", p, p) /\ NoPush /\ locked.btrfs /\ ~Regular(p) /\ ~Skips(p)'
    <3>1. CASE RoAnswered(w)
      <4>1. \/ RoSkips(p, roLost', {}) /\ Drop(w, p)
            \/ (~RoSkips(p, roLost', {}) \/ p \in unopened') /\ CheckDev(w, p)
        BY <2>0, <3>1 DEF RoAnswered, RoUnopened
      <4>2. CASE RoSkips(p, roLost', {}) /\ Drop(w, p)
        BY <1>12, <4>2
      <4>3. CASE (~RoSkips(p, roLost', {}) \/ p \in unopened') /\ CheckDev(w, p)
        <5>1. ~Skips(p)'
          BY <1>13, <4>3
        <5>. QED BY <1>1, <2>1, <4>3, <5>1, CheckDevMet
      <4>. QED BY <4>1, <4>2, <4>3
    <3>2. CASE DevProbed(w)
      <4>1. locked.btrfs /\ ~Regular(p) /\ ~Skips(p) /\ ~Skips(p)'
        BY <1>3, <1>11, <2>0, <3>2 DEF DevProbed
      <4>2. OnLocked(p) <=> Wanted(p)'
        BY <1>1, <1>11, <2>1, <4>1, OnLockedIs DEF Wanted, Skips
      <4>. QED BY <1>2, <2>0, <3>2, <4>2 DEF DevProbed
    <3>. QED BY <1>6, <3>1, <3>2
  <2>3. walker[w].at # "reading" => p = walker[w].entry
    BY <2>0
  <2>. QED BY <1>0, <1>1, <1>2, <1>4, <2>1, <2>2, <2>3, EntryMet
<1>. QED BY <1>5, <1>6

LEMMA InitMet == Init => Locks /\ Held /\ NoneMissed
<1>. SUFFICES ASSUME Init PROVE Locks /\ Held /\ NoneMissed
  OBVIOUS
<1>1. Locks
  BY DEF Init, Locks
<1>2. Held
  BY DEF Init, Held, AtDir, Range
<1>3. unopened = {} /\ Met({})
  BY DEF Init, Met, Range
<1>. QED BY <1>1, <1>2, <1>3 DEF NoneMissed

LEMMA NextMet ==
    ASSUME IInv, Honest, Kept, Locks, Held, NoneMissed, [Next]_vars
    PROVE  Locks' /\ Held' /\ NoneMissed'
<1>1. CASE MainStep
  BY <1>1, SeedRootMet, SeedFileMet, CountedOffMet, QuietMet DEF MainStep
<1>2. ASSUME NEW w \in Walkers, WalkerStep(w) PROVE Locks' /\ Held' /\ NoneMissed'
  BY <1>2, TakeDirMet, CountedOffMet, WalkerMet DEF WalkerStep
<1>3. CASE (\E w \in Workers : WorkerStep(w)) \/ Signal \/ UNCHANGED vars
  BY <1>3, QuietMet
<1>. QED BY <1>1, <1>2, <1>3 DEF Next

LEMMA MetLists ==
    ASSUME IInv, Locks, Held, NoneMissed
    PROVE  OnlyDue /\ AllDue
<1>1. Threads /\ Due = {p \in Reach : Regular(p)}
  BY DueIsReach DEF IInv, Locks
<1>2. OnlyDue
  BY <1>1 DEF OnlyDue, Held
<1>3. ASSUME Undisturbed, ~halt.abort PROVE Due \subseteq listed
  <2>1. dirq \in Seq({Stop}) /\ \A w \in Walkers : walker[w].at \notin AtDir
    BY <1>3 DEF Undisturbed, IInv, Going, Over, Busy
  <2>2. Range(dirq) \subseteq {Stop}
    BY <2>1 DEF Range
  <2>3. PICK T \in SUBSET Paths : Met(T)
    BY <1>3 DEF NoneMissed, Calm, Undisturbed
  <2>4. Closed(T)
    BY <1>1, <2>1, <2>2, <2>3, StopIsNoPath DEF Met, Closed, Reads
  <2>5. Reach \subseteq T
    BY <2>3, <2>4, ReachIsLeast DEF Met
  <2>. QED BY <1>1, <2>3, <2>5 DEF Met
<1>. QED BY <1>2, <1>3 DEF AllDue, OnlyDue

LEMMA ListsInvariant == Spec => [](IInv /\ Honest /\ Kept /\ Locks /\ Held /\ NoneMissed)
<1>1. Init => IInv /\ Honest /\ Once /\ Kept /\ Locks /\ Held /\ NoneMissed
  BY Initially, InitKept, InitMet DEF Init, Honest
<1>2. IInv /\ Honest /\ Once /\ Kept /\ Locks /\ Held /\ NoneMissed /\ [Next]_vars =>
         (IInv /\ Honest /\ Once /\ Kept /\ Locks /\ Held /\ NoneMissed)'
  BY NextKeeps, NextHonest, NextKept, NextMet
<1>. QED BY <1>1, <1>2, PTL DEF Spec

\* Nothing is listed that the walk is not to list: not by a walker that trusts
\* a cached device or an answer that another one got (check_file(),
\* verified_devs, ro_subvols), and not by seed_checkpointed_files(), which has
\* to find the root a file is below and whether the walk would get to it.
THEOREM ListsOnlyDue == Spec => []OnlyDue
BY ListsInvariant, MetLists, PTL

\* A walk in which nothing failed and that was not told to stop has listed all
\* there is (process_dir(), walk_thread(), dirq_finished()).
THEOREM ListsAllDue == Spec => []AllDue
BY ListsInvariant, MetLists, PTL
=============================================================================
