-------------------------- MODULE FileListingProofs --------------------------
(***************************************************************************)
(* Proofs about FileListing, for any files, names and roots, any number of *)
(* changes to the file system and of runs, and faults, signals and kills   *)
(* anywhere.                                                               *)
(*                                                                         *)
(*   Types   the type of each variable                                     *)
(*   Due     what waits to be hashed, or is being hashed, is in the        *)
(*           generation that the dedupe phase is still to look at          *)
(*   Owned   a request has its own file's row, with what the listing must  *)
(*           keep apart for that: rows, items and requests whose names     *)
(*           hold, or held when they were read, a second file              *)
(*   Kept    as long as nothing changes, what is committed is in the batch *)
(*           as well, and the listing sees it as the batch has it          *)
(*   Honest  a digest, or a checkpoint, of the version that a file has is  *)
(*           of what it holds, in rows and with the workers                *)
(*   Distinct  no file and no name has two rows                            *)
(*   Settling  how far an undisturbed run has come: which files are ahead  *)
(*           of the listing, are to be hashed, are hashed                  *)
(***************************************************************************)
EXTENDS FileListing, LeastElements, TLAPS

Digests == SUBSET (Files \X Nat)
Checkpoints == [version : Nat, fed : Digests]
Row == [ino : Files, name : Names, version : Nat, digest : Digests,
        checkpoint : Checkpoints, fresh : BOOLEAN]
IsRows(rows) == \E n \in Nat : \E ids \in SUBSET (1 .. n) : rows \in [ids -> Row]

Item == [name : Names, ino : Files, version : Nat, seed : BOOLEAN]
Job == [id : Nat, name : Names, ino : Files, version : Nat, resume : Digests,
        state : {"queued", "reading"}, fd : Files \cup {NoFile},
        fed : Digests, checkpointed : BOOLEAN, late : BOOLEAN]
Run == [phase : {"idle", "listing", "hashing", "prune", "delete"},
        roots : SUBSET Names, halt : {"no", "signal", "lost"},
        seenIds : SUBSET Nat, seenInodes : SUBSET Files, missed : BOOLEAN,
        quiet : BOOLEAN, reborn : BOOLEAN, complete : BOOLEAN]

Types ==
    /\ tree \in [Names -> Files \cup {NoFile}]
    /\ version \in [Files -> Nat]
    /\ IsRows(disk) /\ IsRows(batch)
    /\ snap = [open |-> snap.open, rows |-> snap.rows]
    /\ snap.open \in BOOLEAN /\ IsRows(snap.rows)
    /\ run \in Run
    /\ todo \in SUBSET Names /\ fileq \in SUBSET Item
    /\ jobs \in SUBSET Job /\ \A job \in jobs : job.state = "reading" => job.fd \in Files
    /\ gone \in SUBSET Nat
    /\ changes \in Nat /\ faults \in Nat
    /\ calm \in BOOLEAN /\ mistaken \in BOOLEAN

Scanning == run.phase \in {"listing", "hashing"}

Due ==
    /\ jobs # {} => Scanning
    /\ run.halt # "lost" =>
          \A job \in jobs : job.id \in DOMAIN batch => job.late \/ batch[job.id].fresh

-----------------------------------------------------------------------------
(* What the statements of dbfile.c do, row by row. *)

LEMMA RowsAre ==
    ASSUME NEW rows, IsRows(rows)
    PROVE  /\ DOMAIN rows \in SUBSET (Nat \ {0})
           /\ \A i \in DOMAIN rows : rows[i] \in Row
           /\ rows = [i \in DOMAIN rows |-> rows[i]]
BY DEF IsRows

LEMMA IsRowsOf ==
    ASSUME NEW rows, IsRows(rows), NEW next, NEW ids \in SUBSET DOMAIN rows,
           next \in [ids -> Row]
    PROVE  IsRows(next)
BY DEF IsRows

\* An id that is not in use, above all that are.
LEMMA NewIdIs ==
    ASSUME NEW rows, IsRows(rows)
    PROVE  /\ NewId(rows) \in Nat \ {0} /\ NewId(rows) \notin DOMAIN rows
           /\ \A i \in DOMAIN rows : i < NewId(rows)
<1>1. PICK n \in Nat : DOMAIN rows \in SUBSET (1 .. n)
  BY DEF IsRows
<1>. DEFINE ids == DOMAIN rows \cup {0}
<1>2. ids \in SUBSET (0 .. n) /\ ids # {}
  BY <1>1
<1>. HIDE DEF ids
<1>3. Max(ids) \in ids /\ \A y \in ids : y <= Max(ids)
  BY <1>2, MaxIn
<1>4. NewId(rows) = Max(ids) + 1
  BY DEF NewId, ids
<1>5. \A i \in DOMAIN rows : i \in ids /\ i \in Nat
  BY <1>1 DEF ids
<1>6. PICK m \in 0 .. n : m = Max(ids) /\ \A y \in ids : y <= m
  BY <1>2, <1>3
<1>7. NewId(rows) = m + 1
  BY <1>4, <1>6
<1>8. \A i \in DOMAIN rows : i <= m /\ i \in Nat
  BY <1>5, <1>6
<1>. QED BY <1>7, <1>8

LEMMA WithoutIs ==
    ASSUME NEW rows, IsRows(rows), NEW doomed
    PROVE  /\ IsRows(Without(rows, doomed))
           /\ DOMAIN Without(rows, doomed) = DOMAIN rows \ doomed
           /\ \A i \in DOMAIN rows \ doomed : Without(rows, doomed)[i] = rows[i]
<1>1. Without(rows, doomed) \in [DOMAIN rows \ doomed -> Row]
  BY RowsAre DEF Without, Restrict
<1>. QED BY <1>1, IsRowsOf DEF Without, Restrict

WithName(row, name) == [row EXCEPT !.name = name]
WithCheckpoint(row, cp) == [row EXCEPT !.checkpoint = cp]
WithDigest(row, digest) == [row EXCEPT !.digest = digest]

LEMMA RenameFileIs ==
    ASSUME NEW rows, IsRows(rows), NEW id \in Nat, NEW name \in Names
    PROVE  LET next == RenameFile(rows, id, name)
           IN  /\ IsRows(next)
               /\ id \notin DOMAIN rows => next = rows
               /\ id \in DOMAIN rows =>
                     DOMAIN next = DOMAIN rows \ (Named(rows, name) \ {id})
               /\ \A i \in DOMAIN next :
                     next[i] = IF i = id THEN WithName(rows[i], name) ELSE rows[i]
<1>1. CASE id \notin DOMAIN rows
  BY <1>1 DEF RenameFile
<1>2. CASE id \in DOMAIN rows
  <2>. DEFINE doomed == Named(rows, name) \ {id}
              rest == Without(rows, doomed)
              next == [rest EXCEPT ![id].name = name]
  <2>1. /\ IsRows(rest) /\ DOMAIN rest = DOMAIN rows \ doomed
        /\ \A i \in DOMAIN rest : rest[i] = rows[i]
    BY WithoutIs
  <2>2. id \in DOMAIN rest
    BY <1>2, <2>1
  <2>. HIDE DEF rest, doomed
  <2>3. /\ DOMAIN next = DOMAIN rest
        /\ \A i \in DOMAIN rest :
              next[i] = IF i = id THEN WithName(rest[i], name) ELSE rest[i]
    BY <2>1, RowsAre DEF WithName
  <2>4. \A i \in DOMAIN rest : next[i] \in Row
    BY <2>1, <2>3, RowsAre DEF Row, WithName
  <2>5. next \in [DOMAIN rest -> Row]
    BY <2>3, <2>4
  <2>6. IsRows(next)
    BY <2>1, <2>5, IsRowsOf
  <2>7. next = RenameFile(rows, id, name)
    BY <1>2 DEF RenameFile, rest, doomed
  <2>. QED BY <1>2, <2>1, <2>3, <2>6, <2>7 DEF doomed
<1>. QED BY <1>1, <1>2

NewRow(item) == [ino |-> item.ino, name |-> item.name, version |-> item.version,
                 digest |-> {}, checkpoint |-> NoCheckpoint, fresh |-> TRUE]

LEMMA StoreFileInfoIs ==
    ASSUME NEW rows, IsRows(rows), NEW item \in Item
    PROVE  LET next == StoreFileInfo(rows, item)
               doomed == Named(rows, item.name) \cup OfFile(rows, item.ino)
           IN  /\ IsRows(next)
               /\ DOMAIN next = (DOMAIN rows \ doomed) \cup {NewId(rows)}
               /\ next[NewId(rows)] = NewRow(item)
               /\ \A i \in DOMAIN rows \ doomed : next[i] = rows[i]
<1>. DEFINE doomed == Named(rows, item.name) \cup OfFile(rows, item.ino)
            rest == Without(rows, doomed)
<1>1. /\ IsRows(rest) /\ DOMAIN rest = DOMAIN rows \ doomed
      /\ \A i \in DOMAIN rest : rest[i] = rows[i]
  <2>. HIDE DEF doomed
  <2>. QED BY WithoutIs
<1>. DEFINE next == StoreFileInfo(rows, item)
            new == NewId(rows)
<1>2. new \in Nat \ {0} /\ new \notin DOMAIN rows
  BY NewIdIs
<1>3. NewRow(item) \in Row
  BY DEF NewRow, Row, Item, NoCheckpoint, Checkpoints, Digests
<1>4. next = [i \in DOMAIN rest \cup {new} |-> IF i = new THEN NewRow(item) ELSE rest[i]]
  BY DEF StoreFileInfo, NewRow
<1>5. PICK n \in Nat : DOMAIN rest \in SUBSET (1 .. n)
  BY <1>1 DEF IsRows
<1>. HIDE DEF doomed, rest, new, next
<1>6. next \in [DOMAIN rest \cup {new} -> Row]
  BY <1>1, <1>3, <1>4, RowsAre
<1>7. n + new \in Nat /\ DOMAIN rest \cup {new} \in SUBSET (1 .. n + new)
  BY <1>2, <1>5
<1>8. IsRows(next)
  BY <1>6, <1>7 DEF IsRows
<1>9. new \notin DOMAIN rest
  BY <1>1, <1>2
<1>. QED BY <1>1, <1>4, <1>8, <1>9 DEF next, doomed, new

LEMMA UpdateDedupeSeqIs ==
    ASSUME NEW rows, IsRows(rows), NEW id \in Nat
    PROVE  LET next == UpdateDedupeSeq(rows, id)
           IN  /\ IsRows(next) /\ DOMAIN next = DOMAIN rows
               /\ \A i \in DOMAIN rows :
                     next[i] = IF i = id THEN [rows[i] EXCEPT !.fresh = TRUE] ELSE rows[i]
<1>. DEFINE next == UpdateDedupeSeq(rows, id)
<1>1. /\ DOMAIN next = DOMAIN rows
      /\ \A i \in DOMAIN rows :
            next[i] = IF i = id THEN [rows[i] EXCEPT !.fresh = TRUE] ELSE rows[i]
  BY RowsAre DEF UpdateDedupeSeq
<1>2. next = [i \in DOMAIN rows |-> next[i]]
  BY RowsAre DEF UpdateDedupeSeq
<1>3. \A i \in DOMAIN rows : next[i] \in Row
  BY <1>1, RowsAre DEF Row
<1>4. IsRows(next)
  BY <1>2, <1>3, IsRowsOf
<1>. QED BY <1>1, <1>4

LEMMA StoreCheckpointIs ==
    ASSUME NEW rows, IsRows(rows), NEW id \in Nat, NEW cp \in Checkpoints
    PROVE  LET next == StoreCheckpoint(rows, id, cp)
           IN  /\ IsRows(next) /\ DOMAIN next = DOMAIN rows
               /\ \A i \in DOMAIN rows :
                     next[i] = IF i = id THEN WithCheckpoint(rows[i], cp) ELSE rows[i]
<1>. DEFINE next == StoreCheckpoint(rows, id, cp)
<1>1. /\ DOMAIN next = DOMAIN rows
      /\ \A i \in DOMAIN rows :
            next[i] = IF i = id THEN WithCheckpoint(rows[i], cp) ELSE rows[i]
  BY RowsAre DEF StoreCheckpoint, WithCheckpoint
<1>2. next = [i \in DOMAIN rows |-> next[i]]
  BY RowsAre DEF StoreCheckpoint
<1>3. \A i \in DOMAIN rows : next[i] \in Row
  BY <1>1, RowsAre DEF Row, WithCheckpoint
<1>4. IsRows(next)
  BY <1>2, <1>3, IsRowsOf
<1>. QED BY <1>1, <1>4

LEMMA NoCheckpointIs == NoCheckpoint \in Checkpoints
BY DEF NoCheckpoint, Checkpoints, Digests

LEMMA RemoveCheckpointIs ==
    ASSUME NEW rows, IsRows(rows), NEW id \in Nat
    PROVE  LET next == RemoveCheckpoint(rows, id)
           IN  /\ IsRows(next) /\ DOMAIN next = DOMAIN rows
               /\ \A i \in DOMAIN rows :
                     next[i] = IF i = id THEN WithCheckpoint(rows[i], NoCheckpoint)
                               ELSE rows[i]
<1>1. CASE id \in DOMAIN rows
  BY <1>1, StoreCheckpointIs, NoCheckpointIs DEF RemoveCheckpoint
<1>2. CASE id \notin DOMAIN rows
  BY <1>2 DEF RemoveCheckpoint
<1>. QED BY <1>1, <1>2

LEMMA UpdateScannedFileIs ==
    ASSUME NEW rows, IsRows(rows), NEW id \in Nat, NEW digest \in Digests
    PROVE  LET next == UpdateScannedFile(rows, id, digest)
           IN  /\ IsRows(next) /\ DOMAIN next = DOMAIN rows
               /\ \A i \in DOMAIN rows :
                     next[i] = IF i = id THEN WithDigest(rows[i], digest) ELSE rows[i]
<1>. DEFINE next == UpdateScannedFile(rows, id, digest)
<1>1. /\ DOMAIN next = DOMAIN rows
      /\ \A i \in DOMAIN rows :
            next[i] = IF i = id THEN WithDigest(rows[i], digest) ELSE rows[i]
  BY RowsAre DEF UpdateScannedFile, WithDigest
<1>2. next = [i \in DOMAIN rows |-> next[i]]
  BY RowsAre DEF UpdateScannedFile
<1>3. \A i \in DOMAIN rows : next[i] \in Row
  BY <1>1, RowsAre DEF Row, WithDigest
<1>4. IsRows(next)
  BY <1>2, <1>3, IsRowsOf
<1>. QED BY <1>1, <1>4

LEMMA RaiseWatermarkIs ==
    ASSUME NEW rows, IsRows(rows) PROVE IsRows(RaiseWatermark(rows))
<1>1. ASSUME NEW i \in DOMAIN rows PROVE [rows[i] EXCEPT !.fresh = FALSE] \in Row
  <2>1. rows[i] \in Row
    BY RowsAre
  <2>. QED BY <2>1 DEF Row
<1>2. RaiseWatermark(rows) \in [DOMAIN rows -> Row]
  BY <1>1 DEF RaiseWatermark
<1>. QED BY <1>2, IsRowsOf

LEMMA NoRowsAre == IsRows(NoRows) /\ DOMAIN NoRows = {}
<1>1. NoRows \in [{} -> Row] /\ {} \in SUBSET (1 .. 0) /\ 0 \in Nat
  BY DEF NoRows
<1>. QED BY <1>1 DEF IsRows

\* Ids are counted anew, in the order they had.
LEMMA RenumberIs ==
    ASSUME NEW rows, IsRows(rows)
    PROVE  /\ IsRows(Renumber(rows))
           /\ \E low \in Nat \ {0} :
                 /\ DOMAIN rows # {} => low \in DOMAIN rows
                 /\ DOMAIN Renumber(rows) = {j - low + 1 : j \in DOMAIN rows}
                 /\ \A i \in DOMAIN Renumber(rows) :
                       i + low - 1 \in DOMAIN rows /\ Renumber(rows)[i] = rows[i + low - 1]
<1>. DEFINE ids == DOMAIN rows \cup {NewId(rows)}
            low == Min(ids)
            next == [i \in {j - low + 1 : j \in DOMAIN rows} |-> rows[i + low - 1]]
<1>1. PICK n \in Nat : DOMAIN rows \in SUBSET (1 .. n)
  BY DEF IsRows
<1>2. ids \in SUBSET Nat /\ ids # {} /\ 0 \notin ids
  BY <1>1, NewIdIs
<1>. HIDE DEF ids
<1>4. low \in ids /\ \A y \in ids : low <= y
  BY <1>2, MinIn
<1>5. low \in Nat \ {0} /\ \A j \in DOMAIN rows : low <= j
  BY <1>2, <1>4 DEF ids
<1>6. DOMAIN rows # {} => low \in DOMAIN rows
  BY <1>1, <1>4, NewIdIs DEF ids
<1>7. next = Renumber(rows)
  BY DEF Renumber, ids
<1>. HIDE DEF low
<1>8. \A j \in DOMAIN rows : j - low + 1 \in 1 .. n /\ (j - low + 1) + low - 1 = j
  BY <1>1, <1>5
<1>9. DOMAIN next = {j - low + 1 : j \in DOMAIN rows}
  OBVIOUS
<1>10. \A i \in DOMAIN next : i + low - 1 \in DOMAIN rows /\ next[i] = rows[i + low - 1]
  BY <1>8
<1>11. \A i \in DOMAIN next : next[i] \in Row
  BY <1>10, RowsAre
<1>12. DOMAIN next \in SUBSET (1 .. n)
  BY <1>8
<1>13. next \in [DOMAIN next -> Row]
  BY <1>11
<1>. HIDE DEF next
<1>14. IsRows(next)
  BY <1>12, <1>13 DEF IsRows
<1>. QED BY <1>5, <1>6, <1>7, <1>9, <1>10, <1>14

-----------------------------------------------------------------------------
(* Types, and what waits to be hashed is due.  Of all steps only the last  *)
(* unit of a file brings a digest into the batch.                          *)

NoDigests(rows, next) ==
    \A i \in DOMAIN next :
       \/ /\ i \in DOMAIN rows /\ next[i].digest = rows[i].digest
          /\ rows[i].fresh => next[i].fresh
       \/ next[i].digest = {} /\ next[i].fresh

HashesFresh ==
    \A i \in DOMAIN batch \cap DOMAIN batch' :
       batch[i].digest = {} /\ batch'[i].digest # {} /\ ~LateAnswer(i)
          /\ run'.phase = run.phase /\ run'.halt = run.halt => batch'[i].fresh

LEMMA NoDigestsChain ==
    ASSUME NEW a, NEW b, NEW c, NoDigests(a, b), NoDigests(b, c)
    PROVE  NoDigests(a, c)
BY DEF NoDigests

\* A step that brings none, and queues nothing that is not due.
LEMMA NoneHashed ==
    ASSUME Due, NoDigests(batch, batch'), run'.halt = "lost" \/ run.halt # "lost",
           jobs' # {} => Scanning',
           \A job \in jobs' : \/ \E old \in jobs : old.id = job.id /\ old.late = job.late
                              \/ job.late
                              \/ job.id \in DOMAIN batch' => batch'[job.id].fresh
    PROVE  Due' /\ HashesFresh
<1>1. ASSUME run'.halt # "lost", NEW job \in jobs', job.id \in DOMAIN batch'
      PROVE  job.late \/ batch'[job.id].fresh
  <2>1. run.halt # "lost"
    BY <1>1
  <2>2. CASE \E old \in jobs : old.id = job.id /\ old.late = job.late
    BY <1>1, <2>1, <2>2 DEF Due, NoDigests
  <2>3. CASE job.late \/ (job.id \in DOMAIN batch' => batch'[job.id].fresh)
    BY <1>1, <2>3
  <2>. QED BY <2>2, <2>3
<1>2. HashesFresh
  BY DEF HashesFresh, NoDigests
<1>. QED BY <1>1, <1>2 DEF Due

LEMMA RenameHashesNone ==
    ASSUME NEW rows, IsRows(rows), NEW id \in Nat, NEW name \in Names
    PROVE  IsRows(RenameFile(rows, id, name)) /\ NoDigests(rows, RenameFile(rows, id, name))
<1>. DEFINE next == RenameFile(rows, id, name)
<1>1. /\ IsRows(next) /\ DOMAIN next \subseteq DOMAIN rows
      /\ \A i \in DOMAIN next :
            next[i] = IF i = id THEN WithName(rows[i], name) ELSE rows[i]
  BY RenameFileIs
<1>2. \A i \in DOMAIN rows : rows[i] \in Row
  BY RowsAre
<1>. HIDE DEF next
<1>3. \A i \in DOMAIN next : next[i].digest = rows[i].digest /\ next[i].fresh = rows[i].fresh
  BY <1>1, <1>2 DEF Row, WithName
<1>4. NoDigests(rows, next)
  BY <1>1, <1>3 DEF NoDigests
<1>. QED BY <1>1, <1>4 DEF next

LEMMA RemoveHashesNone ==
    ASSUME NEW rows, IsRows(rows), NEW id \in Nat
    PROVE  LET next == RemoveCheckpoint(rows, id)
           IN  /\ IsRows(next) /\ NoDigests(rows, next)
               /\ DOMAIN next = DOMAIN rows
               /\ \A i \in DOMAIN rows : next[i].fresh = rows[i].fresh
<1>. DEFINE next == RemoveCheckpoint(rows, id)
<1>1. /\ IsRows(next) /\ DOMAIN next = DOMAIN rows
      /\ \A i \in DOMAIN rows :
            next[i] = IF i = id THEN WithCheckpoint(rows[i], NoCheckpoint) ELSE rows[i]
  BY RemoveCheckpointIs
<1>2. \A i \in DOMAIN rows : rows[i] \in Row
  BY RowsAre
<1>. HIDE DEF next
<1>3. \A i \in DOMAIN next : next[i].digest = rows[i].digest /\ next[i].fresh = rows[i].fresh
  BY <1>1, <1>2 DEF Row, WithCheckpoint
<1>4. NoDigests(rows, next)
  BY <1>1, <1>3 DEF NoDigests
<1>. QED BY <1>1, <1>3, <1>4 DEF next

Step == Types' /\ Due' /\ HashesFresh

LEMMA StatIs ==
    ASSUME Types, NEW name \in Names, tree[name] # NoFile, NEW seed \in BOOLEAN
    PROVE  Stat(name, seed) \in Item
BY DEF Types, Stat, Item

LEMMA ChangedStep ==
    ASSUME Types, Due, Changed, tree' \in [Names -> Files \cup {NoFile}],
           version' \in [Files -> Nat]
    PROVE  Step
<1>1. /\ run' = [run EXCEPT !.quiet = FALSE, !.complete = FALSE,
                            !.reborn = @ \/ Reborn]
      /\ UNCHANGED <<disk, batch, snap, todo, fileq, jobs, gone, faults>>
      /\ changes' = changes + 1
  BY DEF Changed
<1>2. Reborn \in BOOLEAN
  BY DEF Reborn
<1>3. run' \in Run /\ run'.phase = run.phase /\ run'.halt = run.halt
  <2>1. run \in Run
    BY DEF Types
  <2>. QED BY <1>1, <1>2, <2>1 DEF Run
<1>4. calm' \in BOOLEAN /\ mistaken' \in BOOLEAN
  BY DEF Changed
<1>5. Types'
  BY <1>1, <1>3, <1>4 DEF Types
<1>6. NoDigests(batch, batch')
  BY <1>1 DEF NoDigests
<1>7. Due' /\ HashesFresh
  BY <1>1, <1>3, <1>6, NoneHashed DEF Due, Scanning
<1>. QED BY <1>5, <1>7 DEF Step

LEMMA FileSystemStep ==
    ASSUME Types, Due,
           \/ \E file \in Files : Write(file)
           \/ \E name \in Names : Unlink(name)
           \/ \E name \in Names, file \in Files : Create(name, file)
           \/ \E name, to \in Names : Link(name, to) \/ Move(name, to)
    PROVE  Step
<1>1. CASE \E file \in Files : Write(file)
  <2>. PICK file \in Files : Write(file)
    BY <1>1
  <2>1. version' \in [Files -> Nat] /\ tree' \in [Names -> Files \cup {NoFile}]
    BY DEF Write, Types
  <2>. QED BY <2>1, ChangedStep DEF Write
<1>2. CASE \E name \in Names : Unlink(name)
  <2>. PICK name \in Names : Unlink(name)
    BY <1>2
  <2>1. version' \in [Files -> Nat] /\ tree' \in [Names -> Files \cup {NoFile}]
    BY DEF Unlink, Types
  <2>. QED BY <2>1, ChangedStep DEF Unlink
<1>3. CASE \E name \in Names, file \in Files : Create(name, file)
  <2>. PICK name \in Names, file \in Files : Create(name, file)
    BY <1>3
  <2>1. version' \in [Files -> Nat] /\ tree' \in [Names -> Files \cup {NoFile}]
    BY DEF Create, Types
  <2>. QED BY <2>1, ChangedStep DEF Create
<1>4. CASE \E name, to \in Names : Link(name, to) \/ Move(name, to)
  <2>. PICK name \in Names, to \in Names : Link(name, to) \/ Move(name, to)
    BY <1>4
  <2>1. version' \in [Files -> Nat] /\ tree' \in [Names -> Files \cup {NoFile}]
    BY DEF Link, Move, Types
  <2>. QED BY <2>1, ChangedStep DEF Link, Move
<1>. QED BY <1>1, <1>2, <1>3, <1>4

LEMMA IdleIs ==
    ASSUME NEW complete \in BOOLEAN, NEW quiet \in BOOLEAN
    PROVE  Idle(complete, quiet) \in Run
BY DEF Idle, Run

LEMMA NoSnapIs ==
    /\ NoSnap = [open |-> NoSnap.open, rows |-> NoSnap.rows]
    /\ NoSnap.open = FALSE /\ NoSnap.rows = NoRows /\ IsRows(NoSnap.rows)
BY NoRowsAre DEF NoSnap

LEMMA StartStep == ASSUME Types, Due, Start PROVE Step
<1>1. PICK roots \in Roots :
         /\ run' = [Idle(FALSE, TRUE) EXCEPT !.phase = "listing", !.roots = roots]
         /\ todo' = roots
         /\ disk' = Renumber(PruneUnscanned(disk))
         /\ batch' = disk'
         /\ fileq' = Seeds(disk', roots)
  BY DEF Start
<1>2. run' \in Run /\ run'.phase = "listing" /\ run.phase = "idle"
  <2>1. Idle(FALSE, TRUE) \in Run
    BY IdleIs
  <2>. QED BY <1>1, <2>1, ListingConstants DEF Run, Start
<1>3. IsRows(PruneUnscanned(disk))
  BY WithoutIs DEF PruneUnscanned, Types
<1>4. IsRows(disk')
  BY <1>1, <1>3, RenumberIs
<1>5. \A n \in {disk'[i].name : i \in DOMAIN disk'} : n \in Names
  BY <1>4, RowsAre DEF Row
<1>6. fileq' \in SUBSET Item
  <2>1. ASSUME NEW item \in Seeds(disk', roots) PROVE item \in Item
    <3>1. PICK i \in DOMAIN disk' : /\ tree[disk'[i].name] # NoFile
                                    /\ item = Stat(disk'[i].name, TRUE)
      BY <2>1 DEF Seeds
    <3>. QED BY <1>5, <3>1, StatIs
  <2>. QED BY <1>1, <2>1
<1>7. /\ UNCHANGED <<tree, version, snap, jobs, gone, changes, faults, mistaken>>
      /\ calm' = (calm /\ ~Displaced(disk'))
  BY DEF Start
<1>8. roots \in SUBSET Names
  BY ListingConstants
<1>9. calm' \in BOOLEAN
  BY <1>7
<1>10. Types'
  BY <1>1, <1>2, <1>4, <1>6, <1>7, <1>8, <1>9 DEF Types
<1>11. jobs = {} /\ jobs' = {}
  BY <1>2, <1>7 DEF Due, Scanning
<1>. QED BY <1>2, <1>10, <1>11 DEF Step, Due, HashesFresh

\* The steps that end something, and that leave the batch or take it back.
LEMMA EndStep ==
    ASSUME Types, Due, Kill \/ Signal \/ BatchLost \/ ScanDone \/ PruneCollect
    PROVE  Step
<1>0. /\ run \in Run /\ IsRows(disk) /\ IsRows(batch)
      /\ snap = [open |-> snap.open, rows |-> snap.rows]
      /\ snap.open \in BOOLEAN /\ IsRows(snap.rows)
  BY DEF Types
<1>1. /\ disk' \in {disk, batch} /\ batch' \in {disk, batch}
      /\ UNCHANGED <<tree, version, changes, calm, mistaken>>
  BY DEF Kill, Signal, BatchLost, Halt, ScanDone, PruneCollect
<1>2. \/ snap' = NoSnap \/ snap' = snap
  BY DEF Kill, Signal, BatchLost, Halt, ScanDone, PruneCollect
<1>3. /\ todo' \subseteq todo /\ fileq' \subseteq fileq /\ jobs' \subseteq jobs
      /\ gone' \in SUBSET Nat /\ faults' \in Nat
  <2>1. DOMAIN disk \in SUBSET Nat
    BY <1>0, RowsAre
  <2>2. gone \in SUBSET Nat /\ faults \in Nat
    BY DEF Types
  <2>3. gone' \in {gone, {}} \/ gone' \subseteq DOMAIN disk
    <3>1. CASE PruneCollect
      BY <3>1 DEF PruneCollect
    <3>2. CASE Kill \/ Signal \/ BatchLost \/ ScanDone
      BY <3>2 DEF Kill, Signal, BatchLost, Halt, ScanDone
    <3>. QED BY <3>1, <3>2
  <2>4. faults' = faults \/ faults' = faults + 1
    BY DEF Kill, Signal, BatchLost, Halt, ScanDone, PruneCollect
  <2>5. todo' \subseteq todo /\ fileq' \subseteq fileq /\ jobs' \subseteq jobs
    BY DEF Kill, Signal, BatchLost, Halt, ScanDone, PruneCollect
  <2>6. gone' \in SUBSET Nat
    BY <2>1, <2>2, <2>3
  <2>7. faults' \in Nat
    BY <2>2, <2>4
  <2>. QED BY <2>5, <2>6, <2>7
<1>4. run' \in Run
  <2>1. /\ Idle(FALSE, run.quiet) \in Run
        /\ run.reborn \in BOOLEAN
    BY <1>0, IdleIs DEF Run
  <2>2. CASE \E why \in {"signal", "lost"} :
                run' = [Idle(FALSE, run.quiet) EXCEPT !.phase = "hashing", !.halt = why,
                                                      !.reborn = run.reborn]
    BY <2>1, <2>2 DEF Run
  <2>3. CASE run' = Idle(FALSE, run.quiet)
    BY <2>1, <2>3
  <2>4. CASE run' \in {[run EXCEPT !.phase = "prune"], [run EXCEPT !.phase = "delete"]}
    BY <1>0, <2>4 DEF Run
  <2>. QED BY <2>2, <2>3, <2>4 DEF Kill, Signal, BatchLost, Halt, ScanDone, PruneCollect
<1>5. Types'
  BY <1>0, <1>1, <1>2, <1>3, <1>4, NoSnapIs DEF Types
<1>6. CASE Kill
  BY <1>5, <1>6 DEF Kill, Idle, Step, Due, HashesFresh
<1>7. CASE BatchLost
  BY <1>5, <1>7 DEF BatchLost, Halt, Idle, Step, Due, HashesFresh, Scanning
<1>8. CASE Signal \/ ScanDone \/ PruneCollect
  <2>1. batch' = batch /\ jobs' \subseteq jobs
    BY <1>3, <1>8 DEF Signal, ScanDone, PruneCollect
  <2>2. jobs' # {} => Scanning'
    BY <1>8 DEF Signal, Halt, Idle, ScanDone, PruneCollect, Due, Scanning
  <2>3. run'.halt = "lost" \/ run.halt # "lost" \/ jobs' = {}
    BY <1>8 DEF Signal, Halt, ScanDone, PruneCollect, Due, Scanning
  <2>. QED BY <1>5, <2>1, <2>2, <2>3 DEF Step, Due, HashesFresh
<1>. QED BY <1>6, <1>7, <1>8

LEMMA PruneDeleteStep == ASSUME Types, Due, PruneDelete PROVE Step
<1>1. IsRows(disk')
  BY WithoutIs, RaiseWatermarkIs DEF Types, PruneDelete
<1>2. run' \in Run /\ run'.phase = "idle"
  <2>1. run.missed \in BOOLEAN /\ run.quiet \in BOOLEAN
    BY DEF Types, Run
  <2>2. run' = Idle(~run.missed /\ run.roots = Names, run.quiet)
    BY DEF PruneDelete
  <2>. QED BY <2>1, <2>2, IdleIs DEF Idle
<1>3. Types'
  BY <1>1, <1>2 DEF Types, PruneDelete
<1>4. jobs = {} /\ jobs' = {}
  BY DEF PruneDelete, Due, Scanning
<1>. QED BY <1>2, <1>3, <1>4 DEF Step, Due, HashesFresh, PruneDelete

\* The listing's steps that write nothing.
LEMMA ListingStep ==
    ASSUME Types, Due,
           \/ Flush \/ ListingDone \/ \E name \in Names : WalkName(name)
           \/ \E item \in fileq : PassOver(item)
    PROVE  Step
<1>0. run \in Run
  BY DEF Types
<1>1. /\ run' \in Run /\ run'.halt = run.halt
      /\ batch' = batch /\ disk' \in {disk, batch} /\ jobs' = jobs
      /\ UNCHANGED <<tree, version, gone, changes, faults, calm, mistaken>>
      /\ Scanning'
  BY <1>0 DEF Flush, ListingDone, WalkName, PassOver, Pops, Run, Scanning
<1>2. snap' = NoSnap \/ snap' = snap
  BY DEF Flush, ListingDone, WalkName, PassOver, Pops
<1>3. todo' \in SUBSET Names
  BY DEF Flush, ListingDone, WalkName, PassOver, Pops, Types
<1>4. fileq' \in SUBSET Item
  <2>1. CASE \E name \in Names : WalkName(name)
    BY <2>1, StatIs DEF WalkName, Types
  <2>2. CASE Flush \/ ListingDone \/ \E item \in fileq : PassOver(item)
    BY <2>2 DEF Flush, ListingDone, PassOver, Pops, Types
  <2>. QED BY <2>1, <2>2
<1>5. Types'
  BY <1>1, <1>2, <1>3, <1>4, NoSnapIs DEF Types
<1>. QED BY <1>1, <1>5 DEF Step, Due, HashesFresh

LEMMA VisibleIs ==
    ASSUME Types PROVE IsRows(Visible)
BY DEF Visible, Types

LEMMA DescribedIs ==
    ASSUME Types, NEW item, NEW id \in Described(item)
    PROVE  /\ id \in DOMAIN Visible /\ id \in Nat /\ Visible[id] \in Row
           /\ Visible[id].ino = item.ino
BY VisibleIs, RowsAre DEF Described, OfFile

LEMMA TickIs ==
    ASSUME Types, Tick
    PROVE  /\ snap'.open = TRUE /\ IsRows(snap'.rows)
           /\ snap' = [open |-> snap'.open, rows |-> snap'.rows]
           /\ snap'.rows = Without(Visible, {i \in DOMAIN Visible :
                                       Visible[i].ino \in run'.seenInodes})
BY VisibleIs, WithoutIs DEF Tick

LEMMA QueueIs ==
    ASSUME Types, NEW item \in Item, NEW id \in Nat, NEW resume \in Digests,
           NEW late \in BOOLEAN, Queue(item, id, resume, late)
    PROVE  /\ run' \in Run /\ run'.phase = run.phase /\ run'.halt = run.halt
           /\ run'.seenIds = run.seenIds \cup {id}
           /\ run'.seenInodes = run.seenInodes \cup {item.ino}
           /\ jobs' \in SUBSET Job
           /\ \A job \in jobs' : job.state = "reading" => job.fd \in Files
           /\ \A job \in jobs' : job \in jobs \/ (job.id = id /\ job.late = late)
<1>0. run \in Run /\ item.ino \in Files
  BY DEF Types, Item
<1>1. run' = [run EXCEPT !.seenIds = @ \cup {id}, !.seenInodes = @ \cup {item.ino}]
  BY DEF Queue
<1>2. /\ run' \in Run /\ run'.phase = run.phase /\ run'.halt = run.halt
      /\ run'.seenIds = run.seenIds \cup {id}
      /\ run'.seenInodes = run.seenInodes \cup {item.ino}
  BY <1>0, <1>1 DEF Run
<1>. DEFINE new == [id |-> id, name |-> item.name, ino |-> item.ino,
                    version |-> item.version, resume |-> resume,
                    state |-> "queued", fd |-> NoFile, fed |-> {},
                    checkpointed |-> resume # {}, late |-> late]
<1>3. new \in Job /\ new.id = id /\ new.late = late /\ new.state = "queued"
  BY DEF Job, Item, Digests
<1>4. jobs' = jobs \cup {new}
  BY DEF Queue
<1>. HIDE DEF new
<1>. QED BY <1>2, <1>3, <1>4 DEF Types

LEMMA LeaveAloneStep == ASSUME Types, Due, NEW item \in fileq, LeaveAlone(item) PROVE Step
<1>1. PICK id \in Described(item) : run' = [run EXCEPT !.seenIds = @ \cup {id}]
  BY DEF LeaveAlone
<1>2. run' \in Run /\ run'.phase = run.phase /\ run'.halt = run.halt
  <2>1. run \in Run /\ id \in Nat
    BY DescribedIs DEF Types
  <2>. QED BY <1>1, <2>1 DEF Run
<1>3. Tick /\ fileq' \subseteq fileq
      /\ UNCHANGED <<tree, version, disk, batch, todo, jobs, gone, changes, faults, calm, mistaken>>
  BY DEF LeaveAlone, Scans, Pops
<1>4. Types'
  BY <1>2, <1>3, TickIs DEF Types
<1>. QED BY <1>2, <1>3, <1>4 DEF Step, Due, HashesFresh, Scanning

LEMMA ResumeScanStep == ASSUME Types, Due, NEW item \in fileq, ResumeScan(item) PROVE Step
<1>1. PICK id \in Described(item), late \in BOOLEAN :
         /\ EndUnit(IF late THEN batch ELSE UpdateDedupeSeq(batch, id))
         /\ Queue(item, id, Visible[id].checkpoint.fed, late)
  BY DEF ResumeScan
<1>2. /\ id \in Nat /\ item \in Item /\ Visible[id].checkpoint.fed \in Digests
  BY DescribedIs DEF Types, Row, Checkpoints
<1>3. /\ IsRows(batch') /\ DOMAIN batch' = DOMAIN batch
      /\ \A i \in DOMAIN batch :
            batch'[i] = IF i = id /\ ~late THEN [batch[i] EXCEPT !.fresh = TRUE]
                        ELSE batch[i]
      /\ disk' \in {disk, batch'}
  <2>1. IsRows(batch)
    BY DEF Types
  <2>2. /\ batch' = (IF late THEN batch ELSE UpdateDedupeSeq(batch, id))
        /\ disk' \in {disk, batch'}
    BY <1>1 DEF EndUnit
  <2>3. CASE late
    BY <2>1, <2>2, <2>3
  <2>4. CASE ~late
    BY <1>2, <2>1, <2>2, <2>4, UpdateDedupeSeqIs
  <2>. QED BY <2>3, <2>4
<1>4. Tick /\ fileq' \subseteq fileq /\ Scanning /\ faults' \in Nat
      /\ UNCHANGED <<tree, version, todo, gone, changes, calm, mistaken>>
  BY DEF ResumeScan, Scans, Pops, Scanning, Types
<1>5. /\ run' \in Run /\ run'.phase = run.phase /\ run'.halt = run.halt
      /\ jobs' \in SUBSET Job
      /\ \A job \in jobs' : job.state = "reading" => job.fd \in Files
      /\ \A job \in jobs' : job \in jobs \/ (job.id = id /\ job.late = late)
  BY <1>1, <1>2, QueueIs
<1>6. Types'
  BY <1>3, <1>4, <1>5, TickIs DEF Types
<1>7. \A i \in DOMAIN batch : batch'[i].digest = batch[i].digest
         /\ (batch[i].fresh => batch'[i].fresh) /\ (i = id => late \/ batch'[i].fresh)
  BY <1>3, RowsAre DEF Types, Row
<1>8. NoDigests(batch, batch')
  BY <1>3, <1>7 DEF NoDigests
<1>9. Due' /\ HashesFresh
  <2>1. \A job \in jobs' : \/ \E old \in jobs : old.id = job.id /\ old.late = job.late
                           \/ job.late
                           \/ job.id \in DOMAIN batch' => batch'[job.id].fresh
    BY <1>3, <1>5, <1>7
  <2>2. run'.halt = "lost" \/ run.halt # "lost"
    BY <1>5
  <2>3. Scanning'
    BY <1>4, <1>5 DEF Scanning
  <2>. QED BY <1>8, <2>1, <2>2, <2>3, NoneHashed
<1>. QED BY <1>6, <1>9 DEF Step

LEMMA StoreFileRowStep ==
    ASSUME Types, Due, NEW item \in fileq, StoreFileRow(item) PROVE Step
<1>. DEFINE old == IF Described(item) = {} THEN 0
                   ELSE CHOOSE id \in Described(item) : TRUE
            dropped == old # 0 /\ CheckpointAsked(old, item)
            asked == IF dropped THEN RemoveCheckpoint(batch, old) ELSE batch
            named == IF old # 0 /\ Renamed(old, item)
                     THEN RenameFile(asked, old, item.name) ELSE asked
            stored == StoreFileInfo(named, item)
<1>1. \/ /\ batch' = stored /\ disk' \in {disk, stored, asked}
         /\ Queue(item, NewId(named), {}, FALSE)
         /\ UNCHANGED faults
      \/ /\ faults' = faults + 1
         /\ EndUnit(asked)
         /\ run' = [run EXCEPT !.missed = TRUE]
         /\ UNCHANGED jobs
  BY DEF StoreFileRow
<1>2. Tick /\ fileq' \subseteq fileq /\ Scanning
      /\ UNCHANGED <<tree, version, todo, gone, changes, calm, mistaken>>
  BY DEF StoreFileRow, Scans, Pops, Scanning
<1>3. IsRows(batch) /\ item \in Item /\ item.name \in Names /\ run \in Run /\ faults \in Nat
  BY DEF Types, Item
<1>4. old \in Nat
  BY DescribedIs
<1>. HIDE DEF old
<1>5. IsRows(asked) /\ NoDigests(batch, asked)
  <2>0. asked \in {batch, RemoveCheckpoint(batch, old)}
    OBVIOUS
  <2>. HIDE DEF asked
  <2>1. NoDigests(batch, batch)
    BY DEF NoDigests
  <2>. QED BY <1>3, <1>4, <2>0, <2>1, RemoveHashesNone
<1>. HIDE DEF asked
<1>6. IsRows(named) /\ NoDigests(asked, named)
  <2>0. named \in {asked, RenameFile(asked, old, item.name)}
    OBVIOUS
  <2>. HIDE DEF named
  <2>1. NoDigests(asked, asked)
    BY DEF NoDigests
  <2>. QED BY <1>3, <1>4, <1>5, <2>0, <2>1, RenameHashesNone
<1>. HIDE DEF named
<1>7. /\ IsRows(stored) /\ NoDigests(named, stored) /\ NewId(named) \in Nat
      /\ stored[NewId(named)].fresh
  <2>1. /\ IsRows(stored)
        /\ DOMAIN stored \subseteq DOMAIN named \cup {NewId(named)}
        /\ stored[NewId(named)] = NewRow(item)
        /\ \A i \in DOMAIN stored : i # NewId(named) => stored[i] = named[i]
    BY <1>3, <1>6, StoreFileInfoIs
  <2>2. NewRow(item).digest = {} /\ NewRow(item).fresh = TRUE
    BY DEF NewRow
  <2>3. NewId(named) \in Nat
    BY <1>6, NewIdIs
  <2>. QED BY <2>1, <2>2, <2>3 DEF NoDigests
<1>. HIDE DEF stored
<1>8. CASE /\ batch' = stored /\ disk' \in {disk, stored, asked}
           /\ Queue(item, NewId(named), {}, FALSE)
           /\ UNCHANGED faults
  <2>1. /\ run' \in Run /\ run'.phase = run.phase /\ run'.halt = run.halt
        /\ jobs' \in SUBSET Job
        /\ \A job \in jobs' : job.state = "reading" => job.fd \in Files
        /\ \A job \in jobs' : job \in jobs \/ (job.id = NewId(named) /\ job.late = FALSE)
    <3>1. {} \in Digests
      BY DEF Digests
    <3>. QED BY <1>3, <1>7, <1>8, <3>1, QueueIs
  <2>2. batch' = stored /\ disk' \in {disk, stored, asked}
    BY <1>8
  <2>3. Types'
    BY <1>2, <1>5, <1>7, <1>8, <2>1, <2>2, TickIs DEF Types
  <2>4. NoDigests(batch, batch')
    BY <1>5, <1>6, <1>7, <2>2, NoDigestsChain
  <2>5. \A job \in jobs' : \/ \E j \in jobs : j.id = job.id /\ j.late = job.late
                           \/ job.id \in DOMAIN batch' => batch'[job.id].fresh
    BY <1>7, <2>1, <2>2
  <2>6. run'.halt = "lost" \/ run.halt # "lost"
    BY <2>1
  <2>7. Scanning'
    BY <1>2, <2>1 DEF Scanning
  <2>. QED BY <2>3, <2>4, <2>5, <2>6, <2>7, NoneHashed DEF Step
<1>9. CASE /\ faults' = faults + 1 /\ EndUnit(asked)
           /\ run' = [run EXCEPT !.missed = TRUE] /\ UNCHANGED jobs
  <2>1. run' \in Run /\ run'.phase = run.phase /\ run'.halt = run.halt
    BY <1>3, <1>9 DEF Run
  <2>2. batch' = asked /\ disk' \in {disk, asked} /\ faults' \in Nat
    BY <1>3, <1>9 DEF EndUnit
  <2>3. Types'
    BY <1>2, <1>5, <1>9, <2>1, <2>2, TickIs DEF Types
  <2>4. NoDigests(batch, batch')
    BY <1>5, <2>2
  <2>6. run'.halt = "lost" \/ run.halt # "lost"
    BY <2>1
  <2>7. Scanning'
    BY <1>2, <2>1 DEF Scanning
  <2>. QED BY <1>9, <2>3, <2>4, <2>6, <2>7, NoneHashed DEF Step
<1>. QED BY <1>1, <1>8, <1>9

\* The csum workers.
LEMMA FedIs ==
    ASSUME Types, NEW job \in jobs, job.state = "reading" PROVE Fed(job) \in Digests
<1>1. job \in Job /\ job.fd \in Files
  BY DEF Types
<1>. QED BY <1>1 DEF Fed, Now, Digests, Job, Types

LEMMA DropJobStep == ASSUME Types, Due, NEW job \in jobs, DropJob(job) PROVE Step
<1>1. /\ run' \in Run /\ run'.phase = run.phase /\ run'.halt = run.halt
  <2>1. run \in Run
    BY DEF Types
  <2>. QED BY <2>1 DEF DropJob, Run
<1>2. jobs' \subseteq jobs /\ Scanning
      /\ UNCHANGED <<tree, version, disk, batch, snap, todo, fileq, gone, changes, faults, calm, mistaken>>
  BY DEF DropJob, Drop, InScan, Scanning
<1>3. Types'
  BY <1>1, <1>2 DEF Types
<1>. QED BY <1>1, <1>2, <1>3 DEF Step, Due, HashesFresh, Scanning

LEMMA GiveUpStep == ASSUME Types, Due, NEW job \in jobs, GiveUp(job) PROVE Step
<1>1. /\ run' \in Run /\ run'.phase = run.phase /\ run'.halt = run.halt
  <2>1. run \in Run
    BY DEF Types
  <2>. QED BY <2>1 DEF GiveUp, Run
<1>2. jobs' \subseteq jobs /\ Scanning
      /\ UNCHANGED <<tree, version, disk, batch, snap, todo, fileq, gone, changes, calm, mistaken>>
  BY DEF GiveUp, Drop, InScan, Scanning
<1>3. faults' \in Nat
  BY DEF GiveUp, Types
<1>4. Types'
  BY <1>1, <1>2, <1>3 DEF Types
<1>. QED BY <1>1, <1>2, <1>4 DEF Step, Due, HashesFresh, Scanning

\* The job goes on as it was, but for what the step sets.
LEMMA JobGoesOn ==
    ASSUME Types, Due, NEW job \in jobs, NEW next \in Job, next.id = job.id,
           next.late = job.late,
           next.state = "reading" => next.fd \in Files, Becomes(job, next),
           IsRows(batch'), IsRows(disk'), NoDigests(batch, batch'), InScan,
           UNCHANGED <<tree, version, snap, run, todo, fileq, gone, changes, faults, calm, mistaken>>
    PROVE  Step
<1>1. jobs' = (jobs \ {job}) \cup {next}
  BY DEF Becomes
<1>2. /\ jobs' \in SUBSET Job
      /\ \A j \in jobs' : j.state = "reading" => j.fd \in Files
      /\ \A j \in jobs' : \E old \in jobs : old.id = j.id /\ old.late = j.late
  BY <1>1 DEF Types
<1>3. Types'
  BY <1>2 DEF Types
<1>4. Scanning' /\ (run'.halt = "lost" \/ run.halt # "lost")
  BY DEF Scanning, InScan
<1>5. \A j \in jobs' : \/ \E old \in jobs : old.id = j.id /\ old.late = j.late
                       \/ j.id \in DOMAIN batch' => batch'[j.id].fresh
  BY <1>2
<1>6. Due' /\ HashesFresh
  BY <1>4, <1>5, NoneHashed
<1>. QED BY <1>3, <1>6 DEF Step

LEMMA OpenJobStep == ASSUME Types, Due, NEW job \in jobs, OpenJob(job) PROVE Step
<1>. DEFINE open == [job EXCEPT !.state = "reading", !.fd = tree[job.name], !.resume = {}]
<1>1. /\ InScan /\ tree[job.name] # NoFile
      /\ \/ /\ Becomes(job, [open EXCEPT !.fed = job.resume])
            /\ UNCHANGED <<disk, batch>>
         \/ /\ Becomes(job, [open EXCEPT !.checkpointed = FALSE])
            /\ EndUnit(RemoveCheckpoint(batch, job.id))
      /\ UNCHANGED <<tree, version, snap, run, todo, fileq, gone, changes, faults, calm, mistaken>>
  BY DEF OpenJob
<1>2. job \in Job /\ tree[job.name] \in Files /\ IsRows(batch) /\ IsRows(disk)
  BY <1>1 DEF Types, Job
<1>3. /\ [open EXCEPT !.fed = job.resume] \in Job
      /\ [open EXCEPT !.fed = job.resume].id = job.id
      /\ [open EXCEPT !.fed = job.resume].late = job.late
      /\ [open EXCEPT !.fed = job.resume].fd \in Files
  BY <1>2 DEF Job, Digests
<1>4. /\ [open EXCEPT !.checkpointed = FALSE] \in Job
      /\ [open EXCEPT !.checkpointed = FALSE].id = job.id
      /\ [open EXCEPT !.checkpointed = FALSE].late = job.late
      /\ [open EXCEPT !.checkpointed = FALSE].fd \in Files
  BY <1>2 DEF Job, Digests
<1>5. PICK next \in Job : /\ next.id = job.id /\ next.late = job.late
                           /\ next.fd \in Files /\ Becomes(job, next)
  BY <1>1, <1>3, <1>4
<1>6. IsRows(batch') /\ IsRows(disk') /\ NoDigests(batch, batch')
  <2>1. job.id \in Nat
    BY <1>2 DEF Job
  <2>2. NoDigests(batch, batch)
    BY DEF NoDigests
  <2>3. \/ batch' = batch /\ disk' = disk
        \/ batch' = RemoveCheckpoint(batch, job.id) /\ disk' \in {disk, batch'}
    BY <1>1 DEF EndUnit
  <2>. QED BY <1>2, <2>1, <2>2, <2>3, RemoveHashesNone
<1>. QED BY <1>1, <1>5, <1>6, JobGoesOn

LEMMA CheckpointJobStep == ASSUME Types, Due, NEW job \in jobs, CheckpointJob(job) PROVE Step
<1>. DEFINE cp == [version |-> job.version, fed |-> Fed(job)]
<1>1. /\ InScan /\ job.state = "reading"
      /\ batch' = StoreCheckpoint(batch, job.id, cp)
      /\ disk' = batch'
      /\ Becomes(job, [job EXCEPT !.fed = Fed(job), !.checkpointed = TRUE])
      /\ UNCHANGED <<tree, version, snap, run, todo, fileq, gone, changes, faults, calm, mistaken>>
  BY DEF CheckpointJob
<1>2. job \in Job /\ job.fd \in Files /\ IsRows(batch) /\ Fed(job) \in Digests
  BY <1>1, FedIs DEF Types
<1>3. cp \in Checkpoints /\ job.id \in Nat
  BY <1>2 DEF Checkpoints, Job
<1>. HIDE DEF cp
<1>4. PICK next \in Job : /\ next.id = job.id /\ next.late = job.late
                           /\ next.fd \in Files /\ Becomes(job, next)
  BY <1>1, <1>2 DEF Job
<1>5. /\ IsRows(batch') /\ DOMAIN batch' = DOMAIN batch
      /\ \A i \in DOMAIN batch :
            batch'[i] = IF i = job.id THEN WithCheckpoint(batch[i], cp) ELSE batch[i]
  BY <1>1, <1>2, <1>3, StoreCheckpointIs
<1>6. \A i \in DOMAIN batch : batch[i] \in Row
  BY <1>2, RowsAre
<1>7. \A i \in DOMAIN batch :
         batch'[i].digest = batch[i].digest /\ batch'[i].fresh = batch[i].fresh
  BY <1>5, <1>6 DEF Row, WithCheckpoint
<1>8. NoDigests(batch, batch')
  BY <1>5, <1>7 DEF NoDigests
<1>. QED BY <1>1, <1>4, <1>5, <1>8, JobGoesOn

\* Here a digest comes in, and its row is due.
LEMMA FinishJobStep == ASSUME Types, Due, NEW job \in jobs, FinishJob(job) PROVE Step
<1>. DEFINE plain == IF job.checkpointed THEN RemoveCheckpoint(batch, job.id) ELSE batch
<1>1. /\ Scanning /\ run.halt # "lost" /\ job.state = "reading"
      /\ jobs' = jobs \ {job}
      /\ IF job.id \in DOMAIN batch
         THEN EndUnit(UpdateScannedFile(plain, job.id, Fed(job)))
         ELSE UNCHANGED <<disk, batch>>
      /\ run' = [run EXCEPT !.missed = @ \/ job.id \notin DOMAIN batch]
      /\ UNCHANGED <<tree, version, snap, todo, fileq, gone, changes, faults, calm, mistaken>>
  BY DEF FinishJob, InScan, Scanning, Drop
<1>2. job \in Job /\ IsRows(batch) /\ IsRows(disk) /\ Fed(job) \in Digests /\ run \in Run
  BY <1>1, FedIs DEF Types
<1>3. run' \in Run /\ run'.phase = run.phase /\ run'.halt = run.halt
  BY <1>1, <1>2 DEF Run
<1>4. job.id \in Nat /\ (job.id \in DOMAIN batch => job.late \/ batch[job.id].fresh)
  BY <1>1, <1>2 DEF Due, Job
<1>5. IsRows(plain) /\ NoDigests(batch, plain) /\ DOMAIN plain = DOMAIN batch
      /\ \A i \in DOMAIN batch : plain[i].fresh = batch[i].fresh
  <2>0. plain \in {batch, RemoveCheckpoint(batch, job.id)}
    OBVIOUS
  <2>. HIDE DEF plain
  <2>1. NoDigests(batch, batch)
    BY DEF NoDigests
  <2>. QED BY <1>2, <1>4, <2>0, <2>1, RemoveHashesNone
<1>. HIDE DEF plain
<1>6. CASE job.id \notin DOMAIN batch
  <2>1. Types'
    BY <1>1, <1>2, <1>3, <1>6 DEF Types
  <2>2. batch' = batch
    BY <1>1, <1>6
  <2>. QED BY <1>1, <1>3, <2>1, <2>2 DEF Step, Due, HashesFresh, Scanning
<1>7. CASE job.id \in DOMAIN batch
  <2>1. batch' = UpdateScannedFile(plain, job.id, Fed(job)) /\ disk' \in {disk, batch'}
    BY <1>1, <1>7 DEF EndUnit
  <2>2. /\ IsRows(batch') /\ DOMAIN batch' = DOMAIN plain
        /\ \A i \in DOMAIN plain :
              batch'[i] = IF i = job.id THEN WithDigest(plain[i], Fed(job)) ELSE plain[i]
    BY <1>2, <1>4, <1>5, <2>1, UpdateScannedFileIs
  <2>3. \A i \in DOMAIN plain : plain[i] \in Row
    BY <1>5, RowsAre
  <2>4. \A i \in DOMAIN batch : batch'[i].fresh = batch[i].fresh
    BY <1>5, <2>2, <2>3 DEF Row, WithDigest
  <2>5. Types'
    BY <1>1, <1>2, <1>3, <2>1, <2>2 DEF Types
  <2>6. Due'
    BY <1>1, <1>3, <1>5, <2>2, <2>4 DEF Due, Scanning
  <2>7. ASSUME NEW i \in DOMAIN batch, batch[i].digest = {}, batch'[i].digest # {},
               ~LateAnswer(i)
        PROVE  batch'[i].fresh
    <3>1. CASE i = job.id
      <4>1. ~job.late
        BY <1>1, <2>7, <3>1 DEF LateAnswer
      <4>. QED BY <1>4, <2>4, <3>1, <4>1
    <3>2. CASE i # job.id
      BY <1>5, <2>2, <2>7, <3>2 DEF NoDigests
    <3>. QED BY <3>1, <3>2
  <2>. QED BY <2>5, <2>6, <2>7 DEF Step, HashesFresh
<1>. QED BY <1>6, <1>7

LEMMA InitTypes == Init => Types /\ Due
<1>. SUFFICES ASSUME Init PROVE Types /\ Due
  OBVIOUS
<1>1. IsRows(disk) /\ IsRows(batch)
  BY NoRowsAre DEF Init
<1>2. run \in Run
  BY IdleIs DEF Init
<1>3. Types
  BY <1>1, <1>2, NoSnapIs DEF Init, Types
<1>4. Due
  BY DEF Init, Due
<1>. QED BY <1>3, <1>4

LEMMA NextTypes == Types /\ Due /\ [Next]_vars => Types' /\ Due' /\ [HashesFresh]_vars
<1>. SUFFICES ASSUME Types, Due, [Next]_vars PROVE Types' /\ Due' /\ [HashesFresh]_vars
  OBVIOUS
<1>1. CASE UNCHANGED vars
  BY <1>1 DEF vars, Types, Due, Scanning
<1>2. CASE Next
  <2>1. Step
    BY <1>2, StartStep, EndStep, PruneDeleteStep, FileSystemStep, ListingStep,
       LeaveAloneStep, ResumeScanStep, StoreFileRowStep, DropJobStep, OpenJobStep,
       CheckpointJobStep, FinishJobStep, GiveUpStep DEF Next
  <2>. QED BY <2>1 DEF Step
<1>. QED BY <1>1, <1>2

\* Every variable keeps its type: rows have ids from one on, a request being
\* hashed has a file open.
THEOREM ListingTypes == Spec => []Types
<1>1. Types /\ Due /\ [Next]_vars => (Types /\ Due)'
  BY NextTypes
<1>. QED BY <1>1, InitTypes, PTL DEF Spec

\* However many runs it takes, and whatever is lost between the listing of a
\* file and the last unit of its hashing, its digest comes in above the
\* watermark (resume_scan(), dbfile_update_dedupe_seq()).
THEOREM HashesAreFresh == Spec => HashedIsFresh
<1>1. Types /\ Due /\ [Next]_vars => (Types /\ Due)' /\ [HashesFresh]_vars
  BY NextTypes
<1>2. Spec => [][HashesFresh]_vars
  BY <1>1, InitTypes, PTL DEF Spec
<1>. QED BY <1>2 DEF HashedIsFresh, HashesFresh

-----------------------------------------------------------------------------
(* Whose row a request has.                                                *)
(*                                                                         *)
(* An item of the file queue was true when its name was read.  What keeps  *)
(* the consumer from taking one file's row for another's is what follows   *)
(* for a row whose name holds, or held when it was read, a second file.    *)

SameIds(rows, next) ==
    /\ DOMAIN next = DOMAIN rows
    /\ \A i \in DOMAIN rows : next[i].ino = rows[i].ino /\ next[i].name = rows[i].name

\* All that makes a row True is in another as well.
SameFacts(row, other) ==
    /\ other.ino = row.ino /\ other.name = row.name
    /\ other.version = row.version /\ other.digest = row.digest

SameRows(rows, next) ==
    /\ DOMAIN next = DOMAIN rows
    /\ \A i \in DOMAIN rows : SameFacts(rows[i], next[i])

\* Of an item or a request: its name still holds what it held.
Current(it) == tree[it.name] = it.ino /\ version[it.ino] = it.version

Recorded(file) ==
    \/ \E i \in DOMAIN batch : batch[i].ino = file
    \/ \E i \in DOMAIN Visible : Visible[i].ino = file

\* It has a row of an earlier run, and nothing of it has been queued.
Left(file) == file \notin run.seenInodes /\ Recorded(file)

Queued(file) == \E item \in fileq : item.ino = file

\* A name holds a file, or did when it was read.
Held(name, file) ==
    \/ tree[name] = file /\ file # NoFile
    \/ \E item \in fileq : item.name = name /\ item.ino = file

\* The row of a file queued in this run has this id or a greater one, so that
\* it is not given out again.
SeenFrom(id) == \E i \in DOMAIN batch : id <= i /\ batch[i].ino \in run.seenInodes

OwnRows ==
    \A job \in jobs :
       IF job.id \in DOMAIN batch THEN batch[job.id].ino = job.ino ELSE ~Current(job)

\* If its row may yet be replaced, the file is not there any more.
JobsListed ==
    \A job \in jobs :
       /\ job.ino \in run.seenInodes /\ SeenFrom(job.id)
       /\ job.id \in DOMAIN batch =>
             \A file : Held(batch[job.id].name, file) /\ file # job.ino => ~Current(job)

\* What a row may yet be replaced by has no row itself under another name that
\* would be renamed to this one, unless nobody asks for the row any more.
RowsLeft ==
    \A i \in DOMAIN batch : \A file :
       Held(batch[i].name, file) /\ file # batch[i].ino =>
          IF batch[i].ino \in run.seenInodes THEN ~Left(file)
          ELSE ~Exists(batch[i].ino) /\ (Queued(batch[i].ino) => ~Left(file))

ItemsListed ==
    \A item \in fileq :
       /\ tree[item.name] \notin {NoFile, item.ino} => ~Left(tree[item.name])
       /\ item.seed => \A other \in fileq :
             other.name = item.name /\ other.ino # item.ino =>
                ~Current(item) /\ ~Left(other.ino)

\* The snapshot's row of a file is the batch's, unless the file is gone.
Remembered ==
    \A id \in DOMAIN Visible :
       \/ Visible[id].ino \in run.seenInodes
       \/ id \in DOMAIN batch /\ batch[id].ino = Visible[id].ino
       \/ /\ ~Exists(Visible[id].ino)
          /\ Queued(Visible[id].ino) => id \notin DOMAIN batch /\ SeenFrom(id)

\* A name is read once, and was looked at once before.
WalkOnce ==
    /\ \A item \in fileq : ~item.seed => item.name \notin todo
    /\ \A p, q \in fileq : p.seed = q.seed /\ p.name = q.name => p = q

Older ==
    /\ \A job \in jobs : job.version <= version[job.ino]
    /\ \A item \in fileq : item.version <= version[item.ino]

Calm == calm /\ ~run.reborn

Apart == JobsListed /\ RowsLeft /\ ItemsListed /\ Remembered

Owned ==
    /\ Older
    /\ snap.open => run.phase = "listing"
    /\ run.phase = "listing" =>
          /\ run.halt = "no" /\ WalkOnce
          /\ ~snap.open => SameIds(disk, batch)
          /\ Calm => Apart
    /\ Calm /\ run.halt # "lost" => OwnRows

\* As far as its row goes, a request stays what it was.
Alike(job, old) ==
    job.id = old.id /\ job.name = old.name /\ job.ino = old.ino /\ job.version = old.version

LEMMA OwnRowsStay ==
    ASSUME OwnRows, SameIds(batch, batch'), UNCHANGED <<tree, version>>,
           \A job \in jobs' : \E old \in jobs : Alike(job, old)
    PROVE  OwnRows'
<1>. SUFFICES ASSUME NEW job \in jobs'
              PROVE  IF job.id \in DOMAIN batch' THEN batch'[job.id].ino = job.ino
                     ELSE ~Current(job)'
  BY DEF OwnRows
<1>1. PICK old \in jobs : Alike(job, old)
  OBVIOUS
<1>. QED BY <1>1 DEF OwnRows, SameIds, Alike, Current

\* The listing goes on, and no row comes or goes.
LEMMA ApartStays ==
    ASSUME Apart, SameIds(batch, batch'), UNCHANGED <<tree, version>>,
           run'.seenInodes = run.seenInodes, fileq' \subseteq fileq,
           \A job \in jobs' : \E old \in jobs : Alike(job, old),
           \A id \in DOMAIN Visible' :
              \/ id \in DOMAIN Visible /\ Visible'[id].ino = Visible[id].ino
              \/ id \in DOMAIN batch /\ Visible'[id].ino = batch[id].ino
    PROVE  Apart'
<1>1. \A name, file : Held(name, file)' => Held(name, file)
  BY DEF Held
<1>2. \A file : (Queued(file)' => Queued(file)) /\ (Exists(file)' <=> Exists(file))
  BY DEF Queued, Exists, Holds
<1>3. \A file : Left(file)' => Left(file)
  BY DEF Left, Recorded, SameIds
<1>4. \A id : SeenFrom(id)' <=> SeenFrom(id)
  BY DEF SeenFrom, SameIds
<1>5. JobsListed'
  <2>. SUFFICES ASSUME NEW job \in jobs'
                PROVE  /\ job.ino \in run'.seenInodes /\ SeenFrom(job.id)'
                       /\ job.id \in DOMAIN batch' =>
                             \A file : Held(batch[job.id].name, file)' /\ file # job.ino =>
                                ~Current(job)'
    BY DEF JobsListed
  <2>1. PICK old \in jobs : Alike(job, old)
    OBVIOUS
  <2>2. Current(job)' <=> Current(old)
    BY <2>1 DEF Current, Alike
  <2>3. job.id \in DOMAIN batch' => job.id \in DOMAIN batch /\ batch'[job.id].name = batch[job.id].name
    BY DEF SameIds
  <2>. QED BY <1>1, <1>4, <2>1, <2>2, <2>3 DEF Apart, JobsListed, Alike
<1>6. RowsLeft'
  <2>. SUFFICES ASSUME NEW i \in DOMAIN batch', NEW file,
                       Held(batch[i].name, file)', file # batch'[i].ino
                PROVE  IF batch'[i].ino \in run'.seenInodes THEN ~Left(file)'
                       ELSE ~Exists(batch[i].ino)' /\ (Queued(batch[i].ino)' => ~Left(file)')
    BY DEF RowsLeft
  <2>1. i \in DOMAIN batch /\ batch'[i].ino = batch[i].ino /\ batch'[i].name = batch[i].name
    BY DEF SameIds
  <2>2. Held(batch[i].name, file)
    BY <1>1, <2>1
  <2>. QED BY <1>2, <1>3, <2>1, <2>2 DEF Apart, RowsLeft
<1>7. ItemsListed'
  <2>1. \A item \in fileq' : Current(item)' <=> Current(item)
    BY DEF Current
  <2>. QED BY <1>3, <2>1 DEF Apart, ItemsListed
<1>8. Remembered'
  <2>. SUFFICES ASSUME NEW id \in DOMAIN Visible'
                PROVE  \/ Visible'[id].ino \in run'.seenInodes
                       \/ id \in DOMAIN batch' /\ batch'[id].ino = Visible'[id].ino
                       \/ /\ ~Exists(Visible[id].ino)'
                          /\ Queued(Visible[id].ino)' => id \notin DOMAIN batch' /\ SeenFrom(id)'
    BY DEF Remembered
  <2>1. CASE id \in DOMAIN Visible /\ Visible'[id].ino = Visible[id].ino
    BY <1>2, <1>4, <2>1 DEF Apart, Remembered, SameIds
  <2>2. CASE id \in DOMAIN batch /\ Visible'[id].ino = batch[id].ino
    BY <2>2 DEF SameIds
  <2>. QED BY <2>1, <2>2
<1>. QED BY <1>5, <1>6, <1>7, <1>8 DEF Apart

\* Steps of workers and of the consumer by which no row comes or goes.
LEMMA QuietOwned ==
    ASSUME Owned, SameIds(batch, batch'), UNCHANGED <<tree, version, calm, mistaken>>,
           run'.seenInodes = run.seenInodes, run'.reborn = run.reborn,
           run'.halt = run.halt, run'.phase = run.phase,
           fileq' \subseteq fileq, todo' \subseteq todo,
           snap'.open => run.phase = "listing",
           run.phase = "listing" => \A id \in DOMAIN Visible' :
              \/ id \in DOMAIN Visible /\ Visible'[id].ino = Visible[id].ino
              \/ id \in DOMAIN batch /\ Visible'[id].ino = batch[id].ino,
           run.phase = "listing" /\ ~snap'.open => SameIds(disk', batch'),
           \A job \in jobs' : \E old \in jobs : Alike(job, old)
    PROVE  Owned'
<1>1. Older'
  BY DEF Owned, Older, Alike
<1>2. Calm' <=> Calm
  BY DEF Calm
<1>3. Calm /\ run.halt # "lost" => OwnRows'
  BY OwnRowsStay DEF Owned
<1>4. run.phase = "listing" /\ Calm => Apart'
  BY ApartStays DEF Owned
<1>5. run.phase = "listing" => WalkOnce'
  BY DEF Owned, WalkOnce
<1>. QED BY <1>1, <1>2, <1>3, <1>4, <1>5 DEF Owned

(* The file system during a run: names lose their files, and files come    *)
(* that were nowhere.                                                      *)
Comes(name) == tree'[name] # tree[name] /\ tree'[name] # NoFile

LEMMA Decay ==
    ASSUME Types, Types', \A file \in Files : version'[file] >= version[file],
           \A name \in Names : Comes(name) =>
              ~Exists(tree'[name]) /\ version'[tree'[name]] > version[tree'[name]],
           NEW it, it.name \in Names, it.ino \in Files, it.version \in Nat,
           it.version <= version[it.ino], ~Current(it)
    PROVE  ~Current(it)'
<1>1. /\ version[it.ino] \in Nat /\ version'[it.ino] \in Nat
      /\ it.ino # NoFile
  BY ListingConstants DEF Types
<1>2. CASE tree[it.name] = it.ino
  <2>1. version[it.ino] > it.version
    BY <1>1, <1>2 DEF Current
  <2>. QED BY <1>1, <2>1 DEF Current
<1>3. CASE tree[it.name] # it.ino
  <2>1. SUFFICES ASSUME tree'[it.name] = it.ino PROVE version'[it.ino] # it.version
    BY DEF Current
  <2>2. Comes(it.name)
    BY <1>1, <1>3, <2>1 DEF Comes
  <2>. QED BY <1>1, <2>1, <2>2
<1>. QED BY <1>2, <1>3

LEMMA ChangedSame ==
    ASSUME Types, Types', Owned, Changed, \A file \in Files : version'[file] >= version[file]
    PROVE  /\ UNCHANGED <<disk, batch, snap, todo, fileq, jobs>>
           /\ run'.seenInodes = run.seenInodes /\ run'.halt = run.halt /\ run'.phase = run.phase
           /\ run'.reborn = (run.reborn \/ Reborn)
           /\ calm' => calm /\ (run.phase # "idle" => ~Displaced(batch)')
           /\ Older'
<1>1. /\ UNCHANGED <<disk, batch, snap, todo, fileq, jobs>>
      /\ run'.seenInodes = run.seenInodes /\ run'.halt = run.halt /\ run'.phase = run.phase
      /\ run'.reborn = (run.reborn \/ Reborn)
      /\ calm' => calm /\ (run.phase # "idle" => ~Displaced(batch)')
  <2>1. run \in Run
    BY DEF Types
  <2>2. run' = [run EXCEPT !.quiet = FALSE, !.complete = FALSE, !.reborn = @ \/ Reborn]
    BY DEF Changed
  <2>3. /\ run'.seenInodes = run.seenInodes /\ run'.halt = run.halt /\ run'.phase = run.phase
        /\ run'.reborn = (run.reborn \/ Reborn)
    BY <2>1, <2>2 DEF Run
  <2>4. calm' => calm /\ (run.phase # "idle" => ~Displaced(batch)')
    BY DEF Changed
  <2>5. UNCHANGED <<disk, batch, snap, todo, fileq, jobs>>
    BY DEF Changed
  <2>. QED BY <2>3, <2>4, <2>5
<1>2. Older'
  <2>1. \A job \in jobs : job.version \in Nat /\ version[job.ino] \in Nat
           /\ version'[job.ino] \in Nat /\ version'[job.ino] >= version[job.ino]
    BY DEF Types, Job
  <2>2. \A item \in fileq : item.version \in Nat /\ version[item.ino] \in Nat
           /\ version'[item.ino] \in Nat /\ version'[item.ino] >= version[item.ino]
    BY DEF Types, Item
  <2>3. \A job \in jobs' : job.version <= version'[job.ino]
    BY <1>1, <2>1 DEF Owned, Older
  <2>4. \A item \in fileq' : item.version <= version'[item.ino]
    BY <1>1, <2>2 DEF Owned, Older
  <2>. QED BY <2>3, <2>4 DEF Older
<1>. QED BY <1>1, <1>2

LEMMA IdleOwned ==
    ASSUME Types, Types', Owned, Changed, jobs # {} => Scanning, run.phase = "idle",
           \A file \in Files : version'[file] >= version[file]
    PROVE  Owned'
<1>1. /\ UNCHANGED <<disk, batch, snap, todo, fileq, jobs>>
      /\ run'.phase = run.phase /\ Older'
  BY ChangedSame
<1>2. jobs' = {}
  BY <1>1 DEF Scanning
<1>. QED BY <1>1, <1>2 DEF Owned, OwnRows

LEMMA ChangedOwned ==
    ASSUME Types, Types', Owned, Changed, jobs # {} => Scanning, run.phase # "idle",
           \A file \in Files : version'[file] >= version[file],
           \A name \in Names : Comes(name) =>
              ~Exists(tree'[name]) /\ version'[tree'[name]] > version[tree'[name]]
    PROVE  Owned'
<1>1. /\ UNCHANGED <<disk, batch, snap, todo, fileq, jobs>>
      /\ run'.seenInodes = run.seenInodes /\ run'.halt = run.halt /\ run'.phase = run.phase
      /\ run'.reborn = (run.reborn \/ Reborn)
      /\ calm' => calm /\ ~Displaced(batch)'
      /\ Older'
  BY ChangedSame
<1>3. \A job \in jobs : ~Current(job) => ~Current(job)'
  <2>. SUFFICES ASSUME NEW job \in jobs, ~Current(job) PROVE ~Current(job)'
    OBVIOUS
  <2>1. job.name \in Names /\ job.ino \in Files /\ job.version \in Nat
        /\ job.version <= version[job.ino]
    BY DEF Types, Job, Owned, Older
  <2>. QED BY <2>1, Decay
<1>4. \A item \in fileq : ~Current(item) => ~Current(item)'
  <2>. SUFFICES ASSUME NEW item \in fileq, ~Current(item) PROVE ~Current(item)'
    OBVIOUS
  <2>1. item.name \in Names /\ item.ino \in Files /\ item.version \in Nat
        /\ item.version <= version[item.ino]
    BY DEF Types, Item, Owned, Older
  <2>. QED BY <2>1, Decay
<1>5. Calm' => Calm /\ ~Reborn /\ ~Displaced(batch)'
  BY <1>1 DEF Calm
<1>6. Calm' /\ run'.halt # "lost" => OwnRows'
  BY <1>1, <1>3, <1>5 DEF Owned, OwnRows
<1>7. ASSUME Calm', run.phase = "listing" PROVE Apart'
  <2>1. Apart /\ ~Reborn /\ ~Displaced(batch)' /\ (~snap.open => SameIds(disk, batch))
    BY <1>5, <1>7 DEF Owned
  <2>2. /\ Visible' = Visible /\ (\A file : Queued(file)' <=> Queued(file))
        /\ \A file : Left(file)' <=> Left(file)
        /\ \A id : SeenFrom(id)' <=> SeenFrom(id)
    BY <1>1 DEF Visible, Queued, Left, Recorded, SeenFrom
  <2>3. \A file : Recorded(file) /\ ~Exists(file) => ~Exists(file)'
    <3>. SUFFICES ASSUME NEW file, Recorded(file), ~Exists(file), Exists(file)' PROVE FALSE
      OBVIOUS
    <3>1. \/ \E i \in DOMAIN batch : batch[i].ino = file
          \/ \E k \in DOMAIN snap.rows : snap.rows[k].ino = file
      BY <2>1 DEF Recorded, Visible, SameIds
    <3>. QED BY <1>7, <2>1, <3>1 DEF Reborn
  <2>4. \A name \in Names : \A file : Held(name, file)' =>
           Held(name, file) \/ (~Left(file) /\ tree'[name] = file /\ file # NoFile)
    <3>. SUFFICES ASSUME NEW name \in Names, NEW file, Held(name, file)', ~Held(name, file)
                  PROVE  ~Left(file) /\ tree'[name] = file /\ file # NoFile
      OBVIOUS
    <3>1. tree'[name] = file /\ file # NoFile /\ tree[name] # file
      BY <1>1 DEF Held
    <3>2. ~Exists(file) /\ Exists(file)'
      BY <3>1 DEF Comes, Exists, Holds
    <3>. QED BY <2>3, <3>1, <3>2 DEF Left
  <2>5. \A i \in DOMAIN batch : batch[i].name \in Names /\ batch[i].ino \in Files
    BY RowsAre DEF Types, Row
  <2>6. \A i \in DOMAIN batch : \A file : file = batch[i].ino /\ Exists(file)' =>
           tree'[batch[i].name] \in {NoFile, file}
    BY <1>1, <2>1 DEF Displaced
  <2>7. JobsListed'
    <3>. SUFFICES ASSUME NEW job \in jobs
                  PROVE  /\ job.ino \in run'.seenInodes /\ SeenFrom(job.id)'
                         /\ job.id \in DOMAIN batch' =>
                               \A file : Held(batch[job.id].name, file)' /\ file # job.ino =>
                                  ~Current(job)'
      BY <1>1 DEF JobsListed
    <3>1. job.ino \in run.seenInodes /\ SeenFrom(job.id)
      BY <2>1 DEF Apart, JobsListed
    <3>. SUFFICES ASSUME job.id \in DOMAIN batch, NEW file,
                         Held(batch[job.id].name, file)', file # job.ino
                  PROVE  ~Current(job)'
      BY <1>1, <2>2, <3>1
    <3>2. CASE Held(batch[job.id].name, file)
      <4>1. ~Current(job)
        BY <2>1, <3>2 DEF Apart, JobsListed
      <4>. QED BY <1>3, <4>1
    <3>3. CASE ~Held(batch[job.id].name, file)
      <4>1. tree'[batch[job.id].name] = file /\ file # NoFile
        BY <1>1, <2>4, <2>5, <3>3
      <4>2. batch[job.id].ino = job.ino
        <5>1. OwnRows
          BY <1>5, <1>7 DEF Owned
        <5>. QED BY <5>1 DEF OwnRows
      <4>3. \A own : own = job.ino => ~Exists(own)'
        BY <2>6, <3>3, <4>1, <4>2
      <4>4. job.name \in Names
        BY DEF Types, Job
      <4>. QED BY <4>3, <4>4 DEF Current, Exists, Holds
    <3>. QED BY <3>2, <3>3
  <2>8. RowsLeft'
    <3>. SUFFICES ASSUME NEW i \in DOMAIN batch, NEW file,
                         Held(batch[i].name, file)', file # batch[i].ino
                  PROVE  IF batch[i].ino \in run.seenInodes THEN ~Left(file)
                         ELSE /\ \A own : own = batch[i].ino => ~Exists(own)'
                              /\ Queued(batch[i].ino) => ~Left(file)
      BY <1>1, <2>2 DEF RowsLeft
    <3>1. CASE Held(batch[i].name, file)
      <4>1. IF batch[i].ino \in run.seenInodes THEN ~Left(file)
            ELSE ~Exists(batch[i].ino) /\ (Queued(batch[i].ino) => ~Left(file))
        BY <2>1, <3>1 DEF Apart, RowsLeft
      <4>2. Recorded(batch[i].ino)
        BY DEF Recorded
      <4>3. \A own : own = batch[i].ino /\ ~Exists(own) => ~Exists(own)'
        BY <2>3, <4>2
      <4>. QED BY <4>1, <4>3
    <3>2. CASE ~Held(batch[i].name, file)
      <4>1. ~Left(file) /\ tree'[batch[i].name] = file /\ file # NoFile
        BY <1>1, <2>4, <2>5, <3>2
      <4>2. \A own : own = batch[i].ino => ~Exists(own)'
        BY <2>6, <4>1
      <4>. QED BY <4>1, <4>2
    <3>. QED BY <3>1, <3>2
  <2>9. ItemsListed'
    <3>. SUFFICES ASSUME NEW item \in fileq
                  PROVE  /\ tree'[item.name] \notin {NoFile, item.ino} => ~Left(tree'[item.name])
                         /\ item.seed => \A other \in fileq :
                               other.name = item.name /\ other.ino # item.ino =>
                                  ~Current(item)' /\ ~Left(other.ino)
      BY <1>1, <2>2 DEF ItemsListed
    <3>1. item.name \in Names
      BY DEF Types, Item
    <3>2. ASSUME tree'[item.name] \notin {NoFile, item.ino} PROVE ~Left(tree'[item.name])
      <4>1. CASE tree'[item.name] = tree[item.name]
        BY <2>1, <3>2, <4>1 DEF Apart, ItemsListed
      <4>2. CASE tree'[item.name] # tree[item.name]
        <5>1. PICK file : file = tree'[item.name]
          OBVIOUS
        <5>2. ~Exists(file) /\ Exists(file)'
          BY <3>1, <3>2, <4>2, <5>1 DEF Comes, Exists, Holds
        <5>. QED BY <2>3, <5>1, <5>2 DEF Left
      <4>. QED BY <4>1, <4>2
    <3>. QED BY <1>4, <2>1, <3>2 DEF Apart, ItemsListed
  <2>10. Remembered'
    <3>. SUFFICES ASSUME NEW id \in DOMAIN Visible
                  PROVE  \/ Visible[id].ino \in run.seenInodes
                         \/ id \in DOMAIN batch /\ batch[id].ino = Visible[id].ino
                         \/ /\ \A own : own = Visible[id].ino => ~Exists(own)'
                            /\ Queued(Visible[id].ino) => id \notin DOMAIN batch /\ SeenFrom(id)
      BY <1>1, <2>2 DEF Remembered
    <3>1. Recorded(Visible[id].ino)
      BY DEF Recorded
    <3>2. \A own : own = Visible[id].ino /\ ~Exists(own) => ~Exists(own)'
      BY <2>3, <3>1
    <3>. QED BY <2>1, <3>2 DEF Apart, Remembered
  <2>. QED BY <2>7, <2>8, <2>9, <2>10 DEF Apart
<1>. QED BY <1>1, <1>5, <1>6, <1>7 DEF Owned, WalkOnce

LEMMA FileSystemOwned ==
    ASSUME Types, Types', Owned, jobs # {} => Scanning
    PROVE  /\ \A file \in Files : Write(file) => Owned'
           /\ \A name \in Names : Unlink(name) => Owned'
           /\ \A name \in Names, file \in Files : Create(name, file) => Owned'
           /\ \A from, to \in Names : Link(from, to) \/ Move(from, to) => Owned'
<1>1. /\ tree \in [Names -> Files \cup {NoFile}] /\ version \in [Files -> Nat]
      /\ version' \in [Files -> Nat] /\ NoFile \notin Files
  BY ListingConstants DEF Types
<1>2. ASSUME NEW file \in Files, Write(file) PROVE Owned'
  <2>1. Changed /\ UNCHANGED tree /\ version' = [version EXCEPT ![file] = @ + 1]
    BY <1>2 DEF Write
  <2>2. \A f \in Files : version[f] \in Nat /\ version'[f] >= version[f]
    BY <1>1, <2>1
  <2>3. \A name \in Names : ~Comes(name)
    BY <2>1 DEF Comes
  <2>. QED BY <2>1, <2>2, <2>3, ChangedOwned, IdleOwned
<1>3. ASSUME NEW name \in Names, Unlink(name) PROVE Owned'
  <2>1. Changed /\ UNCHANGED version /\ tree' = [tree EXCEPT ![name] = NoFile]
    BY <1>3 DEF Unlink
  <2>2. \A f \in Files : version[f] \in Nat /\ version'[f] >= version[f]
    BY <1>1, <2>1
  <2>3. \A n \in Names : ~Comes(n)
    BY <1>1, <2>1 DEF Comes
  <2>. QED BY <2>1, <2>2, <2>3, ChangedOwned, IdleOwned
<1>4. ASSUME NEW name \in Names, NEW file \in Files, Create(name, file) PROVE Owned'
  <2>1. /\ Changed /\ ~Exists(file)
        /\ tree' = [tree EXCEPT ![name] = file]
        /\ version' = [version EXCEPT ![file] = @ + 1]
    BY <1>4 DEF Create
  <2>2. \A f \in Files : version[f] \in Nat /\ version'[f] >= version[f]
    BY <1>1, <2>1
  <2>3. \A n \in Names : Comes(n) => tree'[n] = file
    BY <1>1, <2>1 DEF Comes
  <2>4. version'[file] > version[file]
    BY <1>1, <2>1, <2>2
  <2>5. \A n \in Names : Comes(n) =>
           ~Exists(tree'[n]) /\ version'[tree'[n]] > version[tree'[n]]
    BY <2>1, <2>3, <2>4
  <2>. QED BY <2>1, <2>2, <2>5, ChangedOwned, IdleOwned
<1>5. ASSUME NEW from \in Names, NEW to \in Names, Link(from, to) \/ Move(from, to) PROVE Owned'
  <2>1. Changed /\ UNCHANGED version /\ run.phase = "idle"
    BY <1>5 DEF Link, Move
  <2>2. \A f \in Files : version[f] \in Nat /\ version'[f] >= version[f]
    BY <1>1, <2>1
  <2>. QED BY <2>1, <2>2, IdleOwned
<1>. QED BY <1>2, <1>3, <1>4, <1>5

(* The listing. *)
LEMMA WalkNameOwned ==
    ASSUME Types, Types', Owned, NEW name \in Names, WalkName(name)
    PROVE  Owned'
<1>1. /\ run.phase = "listing" /\ name \in todo /\ todo' = todo \ {name}
      /\ fileq' = IF tree[name] = NoFile THEN fileq ELSE fileq \cup {Stat(name, FALSE)}
      /\ UNCHANGED <<tree, version, disk, batch, snap, run, jobs, calm, mistaken>>
  BY DEF WalkName
<1>2. CASE tree[name] = NoFile
  <2>. QED BY <1>1, <1>2, QuietOwned DEF SameIds, Alike, Visible, Owned
<1>3. CASE tree[name] # NoFile
  <2>. DEFINE new == Stat(name, FALSE)
  <2>1. /\ fileq' = fileq \cup {new}
        /\ new.name = name /\ new.ino = tree[name] /\ new.ino # NoFile
        /\ new.version = version[new.ino] /\ new.seed = FALSE /\ new.ino \in Files
        /\ version[new.ino] \in Nat
    BY <1>1, <1>3 DEF Stat, Types
  <2>. HIDE DEF new
  <2>2. Older'
    <3>1. new.version <= version[new.ino]
      BY <2>1
    <3>2. \A item \in fileq' : item.version <= version[item.ino]
      BY <2>1, <3>1 DEF Owned, Older
    <3>. QED BY <1>1, <3>2 DEF Owned, Older
  <2>3. WalkOnce'
    BY <1>1, <2>1 DEF Owned, WalkOnce
  <2>4. ASSUME Calm PROVE Apart'
    <3>1. Apart
      BY <1>1, <2>4 DEF Owned
    <3>2. /\ Visible' = Visible
          /\ \A n, file : Held(n, file)' => Held(n, file)
          /\ \A file : Queued(file)' => Queued(file) \/ file = new.ino
          /\ \A file : Left(file)' <=> Left(file)
          /\ \A id : SeenFrom(id)' <=> SeenFrom(id)
          /\ \A job : Current(job)' <=> Current(job)
          /\ \A file : Exists(file)' <=> Exists(file)
      BY <1>1, <2>1 DEF Visible, Held, Queued, Left, Recorded, SeenFrom, Current, Exists, Holds
    <3>3. Exists(new.ino)
      BY <2>1 DEF Exists, Holds
    <3>4. JobsListed'
      BY <1>1, <3>1, <3>2 DEF Apart, JobsListed
    <3>5. RowsLeft'
      <4>. SUFFICES ASSUME NEW i \in DOMAIN batch, NEW file,
                           Held(batch[i].name, file), file # batch[i].ino
                    PROVE  IF batch[i].ino \in run.seenInodes THEN ~Left(file)
                           ELSE ~Exists(batch[i].ino) /\ (Queued(batch[i].ino)' => ~Left(file))
        BY <1>1, <3>2 DEF RowsLeft
      <4>1. Queued(batch[i].ino)' => Queued(batch[i].ino) \/ batch[i].ino = new.ino
        BY <1>1, <3>2
      <4>. QED BY <3>1, <3>3, <4>1 DEF Apart, RowsLeft
    <3>6. ItemsListed'
      <4>1. ASSUME NEW item \in fileq'
            PROVE  tree[item.name] \notin {NoFile, item.ino} => ~Left(tree[item.name])
        BY <2>1, <3>1 DEF Apart, ItemsListed
      <4>2. ASSUME NEW item \in fileq', item.seed, NEW other \in fileq',
                   other.name = item.name, other.ino # item.ino
            PROVE  ~Current(item) /\ ~Left(other.ino)
        <5>1. item \in fileq
          BY <2>1, <4>2
        <5>2. CASE other \in fileq
          BY <3>1, <4>2, <5>1, <5>2 DEF Apart, ItemsListed
        <5>3. CASE other = new
          <6>1. tree[item.name] = other.ino /\ other.ino # NoFile
            BY <2>1, <4>2, <5>3
          <6>. QED BY <3>1, <4>2, <5>1, <6>1 DEF Apart, ItemsListed, Current
        <5>. QED BY <2>1, <5>2, <5>3
      <4>. QED BY <1>1, <3>2, <4>1, <4>2 DEF ItemsListed
    <3>7. Remembered'
      <4>. SUFFICES ASSUME NEW id \in DOMAIN Visible
                    PROVE  \/ Visible[id].ino \in run.seenInodes
                           \/ id \in DOMAIN batch /\ batch[id].ino = Visible[id].ino
                           \/ /\ ~Exists(Visible[id].ino)
                              /\ Queued(Visible[id].ino)' => id \notin DOMAIN batch /\ SeenFrom(id)
        BY <1>1, <3>2 DEF Remembered
      <4>1. Queued(Visible[id].ino)' => Queued(Visible[id].ino) \/ Visible[id].ino = new.ino
        BY <1>1, <3>2
      <4>. QED BY <3>1, <3>3, <4>1 DEF Apart, Remembered
    <3>. QED BY <3>4, <3>5, <3>6, <3>7 DEF Apart
  <2>5. Calm /\ run.halt # "lost" => OwnRows'
    BY <1>1, OwnRowsStay DEF Owned, SameIds, Alike
  <2>. QED BY <1>1, <2>2, <2>3, <2>4, <2>5 DEF Owned, Calm, SameIds
<1>. QED BY <1>2, <1>3

LEMMA StartOwned ==
    ASSUME Types, Types', Owned, jobs # {} => Scanning, Start
    PROVE  Owned'
<1>1. PICK roots \in Roots :
         /\ run' = [Idle(FALSE, TRUE) EXCEPT !.phase = "listing", !.roots = roots]
         /\ fileq' = Seeds(disk', roots)
  BY DEF Start
<1>2. /\ run.phase = "idle" /\ batch' = disk' /\ calm' = (calm /\ ~Displaced(disk'))
      /\ UNCHANGED <<tree, version, snap, jobs>>
  BY DEF Start
<1>3. run'.phase = "listing" /\ run'.halt = "no" /\ run'.seenInodes = {}
  BY <1>1 DEF Idle
<1>4. jobs' = {} /\ ~snap'.open /\ Visible' = disk'
  BY <1>2 DEF Owned, Scanning, Visible
<1>5. \A i \in DOMAIN disk' : disk'[i].name \in Names /\ disk'[i].ino \in Files
  BY RowsAre DEF Types, Row
<1>6. \A item \in fileq' :
         /\ item.name \in Names /\ item.seed = TRUE /\ tree[item.name] # NoFile
         /\ item = Stat(item.name, TRUE)
         /\ item.ino = tree[item.name] /\ item.version = version[item.ino]
  BY <1>1, <1>5 DEF Seeds, Stat
<1>7. \A item \in fileq' : item.ino \in Files /\ item.version \in Nat
  BY DEF Types, Item
<1>8. Older'
  <2>1. ASSUME NEW item \in fileq' PROVE item.version <= version'[item.ino]
    <3>1. item.version = version'[item.ino]
      BY <1>2, <1>6
    <3>2. item.version \in Nat
      BY <1>7
    <3>. QED BY <3>1, <3>2
  <2>. QED BY <1>4, <2>1 DEF Older
<1>9. WalkOnce'
  BY <1>6 DEF WalkOnce
<1>10. ASSUME Calm' PROVE Apart'
  <2>1. ~Displaced(disk')
    BY <1>2, <1>10 DEF Calm
  <2>2. JobsListed'
    BY <1>4 DEF JobsListed
  <2>3. RowsLeft'
    <3>. SUFFICES ASSUME NEW i \in DOMAIN disk', NEW file, NEW name, NEW own,
                         name = disk'[i].name, own = disk'[i].ino,
                         Held(name, file)', file # own
                  PROVE  ~Exists(own)' /\ ~Queued(own)'
      BY <1>2, <1>3 DEF RowsLeft
    <3>1. tree[name] = file /\ file # NoFile
      BY <1>2, <1>6 DEF Held
    <3>2. ~Exists(own)
      BY <2>1, <3>1 DEF Displaced
    <3>3. ~Exists(own)'
      BY <1>2, <3>2 DEF Exists, Holds
    <3>4. \A item \in fileq' : item.ino # own
      <4>1. \A other \in Names : tree[other] # own
        BY <3>2 DEF Exists, Holds
      <4>. QED BY <1>6, <4>1
    <3>5. ~Queued(own)'
      BY <3>4 DEF Queued
    <3>. QED BY <3>3, <3>5
  <2>4. ItemsListed'
    BY <1>2, <1>6 DEF ItemsListed
  <2>5. Remembered'
    BY <1>2, <1>4 DEF Remembered
  <2>. QED BY <2>2, <2>3, <2>4, <2>5 DEF Apart
<1>11. SameIds(disk, batch)' /\ OwnRows'
  BY <1>2, <1>4 DEF SameIds, OwnRows
<1>. QED BY <1>3, <1>4, <1>8, <1>9, <1>10, <1>11 DEF Owned

(* Neither row nor request comes, and no row goes. *)
LEMMA SameRowsChain ==
    ASSUME NEW rows, NEW next, NEW last, SameRows(rows, next), SameRows(next, last)
    PROVE  SameRows(rows, last)
BY DEF SameRows, SameFacts

LEMMA StatementsKeepFacts ==
    ASSUME NEW rows, IsRows(rows), NEW id \in Nat
    PROVE  /\ SameRows(rows, rows)
           /\ SameRows(rows, UpdateDedupeSeq(rows, id))
           /\ SameRows(rows, RemoveCheckpoint(rows, id))
           /\ \A cp \in Checkpoints : SameRows(rows, StoreCheckpoint(rows, id, cp))
<1>1. \A i \in DOMAIN rows : rows[i] \in Row
  BY RowsAre
<1>2. SameRows(rows, UpdateDedupeSeq(rows, id))
  <2>1. PICK next : next = UpdateDedupeSeq(rows, id)
    OBVIOUS
  <2>2. /\ DOMAIN next = DOMAIN rows
        /\ \A i \in DOMAIN rows :
              next[i] = IF i = id THEN [rows[i] EXCEPT !.fresh = TRUE] ELSE rows[i]
    BY <2>1, UpdateDedupeSeqIs
  <2>3. SameRows(rows, next)
    BY <1>1, <2>2 DEF SameRows, SameFacts, Row
  <2>. QED BY <2>1, <2>3
<1>3. ASSUME NEW cp \in Checkpoints PROVE SameRows(rows, StoreCheckpoint(rows, id, cp))
  <2>1. PICK next : next = StoreCheckpoint(rows, id, cp)
    OBVIOUS
  <2>2. /\ DOMAIN next = DOMAIN rows
        /\ \A i \in DOMAIN rows :
              next[i] = IF i = id THEN WithCheckpoint(rows[i], cp) ELSE rows[i]
    BY <2>1, StoreCheckpointIs
  <2>3. SameRows(rows, next)
    BY <1>1, <2>2 DEF SameRows, SameFacts, Row, WithCheckpoint
  <2>. QED BY <2>1, <2>3
<1>4. SameRows(rows, rows)
  BY DEF SameRows, SameFacts
<1>5. SameRows(rows, RemoveCheckpoint(rows, id))
  BY <1>3, <1>4, NoCheckpointIs DEF RemoveCheckpoint
<1>. QED BY <1>2, <1>3, <1>4, <1>5

LEMMA StatementsKeepIds ==
    ASSUME NEW rows, IsRows(rows), NEW id \in Nat
    PROVE  /\ SameIds(rows, rows)
           /\ SameIds(rows, UpdateDedupeSeq(rows, id))
           /\ SameIds(rows, RemoveCheckpoint(rows, id))
           /\ \A cp \in Checkpoints : SameIds(rows, StoreCheckpoint(rows, id, cp))
           /\ \A digest \in Digests : SameIds(rows, UpdateScannedFile(rows, id, digest))
<1>1. \A next : SameRows(rows, next) => SameIds(rows, next)
  BY DEF SameRows, SameFacts, SameIds
<1>2. ASSUME NEW digest \in Digests PROVE SameIds(rows, UpdateScannedFile(rows, id, digest))
  <2>1. PICK next : next = UpdateScannedFile(rows, id, digest)
    OBVIOUS
  <2>2. /\ DOMAIN next = DOMAIN rows
        /\ \A i \in DOMAIN rows :
              next[i] = IF i = id THEN WithDigest(rows[i], digest) ELSE rows[i]
    BY <2>1, UpdateScannedFileIs
  <2>3. SameIds(rows, next)
    BY <2>2, RowsAre DEF SameIds, Row, WithDigest
  <2>. QED BY <2>1, <2>3
<1>. QED BY <1>1, <1>2, StatementsKeepFacts

LEMMA SameIdsChain ==
    ASSUME NEW rows, NEW next, NEW last, SameIds(rows, next), SameIds(next, last)
    PROVE  SameIds(rows, last)
BY DEF SameIds

LEMMA WorkerOwned ==
    ASSUME Owned, SameIds(batch, batch'), disk' \in {disk, batch'},
           UNCHANGED <<tree, version, snap, todo, fileq, calm, mistaken>>,
           run'.seenInodes = run.seenInodes, run'.reborn = run.reborn,
           run'.halt = run.halt, run'.phase = run.phase,
           \A job \in jobs' : \E old \in jobs : Alike(job, old)
    PROVE  Owned'
<1>1. snap'.open => run.phase = "listing"
  BY DEF Owned
<1>2. ASSUME run.phase = "listing", ~snap'.open PROVE SameIds(disk', batch')
  <2>1. SameIds(disk, batch)
    BY <1>2 DEF Owned
  <2>. QED BY <2>1, SameIdsChain DEF SameIds
<1>3. ASSUME run.phase = "listing", NEW id \in DOMAIN Visible'
      PROVE  \/ id \in DOMAIN Visible /\ Visible'[id].ino = Visible[id].ino
             \/ id \in DOMAIN batch /\ Visible'[id].ino = batch[id].ino
  <2>1. Visible' = Visible \/ Visible' = batch'
    BY DEF Visible
  <2>. QED BY <1>3, <2>1 DEF SameIds
<1>. QED BY <1>1, <1>2, <1>3, QuietOwned

LEMMA WorkersOwned ==
    ASSUME Types, Owned, NEW job \in jobs,
           DropJob(job) \/ OpenJob(job) \/ CheckpointJob(job) \/ FinishJob(job) \/ GiveUp(job)
    PROVE  Owned'
<1>0. /\ job \in Job /\ job.id \in Nat /\ IsRows(batch) /\ run \in Run
      /\ SameIds(batch, batch) /\ Alike(job, job)
  BY DEF Types, Job, SameIds, Alike
<1>1. CASE DropJob(job) \/ GiveUp(job)
  <2>1. /\ jobs' = jobs \ {job} /\ run' = [run EXCEPT !.missed = TRUE]
        /\ UNCHANGED <<tree, version, disk, batch, snap, todo, fileq, calm, mistaken>>
    BY <1>1 DEF DropJob, GiveUp, Drop
  <2>2. /\ run'.seenInodes = run.seenInodes /\ run'.reborn = run.reborn
        /\ run'.halt = run.halt /\ run'.phase = run.phase
    BY <1>0, <2>1 DEF Run
  <2>3. \A j \in jobs' : \E old \in jobs : Alike(j, old)
    BY <2>1 DEF Alike
  <2>. QED BY <1>0, <2>1, <2>2, <2>3, WorkerOwned
<1>2. CASE OpenJob(job)
  <2>. DEFINE open == [job EXCEPT !.state = "reading", !.fd = tree[job.name], !.resume = {}]
  <2>1. /\ \/ /\ Becomes(job, [open EXCEPT !.fed = job.resume])
              /\ UNCHANGED <<disk, batch>>
           \/ /\ Becomes(job, [open EXCEPT !.checkpointed = FALSE])
              /\ EndUnit(RemoveCheckpoint(batch, job.id))
        /\ UNCHANGED <<tree, version, snap, run, todo, fileq, calm, mistaken>>
    BY <1>2 DEF OpenJob
  <2>2. /\ Alike([open EXCEPT !.fed = job.resume], job)
        /\ Alike([open EXCEPT !.checkpointed = FALSE], job)
    BY <1>0 DEF Alike, Job
  <2>3. \E next : Alike(next, job) /\ jobs' = (jobs \ {job}) \cup {next}
    BY <2>1, <2>2 DEF Becomes
  <2>. HIDE DEF open
  <2>4. SameIds(batch, batch') /\ disk' \in {disk, batch'}
    BY <1>0, <2>1, StatementsKeepIds DEF EndUnit
  <2>5. \A j \in jobs' : \E old \in jobs : Alike(j, old)
    BY <2>3 DEF Alike
  <2>. QED BY <2>1, <2>4, <2>5, WorkerOwned
<1>3. CASE CheckpointJob(job)
  <2>. DEFINE cp == [version |-> job.version, fed |-> Fed(job)]
              next == [job EXCEPT !.fed = Fed(job), !.checkpointed = TRUE]
  <2>1. /\ job.state = "reading" /\ batch' = StoreCheckpoint(batch, job.id, cp)
        /\ disk' = batch' /\ jobs' = (jobs \ {job}) \cup {next}
        /\ UNCHANGED <<tree, version, snap, run, todo, fileq, calm, mistaken>>
    BY <1>3 DEF CheckpointJob, Becomes
  <2>2. cp \in Checkpoints
    BY <1>0, <2>1, FedIs DEF Checkpoints, Job, Types
  <2>3. Alike(next, job)
    BY <1>0 DEF Alike, Job
  <2>. HIDE DEF next, cp
  <2>4. SameIds(batch, batch')
    BY <1>0, <2>1, <2>2, StatementsKeepIds
  <2>5. \A j \in jobs' : \E old \in jobs : Alike(j, old)
    BY <2>1, <2>3 DEF Alike
  <2>. QED BY <2>1, <2>4, <2>5, WorkerOwned
<1>4. CASE FinishJob(job)
  <2>. DEFINE plain == IF job.checkpointed THEN RemoveCheckpoint(batch, job.id) ELSE batch
  <2>1. /\ job.state = "reading" /\ jobs' = jobs \ {job}
        /\ IF job.id \in DOMAIN batch
           THEN EndUnit(UpdateScannedFile(plain, job.id, Fed(job)))
           ELSE UNCHANGED <<disk, batch>>
        /\ run' = [run EXCEPT !.missed = @ \/ job.id \notin DOMAIN batch]
        /\ UNCHANGED <<tree, version, snap, todo, fileq, calm, mistaken>>
    BY <1>4 DEF FinishJob, Drop
  <2>2. /\ run'.seenInodes = run.seenInodes /\ run'.reborn = run.reborn
        /\ run'.halt = run.halt /\ run'.phase = run.phase
    BY <1>0, <2>1 DEF Run
  <2>3. \A j \in jobs' : \E old \in jobs : Alike(j, old)
    BY <2>1 DEF Alike
  <2>4. Fed(job) \in Digests
    BY <1>0, <2>1, FedIs DEF Types
  <2>5. SameIds(batch, plain) /\ IsRows(plain)
    BY <1>0, StatementsKeepIds, RemoveCheckpointIs
  <2>. HIDE DEF plain
  <2>6. SameIds(plain, UpdateScannedFile(plain, job.id, Fed(job)))
    BY <1>0, <2>4, <2>5, StatementsKeepIds
  <2>7. SameIds(batch, batch') /\ disk' \in {disk, batch'}
    BY <1>0, <2>1, <2>5, <2>6, SameIdsChain DEF EndUnit
  <2>. QED BY <2>1, <2>2, <2>3, <2>7, WorkerOwned
<1>. QED BY <1>1, <1>2, <1>3, <1>4

(* The steps that end something. *)
LEMMA EndOwned ==
    ASSUME Types, Owned, jobs # {} => Scanning,
           Kill \/ Signal \/ BatchLost \/ ListingDone \/ ScanDone \/ PruneCollect \/ PruneDelete
    PROVE  Owned'
<1>0. run \in Run /\ NoSnap.open = FALSE
  BY NoSnapIs DEF Types
<1>1. UNCHANGED <<tree, version>> /\ fileq' \subseteq fileq /\ jobs' \subseteq jobs
  <2>1. CASE Kill
    BY <2>1 DEF Kill
  <2>2. CASE Signal \/ BatchLost
    BY <2>2 DEF Signal, BatchLost, Halt
  <2>3. CASE ListingDone \/ ScanDone \/ PruneCollect \/ PruneDelete
    BY <2>3 DEF ListingDone, ScanDone, PruneCollect, PruneDelete
  <2>. QED BY <2>1, <2>2, <2>3
<1>2. Older'
  BY <1>1 DEF Owned, Older
<1>3. ~snap'.open /\ run'.phase # "listing"
  <2>1. CASE Kill
    BY <1>0, <2>1 DEF Kill, Idle
  <2>2. CASE Signal \/ BatchLost
    BY <1>0, <2>2 DEF Signal, BatchLost, Halt, Idle
  <2>3. CASE ListingDone
    BY <1>0, <2>3 DEF ListingDone, Run
  <2>4. CASE ScanDone \/ PruneCollect \/ PruneDelete
    <3>1. run.phase # "listing" /\ UNCHANGED snap
      BY <2>4 DEF ScanDone, PruneCollect, PruneDelete
    <3>2. run'.phase # "listing"
      BY <1>0, <2>4 DEF ScanDone, PruneCollect, PruneDelete, Run, Idle
    <3>. QED BY <3>1, <3>2 DEF Owned
  <2>. QED BY <2>1, <2>2, <2>3, <2>4
<1>4. Calm' /\ run'.halt # "lost" => OwnRows'
  <2>1. CASE Kill \/ ScanDone \/ PruneCollect \/ PruneDelete
    <3>1. jobs' = {}
      BY <1>1, <2>1 DEF Kill, ScanDone, PruneCollect, PruneDelete, Scanning
    <3>. QED BY <3>1 DEF OwnRows
  <2>2. CASE BatchLost
    <3>1. run'.halt = "lost"
      BY <1>0, <2>2 DEF BatchLost, Halt, Idle
    <3>. QED BY <3>1
  <2>3. CASE Signal \/ ListingDone
    <3>1. UNCHANGED <<batch, calm, mistaken>> /\ run'.reborn = run.reborn /\ run.halt # "lost"
      <4>1. CASE Signal
        BY <1>0, <4>1 DEF Signal, Halt, Idle, Run
      <4>2. CASE ListingDone
        BY <1>0, <4>2 DEF ListingDone, Run, Owned
      <4>. QED BY <2>3, <4>1, <4>2
    <3>2. SameIds(batch, batch') /\ \A job \in jobs' : \E old \in jobs : Alike(job, old)
      BY <1>1, <3>1 DEF SameIds, Alike
    <3>. QED BY <1>1, <3>1, <3>2, OwnRowsStay DEF Owned, Calm
  <2>. QED BY <2>1, <2>2, <2>3
<1>. QED BY <1>2, <1>3, <1>4 DEF Owned

LEMMA TickSees ==
    ASSUME Types, Tick
    PROVE  /\ snap'.open = TRUE
           /\ \A id \in DOMAIN Visible' : /\ id \in DOMAIN Visible
                                          /\ Visible'[id] = Visible[id]
                                          /\ Visible[id].ino \notin run'.seenInodes
<1>1. Visible' = snap'.rows /\ snap'.open = TRUE
  BY TickIs DEF Visible
<1>. DEFINE doomed == {i \in DOMAIN Visible : Visible[i].ino \in run'.seenInodes}
<1>2. \A id \in DOMAIN snap'.rows : /\ id \in DOMAIN Visible \ doomed
                                    /\ snap'.rows[id] = Visible[id]
  <2>1. snap'.rows = Without(Visible, doomed)
    BY TickIs
  <2>. HIDE DEF doomed
  <2>2. PICK rows : rows = Visible /\ IsRows(rows)
    BY VisibleIs
  <2>3. /\ DOMAIN Without(rows, doomed) = DOMAIN rows \ doomed
        /\ \A i \in DOMAIN rows \ doomed : Without(rows, doomed)[i] = rows[i]
    <3>1. IsRows(rows)
      BY <2>2
    <3>. HIDE <2>2
    <3>. QED BY <3>1, WithoutIs
  <2>. QED BY <2>1, <2>2, <2>3
<1>. QED BY <1>1, <1>2 DEF doomed

\* The consumer writes no row and queues nothing.
LEMMA PassedOwned ==
    ASSUME Types, Owned
    PROVE  /\ Flush => Owned'
           /\ \A item \in fileq : PassOver(item) \/ LeaveAlone(item) => Owned'
<1>0. /\ run \in Run /\ NoSnap.open = FALSE /\ SameIds(batch, batch)
      /\ \A job : Alike(job, job)
  BY NoSnapIs DEF Types, SameIds, Alike
<1>1. ASSUME Flush PROVE Owned'
  <2>1. /\ run.phase = "listing" /\ disk' = batch /\ snap' = NoSnap
        /\ UNCHANGED <<tree, version, batch, run, todo, fileq, jobs, calm, mistaken>>
    BY <1>1 DEF Flush
  <2>2. Visible' = batch
    BY <1>0, <2>1 DEF Visible
  <2>. QED BY <1>0, <2>1, <2>2, QuietOwned
<1>2. ASSUME NEW item \in fileq, PassOver(item) PROVE Owned'
  <2>1. /\ run.phase = "listing" /\ fileq' \subseteq fileq
        /\ UNCHANGED <<tree, version, disk, batch, snap, run, todo, jobs, calm, mistaken>>
    BY <1>2 DEF PassOver, Pops
  <2>2. Visible' = Visible
    BY <2>1 DEF Visible
  <2>3. ~snap'.open => SameIds(disk', batch')
    BY <2>1 DEF Owned
  <2>. QED BY <1>0, <2>1, <2>2, <2>3, QuietOwned
<1>3. ASSUME NEW item \in fileq, LeaveAlone(item) PROVE Owned'
  <2>1. /\ run.phase = "listing" /\ fileq' \subseteq fileq /\ Tick
        /\ UNCHANGED <<tree, version, disk, batch, todo, jobs, calm, mistaken>>
    BY <1>3 DEF LeaveAlone, Scans, Pops
  <2>2. PICK id : run' = [run EXCEPT !.seenIds = @ \cup {id}]
    BY <1>3 DEF LeaveAlone
  <2>3. /\ run'.seenInodes = run.seenInodes /\ run'.reborn = run.reborn
        /\ run'.halt = run.halt /\ run'.phase = run.phase
    BY <1>0, <2>2 DEF Run
  <2>4. snap'.open /\ \A i \in DOMAIN Visible' :
           i \in DOMAIN Visible /\ Visible'[i].ino = Visible[i].ino
    BY <2>1, TickSees
  <2>. QED BY <1>0, <2>1, <2>3, <2>4, QuietOwned
<1>. QED BY <1>1, <1>2, <1>3

LEMMA ResumeScanOwned ==
    ASSUME Types, Types', Owned, NEW item \in fileq, ResumeScan(item)
    PROVE  Owned'
<1>1. PICK id \in Described(item), late \in BOOLEAN :
         /\ EndUnit(IF late THEN batch ELSE UpdateDedupeSeq(batch, id))
         /\ Queue(item, id, Visible[id].checkpoint.fed, late)
  BY DEF ResumeScan
<1>2. /\ run.phase = "listing" /\ fileq' = fileq \ {item}
      /\ item.ino \notin run.seenInodes /\ Tick
      /\ UNCHANGED <<tree, version, todo, calm, mistaken>>
  BY DEF ResumeScan, Scans, Pops
<1>3. /\ item \in Item /\ run \in Run /\ IsRows(batch)
      /\ id \in Nat /\ id \in DOMAIN Visible /\ Visible[id].ino = item.ino
  BY DescribedIs DEF Types
<1>4. /\ run'.seenInodes = run.seenInodes \cup {item.ino}
      /\ run'.phase = run.phase /\ run'.halt = run.halt /\ run'.reborn = run.reborn
  <2>1. run' = [run EXCEPT !.seenIds = @ \cup {id}, !.seenInodes = @ \cup {item.ino}]
    BY <1>1 DEF Queue
  <2>. QED BY <1>3, <2>1 DEF Run
<1>5. PICK new : /\ jobs' = jobs \cup {new}
                 /\ new.id = id /\ new.name = item.name /\ new.ino = item.ino
                 /\ new.version = item.version
  <2>. DEFINE new == [id |-> id, name |-> item.name, ino |-> item.ino,
                      version |-> item.version, resume |-> Visible[id].checkpoint.fed,
                      state |-> "queued", fd |-> NoFile, fed |-> {},
                      checkpointed |-> Visible[id].checkpoint.fed # {}, late |-> late]
  <2>1. jobs' = jobs \cup {new}
    BY <1>1 DEF Queue
  <2>2. /\ new.id = id /\ new.name = item.name /\ new.ino = item.ino
        /\ new.version = item.version
    OBVIOUS
  <2>. HIDE DEF new
  <2>. QED BY <2>1, <2>2
<1>6. SameIds(batch, batch')
  BY <1>1, <1>3, StatementsKeepIds DEF EndUnit
<1>7. /\ snap'.open
      /\ \A i \in DOMAIN Visible' : /\ i \in DOMAIN Visible /\ Visible'[i] = Visible[i]
                                    /\ Visible[i].ino \notin run'.seenInodes
  BY <1>2, TickSees
<1>8. Older'
  <2>1. \A job \in jobs' : job \in jobs \/ (job.version = item.version /\ job.ino = item.ino)
    BY <1>5
  <2>. QED BY <1>2, <2>1 DEF Owned, Older
<1>9. WalkOnce'
  BY <1>2 DEF Owned, WalkOnce
<1>10. ASSUME Calm' PROVE Apart' /\ OwnRows'
  <2>1. Apart /\ OwnRows
    BY <1>2, <1>4, <1>10 DEF Owned, Calm
  <2>2. \/ id \in DOMAIN batch /\ batch[id].ino = item.ino
        \/ ~Exists(item.ino) /\ id \notin DOMAIN batch /\ SeenFrom(id)
    <3>1. Queued(item.ino)
      BY DEF Queued
    <3>. QED BY <1>2, <1>3, <2>1, <3>1 DEF Apart, Remembered
  <2>3. ~Exists(item.ino) => ~Current(new)
    BY <1>3, <1>5 DEF Current, Exists, Holds, Item
  <2>4. /\ \A name, file : Held(name, file)' => Held(name, file)
        /\ \A file : Queued(file)' => Queued(file)
        /\ \A file : Exists(file)' <=> Exists(file)
        /\ \A it : Current(it)' <=> Current(it)
    BY <1>2 DEF Held, Queued, Exists, Holds, Current
  <2>5. \A file : Left(file)' => Left(file)
    <3>1. \A file : Recorded(file)' => Recorded(file)
      BY <1>6, <1>7 DEF Recorded, SameIds
    <3>. QED BY <1>4, <3>1 DEF Left
  <2>6. \A i : SeenFrom(i) => SeenFrom(i)'
    BY <1>4, <1>6 DEF SeenFrom, SameIds
  <2>7. OwnRows'
    <3>1. ASSUME NEW job \in jobs
          PROVE  IF job.id \in DOMAIN batch THEN batch[job.id].ino = job.ino ELSE ~Current(job)
      BY <2>1 DEF OwnRows
    <3>2. IF new.id \in DOMAIN batch THEN batch[new.id].ino = new.ino ELSE ~Current(new)
      BY <1>5, <2>2, <2>3
    <3>3. ASSUME NEW job \in jobs'
          PROVE  IF job.id \in DOMAIN batch THEN batch[job.id].ino = job.ino ELSE ~Current(job)
      BY <1>5, <3>1, <3>2
    <3>. QED BY <1>6, <2>4, <3>3 DEF OwnRows, SameIds
  <2>8. JobsListed'
    <3>1. ASSUME NEW job \in jobs
          PROVE  /\ job.ino \in run'.seenInodes /\ SeenFrom(job.id)'
                 /\ job.id \in DOMAIN batch =>
                       \A file : Held(batch[job.id].name, file) /\ file # job.ino => ~Current(job)
      BY <1>4, <2>1, <2>6 DEF Apart, JobsListed
    <3>2. new.ino \in run'.seenInodes
      BY <1>4, <1>5
    <3>3. SeenFrom(new.id)'
      <4>1. CASE id \in DOMAIN batch /\ batch[id].ino = item.ino
        BY <1>3, <1>4, <1>5, <1>6, <4>1 DEF SeenFrom, SameIds
      <4>. QED BY <1>5, <2>2, <2>6, <4>1
    <3>4. ASSUME new.id \in DOMAIN batch, NEW file, Held(batch[new.id].name, file), file # new.ino
          PROVE  ~Current(new)
      <4>1. batch[id].ino = item.ino /\ id \in DOMAIN batch
        BY <1>5, <2>2, <3>4
      <4>2. ~Exists(item.ino)
        BY <1>2, <1>5, <2>1, <3>4, <4>1 DEF Apart, RowsLeft
      <4>. QED BY <2>3, <4>2
    <3>5. ASSUME NEW job \in jobs'
          PROVE  /\ job.ino \in run'.seenInodes /\ SeenFrom(job.id)'
                 /\ job.id \in DOMAIN batch =>
                       \A file : Held(batch[job.id].name, file) /\ file # job.ino => ~Current(job)
      BY <1>5, <3>1, <3>2, <3>3, <3>4
    <3>6. ASSUME NEW job \in jobs', job.id \in DOMAIN batch', NEW file, NEW name,
                 name = batch'[job.id].name, Held(name, file)', file # job.ino
          PROVE  ~Current(job)'
      <4>1. job.id \in DOMAIN batch /\ Held(batch[job.id].name, file)
        BY <1>6, <2>4, <3>6 DEF SameIds
      <4>. QED BY <2>4, <3>5, <3>6, <4>1
    <3>. QED BY <3>5, <3>6 DEF JobsListed
  <2>9. RowsLeft'
    <3>1. ASSUME NEW i \in DOMAIN batch', NEW file, NEW name, NEW own,
                 name = batch'[i].name, own = batch'[i].ino, Held(name, file)', file # own
          PROVE  IF own \in run'.seenInodes THEN ~Left(file)'
                 ELSE ~Exists(own)' /\ (Queued(own)' => ~Left(file)')
      <4>1. /\ i \in DOMAIN batch /\ own = batch[i].ino
            /\ Held(batch[i].name, file) /\ file # batch[i].ino
        BY <1>6, <2>4, <3>1 DEF SameIds
      <4>2. IF own \in run.seenInodes THEN ~Left(file)
            ELSE ~Exists(own) /\ (Queued(own) => ~Left(file))
        BY <2>1, <4>1 DEF Apart, RowsLeft
      <4>3. Queued(item.ino)
        BY DEF Queued
      <4>. QED BY <1>4, <2>4, <2>5, <4>2, <4>3
    <3>. QED BY <3>1 DEF RowsLeft
  <2>10. ItemsListed'
    BY <1>2, <2>1, <2>4, <2>5 DEF Apart, ItemsListed
  <2>11. Remembered'
    <3>1. ASSUME NEW i \in DOMAIN Visible', NEW own, own = Visible'[i].ino
          PROVE  \/ i \in DOMAIN batch' /\ batch'[i].ino = own
                 \/ ~Exists(own)' /\ (Queued(own)' => i \notin DOMAIN batch' /\ SeenFrom(i)')
      <4>1. i \in DOMAIN Visible /\ own = Visible[i].ino /\ own \notin run.seenInodes
        BY <1>4, <1>7, <3>1
      <4>2. \/ i \in DOMAIN batch /\ batch[i].ino = own
            \/ ~Exists(own) /\ (Queued(own) => i \notin DOMAIN batch /\ SeenFrom(i))
        BY <2>1, <4>1 DEF Apart, Remembered
      <4>. QED BY <1>6, <2>4, <2>6, <4>2 DEF SameIds
    <3>. QED BY <3>1 DEF Remembered
  <2>. QED BY <2>7, <2>8, <2>9, <2>10, <2>11 DEF Apart
<1>. QED BY <1>2, <1>4, <1>7, <1>8, <1>9, <1>10 DEF Owned, Calm

(* What becomes of the rows when one is stored: next has the row new, and  *)
(* what was in its way is gone, also of what a row that was renamed before *)
(* was in the way of.                                                      *)
Stored(rows, next, item, new, old, renamed) ==
    /\ new \in Nat /\ new \in DOMAIN next
    /\ next[new].ino = item.ino /\ next[new].name = item.name
    /\ next[new].version = item.version /\ next[new].digest = {}
    /\ \A i \in DOMAIN next : i # new =>
          /\ i \in DOMAIN rows /\ SameFacts(rows[i], next[i])
          /\ rows[i].name # item.name /\ rows[i].ino # item.ino
    /\ \A i \in DOMAIN rows :
          /\ i \notin DOMAIN next \/ i = new =>
                rows[i].name = item.name \/ rows[i].ino = item.ino \/ (renamed /\ i = old)
          /\ i < new \/ (renamed /\ rows[i].name = item.name)

LEMMA StoreFileInfoOf ==
    ASSUME NEW rows, IsRows(rows), NEW item \in Item,
           NEW next, next = StoreFileInfo(rows, item), NEW new, new = NewId(rows)
    PROVE  LET doomed == Named(rows, item.name) \cup OfFile(rows, item.ino)
           IN  /\ DOMAIN next = (DOMAIN rows \ doomed) \cup {new}
               /\ next[new] = NewRow(item)
               /\ \A i \in DOMAIN rows \ doomed : next[i] = rows[i]
BY StoreFileInfoIs

LEMMA StoredIs ==
    ASSUME NEW rows, IsRows(rows), NEW item \in Item, NEW old \in Nat, NEW renamed \in BOOLEAN,
           NEW asked, IsRows(asked), SameRows(rows, asked),
           NEW named, named = IF renamed THEN RenameFile(asked, old, item.name) ELSE asked,
           NEW next, next = StoreFileInfo(named, item),
           NEW new, new = NewId(named)
    PROVE  Stored(rows, next, item, new, old, renamed)
<1>. DEFINE n == item.name
            f == item.ino
<1>0. n \in Names /\ f \in Files
  BY DEF Item
<1>. HIDE DEF n, f
<1>1. /\ IsRows(named) /\ DOMAIN named \subseteq DOMAIN rows
      /\ \A i \in DOMAIN named : /\ named[i].ino = rows[i].ino
                                 /\ named[i].version = rows[i].version
                                 /\ named[i].digest = rows[i].digest
                                 /\ named[i].name = IF renamed /\ i = old THEN n
                                                    ELSE rows[i].name
                                 /\ rows[i].name = n => ~renamed \/ i = old \/ old \notin DOMAIN rows
      /\ \A i \in DOMAIN rows : i \notin DOMAIN named => renamed /\ rows[i].name = n
  <2>1. CASE ~renamed
    BY <2>1 DEF SameRows, SameFacts
  <2>2. CASE renamed /\ old \notin DOMAIN asked
    <3>1. named = asked
      BY <1>0, <2>2, RenameFileIs DEF n
    <3>. QED BY <2>2, <3>1 DEF SameRows, SameFacts
  <2>3. CASE renamed /\ old \in DOMAIN asked
    <3>1. /\ IsRows(named)
          /\ DOMAIN named = DOMAIN asked \ (Named(asked, n) \ {old})
          /\ \A i \in DOMAIN named :
                named[i] = IF i = old THEN WithName(asked[i], n) ELSE asked[i]
      <4>1. named = RenameFile(asked, old, n)
        BY <2>3 DEF n
      <4>2. LET to == RenameFile(asked, old, n)
            IN  /\ IsRows(to)
                /\ DOMAIN to = DOMAIN asked \ (Named(asked, n) \ {old})
                /\ \A i \in DOMAIN to :
                      to[i] = IF i = old THEN WithName(asked[i], n) ELSE asked[i]
        BY <1>0, <2>3, RenameFileIs
      <4>. QED BY <4>1, <4>2
    <3>2. \A i \in DOMAIN asked : asked[i] \in Row
      BY RowsAre
    <3>3. \A i \in DOMAIN named :
             /\ i \in DOMAIN asked /\ named[i].ino = asked[i].ino
             /\ named[i].version = asked[i].version /\ named[i].digest = asked[i].digest
             /\ named[i].name = IF i = old THEN n ELSE asked[i].name
             /\ asked[i].name = n => i = old
      BY <3>1, <3>2 DEF Row, WithName, Named
    <3>4. \A i \in DOMAIN asked : i \notin DOMAIN named => asked[i].name = n
      BY <3>1 DEF Named
    <3>. QED BY <2>3, <3>1, <3>3, <3>4 DEF SameRows, SameFacts
  <2>. QED BY <2>1, <2>2, <2>3
<1>2. new \in Nat \ {0} /\ new \notin DOMAIN named /\ \A i \in DOMAIN named : i < new
  BY <1>1, NewIdIs
<1>. DEFINE doomed == Named(named, n) \cup OfFile(named, f)
<1>3. /\ DOMAIN next = (DOMAIN named \ doomed) \cup {new}
      /\ next[new] = NewRow(item)
      /\ \A i \in DOMAIN named \ doomed : next[i] = named[i]
  <2>1. IsRows(named)
    BY <1>1
  <2>. QED BY <2>1, StoreFileInfoOf DEF n, f
<1>4. /\ next[new].ino = f /\ next[new].name = n /\ next[new].digest = {}
      /\ next[new].version = item.version
  BY <1>3 DEF NewRow, n, f
<1>5. \A i \in DOMAIN named : i \in doomed <=> named[i].name = n \/ named[i].ino = f
  BY DEF Named, OfFile
<1>. HIDE DEF doomed
<1>6. ASSUME NEW i \in DOMAIN next, i # new
      PROVE  /\ i \in DOMAIN rows /\ SameFacts(rows[i], next[i])
             /\ rows[i].name # n /\ rows[i].ino # f
  BY <1>1, <1>3, <1>5, <1>6 DEF SameFacts
<1>7. ASSUME NEW i \in DOMAIN rows
      PROVE  /\ i \notin DOMAIN next \/ i = new =>
                   rows[i].name = n \/ rows[i].ino = f \/ (renamed /\ i = old)
             /\ i < new \/ (renamed /\ rows[i].name = n)
  BY <1>1, <1>2, <1>3, <1>5
<1>. QED BY <1>2, <1>3, <1>4, <1>6, <1>7 DEF Stored, n, f

LEMMA StoreFileRowIs ==
    ASSUME Types, NEW item \in fileq, StoreFileRow(item)
    PROVE  \/ /\ SameRows(batch, batch') /\ disk' \in {disk, batch'}
              /\ run' = [run EXCEPT !.missed = TRUE] /\ UNCHANGED jobs
           \/ \E old, new \in Nat : \E renamed \in BOOLEAN :
                 /\ Stored(batch, batch', item, new, old, renamed)
                 /\ Queue(item, new, {}, FALSE)
                 /\ disk' \in {disk, batch'} \/ SameRows(batch, disk')
                 /\ renamed => old \in Described(item)
<1>. DEFINE old == IF Described(item) = {} THEN 0
                   ELSE CHOOSE id \in Described(item) : TRUE
            dropped == old # 0 /\ CheckpointAsked(old, item)
            asked == IF dropped THEN RemoveCheckpoint(batch, old) ELSE batch
            renamed == old # 0 /\ Renamed(old, item)
            named == IF renamed THEN RenameFile(asked, old, item.name) ELSE asked
            stored == StoreFileInfo(named, item)
<1>1. \/ /\ batch' = stored /\ disk' \in {disk, stored, asked}
         /\ Queue(item, NewId(named), {}, FALSE)
      \/ EndUnit(asked) /\ run' = [run EXCEPT !.missed = TRUE] /\ UNCHANGED jobs
  BY DEF StoreFileRow
<1>2. IsRows(batch) /\ item \in Item
  BY DEF Types
<1>3. old \in Nat /\ (old # 0 => old \in Described(item))
  BY DescribedIs
<1>. HIDE DEF old
<1>4. IsRows(asked) /\ SameRows(batch, asked)
  BY <1>2, <1>3, RemoveCheckpointIs, StatementsKeepFacts
<1>5. renamed \in BOOLEAN /\ (renamed => old \in Described(item))
  BY <1>3 DEF Renamed
<1>. HIDE DEF asked, renamed
<1>6. CASE EndUnit(asked) /\ run' = [run EXCEPT !.missed = TRUE] /\ UNCHANGED jobs
  BY <1>4, <1>6 DEF EndUnit
<1>7. CASE /\ batch' = stored /\ disk' \in {disk, stored, asked}
           /\ Queue(item, NewId(named), {}, FALSE)
  <2>1. PICK id : id = NewId(named)
    OBVIOUS
  <2>2. batch' = stored /\ (disk' \in {disk, batch'} \/ SameRows(batch, disk'))
    BY <1>4, <1>7
  <2>3. Stored(batch, stored, item, id, old, renamed)
    BY <1>2, <1>3, <1>4, <1>5, <2>1, StoredIs
  <2>4. id \in Nat
    BY <2>3 DEF Stored
  <2>. HIDE DEF stored, named
  <2>. QED BY <1>3, <1>5, <1>7, <2>1, <2>2, <2>3, <2>4
<1>. QED BY <1>1, <1>6, <1>7

LEMMA StoreFileRowOwned ==
    ASSUME Types, Types', Owned, NEW item \in fileq, StoreFileRow(item)
    PROVE  Owned'
<1>1. /\ run.phase = "listing" /\ fileq' = fileq \ {item}
      /\ item.ino \notin run.seenInodes /\ Tick
      /\ item.seed \/ \A other \in fileq : ~other.seed
      /\ UNCHANGED <<tree, version, todo, calm, mistaken>>
  BY DEF StoreFileRow, Scans, Pops
<1>2. /\ item \in Item /\ run \in Run /\ IsRows(batch) /\ item.name \in Names
      /\ item.ino \in Files /\ item.ino # NoFile
  BY ListingConstants DEF Types, Item
<1>3. /\ snap'.open
      /\ \A i \in DOMAIN Visible' : /\ i \in DOMAIN Visible /\ Visible'[i] = Visible[i]
                                    /\ Visible[i].ino \notin run'.seenInodes
  BY <1>1, TickSees
<1>4. CASE SameRows(batch, batch') /\ run' = [run EXCEPT !.missed = TRUE] /\ UNCHANGED jobs
  <2>1. /\ run'.seenInodes = run.seenInodes /\ run'.reborn = run.reborn
        /\ run'.halt = run.halt /\ run'.phase = run.phase
    BY <1>2, <1>4 DEF Run
  <2>2. \A job \in jobs' : \E old \in jobs : Alike(job, old)
    BY <1>4 DEF Alike
  <2>3. \A i \in DOMAIN Visible' : i \in DOMAIN Visible /\ Visible'[i].ino = Visible[i].ino
    BY <1>3
  <2>4. SameIds(batch, batch')
    BY <1>4 DEF SameRows, SameFacts, SameIds
  <2>. QED BY <1>1, <1>3, <1>4, <2>1, <2>2, <2>3, <2>4, QuietOwned
<1>5. ASSUME NEW old \in Nat, NEW id \in Nat, NEW renamed \in BOOLEAN,
             Stored(batch, batch', item, id, old, renamed), Queue(item, id, {}, FALSE),
             renamed => old \in Described(item)
      PROVE  Owned'
  <2>1. /\ run'.seenInodes = run.seenInodes \cup {item.ino}
        /\ run'.phase = run.phase /\ run'.halt = run.halt /\ run'.reborn = run.reborn
    <3>1. run' = [run EXCEPT !.seenIds = @ \cup {id}, !.seenInodes = @ \cup {item.ino}]
      BY <1>5 DEF Queue
    <3>. QED BY <1>2, <3>1 DEF Run
  <2>2. PICK new : /\ jobs' = jobs \cup {new}
                   /\ new.id = id /\ new.name = item.name /\ new.ino = item.ino
                   /\ new.version = item.version
    <3>. DEFINE new == [id |-> id, name |-> item.name, ino |-> item.ino,
                        version |-> item.version, resume |-> {},
                        state |-> "queued", fd |-> NoFile, fed |-> {},
                        checkpointed |-> {} # {}, late |-> FALSE]
    <3>1. jobs' = jobs \cup {new}
      BY <1>5 DEF Queue
    <3>2. /\ new.id = id /\ new.name = item.name /\ new.ino = item.ino
          /\ new.version = item.version
      OBVIOUS
    <3>. HIDE DEF new
    <3>. QED BY <3>1, <3>2
  <2>3. Older'
    <3>1. \A job \in jobs' : job \in jobs \/ (job.version = item.version /\ job.ino = item.ino)
      BY <2>2
    <3>. QED BY <1>1, <3>1 DEF Owned, Older
  <2>4. WalkOnce'
    BY <1>1 DEF Owned, WalkOnce
  <2>5. ASSUME Calm' PROVE Apart' /\ OwnRows'
    <3>1. Apart /\ OwnRows /\ WalkOnce
      BY <1>1, <2>1, <2>5 DEF Owned, Calm
    <3>2. /\ \A name, file : Held(name, file)' => Held(name, file)
          /\ \A file : Queued(file)' => Queued(file)
          /\ \A file : Exists(file)' <=> Exists(file)
          /\ \A it : Current(it)' <=> Current(it)
      BY <1>1 DEF Held, Queued, Exists, Holds, Current
    <3>3. /\ id \in DOMAIN batch' /\ batch'[id].ino = item.ino /\ batch'[id].name = item.name
          /\ \A i \in DOMAIN batch' : i # id =>
                /\ i \in DOMAIN batch
                /\ batch'[i].ino = batch[i].ino /\ batch'[i].name = batch[i].name
                /\ batch[i].name # item.name /\ batch[i].ino # item.ino
      BY <1>5 DEF Stored, SameFacts
    <3>4. Held(item.name, item.ino) /\ Queued(item.ino)
      BY DEF Held, Queued
    <3>5. renamed => old \in DOMAIN Visible /\ Visible[old].ino = item.ino
      BY <1>5, DescribedIs
    <3>6. renamed => Left(item.ino)
      BY <1>1, <3>5 DEF Left, Recorded
    <3>7. ASSUME NEW i \in DOMAIN batch, i \notin DOMAIN batch' \/ i = id
          PROVE  batch[i].name = item.name \/ batch[i].ino = item.ino
      <4>1. \/ batch[i].name = item.name \/ batch[i].ino = item.ino
            \/ renamed /\ i = old
        BY <1>5, <3>7 DEF Stored
      <4>2. ASSUME renamed, i = old PROVE batch[i].ino = item.ino
        BY <1>1, <3>1, <3>4, <3>5, <4>2 DEF Apart, Remembered
      <4>. QED BY <4>1, <4>2
    <3>8. \A i \in DOMAIN batch : i < id \/ (Left(item.ino) /\ batch[i].name = item.name)
      BY <1>5, <3>6 DEF Stored
    <3>9. \A i \in DOMAIN batch : batch[i].ino \in run.seenInodes => i < id
      BY <1>1, <3>1, <3>4, <3>8 DEF Apart, RowsLeft
    <3>10. \A k \in Nat : SeenFrom(k) => k < id
      <4>1. DOMAIN batch \subseteq Nat
        BY <1>2, RowsAre
      <4>. QED BY <3>9, <4>1 DEF SeenFrom
    <3>11. \A k \in Nat : k <= id => SeenFrom(k)'
      BY <2>1, <3>3 DEF SeenFrom
    <3>12. \A file : Left(file)' => Left(file) /\ file # item.ino
      <4>1. \A file : Recorded(file)' => Recorded(file) \/ file = item.ino
        BY <1>3, <3>3 DEF Recorded
      <4>. QED BY <2>1, <4>1 DEF Left
    <3>13. ASSUME NEW file, Held(item.name, file)', file # item.ino
           PROVE  ~Current(item) /\ ~Left(file)
      <4>1. CASE tree[item.name] = file /\ file # NoFile
        BY <3>1, <3>13, <4>1 DEF Current, Apart, ItemsListed
      <4>2. CASE \E other \in fileq' : other.name = item.name /\ other.ino = file
        <5>1. PICK other \in fileq : other.name = item.name /\ other.ino = file
          BY <1>1, <4>2
        <5>2. item.seed
          BY <1>1, <3>1, <3>13, <5>1 DEF WalkOnce, Types, Item
        <5>. QED BY <3>1, <3>13, <5>1, <5>2 DEF Apart, ItemsListed
      <4>. QED BY <1>1, <3>13, <4>1, <4>2 DEF Held
    <3>14. ASSUME NEW job \in jobs
           PROVE  /\ job.ino \in run.seenInodes /\ job.id \in Nat /\ job.id < id
                  /\ job.id \in DOMAIN batch => batch[job.id].ino = job.ino
                  /\ job.id \notin DOMAIN batch' => ~Current(job)
      <4>1. job.ino \in run.seenInodes /\ SeenFrom(job.id) /\ job.id \in Nat
        BY <3>1 DEF Apart, JobsListed, Types, Job
      <4>2. job.id < id
        BY <3>10, <4>1
      <4>3. job.id \in DOMAIN batch => batch[job.id].ino = job.ino
        BY <3>1 DEF OwnRows
      <4>4. ASSUME job.id \notin DOMAIN batch' PROVE ~Current(job)
        <5>1. CASE job.id \notin DOMAIN batch
          BY <3>1, <5>1 DEF OwnRows
        <5>2. CASE job.id \in DOMAIN batch
          <6>1. batch[job.id].name = item.name /\ item.ino # job.ino
            BY <1>1, <3>7, <4>1, <4>3, <4>4, <5>2
          <6>. QED BY <3>1, <3>4, <5>2, <6>1 DEF Apart, JobsListed
        <5>. QED BY <5>1, <5>2
      <4>. QED BY <4>1, <4>2, <4>3, <4>4
    <3>15. OwnRows'
      <4>1. ASSUME NEW job \in jobs
            PROVE  IF job.id \in DOMAIN batch' THEN batch'[job.id].ino = job.ino ELSE ~Current(job)
        BY <1>5, <3>3, <3>14
      <4>2. new.id \in DOMAIN batch' /\ batch'[new.id].ino = new.ino
        BY <2>2, <3>3
      <4>3. ASSUME NEW job \in jobs'
            PROVE  IF job.id \in DOMAIN batch' THEN batch'[job.id].ino = job.ino ELSE ~Current(job)
        BY <2>2, <4>1, <4>2
      <4>. QED BY <3>2, <4>3 DEF OwnRows
    <3>16. JobsListed'
      <4>1. ASSUME NEW job \in jobs'
            PROVE  job.ino \in run'.seenInodes /\ SeenFrom(job.id)'
        <5>1. job.ino \in run'.seenInodes /\ job.id \in Nat /\ job.id <= id
          BY <1>5, <2>1, <2>2, <3>14
        <5>. QED BY <3>11, <5>1
      <4>2. ASSUME NEW job \in jobs', job.id \in DOMAIN batch', NEW file, NEW name,
                   name = batch'[job.id].name, Held(name, file)', file # job.ino
            PROVE  ~Current(job)'
        <5>1. CASE job = new
          <6>1. name = item.name /\ file # item.ino
            BY <2>2, <3>3, <4>2, <5>1
          <6>2. ~Current(item)
            BY <3>13, <4>2, <6>1
          <6>. QED BY <2>2, <3>2, <5>1, <6>2 DEF Current
        <5>2. CASE job \in jobs
          <6>1. job.id \in DOMAIN batch /\ name = batch[job.id].name
            BY <1>5, <3>3, <3>14, <4>2, <5>2
          <6>. QED BY <3>1, <3>2, <4>2, <5>2, <6>1 DEF Apart, JobsListed
        <5>. QED BY <2>2, <5>1, <5>2
      <4>. QED BY <4>1, <4>2 DEF JobsListed
    <3>17. RowsLeft'
      <4>1. ASSUME NEW i \in DOMAIN batch', NEW file, NEW name, NEW own,
                   name = batch'[i].name, own = batch'[i].ino, Held(name, file)', file # own
            PROVE  IF own \in run'.seenInodes THEN ~Left(file)'
                   ELSE ~Exists(own)' /\ (Queued(own)' => ~Left(file)')
        <5>1. CASE i = id
          <6>1. name = item.name /\ own = item.ino
            BY <3>3, <4>1, <5>1
          <6>. QED BY <2>1, <3>12, <3>13, <4>1, <6>1
        <5>2. CASE i # id
          <6>1. /\ i \in DOMAIN batch /\ own = batch[i].ino /\ own # item.ino
                /\ name = batch[i].name
            BY <3>3, <4>1, <5>2
          <6>2. IF own \in run.seenInodes THEN ~Left(file)
                ELSE ~Exists(own) /\ (Queued(own) => ~Left(file))
            BY <3>1, <3>2, <4>1, <6>1 DEF Apart, RowsLeft
          <6>. QED BY <2>1, <3>2, <3>12, <6>1, <6>2
        <5>. QED BY <5>1, <5>2
      <4>. QED BY <4>1 DEF RowsLeft
    <3>18. ItemsListed'
      BY <1>1, <3>1, <3>2, <3>12 DEF Apart, ItemsListed
    <3>19. Remembered'
      <4>1. ASSUME NEW i \in DOMAIN Visible', NEW own, own = Visible'[i].ino
            PROVE  \/ i \in DOMAIN batch' /\ batch'[i].ino = own
                   \/ ~Exists(own)' /\ (Queued(own)' => i \notin DOMAIN batch' /\ SeenFrom(i)')
        <5>1. /\ i \in DOMAIN Visible /\ own = Visible[i].ino
              /\ own \notin run.seenInodes /\ own # item.ino
          BY <1>3, <2>1, <4>1
        <5>2. i \in Nat /\ DOMAIN batch \subseteq Nat
          BY <1>2, <5>1, VisibleIs, RowsAre
        <5>3. CASE i \in DOMAIN batch /\ batch[i].ino = own /\ i \in DOMAIN batch' /\ i # id
          BY <3>3, <5>3
        <5>4. CASE i \in DOMAIN batch /\ batch[i].ino = own /\ ~(i \in DOMAIN batch' /\ i # id)
          <6>1. batch[i].name = item.name
            BY <3>7, <5>1, <5>4
          <6>2. ~Exists(own) /\ (Queued(own) => ~Left(item.ino))
            BY <3>1, <3>4, <5>1, <5>4, <6>1 DEF Apart, RowsLeft
          <6>3. Queued(own) => i < id
            BY <3>8, <5>4, <6>2
          <6>4. Queued(own) => i # id /\ i <= id
            BY <1>5, <5>2, <6>3
          <6>. QED BY <3>2, <3>11, <5>2, <5>4, <6>2, <6>4
        <5>5. CASE ~Exists(own) /\ (Queued(own) => i \notin DOMAIN batch /\ SeenFrom(i))
          <6>1. Queued(own) => i \notin DOMAIN batch /\ i < id
            BY <3>10, <5>2, <5>5
          <6>2. Queued(own) => i # id /\ i <= id
            BY <1>5, <5>2, <6>1
          <6>. QED BY <3>2, <3>3, <3>11, <5>2, <5>5, <6>1, <6>2
        <5>. QED BY <3>1, <5>1, <5>3, <5>4, <5>5 DEF Apart, Remembered
      <4>. QED BY <4>1 DEF Remembered
    <3>. QED BY <3>15, <3>16, <3>17, <3>18, <3>19 DEF Apart
  <2>. QED BY <1>1, <1>3, <2>1, <2>3, <2>4, <2>5 DEF Owned, Calm
<1>. QED BY <1>4, <1>5, StoreFileRowIs

LEMMA InitOwned == Init => Owned
<1>. SUFFICES ASSUME Init PROVE Owned
  OBVIOUS
<1>1. /\ jobs = {} /\ fileq = {} /\ run.phase = "idle" /\ ~snap.open
  BY NoSnapIs DEF Init, Idle
<1>. QED BY <1>1 DEF Owned, Older, OwnRows

LEMMA NextOwned ==
    Types /\ Types' /\ Due /\ Owned /\ [Next]_vars => Owned'
<1>. SUFFICES ASSUME Types, Types', Due, Owned, [Next]_vars PROVE Owned'
  OBVIOUS
<1>1. jobs # {} => Scanning
  BY DEF Due
<1>2. CASE UNCHANGED vars
  <2>1. /\ Calm' <=> Calm
        /\ Older' <=> Older
        /\ WalkOnce' <=> WalkOnce
        /\ OwnRows' <=> OwnRows
        /\ Apart' <=> Apart
    BY <1>2 DEF vars, Calm, Older, WalkOnce, OwnRows, Apart, JobsListed, RowsLeft,
                ItemsListed, Remembered, Held, Queued, Left, Recorded, SeenFrom, Exists,
                Holds, Current, Visible
  <2>. QED BY <1>2, <2>1 DEF vars, Owned, SameIds
<1>3. CASE \/ \E file \in Files : Write(file)
           \/ \E name \in Names : \/ Unlink(name)
                                  \/ \E file \in Files : Create(name, file)
                                  \/ \E to \in Names : Link(name, to) \/ Move(name, to)
  BY <1>1, <1>3, FileSystemOwned
<1>4. CASE Start
  BY <1>1, <1>4, StartOwned
<1>5. CASE Kill \/ Signal \/ BatchLost \/ ListingDone \/ ScanDone \/ PruneCollect \/ PruneDelete
  BY <1>1, <1>5, EndOwned
<1>6. CASE Flush \/ \E item \in fileq : PassOver(item) \/ LeaveAlone(item)
  BY <1>6, PassedOwned
<1>7. CASE \E name \in Names : WalkName(name)
  BY <1>7, WalkNameOwned
<1>8. CASE \E item \in fileq : ResumeScan(item)
  BY <1>8, ResumeScanOwned
<1>9. CASE \E item \in fileq : StoreFileRow(item)
  BY <1>9, StoreFileRowOwned
<1>10. CASE \E job \in jobs : \/ DropJob(job) \/ OpenJob(job) \/ CheckpointJob(job)
                              \/ FinishJob(job) \/ GiveUp(job)
  BY <1>10, WorkersOwned
<1>. QED BY <1>2, <1>3, <1>4, <1>5, <1>6, <1>7, <1>8, <1>9, <1>10 DEF Next

\* Hashes are never written against an id that is gone, or that another file's
\* row has been given since (file_scan.c:266-268): a request keeps its own
\* file's row, or loses it to what has replaced the file at its name.
THEOREM RequestsHaveTheirRows == Spec => []RequestsOwnRows
<1>1. Init => Types /\ Due /\ Owned
  BY InitTypes, InitOwned
<1>2. Types /\ Due /\ Owned /\ [Next]_vars => (Types /\ Due /\ Owned)'
  BY NextTypes, NextOwned
<1>3. Owned => RequestsOwnRows
  <2>. SUFFICES ASSUME OwnRows PROVE RequestsOwnRows
    BY DEF Owned, Calm, RequestsOwnRows
  <2>. QED BY DEF OwnRows, Current, RequestsOwnRows
<1>. QED BY <1>1, <1>2, <1>3, PTL DEF Spec

-----------------------------------------------------------------------------
(* What was hashed and committed stays, as long as nothing changes.  A row *)
(* that is True is UpToDate when its file is listed, provided the consumer *)
(* sees it as it is: what it sees of a file that has not been queued is    *)
(* what the batch has.                                                     *)

\* Files that rows describe truly are described truly by the next ones.
Keeps(rows, next) ==
    \A i \in DOMAIN rows : True(rows[i]) =>
       \E j \in DOMAIN next : True(next[j]) /\ next[j].ino = rows[i].ino

OneEach(requests) ==
    \A job, other \in requests : job.ino = other.ino => job = other

\* A request's row is as it was listed and has no digest yet, and no file has
\* two requests.
Unhashed ==
    /\ \A job \in jobs : job.id \in DOMAIN batch =>
          batch[job.id].version = job.version /\ batch[job.id].digest = {}
    /\ OneEach(jobs)

\* What the consumer sees of a file that was not queued in this run.
Agreed ==
    \A i \in DOMAIN batch :
       \/ batch[i].ino \in run.seenInodes
       \/ i \in DOMAIN Visible /\ SameFacts(batch[i], Visible[i])

Kept ==
    /\ run.quiet =>
          /\ ~run.reborn
          /\ \A item \in fileq : Current(item)
          /\ \A job \in jobs : Current(job)
          /\ run.phase = "delete" =>
                \A i \in gone \cap DOMAIN disk : tree[disk[i].name] = NoFile
    /\ calm /\ run.quiet => Keeps(disk, batch)
    /\ Calm => /\ run.halt # "lost" => Unhashed
               /\ run.phase = "listing" => Agreed

Stays == calm /\ run'.quiet => KnownFiles \subseteq KnownFiles'

LEMMA KeepsChain ==
    ASSUME NEW rows, NEW next, NEW last, Keeps(rows, next), Keeps(next, last)
    PROVE  Keeps(rows, last)
BY DEF Keeps

LEMMA SameRowsKeep ==
    ASSUME NEW rows, NEW next, SameRows(rows, next) PROVE Keeps(rows, next)
BY DEF SameRows, SameFacts, Keeps, True

LEMMA KeptOn ==
    ASSUME UNCHANGED <<tree, version>>
    PROVE  /\ Keeps(disk', batch') => Keeps(disk, batch)'
           /\ Keeps(disk, disk') => KnownFiles \subseteq KnownFiles'
           /\ \A it : Current(it)' <=> Current(it)
<1>1. Keeps(disk', batch') => Keeps(disk, batch)'
  BY DEF Keeps, True, Now
<1>2. ASSUME Keeps(disk, disk'), NEW file \in KnownFiles PROVE file \in KnownFiles'
  <2>1. PICK i \in DOMAIN disk : True(disk[i]) /\ disk[i].ino = file
    BY DEF KnownFiles
  <2>2. PICK j \in DOMAIN disk' : True(disk'[j]) /\ disk'[j].ino = file
    BY <1>2, <2>1 DEF Keeps
  <2>3. True(disk[j])'
    BY <2>2 DEF True, Now
  <2>. QED BY <2>2, <2>3 DEF KnownFiles
<1>. QED BY <1>1, <1>2 DEF Current

\* A step that leaves the tree alone, and does not delete rows.
LEMMA KeptStep ==
    ASSUME Kept, UNCHANGED <<tree, version>>, calm' => calm, run'.quiet => run.quiet,
           run'.reborn => run.reborn, run'.phase # "delete",
           \A item \in fileq' : item \in fileq \/ Current(item),
           run.quiet => \A job \in jobs' : (\E old \in jobs : Alike(job, old)) \/ Current(job),
           calm /\ run.quiet => Keeps(batch, batch') \/ (disk' = disk /\ batch' = disk),
           disk' \in {disk, batch, batch'} \/ SameRows(batch, disk'),
           Calm' /\ run'.halt # "lost" => Unhashed',
           Calm' /\ run'.phase = "listing" => Agreed'
    PROVE  Kept' /\ Stays
<1>1. \A it : Current(it)' <=> Current(it)
  BY KeptOn
<1>2. ASSUME run'.quiet
      PROVE  /\ ~run'.reborn
             /\ \A item \in fileq' : Current(item)'
             /\ \A job \in jobs' : Current(job)'
  <2>1. /\ run.quiet /\ ~run.reborn
        /\ \A item \in fileq : Current(item)
        /\ \A job \in jobs : Current(job)
    BY <1>2 DEF Kept
  <2>2. \A job \in jobs' : Current(job)
    BY <2>1 DEF Alike, Current
  <2>. QED BY <1>1, <2>1, <2>2
<1>3. ASSUME calm, run'.quiet PROVE Keeps(disk, disk') /\ Keeps(disk', batch')
  <2>1. Keeps(disk, batch) /\ Keeps(disk, disk) /\ Keeps(batch, batch) /\ Keeps(batch', batch')
    BY <1>3 DEF Kept, Keeps
  <2>2. CASE disk' = disk /\ batch' = disk
    BY <2>1, <2>2
  <2>3. CASE Keeps(batch, batch')
    <3>1. Keeps(disk, batch')
      BY <2>1, <2>3, KeepsChain
    <3>2. CASE SameRows(batch, disk')
      <4>1. Keeps(batch, disk')
        BY <3>2, SameRowsKeep
      <4>2. Keeps(disk, disk')
        BY <2>1, <4>1, KeepsChain
      <4>3. Keeps(disk', batch')
        BY <2>3, <3>2 DEF Keeps, SameRows, SameFacts, True
      <4>. QED BY <4>2, <4>3
    <3>. QED BY <2>1, <2>3, <3>1, <3>2
  <2>. QED BY <1>3, <2>2, <2>3
<1>4. ASSUME calm, run'.quiet PROVE Keeps(disk, batch)' /\ KnownFiles \subseteq KnownFiles'
  BY <1>3, <1>4, KeptOn
<1>. QED BY <1>2, <1>4 DEF Kept, Stays

LEMMA ChangedKept ==
    ASSUME Types, Kept,
           \/ \E file \in Files : Write(file)
           \/ \E name \in Names : \/ Unlink(name)
                                  \/ \E file \in Files : Create(name, file)
                                  \/ \E to \in Names : Link(name, to) \/ Move(name, to)
    PROVE  Kept' /\ Stays
<1>1. Changed
  BY DEF Write, Unlink, Create, Link, Move
<1>2. run \in Run
  BY DEF Types
<1>3. /\ run'.quiet = FALSE /\ run'.reborn = (run.reborn \/ Reborn)
      /\ run'.halt = run.halt /\ run'.phase = run.phase /\ run'.seenInodes = run.seenInodes
  BY <1>1, <1>2 DEF Changed, Run
<1>4. UNCHANGED <<disk, batch, snap, jobs>> /\ (calm' => calm)
  BY <1>1 DEF Changed
<1>5. (Unhashed => Unhashed') /\ (Agreed => Agreed')
  <2>1. Visible' = Visible
    BY <1>4 DEF Visible
  <2>. QED BY <1>3, <1>4, <2>1 DEF Unhashed, OneEach, Agreed, SameFacts
<1>6. Calm' => Calm
  BY <1>3, <1>4 DEF Calm
<1>. QED BY <1>3, <1>5, <1>6 DEF Kept, Stays

\* Ids are counted anew, and rows of files that were never hashed are dropped.
LEMMA StartKeeps ==
    ASSUME NEW rows, IsRows(rows) PROVE Keeps(rows, Renumber(PruneUnscanned(rows)))
<1>. DEFINE doomed == {i \in DOMAIN rows : /\ rows[i].digest = {}
                                           /\ rows[i].checkpoint = NoCheckpoint}
            rest == Without(rows, doomed)
<1>1. /\ IsRows(rest) /\ DOMAIN rest = DOMAIN rows \ doomed
      /\ \A i \in DOMAIN rows \ doomed : rest[i] = rows[i]
  <2>. HIDE DEF doomed
  <2>. QED BY WithoutIs
<1>2. \A i \in DOMAIN rows : True(rows[i]) => i \notin doomed
  BY DEF True
<1>3. rest = PruneUnscanned(rows)
  BY DEF PruneUnscanned
<1>. HIDE DEF rest, doomed
<1>4. PICK low \in Nat \ {0} :
         /\ DOMAIN Renumber(rest) = {j - low + 1 : j \in DOMAIN rest}
         /\ \A i \in DOMAIN Renumber(rest) :
               i + low - 1 \in DOMAIN rest /\ Renumber(rest)[i] = rest[i + low - 1]
  BY <1>1, RenumberIs
<1>5. ASSUME NEW i \in DOMAIN rows, True(rows[i])
      PROVE  \E j \in DOMAIN Renumber(rest) : Renumber(rest)[j] = rows[i]
  <2>1. i \in DOMAIN rest /\ rest[i] = rows[i] /\ i \in Nat
    BY <1>1, <1>2, <1>5, RowsAre
  <2>2. i - low + 1 \in DOMAIN Renumber(rest) /\ (i - low + 1) + low - 1 = i
    BY <1>4, <2>1
  <2>3. Renumber(rest)[i - low + 1] = rest[(i - low + 1) + low - 1]
    BY <1>4, <2>2
  <2>. QED BY <2>1, <2>2, <2>3
<1>6. Keeps(rows, Renumber(rest))
  BY <1>5 DEF Keeps
<1>. QED BY <1>3, <1>6

LEMMA StartKept ==
    ASSUME Types, Due, Owned, Start PROVE Kept' /\ Stays
<1>1. PICK roots \in Roots :
         /\ run' = [Idle(FALSE, TRUE) EXCEPT !.phase = "listing", !.roots = roots]
         /\ fileq' = Seeds(disk', roots)
  BY DEF Start
<1>2. /\ run.phase = "idle" /\ disk' = Renumber(PruneUnscanned(disk)) /\ batch' = disk'
      /\ UNCHANGED <<tree, version, snap, jobs>>
  BY DEF Start
<1>3. run'.phase = "listing" /\ ~run'.reborn
  BY <1>1 DEF Idle
<1>4. jobs' = {} /\ ~snap'.open /\ Visible' = disk'
  BY <1>2 DEF Due, Owned, Scanning, Visible
<1>5. ASSUME NEW item \in fileq' PROVE Current(item)
  <2>1. PICK name : item = Stat(name, TRUE)
    BY <1>1 DEF Seeds
  <2>. QED BY <2>1 DEF Stat, Current
<1>6. \A item \in fileq' : Current(item)'
  BY <1>2, <1>5, KeptOn
<1>7. Keeps(disk', batch') /\ Unhashed' /\ Agreed'
  BY <1>2, <1>4 DEF Keeps, Unhashed, OneEach, Agreed, SameFacts
<1>8. Keeps(disk, disk')
  BY <1>2, StartKeeps DEF Types
<1>. QED BY <1>2, <1>3, <1>4, <1>6, <1>7, <1>8, KeptOn DEF Kept, Stays

\* The steps that end something, before the prune deletes.
LEMMA EndKept ==
    ASSUME Types, Due, Kept, Kill \/ Signal \/ BatchLost \/ ListingDone \/ ScanDone
    PROVE  Kept' /\ Stays
<1>0. run \in Run
  BY DEF Types
<1>1. /\ UNCHANGED <<tree, version, calm, mistaken>> /\ fileq' \subseteq fileq /\ jobs' \subseteq jobs
      /\ disk' \in {disk, batch}
      /\ \/ batch' = batch
         \/ batch' = disk /\ disk' = disk /\ (run'.halt = "lost" \/ jobs' = {})
  <2>1. CASE Kill
    BY <2>1 DEF Kill
  <2>2. CASE Signal
    BY <2>2 DEF Signal, Halt
  <2>3. CASE BatchLost
    BY <2>3 DEF BatchLost, Halt, Idle
  <2>4. CASE ListingDone \/ ScanDone
    BY <2>4 DEF ListingDone, ScanDone
  <2>. QED BY <2>1, <2>2, <2>3, <2>4
<1>2. /\ run'.quiet = run.quiet /\ (run'.reborn => run.reborn)
      /\ run'.phase \notin {"delete", "listing"}
      /\ run'.halt # "lost" => run.halt # "lost" \/ jobs' = {}
      /\ run'.reborn = run.reborn \/ jobs' = {}
  <2>1. CASE Kill
    BY <2>1 DEF Kill, Idle
  <2>2. CASE Signal \/ BatchLost
    BY <1>0, <2>2 DEF Signal, BatchLost, Halt, Idle, Run
  <2>3. CASE ListingDone \/ ScanDone
    BY <1>0, <2>3 DEF ListingDone, ScanDone, Idle, Run
  <2>. QED BY <2>1, <2>2, <2>3
<1>3. ASSUME Calm', run'.halt # "lost" PROVE Unhashed'
  <2>1. CASE jobs' = {}
    BY <2>1 DEF Unhashed, OneEach
  <2>2. CASE jobs' # {}
    <3>1. batch' = batch /\ Unhashed
      BY <1>1, <1>2, <1>3, <2>2 DEF Kept, Calm
    <3>. QED BY <1>1, <3>1 DEF Unhashed, OneEach
  <2>. QED BY <2>1, <2>2
<1>4. Keeps(batch, batch') \/ (disk' = disk /\ batch' = disk)
  BY <1>1 DEF Keeps
<1>5. \A job \in jobs' : \E old \in jobs : Alike(job, old)
  BY <1>1 DEF Alike
<1>. QED BY <1>1, <1>2, <1>3, <1>4, <1>5, KeptStep

LEMMA PruneKept ==
    ASSUME Types, Due, Kept, PruneCollect \/ PruneDelete PROVE Kept' /\ Stays
<1>0. run \in Run /\ IsRows(disk) /\ jobs = {} /\ jobs' = {}
  BY DEF Types, Due, Scanning, PruneCollect, PruneDelete
<1>1. CASE PruneCollect
  <2>1. /\ run' = [run EXCEPT !.phase = "delete"]
        /\ gone' = {i \in DOMAIN disk : /\ i \notin run.seenIds
                                        /\ tree[disk[i].name] = NoFile}
        /\ UNCHANGED <<tree, version, disk, batch, fileq, calm, mistaken>>
    BY <1>1 DEF PruneCollect
  <2>2. run'.quiet = run.quiet /\ run'.reborn = run.reborn /\ run'.phase = "delete"
    BY <1>0, <2>1 DEF Run
  <2>3. \A item \in fileq' : Current(item)' <=> Current(item)
    BY <2>1, KeptOn
  <2>4. Keeps(disk, disk') /\ (Keeps(disk, batch) => Keeps(disk, batch)')
    BY <2>1, KeptOn DEF Keeps
  <2>5. KnownFiles \subseteq KnownFiles'
    BY <2>1, <2>4, KeptOn
  <2>6. Unhashed'
    BY <1>0 DEF Unhashed, OneEach
  <2>7. \A i \in gone' \cap DOMAIN disk' : tree'[disk'[i].name] = NoFile
    BY <2>1
  <2>. QED BY <1>0, <2>1, <2>2, <2>3, <2>4, <2>5, <2>6, <2>7 DEF Kept, Stays
<1>2. CASE PruneDelete
  <2>1. /\ run.phase = "delete"
        /\ disk' = RaiseWatermark(Without(disk, gone)) /\ batch' = disk'
        /\ run' = Idle(~run.missed /\ run.roots = Names, run.quiet)
        /\ UNCHANGED <<tree, version, fileq, calm, mistaken>>
    BY <1>2 DEF PruneDelete
  <2>2. run'.quiet = run.quiet /\ ~run'.reborn /\ run'.phase = "idle"
    BY <2>1 DEF Idle
  <2>3. \A item \in fileq' : Current(item)' <=> Current(item)
    BY <2>1, KeptOn
  <2>4. ASSUME run.quiet PROVE Keeps(disk, disk')
    <3>1. PICK rest : rest = Without(disk, gone)
      OBVIOUS
    <3>2. /\ IsRows(rest) /\ DOMAIN rest = DOMAIN disk \ gone
          /\ \A i \in DOMAIN rest : rest[i] = disk[i]
      <4>1. /\ IsRows(Without(disk, gone)) /\ DOMAIN Without(disk, gone) = DOMAIN disk \ gone
            /\ \A i \in DOMAIN disk \ gone : Without(disk, gone)[i] = disk[i]
        BY <1>0, WithoutIs
      <4>. QED BY <3>1, <4>1
    <3>3. disk' = [i \in DOMAIN rest |-> [rest[i] EXCEPT !.fresh = FALSE]]
      BY <2>1, <3>1 DEF RaiseWatermark
    <3>4. \A i \in DOMAIN rest : rest[i] \in Row
      BY <3>2, RowsAre
    <3>5. \A i \in DOMAIN rest : SameFacts(rest[i], disk'[i])
      BY <3>3, <3>4 DEF SameFacts, Row
    <3>6. SameRows(rest, disk')
      BY <3>3, <3>5 DEF SameRows
    <3>7. \A i \in DOMAIN disk : disk[i].ino \in Files /\ disk[i].ino # NoFile
      BY <1>0, RowsAre, ListingConstants DEF Row
    <3>8. \A i \in DOMAIN disk : True(disk[i]) => i \notin gone
      BY <2>1, <2>4, <3>7 DEF Kept, True
    <3>9. Keeps(disk, rest)
      BY <3>2, <3>8 DEF Keeps
    <3>. QED BY <3>6, <3>9, SameRowsKeep, KeepsChain
  <2>5. Keeps(disk', batch') /\ Unhashed'
    BY <1>0, <2>1 DEF Keeps, Unhashed, OneEach
  <2>. QED BY <1>0, <2>1, <2>2, <2>3, <2>4, <2>5, KeptOn DEF Kept, Stays
<1>. QED BY <1>1, <1>2

\* What is dropped from the snapshot is of files that were queued.
LEMMA TickKept ==
    ASSUME Types, Tick, NEW i \in DOMAIN Visible, Visible[i].ino \notin run'.seenInodes
    PROVE  i \in DOMAIN Visible' /\ Visible'[i] = Visible[i]
<1>. DEFINE doomed == {j \in DOMAIN Visible : Visible[j].ino \in run'.seenInodes}
<1>1. Visible' = Without(Visible, doomed)
  BY TickIs DEF Visible
<1>2. i \in DOMAIN Visible \ doomed
  OBVIOUS
<1>. HIDE DEF doomed
<1>3. PICK rows : rows = Visible /\ IsRows(rows)
  BY VisibleIs
<1>4. /\ DOMAIN Without(rows, doomed) = DOMAIN rows \ doomed
      /\ \A j \in DOMAIN rows \ doomed : Without(rows, doomed)[j] = rows[j]
  <2>1. IsRows(rows)
    BY <1>3
  <2>. HIDE <1>3
  <2>. QED BY <2>1, WithoutIs
<1>. QED BY <1>1, <1>2, <1>3, <1>4

\* What is seen of a file that was not queued, when a row of another changes.
LEMMA AgreedTicks ==
    ASSUME Types, Tick, Agreed, run.seenInodes \subseteq run'.seenInodes,
           \A i \in DOMAIN batch' : batch'[i].ino \notin run'.seenInodes =>
              i \in DOMAIN batch /\ SameFacts(batch[i], batch'[i])
    PROVE  Agreed'
<1>. SUFFICES ASSUME NEW i \in DOMAIN batch', batch'[i].ino \notin run'.seenInodes
              PROVE  i \in DOMAIN Visible' /\ SameFacts(batch'[i], Visible'[i])
  BY DEF Agreed, SameFacts
<1>0. i \in DOMAIN batch /\ SameFacts(batch[i], batch'[i])
  OBVIOUS
<1>1. i \in DOMAIN Visible /\ SameFacts(batch[i], Visible[i])
  BY <1>0 DEF Agreed, SameFacts
<1>2. Visible[i].ino \notin run'.seenInodes
  BY <1>0, <1>1 DEF SameFacts
<1>3. i \in DOMAIN Visible' /\ Visible'[i] = Visible[i]
  BY <1>1, <1>2, TickKept
<1>. QED BY <1>0, <1>1, <1>3 DEF SameFacts

\* The consumer writes no row.
LEMMA PassedKept ==
    ASSUME Types, Due, Owned, Kept,
           \/ Flush \/ \E name \in Names : WalkName(name)
           \/ \E item \in fileq : PassOver(item) \/ LeaveAlone(item)
    PROVE  Kept' /\ Stays
<1>0. run \in Run /\ NoSnap.open = FALSE
  BY NoSnapIs DEF Types
<1>1. /\ run.phase = "listing"
      /\ UNCHANGED <<tree, version, batch, jobs, calm, mistaken>> /\ disk' \in {disk, batch}
  BY DEF Flush, WalkName, PassOver, LeaveAlone, Pops, Scans
<1>2. /\ run'.quiet = run.quiet /\ run'.reborn = run.reborn
      /\ run'.phase = run.phase /\ run'.halt = run.halt /\ run'.seenInodes = run.seenInodes
  <2>1. CASE Flush \/ \E name \in Names : WalkName(name)
    BY <2>1 DEF Flush, WalkName
  <2>2. CASE \E item \in fileq : PassOver(item)
    BY <2>2 DEF PassOver
  <2>3. CASE \E item \in fileq : LeaveAlone(item)
    <3>1. PICK id : run' = [run EXCEPT !.seenIds = @ \cup {id}]
      BY <2>3 DEF LeaveAlone
    <3>. QED BY <1>0, <3>1 DEF Run
  <2>. QED BY <2>1, <2>2, <2>3
<1>3. ASSUME NEW item \in fileq' PROVE item \in fileq \/ Current(item)
  <2>1. CASE \E name \in Names : WalkName(name)
    BY <2>1 DEF WalkName, Stat, Current
  <2>2. CASE Flush \/ \E other \in fileq : PassOver(other) \/ LeaveAlone(other)
    BY <2>2 DEF Flush, PassOver, LeaveAlone, Pops, Scans
  <2>. QED BY <2>1, <2>2
<1>4. ASSUME Calm PROVE Agreed'
  <2>0. Agreed
    BY <1>1, <1>4 DEF Kept
  <2>1. CASE Flush
    <3>1. Visible' = batch
      BY <1>0, <2>1 DEF Flush, Visible
    <3>. QED BY <1>1, <3>1 DEF Agreed, SameFacts
  <2>2. CASE \/ \E name \in Names : WalkName(name)
             \/ \E item \in fileq : PassOver(item)
    <3>1. Visible' = Visible
      BY <2>2 DEF WalkName, PassOver, Visible
    <3>. QED BY <1>1, <1>2, <2>0, <3>1 DEF Agreed
  <2>3. CASE \E item \in fileq : LeaveAlone(item)
    <3>1. Tick
      BY <2>3 DEF LeaveAlone
    <3>. QED BY <1>1, <1>2, <2>0, <3>1, AgreedTicks DEF SameFacts
  <2>. QED BY <2>1, <2>2, <2>3
<1>5. Keeps(batch, batch')
  BY <1>1 DEF Keeps
<1>6. \A job \in jobs' : \E old \in jobs : Alike(job, old)
  BY <1>1 DEF Alike
<1>7. Calm /\ run'.halt # "lost" => Unhashed'
  BY <1>1, <1>2 DEF Kept, Unhashed, OneEach
<1>8. Calm' <=> Calm
  BY <1>1, <1>2 DEF Calm
<1>. QED BY <1>1, <1>2, <1>3, <1>4, <1>5, <1>6, <1>7, <1>8, KeptStep

\* The listing's snapshot is out of date by what the batch has by now, but not
\* of files that are still to be queued.
LEMMA AgreedStays ==
    ASSUME Agreed, SameRows(batch, batch'), disk' \in {disk, batch'}, UNCHANGED snap,
           run'.seenInodes = run.seenInodes
    PROVE  Agreed'
<1>. SUFFICES ASSUME NEW i \in DOMAIN batch', batch'[i].ino \notin run'.seenInodes
              PROVE  i \in DOMAIN Visible' /\ SameFacts(batch'[i], Visible'[i])
  BY DEF Agreed, SameFacts
<1>1. Visible' = Visible \/ Visible' = batch'
  BY DEF Visible
<1>2. i \in DOMAIN batch /\ SameFacts(batch[i], batch'[i])
  BY DEF SameRows
<1>3. i \in DOMAIN Visible /\ SameFacts(batch[i], Visible[i])
  BY <1>2 DEF Agreed, SameFacts
<1>4. CASE Visible' = Visible
  BY <1>2, <1>3, <1>4 DEF SameFacts
<1>5. CASE Visible' = batch'
  BY <1>5 DEF SameFacts
<1>. QED BY <1>1, <1>4, <1>5

(* The workers. *)
LEMMA WorkKept ==
    ASSUME Kept, SameRows(batch, batch'), disk' \in {disk, batch'},
           UNCHANGED <<tree, version, snap, fileq, calm, mistaken>>,
           run'.quiet = run.quiet, run'.reborn = run.reborn, run'.halt = run.halt,
           run'.phase = run.phase, run'.seenInodes = run.seenInodes, run.phase # "delete",
           \A job \in jobs' : \E old \in jobs : Alike(job, old),
           OneEach(jobs) => OneEach(jobs')
    PROVE  Kept' /\ Stays
<1>1. Calm /\ run.halt # "lost" => Unhashed'
  BY DEF Kept, Unhashed, SameRows, SameFacts, Alike, OneEach
<1>2. Calm /\ run.phase = "listing" => Agreed'
  BY AgreedStays DEF Kept
<1>3. Keeps(batch, batch')
  BY SameRowsKeep
<1>4. Calm' <=> Calm
  BY DEF Calm
<1>. QED BY <1>1, <1>2, <1>3, <1>4, KeptStep

LEMMA BecomesOne ==
    ASSUME NEW job \in jobs, NEW next, Alike(next, job), Becomes(job, next)
    PROVE  /\ \A j \in jobs' : \E old \in jobs : Alike(j, old)
           /\ OneEach(jobs) => OneEach(jobs')
BY DEF Becomes, Alike, OneEach

LEMMA JobsKept ==
    ASSUME Types, Kept, NEW job \in jobs,
           DropJob(job) \/ GiveUp(job) \/ OpenJob(job) \/ CheckpointJob(job)
    PROVE  Kept' /\ Stays
<1>0. /\ job \in Job /\ job.id \in Nat /\ IsRows(batch) /\ run \in Run
      /\ SameRows(batch, batch)
  BY DEF Types, Job, SameRows, SameFacts
<1>1. CASE DropJob(job) \/ GiveUp(job)
  <2>1. /\ jobs' = jobs \ {job} /\ run' = [run EXCEPT !.missed = TRUE]
        /\ run.phase # "delete"
        /\ UNCHANGED <<tree, version, disk, batch, snap, fileq, calm, mistaken>>
    BY <1>1 DEF DropJob, GiveUp, Drop, InScan
  <2>2. /\ run'.quiet = run.quiet /\ run'.reborn = run.reborn /\ run'.halt = run.halt
        /\ run'.phase = run.phase /\ run'.seenInodes = run.seenInodes
    BY <1>0, <2>1 DEF Run
  <2>3. /\ \A j \in jobs' : \E old \in jobs : Alike(j, old)
        /\ OneEach(jobs) => OneEach(jobs')
    BY <2>1 DEF Alike, OneEach
  <2>. QED BY <1>0, <2>1, <2>2, <2>3, WorkKept
<1>2. CASE OpenJob(job)
  <2>. DEFINE open == [job EXCEPT !.state = "reading", !.fd = tree[job.name], !.resume = {}]
  <2>1. /\ \/ /\ Becomes(job, [open EXCEPT !.fed = job.resume])
              /\ UNCHANGED <<disk, batch>>
           \/ /\ Becomes(job, [open EXCEPT !.checkpointed = FALSE])
              /\ EndUnit(RemoveCheckpoint(batch, job.id))
        /\ run.phase # "delete"
        /\ UNCHANGED <<tree, version, snap, run, fileq, calm, mistaken>>
    BY <1>2 DEF OpenJob, InScan
  <2>2. /\ Alike([open EXCEPT !.fed = job.resume], job)
        /\ Alike([open EXCEPT !.checkpointed = FALSE], job)
    BY <1>0 DEF Alike, Job
  <2>. HIDE DEF open
  <2>3. PICK next : Alike(next, job) /\ Becomes(job, next)
    BY <2>1, <2>2
  <2>4. /\ \A j \in jobs' : \E old \in jobs : Alike(j, old)
        /\ OneEach(jobs) => OneEach(jobs')
    BY <2>3, BecomesOne
  <2>5. SameRows(batch, batch') /\ disk' \in {disk, batch'}
    BY <1>0, <2>1, StatementsKeepFacts DEF EndUnit
  <2>. QED BY <2>1, <2>4, <2>5, WorkKept
<1>3. CASE CheckpointJob(job)
  <2>. DEFINE cp == [version |-> job.version, fed |-> Fed(job)]
              next == [job EXCEPT !.fed = Fed(job), !.checkpointed = TRUE]
  <2>1. /\ job.state = "reading" /\ batch' = StoreCheckpoint(batch, job.id, cp)
        /\ disk' = batch' /\ Becomes(job, next) /\ run.phase # "delete"
        /\ UNCHANGED <<tree, version, snap, run, fileq, calm, mistaken>>
    BY <1>3 DEF CheckpointJob, InScan
  <2>2. cp \in Checkpoints
    BY <1>0, <2>1, FedIs DEF Checkpoints, Job, Types
  <2>3. Alike(next, job)
    BY <1>0 DEF Alike, Job
  <2>. HIDE DEF next, cp
  <2>4. SameRows(batch, batch')
    BY <1>0, <2>1, <2>2, StatementsKeepFacts
  <2>5. /\ \A j \in jobs' : \E old \in jobs : Alike(j, old)
        /\ OneEach(jobs) => OneEach(jobs')
    BY <2>1, <2>3, BecomesOne
  <2>. QED BY <2>1, <2>4, <2>5, WorkKept
<1>. QED BY <1>1, <1>2, <1>3

\* The one step that writes a digest: the row had none, so it was not True.
LEMMA FinishJobKept ==
    ASSUME Types, Owned, Kept, NEW job \in jobs, FinishJob(job)
    PROVE  Kept' /\ Stays
<1>. DEFINE plain == IF job.checkpointed THEN RemoveCheckpoint(batch, job.id) ELSE batch
<1>1. /\ job.state = "reading" /\ jobs' = jobs \ {job} /\ run.halt # "lost"
      /\ IF job.id \in DOMAIN batch
         THEN EndUnit(UpdateScannedFile(plain, job.id, Fed(job)))
         ELSE UNCHANGED <<disk, batch>>
      /\ run' = [run EXCEPT !.missed = @ \/ job.id \notin DOMAIN batch]
      /\ run.phase # "delete"
      /\ UNCHANGED <<tree, version, snap, todo, fileq, calm, mistaken>>
  BY DEF FinishJob, Drop, InScan
<1>2. /\ job.id \in Nat /\ IsRows(batch) /\ run \in Run /\ Fed(job) \in Digests
  BY <1>1, FedIs DEF Types, Job
<1>3. /\ run'.quiet = run.quiet /\ run'.reborn = run.reborn /\ run'.halt = run.halt
      /\ run'.phase = run.phase /\ run'.seenInodes = run.seenInodes
  BY <1>1, <1>2 DEF Run
<1>4. /\ \A j \in jobs' : \E old \in jobs : Alike(j, old)
      /\ OneEach(jobs) => OneEach(jobs')
  BY <1>1 DEF Alike, OneEach
<1>5. CASE job.id \notin DOMAIN batch
  <2>1. SameRows(batch, batch)
    BY DEF SameRows, SameFacts
  <2>2. UNCHANGED <<disk, batch>>
    BY <1>1, <1>5
  <2>. QED BY <1>1, <1>3, <1>4, <2>1, <2>2, WorkKept
<1>6. CASE job.id \in DOMAIN batch
  <2>1. SameRows(batch, plain) /\ IsRows(plain)
    BY <1>2, StatementsKeepFacts, RemoveCheckpointIs
  <2>2. batch' = UpdateScannedFile(plain, job.id, Fed(job)) /\ disk' \in {disk, batch'}
    BY <1>1, <1>6 DEF EndUnit
  <2>. HIDE DEF plain
  <2>3. /\ DOMAIN batch' = DOMAIN batch
        /\ \A i \in DOMAIN batch :
              batch'[i] = IF i = job.id THEN WithDigest(plain[i], Fed(job)) ELSE plain[i]
    <3>1. DOMAIN plain = DOMAIN batch
      BY <2>1 DEF SameRows
    <3>. QED BY <1>2, <2>1, <2>2, <3>1, UpdateScannedFileIs
  <2>4. /\ \A i \in DOMAIN batch : i # job.id => SameFacts(batch[i], batch'[i])
        /\ batch'[job.id].ino = batch[job.id].ino
    <3>1. \A i \in DOMAIN batch : plain[i] \in Row /\ SameFacts(batch[i], plain[i])
      BY <2>1, RowsAre DEF SameRows
    <3>2. \A i \in DOMAIN batch : i # job.id => SameFacts(batch[i], batch'[i])
      BY <2>3, <3>1
    <3>3. batch'[job.id].ino = plain[job.id].ino
      BY <1>6, <2>3, <3>1 DEF WithDigest, Row
    <3>. QED BY <1>6, <3>1, <3>2, <3>3 DEF SameFacts
  <2>5. ASSUME Calm
        PROVE  /\ Unhashed /\ batch[job.id].ino = job.ino
               /\ run.phase = "listing" => job.ino \in run.seenInodes /\ Agreed
    <3>1. Unhashed /\ Calm /\ (run.phase = "listing" => Agreed)
      BY <1>1, <2>5 DEF Kept
    <3>2. batch[job.id].ino = job.ino
      BY <1>1, <1>6, <3>1 DEF Owned, OwnRows
    <3>3. run.phase = "listing" => job.ino \in run.seenInodes
      BY <3>1 DEF Owned, Apart, JobsListed
    <3>. QED BY <3>1, <3>2, <3>3
  <2>6. calm /\ run.quiet => Keeps(batch, batch')
    <3>1. ASSUME calm, run.quiet, NEW i \in DOMAIN batch, True(batch[i])
          PROVE  i \in DOMAIN batch' /\ SameFacts(batch[i], batch'[i])
      <4>0. Calm
        BY <3>1 DEF Kept, Calm
      <4>1. batch[job.id].digest = {}
        BY <1>6, <2>5, <4>0 DEF Unhashed
      <4>2. i # job.id
        BY <3>1, <4>1 DEF True
      <4>. QED BY <2>3, <2>4, <4>2
    <3>. QED BY <3>1 DEF Keeps, True, SameFacts
  <2>7. Calm => Unhashed'
    <3>. SUFFICES ASSUME Calm PROVE Unhashed'
      OBVIOUS
    <3>1. ASSUME NEW other \in jobs', other.id \in DOMAIN batch'
          PROVE  batch'[other.id].version = other.version /\ batch'[other.id].digest = {}
      <4>1. other \in jobs /\ other # job /\ other.id \in DOMAIN batch
        BY <1>1, <2>3, <3>1
      <4>2. batch[other.id].ino = other.ino
        BY <1>1, <4>1 DEF Owned, OwnRows
      <4>3. other.id # job.id
        BY <2>5, <4>1, <4>2 DEF Unhashed, OneEach
      <4>4. batch[other.id].version = other.version /\ batch[other.id].digest = {}
        BY <2>5, <4>1 DEF Unhashed
      <4>. QED BY <2>4, <4>1, <4>3, <4>4 DEF SameFacts
    <3>. QED BY <1>4, <2>5, <3>1 DEF Unhashed
  <2>8. Calm /\ run.phase = "listing" => Agreed'
    <3>. SUFFICES ASSUME Calm, run.phase = "listing",
                         NEW i \in DOMAIN batch', batch'[i].ino \notin run.seenInodes
                  PROVE  i \in DOMAIN Visible' /\ SameFacts(batch'[i], Visible'[i])
      BY <1>3 DEF Agreed, SameFacts
    <3>1. i \in DOMAIN batch /\ i # job.id /\ SameFacts(batch[i], batch'[i])
      BY <2>3, <2>4, <2>5
    <3>2. i \in DOMAIN Visible /\ SameFacts(batch[i], Visible[i])
      BY <2>5, <3>1 DEF Agreed, SameFacts
    <3>3. Visible' = Visible \/ Visible' = batch'
      BY <1>1, <2>2 DEF Visible
    <3>. QED BY <3>1, <3>2, <3>3 DEF SameFacts
  <2>9. Calm' <=> Calm
    BY <1>1, <1>3 DEF Calm
  <2>. QED BY <1>1, <1>3, <1>4, <2>2, <2>6, <2>7, <2>8, <2>9, KeptStep
<1>. QED BY <1>5, <1>6

\* A file is queued that was not: its row has no digest, and the others stay.
LEMMA QueuedKept ==
    ASSUME Types, Owned, Owned', Kept, NEW item \in fileq, NEW new,
           run.phase = "listing", item.ino \notin run.seenInodes, Tick,
           fileq' = fileq \ {item}, UNCHANGED <<tree, version, calm, mistaken>>,
           run'.seenInodes = run.seenInodes \cup {item.ino}, run'.phase = run.phase,
           run'.quiet = run.quiet, run'.reborn = run.reborn, run'.halt = run.halt,
           jobs' = jobs \cup {new},
           new.name = item.name, new.ino = item.ino, new.version = item.version,
           disk' \in {disk, batch'} \/ SameRows(batch, disk'),
           \A i \in DOMAIN batch' : batch'[i].ino # item.ino =>
              i \in DOMAIN batch /\ SameFacts(batch[i], batch'[i]),
           calm /\ run.quiet => Keeps(batch, batch'),
           Calm /\ new.id \in DOMAIN batch' =>
              batch'[new.id].version = new.version /\ batch'[new.id].digest = {}
    PROVE  Kept' /\ Stays
<1>1. ASSUME run.quiet, NEW job \in jobs'
      PROVE  (\E old \in jobs : Alike(job, old)) \/ Current(job)
  <2>1. CASE job \in jobs
    BY <2>1 DEF Alike
  <2>2. CASE job = new
    <3>1. Current(item)
      BY <1>1 DEF Kept
    <3>. QED BY <2>2, <3>1 DEF Current
  <2>. QED BY <2>1, <2>2
<1>0. Calm' <=> Calm
  BY DEF Calm
<1>2. ASSUME Calm PROVE Unhashed' /\ Agreed'
  <2>1. Calm /\ Calm'
    BY <1>0, <1>2
  <2>2. run.halt = "no" /\ Unhashed /\ Agreed /\ JobsListed /\ OwnRows /\ OwnRows'
    BY <1>2, <2>1 DEF Owned, Kept, Apart
  <2>3. \A job \in jobs : job.ino \in run.seenInodes
    BY <2>2 DEF JobsListed
  <2>4. OneEach(jobs')
    BY <2>2, <2>3 DEF Unhashed, OneEach
  <2>5. ASSUME NEW job \in jobs', job.id \in DOMAIN batch'
        PROVE  batch'[job.id].version = job.version /\ batch'[job.id].digest = {}
    <3>1. CASE job = new
      BY <1>2, <2>5, <3>1
    <3>2. CASE job \in jobs
      <4>1. batch'[job.id].ino = job.ino /\ job.ino # item.ino
        BY <2>2, <2>3, <2>5, <3>2 DEF OwnRows
      <4>2. job.id \in DOMAIN batch /\ SameFacts(batch[job.id], batch'[job.id])
        BY <2>5, <4>1
      <4>. QED BY <2>2, <3>2, <4>2 DEF Unhashed, SameFacts
    <3>. QED BY <3>1, <3>2
  <2>6. Agreed'
    <3>1. \A i \in DOMAIN batch' : batch'[i].ino \notin run'.seenInodes =>
             i \in DOMAIN batch /\ SameFacts(batch[i], batch'[i])
      OBVIOUS
    <3>. QED BY <2>2, <3>1, AgreedTicks
  <2>. QED BY <2>4, <2>5, <2>6 DEF Unhashed
<1>3. Keeps(batch, batch') \/ ~(calm /\ run.quiet)
  OBVIOUS
<1>. QED BY <1>0, <1>1, <1>2, <1>3, KeptStep

LEMMA ResumeScanKept ==
    ASSUME Types, Owned, Owned', Kept, NEW item \in fileq, ResumeScan(item)
    PROVE  Kept' /\ Stays
<1>1. PICK id \in Described(item), late \in BOOLEAN :
         /\ CheckpointUsable(id, item)
         /\ EndUnit(IF late THEN batch ELSE UpdateDedupeSeq(batch, id))
         /\ Queue(item, id, Visible[id].checkpoint.fed, late)
  BY DEF ResumeScan
<1>2. /\ run.phase = "listing" /\ fileq' = fileq \ {item}
      /\ item.ino \notin run.seenInodes /\ Tick
      /\ UNCHANGED <<tree, version, calm, mistaken>>
  BY DEF ResumeScan, Scans, Pops
<1>3. item \in Item /\ run \in Run /\ IsRows(batch) /\ id \in Nat
  BY DescribedIs DEF Types
<1>4. /\ run'.seenInodes = run.seenInodes \cup {item.ino}
      /\ run'.phase = run.phase /\ run'.halt = run.halt
      /\ run'.quiet = run.quiet /\ run'.reborn = run.reborn
  <2>1. run' = [run EXCEPT !.seenIds = @ \cup {id}, !.seenInodes = @ \cup {item.ino}]
    BY <1>1 DEF Queue
  <2>. QED BY <1>3, <2>1 DEF Run
<1>5. PICK new : /\ jobs' = jobs \cup {new}
                 /\ new.id = id /\ new.name = item.name /\ new.ino = item.ino
                 /\ new.version = item.version
  <2>. DEFINE new == [id |-> id, name |-> item.name, ino |-> item.ino,
                      version |-> item.version, resume |-> Visible[id].checkpoint.fed,
                      state |-> "queued", fd |-> NoFile, fed |-> {},
                      checkpointed |-> Visible[id].checkpoint.fed # {}, late |-> late]
  <2>1. jobs' = jobs \cup {new}
    BY <1>1 DEF Queue
  <2>2. /\ new.id = id /\ new.name = item.name /\ new.ino = item.ino
        /\ new.version = item.version
    OBVIOUS
  <2>. HIDE DEF new
  <2>. QED BY <2>1, <2>2
<1>6. SameRows(batch, batch') /\ disk' \in {disk, batch'}
  BY <1>1, <1>3, StatementsKeepFacts DEF EndUnit
<1>7. ASSUME Calm, new.id \in DOMAIN batch'
      PROVE  batch'[new.id].version = new.version /\ batch'[new.id].digest = {}
  <2>1. Agreed /\ Calm'
    BY <1>2, <1>4, <1>7 DEF Kept, Calm
  <2>2. OwnRows'
    BY <1>2, <1>4, <2>1 DEF Owned
  <2>3. batch'[id].ino = item.ino
    BY <1>5, <1>7, <2>2 DEF OwnRows
  <2>4. id \in DOMAIN batch /\ SameFacts(batch[id], batch'[id])
    BY <1>5, <1>6, <1>7 DEF SameRows
  <2>5. SameFacts(batch[id], Visible[id])
    BY <1>2, <2>1, <2>3, <2>4 DEF Agreed, SameFacts
  <2>6. Visible[id].version = item.version /\ Visible[id].digest = {}
    BY <1>1 DEF CheckpointUsable, CheckpointAsked, Unchanged
  <2>. QED BY <1>5, <2>4, <2>5, <2>6 DEF SameFacts
<1>8. Keeps(batch, batch')
  BY <1>6, SameRowsKeep
<1>9. \A i \in DOMAIN batch' : batch'[i].ino # item.ino =>
         i \in DOMAIN batch /\ SameFacts(batch[i], batch'[i])
  BY <1>6 DEF SameRows
<1>. QED BY <1>2, <1>4, <1>5, <1>6, <1>7, <1>8, <1>9, QueuedKept

\* Only rows that are not true are stored anew.
LEMMA StoreFileRowKept ==
    ASSUME Types, Owned, Owned', Kept, NEW item \in fileq, StoreFileRow(item)
    PROVE  Kept' /\ Stays
<1>1. /\ run.phase = "listing" /\ fileq' = fileq \ {item}
      /\ item.ino \notin run.seenInodes /\ Tick
      /\ \A id \in Described(item) : ~UpToDate(id, item)
      /\ UNCHANGED <<tree, version, calm, mistaken>>
  BY DEF StoreFileRow, Scans, Pops
<1>2. item \in Item /\ run \in Run /\ item.ino \in Files /\ item.ino # NoFile
  BY ListingConstants DEF Types, Item
<1>3. CASE /\ SameRows(batch, batch') /\ disk' \in {disk, batch'}
           /\ run' = [run EXCEPT !.missed = TRUE] /\ UNCHANGED jobs
  <2>1. /\ run'.seenInodes = run.seenInodes /\ run'.reborn = run.reborn
        /\ run'.quiet = run.quiet /\ run'.halt = run.halt /\ run'.phase = run.phase
    BY <1>2, <1>3 DEF Run
  <2>2. \A job \in jobs' : \E old \in jobs : Alike(job, old)
    BY <1>3 DEF Alike
  <2>3. Keeps(batch, batch')
    BY <1>3, SameRowsKeep
  <2>4. Calm => Agreed'
    <3>1. Calm => Agreed
      BY <1>1 DEF Kept
    <3>2. \A i \in DOMAIN batch' : i \in DOMAIN batch /\ SameFacts(batch[i], batch'[i])
      BY <1>3 DEF SameRows
    <3>. QED BY <1>1, <2>1, <3>1, <3>2, AgreedTicks
  <2>5. Calm /\ run.halt # "lost" => Unhashed'
    BY <1>3 DEF Kept, Unhashed, OneEach, SameRows, SameFacts
  <2>6. Calm' <=> Calm
    BY <1>1, <2>1 DEF Calm
  <2>. QED BY <1>1, <1>3, <2>1, <2>2, <2>3, <2>4, <2>5, <2>6, KeptStep
<1>4. ASSUME NEW old \in Nat, NEW id \in Nat, NEW renamed \in BOOLEAN,
             Stored(batch, batch', item, id, old, renamed), Queue(item, id, {}, FALSE),
             disk' \in {disk, batch'} \/ SameRows(batch, disk'),
             renamed => old \in Described(item)
      PROVE  Kept' /\ Stays
  <2>1. /\ run'.seenInodes = run.seenInodes \cup {item.ino}
        /\ run'.phase = run.phase /\ run'.halt = run.halt
        /\ run'.quiet = run.quiet /\ run'.reborn = run.reborn
    <3>1. run' = [run EXCEPT !.seenIds = @ \cup {id}, !.seenInodes = @ \cup {item.ino}]
      BY <1>4 DEF Queue
    <3>. QED BY <1>2, <3>1 DEF Run
  <2>2. PICK new : /\ jobs' = jobs \cup {new}
                   /\ new.id = id /\ new.name = item.name /\ new.ino = item.ino
                   /\ new.version = item.version
    <3>. DEFINE new == [id |-> id, name |-> item.name, ino |-> item.ino,
                        version |-> item.version, resume |-> {},
                        state |-> "queued", fd |-> NoFile, fed |-> {},
                        checkpointed |-> {} # {}, late |-> FALSE]
    <3>1. jobs' = jobs \cup {new}
      BY <1>4 DEF Queue
    <3>2. /\ new.id = id /\ new.name = item.name /\ new.ino = item.ino
          /\ new.version = item.version
      OBVIOUS
    <3>. HIDE DEF new
    <3>. QED BY <3>1, <3>2
  <2>3. /\ id \in DOMAIN batch' /\ batch'[id].ino = item.ino /\ batch'[id].digest = {}
        /\ batch'[id].version = item.version
        /\ \A i \in DOMAIN batch' : i # id =>
              i \in DOMAIN batch /\ SameFacts(batch[i], batch'[i])
        /\ \A i \in DOMAIN batch : i \notin DOMAIN batch' \/ i = id =>
              \/ batch[i].name = item.name \/ batch[i].ino = item.ino
              \/ renamed /\ i = old
    BY <1>4 DEF Stored
  <2>4. ASSUME calm, run.quiet, NEW i \in DOMAIN batch, True(batch[i])
        PROVE  i \in DOMAIN batch' /\ i # id
    <3>1. Agreed /\ Current(item)
      BY <1>1, <2>4 DEF Kept, Calm
    <3>2. ASSUME batch[i].ino = item.ino PROVE FALSE
      <4>1. i \in DOMAIN Visible /\ SameFacts(batch[i], Visible[i])
        BY <1>1, <3>1, <3>2 DEF Agreed
      <4>2. i \in Described(item)
        BY <3>2, <4>1 DEF Described, OfFile, SameFacts
      <4>3. Visible[i].version = item.version /\ Visible[i].digest # {}
        BY <2>4, <3>1, <3>2, <4>1 DEF SameFacts, True, Current
      <4>4. tree[Visible[i].name] # NoFile
        BY <1>2, <2>4, <3>2, <4>1 DEF SameFacts, True
      <4>5. UpToDate(i, item)
        BY <4>3, <4>4 DEF UpToDate, Unchanged, Renamed
      <4>. QED BY <1>1, <4>2, <4>5
    <3>3. batch[i].name # item.name
      BY <2>4, <3>1, <3>2 DEF True, Current
    <3>4. ASSUME renamed, i = old PROVE FALSE
      <4>1. old \in Described(item)
        BY <1>4, <3>4
      <4>2. old \in DOMAIN Visible /\ Visible[old].ino = item.ino
        BY <4>1, DescribedIs
      <4>3. batch[old].ino \in run.seenInodes
        BY <3>1, <3>2, <3>4, <4>2 DEF Agreed, SameFacts
      <4>4. Remembered /\ Exists(item.ino)
        <5>1. Calm /\ item.name \in Names
          BY <1>2, <2>4 DEF Kept, Calm, Item
        <5>. QED BY <1>1, <3>1, <5>1 DEF Owned, Apart, Current, Exists, Holds
      <4>. QED BY <1>1, <3>2, <3>4, <4>2, <4>4 DEF Remembered
    <3>. QED BY <2>3, <3>2, <3>3, <3>4
  <2>5. calm /\ run.quiet => Keeps(batch, batch')
    <3>1. ASSUME calm, run.quiet, NEW i \in DOMAIN batch, True(batch[i])
          PROVE  i \in DOMAIN batch' /\ SameFacts(batch[i], batch'[i])
      BY <2>3, <2>4, <3>1
    <3>. QED BY <3>1 DEF Keeps, True, SameFacts
  <2>. QED BY <1>1, <1>4, <2>1, <2>2, <2>3, <2>5, QueuedKept
<1>. QED BY <1>3, <1>4, StoreFileRowIs

LEMMA InitKept == Init => Kept
<1>. SUFFICES ASSUME Init PROVE Kept
  OBVIOUS
<1>1. run.quiet = FALSE /\ run.phase = "idle" /\ jobs = {}
  BY DEF Init, Idle
<1>. QED BY <1>1 DEF Kept, Unhashed, OneEach

LEMMA NextKept ==
    Types /\ Due /\ Owned /\ Owned' /\ Kept /\ [Next]_vars => Kept' /\ [Stays]_vars
<1>. SUFFICES ASSUME Types, Due, Owned, Owned', Kept, [Next]_vars
              PROVE  Kept' /\ [Stays]_vars
  OBVIOUS
<1>1. CASE UNCHANGED vars
  <2>1. /\ \A it : Current(it)' <=> Current(it)
        /\ Keeps(disk, batch)' <=> Keeps(disk, batch)
        /\ Unhashed' <=> Unhashed
        /\ Agreed' <=> Agreed
        /\ Calm' <=> Calm
    BY <1>1 DEF vars, Current, Keeps, True, Now, Unhashed, OneEach, Agreed, SameFacts, Visible,
                Calm
  <2>. QED BY <1>1, <2>1 DEF vars, Kept
<1>2. CASE \/ \E file \in Files : Write(file)
           \/ \E name \in Names : \/ Unlink(name)
                                  \/ \E file \in Files : Create(name, file)
                                  \/ \E to \in Names : Link(name, to) \/ Move(name, to)
  BY <1>2, ChangedKept
<1>3. CASE Start
  BY <1>3, StartKept
<1>4. CASE Kill \/ Signal \/ BatchLost \/ ListingDone \/ ScanDone
  BY <1>4, EndKept
<1>5. CASE PruneCollect \/ PruneDelete
  BY <1>5, PruneKept
<1>6. CASE \/ Flush \/ \E name \in Names : WalkName(name)
           \/ \E item \in fileq : PassOver(item) \/ LeaveAlone(item)
  BY <1>6, PassedKept
<1>7. CASE \E item \in fileq : ResumeScan(item)
  BY <1>7, ResumeScanKept
<1>8. CASE \E item \in fileq : StoreFileRow(item)
  BY <1>8, StoreFileRowKept
<1>9. CASE \E job \in jobs : DropJob(job) \/ OpenJob(job) \/ CheckpointJob(job) \/ GiveUp(job)
  BY <1>9, JobsKept
<1>10. CASE \E job \in jobs : FinishJob(job)
  BY <1>10, FinishJobKept
<1>. QED BY <1>1, <1>2, <1>3, <1>4, <1>5, <1>6, <1>7, <1>8, <1>9, <1>10 DEF Next

\* A file that was hashed and committed and has stayed as it was stays in the
\* hashfile through every step of a run during which nothing changes: its row
\* is there to be found when the file is listed, and is then left alone.
THEOREM HashedAndCommittedStay == Spec => CommittedStays
<1>1. Init => Types /\ Due /\ Owned /\ Kept
  BY InitTypes, InitOwned, InitKept
<1>2. /\ Types /\ Due /\ Owned /\ Kept /\ [Next]_vars => (Types /\ Due /\ Owned /\ Kept)'
      /\ Types /\ Due /\ Owned /\ Owned' /\ Kept /\ [Next]_vars => [Stays]_vars
  BY NextTypes, NextOwned, NextKept
<1>3. Spec => [][Stays]_vars
  BY <1>1, <1>2, PTL DEF Spec
<1>. QED BY <1>3, PTL DEF CommittedStays, Stays

-----------------------------------------------------------------------------
(* Rows tell the truth: what has a digest and is of the version that its   *)
(* file has now was hashed from that version, and so was what is left to   *)
(* be carried on with.  As long as no inode number is used again in a run  *)
(* and nothing misleads the scan; else see README 6.                       *)

Trusted == calm /\ ~mistaken

\* A file is there, and what was last written to it is this version.
Lives(file, v) == Exists(file) /\ version[file] = v

HonestRow(row) ==
    /\ row.version <= version[row.ino]
    /\ row.checkpoint.version <= version[row.ino]
    /\ Lives(row.ino, row.version) => row.digest \subseteq {Now(row.ino)}
    /\ Lives(row.ino, row.checkpoint.version) => row.checkpoint.fed \subseteq {Now(row.ino)}

HonestRows(rows) == \A i \in DOMAIN rows : HonestRow(rows[i])

HonestJob(job) ==
    Lives(job.ino, job.version) =>
       /\ job.resume \subseteq {Now(job.ino)} /\ job.fed \subseteq {Now(job.ino)}
       /\ job.state = "reading" => job.fd = job.ino

Honest ==
    /\ run.reborn => mistaken
    /\ Trusted => /\ ~Misled
                  /\ HonestRows(disk) /\ HonestRows(batch) /\ HonestRows(Visible)
                  /\ \A job \in jobs : HonestJob(job)

\* UNIQUE(ino, subvol) and UNIQUE(filename).
Unique(rows) ==
    \A i, j \in DOMAIN rows :
       rows[i].ino = rows[j].ino \/ rows[i].name = rows[j].name => i = j

Distinct == Unique(disk) /\ Unique(batch)

\* Each row of next is one of rows, if perhaps without its checkpoint.
Tame(row, other) ==
    /\ other.ino = row.ino /\ other.version = row.version /\ other.digest = row.digest
    /\ other.checkpoint \in {row.checkpoint, NoCheckpoint}

From(rows, next) == \A i \in DOMAIN next : \E j \in DOMAIN rows : Tame(rows[j], next[i])

LEMMA FromChain ==
    ASSUME NEW rows, NEW next, NEW last, From(rows, next), From(next, last)
    PROVE  From(rows, last)
BY DEF From, Tame

LEMMA FromHonest ==
    ASSUME Types, NEW rows, IsRows(rows), NEW next, From(rows, next), HonestRows(rows)
    PROVE  HonestRows(next)
<1>. SUFFICES ASSUME NEW i \in DOMAIN next PROVE HonestRow(next[i])
  BY DEF HonestRows
<1>1. PICK j \in DOMAIN rows : Tame(rows[j], next[i])
  BY DEF From
<1>2. rows[j] \in Row /\ HonestRow(rows[j])
  BY RowsAre DEF HonestRows
<1>3. version[rows[j].ino] \in Nat
  BY <1>2 DEF Types, Row
<1>4. NoCheckpoint.version = 0 /\ NoCheckpoint.fed = {}
  BY DEF NoCheckpoint
<1>. QED BY <1>1, <1>2, <1>3, <1>4 DEF Tame, HonestRow

LEMMA StatementsBear ==
    ASSUME NEW rows, IsRows(rows), NEW id \in Nat
    PROVE  /\ From(rows, rows)
           /\ From(rows, UpdateDedupeSeq(rows, id))
           /\ From(rows, RemoveCheckpoint(rows, id))
           /\ \A name \in Names : From(rows, RenameFile(rows, id, name))
           /\ \A doomed : From(rows, Without(rows, doomed))
           /\ From(rows, RaiseWatermark(rows))
           /\ From(rows, Renumber(rows))
<1>1. \A i \in DOMAIN rows : rows[i] \in Row
  BY RowsAre
<1>2. From(rows, rows)
  BY DEF From, Tame
<1>3. From(rows, UpdateDedupeSeq(rows, id))
  <2>1. PICK next : next = UpdateDedupeSeq(rows, id)
    OBVIOUS
  <2>2. /\ DOMAIN next = DOMAIN rows
        /\ \A i \in DOMAIN rows :
              next[i] = IF i = id THEN [rows[i] EXCEPT !.fresh = TRUE] ELSE rows[i]
    BY <2>1, UpdateDedupeSeqIs
  <2>3. \A i \in DOMAIN rows : Tame(rows[i], next[i])
    BY <1>1, <2>2 DEF Tame, Row
  <2>. QED BY <2>1, <2>2, <2>3 DEF From
<1>4. From(rows, RemoveCheckpoint(rows, id))
  <2>1. PICK next : next = RemoveCheckpoint(rows, id)
    OBVIOUS
  <2>2. /\ DOMAIN next = DOMAIN rows
        /\ \A i \in DOMAIN rows :
              next[i] = IF i = id THEN WithCheckpoint(rows[i], NoCheckpoint) ELSE rows[i]
    BY <2>1, RemoveCheckpointIs
  <2>3. \A i \in DOMAIN rows : Tame(rows[i], next[i])
    BY <1>1, <2>2 DEF Tame, Row, WithCheckpoint
  <2>. QED BY <2>1, <2>2, <2>3 DEF From
<1>5. ASSUME NEW name \in Names PROVE From(rows, RenameFile(rows, id, name))
  <2>0. /\ DOMAIN RenameFile(rows, id, name) \subseteq DOMAIN rows
        /\ \A i \in DOMAIN RenameFile(rows, id, name) :
              RenameFile(rows, id, name)[i] = IF i = id THEN WithName(rows[i], name) ELSE rows[i]
    BY RenameFileIs
  <2>1. PICK next : next = RenameFile(rows, id, name)
    OBVIOUS
  <2>2. /\ DOMAIN next \subseteq DOMAIN rows
        /\ \A i \in DOMAIN next :
              next[i] = IF i = id THEN WithName(rows[i], name) ELSE rows[i]
    BY <2>0, <2>1
  <2>3. \A i \in DOMAIN next : i \in DOMAIN rows /\ Tame(rows[i], next[i])
    BY <1>1, <2>2 DEF Tame, Row, WithName
  <2>. QED BY <2>1, <2>3 DEF From
<1>6. ASSUME NEW doomed PROVE From(rows, Without(rows, doomed))
  <2>1. PICK next : next = Without(rows, doomed)
    OBVIOUS
  <2>2. /\ DOMAIN Without(rows, doomed) = DOMAIN rows \ doomed
        /\ \A i \in DOMAIN rows \ doomed : Without(rows, doomed)[i] = rows[i]
    BY WithoutIs
  <2>3. \A i \in DOMAIN next : i \in DOMAIN rows /\ Tame(rows[i], next[i])
    BY <2>1, <2>2 DEF Tame
  <2>. QED BY <2>1, <2>3 DEF From
<1>7. From(rows, RaiseWatermark(rows))
  <2>1. PICK next : next = RaiseWatermark(rows)
    OBVIOUS
  <2>2. next = [i \in DOMAIN rows |-> [rows[i] EXCEPT !.fresh = FALSE]]
    BY <2>1 DEF RaiseWatermark
  <2>3. \A i \in DOMAIN next : i \in DOMAIN rows /\ Tame(rows[i], next[i])
    BY <1>1, <2>2 DEF Tame, Row
  <2>. QED BY <2>1, <2>3 DEF From
<1>8. From(rows, Renumber(rows))
  <2>1. PICK low \in Nat \ {0} : \A i \in DOMAIN Renumber(rows) :
           i + low - 1 \in DOMAIN rows /\ Renumber(rows)[i] = rows[i + low - 1]
    BY RenumberIs
  <2>. QED BY <2>1 DEF From, Tame
<1>. QED BY <1>2, <1>3, <1>4, <1>5, <1>6, <1>7, <1>8

LEMMA StatementsKeepUnique ==
    ASSUME NEW rows, IsRows(rows), Unique(rows)
    PROVE  /\ \A next : SameIds(rows, next) => Unique(next)
           /\ \A doomed : Unique(Without(rows, doomed))
           /\ Unique(RaiseWatermark(rows)) /\ Unique(Renumber(rows))
<1>1. \A i \in DOMAIN rows : rows[i] \in Row
  BY RowsAre
<1>2. \A next : SameIds(rows, next) => Unique(next)
  BY DEF SameIds, Unique
<1>3. ASSUME NEW doomed PROVE Unique(Without(rows, doomed))
  <2>1. /\ DOMAIN Without(rows, doomed) = DOMAIN rows \ doomed
        /\ \A i \in DOMAIN rows \ doomed : Without(rows, doomed)[i] = rows[i]
    BY WithoutIs
  <2>. QED BY <2>1 DEF Unique
<1>4. Unique(RaiseWatermark(rows))
  <2>1. PICK next : next = RaiseWatermark(rows)
    OBVIOUS
  <2>2. next = [i \in DOMAIN rows |-> [rows[i] EXCEPT !.fresh = FALSE]]
    BY <2>1 DEF RaiseWatermark
  <2>3. SameIds(rows, next)
    BY <1>1, <2>2 DEF SameIds, Row
  <2>. QED BY <1>2, <2>1, <2>3
<1>5. Unique(Renumber(rows))
  <2>1. PICK low \in Nat \ {0} :
           /\ DOMAIN Renumber(rows) = {j - low + 1 : j \in DOMAIN rows}
           /\ \A i \in DOMAIN Renumber(rows) :
                 i + low - 1 \in DOMAIN rows /\ Renumber(rows)[i] = rows[i + low - 1]
    BY RenumberIs
  <2>2. DOMAIN Renumber(rows) \subseteq Int
    BY <2>1, RowsAre
  <2>3. ASSUME NEW i \in DOMAIN Renumber(rows), NEW j \in DOMAIN Renumber(rows),
               \/ Renumber(rows)[i].ino = Renumber(rows)[j].ino
               \/ Renumber(rows)[i].name = Renumber(rows)[j].name
        PROVE  i = j
    <3>1. PICK p, q : p = i + low - 1 /\ q = j + low - 1
      OBVIOUS
    <3>2. /\ p \in DOMAIN rows /\ Renumber(rows)[i] = rows[p]
          /\ q \in DOMAIN rows /\ Renumber(rows)[j] = rows[q]
      BY <2>1, <3>1
    <3>3. p = q
      BY <2>3, <3>2 DEF Unique
    <3>4. i \in Int /\ j \in Int /\ low \in Int
      BY <2>1, <2>2
    <3>. QED BY <3>1, <3>3, <3>4
  <2>. QED BY <2>3 DEF Unique
<1>. QED BY <1>2, <1>3, <1>4, <1>5

LEMMA RenameUnique ==
    ASSUME NEW rows, IsRows(rows), Unique(rows), NEW id \in Nat, NEW name \in Names
    PROVE  Unique(RenameFile(rows, id, name))
<1>1. CASE id \notin DOMAIN rows
  BY <1>1, RenameFileIs
<1>2. CASE id \in DOMAIN rows
  <2>0. /\ DOMAIN RenameFile(rows, id, name) = DOMAIN rows \ (Named(rows, name) \ {id})
        /\ \A i \in DOMAIN RenameFile(rows, id, name) :
              RenameFile(rows, id, name)[i] = IF i = id THEN WithName(rows[i], name) ELSE rows[i]
    BY <1>2, RenameFileIs
  <2>1. PICK next : next = RenameFile(rows, id, name)
    OBVIOUS
  <2>2. /\ DOMAIN next = DOMAIN rows \ (Named(rows, name) \ {id})
        /\ \A i \in DOMAIN next :
              next[i] = IF i = id THEN WithName(rows[i], name) ELSE rows[i]
    BY <2>0, <2>1
  <2>3. \A i \in DOMAIN rows : rows[i] \in Row
    BY RowsAre
  <2>4. \A i \in DOMAIN next :
           /\ i \in DOMAIN rows /\ next[i].ino = rows[i].ino
           /\ next[i].name = IF i = id THEN name ELSE rows[i].name
           /\ rows[i].name = name => i = id
    BY <2>2, <2>3 DEF WithName, Row, Named
  <2>5. Unique(next)
    BY <2>4 DEF Unique
  <2>. QED BY <2>1, <2>5
<1>. QED BY <1>1, <1>2

LEMMA StoreRows ==
    ASSUME NEW rows, IsRows(rows), NEW item \in Item
    PROVE  /\ Unique(rows) => Unique(StoreFileInfo(rows, item))
           /\ \A i \in DOMAIN StoreFileInfo(rows, item) :
                 \/ StoreFileInfo(rows, item)[i] = NewRow(item)
                 \/ i \in DOMAIN rows /\ StoreFileInfo(rows, item)[i] = rows[i]
<1>0. LET stored == StoreFileInfo(rows, item)
          doomed == Named(rows, item.name) \cup OfFile(rows, item.ino)
      IN  /\ DOMAIN stored = (DOMAIN rows \ doomed) \cup {NewId(rows)}
          /\ stored[NewId(rows)] = NewRow(item)
          /\ \A i \in DOMAIN rows \ doomed : stored[i] = rows[i]
  BY StoreFileInfoIs
<1>1. PICK next, new : next = StoreFileInfo(rows, item) /\ new = NewId(rows)
  OBVIOUS
<1>2. LET doomed == Named(rows, item.name) \cup OfFile(rows, item.ino)
      IN  /\ DOMAIN next = (DOMAIN rows \ doomed) \cup {new}
          /\ next[new] = NewRow(item)
          /\ \A i \in DOMAIN rows \ doomed : next[i] = rows[i]
  BY <1>0, <1>1
<1>3. /\ next[new].ino = item.ino /\ next[new].name = item.name
      /\ \A i \in DOMAIN next : i # new =>
            /\ i \in DOMAIN rows /\ next[i] = rows[i]
            /\ rows[i].name # item.name /\ rows[i].ino # item.ino
  BY <1>2 DEF NewRow, Named, OfFile
<1>4. Unique(rows) => Unique(next)
  BY <1>3 DEF Unique
<1>. QED BY <1>1, <1>2, <1>3, <1>4

\* A row that is stored is new, or is one that was there.
LEMMA StoreFileRowRows ==
    ASSUME Types, NEW item \in fileq, StoreFileRow(item)
    PROVE  /\ \A i \in DOMAIN batch' :
                 batch'[i] = NewRow(item) \/ \E j \in DOMAIN batch : Tame(batch[j], batch'[i])
           /\ Unique(batch) => Unique(batch')
           /\ \/ disk' \in {disk, batch'}
              \/ From(batch, disk') /\ (Unique(batch) => Unique(disk'))
<1>. DEFINE old == IF Described(item) = {} THEN 0
                   ELSE CHOOSE id \in Described(item) : TRUE
            dropped == old # 0 /\ CheckpointAsked(old, item)
            asked == IF dropped THEN RemoveCheckpoint(batch, old) ELSE batch
            named == IF old # 0 /\ Renamed(old, item)
                     THEN RenameFile(asked, old, item.name) ELSE asked
            stored == StoreFileInfo(named, item)
<1>1. batch' \in {stored, asked} /\ disk' \in {disk, batch', asked}
  BY DEF StoreFileRow, EndUnit
<1>2. IsRows(batch) /\ item \in Item /\ item.name \in Names
  BY DEF Types, Item
<1>3. old \in Nat
  BY DescribedIs
<1>. HIDE DEF old
<1>4. IsRows(asked) /\ From(batch, asked) /\ (Unique(batch) => Unique(asked))
  <2>0. asked \in {batch, RemoveCheckpoint(batch, old)}
    OBVIOUS
  <2>. HIDE DEF asked
  <2>1. SameIds(batch, RemoveCheckpoint(batch, old)) /\ IsRows(RemoveCheckpoint(batch, old))
    BY <1>2, <1>3, StatementsKeepIds, RemoveCheckpointIs
  <2>2. From(batch, batch) /\ From(batch, RemoveCheckpoint(batch, old))
    BY <1>2, <1>3, StatementsBear
  <2>3. Unique(batch) => Unique(RemoveCheckpoint(batch, old))
    BY <1>2, <2>1, StatementsKeepUnique
  <2>. QED BY <1>2, <2>0, <2>1, <2>2, <2>3
<1>. HIDE DEF asked
<1>5. IsRows(named) /\ From(asked, named) /\ (Unique(asked) => Unique(named))
  <2>0. named \in {asked, RenameFile(asked, old, item.name)}
    OBVIOUS
  <2>. HIDE DEF named
  <2>1. From(asked, asked) /\ From(asked, RenameFile(asked, old, item.name))
    BY <1>2, <1>3, <1>4, StatementsBear
  <2>2. IsRows(RenameFile(asked, old, item.name))
    BY <1>2, <1>3, <1>4, RenameFileIs
  <2>3. Unique(asked) => Unique(RenameFile(asked, old, item.name))
    BY <1>2, <1>3, <1>4, RenameUnique
  <2>. QED BY <1>4, <2>0, <2>1, <2>2, <2>3
<1>. HIDE DEF named
<1>6. From(batch, named)
  BY <1>4, <1>5, FromChain
<1>7. /\ Unique(named) => Unique(stored)
      /\ \A i \in DOMAIN stored :
            stored[i] = NewRow(item) \/ (i \in DOMAIN named /\ stored[i] = named[i])
  BY <1>2, <1>5, StoreRows
<1>. HIDE DEF stored
<1>. QED BY <1>1, <1>4, <1>5, <1>6, <1>7 DEF From

LEMMA HonestSame ==
    ASSUME UNCHANGED <<tree, version>>
    PROVE  /\ \A row : HonestRow(row)' <=> HonestRow(row)
           /\ \A job : HonestJob(job)' <=> HonestJob(job)
BY DEF HonestRow, HonestJob, Lives, Exists, Holds, Now

\* What is visible after a step that leaves the snapshot open was so before.
Sees ==
    \/ Visible' = disk'
    \/ \A id \in DOMAIN Visible' : id \in DOMAIN Visible /\ Visible'[id] = Visible[id]

\* A step that leaves the tree alone.
LEMMA SoundStep ==
    ASSUME Honest, Distinct, UNCHANGED <<tree, version, mistaken>>, calm' => calm,
           run'.reborn => run.reborn, Sees,
           disk' \in {disk, batch, batch'} \/ (Unique(disk') /\ (Trusted => HonestRows(disk'))),
           \A it \in fileq' \cup jobs' :
              \/ \E old \in fileq \cup jobs : old.name = it.name /\ old.ino = it.ino
              \/ tree[it.name] = it.ino,
           Trusted => HonestRows(batch') /\ \A job \in jobs' : HonestJob(job),
           Unique(batch')
    PROVE  Honest' /\ Distinct'
<1>1. Distinct'
  BY DEF Distinct, Unique
<1>2. ~Misled => ~Misled'
  BY DEF Misled, Exists, Holds
<1>3. ASSUME Trusted'
      PROVE  (~Misled /\ HonestRows(disk) /\ HonestRows(batch) /\ HonestRows(Visible)
              /\ \A job \in jobs : HonestJob(job))'
  <2>1. /\ Trusted /\ ~Misled
        /\ HonestRows(disk) /\ HonestRows(batch) /\ HonestRows(Visible)
    BY <1>3 DEF Trusted, Honest
  <2>2. HonestRows(disk') /\ HonestRows(batch') /\ \A job \in jobs' : HonestJob(job)
    BY <2>1
  <2>3. PICK seen : seen = Visible'
    OBVIOUS
  <2>4. HonestRows(seen)
    BY <2>1, <2>2, <2>3 DEF Sees, HonestRows
  <2>5. HonestRows(disk)' /\ HonestRows(batch)' /\ \A job \in jobs' : HonestJob(job)'
    BY <2>2, HonestSame DEF HonestRows
  <2>6. HonestRows(Visible)'
    BY <2>3, <2>4, HonestSame DEF HonestRows
  <2>. QED BY <1>2, <2>1, <2>5, <2>6
<1>4. run'.reborn => mistaken'
  BY DEF Honest
<1>. QED BY <1>1, <1>3, <1>4 DEF Honest

\* The steps that write no row of their own.
LEMMA SoundPassed ==
    ASSUME Types, Due, Owned, Honest, Distinct,
           \/ Kill \/ Signal \/ BatchLost \/ Flush \/ ListingDone \/ ScanDone \/ PruneCollect
           \/ \E name \in Names : WalkName(name)
           \/ \E item \in fileq : PassOver(item) \/ LeaveAlone(item)
           \/ \E job \in jobs : DropJob(job) \/ GiveUp(job)
    PROVE  Honest' /\ Distinct'
<1>0. run \in Run /\ NoSnap.open = FALSE
  BY NoSnapIs DEF Types
<1>1. /\ UNCHANGED <<tree, version, calm, mistaken>> /\ jobs' \subseteq jobs
      /\ disk' \in {disk, batch} /\ batch' \in {disk, batch}
  <2>1. CASE Kill \/ ScanDone
    BY <2>1 DEF Kill, ScanDone
  <2>2. CASE Signal \/ BatchLost
    BY <2>2 DEF Signal, BatchLost, Halt
  <2>3. CASE Flush \/ ListingDone \/ PruneCollect \/ \E name \in Names : WalkName(name)
    BY <2>3 DEF Flush, ListingDone, PruneCollect, WalkName
  <2>4. CASE \E item \in fileq : PassOver(item) \/ LeaveAlone(item)
    BY <2>4 DEF PassOver, LeaveAlone, Scans
  <2>5. CASE \E job \in jobs : DropJob(job) \/ GiveUp(job)
    BY <2>5 DEF DropJob, GiveUp, Drop
  <2>. QED BY <2>1, <2>2, <2>3, <2>4, <2>5
<1>2. run'.reborn => run.reborn
  <2>1. CASE Kill \/ ScanDone
    BY <1>0, <2>1 DEF Kill, ScanDone, Idle, Run
  <2>2. CASE Signal \/ BatchLost
    BY <2>2 DEF Signal, BatchLost, Halt, Idle
  <2>3. CASE Flush \/ ListingDone \/ PruneCollect \/ \E name \in Names : WalkName(name)
    BY <1>0, <2>3 DEF Flush, ListingDone, PruneCollect, WalkName, Run
  <2>4. CASE \E item \in fileq : PassOver(item) \/ LeaveAlone(item)
    <3>1. \/ run' = run
          \/ \E id : run' = [run EXCEPT !.seenIds = @ \cup {id}]
      BY <2>4 DEF PassOver, LeaveAlone
    <3>. QED BY <1>0, <3>1 DEF Run
  <2>5. CASE \E job \in jobs : DropJob(job) \/ GiveUp(job)
    BY <1>0, <2>5 DEF DropJob, GiveUp, Run
  <2>. QED BY <2>1, <2>2, <2>3, <2>4, <2>5
<1>3. ASSUME NEW item \in fileq' PROVE item \in fileq \/ tree[item.name] = item.ino
  <2>1. CASE \E name \in Names : WalkName(name)
    BY <2>1 DEF WalkName, Stat
  <2>2. CASE Kill \/ Signal \/ BatchLost \/ Flush \/ ListingDone \/ ScanDone \/ PruneCollect
    BY <2>2 DEF Kill, Signal, BatchLost, Halt, Flush, ListingDone, ScanDone, PruneCollect
  <2>3. CASE \E other \in fileq : PassOver(other) \/ LeaveAlone(other)
    BY <2>3 DEF PassOver, LeaveAlone, Scans, Pops
  <2>4. CASE \E job \in jobs : DropJob(job) \/ GiveUp(job)
    BY <2>4 DEF DropJob, GiveUp
  <2>. QED BY <2>1, <2>2, <2>3, <2>4
<1>4. Sees
  <2>1. CASE Kill \/ Signal \/ BatchLost \/ Flush \/ ListingDone
    <3>1. snap' = NoSnap
      BY <2>1 DEF Kill, Signal, BatchLost, Halt, Flush, ListingDone
    <3>. QED BY <1>0, <3>1 DEF Sees, Visible
  <2>2. CASE ScanDone \/ PruneCollect
    <3>1. run.phase # "listing" /\ UNCHANGED snap
      BY <2>2 DEF ScanDone, PruneCollect
    <3>. QED BY <3>1 DEF Sees, Visible, Owned
  <2>3. CASE \/ \E name \in Names : WalkName(name)
             \/ \E item \in fileq : PassOver(item)
             \/ \E job \in jobs : DropJob(job) \/ GiveUp(job)
    <3>1. UNCHANGED <<snap, disk>>
      BY <2>3 DEF WalkName, PassOver, DropJob, GiveUp
    <3>. QED BY <3>1 DEF Sees, Visible
  <2>4. CASE \E item \in fileq : LeaveAlone(item)
    <3>1. Tick
      BY <2>4 DEF LeaveAlone
    <3>. QED BY <3>1, TickSees DEF Sees
  <2>. QED BY <2>1, <2>2, <2>3, <2>4
<1>5. Unique(batch') /\ (Trusted => HonestRows(batch') /\ \A job \in jobs' : HonestJob(job))
  BY <1>1 DEF Honest, Distinct
<1>. QED BY <1>1, <1>2, <1>3, <1>4, <1>5, SoundStep

\* The steps that rewrite the rows as a whole.
LEMMA SoundRewritten ==
    ASSUME Types, Owned, Honest, Distinct, Start \/ PruneDelete
    PROVE  Honest' /\ Distinct'
<1>1. /\ UNCHANGED <<tree, version, mistaken, snap, jobs>>
      /\ calm' => calm
      /\ run.phase # "listing" /\ batch' = disk' /\ ~run'.reborn
  <2>1. CASE Start
    <3>1. PICK roots : run' = [Idle(FALSE, TRUE) EXCEPT !.phase = "listing", !.roots = roots]
      BY <2>1 DEF Start
    <3>2. ~run'.reborn
      BY <3>1 DEF Idle
    <3>. QED BY <2>1, <3>2 DEF Start
  <2>2. CASE PruneDelete
    BY <2>2 DEF PruneDelete, Idle
  <2>. QED BY <2>1, <2>2
<1>3. ASSUME NEW item \in fileq' PROVE item \in fileq \/ tree[item.name] = item.ino
  <2>1. CASE Start
    <3>1. PICK roots \in Roots : item \in Seeds(disk', roots)
      BY <1>3, <2>1 DEF Start
    <3>. QED BY <3>1 DEF Seeds, Stat
  <2>2. CASE PruneDelete
    BY <1>3, <2>2 DEF PruneDelete
  <2>. QED BY <2>1, <2>2
<1>4. From(disk, disk') /\ Unique(disk')
  <2>0. IsRows(disk) /\ Unique(disk)
    BY DEF Types, Distinct
  <2>1. \A doomed : /\ IsRows(Without(disk, doomed)) /\ From(disk, Without(disk, doomed))
                    /\ Unique(Without(disk, doomed))
    BY <2>0, WithoutIs, StatementsBear, StatementsKeepUnique
  <2>2. CASE Start
    <3>1. PICK rest : rest = PruneUnscanned(disk)
      OBVIOUS
    <3>2. IsRows(rest) /\ From(disk, rest) /\ Unique(rest)
      BY <2>1, <3>1 DEF PruneUnscanned
    <3>3. disk' = Renumber(rest)
      BY <2>2, <3>1 DEF Start
    <3>4. From(rest, disk') /\ Unique(disk')
      BY <3>2, <3>3, StatementsBear, StatementsKeepUnique
    <3>. QED BY <3>2, <3>4, FromChain
  <2>3. CASE PruneDelete
    <3>1. PICK rest : rest = Without(disk, gone)
      OBVIOUS
    <3>2. IsRows(rest) /\ From(disk, rest) /\ Unique(rest)
      BY <2>1, <3>1
    <3>3. disk' = RaiseWatermark(rest)
      BY <2>3, <3>1 DEF PruneDelete
    <3>4. From(rest, disk') /\ Unique(disk')
      BY <3>2, <3>3, StatementsBear, StatementsKeepUnique
    <3>. QED BY <3>2, <3>4, FromChain
  <2>. QED BY <2>2, <2>3
<1>5. ASSUME Trusted PROVE HonestRows(batch') /\ \A job \in jobs' : HonestJob(job)
  <2>1. HonestRows(disk) /\ IsRows(disk) /\ \A job \in jobs : HonestJob(job)
    BY <1>5 DEF Honest, Types
  <2>2. HonestRows(disk')
    BY <1>4, <2>1, FromHonest
  <2>. QED BY <1>1, <2>1, <2>2
<1>6. ~snap'.open
  BY <1>1 DEF Owned
<1>7. Sees
  BY <1>6 DEF Sees, Visible
<1>. QED BY <1>1, <1>7, <1>3, <1>4, <1>5, <1>6, SoundStep

LEMMA NewRowHonest ==
    ASSUME Types, Owned, NEW item \in fileq PROVE HonestRow(NewRow(item))
<1>1. /\ item.ino \in Files /\ item.version \in Nat /\ version[item.ino] \in Nat
      /\ item.version <= version[item.ino]
  BY DEF Types, Owned, Older, Item
<1>2. /\ NewRow(item).ino = item.ino /\ NewRow(item).version = item.version
      /\ NewRow(item).digest = {} /\ NewRow(item).checkpoint.version = 0
      /\ NewRow(item).checkpoint.fed = {}
  BY DEF NewRow, NoCheckpoint
<1>. QED BY <1>1, <1>2 DEF HonestRow

\* What a row's checkpoint was fed is carried on with if it is of the version
\* that the file has.
LEMMA SoundQueued ==
    ASSUME Types, Owned, Honest, Distinct, NEW item \in fileq,
           ResumeScan(item) \/ StoreFileRow(item)
    PROVE  Honest' /\ Distinct'
<1>1. /\ UNCHANGED <<tree, version, mistaken, calm>> /\ fileq' \subseteq fileq /\ Tick
  BY DEF ResumeScan, StoreFileRow, Scans, Pops
<1>2. Sees
  BY <1>1, TickSees DEF Sees
<1>3. IsRows(batch) /\ run \in Run /\ Unique(batch) /\ item \in Item
  BY DEF Types, Distinct
<1>4. CASE ResumeScan(item)
  <2>1. PICK id \in Described(item), late \in BOOLEAN :
           /\ CheckpointUsable(id, item)
           /\ EndUnit(IF late THEN batch ELSE UpdateDedupeSeq(batch, id))
           /\ Queue(item, id, Visible[id].checkpoint.fed, late)
    BY <1>4 DEF ResumeScan
  <2>2. id \in Nat /\ id \in DOMAIN Visible /\ Visible[id].ino = item.ino
    BY DescribedIs
  <2>3. batch' \in {batch, UpdateDedupeSeq(batch, id)} /\ disk' \in {disk, batch'}
    BY <2>1 DEF EndUnit
  <2>4. From(batch, batch') /\ SameIds(batch, batch')
    <3>1. From(batch, batch) /\ SameIds(batch, batch)
      BY <1>3, StatementsBear DEF SameIds
    <3>. QED BY <1>3, <2>2, <2>3, <3>1, StatementsBear, StatementsKeepIds
  <2>5. Unique(batch')
    BY <1>3, <2>4, StatementsKeepUnique
  <2>6. run'.reborn = run.reborn
    <3>1. run' = [run EXCEPT !.seenIds = @ \cup {id}, !.seenInodes = @ \cup {item.ino}]
      BY <2>1 DEF Queue
    <3>. QED BY <1>3, <3>1 DEF Run
  <2>7. PICK new : /\ jobs' = jobs \cup {new}
                   /\ new.name = item.name /\ new.ino = item.ino
                   /\ new.version = item.version /\ new.state = "queued"
                   /\ new.resume = Visible[id].checkpoint.fed /\ new.fed = {}
    <3>. DEFINE new == [id |-> id, name |-> item.name, ino |-> item.ino,
                        version |-> item.version, resume |-> Visible[id].checkpoint.fed,
                        state |-> "queued", fd |-> NoFile, fed |-> {},
                        checkpointed |-> Visible[id].checkpoint.fed # {}, late |-> late]
    <3>1. jobs' = jobs \cup {new}
      BY <2>1 DEF Queue
    <3>2. /\ new.name = item.name /\ new.ino = item.ino
          /\ new.version = item.version /\ new.state = "queued"
          /\ new.resume = Visible[id].checkpoint.fed /\ new.fed = {}
      OBVIOUS
    <3>. HIDE DEF new
    <3>. QED BY <3>1, <3>2
  <2>8. ASSUME Trusted PROVE HonestRows(batch') /\ \A job \in jobs' : HonestJob(job)
    <3>1. HonestRows(batch) /\ HonestRow(Visible[id]) /\ \A job \in jobs : HonestJob(job)
      BY <2>2, <2>8 DEF Honest, HonestRows
    <3>2. HonestRows(batch')
      BY <1>3, <2>4, <3>1, FromHonest
    <3>3. Visible[id].checkpoint.version = item.version
      BY <2>1 DEF CheckpointUsable
    <3>4. HonestJob(new)
      BY <2>2, <2>7, <3>1, <3>3 DEF HonestRow, HonestJob
    <3>. QED BY <2>7, <3>1, <3>2, <3>4
  <2>9. \A it \in fileq' \cup jobs' :
           \E old \in fileq \cup jobs : old.name = it.name /\ old.ino = it.ino
    BY <1>1, <2>7
  <2>. QED BY <1>1, <1>2, <2>3, <2>5, <2>6, <2>8, <2>9, SoundStep
<1>5. CASE StoreFileRow(item)
  <2>1. \/ disk' \in {disk, batch'}
        \/ Unique(disk') /\ (Trusted => HonestRows(disk'))
    <3>1. \/ disk' \in {disk, batch'}
          \/ From(batch, disk') /\ (Unique(batch) => Unique(disk'))
      BY <1>5, StoreFileRowRows
    <3>2. Unique(batch) /\ (Trusted => HonestRows(batch))
      BY <1>3 DEF Honest
    <3>. QED BY <1>3, <3>1, <3>2, FromHonest
  <2>2. Unique(batch')
    BY <1>3, <1>5, StoreFileRowRows
  <2>3. /\ run'.reborn = run.reborn
        /\ \A job \in jobs' : \/ job \in jobs
                              \/ /\ job.name = item.name /\ job.ino = item.ino
                                 /\ job.state = "queued" /\ job.resume = {} /\ job.fed = {}
    <3>1. \/ run' = [run EXCEPT !.missed = TRUE] /\ UNCHANGED jobs
          \/ \E new \in Nat : Queue(item, new, {}, FALSE)
      BY <1>5, StoreFileRowIs
    <3>2. CASE run' = [run EXCEPT !.missed = TRUE] /\ UNCHANGED jobs
      BY <1>3, <3>2 DEF Run
    <3>3. CASE \E new \in Nat : Queue(item, new, {}, FALSE)
      <4>1. PICK new \in Nat : Queue(item, new, {}, FALSE)
        BY <3>3
      <4>2. run' = [run EXCEPT !.seenIds = @ \cup {new}, !.seenInodes = @ \cup {item.ino}]
        BY <4>1 DEF Queue
      <4>3. run'.reborn = run.reborn
        BY <1>3, <4>2 DEF Run
      <4>. QED BY <4>1, <4>3 DEF Queue
    <3>. QED BY <3>1, <3>2, <3>3
  <2>4. ASSUME Trusted PROVE HonestRows(batch') /\ \A job \in jobs' : HonestJob(job)
    <3>1. HonestRows(batch) /\ \A job \in jobs : HonestJob(job)
      BY <2>4 DEF Honest
    <3>2. ASSUME NEW i \in DOMAIN batch' PROVE HonestRow(batch'[i])
      <4>1. CASE batch'[i] = NewRow(item)
        BY <4>1, NewRowHonest
      <4>2. CASE \E j \in DOMAIN batch : Tame(batch[j], batch'[i])
        <5>1. PICK j \in DOMAIN batch : Tame(batch[j], batch'[i])
          BY <4>2
        <5>. DEFINE one == [x \in {i} |-> batch'[i]]
        <5>2. From(batch, one)
          BY <5>1 DEF From
        <5>3. HonestRows(one)
          BY <1>3, <3>1, <5>2, FromHonest
        <5>. QED BY <5>3 DEF HonestRows
      <4>. QED BY <1>5, <4>1, <4>2, StoreFileRowRows
    <3>3. \A job \in jobs' : HonestJob(job)
      BY <2>3, <3>1 DEF HonestJob
    <3>. QED BY <3>2, <3>3 DEF HonestRows
  <2>5. \A it \in fileq' \cup jobs' :
           \E old \in fileq \cup jobs : old.name = it.name /\ old.ino = it.ino
    BY <1>1, <2>3
  <2>. QED BY <1>1, <1>2, <2>1, <2>2, <2>3, <2>4, <2>5, SoundStep
<1>. QED BY <1>4, <1>5

\* What is opened for a request is its file, and is hashed as such.
LEMMA SoundOpened ==
    ASSUME Types, Owned, Honest, Distinct, NEW job \in jobs, OpenJob(job)
    PROVE  Honest' /\ Distinct'
<1>. DEFINE open == [job EXCEPT !.state = "reading", !.fd = tree[job.name], !.resume = {}]
            resumed == [open EXCEPT !.fed = job.resume]
            anew == [open EXCEPT !.checkpointed = FALSE]
<1>1. /\ \/ /\ Becomes(job, resumed)
            /\ UNCHANGED <<disk, batch>>
         \/ /\ Becomes(job, anew)
            /\ EndUnit(RemoveCheckpoint(batch, job.id))
      /\ tree[job.name] # NoFile
      /\ UNCHANGED <<tree, version, snap, run, fileq, calm, mistaken>>
  BY DEF OpenJob
<1>2. job \in Job /\ job.id \in Nat /\ IsRows(batch)
  BY DEF Types, Job
<1>3. PICK next : /\ jobs' = (jobs \ {job}) \cup {next}
                  /\ next.name = job.name /\ next.ino = job.ino /\ next.version = job.version
                  /\ next.fd = tree[job.name] /\ next.resume = {}
                  /\ next.fed \in {job.resume, job.fed}
  <2>1. \A next \in {resumed, anew} :
           /\ next.name = job.name /\ next.ino = job.ino /\ next.version = job.version
           /\ next.fd = tree[job.name] /\ next.resume = {} /\ next.fed \in {job.resume, job.fed}
    BY <1>2 DEF Job
  <2>2. jobs' = (jobs \ {job}) \cup {resumed} \/ jobs' = (jobs \ {job}) \cup {anew}
    BY <1>1 DEF Becomes
  <2>. HIDE DEF resumed, anew
  <2>. QED BY <2>1, <2>2
<1>4. From(batch, batch') /\ SameIds(batch, batch') /\ disk' \in {disk, batch'}
  <2>1. batch' \in {batch, RemoveCheckpoint(batch, job.id)} /\ disk' \in {disk, batch'}
    BY <1>1 DEF EndUnit
  <2>. QED BY <1>2, <2>1, StatementsBear, StatementsKeepIds
<1>5. Unique(batch')
  BY <1>2, <1>4, StatementsKeepUnique DEF Distinct
<1>6. ASSUME Trusted PROVE HonestRows(batch') /\ \A other \in jobs' : HonestJob(other)
  <2>1. HonestRows(batch) /\ ~Misled /\ \A other \in jobs : HonestJob(other)
    BY <1>6 DEF Honest
  <2>2. HonestRows(batch')
    BY <1>2, <1>4, <2>1, FromHonest
  <2>3. Exists(job.ino) => tree[job.name] = job.ino
    BY <1>1, <2>1 DEF Misled
  <2>4. HonestJob(next)
    BY <1>3, <2>1, <2>3 DEF HonestJob, Lives
  <2>. QED BY <1>3, <2>1, <2>2, <2>4
<1>7. Sees
  BY <1>1, <1>4 DEF Sees, Visible
<1>8. \A it \in fileq' \cup jobs' :
         \E old \in fileq \cup jobs : old.name = it.name /\ old.ino = it.ino
  BY <1>1, <1>3
<1>. QED BY <1>1, <1>4, <1>5, <1>6, <1>7, <1>8, SoundStep

\* A worker writes what it was fed to the row of its own file.
LEMMA SoundWritten ==
    ASSUME Types, Owned, Kept, Honest, Distinct, NEW job \in jobs,
           CheckpointJob(job) \/ FinishJob(job)
    PROVE  Honest' /\ Distinct'
<1>1. /\ job.state = "reading" /\ run.halt # "lost"
      /\ UNCHANGED <<tree, version, snap, fileq, calm, mistaken>>
  BY DEF CheckpointJob, FinishJob
<1>2. /\ job \in Job /\ job.id \in Nat /\ IsRows(batch) /\ Unique(batch) /\ run \in Run
      /\ Fed(job) \in Digests /\ \A i \in DOMAIN batch : batch[i] \in Row
  BY <1>1, FedIs, RowsAre DEF Types, Job, Distinct
<1>3. ASSUME Trusted
      PROVE  /\ HonestRows(batch) /\ \A other \in jobs : HonestJob(other)
             /\ Lives(job.ino, job.version) => Fed(job) \subseteq {Now(job.ino)}
             /\ job.version <= version[job.ino]
             /\ job.id \in DOMAIN batch => /\ batch[job.id].ino = job.ino
                                           /\ batch[job.id].version = job.version
  <2>1. Calm /\ HonestRows(batch) /\ \A other \in jobs : HonestJob(other)
    BY <1>3 DEF Honest, Trusted, Calm
  <2>2. Unhashed /\ OwnRows /\ job.version <= version[job.ino]
    BY <1>1, <2>1 DEF Kept, Owned, Older
  <2>3. Lives(job.ino, job.version) => Fed(job) \subseteq {Now(job.ino)}
    BY <1>1, <2>1 DEF HonestJob, Fed
  <2>. QED BY <2>1, <2>2, <2>3 DEF Unhashed, OwnRows
<1>4. CASE CheckpointJob(job)
  <2>. DEFINE cp == [version |-> job.version, fed |-> Fed(job)]
              next == [job EXCEPT !.fed = Fed(job), !.checkpointed = TRUE]
  <2>1. /\ job.id \in DOMAIN batch /\ batch' = StoreCheckpoint(batch, job.id, cp)
        /\ disk' = batch' /\ jobs' = (jobs \ {job}) \cup {next} /\ UNCHANGED run
    BY <1>4 DEF CheckpointJob, Becomes
  <2>2. cp \in Checkpoints /\ cp.version = job.version /\ cp.fed = Fed(job)
    BY <1>2 DEF Checkpoints, Job
  <2>3. /\ next.name = job.name /\ next.ino = job.ino /\ next.version = job.version
        /\ next.fd = job.fd /\ next.resume = job.resume /\ next.fed = Fed(job)
        /\ next.state = job.state
    BY <1>2 DEF Job
  <2>. HIDE DEF cp, next
  <2>4. /\ DOMAIN batch' = DOMAIN batch /\ SameIds(batch, batch')
        /\ \A i \in DOMAIN batch :
              batch'[i] = IF i = job.id THEN WithCheckpoint(batch[i], cp) ELSE batch[i]
    BY <1>2, <2>1, <2>2, StoreCheckpointIs, StatementsKeepIds
  <2>5. ASSUME Trusted PROVE HonestRows(batch') /\ \A other \in jobs' : HonestJob(other)
    <3>1. HonestRow(batch'[job.id])
      <4>1. /\ batch'[job.id].ino = job.ino /\ batch'[job.id].version = batch[job.id].version
            /\ batch'[job.id].digest = batch[job.id].digest /\ batch'[job.id].checkpoint = cp
        BY <1>2, <1>3, <2>1, <2>4, <2>5 DEF WithCheckpoint, Row
      <4>2. HonestRow(batch[job.id]) /\ batch[job.id].ino = job.ino
        BY <1>3, <2>1, <2>5 DEF HonestRows
      <4>. QED BY <1>3, <2>2, <2>5, <4>1, <4>2 DEF HonestRow
    <3>2. HonestRows(batch')
      BY <1>3, <2>4, <2>5, <3>1 DEF HonestRows
    <3>3. HonestJob(next)
      BY <1>3, <2>3, <2>5 DEF HonestJob
    <3>. QED BY <1>3, <2>1, <2>5, <3>2, <3>3
  <2>6. Unique(batch')
    BY <1>2, <2>4, StatementsKeepUnique
  <2>7. Sees
    BY <1>1, <2>1 DEF Sees, Visible
  <2>8. \A it \in fileq' \cup jobs' :
           \E old \in fileq \cup jobs : old.name = it.name /\ old.ino = it.ino
    BY <1>1, <2>1, <2>3
  <2>. QED BY <1>1, <2>1, <2>5, <2>6, <2>7, <2>8, SoundStep
<1>5. CASE FinishJob(job)
  <2>. DEFINE plain == IF job.checkpointed THEN RemoveCheckpoint(batch, job.id) ELSE batch
  <2>1. /\ jobs' = jobs \ {job}
        /\ IF job.id \in DOMAIN batch
           THEN EndUnit(UpdateScannedFile(plain, job.id, Fed(job)))
           ELSE UNCHANGED <<disk, batch>>
        /\ run' = [run EXCEPT !.missed = @ \/ job.id \notin DOMAIN batch]
    BY <1>5 DEF FinishJob, Drop
  <2>2. run'.reborn = run.reborn
    BY <1>2, <2>1 DEF Run
  <2>3. IsRows(plain) /\ From(batch, plain) /\ SameIds(batch, plain)
    BY <1>2, RemoveCheckpointIs, StatementsBear, StatementsKeepIds
  <2>. HIDE DEF plain
  <2>4. /\ disk' \in {disk, batch'}
        /\ Unique(batch') /\ (Trusted => HonestRows(batch'))
    <3>1. CASE job.id \notin DOMAIN batch
      BY <1>2, <1>3, <2>1, <3>1
    <3>2. CASE job.id \in DOMAIN batch
      <4>1. batch' = UpdateScannedFile(plain, job.id, Fed(job)) /\ disk' \in {disk, batch'}
        BY <2>1, <3>2 DEF EndUnit
      <4>2. /\ DOMAIN batch' = DOMAIN plain /\ SameIds(plain, batch')
            /\ \A i \in DOMAIN plain :
                  batch'[i] = IF i = job.id THEN WithDigest(plain[i], Fed(job)) ELSE plain[i]
        BY <1>2, <2>3, <4>1, UpdateScannedFileIs, StatementsKeepIds
      <4>3. SameIds(batch, batch')
        BY <2>3, <4>2, SameIdsChain
      <4>4. ASSUME Trusted PROVE HonestRows(batch')
        <5>1. HonestRows(plain)
          BY <1>2, <1>3, <2>3, <4>4, FromHonest
        <5>2. job.id \in DOMAIN plain /\ plain[job.id] \in Row /\ plain[job.id].ino = job.ino
          BY <1>3, <2>3, <3>2, <4>4, RowsAre DEF SameIds
        <5>3. plain[job.id].version = job.version
          <6>1. SameRows(batch, plain)
            BY <1>2, StatementsKeepFacts DEF plain
          <6>. QED BY <1>3, <3>2, <4>4, <6>1 DEF SameRows, SameFacts
        <5>4. /\ batch'[job.id].ino = job.ino /\ batch'[job.id].version = job.version
              /\ batch'[job.id].digest = Fed(job)
              /\ batch'[job.id].checkpoint = plain[job.id].checkpoint
          BY <4>2, <5>2, <5>3 DEF WithDigest, Row
        <5>5. HonestRow(batch'[job.id])
          BY <1>3, <4>4, <5>1, <5>2, <5>4 DEF HonestRows, HonestRow
        <5>. QED BY <4>2, <5>1, <5>5 DEF HonestRows
      <4>. QED BY <1>2, <4>1, <4>3, <4>4, StatementsKeepUnique
    <3>. QED BY <3>1, <3>2
  <2>5. Sees
    <3>1. disk' \in {disk, batch'}
      BY <2>4
    <3>. QED BY <1>1 DEF Sees, Visible
  <2>6. \A it \in fileq' \cup jobs' :
           \E old \in fileq \cup jobs : old.name = it.name /\ old.ino = it.ino
    BY <1>1, <2>1
  <2>7. Trusted => \A other \in jobs' : HonestJob(other)
    BY <1>3, <2>1
  <2>. QED BY <1>1, <2>2, <2>4, <2>5, <2>6, <2>7, SoundStep
<1>. QED BY <1>4, <1>5

\* A file that comes is of a version that no row, checkpoint or request has.
LEMMA SoundChanged ==
    ASSUME Types, Types', Owned, Honest, Distinct, Changed,
           \A file \in Files : /\ version'[file] >= version[file]
                               /\ Exists(file)' /\ ~Exists(file) =>
                                     version'[file] > version[file]
    PROVE  Honest' /\ Distinct'
<1>1. /\ UNCHANGED <<disk, batch, snap, jobs>>
      /\ run' = [run EXCEPT !.quiet = FALSE, !.complete = FALSE, !.reborn = @ \/ Reborn]
      /\ calm' = (calm /\ (run.phase = "idle" \/ ~Displaced(batch)'))
      /\ mistaken' = (mistaken \/ Reborn \/ Misled')
  BY DEF Changed
<1>2. run'.reborn => mistaken'
  <2>1. run \in Run
    BY DEF Types
  <2>2. run'.reborn = (run.reborn \/ Reborn)
    BY <1>1, <2>1 DEF Run
  <2>. QED BY <1>1, <2>2 DEF Honest
<1>3. \A file \in Files : version[file] \in Nat /\ version'[file] \in Nat
  BY DEF Types
<1>4. ASSUME NEW file \in Files, NEW v \in Nat, v <= version[file], Lives(file, v)'
      PROVE  Lives(file, v) /\ Now(file)' = Now(file)
  <2>1. Exists(file)' /\ version'[file] = v
    BY <1>4 DEF Lives
  <2>2. version[file] = v /\ Exists(file)
    BY <1>3, <1>4, <2>1
  <2>. QED BY <2>1, <2>2 DEF Lives, Now
<1>5. ASSUME NEW row \in Row, HonestRow(row) PROVE HonestRow(row)'
  <2>1. /\ row.ino \in Files /\ row.version \in Nat
        /\ row.checkpoint.version \in Nat
    BY DEF Row, Checkpoints
  <2>2. row.version <= version'[row.ino] /\ row.checkpoint.version <= version'[row.ino]
    BY <1>3, <1>5, <2>1 DEF HonestRow
  <2>3. Lives(row.ino, row.version)' => row.digest \subseteq {Now(row.ino)'}
    BY <1>4, <1>5, <2>1 DEF HonestRow
  <2>4. Lives(row.ino, row.checkpoint.version)' =>
           row.checkpoint.fed \subseteq {Now(row.ino)'}
    BY <1>4, <1>5, <2>1 DEF HonestRow
  <2>. QED BY <2>2, <2>3, <2>4 DEF HonestRow
<1>6. ASSUME NEW job \in jobs, HonestJob(job) PROVE HonestJob(job)'
  <2>1. job.ino \in Files /\ job.version \in Nat /\ job.version <= version[job.ino]
    BY DEF Types, Job, Owned, Older
  <2>2. Lives(job.ino, job.version)' =>
           Lives(job.ino, job.version) /\ Now(job.ino)' = Now(job.ino)
    BY <1>4, <2>1
  <2>. QED BY <1>6, <2>2 DEF HonestJob
<1>7. ASSUME NEW rows, IsRows(rows), HonestRows(rows) PROVE HonestRows(rows)'
  BY <1>5, <1>7, RowsAre DEF HonestRows
<1>8. ASSUME Trusted'
      PROVE  (~Misled /\ HonestRows(disk) /\ HonestRows(batch) /\ HonestRows(Visible)
              /\ \A job \in jobs : HonestJob(job))'
  <2>1. Trusted /\ ~Misled'
    BY <1>1, <1>8 DEF Trusted
  <2>2. /\ HonestRows(disk) /\ HonestRows(batch) /\ HonestRows(Visible)
        /\ \A job \in jobs : HonestJob(job)
    BY <2>1 DEF Honest
  <2>3. IsRows(disk) /\ IsRows(batch) /\ IsRows(Visible)
    BY VisibleIs DEF Types
  <2>4. PICK d, b, seen : d = disk /\ b = batch /\ seen = Visible
    OBVIOUS
  <2>5. disk' = d /\ batch' = b /\ Visible' = seen
    BY <1>1, <2>4 DEF Visible
  <2>6. HonestRows(d)' /\ HonestRows(b)' /\ HonestRows(seen)'
    <3>1. IsRows(d) /\ IsRows(b) /\ IsRows(seen)
      BY <2>3, <2>4
    <3>2. HonestRows(d) /\ HonestRows(b) /\ HonestRows(seen)
      BY <2>2, <2>4
    <3>. QED BY <1>7, <3>1, <3>2
  <2>7. HonestRows(disk)' /\ HonestRows(batch)' /\ HonestRows(Visible)'
    BY <2>5, <2>6 DEF HonestRows
  <2>8. \A job \in jobs' : HonestJob(job)'
    BY <1>1, <1>6, <2>2
  <2>. QED BY <2>1, <2>7, <2>8
<1>9. Distinct'
  BY <1>1 DEF Distinct, Unique
<1>. QED BY <1>2, <1>8, <1>9 DEF Honest

LEMMA SoundFileSystem ==
    ASSUME Types, Types', Owned, Honest, Distinct,
           \/ \E file \in Files : Write(file)
           \/ \E name \in Names : \/ Unlink(name)
                                  \/ \E file \in Files : Create(name, file)
                                  \/ \E to \in Names : Link(name, to) \/ Move(name, to)
    PROVE  Honest' /\ Distinct'
<1>1. /\ tree \in [Names -> Files \cup {NoFile}] /\ version \in [Files -> Nat]
      /\ NoFile \notin Files
  BY ListingConstants DEF Types
<1>2. CASE \E file \in Files : Write(file)
  <2>1. PICK file \in Files : Changed /\ UNCHANGED tree /\ version' = [version EXCEPT ![file] = @ + 1]
    BY <1>2 DEF Write
  <2>2. \A f \in Files : /\ version[f] \in Nat /\ version'[f] >= version[f]
                         /\ Exists(f)' <=> Exists(f)
    BY <1>1, <2>1 DEF Exists, Holds
  <2>. QED BY <2>1, <2>2, SoundChanged
<1>3. CASE \E name \in Names : Unlink(name)
  <2>1. PICK name \in Names : Changed /\ UNCHANGED version /\ tree' = [tree EXCEPT ![name] = NoFile]
    BY <1>3 DEF Unlink
  <2>2. \A f \in Files : /\ version[f] \in Nat /\ version'[f] >= version[f]
                         /\ Exists(f)' => Exists(f)
    BY <1>1, <2>1 DEF Exists, Holds
  <2>. QED BY <2>1, <2>2, SoundChanged
<1>4. CASE \E name \in Names, file \in Files : Create(name, file)
  <2>1. PICK name \in Names, file \in Files :
           /\ Changed /\ tree' = [tree EXCEPT ![name] = file]
           /\ version' = [version EXCEPT ![file] = @ + 1]
    BY <1>4 DEF Create
  <2>2. \A f \in Files : version[f] \in Nat /\ version'[f] >= version[f]
    BY <1>1, <2>1
  <2>3. version'[file] > version[file]
    BY <1>1, <2>1, <2>2
  <2>4. \A f \in Files : f # file => (Exists(f)' => Exists(f))
    BY <1>1, <2>1 DEF Exists, Holds
  <2>. QED BY <2>1, <2>2, <2>3, <2>4, SoundChanged
<1>5. CASE \E from, to \in Names : Link(from, to) \/ Move(from, to)
  <2>1. PICK from \in Names, to \in Names :
           /\ Changed /\ UNCHANGED version
           /\ \A n \in Names : tree'[n] \in {NoFile, tree[n], tree[from]}
    <3>1. PICK from \in Names, to \in Names : Link(from, to) \/ Move(from, to)
      BY <1>5
    <3>2. CASE Link(from, to)
      BY <1>1, <3>2 DEF Link
    <3>3. CASE Move(from, to)
      BY <1>1, <3>3 DEF Move
    <3>. QED BY <3>1, <3>2, <3>3
  <2>2. \A f \in Files : /\ version[f] \in Nat /\ version'[f] >= version[f]
                         /\ Exists(f)' => Exists(f)
    BY <1>1, <2>1 DEF Exists, Holds
  <2>. QED BY <2>1, <2>2, SoundChanged
<1>. QED BY <1>2, <1>3, <1>4, <1>5

LEMMA InitSound == Init => Honest /\ Distinct
<1>. SUFFICES ASSUME Init PROVE Honest /\ Distinct
  OBVIOUS
<1>1. /\ DOMAIN disk = {} /\ DOMAIN batch = {} /\ snap.open = FALSE
      /\ ~run.reborn /\ fileq = {} /\ jobs = {}
  BY NoRowsAre, NoSnapIs DEF Init, Idle
<1>2. DOMAIN Visible = {}
  BY <1>1 DEF Visible
<1>. QED BY <1>1, <1>2 DEF Honest, Distinct, Misled, HonestRows, Unique

LEMMA NextSound ==
    Types /\ Types' /\ Due /\ Owned /\ Kept /\ Honest /\ Distinct /\ [Next]_vars =>
       Honest' /\ Distinct'
<1>. SUFFICES ASSUME Types, Types', Due, Owned, Kept, Honest, Distinct, [Next]_vars
              PROVE  Honest' /\ Distinct'
  OBVIOUS
<1>1. CASE UNCHANGED vars
  <2>1. UNCHANGED <<tree, version, calm, mistaken, run, snap, disk, batch, fileq, jobs>>
    BY <1>1 DEF vars
  <2>2. Sees
    BY <2>1 DEF Sees, Visible
  <2>3. Unique(batch') /\ (Trusted => HonestRows(batch') /\ \A job \in jobs' : HonestJob(job))
    BY <2>1 DEF Honest, Distinct
  <2>. QED BY <2>1, <2>2, <2>3, SoundStep
<1>2. CASE \/ \E file \in Files : Write(file)
           \/ \E name \in Names : \/ Unlink(name)
                                  \/ \E file \in Files : Create(name, file)
                                  \/ \E to \in Names : Link(name, to) \/ Move(name, to)
  BY <1>2, SoundFileSystem
<1>3. CASE Start \/ PruneDelete
  BY <1>3, SoundRewritten
<1>4. CASE \/ Kill \/ Signal \/ BatchLost \/ Flush \/ ListingDone \/ ScanDone \/ PruneCollect
           \/ \E name \in Names : WalkName(name)
           \/ \E item \in fileq : PassOver(item) \/ LeaveAlone(item)
           \/ \E job \in jobs : DropJob(job) \/ GiveUp(job)
  BY <1>4, SoundPassed
<1>5. CASE \E item \in fileq : ResumeScan(item) \/ StoreFileRow(item)
  BY <1>5, SoundQueued
<1>6. CASE \E job \in jobs : OpenJob(job)
  BY <1>6, SoundOpened
<1>7. CASE \E job \in jobs : CheckpointJob(job) \/ FinishJob(job)
  BY <1>7, SoundWritten
<1>. QED BY <1>1, <1>2, <1>3, <1>4, <1>5, <1>6, <1>7 DEF Next

-----------------------------------------------------------------------------
(* A run over the whole tree that nothing disturbs settles it.  Each file  *)
(* is read ahead of the consumer, or has a row that says where it is and   *)
(* of which version, and that is hashed or is going to be.                 *)

Undisturbed == Trusted /\ run.quiet /\ ~run.missed /\ run.halt = "no"

\* A row that is True but for its digest.
Placed(row) == tree[row.name] = row.ino /\ row.version = version[row.ino]

Covered(file) ==
    \E i \in DOMAIN batch \cap run.seenIds :
       /\ batch[i].ino = file /\ Placed(batch[i])
       /\ batch[i].digest = {Now(file)} \/ \E job \in jobs : job.id = i

Ahead(file) == Queued(file) \/ \E name \in todo : tree[name] = file

\* The prune leaves rows alone whose ids were seen: they are of files.
SeenLive(rows) == \A i \in DOMAIN rows \cap run.seenIds : Exists(rows[i].ino)

\* Whatever the listing has seen.
Listed ==
    /\ SeenLive(batch)
    /\ \A file \in run.seenInodes : Covered(file)
    /\ run.phase = "listing" => ~Displaced(batch)
    /\ run.roots = Names =>
          \A file \in Files : Exists(file) =>
             Covered(file) \/ (run.phase = "listing" /\ Ahead(file))

\* What is left to prune.
Hashed ==
    /\ SeenLive(disk)
    /\ run.roots = Names =>
          \A file \in Files : Exists(file) =>
             \E i \in DOMAIN disk \cap run.seenIds : disk[i].ino = file /\ True(disk[i])
    /\ run.phase = "delete" =>
          /\ gone \cap run.seenIds = {}
          /\ \A i \in DOMAIN disk : i \notin run.seenIds /\ tree[disk[i].name] = NoFile =>
                i \in gone

Settling ==
    /\ run.complete => run.phase = "idle"
    /\ run.phase \in {"prune", "delete"} => run.halt = "no"
    /\ Undisturbed /\ Scanning => Listed
    /\ Undisturbed /\ run.phase \in {"prune", "delete"} => Hashed
    /\ Settled

LEMMA CoveredStays ==
    ASSUME UNCHANGED <<tree, version>>, run.seenIds \subseteq run'.seenIds,
           NEW file, Covered(file),
           \A i \in DOMAIN batch : batch[i].ino = file /\ Placed(batch[i]) =>
              i \in DOMAIN batch' /\ SameFacts(batch[i], batch'[i]),
           \A job \in jobs : \E next \in jobs' : next.id = job.id
    PROVE  Covered(file)'
<1>1. PICK i \in DOMAIN batch \cap run.seenIds :
         /\ batch[i].ino = file /\ Placed(batch[i])
         /\ batch[i].digest = {Now(file)} \/ \E job \in jobs : job.id = i
  BY DEF Covered
<1>2. i \in DOMAIN batch' \cap run'.seenIds /\ SameFacts(batch[i], batch'[i])
  BY <1>1
<1>3. batch'[i].ino = file /\ Placed(batch[i])'
  BY <1>1, <1>2 DEF SameFacts, Placed
<1>4. batch'[i].digest = {Now(file)'} \/ \E job \in jobs' : job.id = i
  BY <1>1, <1>2 DEF SameFacts, Now
<1>. QED BY <1>2, <1>3, <1>4 DEF Covered

\* A step of the scan.
LEMMA ScanSettling ==
    ASSUME Settling, Scanning, Scanning', UNCHANGED <<tree, version, calm, mistaken>>,
           ~run'.complete, run'.quiet => run.quiet, run.missed => run'.missed,
           run'.halt = run.halt, run'.roots = run.roots,
           Undisturbed /\ Undisturbed' =>
              /\ SeenLive(batch)'
              /\ run'.phase = "listing" => ~Displaced(batch)'
              /\ \A file \in run'.seenInodes : file \in run.seenInodes \/ Covered(file)'
              /\ \A file : Covered(file) => Covered(file)'
              /\ \A file \in Files :
                    Exists(file) /\ run.phase = "listing" /\ Ahead(file) =>
                       Covered(file)' \/ (run'.phase = "listing" /\ Ahead(file)')
    PROVE  Settling'
<1>1. ASSUME Undisturbed' PROVE Listed'
  <2>1. Undisturbed
    BY <1>1 DEF Undisturbed, Trusted
  <2>2. Listed
    BY <2>1 DEF Settling
  <2>3. \A file : Exists(file)' <=> Exists(file)
    BY DEF Exists, Holds
  <2>4. \A file \in run'.seenInodes : Covered(file)'
    BY <1>1, <2>1, <2>2 DEF Listed
  <2>5. ASSUME run'.roots = Names, NEW file \in Files, Exists(file)
        PROVE  Covered(file)' \/ (run'.phase = "listing" /\ Ahead(file)')
    <3>1. Covered(file) \/ (run.phase = "listing" /\ Ahead(file))
      BY <2>2, <2>5 DEF Listed
    <3>. QED BY <1>1, <2>1, <2>5, <3>1
  <2>. QED BY <1>1, <2>1, <2>3, <2>4, <2>5 DEF Listed
<1>2. Settled'
  BY DEF Settled
<1>3. run'.phase \notin {"prune", "delete"}
  BY DEF Scanning
<1>. QED BY <1>1, <1>2, <1>3 DEF Settling

\* A step that leaves no undisturbed run behind.
LEMMA DisturbedSettling ==
    ASSUME ~run'.complete, ~Undisturbed' \/ run'.phase = "idle",
           run'.phase \notin {"prune", "delete"}
    PROVE  Settling'
BY DEF Settling, Settled, Scanning

LEMMA EndSettling ==
    ASSUME Types, Settling,
           \/ Kill \/ Signal \/ BatchLost
           \/ \E file \in Files : Write(file)
           \/ \E name \in Names : \/ Unlink(name)
                                  \/ \E file \in Files : Create(name, file)
                                  \/ \E to \in Names : Link(name, to) \/ Move(name, to)
           \/ \E job \in jobs : DropJob(job) \/ GiveUp(job)
    PROVE  Settling'
<1>0. run \in Run
  BY DEF Types
<1>1. CASE Kill
  <2>1. ~run'.complete /\ run'.phase = "idle"
    BY <1>1 DEF Kill, Idle
  <2>. QED BY <2>1, DisturbedSettling
<1>2. CASE Signal \/ BatchLost
  <2>1. ~run'.complete /\ run'.phase = "hashing" /\ run'.halt # "no"
    BY <1>2 DEF Signal, BatchLost, Halt, Idle
  <2>. QED BY <2>1, DisturbedSettling DEF Undisturbed
<1>3. CASE \/ \E file \in Files : Write(file)
           \/ \E name \in Names : \/ Unlink(name)
                                  \/ \E file \in Files : Create(name, file)
                                  \/ \E to \in Names : Link(name, to) \/ Move(name, to)
  <2>1. Changed
    BY <1>3 DEF Write, Unlink, Create, Link, Move
  <2>2. /\ ~run'.complete /\ ~run'.quiet
        /\ run'.phase = run.phase /\ run'.halt = run.halt
    BY <1>0, <2>1 DEF Changed, Run
  <2>. QED BY <2>2 DEF Settling, Settled, Undisturbed
<1>4. CASE \E job \in jobs : DropJob(job) \/ GiveUp(job)
  <2>1. run' = [run EXCEPT !.missed = TRUE] /\ InScan
    BY <1>4 DEF DropJob, GiveUp
  <2>2. /\ run'.missed /\ run'.complete = run.complete /\ run'.phase = run.phase
        /\ run'.phase \in {"listing", "hashing"}
    BY <1>0, <2>1 DEF Run, InScan
  <2>. QED BY <2>2, DisturbedSettling DEF Undisturbed, Settling
<1>. QED BY <1>1, <1>2, <1>3, <1>4

\* The row of a file that is listed and has not changed.
LEMMA RowListed ==
    ASSUME Types, Owned, Kept, Honest, Settling, Undisturbed, run.phase = "listing",
           NEW item \in fileq, item.ino \notin run.seenInodes,
           NEW id \in Described(item), Unchanged(id, item), ~Renamed(id, item)
    PROVE  /\ id \in DOMAIN batch /\ SameFacts(batch[id], Visible[id])
           /\ batch[id].ino = item.ino /\ Placed(batch[id])
           /\ Exists(item.ino) /\ HonestRow(batch[id])
<1>1. id \in DOMAIN Visible /\ Visible[id].ino = item.ino
  BY DescribedIs
<1>2. /\ item.name \in Names /\ item.ino \in Files /\ item.ino # NoFile
      /\ tree[item.name] = item.ino /\ version[item.ino] = item.version
  BY ListingConstants DEF Types, Item, Kept, Undisturbed, Current
<1>3. Calm /\ Trusted
  BY DEF Undisturbed, Trusted, Calm, Honest
<1>4. Remembered /\ Agreed /\ HonestRows(batch) /\ ~Displaced(batch)
  BY <1>3 DEF Owned, Apart, Kept, Honest, Settling, Listed, Scanning
<1>5. Exists(item.ino)
  BY <1>2 DEF Exists, Holds
<1>6. id \in DOMAIN batch /\ batch[id].ino = item.ino
  BY <1>1, <1>4, <1>5 DEF Remembered
<1>7. SameFacts(batch[id], Visible[id])
  BY <1>4, <1>6 DEF Agreed
<1>8. batch[id].version = version[item.ino]
  BY <1>2, <1>7 DEF Unchanged, SameFacts
<1>9. tree[batch[id].name] = item.ino
  <2>1. tree[batch[id].name] \in {NoFile, item.ino}
    BY <1>4, <1>5, <1>6 DEF Displaced
  <2>2. batch[id].name = Visible[id].name
    BY <1>7 DEF SameFacts
  <2>. QED BY <1>2, <2>1, <2>2 DEF Renamed
<1>. QED BY <1>4, <1>5, <1>6, <1>7, <1>8, <1>9 DEF Placed, HonestRows

\* Of the rows only the one that is listed changes: its file is covered by it.
LEMMA ListedSettling ==
    ASSUME Types, Owned, Kept, Honest, Settling, run.phase = "listing", NEW item \in fileq,
           fileq' = fileq \ {item}, UNCHANGED <<tree, version, todo, calm, mistaken>>,
           run'.phase = run.phase, run'.complete = run.complete, run'.quiet = run.quiet,
           run'.halt = run.halt, run'.roots = run.roots, run.missed => run'.missed,
           run'.seenInodes \subseteq run.seenInodes \cup {item.ino},
           run.seenIds \subseteq run'.seenIds,
           \A job \in jobs : \E next \in jobs' : next.id = job.id,
           Undisturbed =>
              /\ SeenLive(batch)'
              /\ ~Displaced(batch)'
              /\ Covered(item.ino)'
              /\ \A i \in DOMAIN batch : batch[i].ino # item.ino /\ Placed(batch[i]) =>
                    i \in DOMAIN batch' /\ SameFacts(batch[i], batch'[i])
    PROVE  Settling'
<1>1. /\ Scanning /\ Scanning' /\ ~run'.complete
      /\ item.name \in Names /\ item.ino \in Files
  BY DEF Scanning, Settling, Types, Item
<1>2. ASSUME Undisturbed, NEW file, Covered(file) PROVE Covered(file)'
  <2>1. CASE file = item.ino
    BY <1>2, <2>1
  <2>2. CASE file # item.ino
    BY <1>2, <2>2, CoveredStays
  <2>. QED BY <2>1, <2>2
<1>3. ASSUME Undisturbed, NEW file \in Files, Ahead(file) PROVE Covered(file)' \/ Ahead(file)'
  <2>1. CASE file = item.ino
    BY <1>3, <2>1
  <2>2. CASE file # item.ino
    BY <1>3, <2>2 DEF Ahead, Queued
  <2>. QED BY <2>1, <2>2
<1>. QED BY <1>1, <1>2, <1>3, ScanSettling

LEMMA LeaveAloneSettling ==
    ASSUME Types, Owned, Kept, Honest, Settling, NEW item \in fileq, LeaveAlone(item)
    PROVE  Settling'
<1>1. /\ run.phase = "listing" /\ fileq' = fileq \ {item} /\ item.ino \notin run.seenInodes
      /\ UNCHANGED <<tree, version, batch, jobs, todo, calm, mistaken>>
  BY DEF LeaveAlone, Scans, Pops
<1>2. PICK id \in Described(item) : /\ UpToDate(id, item)
                                    /\ run' = [run EXCEPT !.seenIds = @ \cup {id}]
  BY DEF LeaveAlone
<1>3. /\ run'.phase = run.phase /\ run'.complete = run.complete /\ run'.quiet = run.quiet
      /\ run'.halt = run.halt /\ run'.roots = run.roots /\ run'.missed = run.missed
      /\ run'.seenInodes = run.seenInodes /\ run'.seenIds = run.seenIds \cup {id}
  BY <1>2 DEF Types, Run
<1>4. ASSUME Undisturbed
      PROVE  SeenLive(batch)' /\ ~Displaced(batch)' /\ Covered(item.ino)'
  <2>1. /\ id \in DOMAIN batch /\ SameFacts(batch[id], Visible[id])
        /\ batch[id].ino = item.ino /\ Placed(batch[id])
        /\ Exists(item.ino) /\ HonestRow(batch[id])
    BY <1>1, <1>2, <1>4, RowListed DEF UpToDate
  <2>2. batch[id].digest = {Now(item.ino)}
    <3>1. batch[id].digest # {}
      BY <1>2, <2>1 DEF UpToDate, SameFacts
    <3>2. batch[id].digest \subseteq {Now(item.ino)}
      BY <2>1 DEF HonestRow, Lives, Placed
    <3>. QED BY <3>1, <3>2
  <2>3. Covered(item.ino)'
    BY <1>1, <1>3, <2>1, <2>2 DEF Covered, Placed, Now
  <2>4. SeenLive(batch) /\ ~Displaced(batch)
    BY <1>1, <1>4 DEF Settling, Listed, Scanning
  <2>. QED BY <1>1, <1>3, <2>1, <2>3, <2>4 DEF SeenLive, Displaced, Exists, Holds
<1>5. \A i \in DOMAIN batch : i \in DOMAIN batch' /\ SameFacts(batch[i], batch'[i])
  BY <1>1 DEF SameFacts
<1>. QED BY <1>1, <1>3, <1>4, <1>5, ListedSettling

LEMMA ResumeScanSettling ==
    ASSUME Types, Owned, Kept, Honest, Settling, NEW item \in fileq, ResumeScan(item)
    PROVE  Settling'
<1>1. /\ run.phase = "listing" /\ fileq' = fileq \ {item} /\ item.ino \notin run.seenInodes
      /\ UNCHANGED <<tree, version, todo, calm, mistaken>>
  BY DEF ResumeScan, Scans, Pops
<1>2. PICK id \in Described(item), late \in BOOLEAN :
         /\ CheckpointUsable(id, item)
         /\ EndUnit(IF late THEN batch ELSE UpdateDedupeSeq(batch, id))
         /\ Queue(item, id, Visible[id].checkpoint.fed, late)
  BY DEF ResumeScan
<1>3. /\ run'.phase = run.phase /\ run'.complete = run.complete /\ run'.quiet = run.quiet
      /\ run'.halt = run.halt /\ run'.roots = run.roots /\ run'.missed = run.missed
      /\ run'.seenInodes = run.seenInodes \cup {item.ino}
      /\ run'.seenIds = run.seenIds \cup {id}
  <2>1. run' = [run EXCEPT !.seenIds = @ \cup {id}, !.seenInodes = @ \cup {item.ino}]
    BY <1>2 DEF Queue
  <2>. QED BY <2>1 DEF Types, Run
<1>4. PICK new : jobs' = jobs \cup {new} /\ new.id = id
  <2>. DEFINE new == [id |-> id, name |-> item.name, ino |-> item.ino,
                      version |-> item.version, resume |-> Visible[id].checkpoint.fed,
                      state |-> "queued", fd |-> NoFile, fed |-> {},
                      checkpointed |-> Visible[id].checkpoint.fed # {}, late |-> late]
  <2>1. jobs' = jobs \cup {new} /\ new.id = id
    BY <1>2 DEF Queue
  <2>. HIDE DEF new
  <2>. QED BY <2>1
<1>5. SameRows(batch, batch')
  <2>1. id \in Nat /\ IsRows(batch)
    BY DescribedIs DEF Types
  <2>. QED BY <1>2, <2>1, StatementsKeepFacts DEF EndUnit
<1>6. ASSUME Undisturbed
      PROVE  SeenLive(batch)' /\ ~Displaced(batch)' /\ Covered(item.ino)'
  <2>1. /\ id \in DOMAIN batch /\ batch[id].ino = item.ino /\ Placed(batch[id])
        /\ Exists(item.ino)
    BY <1>1, <1>2, <1>6, RowListed DEF CheckpointUsable, CheckpointAsked
  <2>2. id \in DOMAIN batch' /\ batch'[id].ino = item.ino /\ Placed(batch'[id])
    BY <1>5, <2>1 DEF SameRows, SameFacts, Placed
  <2>3. Covered(item.ino)'
    BY <1>1, <1>3, <1>4, <2>2 DEF Covered, Placed
  <2>4. SeenLive(batch) /\ ~Displaced(batch)
    BY <1>1, <1>6 DEF Settling, Listed, Scanning
  <2>5. SeenLive(batch)'
    BY <1>1, <1>3, <1>5, <2>1, <2>4 DEF SeenLive, SameRows, SameFacts, Exists, Holds
  <2>6. ~Displaced(batch)'
    BY <1>1, <1>5, <2>4 DEF Displaced, SameRows, SameFacts, Exists, Holds
  <2>. QED BY <2>3, <2>5, <2>6
<1>7. \A i \in DOMAIN batch : i \in DOMAIN batch' /\ SameFacts(batch[i], batch'[i])
  BY <1>5 DEF SameRows
<1>. QED BY <1>1, <1>3, <1>4, <1>6, <1>7, ListedSettling

\* What is stored is true, and what it takes the place of is not of a file that
\* was listed before.
LEMMA StoreFileRowSettling ==
    ASSUME Types, Owned, Kept, Honest, Settling, NEW item \in fileq, StoreFileRow(item)
    PROVE  Settling'
<1>1. /\ run.phase = "listing" /\ fileq' = fileq \ {item} /\ item.ino \notin run.seenInodes
      /\ UNCHANGED <<tree, version, todo, calm, mistaken>>
  BY DEF StoreFileRow, Scans, Pops
<1>2. run \in Run /\ item \in Item
  BY DEF Types
<1>3. CASE run' = [run EXCEPT !.missed = TRUE]
  <2>1. run'.missed /\ run'.complete = run.complete /\ run'.phase = run.phase
    BY <1>2, <1>3 DEF Run
  <2>. QED BY <1>1, <2>1, DisturbedSettling DEF Undisturbed, Settling
<1>4. ASSUME NEW old \in Nat, NEW id \in Nat, NEW renamed \in BOOLEAN,
             Stored(batch, batch', item, id, old, renamed), Queue(item, id, {}, FALSE),
             renamed => old \in Described(item)
      PROVE  Settling'
  <2>1. /\ run'.phase = run.phase /\ run'.complete = run.complete /\ run'.quiet = run.quiet
        /\ run'.halt = run.halt /\ run'.roots = run.roots /\ run'.missed = run.missed
        /\ run'.seenInodes = run.seenInodes \cup {item.ino}
        /\ run'.seenIds = run.seenIds \cup {id}
    <3>1. run' = [run EXCEPT !.seenIds = @ \cup {id}, !.seenInodes = @ \cup {item.ino}]
      BY <1>4 DEF Queue
    <3>. QED BY <1>2, <3>1 DEF Run
  <2>2. PICK new : jobs' = jobs \cup {new} /\ new.id = id
    <3>. DEFINE new == [id |-> id, name |-> item.name, ino |-> item.ino,
                        version |-> item.version, resume |-> {},
                        state |-> "queued", fd |-> NoFile, fed |-> {},
                        checkpointed |-> {} # {}, late |-> FALSE]
    <3>1. jobs' = jobs \cup {new} /\ new.id = id
      BY <1>4 DEF Queue
    <3>. HIDE DEF new
    <3>. QED BY <3>1
  <2>3. /\ id \in DOMAIN batch' /\ batch'[id].ino = item.ino /\ batch'[id].name = item.name
        /\ batch'[id].version = item.version
        /\ \A i \in DOMAIN batch' : i # id =>
              i \in DOMAIN batch /\ SameFacts(batch[i], batch'[i])
        /\ \A i \in DOMAIN batch : i \notin DOMAIN batch' \/ i = id =>
              \/ batch[i].name = item.name \/ batch[i].ino = item.ino
              \/ renamed /\ i = old
    BY <1>4 DEF Stored
  <2>4. ASSUME Undisturbed
        PROVE  /\ SeenLive(batch)' /\ ~Displaced(batch)' /\ Covered(item.ino)'
               /\ \A i \in DOMAIN batch : batch[i].ino # item.ino /\ Placed(batch[i]) =>
                     i \in DOMAIN batch' /\ SameFacts(batch[i], batch'[i])
    <3>1. /\ item.name \in Names /\ item.ino \in Files /\ item.ino # NoFile
          /\ tree[item.name] = item.ino /\ version[item.ino] = item.version
      BY <1>2, <2>4, ListingConstants DEF Item, Kept, Undisturbed, Current
    <3>2. Exists(item.ino)
      BY <3>1 DEF Exists, Holds
    <3>3. Covered(item.ino)'
      BY <1>1, <2>1, <2>2, <2>3, <3>1 DEF Covered, Placed
    <3>4. SeenLive(batch) /\ ~Displaced(batch)
      BY <1>1, <2>4 DEF Settling, Listed, Scanning
    <3>5. SeenLive(batch)'
      <4>1. ASSUME NEW i \in DOMAIN batch' \cap run'.seenIds PROVE Exists(batch'[i].ino)
        BY <2>1, <2>3, <3>2, <3>4 DEF SeenLive, SameFacts
      <4>. QED BY <1>1, <4>1 DEF SeenLive, Exists, Holds
    <3>6. ~Displaced(batch)'
      <4>1. ASSUME NEW i \in DOMAIN batch', Exists(batch'[i].ino)
            PROVE  tree[batch'[i].name] \in {NoFile, batch'[i].ino}
        <5>1. CASE i = id
          BY <2>3, <3>1, <5>1
        <5>2. CASE i # id
          BY <2>3, <3>4, <4>1, <5>2 DEF Displaced, SameFacts
        <5>. QED BY <5>1, <5>2
      <4>. QED BY <1>1, <4>1 DEF Displaced, Exists, Holds
    <3>7. ASSUME NEW i \in DOMAIN batch, batch[i].ino # item.ino, Placed(batch[i])
          PROVE  i \in DOMAIN batch' /\ SameFacts(batch[i], batch'[i])
      <4>1. batch[i].name # item.name
        BY <3>1, <3>7 DEF Placed
      <4>2. ASSUME renamed, i = old PROVE FALSE
        <5>1. old \in DOMAIN Visible /\ Visible[old].ino = item.ino
          BY <1>4, <4>2, DescribedIs
        <5>2. Remembered
          BY <1>1, <2>4 DEF Owned, Apart, Undisturbed, Trusted, Calm, Honest
        <5>. QED BY <1>1, <3>2, <3>7, <4>2, <5>1, <5>2 DEF Remembered
      <4>. QED BY <2>3, <3>7, <4>1, <4>2
    <3>. QED BY <3>3, <3>5, <3>6, <3>7
  <2>. QED BY <1>1, <2>1, <2>2, <2>4, ListedSettling
<1>. QED BY <1>3, <1>4, StoreFileRowIs

\* The walkers, and what the consumer need not look at.
LEMMA PassedSettling ==
    ASSUME Types, Settling,
           \/ Flush \/ ListingDone \/ \E name \in Names : WalkName(name)
           \/ \E item \in fileq : PassOver(item)
    PROVE  Settling'
<1>1. /\ run.phase = "listing" /\ run \in Run
      /\ UNCHANGED <<tree, version, batch, jobs, calm, mistaken>>
  BY DEF Types, Flush, ListingDone, WalkName, PassOver, Pops
<1>2. /\ run'.phase \in {"listing", "hashing"} /\ run'.complete = run.complete
      /\ run'.quiet = run.quiet /\ run'.halt = run.halt /\ run'.roots = run.roots
      /\ run'.missed = run.missed /\ run'.seenInodes = run.seenInodes
      /\ run'.seenIds = run.seenIds
  <2>1. run' = run \/ run' = [run EXCEPT !.phase = "hashing"]
    BY DEF Flush, ListingDone, WalkName, PassOver
  <2>. QED BY <1>1, <2>1 DEF Run
<1>3. \A file : Covered(file)' <=> Covered(file)
  BY <1>1, <1>2 DEF Covered, Placed, Now
<1>4. (SeenLive(batch)' <=> SeenLive(batch)) /\ (Displaced(batch)' <=> Displaced(batch))
  BY <1>1, <1>2 DEF SeenLive, Displaced, Exists, Holds
<1>5. ASSUME Undisturbed, NEW file \in Files, Ahead(file)
      PROVE  Covered(file) \/ (run'.phase = "listing" /\ Ahead(file)')
  <2>1. Listed /\ file # NoFile
    BY <1>1, <1>5, ListingConstants DEF Settling, Scanning
  <2>2. CASE Flush
    BY <1>1, <1>5, <2>2 DEF Flush, Ahead, Queued
  <2>3. CASE ListingDone
    BY <1>5, <2>3 DEF ListingDone, Ahead, Queued
  <2>4. CASE \E name \in Names : WalkName(name)
    <3>1. PICK name \in Names : WalkName(name)
      BY <2>4
    <3>2. /\ todo' = todo \ {name} /\ UNCHANGED <<run, tree>>
          /\ fileq' = IF tree[name] = NoFile THEN fileq ELSE fileq \cup {Stat(name, FALSE)}
      BY <3>1 DEF WalkName
    <3>3. Stat(name, FALSE).ino = tree[name]
      BY DEF Stat
    <3>4. Queued(file) => Queued(file)'
      BY <3>2 DEF Queued
    <3>5. tree[name] = file => Queued(file)'
      BY <2>1, <3>2, <3>3 DEF Queued
    <3>. QED BY <1>1, <1>5, <3>2, <3>4, <3>5 DEF Ahead
  <2>5. CASE \E item \in fileq : PassOver(item)
    <3>1. PICK item \in fileq : PassOver(item)
      BY <2>5
    <3>2. /\ fileq' = fileq \ {item} /\ item.ino \in run.seenInodes
          /\ UNCHANGED <<run, tree, todo>>
      BY <3>1 DEF PassOver, Pops
    <3>3. CASE item.ino = file
      BY <2>1, <3>2, <3>3 DEF Listed
    <3>4. CASE item.ino # file
      BY <1>1, <1>5, <3>2, <3>4 DEF Ahead, Queued
    <3>. QED BY <3>3, <3>4
  <2>. QED BY <2>2, <2>3, <2>4, <2>5
<1>6. Undisturbed => Listed
  BY <1>1 DEF Settling, Scanning
<1>7. Scanning /\ Scanning' /\ ~run'.complete
  BY <1>1, <1>2 DEF Scanning, Settling
<1>8. Undisturbed => SeenLive(batch)' /\ ~Displaced(batch)'
  BY <1>1, <1>4, <1>6 DEF Listed
<1>. QED BY <1>1, <1>2, <1>3, <1>5, <1>7, <1>8, ScanSettling

\* The listing is where it was: only rows and requests change.
LEMMA WorkSettling ==
    ASSUME Settling, Scanning, SameIds(batch, batch'),
           UNCHANGED <<tree, version, todo, fileq, calm, mistaken>>,
           run'.phase = run.phase, run'.complete = run.complete, run'.quiet = run.quiet,
           run'.halt = run.halt, run'.roots = run.roots, run.missed => run'.missed,
           run'.seenInodes = run.seenInodes, run'.seenIds = run.seenIds,
           Undisturbed /\ Undisturbed' => \A file : Covered(file) => Covered(file)'
    PROVE  Settling'
<1>1. SeenLive(batch) => SeenLive(batch)'
  BY DEF SeenLive, SameIds, Exists, Holds
<1>2. ~Displaced(batch) => ~Displaced(batch)'
  BY DEF Displaced, SameIds, Exists, Holds
<1>3. \A file : Ahead(file)' <=> Ahead(file)
  BY DEF Ahead, Queued
<1>4. Undisturbed => Listed
  BY DEF Settling
<1>5. Scanning' /\ ~run'.complete
  BY DEF Scanning, Settling
<1>6. \A file \in run'.seenInodes : file \in run.seenInodes
  OBVIOUS
<1>. QED BY <1>1, <1>2, <1>3, <1>4, <1>5, <1>6, ScanSettling DEF Listed

LEMMA OpenSettling ==
    ASSUME Types, Settling, NEW job \in jobs, OpenJob(job) \/ CheckpointJob(job)
    PROVE  Settling'
<1>1. /\ Scanning /\ UNCHANGED <<tree, version, run, todo, fileq, calm, mistaken>>
  BY DEF OpenJob, CheckpointJob, InScan, Scanning
<1>2. job \in Job /\ job.id \in Nat /\ IsRows(batch)
  BY DEF Types, Job
<1>3. SameRows(batch, batch') /\ \E next : next.id = job.id /\ Becomes(job, next)
  <2>1. CASE OpenJob(job)
    <3>. DEFINE open == [job EXCEPT !.state = "reading", !.fd = tree[job.name], !.resume = {}]
                resumed == [open EXCEPT !.fed = job.resume]
                anew == [open EXCEPT !.checkpointed = FALSE]
    <3>1. \/ Becomes(job, resumed) /\ UNCHANGED <<disk, batch>>
          \/ Becomes(job, anew) /\ EndUnit(RemoveCheckpoint(batch, job.id))
      BY <2>1 DEF OpenJob
    <3>2. resumed.id = job.id /\ anew.id = job.id
      BY <1>2 DEF Job
    <3>. HIDE DEF resumed, anew
    <3>. QED BY <1>2, <3>1, <3>2, StatementsKeepFacts DEF EndUnit
  <2>2. CASE CheckpointJob(job)
    <3>. DEFINE cp == [version |-> job.version, fed |-> Fed(job)]
                next == [job EXCEPT !.fed = Fed(job), !.checkpointed = TRUE]
    <3>1. batch' = StoreCheckpoint(batch, job.id, cp) /\ Becomes(job, next)
      BY <2>2 DEF CheckpointJob
    <3>2. cp \in Checkpoints
      BY <1>2, <2>2, FedIs DEF CheckpointJob, Checkpoints, Job
    <3>3. next.id = job.id
      BY <1>2 DEF Job
    <3>. HIDE DEF cp, next
    <3>. QED BY <1>2, <3>1, <3>2, <3>3, StatementsKeepFacts
  <2>. QED BY <2>1, <2>2
<1>4. SameIds(batch, batch')
  BY <1>3 DEF SameRows, SameIds, SameFacts
<1>5. \A other \in jobs : \E next \in jobs' : next.id = other.id
  <2>1. PICK next : next.id = job.id /\ jobs' = (jobs \ {job}) \cup {next}
    BY <1>3 DEF Becomes
  <2>. QED BY <2>1
<1>6. \A file : Covered(file) => Covered(file)'
  BY <1>1, <1>3, <1>5, CoveredStays DEF SameRows
<1>. QED BY <1>1, <1>4, <1>6, WorkSettling

\* The digest is of what the file holds, if nothing has changed since it was
\* listed.
LEMMA FinishSettling ==
    ASSUME Types, Owned, Kept, Honest, Settling, NEW job \in jobs, FinishJob(job)
    PROVE  Settling'
<1>. DEFINE plain == IF job.checkpointed THEN RemoveCheckpoint(batch, job.id) ELSE batch
<1>1. /\ Scanning /\ job.state = "reading" /\ run.halt # "lost" /\ jobs' = jobs \ {job}
      /\ IF job.id \in DOMAIN batch
         THEN EndUnit(UpdateScannedFile(plain, job.id, Fed(job)))
         ELSE UNCHANGED <<disk, batch>>
      /\ run' = [run EXCEPT !.missed = @ \/ job.id \notin DOMAIN batch]
      /\ UNCHANGED <<tree, version, snap, todo, fileq, calm, mistaken>>
  BY DEF FinishJob, Drop, InScan, Scanning
<1>2. /\ job \in Job /\ job.id \in Nat /\ IsRows(batch) /\ run \in Run
      /\ Fed(job) \in Digests
  BY <1>1, FedIs DEF Types, Job
<1>3. /\ run'.phase = run.phase /\ run'.complete = run.complete /\ run'.quiet = run.quiet
      /\ run'.halt = run.halt /\ run'.roots = run.roots
      /\ run'.missed = (run.missed \/ job.id \notin DOMAIN batch)
      /\ run'.seenInodes = run.seenInodes /\ run'.seenIds = run.seenIds
  BY <1>1, <1>2 DEF Run
<1>4. SameRows(batch, plain) /\ IsRows(plain)
  BY <1>2, RemoveCheckpointIs, StatementsKeepFacts
<1>. HIDE DEF plain
<1>5. CASE job.id \notin DOMAIN batch
  <2>1. SameIds(batch, batch')
    BY <1>1, <1>5 DEF SameIds
  <2>2. ~Undisturbed'
    BY <1>3, <1>5 DEF Undisturbed
  <2>. QED BY <1>1, <1>3, <2>1, <2>2, WorkSettling
<1>6. CASE job.id \in DOMAIN batch
  <2>1. batch' = UpdateScannedFile(plain, job.id, Fed(job))
    BY <1>1, <1>6 DEF EndUnit
  <2>2. /\ DOMAIN batch' = DOMAIN plain
        /\ \A i \in DOMAIN plain :
              batch'[i] = IF i = job.id THEN WithDigest(plain[i], Fed(job)) ELSE plain[i]
    BY <1>2, <1>4, <2>1, UpdateScannedFileIs
  <2>3. \A i \in DOMAIN plain : plain[i] \in Row
    BY <1>4, RowsAre
  <2>4. /\ DOMAIN batch' = DOMAIN batch
        /\ \A i \in DOMAIN batch : /\ batch'[i].ino = batch[i].ino
                                   /\ batch'[i].name = batch[i].name
                                   /\ batch'[i].version = batch[i].version
                                   /\ batch'[i].digest = IF i = job.id THEN Fed(job)
                                                         ELSE batch[i].digest
    BY <1>4, <2>2, <2>3 DEF SameRows, SameFacts, WithDigest, Row
  <2>5. ASSUME Undisturbed, NEW file, Covered(file) PROVE Covered(file)'
    <3>1. PICK i \in DOMAIN batch \cap run.seenIds :
             /\ batch[i].ino = file /\ Placed(batch[i])
             /\ batch[i].digest = {Now(file)} \/ \E other \in jobs : other.id = i
      BY <2>5 DEF Covered
    <3>2. i \in DOMAIN batch' \cap run'.seenIds /\ batch'[i].ino = file /\ Placed(batch[i])'
      BY <1>1, <1>3, <2>4, <3>1 DEF Placed
    <3>3. CASE i = job.id
      <4>1. Current(job) /\ OwnRows /\ HonestJob(job)
        BY <1>1, <2>5 DEF Kept, Owned, Honest, Undisturbed, Trusted, Calm
      <4>2. job.ino = file /\ job.name \in Names
        BY <1>2, <3>1, <3>3, <4>1 DEF OwnRows, Job
      <4>3. Lives(job.ino, job.version)
        BY <4>1, <4>2 DEF Current, Lives, Exists, Holds
      <4>4. Fed(job) = {Now(file)}
        BY <1>1, <4>1, <4>2, <4>3 DEF HonestJob, Fed
      <4>5. batch'[i].digest = {Now(file)'}
        BY <1>1, <2>4, <3>1, <3>3, <4>4 DEF Now
      <4>. QED BY <3>2, <4>5 DEF Covered
    <3>4. CASE i # job.id
      <4>1. batch'[i].digest = {Now(file)'} \/ \E other \in jobs' : other.id = i
        BY <1>1, <2>4, <3>1, <3>4 DEF Now
      <4>. QED BY <3>2, <4>1 DEF Covered
    <3>. QED BY <3>3, <3>4
  <2>6. SameIds(batch, batch')
    BY <2>4 DEF SameIds
  <2>. QED BY <1>1, <1>3, <2>5, <2>6, WorkSettling
<1>. QED BY <1>5, <1>6

\* The listing begins with everything ahead of it.
LEMMA StartSettling ==
    ASSUME Types, Settling, Start PROVE Settling'
<1>1. PICK roots \in Roots :
         /\ run' = [Idle(FALSE, TRUE) EXCEPT !.phase = "listing", !.roots = roots]
         /\ todo' = roots
  BY DEF Start
<1>2. /\ batch' = disk' /\ calm' = (calm /\ ~Displaced(disk'))
      /\ UNCHANGED <<tree, version, mistaken>>
  BY DEF Start
<1>3. /\ run'.phase = "listing" /\ ~run'.complete /\ run'.roots = roots
      /\ run'.seenIds = {} /\ run'.seenInodes = {}
  BY <1>1 DEF Idle
<1>4. ASSUME Undisturbed' PROVE Listed'
  <2>1. ~Displaced(batch)'
    BY <1>2, <1>4 DEF Undisturbed, Trusted, Displaced, Exists, Holds
  <2>2. ASSUME run'.roots = Names, NEW file \in Files, Exists(file)' PROVE Ahead(file)'
    BY <1>1, <1>3, <2>2 DEF Exists, Holds, Ahead
  <2>. QED BY <1>3, <2>1, <2>2 DEF Listed, SeenLive
<1>. QED BY <1>3, <1>4 DEF Settling, Settled

\* With no requests left every row of a file is hashed.
LEMMA ScanDoneSettling ==
    ASSUME Types, Settling, ScanDone PROVE Settling'
<1>1. /\ run.phase = "hashing" /\ jobs = {} /\ disk' = batch /\ run \in Run
      /\ UNCHANGED <<tree, version, calm, mistaken>>
      /\ run' = IF Halted THEN Idle(FALSE, run.quiet) ELSE [run EXCEPT !.phase = "prune"]
  BY DEF ScanDone, Types
<1>2. CASE Halted
  <2>1. ~run'.complete /\ run'.phase = "idle"
    BY <1>1, <1>2 DEF Idle
  <2>. QED BY <2>1, DisturbedSettling
<1>3. CASE ~Halted
  <2>1. /\ run'.phase = "prune" /\ run'.complete = run.complete /\ run'.quiet = run.quiet
        /\ run'.halt = run.halt /\ run'.roots = run.roots /\ run'.missed = run.missed
        /\ run'.seenIds = run.seenIds
    BY <1>1, <1>3 DEF Run
  <2>2. ~run'.complete /\ run'.halt = "no"
    BY <1>1, <1>3, <2>1 DEF Settling, Halted
  <2>3. ASSUME Undisturbed' PROVE Hashed'
    <3>1. Listed
      BY <1>1, <2>1, <2>3 DEF Settling, Undisturbed, Trusted, Scanning
    <3>2. ASSUME run'.roots = Names, NEW file \in Files, Exists(file)
          PROVE  \E i \in DOMAIN batch \cap run.seenIds : batch[i].ino = file /\ True(batch[i])
      <4>1. Covered(file)
        BY <1>1, <2>1, <3>1, <3>2 DEF Listed
      <4>. QED BY <1>1, <4>1 DEF Covered, Placed, True
    <3>3. \A row : True(row)' <=> True(row)
      BY <1>1 DEF True, Now
    <3>4. \A file : Exists(file)' <=> Exists(file)
      BY <1>1 DEF Exists, Holds
    <3>5. SeenLive(disk)'
      BY <1>1, <2>1, <3>1, <3>4 DEF Listed, SeenLive
    <3>6. run'.roots = Names => \A file \in Files : Exists(file)' =>
             \E i \in DOMAIN disk' \cap run'.seenIds : disk'[i].ino = file /\ True(disk[i])'
      <4>1. ASSUME run'.roots = Names, NEW file \in Files, Exists(file)
            PROVE  \E i \in DOMAIN disk' \cap run'.seenIds : disk'[i].ino = file /\ True(disk[i])'
        <5>1. PICK i \in DOMAIN batch \cap run.seenIds : batch[i].ino = file /\ True(batch[i])
          BY <3>2, <4>1
        <5>2. True(disk[i])'
          BY <1>1, <5>1 DEF True, Now
        <5>. QED BY <1>1, <2>1, <5>1, <5>2
      <4>. QED BY <3>4, <4>1
    <3>. QED BY <2>1, <3>5, <3>6 DEF Hashed
  <2>. QED BY <2>1, <2>2, <2>3 DEF Settling, Settled, Scanning
<1>. QED BY <1>2, <1>3

LEMMA PruneCollectSettling ==
    ASSUME Types, Settling, PruneCollect PROVE Settling'
<1>1. /\ run.phase = "prune" /\ run' = [run EXCEPT !.phase = "delete"] /\ run \in Run
      /\ gone' = {i \in DOMAIN disk : /\ i \notin run.seenIds
                                      /\ tree[disk[i].name] = NoFile}
      /\ UNCHANGED <<tree, version, disk, calm, mistaken>>
  BY DEF PruneCollect, Types
<1>2. /\ run'.phase = "delete" /\ run'.complete = run.complete /\ run'.quiet = run.quiet
      /\ run'.halt = run.halt /\ run'.roots = run.roots /\ run'.missed = run.missed
      /\ run'.seenIds = run.seenIds
  BY <1>1 DEF Run
<1>3. ~run'.complete /\ run'.halt = "no"
  BY <1>1, <1>2 DEF Settling
<1>4. ASSUME Undisturbed' PROVE Hashed'
  <2>1. Hashed
    BY <1>1, <1>2, <1>4 DEF Settling, Undisturbed, Trusted
  <2>2. SeenLive(disk)'
    BY <1>1, <1>2, <2>1 DEF Hashed, SeenLive, Exists, Holds
  <2>3. ASSUME run'.roots = Names, NEW file \in Files, Exists(file)'
        PROVE  \E i \in DOMAIN disk' \cap run'.seenIds : disk'[i].ino = file /\ True(disk[i])'
    <3>1. Exists(file)
      BY <1>1, <2>3 DEF Exists, Holds
    <3>2. PICK i \in DOMAIN disk \cap run.seenIds : disk[i].ino = file /\ True(disk[i])
      BY <1>2, <2>1, <2>3, <3>1 DEF Hashed
    <3>3. True(disk[i])'
      BY <1>1, <3>2 DEF True, Now
    <3>. QED BY <1>1, <1>2, <3>2, <3>3
  <2>4. /\ gone' \cap run'.seenIds = {}
        /\ \A i \in DOMAIN disk' : i \notin run'.seenIds /\ tree'[disk'[i].name] = NoFile =>
              i \in gone'
    BY <1>1, <1>2
  <2>. QED BY <2>2, <2>3, <2>4 DEF Hashed
<1>. QED BY <1>2, <1>3, <1>4 DEF Settling, Settled, Scanning

\* Each file's row is true and stays, and no file has two.  A row that is left
\* has its name, and a file of that name has its own row under another.
LEMMA PruneDeleteSettling ==
    ASSUME Types, Distinct, Settling, PruneDelete PROVE Settling'
<1>1. /\ run.phase = "delete" /\ run \in Run /\ IsRows(disk) /\ Unique(disk)
      /\ disk' = RaiseWatermark(Without(disk, gone))
      /\ run' = Idle(~run.missed /\ run.roots = Names, run.quiet)
      /\ UNCHANGED <<tree, version, calm, mistaken>>
      /\ tree \in [Names -> Files \cup {NoFile}] /\ NoFile \notin Files
  BY ListingConstants DEF PruneDelete, Types, Distinct
<1>2. /\ run'.phase = "idle" /\ run'.complete = (~run.missed /\ run.roots = Names)
      /\ run'.quiet = run.quiet
  BY <1>1 DEF Idle
<1>3. /\ DOMAIN disk' = DOMAIN disk \ gone
      /\ \A i \in DOMAIN disk' : /\ disk[i] \in Row
                                 /\ disk'[i].ino = disk[i].ino /\ disk'[i].name = disk[i].name
                                 /\ disk'[i].version = disk[i].version
                                 /\ disk'[i].digest = disk[i].digest
  <2>1. PICK rest : rest = Without(disk, gone)
    OBVIOUS
  <2>2. DOMAIN rest = DOMAIN disk \ gone /\ \A i \in DOMAIN rest : rest[i] = disk[i]
    <3>1. /\ DOMAIN Without(disk, gone) = DOMAIN disk \ gone
          /\ \A i \in DOMAIN disk \ gone : Without(disk, gone)[i] = disk[i]
      BY <1>1, WithoutIs
    <3>. QED BY <2>1, <3>1
  <2>3. disk' = [i \in DOMAIN rest |-> [rest[i] EXCEPT !.fresh = FALSE]]
    BY <1>1, <2>1 DEF RaiseWatermark
  <2>4. \A i \in DOMAIN disk : disk[i] \in Row
    BY <1>1, RowsAre
  <2>. QED BY <2>2, <2>3, <2>4 DEF Row
<1>4. ASSUME calm', ~mistaken', run'.complete, run'.quiet
      PROVE  /\ \A f \in Files : Exists(f)' => (OfFile(disk, f) # {})'
             /\ \A i \in DOMAIN disk' :
                   \/ True(disk[i])'
                   \/ /\ ~Exists(disk[i].ino)' /\ tree'[disk'[i].name] # NoFile
                      /\ (Holds(tree[disk[i].name]) # {disk[i].name})'
  <2>1. Hashed /\ run.roots = Names
    BY <1>1, <1>2, <1>4 DEF Settling, Undisturbed, Trusted
  <2>2. \A f \in Files : Exists(f) =>
           \E j \in DOMAIN disk' : /\ j \in DOMAIN disk /\ disk[j].ino = f /\ True(disk[j])
    BY <1>1, <1>3, <2>1 DEF Hashed
  <2>3. \A f : Exists(f)' <=> Exists(f)
    BY <1>1 DEF Exists, Holds
  <2>4. ASSUME NEW f \in Files, Exists(f) PROVE OfFile(disk', f) # {}
    <3>1. PICK j \in DOMAIN disk' : disk[j].ino = f
      BY <2>2, <2>4
    <3>. QED BY <1>3, <3>1 DEF OfFile
  <2>5. ASSUME NEW i \in DOMAIN disk', Exists(disk[i].ino) PROVE True(disk[i])'
    <3>1. disk[i].ino \in Files
      BY <1>3 DEF Row
    <3>2. PICK j \in DOMAIN disk' : j \in DOMAIN disk /\ disk[j].ino = disk[i].ino /\ True(disk[j])
      BY <2>2, <2>5, <3>1
    <3>3. i = j
      BY <1>1, <1>3, <3>2 DEF Unique
    <3>. QED BY <1>1, <1>3, <3>2, <3>3 DEF True, Now
  <2>6. ASSUME NEW i \in DOMAIN disk', ~Exists(disk[i].ino)
        PROVE  /\ tree[disk[i].name] # NoFile
               /\ \E n \in Holds(tree[disk[i].name]) : n # disk[i].name
    <3>1. i \in DOMAIN disk /\ i \notin gone /\ disk[i].name \in Names
      BY <1>3 DEF Row
    <3>2. tree[disk[i].name] # NoFile
      BY <1>1, <2>1, <2>6, <3>1 DEF Hashed, SeenLive
    <3>3. tree[disk[i].name] \in Files /\ Exists(tree[disk[i].name])
      BY <1>1, <3>1, <3>2 DEF Exists, Holds
    <3>4. PICK j \in DOMAIN disk' :
             j \in DOMAIN disk /\ disk[j].ino = tree[disk[i].name] /\ True(disk[j])
      BY <2>2, <3>3
    <3>5. disk[j].name # disk[i].name
      BY <1>1, <2>6, <3>1, <3>3, <3>4 DEF Unique
    <3>6. disk[j].name \in Holds(tree[disk[i].name])
      BY <1>3, <3>4 DEF True, Holds, Row
    <3>. QED BY <3>2, <3>5, <3>6
  <2>7. ASSUME NEW i \in DOMAIN disk'
        PROVE  \/ True(disk[i])'
               \/ /\ ~Exists(disk[i].ino)' /\ tree'[disk'[i].name] # NoFile
                  /\ (Holds(tree[disk[i].name]) # {disk[i].name})'
    <3>1. CASE Exists(disk[i].ino)
      BY <2>5, <3>1
    <3>2. CASE ~Exists(disk[i].ino)
      <4>1. ~Exists(disk[i].ino)'
        BY <1>1, <1>3, <3>2 DEF Exists, Holds
      <4>2. tree'[disk'[i].name] # NoFile
        BY <1>1, <1>3, <2>6, <3>2
      <4>3. (Holds(tree[disk[i].name]) # {disk[i].name})'
        BY <1>1, <1>3, <2>6, <3>2 DEF Holds
      <4>. QED BY <4>1, <4>2, <4>3
    <3>. QED BY <3>1, <3>2
  <2>8. \A f \in Files : Exists(f)' => (OfFile(disk, f) # {})'
    BY <2>3, <2>4 DEF OfFile
  <2>. QED BY <2>7, <2>8
<1>5. Settled'
  BY <1>4 DEF Settled
<1>. QED BY <1>2, <1>5 DEF Settling, Scanning

LEMMA StutterSettling ==
    ASSUME Settling, UNCHANGED vars PROVE Settling'
<1>1. UNCHANGED <<tree, version, disk, batch, run, todo, fileq, jobs, gone, calm, mistaken>>
  BY DEF vars
<1>2. /\ Scanning' <=> Scanning
      /\ Undisturbed' <=> Undisturbed
      /\ Settled' <=> Settled
  BY <1>1 DEF Scanning, Undisturbed, Trusted, Settled, Exists, Holds, OfFile, True, Now
<1>3. Hashed' <=> Hashed
  BY <1>1 DEF Hashed, SeenLive, Exists, Holds, True, Now
<1>4. Listed' <=> Listed
  BY <1>1 DEF Listed, SeenLive, Exists, Holds, Covered, Placed, Now, Displaced, Ahead, Queued
<1>. QED BY <1>1, <1>2, <1>3, <1>4 DEF Settling

LEMMA InitSettling == Init => Settling
<1>1. Init => ~run.complete /\ run.phase = "idle"
  BY DEF Init, Idle
<1>. QED BY <1>1 DEF Settling, Settled, Scanning

LEMMA NextSettling ==
    Types /\ Owned /\ Kept /\ Honest /\ Distinct /\ Settling /\ [Next]_vars => Settling'
<1>. SUFFICES ASSUME Types, Owned, Kept, Honest, Distinct, Settling, [Next]_vars
              PROVE  Settling'
  OBVIOUS
<1>1. CASE UNCHANGED vars
  BY <1>1, StutterSettling
<1>2. CASE \/ Kill \/ Signal \/ BatchLost
           \/ \E file \in Files : Write(file)
           \/ \E name \in Names : \/ Unlink(name)
                                  \/ \E file \in Files : Create(name, file)
                                  \/ \E to \in Names : Link(name, to) \/ Move(name, to)
           \/ \E job \in jobs : DropJob(job) \/ GiveUp(job)
  BY <1>2, EndSettling
<1>3. CASE \/ Flush \/ ListingDone \/ \E name \in Names : WalkName(name)
           \/ \E item \in fileq : PassOver(item)
  BY <1>3, PassedSettling
<1>4. CASE \E item \in fileq : LeaveAlone(item) \/ ResumeScan(item) \/ StoreFileRow(item)
  BY <1>4, LeaveAloneSettling, ResumeScanSettling, StoreFileRowSettling
<1>5. CASE \E job \in jobs : OpenJob(job) \/ CheckpointJob(job) \/ FinishJob(job)
  BY <1>5, OpenSettling, FinishSettling
<1>6. CASE Start \/ ScanDone \/ PruneCollect \/ PruneDelete
  BY <1>6, StartSettling, ScanDoneSettling, PruneCollectSettling, PruneDeleteSettling
<1>. QED BY <1>1, <1>2, <1>3, <1>4, <1>5, <1>6 DEF Next

\* Whatever earlier runs left behind, a run over the whole tree that nothing
\* disturbs leaves each file with a true row, and no others but those of deleted
\* files whose names are links to others: what is kept of a row is honest, what
\* is in the way of it goes, and the digests come in before the prune.
THEOREM QuietRunsSettle == Spec => []Settled
<1>1. Init => Types /\ Due /\ Owned /\ Kept /\ Honest /\ Distinct /\ Settling
  BY InitTypes, InitOwned, InitKept, InitSound, InitSettling
<1>2. Types /\ Due /\ Owned /\ Kept /\ Honest /\ Distinct /\ Settling /\ [Next]_vars =>
         (Types /\ Due /\ Owned /\ Kept /\ Honest /\ Distinct /\ Settling)'
  BY NextTypes, NextOwned, NextKept, NextSound, NextSettling
<1>3. Settling => Settled
  BY DEF Settling
<1>. QED BY <1>1, <1>2, <1>3, PTL DEF Spec
=============================================================================
