---------------------------- MODULE StreamDedupe ----------------------------
(***************************************************************************)
(* The streaming dedupe phase: run_dedupe.c's batches, worker pool and     *)
(* reaping, driven by stream_duplicates() of oans.c, over the windows of   *)
(* generations that the loaders of dbfile.c answer.                        *)
(*                                                                         *)
(* One producer (the main thread) loads the duplicate groups of one window *)
(* (lo, hi] of scan generations into a batch, pushes one work item per     *)
(* group into a pool, seals the batch and goes on to the next window while *)
(* the workers dedupe.  At most MaxInflight sealed batches exist.  Sealed  *)
(* batches are reaped strictly in order, and each reap moves the durable   *)
(* watermark dedupe_seq of the hashfile: the next run loads only the       *)
(* generations above it.  A signal makes workers skip queued groups and    *)
(* freezes the watermark; a load failure caps it; a second signal or a     *)
(* SIGKILL ends the process anywhere.  Several runs follow each other on   *)
(* one hashfile, each scanning more files first.                           *)
(*                                                                         *)
(* Everything done under producer_mutex is one step.  A file is its row id *)
(* in the files table.  What a dedupe does to the disk is abstracted to    *)
(* storage: which file's original extents a member's data now lives on.    *)
(***************************************************************************)
EXTENDS Integers, FiniteSets, FiniteSetsExt

CONSTANTS
    NFiles,         \* rows the files table ever gets; ids are 1..NFiles
    Groups,         \* duplicate groups: equal (digest, size) or (digest, len)
    Kind,           \* what a group's copies are: files, extents or blocks
    Members,        \* the files holding a copy of a group's content
    Rank,           \* target order of whole files: read-only, nr_extents, id
    Workers,        \* threads of dedupe_pool (options.io_threads)
    MaxInflight,    \* DEDUPE_MAX_INFLIGHT
    Stride,         \* generations per window
    OnlyWholeFiles, \* --dedupe-options=only_whole_files
    DoBlockHash,    \* --dedupe-options=partial
    NoWork,         \* a worker without a work item
    MaxSeq,         \* bound on the generations of the model
    MaxRuns,        \* bound on the oans runs of one behaviour
    MaxFaults       \* bound on refused, unreadable, unwritable or deleted files

Files == 1 .. NFiles
Seqs == 1 .. MaxSeq
Kinds == {"file", "extent", "block"}

ASSUME ConstantsOK ==
    /\ NFiles \in Nat /\ MaxSeq \in Nat /\ MaxRuns \in Nat /\ MaxFaults \in Nat
    /\ Stride \in Nat \ {0} /\ MaxInflight \in Nat \ {0}
    /\ Kind \in [Groups -> Kinds]
    /\ Members \in [Groups -> SUBSET Files]
    /\ Rank \in [Files -> Nat]
    /\ \A f, o \in Files : Rank[f] = Rank[o] => f = o
    /\ OnlyWholeFiles \in BOOLEAN /\ DoBlockHash \in BOOLEAN

\* A dupe_extents of a results tree, and the dedupe_work_item made of it: one
\* group's members loaded for the window ending at hi, its target leading.
Items == [g : Groups, tgt : Files, ms : SUBSET Files, hi : Seqs]

ASSUME NoWorkOK == NoWork \notin Items

VARIABLES
    \* The filesystem and the hashfile: what outlives a process.
    storage,          \* storage[g][f]: whose extents hold f's copy of g
    gone,             \* files deleted from the filesystem
    seq,              \* files.dedupe_seq of each row, 0 when there is no row
    extents,          \* files whose rows in the extents table exist
    nscanned,         \* ids given out so far
    durable,          \* config.dedupe_seq, the watermark the next run reads
    \* History and bounds.
    settled,          \* <<g, f>> some window has dealt with
    unsaved,          \* this process's last write of the watermark failed
    refused,          \* <<g, f>> that a refused member may leave apart
    runs, faults,
    \* The producer: stream_duplicates() and its callees.
    pc, first_seq, lo, max, dedupe_seq, open_batch, loaded, topush, asleep,
    watermark_frozen, load_failed_at, interrupted,
    \* The batches, named by their seq_hi.
    inflight, outstanding, cut_short, held,
    \* The pools and the filerec table.
    queue, job, target, todo, filerecs, dups_tree, searching

disk == <<storage, gone, seq, extents, nscanned, durable>>
history == <<settled, refused, runs, faults>>
window == <<first_seq, lo, max, open_batch>>
trees == <<loaded, topush>>
verdict == <<watermark_frozen, load_failed_at, dedupe_seq, unsaved>>
batches == <<inflight, outstanding, cut_short, held>>
jobs == <<job, target, todo>>
records == <<filerecs, dups_tree, searching>>
vars == <<disk, history, pc, window, trees, asleep, interrupted, verdict,
          batches, queue, jobs, records>>

NoFailure == -1   \* load_failed_any is false
NoBatch == 0      \* open_batch is NULL
NoTarget == 0     \* no member of the group could be opened yet

-----------------------------------------------------------------------------
(***************************************************************************)
(* What the loaders of dbfile.c answer for a window (l, h].                *)
(***************************************************************************)

Live == {f \in Files : seq[f] > 0}
Window(l, h) == {f \in Live : l < seq[f] /\ seq[f] <= h}
LiveMembers(g) == Members[g] \cap Live

\* FILEDUP_MEMBER: another row has the file's digest and size.
FiledupMember(f) ==
    \E g \in Groups : /\ Kind[g] = "file" /\ f \in LiveMembers(g)
                      /\ \E o \in LiveMembers(g) : o # f

\* Mutant of Copies: extents of whole-file duplicates are loaded too.
Copies_NoExclusion(g) ==
    IF Kind[g] = "extent" THEN LiveMembers(g) \cap extents ELSE LiveMembers(g)

\* The rows of a group a loader can see.  Extents of a whole-file duplicate
\* are excluded, and so are those a whole-file dedupe has dropped.
Copies(g) ==
    CASE Kind[g] = "file"   -> LiveMembers(g)
      [] Kind[g] = "extent" -> {f \in LiveMembers(g) \cap extents : ~FiledupMember(f)}
      [] Kind[g] = "block"  -> LiveMembers(g)

\* order by (flags & 2) desc, nr_extents, id
RankFirst(S) == CHOOSE f \in S : \A o \in S : Rank[f] <= Rank[o]

\* order by dedupe_seq, id
OlderRow(a, b) == seq[a] < seq[b] \/ (seq[a] = seq[b] /\ a <= b)
OldestRow(S) == CHOOSE f \in S : \A o \in S : OlderRow(f, o)

New(g, l, h) == Copies(g) \cap Window(l, h)
UpTo(g, s) == {f \in Copies(g) : seq[f] <= s}
Item(gr, t, rows, h) == [g |-> gr, tgt |-> t, ms |-> rows, hi |-> h]

\* GET_DUPLICATE_FILES: the copies new in the window and the target, elected
\* over all copies; a target that is new itself brings along the copies from
\* before this phase.  A group of which only the target would load is left out.
SameFilesTarget(g) == RankFirst(Copies(g))
SameFilesRows(g, l, h) ==
    LET t == SameFilesTarget(g)
    IN  New(g, l, h) \cup {t} \cup (IF t \in Window(l, h) THEN UpTo(g, first_seq) ELSE {})
\* Mutants of SameFiles.  #197: the oldest copy leads, and in the first window
\* whichever ranks first there.  #272: a new target comes without the copies of
\* earlier runs.
SameFiles_TargetPerWindow(l, h) ==
    LET T(g) == IF UpTo(g, l) # {} THEN OldestRow(UpTo(g, l)) ELSE RankFirst(New(g, l, h))
    IN  {Item(g, T(g), New(g, l, h) \cup {T(g)}, h) :
            g \in {x \in Groups : /\ Kind[x] = "file" /\ New(x, l, h) # {}
                                  /\ New(x, l, h) # {T(x)}}}
SameFiles_WithoutOldCopies(l, h) ==
    {Item(g, SameFilesTarget(g), New(g, l, h) \cup {SameFilesTarget(g)}, h) :
        g \in {x \in Groups : /\ Kind[x] = "file" /\ New(x, l, h) # {}
                              /\ New(x, l, h) # {SameFilesTarget(x)}}}

SameFiles(l, h) ==
    {Item(g, SameFilesTarget(g), SameFilesRows(g, l, h), h) :
        g \in {x \in Groups : /\ Kind[x] = "file" /\ New(x, l, h) # {}
                              /\ SameFilesRows(x, l, h) # {SameFilesTarget(x)}}}

\* GET_DUPLICATE_EXTENTS: the copies new in the window and one older copy, the
\* anchor, as their target.  Without an older copy the first new one leads.
\* Mutant of Anchor (#279): the window's own first copy leads when there is one.
Anchor_PerWindow(g, l, h) == IF New(g, l, h) # {} THEN OldestRow(New(g, l, h)) ELSE OldestRow(UpTo(g, l))

Anchor(g, l, h) == IF UpTo(g, l) # {} THEN OldestRow(UpTo(g, l)) ELSE OldestRow(New(g, l, h))
ExtentHashes(l, h) ==
    {Item(g, Anchor(g, l, h), New(g, l, h) \cup {Anchor(g, l, h)}, h) :
        g \in {x \in Groups : /\ Kind[x] = "extent" /\ New(x, l, h) # {}
                              /\ New(x, l, h) # {Anchor(x, l, h)}}}

\* GET_DUPLICATE_BLOCKS: the same shape, but the anchor is the older copy that
\* was hashed first, which can be any of them.
BlockHashes(l, h, a) ==
    {Item(g, a[g], New(g, l, h) \cup {a[g]}, h) :
        g \in {x \in Groups : /\ Kind[x] = "block" /\ New(x, l, h) # {}
                              /\ New(x, l, h) # {a[x]}}}
BlockAnchors(l, h) ==
    {a \in [Groups -> Files] :
        \A g \in Groups : IF UpTo(g, l) # {} THEN a[g] \in UpTo(g, l)
                          ELSE a[g] = IF New(g, l, h) # {} THEN OldestRow(New(g, l, h)) ELSE 1}

\* A loader that stopped partway: the targets lead, so each group it reached
\* has its target, and the rows up to one of them.
Truncated(its, k) ==
    {[it EXCEPT !.ms = {it.tgt} \cup {m \in it.ms : m # k /\
        IF Kind[it.g] = "extent" THEN OlderRow(m, k) ELSE m < k}] : it \in its}

\* The copies new in a window that have nothing to move onto: those no loader
\* sees, the target the others move onto, the only copy so far.
NothingToDo(kind, l, h) ==
    {p \in Groups \X Files :
        LET g == p[1]  f == p[2]
        IN  /\ Kind[g] = kind /\ f \in Members[g] \cap Window(l, h)
            /\ \/ f \notin Copies(g)
               \/ kind = "file" /\ f = SameFilesTarget(g)
               \/ kind = "extent" /\ UpTo(g, h) = {f}}

FilesOf(its) == UNION {it.ms : it \in its}

-----------------------------------------------------------------------------
(***************************************************************************)
(* A run: scan, prune, then the dedupe phase.                              *)
(***************************************************************************)

\* The statics and the pools of a new process.
NewProcess ==
    /\ inflight' = {} /\ queue' = {} /\ filerecs' = {} /\ searching' = {}
    /\ loaded' = {} /\ topush' = {} /\ dups_tree' = {} /\ open_batch' = NoBatch
    /\ outstanding' = [b \in Seqs |-> {}] /\ held' = [b \in Seqs |-> {}]
    /\ cut_short' = [b \in Seqs |-> FALSE]
    /\ job' = [w \in Workers |-> NoWork] /\ todo' = [w \in Workers |-> {}]
    /\ target' = [w \in Workers |-> NoTarget]
    /\ asleep' = FALSE /\ interrupted' = FALSE
    /\ watermark_frozen' = FALSE /\ load_failed_at' = NoFailure /\ unsaved' = FALSE

Init ==
    /\ storage = [g \in Groups |-> [f \in Files |-> f]]
    /\ gone = {} /\ seq = [f \in Files |-> 0] /\ extents = {}
    /\ nscanned = 0 /\ durable = 0
    /\ settled = {} /\ refused = {} /\ runs = 0 /\ faults = 0
    /\ pc = "dead" /\ first_seq = 0 /\ lo = 0 /\ max = 0 /\ dedupe_seq = 0
    /\ inflight = {} /\ queue = {} /\ filerecs = {} /\ searching = {}
    /\ loaded = {} /\ topush = {} /\ dups_tree = {} /\ open_batch = NoBatch
    /\ outstanding = [b \in Seqs |-> {}] /\ held = [b \in Seqs |-> {}]
    /\ cut_short = [b \in Seqs |-> FALSE]
    /\ job = [w \in Workers |-> NoWork] /\ todo = [w \in Workers |-> {}]
    /\ target = [w \in Workers |-> NoTarget]
    /\ asleep = FALSE /\ interrupted = FALSE
    /\ watermark_frozen = FALSE /\ load_failed_at = NoFailure /\ unsaved = FALSE

\* scan_next_seq: generations above the watermark, in scan order, without gaps.
Generations(n) ==
    {s \in [nscanned + 1 .. nscanned + n -> Seqs] :
        \A i \in DOMAIN s :
            /\ s[i] > durable
            /\ s[i] - (IF i = nscanned + 1 THEN durable + 1 ELSE s[i - 1]) \in {0, 1}}

\* main() up to dedupe_phase_begin(): the watermark is read, n more files are
\* scanned, the last generation is looked up, and the rows of deleted files are
\* pruned.
StartRun ==
    /\ pc \in {"over", "dead"} /\ runs < MaxRuns
    /\ runs' = runs + 1
    /\ \E n \in 0 .. NFiles - nscanned : \E s \in Generations(n) :
        LET scanned == [f \in Files |-> IF f \in DOMAIN s THEN s[f] ELSE seq[f]]
        IN  /\ nscanned' = nscanned + n
            /\ max' = Max({scanned[f] : f \in Files} \cup {0})
            /\ seq' = [f \in Files |-> IF f \in gone THEN 0 ELSE scanned[f]]
            /\ extents' = (extents \cup DOMAIN s) \ gone
    /\ first_seq' = durable /\ lo' = durable /\ dedupe_seq' = durable
    /\ pc' = "loop"
    /\ NewProcess
    /\ UNCHANGED <<storage, gone, durable, settled, refused, faults>>

\* A handled signal only sets the flag; a second one, SIGKILL or a power loss
\* ends the process where it stands.
Running == pc \notin {"over", "dead"}
Interrupt == /\ Running /\ ~interrupted
             /\ interrupted' = TRUE
             /\ UNCHANGED <<disk, history, pc, window, trees, asleep, verdict,
                            batches, queue, jobs, records>>
Kill == /\ Running
        /\ pc' = "dead"
        /\ first_seq' = 0 /\ lo' = 0 /\ max' = 0 /\ dedupe_seq' = 0
        /\ NewProcess
        /\ UNCHANGED <<disk, history>>

\* Somebody else deletes a file.
Delete(f) ==
    /\ faults < MaxFaults /\ f <= nscanned /\ f \notin gone
    /\ gone' = gone \cup {f} /\ faults' = faults + 1
    /\ UNCHANGED <<storage, seq, extents, nscanned, durable, settled, refused, runs,
                   pc, window, trees, asleep, interrupted, verdict, batches, queue,
                   jobs, records>>

-----------------------------------------------------------------------------
(***************************************************************************)
(* The producer: stream_duplicates().                                      *)
(***************************************************************************)

\* Mutant of LoopHead: the last window is taken for past the end.
LoopHead_OffByOne ==
    /\ pc = "loop"
    /\ pc' = IF lo + 1 < max /\ ~interrupted THEN "await" ELSE "end"
    /\ UNCHANGED <<disk, history, window, trees, asleep, interrupted, verdict,
                   batches, queue, jobs, records>>

\* The loop's condition, and the interrupted() that breaks it.
LoopHead ==
    /\ pc = "loop"
    /\ pc' = IF lo < max /\ ~interrupted THEN "await" ELSE "end"
    /\ UNCHANGED <<disk, history, window, trees, asleep, interrupted, verdict,
                   batches, queue, jobs, records>>

\* Batches are sealed in generation order, so the front of the FIFO is the
\* least of them.
Front == CHOOSE b \in inflight : \A o \in inflight : b <= o
FrontReady == inflight # {} /\ outstanding[Front] = {}

\* dedupe_advance_seq: the in-memory watermark always moves, the row in the
\* hashfile unless the write fails.
Capped(hi) == IF load_failed_at # NoFailure /\ hi > load_failed_at THEN load_failed_at ELSE hi
AdvanceSeq(hi) ==
    IF Capped(hi) <= dedupe_seq THEN UNCHANGED <<dedupe_seq, durable, unsaved, faults>>
    ELSE /\ dedupe_seq' = Capped(hi)
         /\ \/ durable' = dedupe_seq' /\ unsaved' = FALSE /\ UNCHANGED faults
            \/ /\ faults < MaxFaults /\ faults' = faults + 1
               /\ unsaved' = TRUE /\ UNCHANGED durable

\* Mutant of Unheld: filerec_put frees at the first put.
Unheld_FirstPut(b) == held[b]

\* What the filerecs are reduced to when b's references go.
Unheld(b) == {f \in held[b] : \A o \in Seqs \ {b} : f \notin held[o]}

\* Mutant of FreeBatch: only the batch that was cut short leaves the watermark.
FreeBatch_FreezesOnce(b) ==
    /\ inflight' = inflight \ {b}
    /\ watermark_frozen' = cut_short[b]
    /\ IF watermark_frozen' THEN UNCHANGED <<dedupe_seq, durable, unsaved, faults>>
       ELSE AdvanceSeq(b)
    /\ filerecs' = filerecs \ Unheld(b)
    /\ held' = [held EXCEPT ![b] = {}]

\* free_batch for the front batch, taken by reap_ready_locked.
FreeBatch(b) ==
    /\ inflight' = inflight \ {b}
    /\ watermark_frozen' = (watermark_frozen \/ cut_short[b])
    /\ IF watermark_frozen' THEN UNCHANGED <<dedupe_seq, durable, unsaved, faults>>
       ELSE AdvanceSeq(b)
    /\ filerecs' = filerecs \ Unheld(b)
    /\ held' = [held EXCEPT ![b] = {}]

Reaping == {"await", "drain", "sealed", "end"}
Reap ==
    /\ pc \in Reaping /\ ~asleep /\ FrontReady
    /\ FreeBatch(Front)
    /\ UNCHANGED <<storage, gone, seq, extents, nscanned, settled, refused, runs, pc,
                   window, trees, asleep, interrupted, load_failed_at, outstanding,
                   cut_short, queue, jobs, dups_tree, searching>>

\* The conditions dedupe_await_slot and dedupe_drain wait under.
Blocked == IF pc = "await" THEN Cardinality(inflight) >= MaxInflight ELSE inflight # {}

\* g_cond_wait, entered under the mutex that the last worker needs to signal.
Wait ==
    /\ pc \in {"await", "drain", "end"} /\ ~asleep /\ ~FrontReady /\ Blocked
    /\ asleep' = TRUE
    /\ UNCHANGED <<disk, history, pc, window, trees, interrupted, verdict, batches,
                   queue, jobs, records>>

\* The upper end of the next window.
Hi == IF lo + Stride < max THEN lo + Stride ELSE max

\* Leaving dedupe_await_slot: the block search wants a drain first, otherwise
\* the next batch begins.
AwaitSlot ==
    /\ pc = "await" /\ ~asleep /\ ~FrontReady /\ ~Blocked
    /\ IF DoBlockHash THEN pc' = "drain" /\ UNCHANGED open_batch
                      ELSE pc' = "load_files" /\ open_batch' = Hi
    /\ UNCHANGED <<disk, history, first_seq, lo, max, trees, asleep, interrupted,
                   verdict, batches, queue, jobs, records>>
Drain ==
    /\ pc = "drain" /\ ~asleep /\ ~Blocked
    /\ pc' = "load_files" /\ open_batch' = Hi
    /\ UNCHANGED <<disk, history, first_seq, lo, max, trees, asleep, interrupted,
                   verdict, batches, queue, jobs, records>>

\* Mutant of LoadFailed: the window's upper bound is kept.
LoadFailed_UpperBound == IF load_failed_at = NoFailure \/ lo < load_failed_at THEN Hi ELSE load_failed_at

\* load_failed(): the lowest window a load has failed in.
LoadFailed == IF load_failed_at = NoFailure \/ lo < load_failed_at THEN lo ELSE load_failed_at

\* A load of one kind: its groups enter the batch's tree, their files the
\* filerec table.  A load that fails leaves what it had.
Load(kind, its, next) ==
    /\ \/ /\ loaded' = loaded \cup its
          /\ settled' = settled \cup NothingToDo(kind, lo, Hi)
          /\ UNCHANGED <<load_failed_at, faults>>
       \/ /\ faults < MaxFaults /\ faults' = faults + 1
          /\ \E k \in Files : loaded' = loaded \cup Truncated(its, k)
          /\ load_failed_at' = LoadFailed
          /\ UNCHANGED settled
    /\ filerecs' = filerecs \cup FilesOf(loaded')
    /\ pc' = next
    /\ UNCHANGED <<disk, refused, runs, window, topush, asleep, interrupted,
                   watermark_frozen, dedupe_seq, unsaved, batches, queue, jobs, dups_tree,
                   searching>>

LoadSameFiles == pc = "load_files" /\ Load("file", SameFiles(lo, Hi), "hold_files")
LoadExtentHashes ==
    /\ pc = "load_extents"
    /\ Load("extent", ExtentHashes(lo, Hi), IF DoBlockHash THEN "load_blocks" ELSE "hold_extents")

\* dbfile_load_block_hashes, then find_additional_dedupe pushes one search job
\* per file with blocks; after a failed load there is no search.
LoadBlockHashes ==
    /\ pc = "load_blocks"
    /\ \E a \in BlockAnchors(lo, Hi) :
        LET its == BlockHashes(lo, Hi, a)
        IN  \/ /\ dups_tree' = its /\ searching' = FilesOf(its)
               /\ filerecs' = filerecs \cup FilesOf(its)
               /\ pc' = "search"
               /\ UNCHANGED <<load_failed_at, faults>>
            \/ /\ faults < MaxFaults /\ faults' = faults + 1
               /\ \E k \in Files : filerecs' = filerecs \cup FilesOf(Truncated(its, k))
               /\ load_failed_at' = LoadFailed
               /\ pc' = "hold_extents"
               /\ UNCHANGED <<dups_tree, searching>>
    /\ UNCHANGED <<disk, settled, refused, runs, window, trees, asleep, interrupted,
                   watermark_frozen, dedupe_seq, unsaved, batches, queue, jobs>>

\* A thread of search_pool compares one file's blocks.
SearchFile(f) ==
    /\ f \in searching
    /\ searching' = searching \ {f}
    /\ UNCHANGED <<disk, history, pc, window, trees, asleep, interrupted, verdict,
                   batches, queue, jobs, filerecs, dups_tree>>

\* Mutant of SearchDone (#123): it returns while the search still runs.
SearchDone_NoWait ==
    /\ pc = "search"
    /\ \E found \in SUBSET dups_tree : loaded' = loaded \cup found
    /\ dups_tree' = {}
    /\ pc' = "hold_extents"
    /\ UNCHANGED <<disk, history, window, topush, asleep, interrupted, verdict,
                   batches, queue, jobs, filerecs, searching>>

\* threads_pool_wait_idle returned: the groups the search made of the shared
\* blocks, which can be any of them, are in the extent tree.
SearchDone ==
    /\ pc = "search" /\ searching = {}
    /\ \E found \in SUBSET dups_tree : loaded' = loaded \cup found
    /\ dups_tree' = {}
    /\ pc' = "hold_extents"
    /\ UNCHANGED <<disk, history, window, topush, asleep, interrupted, verdict,
                   batches, queue, jobs, filerecs, searching>>

\* push_results, first walk: a reference on every filerec of the tree; groups
\* of one member are not pushed.
HoldFilerecs ==
    /\ pc \in {"hold_files", "hold_extents"}
    /\ held' = [held EXCEPT ![open_batch] = @ \cup FilesOf(loaded)]
    /\ topush' = {it \in loaded : it.ms # {it.tgt}}
    /\ loaded' = {}
    /\ pc' = IF pc = "hold_files" THEN "push_files" ELSE "push_extents"
    /\ UNCHANGED <<disk, history, window, asleep, interrupted, verdict, inflight,
                   outstanding, cut_short, queue, jobs, records>>

\* push_results, one pushed item: it is counted before a worker can see it.
PushItem(it) ==
    /\ pc \in {"push_files", "push_extents"} /\ it \in topush
    /\ topush' = topush \ {it}
    /\ outstanding' = [outstanding EXCEPT ![open_batch] = @ \cup {it}]
    /\ queue' = queue \cup {it}
    /\ UNCHANGED <<disk, history, pc, window, loaded, asleep, interrupted, verdict,
                   inflight, cut_short, held, jobs, records>>

FilesPushed ==
    /\ pc = "push_files" /\ topush = {}
    /\ pc' = IF OnlyWholeFiles THEN "seal" ELSE "load_extents"
    /\ UNCHANGED <<disk, history, window, trees, asleep, interrupted, verdict,
                   batches, queue, jobs, records>>

\* Mutant of ExtentsPushed: what the search matched to nothing stays listed.
ExtentsPushed_KeepUnreferenced ==
    /\ pc = "push_extents" /\ topush = {}
    /\ pc' = "seal"
    /\ UNCHANGED <<disk, history, window, trees, asleep, interrupted, verdict,
                   batches, queue, jobs, records>>

\* filerec_free_unreferenced closes a load with a block search.
ExtentsPushed ==
    /\ pc = "push_extents" /\ topush = {}
    /\ filerecs' = IF DoBlockHash THEN filerecs \cap UNION {held[b] : b \in Seqs} ELSE filerecs
    /\ pc' = "seal"
    /\ UNCHANGED <<disk, history, window, trees, asleep, interrupted, verdict,
                   batches, queue, jobs, dups_tree, searching>>

\* dedupe_seal_batch up to its reaping.
SealBatch ==
    /\ pc = "seal"
    /\ inflight' = inflight \cup {open_batch}
    /\ open_batch' = NoBatch
    /\ pc' = "sealed"
    /\ UNCHANGED <<disk, history, first_seq, lo, max, trees, asleep, interrupted,
                   verdict, outstanding, cut_short, held, queue, jobs, records>>

\* Nothing more to reap in dedupe_seal_batch: on to the next window.
NextWindow ==
    /\ pc = "sealed" /\ ~FrontReady
    /\ lo' = lo + Stride
    /\ pc' = "loop"
    /\ UNCHANGED <<disk, history, first_seq, max, open_batch, trees, asleep,
                   interrupted, verdict, batches, queue, jobs, records>>

\* dedupe_phase_end has drained, and the process exits.
EndRun ==
    /\ pc = "end" /\ ~asleep /\ ~Blocked
    /\ pc' = "over"
    /\ UNCHANGED <<disk, history, window, trees, asleep, interrupted, verdict,
                   batches, queue, jobs, records>>

-----------------------------------------------------------------------------
(***************************************************************************)
(* The workers: dedupe_worker_body().                                      *)
(***************************************************************************)

\* outstanding-- and batch_maybe_complete_locked(), under producer_mutex.
ItemDone(it) ==
    /\ outstanding' = [outstanding EXCEPT ![it.hi] = @ \ {it}]
    /\ asleep' = (asleep /\ ~(outstanding'[it.hi] = {} /\ it.hi \in inflight))

\* The pool hands an item to an idle thread.
TakeItem(w, it) ==
    /\ job[w] = NoWork /\ it \in queue /\ ~interrupted
    /\ queue' = queue \ {it}
    /\ job' = [job EXCEPT ![w] = it]
    /\ todo' = [todo EXCEPT ![w] = it.ms]
    /\ target' = [target EXCEPT ![w] = NoTarget]
    /\ UNCHANGED <<disk, history, pc, window, trees, asleep, interrupted, verdict,
                   batches, records>>

\* Mutant of SkipItem: the last item skipped does not wake the producer.
SkipItem_NoSignal(w, it) ==
    /\ job[w] = NoWork /\ it \in queue /\ interrupted
    /\ queue' = queue \ {it}
    /\ cut_short' = [cut_short EXCEPT ![it.hi] = TRUE]
    /\ outstanding' = [outstanding EXCEPT ![it.hi] = @ \ {it}]
    /\ UNCHANGED <<disk, history, pc, window, trees, asleep, interrupted, verdict,
                   inflight, held, jobs, records>>

\* After a signal a queued group is left for the next run.
SkipItem(w, it) ==
    /\ job[w] = NoWork /\ it \in queue /\ interrupted
    /\ queue' = queue \ {it}
    /\ cut_short' = [cut_short EXCEPT ![it.hi] = TRUE]
    /\ ItemDone(it)
    /\ UNCHANGED <<disk, history, pc, window, trees, interrupted, verdict, inflight,
                   held, jobs, records>>

\* The list order of a group: the loader's target, then the order of its rows.
NextMember(w) ==
    LET rest == todo[w]
    IN  IF job[w].tgt \in rest THEN job[w].tgt
        ELSE IF Kind[job[w].g] = "file" THEN Min(rest) ELSE OldestRow(rest)

\* dedupe_extent_list for one member.  The first that opens is the target; a
\* deleted one loses its row; the others move onto the target's extents.  One
\* that cannot be opened, has changed since the scan or that the kernel refuses
\* is passed over; when that is the loader's target, so may be the whole item.
DedupeMember(w) ==
    /\ job[w] # NoWork /\ todo[w] # {}
    /\ LET m == NextMember(w)
           g == job[w].g
       IN  /\ todo' = [todo EXCEPT ![w] = @ \ {m}]
           /\ \/ /\ m \in gone
                 /\ seq' = [seq EXCEPT ![m] = 0]
                 /\ extents' = extents \ {m}
                 /\ UNCHANGED <<storage, refused, faults, target>>
              \/ /\ m \notin gone /\ target[w] = NoTarget
                 /\ target' = [target EXCEPT ![w] = m]
                 /\ UNCHANGED <<storage, seq, extents, refused, faults>>
              \/ /\ m \notin gone /\ target[w] # NoTarget
                 /\ storage' = [storage EXCEPT ![g][m] = storage[g][target[w]]]
                 /\ UNCHANGED <<seq, extents, refused, faults, target>>
              \/ /\ m \notin gone
                 /\ faults < MaxFaults /\ faults' = faults + 1
                 /\ refused' = refused \cup
                        ({g} \X IF m = job[w].tgt THEN job[w].ms ELSE {m})
                 /\ UNCHANGED <<storage, seq, extents, target>>
    /\ UNCHANGED <<gone, nscanned, durable, settled, runs, pc, window, trees, asleep,
                   interrupted, verdict, batches, queue, job, records>>

\* The group is done: a whole-file dedupe drops its members' extent rows, and
\* the item is counted off.
FinishItem(w) ==
    /\ job[w] # NoWork /\ todo[w] = {}
    /\ extents' = IF Kind[job[w].g] = "file" THEN extents \ job[w].ms ELSE extents
    /\ settled' = settled \cup ({job[w].g} \X job[w].ms)
    /\ job' = [job EXCEPT ![w] = NoWork]
    /\ target' = [target EXCEPT ![w] = NoTarget]
    /\ ItemDone(job[w])
    /\ UNCHANGED <<storage, gone, seq, nscanned, durable, refused, runs, faults, pc,
                   window, trees, interrupted, verdict, inflight, cut_short, held,
                   queue, todo, records>>

-----------------------------------------------------------------------------

\* The last run has ended.
Finished == /\ ~Running /\ runs = MaxRuns
            /\ UNCHANGED vars

Producer ==
    \/ LoopHead \/ Reap \/ Wait \/ AwaitSlot \/ Drain
    \/ LoadSameFiles \/ LoadExtentHashes \/ LoadBlockHashes \/ SearchDone
    \/ HoldFilerecs \/ (\E it \in topush : PushItem(it)) \/ FilesPushed
    \/ ExtentsPushed \/ SealBatch \/ NextWindow \/ EndRun
Worker(w) ==
    \/ \E it \in queue : TakeItem(w, it) \/ SkipItem(w, it)
    \/ DedupeMember(w) \/ FinishItem(w)
Searcher == \E f \in searching : SearchFile(f)
Environment == Interrupt \/ Kill \/ (\E f \in Files : Delete(f))

Next == \/ StartRun \/ Producer \/ Searcher \/ Environment \/ Finished
        \/ \E w \in Workers : Worker(w)

Spec == Init /\ [][Next]_vars

\* The kernel schedules every runnable thread, and g_cond_signal wakes a waiter.
\* Nothing makes a signal, a crash or another run happen.
Fairness == /\ WF_vars(Producer) /\ WF_vars(Searcher)
            /\ \A w \in Workers : WF_vars(Worker(w))
FairSpec == Spec /\ Fairness

-----------------------------------------------------------------------------
(***************************************************************************)
(* What the phase promises.                                                *)
(***************************************************************************)

PCs == {"over", "dead", "loop", "await", "drain", "load_files", "hold_files",
        "push_files", "load_extents", "load_blocks", "search", "hold_extents",
        "push_extents", "seal", "sealed", "end"}

\* The type of every variable.
TypeOK ==
    /\ storage \in [Groups -> [Files -> Files]]
    /\ gone \subseteq Files /\ extents \subseteq Files
    /\ seq \in [Files -> 0 .. MaxSeq]
    /\ nscanned \in 0 .. NFiles /\ durable \in 0 .. MaxSeq
    /\ settled \subseteq Groups \X Files /\ refused \subseteq Groups \X Files
    /\ runs \in 0 .. MaxRuns /\ faults \in 0 .. MaxFaults
    /\ pc \in PCs
    /\ first_seq \in 0 .. MaxSeq /\ lo \in Nat /\ max \in 0 .. MaxSeq
    /\ dedupe_seq \in 0 .. MaxSeq /\ open_batch \in 0 .. MaxSeq
    /\ loaded \subseteq Items /\ topush \subseteq Items /\ dups_tree \subseteq Items
    /\ asleep \in BOOLEAN /\ interrupted \in BOOLEAN
    /\ watermark_frozen \in BOOLEAN /\ unsaved \in BOOLEAN
    /\ load_failed_at \in -1 .. MaxSeq
    /\ inflight \subseteq Seqs
    /\ outstanding \in [Seqs -> SUBSET Items]
    /\ cut_short \in [Seqs -> BOOLEAN]
    /\ held \in [Seqs -> SUBSET Files]
    /\ queue \subseteq Items
    /\ job \in [Workers -> Items \cup {NoWork}]
    /\ target \in [Workers -> Files \cup {NoTarget}]
    /\ todo \in [Workers -> SUBSET Files]
    /\ filerecs \subseteq Files /\ searching \subseteq Files

\* The kinds of groups a run without a block search loads.
Loads(g) == Kind[g] = "file" \/ (Kind[g] = "extent" /\ ~OnlyWholeFiles)

\* The Ctrl+C invariant of run_dedupe.c: the durable watermark names a prefix
\* of generations in which every copy of a group was handed to a worker that
\* finished with it, or found to have nothing to share with.  The next run
\* loads nothing at or below it, whatever interrupted this one.
WatermarkSound ==
    \A g \in Groups : \A f \in LiveMembers(g) :
        Loads(g) /\ seq[f] <= durable => <<g, f>> \in settled

\* A filerec in use is one that has not been freed: by a worker, by the tree of
\* the batch that is being loaded, or by the block search (#123, #227).
InUse == FilesOf(loaded) \cup FilesOf(topush) \cup FilesOf(queue) \cup searching
         \cup FilesOf(dups_tree) \cup UNION {job[w].ms : w \in {v \in Workers : job[v] # NoWork}}
NoUseAfterFree == InUse \subseteq filerecs

\* The block search walks the global filerec list, and stream_load_batch says
\* that list holds only this window's files: those of the batch being loaded.
SearchScope ==
    pc = "search" => filerecs = FilesOf(loaded) \cup FilesOf(dups_tree) \cup held[open_batch]

\* The whole-file and the extent groups in flight work on disjoint sets of
\* files, although the extents are loaded before the whole files are done.
InFlight == queue \cup ({job[w] : w \in Workers} \ {NoWork})
DisjointPasses ==
    gone = {} => \A i, j \in InFlight :
        Kind[i.g] = "file" /\ Kind[j.g] = "extent" => i.ms \cap j.ms = {}

\* A process that ended by itself, was not interrupted and could read the
\* hashfile, which is what its exit status says.
CleanExit == pc = "over" /\ ~interrupted /\ load_failed_at = NoFailure

\* A group of extents that has lost a copy to a whole-file group, and of which a
\* worker had to pass over another: that other one may lead what comes later.
Apart(g) == /\ Kind[g] = "extent" /\ \E f \in LiveMembers(g) : FiledupMember(f)
            /\ \E f \in Files : <<g, f>> \in refused

\* After such a run all copies of a group are on one copy's storage, however
\* many runs, windows and workers it took and whatever happened to the earlier
\* runs; only what a worker had to pass over may be left apart.
Together(g) ==
    \A a, b \in Copies(g) : <<g, a>> \in refused \/ <<g, b>> \in refused
                            \/ storage[g][a] = storage[g][b]
Convergence ==
    CleanExit /\ gone = {} => \A g \in Groups : Loads(g) /\ ~Apart(g) => Together(g)

\* And the next run has nothing to do over again: every generation is at or
\* below the watermark it will read.  A window whose watermark could not be
\* written is made good by the next one that is; only when the last write of all
\* fails does the exit, clean to main(), leave the hashfile behind.
ExitMeansDone == CleanExit /\ ~unsaved => \A f \in Live : seq[f] <= durable

\* "The target is never a destination, so it never moves underneath anyone":
\* no step moves a copy that a group in flight dedupes against.
TargetStays ==
    [][gone = {} => \A it \in InFlight :
         storage'[it.g][it.tgt] = storage[it.g][it.tgt]]_vars

\* No wakeup is lost and no batch is left waiting: a dedupe phase always ends,
\* interrupted or not.
PhaseEnds == (pc = "loop") ~> ~Running
============================================================================
