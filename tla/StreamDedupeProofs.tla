------------------------- MODULE StreamDedupeProofs -------------------------
(***************************************************************************)
(* Proofs about StreamDedupe, for every number of files, groups, workers,  *)
(* runs and faults.                                                        *)
(*                                                                         *)
(* WatermarkSound is not inductive.  What makes it so is Accounted: in a   *)
(* running phase every copy of the windows loaded so far is settled, or    *)
(* the verdict already keeps the watermark below it, or it is still in the *)
(* hands of one batch, the first in flight that reaches its generation.    *)
(*                                                                         *)
(* On that invariant stand, each with what it adds:                        *)
(*   - Memory: which batch lists and counts an item, and so holds its files *)
(*     (NoUseAfterFree);                                                   *)
(*   - Scope: which of them the filerec table lists (SearchScope);         *)
(*   - Targets: what the loaders answered is still true of the items in    *)
(*     hand (DisjointPasses, TargetStays);                                 *)
(*   - Exit: how far the watermark or the batches in flight have come      *)
(*     (ExitMeansDone);                                                    *)
(*   - Conv: every copy that a window has brought together with the copy   *)
(*     that leads its group is on the leader's storage or still pending    *)
(*     (Convergence).                                                      *)
(***************************************************************************)
EXTENDS StreamDedupe, LeastElements

-----------------------------------------------------------------------------
(***************************************************************************)
(* The inductive invariant.                                                *)
(***************************************************************************)

\* Where a batch is open, and where the producer works on a window.
Loading == {"load_files", "hold_files", "push_files", "load_extents", "load_blocks",
            "search", "hold_extents", "push_extents", "seal"}
InWindow == Loading \cup {"await", "drain", "sealed"}

\* The producer's position, its open batch and its window fit together.
Phase ==
    /\ pc \in InWindow => lo < max
    /\ open_batch = IF pc \in Loading THEN Hi ELSE NoBatch
    /\ Running => \A f \in Files : seq[f] <= max
    /\ Running => \A b \in inflight : b <= IF pc = "sealed" THEN Hi ELSE lo
    /\ \A it \in loaded : Kind[it.g] # "block" /\ it.ms = {it.tgt} =>
           load_failed_at # NoFailure /\ load_failed_at <= lo
    /\ \A it \in dups_tree : Kind[it.g] = "block"
    /\ loaded # {} => pc \in {"hold_files", "load_blocks", "search", "hold_extents"}
    /\ topush # {} => pc \in {"push_files", "push_extents"}

\* How far the group's kind has been loaded.
FilesLoaded == {"hold_files", "push_files", "load_extents"}
AllLoaded == {"load_blocks", "search", "hold_extents", "push_extents", "seal", "sealed"}
Loaded(g) ==
    IF pc \in AllLoaded \/ (pc \in FilesLoaded /\ Kind[g] = "file") THEN Hi ELSE lo

\* The watermark will not pass generation d in this run.
Excused(d) == watermark_frozen \/ (load_failed_at # NoFailure /\ load_failed_at < d)

\* A work item, or a loaded group, with f's copy of g among its members.
Covers(its, g, f) == \E it \in its : it.g = g /\ f \in it.ms

\* Batch b is the one before which the watermark will not pass generation d,
\* and f's copy of g is in its hands.
OpenBatch(b) == b = open_batch /\ open_batch # NoBatch
AnswersFor(b, g, f, d) ==
    /\ d <= b /\ \A o \in inflight : o < b => o < d
    /\ \/ cut_short[b]
       \/ Covers(outstanding[b], g, f)
       \/ OpenBatch(b) /\ lo < d /\ Covers(loaded \cup topush, g, f)

\* Work on f's copy of g is still due when the watermark comes to generation d,
\* or the watermark will not come there.
Pending(g, f, d) ==
    \/ Excused(d)
    \/ \E b \in Seqs : (b \in inflight \/ OpenBatch(b)) /\ AnswersFor(b, g, f, d)

\* Nothing is lost when the watermark passes f, or it will not pass f.
Safe(g, f) == <<g, f>> \in settled \/ Pending(g, f, seq[f])

Accounted ==
    Running => \A g \in Groups : \A f \in LiveMembers(g) :
        Loads(g) /\ seq[f] <= Loaded(g) => Safe(g, f)

IInv == TypeOK /\ Phase /\ Accounted /\ WatermarkSound

\* The tuples of variables that UNCHANGED clauses name.
USE DEF vars, disk, history, window, trees, verdict, batches, jobs, records

-----------------------------------------------------------------------------
(***************************************************************************)
(* Least and greatest elements, which the CHOOSE expressions pick.         *)
(***************************************************************************)

LEMMA FrontIn ==
    ASSUME inflight \in SUBSET Seqs, inflight # {}
    PROVE  Front \in inflight /\ \A o \in inflight : Front <= o
<1>1. inflight \in SUBSET Nat
  BY ConstantsOK DEF Seqs
<1>2. \E b \in inflight : \A o \in inflight : b <= o
  BY <1>1, LeastNat
<1>. QED BY <1>2 DEF Front

LEMMA RankFirstIn ==
    ASSUME NEW S \in SUBSET Files, S # {}
    PROVE  RankFirst(S) \in S /\ \A o \in S : Rank[RankFirst(S)] <= Rank[o]
<1>. DEFINE T == {Rank[f] : f \in S}
<1>1. T \in SUBSET Nat /\ T # {}
  BY ConstantsOK
<1>2. PICK r \in T : \A o \in T : r <= o
  BY <1>1, LeastNat
<1>3. PICK f \in S : r = Rank[f]
  OBVIOUS
<1>4. \A o \in S : Rank[f] <= Rank[o]
  BY <1>2, <1>3
<1>. QED BY <1>4 DEF RankFirst

LEMMA OldestRowIn ==
    ASSUME NEW S \in SUBSET Files, S # {}, seq \in [Files -> 0 .. MaxSeq]
    PROVE  OldestRow(S) \in S /\ \A o \in S : OlderRow(OldestRow(S), o)
<1>. DEFINE T == {seq[f] : f \in S}
<1>1. T \in SUBSET Nat /\ T # {}
  BY ConstantsOK
<1>2. PICK r \in T : \A o \in T : r <= o
  BY <1>1, LeastNat
<1>. DEFINE U == {f \in S : seq[f] = r}
<1>3. U \in SUBSET Nat
  <2>1. \A f \in S : f \in Nat
    BY ConstantsOK DEF Files
  <2>. QED BY <2>1
<1>4. U # {}
  BY <1>2
<1>5. PICK f \in U : \A o \in U : f <= o
  BY <1>3, <1>4, LeastNat
<1>6. \A o \in S : OlderRow(f, o)
  <2>. SUFFICES ASSUME NEW o \in S PROVE OlderRow(f, o)
    OBVIOUS
  <2>1. seq[f] = r /\ seq[f] <= seq[o] /\ seq[o] \in Nat /\ seq[f] \in Nat
    BY <1>1, <1>2
  <2>2. CASE seq[o] = r
    BY <1>5, <2>1, <2>2 DEF OlderRow
  <2>3. CASE seq[o] # r
    BY <2>1, <2>3 DEF OlderRow
  <2>. QED BY <2>2, <2>3
<1>. QED BY <1>6 DEF OldestRow

\* A window ends above where it starts, at most Stride further, at max at most.
LEMMA HiBounds ==
    ASSUME lo \in Nat, max \in 0 .. MaxSeq, lo < max
    PROVE  Hi \in Seqs /\ lo < Hi /\ Hi <= max /\ Hi <= lo + Stride
BY ConstantsOK DEF Hi, Seqs

-----------------------------------------------------------------------------
(***************************************************************************)
(* Types of what the actions are built from.                               *)
(***************************************************************************)

LEMMA HiType ==
    ASSUME TypeOK, Phase, pc \in InWindow
    PROVE  /\ Hi \in Seqs /\ lo < Hi /\ Hi <= max /\ Hi <= lo + Stride
           /\ lo \in 0 .. MaxSeq
BY HiBounds, ConstantsOK DEF TypeOK, Phase

LEMMA LoadersType ==
    ASSUME TypeOK, Phase, pc \in InWindow
    PROVE  /\ SameFiles(lo, Hi) \subseteq Items
           /\ ExtentHashes(lo, Hi) \subseteq Items
           /\ \A a \in BlockAnchors(lo, Hi) : BlockHashes(lo, Hi, a) \subseteq Items
<1>. Hi \in Seqs
  BY HiType
<1>1. \A g \in Groups : Copies(g) \subseteq Files
  BY ConstantsOK DEF Copies, LiveMembers, Live, Kinds
<1>2. \A g \in Groups : New(g, lo, Hi) \subseteq Copies(g) /\ UpTo(g, lo) \subseteq Copies(g)
                        /\ UpTo(g, first_seq) \subseteq Copies(g)
  BY DEF New, UpTo
<1>3. SameFiles(lo, Hi) \subseteq Items
  <2>1. \A g \in Groups : New(g, lo, Hi) # {} => SameFilesTarget(g) \in Files
    BY <1>1, <1>2, RankFirstIn DEF SameFilesTarget
  <2>2. \A g \in Groups : New(g, lo, Hi) # {} => SameFilesRows(g, lo, Hi) \subseteq Files
    BY <1>1, <1>2, <2>1 DEF SameFilesRows
  <2>. QED BY <2>1, <2>2 DEF SameFiles, Item, Items
<1>4. ExtentHashes(lo, Hi) \subseteq Items
  <2>1. \A g \in Groups : New(g, lo, Hi) # {} => Anchor(g, lo, Hi) \in Files
    BY <1>1, <1>2, OldestRowIn DEF Anchor, TypeOK
  <2>2. \A g \in Groups : New(g, lo, Hi) \subseteq Files
    BY <1>1, <1>2
  <2>. QED BY <2>1, <2>2 DEF ExtentHashes, Item, Items
<1>5. \A a \in BlockAnchors(lo, Hi) : BlockHashes(lo, Hi, a) \subseteq Items
  <2>. SUFFICES ASSUME NEW a \in BlockAnchors(lo, Hi)
                PROVE  BlockHashes(lo, Hi, a) \subseteq Items
    OBVIOUS
  <2>1. \A g \in Groups : a[g] \in Files
    BY DEF BlockAnchors
  <2>2. \A g \in Groups : New(g, lo, Hi) \subseteq Files
    BY <1>1, <1>2
  <2>. QED BY <2>1, <2>2 DEF BlockHashes, Item, Items
<1>. QED BY <1>3, <1>4, <1>5

LEMMA TruncatedType ==
    ASSUME NEW its \in SUBSET Items, NEW k \in Files
    PROVE  Truncated(its, k) \subseteq Items
BY DEF Truncated, Items

LEMMA FilesOfType ==
    ASSUME NEW its \in SUBSET Items
    PROVE  FilesOf(its) \subseteq Files
BY DEF FilesOf, Items

\* The member a worker turns to is one it has still to do.
LEMMA NextMemberType ==
    ASSUME TypeOK, NEW w \in Workers, job[w] # NoWork, todo[w] # {}
    PROVE  NextMember(w) \in todo[w] /\ NextMember(w) \in Files
<1>1. todo[w] \subseteq Files /\ Files \subseteq Nat
  BY ConstantsOK DEF TypeOK, Files
<1>2. todo[w] \in SUBSET Nat
  BY <1>1
<1>3. Min(todo[w]) \in todo[w]
  BY <1>2, MinIn
<1>4. OldestRow(todo[w]) \in todo[w]
  BY <1>1, OldestRowIn DEF TypeOK
<1>. QED BY <1>1, <1>3, <1>4 DEF NextMember

-----------------------------------------------------------------------------
(***************************************************************************)
(* Types are preserved.                                                    *)
(***************************************************************************)

LEMMA NewProcessType ==
    ASSUME NewProcess
    PROVE  /\ open_batch' \in 0 .. MaxSeq
           /\ loaded' \subseteq Items /\ topush' \subseteq Items /\ dups_tree' \subseteq Items
           /\ asleep' \in BOOLEAN /\ interrupted' \in BOOLEAN /\ watermark_frozen' \in BOOLEAN
           /\ load_failed_at' \in -1 .. MaxSeq /\ unsaved' \in BOOLEAN
           /\ inflight' \subseteq Seqs
           /\ outstanding' \in [Seqs -> SUBSET Items]
           /\ cut_short' \in [Seqs -> BOOLEAN]
           /\ held' \in [Seqs -> SUBSET Files]
           /\ queue' \subseteq Items
           /\ job' \in [Workers -> Items \cup {NoWork}]
           /\ target' \in [Workers -> Files \cup {NoTarget}]
           /\ todo' \in [Workers -> SUBSET Files]
           /\ filerecs' \subseteq Files /\ searching' \subseteq Files
<1>1. /\ open_batch' \in 0 .. MaxSeq /\ load_failed_at' \in -1 .. MaxSeq
      /\ asleep' \in BOOLEAN /\ interrupted' \in BOOLEAN /\ watermark_frozen' \in BOOLEAN
      /\ unsaved' \in BOOLEAN
  <2>1. 0 \in 0 .. MaxSeq /\ -1 \in -1 .. MaxSeq
    BY ConstantsOK
  <2>2. open_batch' = 0 /\ load_failed_at' = -1
    BY DEF NewProcess, NoBatch, NoFailure
  <2>3. asleep' = FALSE /\ interrupted' = FALSE /\ watermark_frozen' = FALSE /\ unsaved' = FALSE
    BY DEF NewProcess
  <2>. QED BY <2>1, <2>2, <2>3
<1>2. outstanding' \in [Seqs -> SUBSET Items]
  BY DEF NewProcess
<1>3. cut_short' \in [Seqs -> BOOLEAN]
  BY DEF NewProcess
<1>4. held' \in [Seqs -> SUBSET Files]
  BY DEF NewProcess
<1>5. job' \in [Workers -> Items \cup {NoWork}]
  BY DEF NewProcess
<1>6. target' \in [Workers -> Files \cup {NoTarget}]
  BY DEF NewProcess
<1>7. todo' \in [Workers -> SUBSET Files]
  BY DEF NewProcess
<1>8. /\ loaded' \subseteq Items /\ topush' \subseteq Items /\ dups_tree' \subseteq Items
      /\ inflight' \subseteq Seqs /\ queue' \subseteq Items
      /\ filerecs' \subseteq Files /\ searching' \subseteq Files
  BY DEF NewProcess
<1>. QED BY <1>1, <1>2, <1>3, <1>4, <1>5, <1>6, <1>7, <1>8

LEMMA StartRunScan ==
    ASSUME TypeOK, StartRun
    PROVE  /\ TypeOK'
           /\ \A f \in Files : seq'[f] <= max'
           /\ \A f \in Files : seq'[f] > durable \/ seq'[f] = seq[f] \/ seq'[f] = 0
<1>0. PICK n \in 0 .. NFiles - nscanned :
      \E s \in Generations(n) :
        LET scanned == [f \in Files |-> IF f \in DOMAIN s THEN s[f] ELSE seq[f]]
        IN  /\ nscanned' = nscanned + n
            /\ max' = Max({scanned[f] : f \in Files} \cup {0})
            /\ seq' = [f \in Files |-> IF f \in gone THEN 0 ELSE scanned[f]]
            /\ extents' = (extents \cup DOMAIN s) \ gone
  BY DEF StartRun
<1>1. PICK s \in Generations(n) :
        LET scanned == [f \in Files |-> IF f \in DOMAIN s THEN s[f] ELSE seq[f]]
        IN  /\ nscanned' = nscanned + n
            /\ max' = Max({scanned[f] : f \in Files} \cup {0})
            /\ seq' = [f \in Files |-> IF f \in gone THEN 0 ELSE scanned[f]]
            /\ extents' = (extents \cup DOMAIN s) \ gone
  BY <1>0
<1>. DEFINE scanned == [f \in Files |-> IF f \in DOMAIN s THEN s[f] ELSE seq[f]]
            gens == {scanned[f] : f \in Files} \cup {0}
<1>2. nscanned \in 0 .. NFiles /\ NFiles \in Nat
  BY ConstantsOK DEF TypeOK
<1>3. s \in [nscanned + 1 .. nscanned + n -> Seqs]
  BY DEF Generations
<1>4. scanned \in [Files -> 0 .. MaxSeq]
  BY <1>3, ConstantsOK DEF TypeOK, Seqs
<1>5. max' \in 0 .. MaxSeq
  <2>1. gens \in SUBSET (0 .. MaxSeq) /\ gens # {}
    BY <1>4, ConstantsOK
  <2>2. Max(gens) \in gens
    BY <2>1, MaxIn, ConstantsOK
  <2>. QED BY <1>1, <2>1, <2>2
<1>6. seq' \in [Files -> 0 .. MaxSeq]
  BY <1>1, <1>4, ConstantsOK
<1>7. extents' \subseteq Files /\ nscanned' \in 0 .. NFiles
  <2>1. DOMAIN s \subseteq Files
    BY <1>2, <1>3 DEF Files
  <2>. QED BY <1>1, <1>2, <2>1 DEF TypeOK
<1>8. /\ first_seq' \in 0 .. MaxSeq /\ lo' \in Nat /\ dedupe_seq' \in 0 .. MaxSeq
      /\ durable' \in 0 .. MaxSeq /\ pc' \in PCs /\ faults' \in 0 .. MaxFaults
      /\ storage' \in [Groups -> [Files -> Files]] /\ gone' \subseteq Files
      /\ settled' \subseteq Groups \X Files /\ refused' \subseteq Groups \X Files
  BY ConstantsOK DEF StartRun, TypeOK, PCs
<1>9. runs' \in 0 .. MaxRuns
  BY ConstantsOK DEF StartRun, TypeOK
<1>10. NewProcess
  BY DEF StartRun
<1>11. TypeOK'
  BY <1>5, <1>6, <1>7, <1>8, <1>9, <1>10, NewProcessType DEF TypeOK
<1>12. \A f \in Files : seq'[f] <= max'
  <2>1. gens \in SUBSET (0 .. MaxSeq) /\ gens # {}
    BY <1>4, ConstantsOK
  <2>2. \A x \in gens : x <= max'
    BY <1>1, <2>1, MaxIn, ConstantsOK
  <2>. QED BY <1>1, <2>2
<1>13. \A f \in Files : seq'[f] > durable \/ seq'[f] = seq[f] \/ seq'[f] = 0
  <2>1. \A i \in DOMAIN s : s[i] > durable
    BY DEF Generations
  <2>. QED BY <1>1, <2>1
<1>. QED BY <1>11, <1>12, <1>13

LEMMA ReapType == ASSUME TypeOK, Reap PROVE TypeOK'
<1>1. Front \in Seqs
  BY FrontIn DEF TypeOK, Reap, FrontReady
<1>2. Capped(Front) \in 0 .. MaxSeq
  BY <1>1, ConstantsOK DEF TypeOK, Capped, NoFailure, Seqs
<1>3. dedupe_seq' \in 0 .. MaxSeq /\ durable' \in 0 .. MaxSeq /\ faults' \in 0 .. MaxFaults
  BY <1>2, ConstantsOK DEF TypeOK, Reap, FreeBatch, AdvanceSeq
<1>4. held' \in [Seqs -> SUBSET Files]
  BY <1>1 DEF TypeOK, Reap, FreeBatch
<1>5. watermark_frozen' \in BOOLEAN /\ unsaved' \in BOOLEAN
  BY <1>1 DEF TypeOK, Reap, FreeBatch, AdvanceSeq
<1>6. inflight' \subseteq Seqs /\ filerecs' \subseteq Files
  BY DEF TypeOK, Reap, FreeBatch
<1>. QED BY <1>3, <1>4, <1>5, <1>6 DEF TypeOK, Reap

\* What the three loads share.
LEMMA LoadType ==
    ASSUME TypeOK, Phase, pc \in InWindow, NEW kind \in Kinds, NEW its \in SUBSET Items,
           NEW next \in PCs, Load(kind, its, next)
    PROVE  TypeOK'
<1>1. lo \in 0 .. MaxSeq
  BY HiType
<1>2. loaded' \subseteq Items
  BY TruncatedType DEF Load, TypeOK
<1>3. filerecs' \subseteq Files
  BY <1>2, FilesOfType DEF Load, TypeOK
<1>4. settled' \subseteq Groups \X Files
  BY DEF Load, TypeOK, NothingToDo
<1>5. load_failed_at' \in -1 .. MaxSeq /\ faults' \in 0 .. MaxFaults
  BY <1>1, ConstantsOK DEF Load, TypeOK, LoadFailed
<1>. QED BY <1>2, <1>3, <1>4, <1>5 DEF Load, TypeOK

LEMMA LoadBlockHashesType == ASSUME TypeOK, Phase, LoadBlockHashes PROVE TypeOK'
<1>1. lo \in 0 .. MaxSeq
  BY HiType DEF LoadBlockHashes, InWindow, Loading
<1>2. \A a \in BlockAnchors(lo, Hi) :
        /\ BlockHashes(lo, Hi, a) \subseteq Items
        /\ FilesOf(BlockHashes(lo, Hi, a)) \subseteq Files
        /\ \A k \in Files : FilesOf(Truncated(BlockHashes(lo, Hi, a), k)) \subseteq Files
  BY LoadersType, TruncatedType, FilesOfType DEF LoadBlockHashes, InWindow, Loading
<1>3. dups_tree' \subseteq Items /\ searching' \subseteq Files /\ filerecs' \subseteq Files
  BY <1>2 DEF LoadBlockHashes, TypeOK
<1>4. load_failed_at' \in -1 .. MaxSeq /\ faults' \in 0 .. MaxFaults
  BY <1>1, ConstantsOK DEF LoadBlockHashes, TypeOK, LoadFailed
<1>5. pc' \in PCs
  BY DEF LoadBlockHashes, PCs
<1>. QED BY <1>3, <1>4, <1>5 DEF TypeOK, LoadBlockHashes

LEMMA BatchTypes ==
    ASSUME TypeOK, Phase, pc \in Loading
    PROVE  open_batch \in Seqs
BY HiType DEF Phase, InWindow

LEMMA HoldFilerecsType == ASSUME TypeOK, Phase, HoldFilerecs PROVE TypeOK'
<1>1. open_batch \in Seqs
  BY BatchTypes DEF HoldFilerecs, Loading
<1>2. FilesOf(loaded) \subseteq Files
  BY FilesOfType DEF TypeOK
<1>3. held' \in [Seqs -> SUBSET Files]
  BY <1>1, <1>2 DEF HoldFilerecs, TypeOK
<1>4. topush' \subseteq Items /\ loaded' \subseteq Items /\ pc' \in PCs
  BY DEF HoldFilerecs, TypeOK, PCs
<1>. QED BY <1>3, <1>4 DEF TypeOK, HoldFilerecs

LEMMA PushItemType ==
    ASSUME TypeOK, Phase, NEW it \in topush, PushItem(it) PROVE TypeOK'
<1>1. open_batch \in Seqs
  BY BatchTypes DEF PushItem, Loading
<1>2. it \in Items
  BY DEF TypeOK
<1>3. outstanding' \in [Seqs -> SUBSET Items]
  BY <1>1, <1>2 DEF PushItem, TypeOK
<1>4. topush' \subseteq Items /\ queue' \subseteq Items
  BY <1>2 DEF PushItem, TypeOK
<1>. QED BY <1>3, <1>4 DEF TypeOK, PushItem

LEMMA SealBatchType == ASSUME TypeOK, Phase, SealBatch PROVE TypeOK'
<1>1. open_batch \in Seqs
  BY BatchTypes DEF SealBatch, Loading
<1>. QED BY <1>1, ConstantsOK DEF TypeOK, SealBatch, PCs, NoBatch

LEMMA ItemDoneType ==
    ASSUME TypeOK, NEW it \in Items, ItemDone(it)
    PROVE  outstanding' \in [Seqs -> SUBSET Items] /\ asleep' \in BOOLEAN
<1>1. it.hi \in Seqs
  BY DEF Items
<1>2. outstanding' \in [Seqs -> SUBSET Items]
  BY <1>1 DEF ItemDone, TypeOK
<1>3. asleep' \in BOOLEAN
  BY DEF ItemDone, TypeOK
<1>. QED BY <1>2, <1>3

LEMMA TakeItemType ==
    ASSUME TypeOK, NEW w \in Workers, NEW it \in queue, TakeItem(w, it) PROVE TypeOK'
<1>1. it \in Items /\ it.ms \subseteq Files
  BY DEF TypeOK, Items
<1>2. job' \in [Workers -> Items \cup {NoWork}]
  BY <1>1 DEF TakeItem, TypeOK
<1>3. todo' \in [Workers -> SUBSET Files]
  BY <1>1 DEF TakeItem, TypeOK
<1>4. target' \in [Workers -> Files \cup {NoTarget}]
  BY DEF TakeItem, TypeOK
<1>5. queue' \subseteq Items
  BY DEF TakeItem, TypeOK
<1>. QED BY <1>2, <1>3, <1>4, <1>5 DEF TypeOK, TakeItem

LEMMA SkipItemType ==
    ASSUME TypeOK, NEW w \in Workers, NEW it \in queue, SkipItem(w, it) PROVE TypeOK'
<1>1. it \in Items
  BY DEF TypeOK
<1>2. outstanding' \in [Seqs -> SUBSET Items] /\ asleep' \in BOOLEAN
  BY <1>1, ItemDoneType DEF SkipItem
<1>3. cut_short' \in [Seqs -> BOOLEAN]
  BY DEF SkipItem, TypeOK
<1>4. queue' \subseteq Items
  BY DEF SkipItem, TypeOK
<1>. QED BY <1>2, <1>3, <1>4 DEF TypeOK, SkipItem

LEMMA DedupeMemberType ==
    ASSUME TypeOK, NEW w \in Workers, DedupeMember(w) PROVE TypeOK'
<1>. DEFINE m == NextMember(w)
            it == job[w]
<1>1. m \in Files /\ it \in Items /\ it.g \in Groups /\ it.ms \subseteq Files
  BY NextMemberType DEF DedupeMember, TypeOK, Items
<1>2. todo' \in [Workers -> SUBSET Files]
  BY DEF DedupeMember, TypeOK
<1>3. target' \in [Workers -> Files \cup {NoTarget}]
  BY <1>1 DEF DedupeMember, TypeOK
<1>4. seq' \in [Files -> 0 .. MaxSeq] /\ extents' \subseteq Files
  <2>1. (seq' = seq \/ seq' = [seq EXCEPT ![m] = 0]) /\ (extents' = extents \/ extents' = extents \ {m})
    BY DEF DedupeMember
  <2>2. seq \in [Files -> 0 .. MaxSeq] /\ extents \subseteq Files /\ 0 \in 0 .. MaxSeq
    BY ConstantsOK DEF TypeOK
  <2>. QED BY <1>1, <2>1, <2>2
<1>5. storage' \in [Groups -> [Files -> Files]]
  <2>1. storage \in [Groups -> [Files -> Files]] /\ (target[w] # NoTarget => target[w] \in Files)
    BY DEF TypeOK
  <2>2. CASE storage' = storage
    BY <2>1, <2>2
  <2>3. CASE /\ target[w] # NoTarget
             /\ storage' = [storage EXCEPT ![it.g][m] = storage[it.g][target[w]]]
    <3>. DEFINE v == storage[it.g][target[w]]
    <3>1. storage[it.g] \in [Files -> Files] /\ v \in Files
      BY <1>1, <2>1, <2>3
    <3>2. [storage[it.g] EXCEPT ![m] = v] \in [Files -> Files]
      BY <1>1, <3>1
    <3>3. storage' = [storage EXCEPT ![it.g] = [storage[it.g] EXCEPT ![m] = v]]
      BY <2>3, Zenon
    <3>. HIDE DEF v
    <3>. QED BY <1>1, <2>1, <3>2, <3>3
  <2>. QED BY <2>2, <2>3 DEF DedupeMember
<1>6. refused' \subseteq Groups \X Files
  BY <1>1 DEF DedupeMember, TypeOK
<1>7. faults' \in 0 .. MaxFaults
  BY ConstantsOK DEF DedupeMember, TypeOK
<1>. QED BY <1>2, <1>3, <1>4, <1>5, <1>6, <1>7 DEF TypeOK, DedupeMember

LEMMA FinishItemType ==
    ASSUME TypeOK, NEW w \in Workers, FinishItem(w) PROVE TypeOK'
<1>1. job[w] \in Items /\ job[w].g \in Groups /\ job[w].ms \subseteq Files
  BY DEF FinishItem, TypeOK, Items
<1>2. outstanding' \in [Seqs -> SUBSET Items] /\ asleep' \in BOOLEAN
  BY <1>1, ItemDoneType DEF FinishItem
<1>3. settled' \subseteq Groups \X Files
  BY <1>1 DEF FinishItem, TypeOK
<1>4. extents' \subseteq Files
  BY DEF FinishItem, TypeOK
<1>5. job' \in [Workers -> Items \cup {NoWork}]
  BY DEF FinishItem, TypeOK
<1>6. target' \in [Workers -> Files \cup {NoTarget}]
  BY DEF FinishItem, TypeOK
<1>. QED BY <1>2, <1>3, <1>4, <1>5, <1>6 DEF TypeOK, FinishItem

\* Every step keeps the types; Phase keeps the window's ends in range.
LEMMA TypeStep == ASSUME TypeOK, Phase, [Next]_vars PROVE TypeOK'
<1>1. CASE StartRun
  BY <1>1, StartRunScan
<1>2. CASE LoopHead
  BY <1>2 DEF TypeOK, LoopHead, PCs, NoBatch
<1>3. CASE Reap
  BY <1>3, ReapType
<1>4. CASE Wait
  BY <1>4 DEF TypeOK, Wait, PCs, NoBatch
<1>5. CASE AwaitSlot
  <2>1. Hi \in 0 .. MaxSeq
    BY <1>5, HiType DEF AwaitSlot, InWindow, Seqs
  <2>. QED BY <1>5, <2>1 DEF TypeOK, AwaitSlot, PCs
<1>6. CASE Drain
  <2>1. Hi \in 0 .. MaxSeq
    BY <1>6, HiType DEF Drain, InWindow, Seqs
  <2>. QED BY <1>6, <2>1 DEF TypeOK, Drain, PCs
<1>7. CASE LoadSameFiles
  BY <1>7, LoadType, LoadersType DEF LoadSameFiles, InWindow, Loading, Kinds, PCs
<1>8. CASE LoadExtentHashes
  BY <1>8, LoadType, LoadersType DEF LoadExtentHashes, InWindow, Loading, Kinds, PCs
<1>9. CASE LoadBlockHashes
  BY <1>9, LoadBlockHashesType
<1>10. CASE SearchDone
  BY <1>10 DEF TypeOK, SearchDone, PCs, NoBatch
<1>11. CASE HoldFilerecs
  BY <1>11, HoldFilerecsType
<1>12. CASE \E it \in topush : PushItem(it)
  BY <1>12, PushItemType
<1>13. CASE FilesPushed
  BY <1>13 DEF TypeOK, FilesPushed, PCs, NoBatch
<1>14. CASE ExtentsPushed
  BY <1>14 DEF TypeOK, ExtentsPushed, PCs, NoBatch
<1>15. CASE SealBatch
  BY <1>15, SealBatchType
<1>16. CASE NextWindow
  <2>1. lo' \in Nat
    BY <1>16, ConstantsOK DEF TypeOK, NextWindow
  <2>. QED BY <1>16, <2>1 DEF TypeOK, NextWindow, PCs
<1>17. CASE EndRun
  BY <1>17 DEF TypeOK, EndRun, PCs, NoBatch
<1>18. CASE \E f \in searching : SearchFile(f)
  BY <1>18 DEF TypeOK, SearchFile, PCs, NoBatch
<1>19. CASE Interrupt
  BY <1>19 DEF TypeOK, Interrupt, PCs, NoBatch
<1>20. CASE Kill
  <2>1. 0 \in 0 .. MaxSeq /\ 0 \in Nat
    BY ConstantsOK
  <2>2. first_seq' = 0 /\ lo' = 0 /\ max' = 0 /\ dedupe_seq' = 0 /\ pc' \in PCs /\ UNCHANGED <<disk, history>>
    BY <1>20 DEF Kill, PCs
  <2>3. NewProcess
    BY <1>20 DEF Kill
  <2>. QED BY <2>1, <2>2, <2>3, NewProcessType DEF TypeOK
<1>21. CASE \E f \in Files : Delete(f)
  <2>1. gone' \subseteq Files /\ faults' \in 0 .. MaxFaults
    BY <1>21, ConstantsOK DEF TypeOK, Delete
  <2>. QED BY <1>21, <2>1 DEF TypeOK, Delete
<1>22. ASSUME NEW w \in Workers, NEW it \in queue, TakeItem(w, it) PROVE TypeOK'
  BY <1>22, TakeItemType
<1>23. ASSUME NEW w \in Workers, NEW it \in queue, SkipItem(w, it) PROVE TypeOK'
  BY <1>23, SkipItemType
<1>24. ASSUME NEW w \in Workers, DedupeMember(w) PROVE TypeOK'
  BY <1>24, DedupeMemberType
<1>25. ASSUME NEW w \in Workers, FinishItem(w) PROVE TypeOK'
  BY <1>25, FinishItemType
<1>26. CASE UNCHANGED vars
  BY <1>26 DEF TypeOK
<1>. QED BY <1>1, <1>2, <1>3, <1>4, <1>5, <1>6, <1>7, <1>8, <1>9, <1>10, <1>11, <1>12, <1>13,
     <1>14, <1>15, <1>16, <1>17, <1>18, <1>19, <1>20, <1>21, <1>22, <1>23, <1>24, <1>25, <1>26
     DEF Next, Producer, Worker, Searcher, Environment, Finished

-----------------------------------------------------------------------------
(***************************************************************************)
(* The producer's position is kept.                                        *)
(***************************************************************************)

\* A load that comes to its end answers groups with something to do.
LEMMA LoadersWork ==
    ASSUME NEW l \in Nat, NEW h \in Nat
    PROVE  /\ \A it \in SameFiles(l, h) : Kind[it.g] = "file" /\ it.ms # {it.tgt}
           /\ \A it \in ExtentHashes(l, h) : Kind[it.g] = "extent" /\ it.ms # {it.tgt}
           /\ \A a \in BlockAnchors(l, h) : \A it \in BlockHashes(l, h, a) : Kind[it.g] = "block"
<1>1. \A it \in SameFiles(l, h) : Kind[it.g] = "file" /\ it.ms # {it.tgt}
  BY DEF SameFiles, Item
<1>2. \A it \in ExtentHashes(l, h) : Kind[it.g] = "extent" /\ it.ms # {it.tgt}
  BY DEF ExtentHashes, Item
<1>3. \A a \in BlockAnchors(l, h) : \A it \in BlockHashes(l, h, a) : Kind[it.g] = "block"
  BY DEF BlockHashes, Item
<1>. QED BY <1>1, <1>2, <1>3

LEMMA LoadFailedBelow ==
    ASSUME TypeOK, Phase, pc \in InWindow
    PROVE  /\ LoadFailed # NoFailure /\ LoadFailed <= lo /\ LoadFailed \in Nat
           /\ load_failed_at # NoFailure => LoadFailed <= load_failed_at
BY HiType, ConstantsOK DEF TypeOK, LoadFailed, NoFailure

LEMMA LoadPhase ==
    ASSUME TypeOK, Phase, pc \in {"load_files", "load_extents"},
           NEW kind \in Kinds, NEW its \in SUBSET Items,
           \A it \in its : it.ms # {it.tgt},
           NEW next \in {"hold_files", "load_blocks", "hold_extents"}, Load(kind, its, next)
    PROVE  Phase'
<1>1. /\ Hi' = Hi /\ lo' = lo /\ max' = max /\ open_batch' = open_batch /\ seq' = seq
      /\ inflight' = inflight /\ pc' = next /\ dups_tree' = dups_tree /\ topush' = topush
  BY DEF Load, Hi
<1>2. \A it \in loaded' : Kind[it.g] # "block" /\ it.ms = {it.tgt} =>
          load_failed_at' # NoFailure /\ load_failed_at' <= lo
  <2>1. CASE loaded' = loaded \cup its /\ load_failed_at' = load_failed_at
    BY <2>1 DEF Phase
  <2>2. CASE load_failed_at' = LoadFailed
    BY <2>2, LoadFailedBelow DEF InWindow, Loading
  <2>. QED BY <2>1, <2>2 DEF Load
<1>3. topush' = {}
  BY DEF Load, Phase
<1>. QED BY <1>1, <1>2, <1>3 DEF Phase, Running, InWindow, Loading

LEMMA PhaseStep == ASSUME TypeOK, Phase, [Next]_vars PROVE Phase'
<1>1. CASE StartRun
  <2>1. pc' = "loop" /\ inflight' = {} /\ loaded' = {} /\ dups_tree' = {}
      /\ topush' = {} /\ open_batch' = NoBatch
    BY <1>1 DEF StartRun, NewProcess
  <2>2. \A f \in Files : seq'[f] <= max'
    BY <1>1, StartRunScan
  <2>. QED BY <2>1, <2>2 DEF Phase, Loading, InWindow, Running
<1>2. CASE LoopHead
  BY <1>2 DEF Phase, TypeOK, Hi, Running, Loading, InWindow, NoBatch, LoopHead
<1>3. CASE Reap
  BY <1>3, ConstantsOK DEF Phase, TypeOK, Hi, Running, Loading, InWindow, NoBatch, Reap,
       FreeBatch
<1>4. CASE Wait
  BY <1>4 DEF Phase, TypeOK, Hi, Running, Loading, InWindow, NoBatch, Wait
<1>5. CASE AwaitSlot
  BY <1>5 DEF Phase, TypeOK, Hi, Running, Loading, InWindow, NoBatch, AwaitSlot
<1>6. CASE Drain
  BY <1>6 DEF Phase, TypeOK, Hi, Running, Loading, InWindow, NoBatch, Drain
<1>7. CASE LoadSameFiles
  <2>1. pc \in {"load_files", "load_extents"} /\ Load("file", SameFiles(lo, Hi), "hold_files")
    BY <1>7 DEF LoadSameFiles, Loading
  <2>2. SameFiles(lo, Hi) \subseteq Items /\ \A it \in SameFiles(lo, Hi) : it.ms # {it.tgt}
    BY <2>1, LoadersType, LoadersWork, HiType, ConstantsOK DEF InWindow, Loading, Seqs
  <2>. QED BY <2>1, <2>2, LoadPhase DEF Kinds, Loading
<1>8. CASE LoadExtentHashes
  <2>1. /\ pc \in {"load_files", "load_extents"}
        /\ Load("extent", ExtentHashes(lo, Hi), IF DoBlockHash THEN "load_blocks" ELSE "hold_extents")
    BY <1>8 DEF LoadExtentHashes, Loading
  <2>2. ExtentHashes(lo, Hi) \subseteq Items /\ \A it \in ExtentHashes(lo, Hi) : it.ms # {it.tgt}
    BY <2>1, LoadersType, LoadersWork, HiType, ConstantsOK DEF InWindow, Loading, Seqs
  <2>. QED BY <2>1, <2>2, LoadPhase DEF Kinds, Loading
<1>9. CASE LoadBlockHashes
  <2>1. pc \in Loading /\ lo \in Nat /\ Hi \in Nat
    BY <1>9, HiType, ConstantsOK DEF LoadBlockHashes, Loading, InWindow, Seqs
  <2>2. \A it \in dups_tree' : Kind[it.g] = "block"
    BY <1>9, <2>1, LoadersWork DEF LoadBlockHashes, Phase
  <2>3. /\ loaded' = loaded /\ lo' = lo
        /\ load_failed_at' = load_failed_at \/ load_failed_at' = LoadFailed
    BY <1>9 DEF LoadBlockHashes
  <2>4. \A it \in loaded' : Kind[it.g] # "block" /\ it.ms = {it.tgt} =>
            load_failed_at' # NoFailure /\ load_failed_at' <= lo
    BY <2>1, <2>3, LoadFailedBelow DEF Phase, InWindow
  <2>5. /\ Hi' = Hi /\ lo' = lo /\ max' = max /\ open_batch' = open_batch /\ seq' = seq
        /\ inflight' = inflight /\ pc' \in {"search", "hold_extents"} /\ topush' = {}
    BY <1>9 DEF LoadBlockHashes, Phase, Hi, Loading
  <2>. QED BY <2>1, <2>2, <2>4, <2>5 DEF Phase, Running, InWindow, Loading
<1>10. CASE SearchDone
  BY <1>10 DEF Phase, TypeOK, Hi, Running, Loading, InWindow, NoBatch, SearchDone
<1>11. CASE HoldFilerecs
  BY <1>11 DEF Phase, TypeOK, Hi, Running, Loading, InWindow, NoBatch, HoldFilerecs
<1>12. CASE \E it \in topush : PushItem(it)
  BY <1>12 DEF Phase, TypeOK, Hi, Running, Loading, InWindow, NoBatch, PushItem
<1>13. CASE FilesPushed
  BY <1>13 DEF Phase, TypeOK, Hi, Running, Loading, InWindow, NoBatch, FilesPushed
<1>14. CASE ExtentsPushed
  BY <1>14 DEF Phase, TypeOK, Hi, Running, Loading, InWindow, NoBatch, ExtentsPushed
<1>15. CASE SealBatch
  <2>1. pc = "seal" /\ pc \in Loading /\ pc \in InWindow /\ Running
    BY <1>15 DEF SealBatch, Loading, InWindow, Running
  <2>2. Hi \in Seqs /\ lo < Hi
    BY <2>1, HiType
  <2>3. lo \in Nat /\ Hi \in Nat /\ inflight \subseteq Nat /\ lo <= Hi
    BY <2>2, ConstantsOK DEF TypeOK, Seqs
  <2>4. open_batch = Hi /\ \A b \in inflight : b <= lo
    BY <2>1 DEF Phase
  <2>5. inflight' = inflight \cup {open_batch}
    BY <1>15 DEF SealBatch
  <2>6. \A b \in inflight' : b <= Hi
    BY <2>3, <2>4, <2>5
  <2>. QED BY <1>15, <2>6 DEF Phase, TypeOK, Hi, Running, Loading, InWindow, NoBatch, SealBatch
<1>16. CASE NextWindow
  <2>1. Hi <= lo + Stride /\ Hi \in Nat /\ lo \in Nat /\ lo <= lo + Stride /\ inflight \subseteq Nat
    BY <1>16, HiType, ConstantsOK DEF NextWindow, InWindow, Seqs, TypeOK
  <2>2. \A b \in inflight' : b <= lo'
    BY <1>16, <2>1, ConstantsOK DEF NextWindow, Phase, Running
  <2>3. \A it \in loaded' : Kind[it.g] # "block" /\ it.ms = {it.tgt} =>
            load_failed_at' # NoFailure /\ load_failed_at' <= lo'
    BY <1>16, <2>1, ConstantsOK DEF NextWindow, Phase, TypeOK
  <2>. QED BY <1>16, <2>2, <2>3 DEF Phase, TypeOK, Hi, Running, Loading, InWindow, NoBatch,
       NextWindow
<1>17. CASE EndRun
  BY <1>17 DEF Phase, TypeOK, Hi, Running, Loading, InWindow, NoBatch, EndRun
<1>18. CASE \E f \in searching : SearchFile(f)
  BY <1>18 DEF Phase, TypeOK, Hi, Running, Loading, InWindow, NoBatch, SearchFile
<1>19. CASE Interrupt
  BY <1>19 DEF Phase, TypeOK, Hi, Running, Loading, InWindow, NoBatch, Interrupt
<1>20. CASE Kill
  BY <1>20 DEF Phase, TypeOK, Hi, Running, Loading, InWindow, NoBatch, Kill, NewProcess
<1>21. CASE \E f \in Files : Delete(f)
  BY <1>21 DEF Phase, TypeOK, Hi, Running, Loading, InWindow, NoBatch, Delete
<1>22. ASSUME NEW w \in Workers, NEW it \in queue, TakeItem(w, it) PROVE Phase'
  BY <1>22 DEF Phase, TypeOK, Hi, Running, Loading, InWindow, NoBatch, TakeItem
<1>23. ASSUME NEW w \in Workers, NEW it \in queue, SkipItem(w, it) PROVE Phase'
  BY <1>23 DEF Phase, TypeOK, Hi, Running, Loading, InWindow, NoBatch, SkipItem
<1>24. ASSUME NEW w \in Workers, DedupeMember(w) PROVE Phase'
  <2>1. \A f \in Files : seq'[f] = seq[f] \/ seq'[f] = 0
    BY <1>24 DEF DedupeMember, TypeOK
  <2>2. max \in Nat /\ 0 <= max
    BY ConstantsOK DEF TypeOK
  <2>. QED BY <1>24, <2>1, <2>2 DEF Phase, TypeOK, Hi, Running, Loading, InWindow, NoBatch,
       DedupeMember
<1>25. ASSUME NEW w \in Workers, FinishItem(w) PROVE Phase'
  BY <1>25 DEF Phase, TypeOK, Hi, Running, Loading, InWindow, NoBatch, FinishItem
<1>26. CASE UNCHANGED vars
  BY <1>26 DEF Phase, TypeOK, Hi, Running, Loading, InWindow, NoBatch
<1>. QED BY <1>1, <1>2, <1>3, <1>4, <1>5, <1>6, <1>7, <1>8, <1>9, <1>10, <1>11, <1>12, <1>13,
     <1>14, <1>15, <1>16, <1>17, <1>18, <1>19, <1>20, <1>21, <1>22, <1>23, <1>24, <1>25, <1>26
     DEF Next, Producer, Worker, Searcher, Environment, Finished

-----------------------------------------------------------------------------
(***************************************************************************)
(* Every copy of the windows loaded so far stays accounted for.            *)
(***************************************************************************)

\* What a step that neither opens nor closes a batch has to keep.
LEMMA PendingKept ==
    ASSUME NEW g \in Groups, NEW f \in Files, NEW d \in Nat, Pending(g, f, d),
           UNCHANGED <<lo, open_batch, inflight>>,
           Excused(d) => Excused(d)',
           \A b \in Seqs : cut_short[b] => cut_short'[b],
           \A b \in Seqs : Covers(outstanding[b], g, f) =>
               Covers(outstanding'[b], g, f) \/ cut_short'[b],
           OpenBatch(open_batch) /\ Covers(loaded \cup topush, g, f) /\ lo < d =>
               \/ Covers(loaded' \cup topush', g, f) \/ Excused(d)'
               \/ Covers(outstanding'[open_batch], g, f)
    PROVE  Pending(g, f, d)'
<1>1. CASE Excused(d)
  BY <1>1 DEF Pending
<1>2. ASSUME NEW b \in Seqs, b \in inflight \/ OpenBatch(b), AnswersFor(b, g, f, d)
      PROVE  Pending(g, f, d)'
  <2>1. /\ b \in inflight' \/ OpenBatch(b)'
        /\ d <= b /\ \A o \in inflight' : o < b => o < d
    BY <1>2 DEF AnswersFor, OpenBatch
  <2>2. CASE cut_short[b]
    BY <2>1, <2>2 DEF Pending, AnswersFor
  <2>3. CASE Covers(outstanding[b], g, f)
    BY <2>1, <2>3 DEF Pending, AnswersFor
  <2>4. CASE OpenBatch(b) /\ lo < d /\ Covers(loaded \cup topush, g, f)
    <3>1. OpenBatch(b)' /\ b = open_batch /\ OpenBatch(open_batch)
      BY <2>4 DEF OpenBatch
    <3>. QED BY <2>1, <2>4, <3>1 DEF Pending, AnswersFor
  <2>. QED BY <1>2, <2>2, <2>3, <2>4 DEF AnswersFor
<1>. QED BY <1>1, <1>2 DEF Pending

\* A failed load lowers the cap on the watermark.
LEMMA ExcusedKept ==
    ASSUME TypeOK, Phase, NEW d \in Nat,
           watermark_frozen => watermark_frozen',
           \/ load_failed_at' = load_failed_at
           \/ pc \in InWindow /\ load_failed_at' = LoadFailed
    PROVE  Excused(d) => Excused(d)'
<1>1. load_failed_at \in -1 .. MaxSeq /\ MaxSeq \in Nat
  BY ConstantsOK DEF TypeOK
<1>. QED BY <1>1, LoadFailedBelow DEF Excused

\* Leaving the trees, the batches and the verdict alone.
LEMMA PendingSame ==
    ASSUME UNCHANGED <<lo, open_batch, inflight, verdict, trees, outstanding, cut_short>>,
           NEW g, NEW f, NEW d, Pending(g, f, d)
    PROVE  Pending(g, f, d)'
BY DEF Pending, Excused, AnswersFor, OpenBatch, Covers

\* The front batch has no item left, and one that was cut short freezes the
\* watermark.
LEMMA PendingReaped ==
    ASSUME TypeOK, Phase, Reap, NEW g, NEW f, NEW d, Pending(g, f, d)
    PROVE  Pending(g, f, d)'
<1>1. open_batch = NoBatch
  BY DEF Reap, Reaping, Phase, Loading
<1>2. /\ inflight' = inflight \ {Front} /\ outstanding[Front] = {}
      /\ watermark_frozen' = (watermark_frozen \/ cut_short[Front])
      /\ UNCHANGED <<lo, load_failed_at, open_batch, cut_short, outstanding>>
  BY DEF Reap, FreeBatch, FrontReady
<1>3. CASE Excused(d)
  BY <1>2, <1>3 DEF Pending, Excused
<1>4. ASSUME NEW b \in Seqs, b \in inflight \/ OpenBatch(b), AnswersFor(b, g, f, d)
      PROVE  Pending(g, f, d)'
  <2>1. b \in inflight /\ ~OpenBatch(b)
    BY <1>1, <1>4 DEF OpenBatch
  <2>2. CASE b = Front
    <3>1. cut_short[Front]
      BY <1>2, <1>4, <2>1, <2>2 DEF AnswersFor, Covers
    <3>. QED BY <1>2, <3>1 DEF Pending, Excused
  <2>3. CASE b # Front
    <3>1. b \in inflight' /\ inflight' \subseteq inflight
      BY <1>2, <2>1, <2>3
    <3>2. AnswersFor(b, g, f, d)'
      BY <1>2, <1>4, <2>1, <3>1 DEF AnswersFor, OpenBatch, Covers
    <3>. QED BY <3>1, <3>2 DEF Pending
  <2>. QED BY <2>2, <2>3
<1>. QED BY <1>3, <1>4 DEF Pending

\* A sealed batch ends above all others, and its trees are empty.
LEMMA PendingSealed ==
    ASSUME TypeOK, Phase, SealBatch, NEW g, NEW f, NEW d \in Nat, Pending(g, f, d)
    PROVE  Pending(g, f, d)'
<1>1. /\ pc = "seal" /\ inflight' = inflight \cup {open_batch} /\ open_batch' = NoBatch
      /\ UNCHANGED <<lo, cut_short, outstanding, watermark_frozen, load_failed_at>>
  BY DEF SealBatch
<1>2. loaded = {} /\ topush = {} /\ open_batch = Hi /\ Running /\ pc \in InWindow
  BY <1>1 DEF Phase, Loading, InWindow, Running
<1>3. Hi \in Seqs /\ lo < Hi /\ lo \in Nat /\ Seqs \subseteq Nat
  BY <1>2, HiType, ConstantsOK DEF Seqs
<1>4. \A o \in inflight : o <= lo /\ o \in Nat
  BY <1>1, <1>2, <1>3 DEF Phase, TypeOK
<1>5. CASE Excused(d)
  BY <1>1, <1>5 DEF Pending, Excused
<1>6. ASSUME NEW b \in Seqs, b \in inflight \/ OpenBatch(b), AnswersFor(b, g, f, d)
      PROVE  Pending(g, f, d)'
  <2>1. b \in inflight'
    BY <1>1, <1>6 DEF OpenBatch
  <2>2. \A o \in inflight' : o < b => o < d
    <3>1. \A o \in inflight : o < b => o < d
      BY <1>6 DEF AnswersFor
    <3>2. ~(open_batch < b)
      BY <1>2, <1>3, <1>4, <1>6 DEF OpenBatch
    <3>. QED BY <1>1, <3>1, <3>2
  <2>3. cut_short[b] \/ Covers(outstanding[b], g, f)
    BY <1>2, <1>6 DEF AnswersFor, Covers
  <2>. QED BY <1>1, <1>6, <2>1, <2>2, <2>3 DEF Pending, AnswersFor, Covers
<1>. QED BY <1>5, <1>6 DEF Pending

\* A batch opens with empty trees.
LEMMA PendingOpened ==
    ASSUME TypeOK, Phase, AwaitSlot \/ Drain, NEW g, NEW f, NEW d, Pending(g, f, d)
    PROVE  Pending(g, f, d)'
<1>1. /\ UNCHANGED <<lo, inflight, cut_short, outstanding, watermark_frozen, load_failed_at>>
      /\ pc \in {"await", "drain"}
  BY DEF AwaitSlot, Drain
<1>2. open_batch = NoBatch
  BY <1>1 DEF Phase, Loading
<1>. QED BY <1>1, <1>2 DEF Pending, Excused, AnswersFor, Covers, OpenBatch

\* A step of a running phase loses sight of a copy only when a worker has
\* finished with it.
LEMMA PendingStep ==
    ASSUME TypeOK, Phase, [Next]_vars, ~StartRun, Running',
           NEW g \in Groups, Loads(g), NEW f \in Files, NEW d \in Nat, Pending(g, f, d)
    PROVE  \/ Pending(g, f, d)'
           \/ \E w \in Workers : FinishItem(w) /\ job[w].g = g /\ f \in job[w].ms
<1>1. CASE Reap
  BY <1>1, PendingReaped
<1>2. CASE SealBatch
  BY <1>2, PendingSealed
<1>3. CASE AwaitSlot \/ Drain
  BY <1>3, PendingOpened
<1>4. CASE LoopHead \/ Wait \/ FilesPushed \/ ExtentsPushed \/ EndRun \/ Searcher
           \/ Interrupt \/ (\E o \in Files : Delete(o)) \/ UNCHANGED vars
           \/ (\E w \in Workers : DedupeMember(w))
           \/ (\E w \in Workers : \E it \in queue : TakeItem(w, it))
  <2>1. UNCHANGED <<lo, open_batch, inflight, verdict, trees, outstanding, cut_short>>
    BY <1>4 DEF LoopHead, Wait, FilesPushed, ExtentsPushed, EndRun, Searcher, SearchFile,
       Interrupt, Delete, DedupeMember, TakeItem
  <2>. QED BY <2>1, PendingSame
<1>5. CASE NextWindow
  <2>1. /\ UNCHANGED <<open_batch, inflight, verdict, trees, outstanding, cut_short>>
        /\ pc = "sealed"
    BY <1>5 DEF NextWindow
  <2>2. open_batch = NoBatch
    BY <2>1 DEF Phase, Loading
  <2>. QED BY <2>1, <2>2 DEF Pending, Excused, AnswersFor, Covers, OpenBatch
<1>6. CASE LoadSameFiles \/ LoadExtentHashes \/ LoadBlockHashes \/ SearchDone
  <2>1. /\ UNCHANGED <<lo, open_batch, inflight, outstanding, cut_short, topush, watermark_frozen>>
        /\ loaded \subseteq loaded' /\ pc \in InWindow
        /\ load_failed_at' = load_failed_at \/ load_failed_at' = LoadFailed
    BY <1>6 DEF LoadSameFiles, LoadExtentHashes, Load, LoadBlockHashes, SearchDone, InWindow,
       Loading
  <2>2. Covers(loaded \cup topush, g, f) => Covers(loaded' \cup topush', g, f)
    BY <2>1 DEF Covers
  <2>3. Excused(d) => Excused(d)'
    BY <2>1, ExcusedKept
  <2>. QED BY <2>1, <2>2, <2>3, PendingKept
<1>7. CASE HoldFilerecs
  <2>1. /\ topush = {} /\ lo \in Nat /\ topush' = {it \in loaded : it.ms # {it.tgt}}
        /\ UNCHANGED <<lo, open_batch, inflight, verdict, outstanding, cut_short>>
    BY <1>7 DEF HoldFilerecs, Phase, TypeOK
  <2>2. ASSUME Covers(loaded \cup topush, g, f), lo < d
        PROVE  Covers(loaded' \cup topush', g, f) \/ Excused(d)'
    <3>1. PICK it \in loaded : it.g = g /\ f \in it.ms
      BY <2>1, <2>2 DEF Covers
    <3>2. CASE it.ms # {it.tgt}
      BY <2>1, <3>1, <3>2 DEF Covers
    <3>3. CASE it.ms = {it.tgt}
      <4>1. load_failed_at # NoFailure /\ load_failed_at <= lo
        BY <3>1, <3>3 DEF Phase, Loads
      <4>2. load_failed_at \in -1 .. MaxSeq /\ MaxSeq \in Nat
        BY ConstantsOK DEF TypeOK
      <4>. QED BY <2>1, <2>2, <4>1, <4>2 DEF Excused
    <3>. QED BY <3>2, <3>3
  <2>3. Excused(d) => Excused(d)'
    BY <2>1 DEF Excused
  <2>. QED BY <2>1, <2>2, <2>3, PendingKept
<1>8. ASSUME NEW it \in topush, PushItem(it) PROVE Pending(g, f, d)'
  <2>1. /\ UNCHANGED <<lo, open_batch, inflight, verdict, cut_short, loaded>>
        /\ topush' = topush \ {it}
        /\ outstanding' = [outstanding EXCEPT ![open_batch] = @ \cup {it}]
    BY <1>8 DEF PushItem
  <2>2. open_batch \in Seqs /\ outstanding \in [Seqs -> SUBSET Items]
    BY <1>8, BatchTypes DEF PushItem, Loading, TypeOK
  <2>3. /\ \A b \in Seqs : outstanding[b] \subseteq outstanding'[b]
        /\ it \in outstanding'[open_batch]
    BY <2>1, <2>2
  <2>4. Covers(loaded \cup topush, g, f) =>
               Covers(loaded' \cup topush', g, f) \/ Covers(outstanding'[open_batch], g, f)
    BY <2>1, <2>3 DEF Covers
  <2>5. \A b \in Seqs : Covers(outstanding[b], g, f) => Covers(outstanding'[b], g, f)
    BY <2>3 DEF Covers
  <2>6. Excused(d) => Excused(d)'
    BY <2>1 DEF Excused
  <2>. QED BY <2>1, <2>4, <2>5, <2>6, PendingKept
<1>9. ASSUME NEW w \in Workers, NEW it \in queue, SkipItem(w, it) PROVE Pending(g, f, d)'
  <2>1. it.hi \in Seqs /\ outstanding \in [Seqs -> SUBSET Items] /\ cut_short \in [Seqs -> BOOLEAN]
    BY <1>9 DEF TypeOK, Items
  <2>2. /\ cut_short' = [cut_short EXCEPT ![it.hi] = TRUE]
        /\ outstanding' = [outstanding EXCEPT ![it.hi] = @ \ {it}]
        /\ UNCHANGED <<lo, open_batch, inflight, verdict, trees>>
    BY <1>9 DEF SkipItem, ItemDone
  <2>3. ASSUME NEW b \in Seqs
        PROVE  /\ cut_short[b] => cut_short'[b]
               /\ outstanding'[b] = outstanding[b] \/ cut_short'[b]
    BY <2>1, <2>2
  <2>4. /\ \A b \in Seqs : Covers(outstanding[b], g, f) =>
               Covers(outstanding'[b], g, f) \/ cut_short'[b]
        /\ Covers(loaded \cup topush, g, f) => Covers(loaded' \cup topush', g, f)
        /\ Excused(d) => Excused(d)'
    BY <2>2, <2>3 DEF Covers, Excused
  <2>. QED BY <2>2, <2>3, <2>4, PendingKept
<1>10. ASSUME NEW w \in Workers, FinishItem(w), ~(job[w].g = g /\ f \in job[w].ms)
       PROVE  Pending(g, f, d)'
  <2>. DEFINE it == job[w]
  <2>1. it.hi \in Seqs /\ outstanding \in [Seqs -> SUBSET Items]
    BY <1>10 DEF FinishItem, TypeOK, Items
  <2>2. /\ outstanding' = [outstanding EXCEPT ![it.hi] = @ \ {it}]
        /\ UNCHANGED <<lo, open_batch, inflight, verdict, trees, cut_short>>
    BY <1>10 DEF FinishItem, ItemDone
  <2>3. \A b \in Seqs : \A j \in outstanding[b] : j \in outstanding'[b] \/ j = it
    BY <2>1, <2>2
  <2>4. /\ \A b \in Seqs : Covers(outstanding[b], g, f) => Covers(outstanding'[b], g, f)
        /\ Covers(loaded \cup topush, g, f) => Covers(loaded' \cup topush', g, f)
        /\ Excused(d) => Excused(d)'
    BY <1>10, <2>2, <2>3 DEF Covers, Excused
  <2>. QED BY <2>2, <2>4, PendingKept
<1>11. ~Kill
  BY DEF Kill, Running
<1>. QED BY <1>1, <1>2, <1>3, <1>4, <1>5, <1>6, <1>7, <1>8, <1>9, <1>10, <1>11
     DEF Next, Producer, Worker, Environment, Finished

\* Only StartRun begins a run.
LEMMA RunningStep == ASSUME [Next]_vars, ~StartRun, Running' PROVE Running
<1>1. CASE Producer
  BY <1>1 DEF Producer, LoopHead, Reap, Wait, AwaitSlot, Drain, LoadSameFiles, LoadExtentHashes,
     Load, SearchDone, HoldFilerecs, PushItem, FilesPushed, ExtentsPushed, SealBatch, NextWindow,
     EndRun, LoadBlockHashes, Running, Reaping
<1>2. CASE ~Producer
  BY <1>2 DEF Next, Searcher, SearchFile, Environment, Interrupt, Kill, Delete, Worker, TakeItem,
     SkipItem, DedupeMember, FinishItem, Finished, Running
<1>. QED BY <1>1, <1>2

\* A load that has failed keeps the watermark below its window; one that has not
\* puts the groups it answers into the open batch.
LEMMA PendingLoaded ==
    ASSUME TypeOK, Phase, pc \in InWindow, pc \in Loading, pc # "sealed",
           NEW kind, NEW its, NEW next \in Loading, Load(kind, its, next),
           NEW g, NEW f, NEW d \in Nat, lo < d, d <= Hi
    PROVE  \/ Pending(g, f, d)'
           \/ settled' = settled \cup NothingToDo(kind, lo, Hi) /\ ~Covers(its, g, f)
<1>1. UNCHANGED <<lo, open_batch, inflight, topush>>
  BY DEF Load
<1>2. lo \in Nat /\ Hi \in Seqs /\ Hi \in Nat /\ open_batch = Hi /\ Running
  BY HiType, ConstantsOK DEF Phase, Loading, Seqs, Running
<1>3. CASE load_failed_at' = LoadFailed
  <2>1. LoadFailed # NoFailure /\ LoadFailed <= lo /\ LoadFailed \in Nat
    BY LoadFailedBelow
  <2>. QED BY <1>2, <1>3, <2>1 DEF Pending, Excused
<1>4. CASE loaded' = loaded \cup its /\ Covers(its, g, f)
  <2>1. Covers(loaded' \cup topush', g, f)
    BY <1>4 DEF Covers
  <2>2. PICK b \in Seqs : b = Hi
    BY <1>2
  <2>3. OpenBatch(b)'
    BY <1>1, <1>2, <2>2 DEF OpenBatch, NoBatch, Seqs
  <2>4. \A o \in inflight' : o < b => o < d
    <3>1. \A o \in inflight : o <= lo /\ o \in Nat
      BY <1>2, ConstantsOK DEF Phase, TypeOK, Seqs
    <3>. QED BY <1>1, <1>2, <3>1
  <2>5. AnswersFor(b, g, f, d)'
    BY <1>1, <2>1, <2>2, <2>3, <2>4 DEF AnswersFor
  <2>. QED BY <2>2, <2>3, <2>5 DEF Pending
<1>. QED BY <1>3, <1>4 DEF Load

\* A load that comes to its end leaves no new copy behind: it has nothing to
\* do or is in a group that has.
LEMMA LoadsComplete ==
    ASSUME TypeOK, Phase, pc \in InWindow, NEW g \in Groups,
           NEW f \in Members[g], f \in Window(lo, Hi)
    PROVE  /\ Kind[g] = "file" =>
                 <<g, f>> \in NothingToDo("file", lo, Hi) \/ Covers(SameFiles(lo, Hi), g, f)
           /\ Kind[g] = "extent" =>
                 <<g, f>> \in NothingToDo("extent", lo, Hi) \/ Covers(ExtentHashes(lo, Hi), g, f)
<1>. DEFINE l == lo
            h == Hi
<1>1. f \in Files /\ Members[g] \subseteq Files
  BY ConstantsOK DEF Window, Live
<1>2. ASSUME Kind[g] = "file"
      PROVE  <<g, f>> \in NothingToDo("file", lo, Hi) \/ Covers(SameFiles(lo, Hi), g, f)
  <2>1. CASE f \notin Copies(g) \/ f = SameFilesTarget(g)
    BY <1>1, <1>2, <2>1 DEF NothingToDo
  <2>2. CASE f \in Copies(g) /\ f # SameFilesTarget(g)
    <3>1. f \in New(g, lo, Hi) /\ f \in SameFilesRows(g, lo, Hi)
      BY <2>2 DEF New, SameFilesRows
    <3>2. Item(g, SameFilesTarget(g), SameFilesRows(g, lo, Hi), Hi) \in SameFiles(lo, Hi)
      BY <1>2, <2>2, <3>1 DEF SameFiles
    <3>. QED BY <3>1, <3>2 DEF Covers, Item
  <2>. QED BY <2>1, <2>2
<1>3. ASSUME Kind[g] = "extent"
      PROVE  <<g, f>> \in NothingToDo("extent", lo, Hi) \/ Covers(ExtentHashes(lo, Hi), g, f)
  <2>1. CASE f \notin Copies(g) \/ UpTo(g, Hi) = {f}
    BY <1>1, <1>3, <2>1 DEF NothingToDo
  <2>2. CASE f \in Copies(g) /\ UpTo(g, Hi) # {f}
    <3>1. f \in New(g, lo, Hi)
      BY <2>2 DEF New
    <3>2. New(g, lo, Hi) # {Anchor(g, lo, Hi)}
      <4>. SUFFICES ASSUME New(g, lo, Hi) = {Anchor(g, lo, Hi)} PROVE FALSE
        OBVIOUS
      <4>1. New(g, lo, Hi) = {f} /\ Anchor(g, lo, Hi) = f
        BY <3>1
      <4>2. /\ lo \in Nat /\ Hi \in Nat /\ lo < Hi /\ seq \in [Files -> 0 .. MaxSeq]
            /\ lo < seq[f] /\ seq[f] <= Hi
        BY HiType, ConstantsOK DEF TypeOK, Seqs, Window
      <4>3. f \in UpTo(g, Hi)
        BY <2>2, <4>2 DEF UpTo
      <4>4. PICK o \in UpTo(g, Hi) : o # f
        BY <2>2, <4>3
      <4>5. o \in Copies(g) /\ o \in Files /\ Copies(g) \subseteq Live /\ seq[o] <= Hi
        BY <4>4, ConstantsOK DEF UpTo, Copies, LiveMembers, Live, Kinds
      <4>6. seq[o] <= lo
        <5>1. o \notin New(g, lo, Hi)
          BY <4>1, <4>4
        <5>. QED BY <4>2, <4>5, <5>1, ConstantsOK DEF New, Window
      <4>7. o \in UpTo(g, lo)
        BY <4>5, <4>6 DEF UpTo
      <4>8. UpTo(g, lo) \subseteq Files
        BY <4>5 DEF UpTo, Live
      <4>9. Anchor(g, lo, Hi) \in UpTo(g, lo)
        BY <4>2, <4>7, <4>8, OldestRowIn DEF Anchor
      <4>. QED BY <4>1, <4>2, <4>9, ConstantsOK DEF UpTo
    <3>3. Item(g, Anchor(g, lo, Hi), New(g, lo, Hi) \cup {Anchor(g, lo, Hi)}, Hi) \in ExtentHashes(lo, Hi)
      BY <1>3, <3>1, <3>2 DEF ExtentHashes
    <3>. QED BY <3>1, <3>3 DEF Covers, Item
  <2>. QED BY <2>1, <2>2
<1>. QED BY <1>2, <1>3


\* Where a step takes a copy into the windows loaded so far: a load.
LEMMA LoadedStep ==
    ASSUME TypeOK, Phase, [Next]_vars, ~StartRun, Running',
           NEW g \in Groups, Loads(g), NEW d \in Nat, d <= max, d <= Loaded(g)'
    PROVE  \/ d <= Loaded(g)
           \/ LoadSameFiles /\ Kind[g] = "file" /\ lo < d /\ d <= Hi
           \/ LoadExtentHashes /\ Kind[g] = "extent" /\ lo < d /\ d <= Hi
<1>. USE DEF Loaded, AllLoaded, FilesLoaded
<1>0. lo \in Nat /\ max \in Nat /\ Stride \in Nat
  BY ConstantsOK DEF TypeOK
<1>1. CASE NextWindow
  <2>1. pc = "sealed" /\ pc' = "loop" /\ lo' = lo + Stride
    BY <1>1 DEF NextWindow
  <2>. QED BY <1>0, <2>1 DEF Hi
<1>2. CASE LoadSameFiles
  <2>1. pc = "load_files" /\ pc' = "hold_files" /\ UNCHANGED <<lo, max>>
    BY <1>2 DEF LoadSameFiles, Load
  <2>2. Hi \in Nat /\ Hi' = Hi
    BY <1>0, <2>1 DEF Hi
  <2>3. d <= IF Kind[g] = "file" THEN Hi ELSE lo
    BY <2>1, <2>2
  <2>4. d <= lo => d <= Loaded(g)
    BY <2>1
  <2>. QED BY <1>0, <1>2, <2>2, <2>3, <2>4
<1>3. CASE LoadExtentHashes
  <2>1. pc = "load_extents" /\ pc' \in {"load_blocks", "hold_extents"} /\ UNCHANGED <<lo, max>>
    BY <1>3 DEF LoadExtentHashes, Load
  <2>. QED BY <1>0, <1>3, <2>1 DEF Hi, Loads
<1>4. CASE HoldFilerecs \/ FilesPushed \/ ExtentsPushed \/ SealBatch \/ LoadBlockHashes \/ SearchDone
  <2>1. /\ UNCHANGED <<lo, max>>
        /\ pc \in AllLoaded => pc' \in AllLoaded
        /\ pc' \in AllLoaded => pc \in AllLoaded \/ OnlyWholeFiles
        /\ pc' \in AllLoaded \cup FilesLoaded => pc \in AllLoaded \cup FilesLoaded
    BY <1>4 DEF HoldFilerecs, FilesPushed, ExtentsPushed, SealBatch, LoadBlockHashes, SearchDone
  <2>. QED BY <1>0, <2>1 DEF Hi, Loads
<1>5. CASE LoopHead \/ Wait \/ Reap \/ AwaitSlot \/ Drain \/ EndRun \/ Searcher
           \/ Interrupt \/ (\E o \in Files : Delete(o)) \/ UNCHANGED vars
           \/ (\E w \in Workers : Worker(w)) \/ (\E it \in topush : PushItem(it))
  <2>1. /\ UNCHANGED <<lo, max>>
        /\ pc' = pc \/ (pc' \notin AllLoaded \cup FilesLoaded)
    BY <1>5 DEF LoopHead, Wait, Reap, AwaitSlot, Drain, EndRun, Searcher, SearchFile,
       Interrupt, Delete, Worker, DedupeMember, TakeItem, SkipItem, FinishItem, PushItem
  <2>2. pc' \notin AllLoaded \cup FilesLoaded => Loaded(g)' = lo
    BY <2>1
  <2>3. lo <= Loaded(g) \/ d <= Loaded(g)
    <3>1. lo <= Hi \/ max <= Hi
      BY <1>0 DEF Hi
    <3>. QED BY <1>0, <3>1 DEF Hi
  <2>. QED BY <1>0, <2>1, <2>2, <2>3 DEF Hi
<1>6. ~Kill
  BY DEF Kill, Running
<1>. QED BY <1>1, <1>2, <1>3, <1>4, <1>5, <1>6 DEF Next, Producer, Environment, Finished

\* A file's row changes when it is scanned and when it is found deleted.
LEMMA RowStep ==
    ASSUME TypeOK, [Next]_vars, ~StartRun
    PROVE  /\ \A f \in Files : seq'[f] = seq[f] \/ seq'[f] = 0
           /\ settled \subseteq settled'
<1>1. CASE LoadSameFiles \/ LoadExtentHashes
  BY <1>1 DEF LoadSameFiles, LoadExtentHashes, Load
<1>2. ASSUME NEW w \in Workers, DedupeMember(w)
      PROVE  /\ \A f \in Files : seq'[f] = seq[f] \/ seq'[f] = 0
             /\ settled \subseteq settled'
  BY <1>2 DEF DedupeMember, TypeOK
<1>3. CASE Producer /\ ~LoadSameFiles /\ ~LoadExtentHashes
  BY <1>3 DEF Producer, LoopHead, Reap, Wait, AwaitSlot, Drain, SearchDone, HoldFilerecs,
     PushItem, FilesPushed, ExtentsPushed, SealBatch, NextWindow, EndRun, LoadBlockHashes
<1>4. CASE Searcher \/ Environment \/ UNCHANGED vars
  BY <1>4 DEF Searcher, SearchFile, Environment, Interrupt, Kill, Delete
<1>5. CASE \E w \in Workers : FinishItem(w) \/ \E it \in queue : TakeItem(w, it) \/ SkipItem(w, it)
  BY <1>5 DEF FinishItem, TakeItem, SkipItem
<1>. QED BY <1>1, <1>2, <1>3, <1>4, <1>5 DEF Next, Worker, Finished

LEMMA AccountedStep ==
    ASSUME TypeOK, Phase, Accounted, WatermarkSound, [Next]_vars
    PROVE  Accounted'
<1>1. CASE StartRun
  <2>1. pc' = "loop" /\ lo' = durable /\ settled' = settled /\ durable \in Nat
    BY <1>1, ConstantsOK DEF StartRun, TypeOK
  <2>2. ASSUME NEW g \in Groups, NEW f \in LiveMembers(g)', Loads(g), seq'[f] <= Loaded(g)'
        PROVE  <<g, f>> \in settled'
    <3>1. f \in Files /\ seq'[f] # 0 /\ seq'[f] <= durable
      BY <2>1, <2>2, ConstantsOK DEF LiveMembers, Live, Loaded, AllLoaded, FilesLoaded
    <3>2. seq'[f] \in Nat
      BY <1>1, <3>1, StartRunScan, ConstantsOK DEF TypeOK
    <3>3. seq'[f] = seq[f]
      BY <1>1, <2>1, <3>1, <3>2, StartRunScan
    <3>4. f \in LiveMembers(g)
      BY <2>2, <3>3 DEF LiveMembers, Live
    <3>. QED BY <2>1, <2>2, <3>1, <3>3, <3>4 DEF WatermarkSound
  <2>. QED BY <2>1, <2>2 DEF Accounted, Loads, Safe
<1>2. ASSUME ~StartRun, Running', NEW g \in Groups, NEW f \in LiveMembers(g)', Loads(g),
             seq'[f] <= Loaded(g)'
      PROVE  Safe(g, f)'
  <2>1. f \in Files /\ seq'[f] = seq[f] /\ f \in LiveMembers(g) /\ settled \subseteq settled'
    BY <1>2, RowStep DEF LiveMembers, Live
  <2>2. Running
    BY <1>2, RunningStep
  <2>3. seq[f] \in Nat /\ seq[f] <= max
    BY <2>1, <2>2, ConstantsOK DEF TypeOK, Phase
  <2>4. CASE seq[f] <= Loaded(g)
    <3>1. CASE <<g, f>> \in settled
      BY <2>1, <3>1 DEF Safe
    <3>2. CASE Pending(g, f, seq[f])
      <4>1. \/ Pending(g, f, seq[f])'
            \/ \E w \in Workers : FinishItem(w) /\ job[w].g = g /\ f \in job[w].ms
        BY <1>2, <2>1, <2>3, <3>2, PendingStep
      <4>2. ASSUME NEW w \in Workers, FinishItem(w), job[w].g = g, f \in job[w].ms
            PROVE  <<g, f>> \in settled'
        BY <4>2 DEF FinishItem
      <4>. QED BY <2>1, <4>1, <4>2 DEF Safe
    <3>. QED BY <1>2, <2>1, <2>2, <2>4, <3>1, <3>2 DEF Accounted, Safe
  <2>5. CASE LoadSameFiles /\ Kind[g] = "file" /\ lo < seq[f] /\ seq[f] <= Hi
    <3>1. /\ pc \in InWindow /\ pc \in Loading /\ pc # "sealed" /\ "hold_files" \in Loading
          /\ Load("file", SameFiles(lo, Hi), "hold_files")
      BY <2>5 DEF LoadSameFiles, InWindow, Loading
    <3>2. f \in Members[g] /\ f \in Window(lo, Hi)
      BY <2>1, <2>5 DEF LiveMembers, Window
    <3>3. <<g, f>> \in NothingToDo("file", lo, Hi) \/ Covers(SameFiles(lo, Hi), g, f)
      BY <2>5, <3>1, <3>2, LoadsComplete
    <3>4. \/ Pending(g, f, seq[f])'
          \/ settled' = settled \cup NothingToDo("file", lo, Hi) /\ ~Covers(SameFiles(lo, Hi), g, f)
      BY <2>1, <2>3, <2>5, <3>1, PendingLoaded
    <3>. QED BY <2>1, <3>3, <3>4 DEF Safe
  <2>6. CASE LoadExtentHashes /\ Kind[g] = "extent" /\ lo < seq[f] /\ seq[f] <= Hi
    <3>1. PICK next \in Loading : Load("extent", ExtentHashes(lo, Hi), next)
      BY <2>6 DEF LoadExtentHashes, Loading
    <3>2. pc \in InWindow /\ pc \in Loading /\ pc # "sealed"
      BY <2>6 DEF LoadExtentHashes, InWindow, Loading
    <3>3. f \in Members[g] /\ f \in Window(lo, Hi)
      BY <2>1, <2>6 DEF LiveMembers, Window
    <3>4. <<g, f>> \in NothingToDo("extent", lo, Hi) \/ Covers(ExtentHashes(lo, Hi), g, f)
      BY <2>6, <3>2, <3>3, LoadsComplete
    <3>5. \/ Pending(g, f, seq[f])'
          \/ settled' = settled \cup NothingToDo("extent", lo, Hi) /\ ~Covers(ExtentHashes(lo, Hi), g, f)
      BY <2>1, <2>3, <2>6, <3>1, <3>2, PendingLoaded
    <3>. QED BY <2>1, <3>4, <3>5 DEF Safe
  <2>. QED BY <1>2, <2>1, <2>3, <2>4, <2>5, <2>6, LoadedStep
<1>. QED BY <1>1, <1>2 DEF Accounted, Loads

-----------------------------------------------------------------------------
(***************************************************************************)
(* The watermark.                                                          *)
(***************************************************************************)

\* Where the reap of the front batch may move the watermark nothing is pending:
\* no other batch in flight reaches so low, the front has no item left, and one
\* that was cut short would have frozen the watermark.
LEMMA ReapedPast ==
    ASSUME TypeOK, Phase, Reap, ~watermark_frozen',
           NEW g \in Groups, NEW f, NEW d \in Nat, d <= Capped(Front)
    PROVE  d <= Loaded(g) /\ ~Pending(g, f, d)
<1>1. /\ inflight # {} /\ outstanding[Front] = {} /\ inflight \subseteq Seqs
      /\ watermark_frozen' = (watermark_frozen \/ cut_short[Front])
  BY DEF Reap, FreeBatch, FrontReady, TypeOK
<1>2. open_batch = NoBatch /\ Running
  BY DEF Reap, Reaping, Phase, Loading, Running
<1>3. Front \in inflight /\ \A o \in inflight : Front <= o
  BY <1>1, FrontIn
<1>4. Front \in Nat /\ load_failed_at \in -1 .. MaxSeq /\ MaxSeq \in Nat
  BY <1>1, <1>3, ConstantsOK DEF TypeOK, Seqs
<1>5. d <= Front /\ (load_failed_at # NoFailure => d <= load_failed_at)
  BY <1>4 DEF Capped
<1>6. ~Excused(d) /\ ~cut_short[Front]
  <2>1. ~watermark_frozen /\ ~cut_short[Front]
    BY <1>1, Zenon
  <2>. QED BY <1>4, <1>5, <2>1 DEF Excused
<1>7. d <= Loaded(g)
  <2>1. Front <= IF pc = "sealed" THEN Hi ELSE lo
    BY <1>2, <1>3 DEF Phase
  <2>2. Loaded(g) = IF pc = "sealed" THEN Hi ELSE lo
    BY DEF Reap, Reaping, Loaded, AllLoaded, FilesLoaded
  <2>3. lo \in Nat /\ max \in Nat
    BY ConstantsOK DEF TypeOK
  <2>. QED BY <1>4, <1>5, <2>1, <2>2, <2>3, ConstantsOK DEF Hi
<1>8. ASSUME NEW b \in Seqs, b \in inflight \/ OpenBatch(b), AnswersFor(b, g, f, d)
      PROVE  FALSE
  <2>1. b \in inflight /\ ~OpenBatch(b) /\ b \in Nat
    BY <1>2, <1>8, ConstantsOK DEF OpenBatch, Seqs
  <2>2. CASE b = Front
    BY <1>1, <1>6, <1>8, <2>1, <2>2 DEF AnswersFor, Covers
  <2>3. CASE b # Front
    <3>1. Front < b
      BY <1>3, <1>4, <2>1, <2>3
    <3>2. Front < d
      BY <1>3, <1>8, <3>1 DEF AnswersFor
    <3>. QED BY <1>4, <1>5, <3>2
  <2>. QED BY <2>2, <2>3
<1>. QED BY <1>6, <1>7, <1>8 DEF Pending

\* The reap of the front batch moves the watermark to where every copy is settled.
LEMMA ReapWatermark ==
    ASSUME TypeOK, Phase, Accounted, WatermarkSound, Reap
    PROVE  WatermarkSound'
<1>1. seq' = seq /\ settled' = settled /\ Running
  BY DEF Reap, Reaping, Running
<1>2. CASE durable' = durable
  BY <1>1, <1>2 DEF WatermarkSound, LiveMembers, Live, Loads
<1>3. CASE ~watermark_frozen' /\ durable' = Capped(Front)
  <2>1. ASSUME NEW g \in Groups, NEW f \in LiveMembers(g), Loads(g), seq[f] <= Capped(Front)
        PROVE  <<g, f>> \in settled
    <3>1. seq[f] \in Nat
      BY ConstantsOK DEF LiveMembers, Live, TypeOK
    <3>2. seq[f] <= Loaded(g) /\ ~Pending(g, f, seq[f])
      BY <1>3, <2>1, <3>1, ReapedPast
    <3>. QED BY <1>1, <2>1, <3>2 DEF Accounted, Safe
  <2>. QED BY <1>1, <1>3, <2>1 DEF WatermarkSound, LiveMembers, Live, Loads
<1>. QED BY <1>2, <1>3 DEF Reap, FreeBatch, AdvanceSeq

\* Every other step leaves the watermark and only settles more copies; a run
\* scans new files into generations above the watermark.
LEMMA WatermarkStep ==
    ASSUME TypeOK, Phase, Accounted, WatermarkSound, [Next]_vars
    PROVE  WatermarkSound'
<1>1. CASE Reap
  BY <1>1, ReapWatermark
<1>2. CASE StartRun
  <2>1. durable' = durable /\ settled' = settled /\ durable \in Nat
    BY <1>2, ConstantsOK DEF StartRun, TypeOK
  <2>2. ASSUME NEW g \in Groups, NEW f \in LiveMembers(g)', Loads(g), seq'[f] <= durable
        PROVE  <<g, f>> \in settled
    <3>1. f \in Files /\ seq'[f] \in Nat /\ seq'[f] # 0
      BY <1>2, <2>2, StartRunScan, ConstantsOK DEF LiveMembers, Live, TypeOK
    <3>2. seq'[f] = seq[f]
      BY <1>2, <2>1, <2>2, <3>1, StartRunScan
    <3>3. f \in LiveMembers(g)
      BY <2>2, <3>1, <3>2 DEF LiveMembers, Live
    <3>. QED BY <2>2, <3>2, <3>3 DEF WatermarkSound
  <2>. QED BY <2>1, <2>2 DEF WatermarkSound, Loads
<1>3. ASSUME ~Reap, ~StartRun
      PROVE  /\ durable' = durable /\ settled \subseteq settled'
             /\ \A f \in Files : seq'[f] = seq[f] \/ seq'[f] = 0

  <2>1. CASE LoadSameFiles \/ LoadExtentHashes
    BY <2>1 DEF LoadSameFiles, LoadExtentHashes, Load
  <2>2. CASE \E w \in Workers : DedupeMember(w)
    <3>1. PICK w \in Workers : DedupeMember(w)
      BY <2>2
    <3>. QED BY <3>1 DEF DedupeMember, TypeOK
  <2>3. CASE \E w \in Workers : FinishItem(w)
    BY <2>3 DEF FinishItem
  <2>4. CASE Producer /\ ~Reap /\ ~LoadSameFiles /\ ~LoadExtentHashes
    BY <2>4 DEF Producer, LoopHead, Wait, AwaitSlot, Drain, SearchDone, HoldFilerecs,
         PushItem, FilesPushed, ExtentsPushed, SealBatch, NextWindow, EndRun, LoadBlockHashes
  <2>5. CASE Searcher \/ Environment
    BY <2>5 DEF Searcher, SearchFile, Environment, Interrupt, Kill, Delete
  <2>6. CASE \E w \in Workers : \E it \in queue : TakeItem(w, it) \/ SkipItem(w, it)
    BY <2>6 DEF TakeItem, SkipItem
  <2>7. CASE UNCHANGED vars
    BY <2>7
  <2>. QED BY <1>3, <2>1, <2>2, <2>3, <2>4, <2>5, <2>6, <2>7 DEF Next, Worker, Finished
<1>4. CASE ~Reap /\ ~StartRun
  <2>1. ASSUME NEW g \in Groups, NEW f \in LiveMembers(g)', Loads(g), seq'[f] <= durable'
        PROVE  <<g, f>> \in settled'
    <3>1. f \in Files /\ seq'[f] = seq[f] /\ f \in LiveMembers(g)
      BY <1>3, <1>4, <2>1 DEF LiveMembers, Live
    <3>. QED BY <1>3, <1>4, <2>1, <3>1 DEF WatermarkSound
  <2>. QED BY <2>1 DEF WatermarkSound, Loads
<1>. QED BY <1>1, <1>2, <1>4

-----------------------------------------------------------------------------
(***************************************************************************)
(* The theorems.                                                           *)
(***************************************************************************)

LEMMA InitIInv == Init => IInv
<1>. SUFFICES ASSUME Init PROVE IInv
  OBVIOUS
<1>1. TypeOK
  <2>1. 0 \in 0 .. MaxSeq /\ 0 \in 0 .. NFiles /\ 0 \in 0 .. MaxRuns /\ 0 \in 0 .. MaxFaults
        /\ -1 \in -1 .. MaxSeq /\ 0 \in Nat
    BY ConstantsOK
  <2>2. storage \in [Groups -> [Files -> Files]] /\ seq \in [Files -> 0 .. MaxSeq]
    BY <2>1 DEF Init
  <2>3. /\ outstanding \in [Seqs -> SUBSET Items] /\ held \in [Seqs -> SUBSET Files]
        /\ cut_short \in [Seqs -> BOOLEAN]
    BY DEF Init
  <2>4. /\ job \in [Workers -> Items \cup {NoWork}] /\ todo \in [Workers -> SUBSET Files]
        /\ target \in [Workers -> Files \cup {NoTarget}]
    BY DEF Init
  <2>5. open_batch = 0 /\ load_failed_at = -1 /\ pc \in PCs
    BY DEF Init, NoBatch, NoFailure, PCs
  <2>6. asleep = FALSE /\ interrupted = FALSE /\ watermark_frozen = FALSE
    BY DEF Init
  <2>. QED BY <2>1, <2>2, <2>3, <2>4, <2>5, <2>6 DEF Init, TypeOK
<1>2. Phase
  BY DEF Init, Phase, InWindow, Loading, Running, NoBatch
<1>3. Accounted
  BY DEF Init, Accounted, Running
<1>4. WatermarkSound
  BY DEF Init, WatermarkSound, LiveMembers, Live
<1>. QED BY <1>1, <1>2, <1>3, <1>4 DEF IInv

LEMMA IInvStep == IInv /\ [Next]_vars => IInv'
BY TypeStep, PhaseStep, AccountedStep, WatermarkStep DEF IInv

\* The inductive invariant holds, and with it the account it keeps: as long as
\* a dedupe phase runs, no copy of the windows it has loaded is lost.
THEOREM InvariantHolds == Spec => []IInv
BY InitIInv, IInvStep, PTL DEF Spec

\* Every variable keeps its type, for any number of files, workers and runs.
THEOREM TypeCorrect == Spec => []TypeOK
<1>1. IInv => TypeOK
  BY DEF IInv
<1>. QED BY <1>1, InvariantHolds, PTL

\* The Ctrl+C invariant of run_dedupe.c, for every set of groups and of
\* workers, any number of runs, and interruptions, crashes, failing loads and
\* failing writes of the watermark anywhere: what is at or below the durable
\* watermark needs no further run.
THEOREM WatermarkTheorem == Spec => []WatermarkSound
<1>1. IInv => WatermarkSound
  BY DEF IInv
<1>. QED BY <1>1, InvariantHolds, PTL

-----------------------------------------------------------------------------
(***************************************************************************)
(* Filerecs, passes and targets: whose hands an item is in.                *)
(***************************************************************************)

\* What is in flight is counted once by its batch, which holds its filerecs;
\* what is still to be pushed is not in flight.
Pushed ==
    /\ \A it \in InFlight : /\ it.hi \in inflight \cup {open_batch}
                            /\ it \in outstanding[it.hi] /\ it.ms \subseteq held[it.hi]
    /\ \A w \in Workers : job[w] \notin queue
    /\ \A w, v \in Workers : job[w] = job[v] => job[w] = NoWork \/ w = v
    /\ \A it \in topush : /\ it.hi = open_batch /\ it \notin InFlight
                          /\ it.ms \subseteq held[open_batch]
    /\ \A it \in loaded \cup dups_tree : it.hi = open_batch

\* The whole files of a window are pushed before its extents are loaded.
Stages ==
    /\ \A it \in loaded : Kind[it.g] = "file" <=> pc = "hold_files"
    /\ \A it \in topush : Kind[it.g] = "file" <=> pc = "push_files"
    /\ \A it \in InFlight : it.hi = open_batch =>
          /\ pc \notin {"load_files", "hold_files"}
          /\ pc \notin {"push_extents", "seal"} => Kind[it.g] = "file"

\* A filerec is listed while a batch holds it or a tree names it.
Listed ==
    /\ \A b \in Seqs : held[b] \subseteq filerecs
    /\ FilesOf(loaded) \cup FilesOf(dups_tree) \cup searching \subseteq filerecs
    /\ dups_tree # {} \/ searching # {} => pc = "search"

Memory == Pushed /\ Stages /\ Listed

LEMMA InitMemory == Init => Memory
<1>. SUFFICES ASSUME Init PROVE Memory
  OBVIOUS
<1>1. InFlight = {} /\ topush = {} /\ loaded = {} /\ dups_tree = {} /\ searching = {}
  BY DEF Init, InFlight
<1>2. Pushed
  BY <1>1 DEF Init, Pushed
<1>3. Stages
  BY <1>1 DEF Stages
<1>4. Listed
  BY <1>1 DEF Init, Listed, FilesOf
<1>. QED BY <1>2, <1>3, <1>4 DEF Memory

LEMMA NewProcessMemory == ASSUME NewProcess PROVE Memory'
<1>1. /\ InFlight' = {} /\ topush' = {} /\ loaded' = {} /\ dups_tree' = {} /\ searching' = {}
  BY DEF NewProcess, InFlight
<1>2. Pushed'
  BY <1>1 DEF NewProcess, Pushed
<1>3. Stages'
  BY <1>1 DEF Stages
<1>4. Listed'
  BY <1>1 DEF NewProcess, Listed, FilesOf
<1>. QED BY <1>2, <1>3, <1>4 DEF Memory

\* What the workers' steps do to what is in flight.
LEMMA FlightTaken ==
    ASSUME TypeOK, NEW w \in Workers, NEW it \in queue, TakeItem(w, it)
    PROVE  InFlight' = InFlight
<1>1. job' = [job EXCEPT ![w] = it] /\ queue' = queue \ {it} /\ job[w] = NoWork
  BY DEF TakeItem
<1>2. job \in [Workers -> Items \cup {NoWork}] /\ it \in Items /\ it # NoWork
  BY NoWorkOK DEF TypeOK
<1>. QED BY <1>1, <1>2 DEF InFlight

LEMMA FlightSkipped ==
    ASSUME TypeOK, Pushed, NEW w \in Workers, NEW it \in queue, SkipItem(w, it)
    PROVE  InFlight' = InFlight \ {it}
<1>1. job' = job /\ queue' = queue \ {it}
  BY DEF SkipItem
<1>2. \A v \in Workers : job[v] # it
  BY DEF Pushed
<1>. QED BY <1>1, <1>2 DEF InFlight

LEMMA FlightFinished ==
    ASSUME TypeOK, Pushed, NEW w \in Workers, FinishItem(w)
    PROVE  InFlight' = InFlight \ {job[w]}
<1>1. job' = [job EXCEPT ![w] = NoWork] /\ queue' = queue /\ job[w] # NoWork
  BY DEF FinishItem
<1>2. job \in [Workers -> Items \cup {NoWork}]
  BY DEF TypeOK
<1>3. \A v \in Workers : v # w => job[v] # job[w]
  BY <1>1 DEF Pushed
<1>4. job[w] \notin queue
  BY DEF Pushed
<1>. QED BY <1>1, <1>2, <1>3, <1>4 DEF InFlight

\* Counting an item off leaves the others to their batches.
LEMMA DonePushed ==
    ASSUME TypeOK, Memory, NEW it \in InFlight, ItemDone(it), InFlight' = InFlight \ {it},
           UNCHANGED <<pc, inflight, open_batch, held, trees, records>>,
           \A w \in Workers : job'[w] = job[w] \/ job'[w] = NoWork,
           queue' \subseteq queue
    PROVE  Memory'
<1>1. NoWork \notin InFlight /\ InFlight \subseteq Items
  BY NoWorkOK DEF InFlight, TypeOK
<1>2. \A o \in InFlight' : o \in outstanding'[o.hi]
  <2>. SUFFICES ASSUME NEW o \in InFlight' PROVE o \in outstanding'[o.hi]
    OBVIOUS
  <2>1. o \in InFlight /\ o # it /\ o \in outstanding[o.hi] /\ o.hi \in Seqs /\ it.hi \in Seqs
    BY <1>1 DEF Memory, Pushed, Items
  <2>2. outstanding' = [outstanding EXCEPT ![it.hi] = @ \ {it}]
        /\ outstanding \in [Seqs -> SUBSET Items]
    BY DEF ItemDone, TypeOK
  <2>. QED BY <2>1, <2>2
<1>3. /\ \A w \in Workers : job'[w] \notin queue'
      /\ \A w, v \in Workers : job'[w] = job'[v] => job'[w] = NoWork \/ w = v
  <2>1. NoWork \notin queue
    BY NoWorkOK DEF TypeOK
  <2>. QED BY <2>1 DEF Memory, Pushed
<1>4. Pushed'
  BY <1>2, <1>3 DEF Memory, Pushed
<1>5. Stages' /\ Listed'
  BY DEF Memory, Stages, Listed
<1>. QED BY <1>4, <1>5 DEF Memory

\* Of an empty batch nothing is in flight, so its filerecs can go.
LEMMA ReapMemory == ASSUME TypeOK, Phase, Memory, Reap PROVE Memory'
<1>1. /\ inflight' = inflight \ {Front} /\ outstanding[Front] = {} /\ Front \in Seqs
      /\ UNCHANGED <<queue, job, open_batch, outstanding, trees, dups_tree, searching, pc>>
      /\ held' = [held EXCEPT ![Front] = {}] /\ filerecs' = filerecs \ Unheld(Front)
  BY FrontIn DEF Reap, FreeBatch, FrontReady, TypeOK
<1>2. held \in [Seqs -> SUBSET Files] /\ InFlight' = InFlight /\ InFlight \subseteq Items
  BY <1>1 DEF TypeOK, InFlight
<1>3. loaded = {} /\ topush = {} /\ dups_tree = {} /\ searching = {}
  BY DEF Reap, Reaping, Phase, Memory, Listed
<1>4. \A it \in InFlight : it.hi # Front /\ it.hi \in Seqs
  BY <1>1, <1>2 DEF Memory, Pushed, Items
<1>5. Pushed'
  BY <1>1, <1>2, <1>3, <1>4 DEF Memory, Pushed
<1>6. Stages'
  BY <1>1, <1>2 DEF Memory, Stages
<1>7. Listed'
  <2>1. \A b \in Seqs : held'[b] \subseteq filerecs'
    BY <1>1, <1>2 DEF Memory, Listed, Unheld
  <2>. QED BY <1>1, <1>3, <2>1 DEF Listed, FilesOf
<1>. QED BY <1>5, <1>6, <1>7 DEF Memory

\* A new batch opens above all that is in flight.
LEMMA OpenMemory ==
    ASSUME TypeOK, Phase, Memory, pc \in {"await", "drain"}, open_batch' = Hi, pc' = "load_files",
           UNCHANGED <<queue, job, inflight, outstanding, held, trees, records>>
    PROVE  Memory'
<1>1. Hi \in Seqs /\ lo < Hi /\ lo \in Nat /\ open_batch = NoBatch /\ loaded = {} /\ topush = {}
      /\ dups_tree = {} /\ searching = {}
  BY HiType, ConstantsOK DEF Phase, InWindow, Loading, Memory, Listed
<1>2. InFlight' = InFlight /\ InFlight \subseteq Items
  BY DEF InFlight, TypeOK
<1>3. \A it \in InFlight : it.hi \in inflight /\ it.hi # Hi
  <2>. SUFFICES ASSUME NEW it \in InFlight PROVE it.hi \in inflight /\ it.hi # Hi
    OBVIOUS
  <2>1. it.hi \in Seqs /\ it.hi \in inflight \cup {open_batch}
    BY <1>2 DEF Memory, Pushed, Items
  <2>2. it.hi \in inflight
    BY <1>1, <2>1 DEF NoBatch, Seqs
  <2>3. it.hi <= lo
    BY <2>2 DEF Phase, Running
  <2>. QED BY <1>1, <2>1, <2>2, <2>3, ConstantsOK DEF Seqs
<1>4. Pushed'
  BY <1>1, <1>2, <1>3 DEF Memory, Pushed
<1>5. Stages'
  BY <1>1, <1>2, <1>3 DEF Memory, Stages
<1>6. Listed'
  BY <1>1 DEF Memory, Listed
<1>. QED BY <1>4, <1>5, <1>6 DEF Memory

LEMMA LoadMemory ==
    ASSUME TypeOK, Phase, Memory, NEW kind \in {"file", "extent"}, NEW its \in SUBSET Items,
           NEW next, Load(kind, its, next),
           \/ pc = "load_files" /\ kind = "file" /\ next = "hold_files"
           \/ pc = "load_extents" /\ kind = "extent" /\ next \in {"load_blocks", "hold_extents"},
           \A it \in its : it.hi = open_batch /\ Kind[it.g] = kind
    PROVE  Memory'
<1>1. /\ loaded = {} /\ topush = {} /\ dups_tree = {} /\ searching = {}
  BY DEF Phase, Memory, Listed
<1>2. /\ UNCHANGED <<queue, job, inflight, outstanding, held, topush, dups_tree, searching,
                     open_batch>>
      /\ pc' = next /\ filerecs' = filerecs \cup FilesOf(loaded')
  BY DEF Load
<1>3. InFlight' = InFlight
  BY <1>2 DEF InFlight
<1>4. \A it \in loaded' : it.hi = open_batch /\ Kind[it.g] = kind
  <2>1. ASSUME NEW k \in Files, NEW it \in Truncated(its, k)
        PROVE  it.hi = open_batch /\ Kind[it.g] = kind
    <3>1. PICK o \in its : it = [o EXCEPT !.ms = {o.tgt} \cup {m \in o.ms : m # k /\
              IF Kind[o.g] = "extent" THEN OlderRow(m, k) ELSE m < k}]
      BY <2>1 DEF Truncated
    <3>2. it.hi = o.hi /\ it.g = o.g
      BY <3>1 DEF Items
    <3>. QED BY <3>2
  <2>. QED BY <1>1, <2>1 DEF Load
<1>5. Pushed'
  BY <1>1, <1>2, <1>3, <1>4 DEF Memory, Pushed
<1>6. Stages'
  BY <1>1, <1>2, <1>3, <1>4 DEF Memory, Stages
<1>7. Listed'
  BY <1>1, <1>2 DEF Memory, Listed, FilesOf
<1>. QED BY <1>5, <1>6, <1>7 DEF Memory

LEMMA LoadersHi ==
    ASSUME NEW l \in Nat, NEW h \in Nat
    PROVE  /\ \A it \in SameFiles(l, h) : it.hi = h
           /\ \A it \in ExtentHashes(l, h) : it.hi = h
           /\ \A a \in BlockAnchors(l, h) : \A it \in BlockHashes(l, h, a) : it.hi = h
BY DEF SameFiles, ExtentHashes, BlockHashes, Item

LEMMA ProducerMemory ==
    ASSUME TypeOK, Phase, Memory, Producer PROVE Memory'
<1>. USE DEF Memory, Pushed, Stages, Listed
<1>0. Loading \subseteq InWindow /\ {"await", "drain", "sealed"} \subseteq InWindow
  BY DEF InWindow
<1>1. CASE LoopHead \/ Wait \/ NextWindow \/ EndRun
  <2>1. /\ UNCHANGED <<queue, job, inflight, outstanding, held, open_batch, trees, records>>
        /\ pc \in {"loop", "sealed", "end"} \/ pc' = pc
        /\ pc' \in {"await", "end", "loop", "over"} \/ pc' = pc
    BY <1>1 DEF LoopHead, Wait, NextWindow, EndRun
  <2>2. InFlight' = InFlight /\ InFlight \subseteq Items
    BY <2>1 DEF InFlight, TypeOK
  <2>3. \A it \in InFlight : it.hi = open_batch => pc' = pc
    <3>1. \A it \in InFlight : it.hi \in Nat /\ it.hi # 0
      BY <2>2 DEF Items, Seqs
    <3>. QED BY <2>1, <3>1 DEF Phase, NoBatch, Loading
  <2>4. (\A it \in loaded \cup topush : pc' = pc) /\ (dups_tree # {} \/ searching # {} => pc' = pc)
    BY <2>1 DEF Phase
  <2>. QED BY <2>1, <2>2, <2>3, <2>4
<1>2. CASE Reap
  BY <1>2, ReapMemory
<1>3. CASE AwaitSlot
  <2>1. CASE DoBlockHash
    <3>1. /\ UNCHANGED <<queue, job, inflight, outstanding, held, open_batch, trees, records>>
          /\ pc = "await" /\ pc' = "drain"
      BY <1>3, <2>1 DEF AwaitSlot
    <3>2. InFlight' = InFlight /\ InFlight \subseteq Items /\ open_batch = 0
      BY <3>1 DEF InFlight, TypeOK, Phase, NoBatch, Loading
    <3>3. \A it \in InFlight : it.hi # open_batch
      BY <3>2 DEF Items, Seqs
    <3>4. loaded = {} /\ topush = {} /\ dups_tree = {} /\ searching = {}
      BY <3>1 DEF Phase
    <3>. QED BY <3>1, <3>2, <3>3, <3>4
  <2>2. CASE ~DoBlockHash
    BY <1>3, <2>2, OpenMemory DEF AwaitSlot
  <2>. QED BY <2>1, <2>2
<1>4. CASE Drain
  BY <1>4, OpenMemory DEF Drain
<1>5. CASE LoadSameFiles
  <2>1. pc = "load_files" /\ Load("file", SameFiles(lo, Hi), "hold_files")
    BY <1>5 DEF LoadSameFiles
  <2>2. SameFiles(lo, Hi) \subseteq Items /\ lo \in Nat /\ Hi \in Nat /\ open_batch = Hi
    BY <1>0, <2>1, LoadersType, HiType, ConstantsOK DEF Loading, Phase, Seqs
  <2>. QED BY <2>1, <2>2, LoadMemory, LoadersHi, LoadersWork
<1>6. CASE LoadExtentHashes
  <2>1. PICK next \in {"load_blocks", "hold_extents"} :
            pc = "load_extents" /\ Load("extent", ExtentHashes(lo, Hi), next)
    BY <1>6 DEF LoadExtentHashes
  <2>2. ExtentHashes(lo, Hi) \subseteq Items /\ lo \in Nat /\ Hi \in Nat /\ open_batch = Hi
    BY <1>0, <2>1, LoadersType, HiType, ConstantsOK DEF Loading, Phase, Seqs
  <2>3. \A it \in ExtentHashes(lo, Hi) : it.hi = open_batch /\ Kind[it.g] = "extent"
    BY <2>2, LoadersHi, LoadersWork
  <2>. QED BY <2>1, <2>2, <2>3, LoadMemory
<1>7. CASE LoadBlockHashes
  <2>1. /\ pc = "load_blocks" /\ topush' = topush /\ loaded' = loaded
        /\ UNCHANGED <<queue, job, inflight, outstanding, held, open_batch>>
        /\ pc' \in {"search", "hold_extents"}
        /\ filerecs \subseteq filerecs'
    BY <1>7 DEF LoadBlockHashes
  <2>2. lo \in Nat /\ Hi \in Nat /\ open_batch = Hi
    BY <1>0, <2>1, HiType, ConstantsOK DEF Loading, Phase, Seqs
  <2>3. InFlight' = InFlight
    BY <2>1 DEF InFlight
  <2>4. dups_tree = {} /\ searching = {} /\ topush = {}
    BY <2>1 DEF Phase
  <2>5. /\ \A it \in dups_tree' : it.hi = open_batch
        /\ FilesOf(dups_tree') \cup searching' \subseteq filerecs'
        /\ dups_tree' # {} \/ searching' # {} => pc' = "search"
    <3>1. PICK a \in BlockAnchors(lo, Hi) :
            \/ /\ dups_tree' = BlockHashes(lo, Hi, a)
               /\ searching' = FilesOf(BlockHashes(lo, Hi, a))
               /\ filerecs' = filerecs \cup FilesOf(BlockHashes(lo, Hi, a)) /\ pc' = "search"
            \/ UNCHANGED <<dups_tree, searching>>
      BY <1>7 DEF LoadBlockHashes
    <3>. QED BY <2>2, <2>4, <3>1, LoadersHi DEF FilesOf
  <2>. QED BY <2>1, <2>3, <2>4, <2>5
<1>8. CASE SearchDone
  <2>1. PICK found \in SUBSET dups_tree : loaded' = loaded \cup found
    BY <1>8 DEF SearchDone
  <2>2. /\ pc = "search" /\ pc' = "hold_extents" /\ dups_tree' = {} /\ topush' = topush
        /\ UNCHANGED <<queue, job, inflight, outstanding, held, open_batch, filerecs, searching>>
        /\ searching = {}
    BY <1>8 DEF SearchDone
  <2>3. InFlight' = InFlight
    BY <2>2 DEF InFlight
  <2>4. FilesOf(loaded') \subseteq filerecs' /\ FilesOf(dups_tree') = {}
    BY <2>1, <2>2 DEF FilesOf
  <2>5. \A it \in loaded' : Kind[it.g] # "file"
    BY <2>1, <2>2 DEF Phase
  <2>6. topush = {}
    BY <2>2 DEF Phase
  <2>. QED BY <2>1, <2>2, <2>3, <2>4, <2>5, <2>6
<1>9. CASE HoldFilerecs
  <2>1. /\ pc \in {"hold_files", "hold_extents"}
        /\ held' = [held EXCEPT ![open_batch] = @ \cup FilesOf(loaded)]
        /\ topush' = {it \in loaded : it.ms # {it.tgt}} /\ loaded' = {}
        /\ pc' = IF pc = "hold_files" THEN "push_files" ELSE "push_extents"
        /\ UNCHANGED <<queue, job, inflight, outstanding, open_batch, filerecs, searching, dups_tree>>
    BY <1>9 DEF HoldFilerecs
  <2>2. open_batch \in Seqs /\ held \in [Seqs -> SUBSET Files]
    BY <2>1, BatchTypes DEF Loading, TypeOK
  <2>3. InFlight' = InFlight
    BY <2>1 DEF InFlight
  <2>4. \A b \in Seqs : held'[b] = IF b = open_batch THEN held[b] \cup FilesOf(loaded) ELSE held[b]
    BY <2>1, <2>2
  <2>5. \A it \in topush' : it \notin InFlight /\ it.ms \subseteq held'[open_batch]
    BY <2>1, <2>2, <2>4 DEF FilesOf
  <2>6. \A it \in InFlight : it.ms \subseteq held'[it.hi]
    <3>1. \A it \in InFlight : it.hi \in Seqs
      BY DEF InFlight, TypeOK, Items
    <3>. QED BY <2>4, <3>1
  <2>7. dups_tree = {} /\ searching = {}
    BY <2>1
  <2>8. Pushed'
    BY <2>1, <2>3, <2>5, <2>6, <2>7
  <2>9. Stages'
    BY <2>1, <2>3
  <2>10. Listed'
    BY <2>1, <2>4, <2>7 DEF FilesOf
  <2>. QED BY <2>8, <2>9, <2>10
<1>10. CASE \E it \in topush : PushItem(it)
  <2>1. PICK it \in topush : PushItem(it)
    BY <1>10
  <2>2. /\ pc \in {"push_files", "push_extents"} /\ topush' = topush \ {it}
        /\ outstanding' = [outstanding EXCEPT ![open_batch] = @ \cup {it}]
        /\ queue' = queue \cup {it}
        /\ UNCHANGED <<job, inflight, open_batch, filerecs, searching, dups_tree, pc, held, loaded>>
    BY <2>1 DEF PushItem
  <2>3. open_batch \in Seqs /\ outstanding \in [Seqs -> SUBSET Items] /\ it \in Items
    BY <2>2, BatchTypes DEF Loading, TypeOK
  <2>4. InFlight' = InFlight \cup {it}
    BY <2>2, <2>3, NoWorkOK DEF InFlight
  <2>5. \A w \in Workers : job[w] # it
    BY <2>3, NoWorkOK DEF InFlight
  <2>6. \A o \in InFlight' : o \in outstanding'[o.hi]
    <3>1. \A o \in InFlight : o.hi \in Seqs
      BY DEF InFlight, TypeOK, Items
    <3>. QED BY <2>2, <2>3, <2>4, <3>1
  <2>7. Pushed'
    BY <2>2, <2>4, <2>5, <2>6
  <2>8. Stages'
    BY <2>2, <2>4
  <2>9. Listed'
    BY <2>2
  <2>. QED BY <2>7, <2>8, <2>9
<1>11. CASE FilesPushed
  <2>1. /\ pc = "push_files" /\ pc' \in {"seal", "load_extents"} /\ topush = {}
        /\ UNCHANGED <<queue, job, inflight, outstanding, held, open_batch, trees, records>>
    BY <1>11 DEF FilesPushed
  <2>2. InFlight' = InFlight /\ loaded = {} /\ dups_tree = {} /\ searching = {}
    BY <2>1 DEF InFlight, Phase
  <2>. QED BY <2>1, <2>2
<1>12. CASE ExtentsPushed
  <2>1. /\ pc = "push_extents" /\ pc' = "seal" /\ topush = {}
        /\ UNCHANGED <<queue, job, inflight, outstanding, held, open_batch, trees, dups_tree, searching>>
        /\ filerecs' = IF DoBlockHash THEN filerecs \cap UNION {held[b] : b \in Seqs} ELSE filerecs
    BY <1>12 DEF ExtentsPushed
  <2>2. InFlight' = InFlight /\ loaded = {} /\ dups_tree = {} /\ searching = {}
    BY <2>1 DEF InFlight, Phase
  <2>3. Listed'
    BY <2>1, <2>2 DEF FilesOf
  <2>. QED BY <2>1, <2>2, <2>3
<1>13. CASE SealBatch
  <2>1. /\ pc = "seal" /\ pc' = "sealed" /\ inflight' = inflight \cup {open_batch}
        /\ open_batch' = NoBatch
        /\ UNCHANGED <<queue, job, outstanding, held, trees, records>>
    BY <1>13 DEF SealBatch
  <2>2. InFlight' = InFlight /\ loaded = {} /\ topush = {} /\ dups_tree = {} /\ searching = {}
    BY <2>1 DEF InFlight, Phase
  <2>3. \A it \in InFlight : it.hi # NoBatch
    BY ConstantsOK DEF InFlight, TypeOK, Items, Seqs, NoBatch
  <2>. QED BY <2>1, <2>2, <2>3
<1>. QED BY <1>1, <1>2, <1>3, <1>4, <1>5, <1>6, <1>7, <1>8, <1>9, <1>10, <1>11, <1>12, <1>13
     DEF Producer

LEMMA MemoryStep == ASSUME TypeOK, Phase, Memory, [Next]_vars PROVE Memory'
<1>1. CASE StartRun \/ Kill
  BY <1>1, NewProcessMemory DEF StartRun, Kill
<1>2. CASE Producer
  BY <1>2, ProducerMemory
<1>3. CASE \E f \in searching : SearchFile(f)
  <2>1. /\ searching' \subseteq searching
        /\ UNCHANGED <<queue, job, inflight, outstanding, held, open_batch, trees, pc, filerecs,
                       dups_tree>>
    BY <1>3 DEF SearchFile
  <2>. QED BY <2>1 DEF Memory, Pushed, Stages, Listed, InFlight
<1>4. CASE Interrupt \/ (\E f \in Files : Delete(f)) \/ UNCHANGED vars
  BY <1>4 DEF Interrupt, Delete, Memory, Pushed, Stages, Listed, InFlight
<1>5. ASSUME NEW w \in Workers, NEW it \in queue, TakeItem(w, it) PROVE Memory'
  <2>1. InFlight' = InFlight
    BY <1>5, FlightTaken
  <2>2. /\ job' = [job EXCEPT ![w] = it] /\ queue' = queue \ {it}
        /\ UNCHANGED <<pc, inflight, outstanding, held, open_batch, trees, records>>
    BY <1>5 DEF TakeItem
  <2>3. job \in [Workers -> Items \cup {NoWork}]
    BY DEF TypeOK
  <2>4. Pushed'
    BY <2>1, <2>2, <2>3 DEF Memory, Pushed
  <2>. QED BY <2>1, <2>2, <2>4 DEF Memory, Stages, Listed
<1>6. ASSUME NEW w \in Workers, NEW it \in queue, SkipItem(w, it) PROVE Memory'
  <2>1. InFlight' = InFlight \ {it} /\ it \in InFlight
    BY <1>6, FlightSkipped DEF Memory, InFlight
  <2>2. /\ queue' \subseteq queue /\ job' = job /\ ItemDone(it)
        /\ UNCHANGED <<pc, inflight, open_batch, held, trees, records>>
    BY <1>6 DEF SkipItem
  <2>. QED BY <2>1, <2>2, DonePushed
<1>7. ASSUME NEW w \in Workers, DedupeMember(w) PROVE Memory'
  BY <1>7 DEF DedupeMember, Memory, Pushed, Stages, Listed, InFlight
<1>8. ASSUME NEW w \in Workers, FinishItem(w) PROVE Memory'
  <2>1. InFlight' = InFlight \ {job[w]} /\ job[w] \in InFlight
    BY <1>8, FlightFinished DEF Memory, InFlight, FinishItem
  <2>2. /\ queue' = queue /\ job' = [job EXCEPT ![w] = NoWork] /\ ItemDone(job[w])
        /\ UNCHANGED <<pc, inflight, open_batch, held, trees, records>>
    BY <1>8 DEF FinishItem
  <2>3. \A v \in Workers : job'[v] = job[v] \/ job'[v] = NoWork
    BY <2>2 DEF TypeOK
  <2>. QED BY <2>1, <2>2, <2>3, DonePushed
<1>. QED BY <1>1, <1>2, <1>3, <1>4, <1>5, <1>6, <1>7, <1>8
     DEF Next, Searcher, Environment, Worker, Finished

\* No filerec is freed under a worker, a tree or the block search: the batch
\* that lists it holds a reference until its last item is done (#123, #227).
THEOREM FilerecsInUse == Spec => []NoUseAfterFree
<1>1. Init => Memory
  BY InitMemory
<1>2. IInv /\ Memory /\ [Next]_vars => Memory'
  BY MemoryStep DEF IInv
<1>3. TypeOK /\ Phase /\ Memory => NoUseAfterFree
  <2>. SUFFICES ASSUME TypeOK, Phase, Memory, NEW f \in InUse PROVE f \in filerecs
    BY DEF NoUseAfterFree
  <2>1. CASE f \in FilesOf(loaded) \cup FilesOf(dups_tree) \cup searching
    BY <2>1 DEF Memory, Listed
  <2>2. ASSUME NEW it \in InFlight, f \in it.ms PROVE f \in filerecs
    <3>1. it.hi \in Seqs
      BY DEF InFlight, TypeOK, Items
    <3>. QED BY <2>2, <3>1 DEF Memory, Pushed, Listed
  <2>3. ASSUME NEW it \in topush, f \in it.ms PROVE f \in filerecs
    <3>1. it.hi \in Seqs /\ it.hi = open_batch
      BY DEF Memory, Pushed, TypeOK, Items
    <3>. QED BY <2>3, <3>1 DEF Memory, Pushed, Listed
  <2>. QED BY <2>1, <2>2, <2>3 DEF InUse, InFlight, FilesOf
<1>. QED BY <1>1, <1>2, <1>3, InvariantHolds, PTL DEF Spec, IInv

-----------------------------------------------------------------------------
(***************************************************************************)
(* The block search and the filerecs it walks.                             *)
(***************************************************************************)

\* Where the trees of a run with a block search name the filerecs that the open
\* batch does not hold yet, and where the batches hold all there are.
TreesListed == {"load_files", "hold_files", "push_files", "load_extents", "load_blocks", "search"}
HeldListed == (PCs \ Loading) \cup {"seal"}

\* A run with a block search has one batch at a time, sealed or open.
Scope ==
    /\ \A b \in Seqs : held[b] # {} => b \in inflight \/ b = open_batch
    /\ pc \in {"drain", "load_blocks", "search"} => DoBlockHash
    /\ DoBlockHash =>
          /\ pc \in Loading => inflight = {}
          /\ \A b, c \in inflight : b = c
          /\ pc \in TreesListed =>
                filerecs = FilesOf(loaded) \cup FilesOf(dups_tree) \cup held[open_batch]
          /\ pc \in HeldListed => filerecs = UNION {held[b] : b \in Seqs}

LEMMA InitScope == Init => Scope
<1>. SUFFICES ASSUME Init PROVE Scope
  OBVIOUS
<1>1. filerecs = {} /\ UNION {held[b] : b \in Seqs} = {} /\ inflight = {} /\ pc = "dead"
      /\ \A b \in Seqs : held[b] = {}
  BY DEF Init
<1>. QED BY <1>1 DEF Scope, Loading, TreesListed

LEMMA NewProcessScope ==
    ASSUME NewProcess, pc' \in {"loop", "dead"}
    PROVE  Scope'
<1>1. filerecs' = {} /\ UNION {held'[b] : b \in Seqs} = {} /\ inflight' = {}
      /\ \A b \in Seqs : held'[b] = {}
  BY DEF NewProcess
<1>. QED BY <1>1 DEF Scope, Loading, TreesListed

\* Reaping leaves the filerecs that another batch holds.
LEMMA ReapScope == ASSUME TypeOK, Phase, Scope, Reap PROVE Scope'
<1>1. /\ inflight' = inflight \ {Front} /\ Front \in Seqs
      /\ UNCHANGED <<open_batch, pc>> /\ pc \in Reaping
      /\ held' = [held EXCEPT ![Front] = {}] /\ filerecs' = filerecs \ Unheld(Front)
  BY FrontIn DEF Reap, FreeBatch, FrontReady, TypeOK
<1>2. held \in [Seqs -> SUBSET Files]
  BY DEF TypeOK
<1>3. \A b \in Seqs : held'[b] = IF b = Front THEN {} ELSE held[b]
  BY <1>1, <1>2
<1>4. ASSUME filerecs = UNION {held[b] : b \in Seqs}
      PROVE  filerecs' = UNION {held'[b] : b \in Seqs}
  <2>1. ASSUME NEW f \in filerecs' PROVE f \in UNION {held'[b] : b \in Seqs}
    <3>1. f \in filerecs /\ f \notin Unheld(Front)
      BY <1>1, <2>1
    <3>2. PICK b \in Seqs : f \in held[b]
      BY <1>4, <3>1
    <3>3. CASE b = Front
      <4>1. PICK o \in Seqs \ {Front} : f \in held[o]
        BY <3>1, <3>2, <3>3 DEF Unheld
      <4>. QED BY <1>3, <4>1
    <3>. QED BY <1>3, <3>2, <3>3
  <2>2. ASSUME NEW b \in Seqs, NEW f \in held'[b] PROVE f \in filerecs'
    <3>1. b # Front /\ f \in held[b]
      BY <1>3, <2>2
    <3>2. f \notin Unheld(Front)
      BY <3>1 DEF Unheld
    <3>. QED BY <1>1, <1>4, <3>1, <3>2
  <2>. QED BY <2>1, <2>2
<1>5. pc \notin Loading /\ pc \in HeldListed /\ pc \notin TreesListed
  BY <1>1 DEF Reaping, Loading, HeldListed, TreesListed, PCs
<1>. QED BY <1>1, <1>3, <1>4, <1>5 DEF Scope

\* With every batch reaped and none open, no filerec is left.
LEMMA DrainScope == ASSUME TypeOK, Phase, Memory, Scope, Drain PROVE Scope'
<1>1. /\ pc = "drain" /\ inflight = {} /\ pc' = "load_files" /\ open_batch' = Hi
      /\ UNCHANGED <<inflight, trees, held, records>>
  BY DEF Drain, Blocked
<1>2. \A b \in Seqs : held[b] = {}
  <2>1. open_batch \notin Seqs
    BY <1>1 DEF Phase, Loading, NoBatch, Seqs
  <2>. QED BY <1>1, <2>1 DEF Scope
<1>3. filerecs = {} /\ loaded = {} /\ dups_tree = {} /\ Hi \in Seqs
  <2>1. UNION {held[b] : b \in Seqs} = {}
    BY <1>2
  <2>2. pc \in HeldListed /\ pc \in InWindow /\ DoBlockHash
    BY <1>1 DEF Scope, HeldListed, PCs, Loading, InWindow
  <2>3. loaded = {} /\ dups_tree = {}
    BY <1>1 DEF Phase, Memory, Listed
  <2>. QED BY <2>1, <2>2, <2>3, HiType DEF Scope
<1>. QED BY <1>1, <1>2, <1>3 DEF Scope, HeldListed, Loading, FilesOf

LEMMA ScopeStep ==
    ASSUME TypeOK, Phase, Memory, Scope, [Next]_vars PROVE Scope'
<1>1. CASE StartRun \/ Kill
  BY <1>1, NewProcessScope DEF StartRun, Kill
<1>2. CASE Reap
  BY <1>2, ReapScope
<1>3. CASE Drain
  BY <1>3, DrainScope
<1>4. CASE LoopHead \/ Wait \/ NextWindow \/ EndRun
  <2>1. /\ UNCHANGED <<open_batch, batches, trees, filerecs, dups_tree>>
        /\ (pc \in HeldListed /\ pc' \in HeldListed \ (Loading \cup {"drain"})) \/ pc' = pc
    BY <1>4 DEF LoopHead, Wait, NextWindow, EndRun, HeldListed, Loading, PCs
  <2>2. pc' \in HeldListed \ (Loading \cup {"drain"}) =>
          pc' \notin TreesListed /\ pc' \notin {"drain", "load_blocks", "search"}
    BY DEF HeldListed, TreesListed, PCs, Loading
  <2>. QED BY <2>1, <2>2 DEF Scope
<1>5. CASE AwaitSlot
  <2>1. /\ UNCHANGED <<batches, trees, filerecs, dups_tree>> /\ pc = "await"
        /\ \/ DoBlockHash /\ pc' = "drain" /\ UNCHANGED open_batch
           \/ ~DoBlockHash /\ pc' = "load_files" /\ open_batch' = Hi
    BY <1>5 DEF AwaitSlot
  <2>2. open_batch \notin Seqs
    BY <2>1 DEF Phase, Loading, NoBatch, Seqs
  <2>. QED BY <2>1, <2>2 DEF Scope, HeldListed, PCs, Loading, TreesListed
<1>6. CASE LoadSameFiles \/ LoadExtentHashes
  <2>1. /\ UNCHANGED <<open_batch, batches, dups_tree>> /\ filerecs' = filerecs \cup FilesOf(loaded')
        /\ pc \in {"load_files", "load_extents"}
        /\ pc' \in {"hold_files", "load_blocks", "hold_extents"}
        /\ pc' = "load_blocks" => DoBlockHash
        /\ DoBlockHash => pc' # "hold_extents"
    BY <1>6 DEF LoadSameFiles, LoadExtentHashes, Load
  <2>2. loaded = {}
    BY <2>1 DEF Phase
  <2>3. FilesOf(loaded) = {}
    BY <2>2 DEF FilesOf
  <2>. QED BY <2>1, <2>3 DEF Scope, HeldListed, Loading, TreesListed
<1>7. CASE LoadBlockHashes
  <2>1. /\ UNCHANGED <<open_batch, batches, loaded>> /\ pc = "load_blocks"
        /\ \/ filerecs' = filerecs \cup FilesOf(dups_tree') /\ pc' = "search"
           \/ pc' = "hold_extents"
    BY <1>7 DEF LoadBlockHashes
  <2>2. FilesOf(dups_tree) = {}
    BY <2>1 DEF Memory, Listed, FilesOf
  <2>. QED BY <2>1, <2>2 DEF Scope, HeldListed, Loading, TreesListed
<1>8. CASE SearchDone
  BY <1>8 DEF SearchDone, Scope, HeldListed, Loading, TreesListed
<1>9. CASE HoldFilerecs
  <2>1. /\ pc \in {"hold_files", "hold_extents"}
        /\ held' = [held EXCEPT ![open_batch] = @ \cup FilesOf(loaded)]
        /\ loaded' = {}
        /\ pc' = IF pc = "hold_files" THEN "push_files" ELSE "push_extents"
        /\ UNCHANGED <<inflight, open_batch, filerecs, dups_tree>>
    BY <1>9 DEF HoldFilerecs
  <2>2. open_batch \in Seqs /\ held \in [Seqs -> SUBSET Files]
    BY <2>1, BatchTypes DEF Loading, TypeOK
  <2>3. \A b \in Seqs : b # open_batch => held'[b] = held[b]
    BY <2>1, <2>2
  <2>4. held'[open_batch] = held[open_batch] \cup FilesOf(loaded) /\ FilesOf(loaded') = {}
    BY <2>1, <2>2 DEF FilesOf
  <2>. QED BY <2>1, <2>3, <2>4 DEF Scope, HeldListed, Loading, TreesListed
<1>10. CASE \E it \in topush : PushItem(it)
  BY <1>10 DEF PushItem, Scope
<1>11. CASE FilesPushed
  <2>1. /\ pc = "push_files" /\ pc' \in {"seal", "load_extents"}
        /\ UNCHANGED <<open_batch, inflight, held, trees, filerecs, dups_tree>>
    BY <1>11 DEF FilesPushed
  <2>2. loaded = {} /\ dups_tree = {} /\ open_batch \in Seqs
    BY <2>1, BatchTypes DEF Phase, Memory, Listed, Loading
  <2>3. ASSUME DoBlockHash PROVE filerecs = UNION {held[b] : b \in Seqs}
    <3>1. filerecs = held[open_batch]
      BY <2>1, <2>2, <2>3 DEF Scope, TreesListed, FilesOf
    <3>2. \A b \in Seqs : b # open_batch => held[b] = {}
      BY <2>1, <2>3 DEF Scope, Loading
    <3>. QED BY <2>2, <3>1, <3>2
  <2>. QED BY <2>1, <2>3 DEF Scope, Loading, TreesListed
<1>12. CASE ExtentsPushed
  <2>1. /\ pc = "push_extents" /\ pc' = "seal" /\ UNCHANGED <<open_batch, inflight, held>>
        /\ DoBlockHash => filerecs' = filerecs \cap UNION {held[b] : b \in Seqs}
    BY <1>12 DEF ExtentsPushed
  <2>2. UNION {held[b] : b \in Seqs} \subseteq filerecs
    BY DEF Memory, Listed
  <2>. QED BY <2>1, <2>2 DEF Scope, Loading, TreesListed
<1>13. CASE SealBatch
  <2>1. /\ pc = "seal" /\ pc' = "sealed" /\ inflight' = inflight \cup {open_batch}
        /\ UNCHANGED <<held, filerecs>>
    BY <1>13 DEF SealBatch
  <2>. QED BY <2>1 DEF Scope, Loading, TreesListed, HeldListed
<1>14. CASE (\E f \in searching : SearchFile(f)) \/ Interrupt \/ (\E f \in Files : Delete(f))
            \/ UNCHANGED vars
  BY <1>14 DEF SearchFile, Interrupt, Delete, Scope
<1>15. CASE \E w \in Workers : Worker(w)
  <2>1. UNCHANGED <<inflight, open_batch, held, pc, loaded, dups_tree, filerecs>>
    BY <1>15 DEF Worker, TakeItem, SkipItem, DedupeMember, FinishItem
  <2>. QED BY <2>1 DEF Scope
<1>. QED BY <1>1, <1>2, <1>3, <1>4, <1>5, <1>6, <1>7, <1>8, <1>9, <1>10, <1>11, <1>12, <1>13,
     <1>14, <1>15 DEF Next, Producer, Searcher, Environment, Finished

\* The block search compares the files of the batch being loaded and no
\* others: the batches before it are reaped, and what they listed is gone.
THEOREM SearchSees == Spec => []SearchScope
<1>1. IInv /\ Memory /\ Scope /\ [Next]_vars => (Memory /\ Scope)'
  BY MemoryStep, ScopeStep DEF IInv
<1>2. Scope => SearchScope
  BY DEF Scope, SearchScope, TreesListed
<1>. QED BY InitMemory, InitScope, <1>1, <1>2, InvariantHolds, PTL DEF Spec

-----------------------------------------------------------------------------
(***************************************************************************)
(* The passes and their targets.                                           *)
(***************************************************************************)

\* What the workers and the producer have in their hands.
Hands == InFlight \cup topush \cup loaded

\* A group of whole files: more than one member makes every member a duplicate,
\* and the target ranks before all the copies there are.
WholeFileItem(it) ==
    /\ it.tgt \in it.ms /\ (it.ms # {it.tgt} => \A f \in it.ms : FiledupMember(f))
    /\ it.tgt \in Copies(it.g) /\ \A o \in Copies(it.g) : Rank[it.tgt] <= Rank[o]

\* A group of extents: no member is a whole-file duplicate, and the target's
\* row is the oldest of the copies there are.
ExtentItem(it) ==
    /\ it.tgt \in it.ms /\ \A f \in it.ms : ~FiledupMember(f)
    /\ it.tgt \in Copies(it.g) /\ \A o \in Copies(it.g) : OlderRow(it.tgt, o)

\* As long as no file is deleted, what was true of an item when it was loaded
\* stays true until a worker has finished with it.
Passes ==
    /\ gone = {} => \A it \in Hands : /\ Kind[it.g] = "file" => WholeFileItem(it)
                                      /\ Kind[it.g] = "extent" => ExtentItem(it)
    /\ \A it \in InFlight \cup topush : it.ms # {it.tgt}

\* The groups of blocks are those of one window: nothing is in flight when its
\* search begins.
Blocks == {it \in Hands \cup dups_tree : Kind[it.g] = "block"}
OneSearch ==
    /\ ~DoBlockHash \/ pc \in TreesListed \ {"search"} => Blocks = {}
    /\ \A i, j \in Blocks : i.g = j.g => i = j

\* A worker comes to the elected target before it has opened another one.
AtWork == \A w \in Workers : job[w] # NoWork /\ job[w].tgt \in todo[w] => target[w] = NoTarget

Targets == Passes /\ OneSearch /\ AtWork

\* A file that has not been deleted keeps its row to the end of the run.
LEMMA RowsStay ==
    ASSUME TypeOK, [Next]_vars, ~StartRun, gone' = {}
    PROVE  gone = {} /\ seq' = seq
<1>1. CASE Producer
  <2>1. CASE LoadSameFiles \/ LoadExtentHashes
    BY <2>1 DEF LoadSameFiles, LoadExtentHashes, Load
  <2>. QED BY <1>1, <2>1 DEF Producer, LoopHead, Reap, Wait, AwaitSlot, Drain, SearchDone,
       HoldFilerecs, PushItem, FilesPushed, ExtentsPushed, SealBatch, NextWindow, EndRun,
       LoadBlockHashes
<1>2. CASE Searcher \/ Environment \/ UNCHANGED vars
  BY <1>2 DEF Searcher, SearchFile, Environment, Interrupt, Kill, Delete
<1>3. ASSUME NEW w \in Workers, DedupeMember(w) PROVE gone = {} /\ seq' = seq
  BY <1>3 DEF DedupeMember
<1>4. CASE \E w \in Workers : FinishItem(w) \/ \E it \in queue : TakeItem(w, it) \/ SkipItem(w, it)
  BY <1>4 DEF FinishItem, TakeItem, SkipItem
<1>. QED BY <1>1, <1>2, <1>3, <1>4 DEF Next, Worker, Finished

\* Where a step takes the items it works on from.
LEMMA HandsStep ==
    ASSUME TypeOK, Phase, Memory, [Next]_vars
    PROVE  /\ \A it \in Hands' : \/ it \in Hands
                                 \/ (LoadSameFiles \/ LoadExtentHashes) /\ it \in loaded'
                                 \/ pc = "search" /\ it \in dups_tree /\ it \in loaded'
           /\ \A it \in InFlight' \cup topush' :
                it \in InFlight \cup topush \/ it.ms # {it.tgt}
           /\ \A it \in dups_tree' : it \in dups_tree \/ LoadBlockHashes
<1>. USE DEF Hands
<1>1. CASE StartRun \/ Kill
  <2>1. InFlight' = {} /\ topush' = {} /\ loaded' = {} /\ dups_tree' = {}
    BY <1>1 DEF StartRun, Kill, NewProcess, InFlight
  <2>. QED BY <2>1
<1>2. CASE LoopHead \/ Reap \/ Wait \/ AwaitSlot \/ Drain \/ FilesPushed \/ ExtentsPushed
           \/ SealBatch \/ NextWindow \/ EndRun \/ Interrupt \/ (\E f \in Files : Delete(f))
           \/ Searcher \/ UNCHANGED vars
  <2>1. UNCHANGED <<queue, job, topush, loaded, dups_tree>>
    BY <1>2 DEF LoopHead, Reap, Wait, AwaitSlot, Drain, FilesPushed, ExtentsPushed, SealBatch,
       NextWindow, EndRun, Interrupt, Delete, Searcher, SearchFile
  <2>. QED BY <2>1 DEF InFlight
<1>3. CASE LoadSameFiles \/ LoadExtentHashes
  <2>1. UNCHANGED <<queue, job, topush, dups_tree>>
    BY <1>3 DEF LoadSameFiles, LoadExtentHashes, Load
  <2>. QED BY <1>3, <2>1 DEF InFlight
<1>4. CASE LoadBlockHashes
  <2>1. UNCHANGED <<queue, job, topush, loaded>>
    BY <1>4 DEF LoadBlockHashes
  <2>. QED BY <1>4, <2>1 DEF InFlight
<1>5. CASE SearchDone
  <2>1. /\ UNCHANGED <<queue, job, topush>> /\ pc = "search" /\ dups_tree' = {}
        /\ \A it \in loaded' : it \in loaded \/ it \in dups_tree
    BY <1>5 DEF SearchDone
  <2>. QED BY <2>1 DEF InFlight
<1>6. CASE HoldFilerecs
  <2>1. UNCHANGED <<queue, job, dups_tree>> /\ topush' = {it \in loaded : it.ms # {it.tgt}}
        /\ loaded' = {}
    BY <1>6 DEF HoldFilerecs
  <2>. QED BY <2>1 DEF InFlight
<1>7. ASSUME NEW it \in topush, PushItem(it)
      PROVE  /\ InFlight' = InFlight \cup {it} /\ UNCHANGED <<loaded, dups_tree>>
             /\ topush' = topush \ {it}
  BY <1>7, NoWorkOK DEF PushItem, InFlight, TypeOK
<1>8. CASE \E w \in Workers : Worker(w)
  <2>1. InFlight' \subseteq InFlight
    BY <1>8, FlightTaken, FlightSkipped, FlightFinished
       DEF Worker, DedupeMember, InFlight, Memory
  <2>2. UNCHANGED <<topush, loaded, dups_tree>>
    BY <1>8 DEF Worker, TakeItem, SkipItem, DedupeMember, FinishItem
  <2>. QED BY <2>1, <2>2
<1>. QED BY <1>1, <1>2, <1>3, <1>4, <1>5, <1>6, <1>7, <1>8 DEF Next, Producer, Environment, Finished

\* The extents a whole-file dedupe drops are those of whole-file duplicates,
\* which are in no group of extents anyway.
LEMMA CopiesStay ==
    ASSUME TypeOK, Memory, Passes, [Next]_vars, ~StartRun, gone' = {}
    PROVE  /\ \A f \in Files : FiledupMember(f)' <=> FiledupMember(f)
           /\ \A g \in Groups : Copies(g)' = Copies(g)
<1>1. gone = {} /\ seq' = seq
  BY RowsStay
<1>2. \A g \in Groups : LiveMembers(g)' = LiveMembers(g)
  BY <1>1 DEF LiveMembers, Live
<1>3. \A f \in Files : FiledupMember(f)' <=> FiledupMember(f)
  BY <1>2 DEF FiledupMember
<1>4. extents' \subseteq extents /\ \A f \in extents \ extents' : FiledupMember(f)
  <2>1. ASSUME NEW w \in Workers, FinishItem(w)
        PROVE  extents' \subseteq extents /\ \A f \in extents \ extents' : FiledupMember(f)
    <3>1. job[w] \in InFlight /\ job[w] \in Hands
      BY <2>1 DEF FinishItem, InFlight, Hands
    <3>2. Kind[job[w].g] = "file" => \A f \in job[w].ms : FiledupMember(f)
      BY <1>1, <3>1 DEF Passes, WholeFileItem
    <3>. QED BY <2>1, <3>2 DEF FinishItem
  <2>2. ASSUME NEW w \in Workers, DedupeMember(w) PROVE extents' = extents
    BY <1>1, <2>2 DEF DedupeMember
  <2>3. CASE LoadSameFiles \/ LoadExtentHashes
    BY <2>3 DEF LoadSameFiles, LoadExtentHashes, Load
  <2>4. CASE Producer /\ ~LoadSameFiles /\ ~LoadExtentHashes
    BY <2>4 DEF Producer, LoopHead, Reap, Wait, AwaitSlot, Drain, SearchDone,
       HoldFilerecs, PushItem, FilesPushed, ExtentsPushed, SealBatch, NextWindow, EndRun,
       LoadBlockHashes
  <2>5. CASE Searcher \/ Environment \/ UNCHANGED vars
    BY <2>5 DEF Searcher, SearchFile, Environment, Interrupt, Kill, Delete
  <2>6. CASE \E w \in Workers : \E it \in queue : TakeItem(w, it) \/ SkipItem(w, it)
    BY <2>6 DEF TakeItem, SkipItem
  <2>. QED BY <2>1, <2>2, <2>3, <2>4, <2>5, <2>6 DEF Next, Worker, Finished
<1>5. \A g \in Groups : Copies(g)' = Copies(g)
  <2>. SUFFICES ASSUME NEW g \in Groups PROVE Copies(g)' = Copies(g)
    OBVIOUS
  <2>1. Kind[g] \in Kinds
    BY ConstantsOK
  <2>2. CASE Kind[g] = "extent"
    <3>1. {f \in LiveMembers(g)' \cap extents' : ~FiledupMember(f)'}
            = {f \in LiveMembers(g) \cap extents : ~FiledupMember(f)}
      <4>1. LiveMembers(g) \subseteq Files
        BY DEF LiveMembers, Live
      <4>. QED BY <1>2, <1>3, <1>4, <4>1
    <3>. QED BY <2>2, <3>1 DEF Copies
  <2>. QED BY <1>2, <2>1, <2>2 DEF Copies, Kinds
<1>. QED BY <1>3, <1>5

LEMMA TruncatedFrom ==
    ASSUME NEW its \in SUBSET Items, NEW k \in Files, NEW it \in Truncated(its, k)
    PROVE  \E o \in its : /\ it.g = o.g /\ it.tgt = o.tgt /\ it.hi = o.hi
                          /\ it.ms \subseteq o.ms \cup {o.tgt} /\ o.tgt \in it.ms
<1>1. PICK o \in its : it = [o EXCEPT !.ms = {o.tgt} \cup {m \in o.ms : m # k /\
          IF Kind[o.g] = "extent" THEN OlderRow(m, k) ELSE m < k}]
  BY DEF Truncated
<1>2. it.g = o.g /\ it.tgt = o.tgt /\ it.hi = o.hi
      /\ it.ms = {o.tgt} \cup {m \in o.ms : m # k /\
            IF Kind[o.g] = "extent" THEN OlderRow(m, k) ELSE m < k}
  BY <1>1 DEF Items
<1>. QED BY <1>2

LEMMA SameFilesItems ==
    ASSUME TypeOK, NEW l \in Nat, NEW h \in Nat, NEW it \in SameFiles(l, h)
    PROVE  WholeFileItem(it)
<1>1. PICK g \in Groups : /\ Kind[g] = "file" /\ New(g, l, h) # {}
                          /\ it = Item(g, SameFilesTarget(g), SameFilesRows(g, l, h), h)
  BY DEF SameFiles
<1>. DEFINE t == SameFilesTarget(g)
            rows == SameFilesRows(g, l, h)
<1>2. Copies(g) = LiveMembers(g) /\ Copies(g) \subseteq Files /\ Copies(g) # {}
  BY <1>1 DEF Copies, LiveMembers, Live, New
<1>3. t \in Copies(g) /\ \A o \in Copies(g) : Rank[t] <= Rank[o]
  BY <1>2, RankFirstIn DEF SameFilesTarget
<1>4. rows \subseteq Copies(g) /\ t \in rows
  BY <1>3 DEF SameFilesRows, New, UpTo
<1>5. it.g = g /\ it.tgt = t /\ it.ms = rows
  BY <1>1 DEF Item
<1>6. ASSUME rows # {t}, NEW f \in rows PROVE FiledupMember(f)
  <2>1. PICK o \in rows : o # t
    BY <1>4, <1>6
  <2>. QED BY <1>1, <1>2, <1>4, <2>1 DEF FiledupMember
<1>. QED BY <1>3, <1>4, <1>5, <1>6 DEF WholeFileItem

LEMMA ExtentHashesItems ==
    ASSUME TypeOK, NEW l \in Nat, NEW h \in Nat, NEW it \in ExtentHashes(l, h)
    PROVE  ExtentItem(it)
<1>1. PICK g \in Groups : /\ Kind[g] = "extent" /\ New(g, l, h) # {}
                          /\ it = Item(g, Anchor(g, l, h), New(g, l, h) \cup {Anchor(g, l, h)}, h)
  BY DEF ExtentHashes
<1>. DEFINE t == Anchor(g, l, h)
            rows == New(g, l, h) \cup {t}
<1>2. Copies(g) \subseteq Files /\ \A f \in Copies(g) : seq[f] \in Nat /\ ~FiledupMember(f)
  BY <1>1, ConstantsOK DEF Copies, LiveMembers, Live, TypeOK
<1>3. t \in Copies(g) /\ \A o \in Copies(g) : OlderRow(t, o)
  <2>1. CASE UpTo(g, l) # {}
    <3>1. UpTo(g, l) \in SUBSET Files
      BY <1>2 DEF UpTo
    <3>2. t \in UpTo(g, l) /\ \A o \in UpTo(g, l) : OlderRow(t, o)
      BY <2>1, <3>1, OldestRowIn DEF Anchor, TypeOK
    <3>3. \A o \in Copies(g) : o \in UpTo(g, l) \/ seq[t] < seq[o]
      BY <1>2, <3>2 DEF UpTo
    <3>. QED BY <3>2, <3>3 DEF UpTo, OlderRow
  <2>2. CASE UpTo(g, l) = {}
    <3>1. New(g, l, h) \in SUBSET Files
      BY <1>2 DEF New
    <3>2. t \in New(g, l, h) /\ \A o \in New(g, l, h) : OlderRow(t, o)
      BY <1>1, <2>2, <3>1, OldestRowIn DEF Anchor, TypeOK
    <3>3. \A o \in Copies(g) : o \in New(g, l, h) \/ seq[t] < seq[o]
      <4>. SUFFICES ASSUME NEW o \in Copies(g), o \notin New(g, l, h) PROVE seq[t] < seq[o]
        OBVIOUS
      <4>1. l < seq[o]
        BY <1>2, <2>2 DEF UpTo
      <4>2. h < seq[o]
        BY <1>2, <4>1 DEF New, Window, Live
      <4>3. seq[t] <= h /\ seq[t] \in Nat
        BY <1>2, <3>2 DEF New, Window
      <4>. QED BY <1>2, <4>2, <4>3
    <3>. QED BY <3>2, <3>3 DEF New, OlderRow
  <2>. QED BY <2>1, <2>2
<1>4. it.g = g /\ it.tgt = t /\ it.ms = rows
  BY <1>1 DEF Item
<1>. QED BY <1>2, <1>3, <1>4 DEF ExtentItem, New

LEMMA InitTargets == Init => Targets
<1>. SUFFICES ASSUME Init PROVE Targets
  OBVIOUS
<1>1. \A w \in Workers : job[w] = NoWork
  BY DEF Init
<1>2. InFlight = {} /\ topush = {} /\ loaded = {} /\ dups_tree = {}
  BY DEF Init, InFlight
<1>3. Hands = {} /\ Blocks = {}
  BY <1>2 DEF Hands, Blocks
<1>. QED BY <1>1, <1>2, <1>3 DEF Targets, Passes, OneSearch, AtWork

LEMMA PassesStep ==
    ASSUME TypeOK, Phase, Memory, Passes, [Next]_vars PROVE Passes'
<1>1. \A it \in InFlight' \cup topush' : it.ms # {it.tgt}
  BY HandsStep DEF Passes
<1>2. CASE StartRun
  <2>1. Hands' = {}
    BY <1>2 DEF StartRun, NewProcess, Hands, InFlight
  <2>. QED BY <1>1, <2>1 DEF Passes
<1>3. ASSUME ~StartRun, gone' = {}, NEW it \in Hands'
      PROVE  /\ Kind[it.g] = "file" => WholeFileItem(it)'
             /\ Kind[it.g] = "extent" => ExtentItem(it)'
  <2>1. it \in Items
    <3>1. TypeOK'
      BY TypeStep
    <3>. QED BY <3>1, NoWorkOK DEF TypeOK, Hands, InFlight
  <2>2. it.g \in Groups /\ it.ms \subseteq Files /\ it.tgt \in Files
    BY <2>1 DEF Items
  <2>3. gone = {} /\ seq' = seq /\ Copies(it.g)' = Copies(it.g)
        /\ \A f \in it.ms : FiledupMember(f)' <=> FiledupMember(f)
    BY <1>3, <2>2, RowsStay, CopiesStay
  <2>4. (WholeFileItem(it) => WholeFileItem(it)') /\ (ExtentItem(it) => ExtentItem(it)')
    BY <2>2, <2>3 DEF WholeFileItem, ExtentItem, OlderRow
  <2>5. CASE it \in Hands
    BY <2>3, <2>4, <2>5 DEF Passes
  <2>6. CASE it \in dups_tree
    <3>1. Kind[it.g] = "block"
      BY <2>6 DEF Phase
    <3>. QED BY <3>1
  <2>7. CASE LoadSameFiles /\ it \in loaded'
    <3>1. /\ lo \in Nat /\ Hi \in Nat /\ SameFiles(lo, Hi) \subseteq Items /\ loaded = {}
      BY <2>7, LoadersType, HiType, ConstantsOK DEF LoadSameFiles, InWindow, Loading, Seqs, Phase
    <3>2. \E o \in SameFiles(lo, Hi) : /\ it.g = o.g /\ it.tgt = o.tgt
                                       /\ it.ms \subseteq o.ms \cup {o.tgt} /\ o.tgt \in it.ms
      <4>1. CASE it \in SameFiles(lo, Hi)
        <5>1. it.tgt \in it.ms
          BY <3>1, <4>1, SameFilesItems DEF WholeFileItem
        <5>. QED BY <4>1, <5>1
      <4>2. ASSUME NEW k \in Files, it \in Truncated(SameFiles(lo, Hi), k)
            PROVE  \E o \in SameFiles(lo, Hi) : /\ it.g = o.g /\ it.tgt = o.tgt
                                           /\ it.ms \subseteq o.ms \cup {o.tgt} /\ o.tgt \in it.ms
        BY <3>1, <4>2, TruncatedFrom
      <4>. QED BY <2>7, <3>1, <4>1, <4>2 DEF LoadSameFiles, Load
    <3>3. PICK o \in SameFiles(lo, Hi) : /\ it.g = o.g /\ it.tgt = o.tgt
                                         /\ it.ms \subseteq o.ms \cup {o.tgt} /\ o.tgt \in it.ms
      BY <3>2
    <3>4. WholeFileItem(o) /\ Kind[o.g] = "file" /\ o.ms # {o.tgt}
      BY <3>1, SameFilesItems, LoadersWork
    <3>5. WholeFileItem(it)
      BY <3>3, <3>4 DEF WholeFileItem
    <3>. QED BY <2>4, <3>3, <3>4, <3>5
  <2>8. CASE LoadExtentHashes /\ it \in loaded'
    <3>1. /\ lo \in Nat /\ Hi \in Nat /\ ExtentHashes(lo, Hi) \subseteq Items /\ loaded = {}
      BY <2>8, LoadersType, HiType, ConstantsOK DEF LoadExtentHashes, InWindow, Loading, Seqs, Phase
    <3>2. \E o \in ExtentHashes(lo, Hi) : /\ it.g = o.g /\ it.tgt = o.tgt
                                          /\ it.ms \subseteq o.ms \cup {o.tgt} /\ o.tgt \in it.ms
      <4>1. CASE it \in ExtentHashes(lo, Hi)
        <5>1. it.tgt \in it.ms
          BY <3>1, <4>1, ExtentHashesItems DEF ExtentItem
        <5>. QED BY <4>1, <5>1
      <4>2. ASSUME NEW k \in Files, it \in Truncated(ExtentHashes(lo, Hi), k)
            PROVE  \E o \in ExtentHashes(lo, Hi) : /\ it.g = o.g /\ it.tgt = o.tgt
                                           /\ it.ms \subseteq o.ms \cup {o.tgt} /\ o.tgt \in it.ms
        BY <3>1, <4>2, TruncatedFrom
      <4>. QED BY <2>8, <3>1, <4>1, <4>2 DEF LoadExtentHashes, Load
    <3>3. PICK o \in ExtentHashes(lo, Hi) : /\ it.g = o.g /\ it.tgt = o.tgt
                                            /\ it.ms \subseteq o.ms \cup {o.tgt} /\ o.tgt \in it.ms
      BY <3>2
    <3>4. ExtentItem(o) /\ Kind[o.g] = "extent"
      BY <3>1, ExtentHashesItems, LoadersWork
    <3>5. ExtentItem(it)
      BY <3>3, <3>4 DEF ExtentItem
    <3>. QED BY <2>4, <3>3, <3>4, <3>5
  <2>. QED BY <2>5, <2>6, <2>7, <2>8, HandsStep
<1>. QED BY <1>1, <1>2, <1>3 DEF Passes

LEMMA OneSearchStep ==
    ASSUME TypeOK, Phase, Memory, Scope, OneSearch, [Next]_vars PROVE OneSearch'
<1>1. CASE LoadBlockHashes
  <2>1. PICK a \in BlockAnchors(lo, Hi) :
            \/ dups_tree' = BlockHashes(lo, Hi, a) /\ pc' = "search"
            \/ dups_tree' = dups_tree /\ pc' = "hold_extents"
    BY <1>1 DEF LoadBlockHashes
  <2>2. pc = "load_blocks" /\ UNCHANGED <<loaded, topush, queue, job>>
    BY <1>1 DEF LoadBlockHashes
  <2>3. Blocks = {} /\ DoBlockHash
    BY <2>2 DEF OneSearch, TreesListed, Scope
  <2>4. Hands' = Hands
    BY <2>2 DEF Hands, InFlight
  <2>5. CASE dups_tree' = BlockHashes(lo, Hi, a) /\ pc' = "search"
    <3>1. \A i, j \in BlockHashes(lo, Hi, a) : i.g = j.g => i = j
      BY DEF BlockHashes, Item
    <3>. QED BY <2>3, <2>4, <2>5, <3>1 DEF OneSearch, Blocks, TreesListed
  <2>6. CASE dups_tree' = dups_tree /\ pc' = "hold_extents"
    BY <2>3, <2>4, <2>6 DEF OneSearch, Blocks, TreesListed
  <2>. QED BY <2>1, <2>5, <2>6
<1>2. CASE ~LoadBlockHashes
  <2>1. Blocks' \subseteq Blocks
    <3>1. ASSUME LoadSameFiles \/ LoadExtentHashes, NEW it \in loaded', Kind[it.g] = "block"
          PROVE  FALSE
      <4>1. CASE LoadSameFiles
        BY <3>1, <4>1, MemoryStep DEF Memory, Stages, LoadSameFiles, Load
      <4>2. CASE LoadExtentHashes
        <5>1. /\ lo \in Nat /\ Hi \in Nat /\ ExtentHashes(lo, Hi) \subseteq Items /\ loaded = {}
          BY <4>2, LoadersType, HiType, ConstantsOK
             DEF LoadExtentHashes, InWindow, Loading, Seqs, Phase
        <5>2. \E o \in ExtentHashes(lo, Hi) : it.g = o.g
          BY <3>1, <4>2, <5>1, TruncatedFrom DEF LoadExtentHashes, Load
        <5>. QED BY <3>1, <5>1, <5>2, LoadersWork
      <4>. QED BY <3>1, <4>1, <4>2
    <3>. QED BY <1>2, <3>1, HandsStep DEF Blocks
  <2>2. CASE Blocks = {}
    BY <2>1, <2>2 DEF OneSearch
  <2>3. CASE Blocks # {}
    <3>1. DoBlockHash /\ pc \notin TreesListed \ {"search"}
      BY <2>3 DEF OneSearch
    <3>2. pc' \notin TreesListed \ {"search"}
      <4>. SUFFICES ASSUME pc' \in TreesListed \ {"search"} PROVE FALSE
        OBVIOUS
      <4>1. Drain
        <5>1. CASE Producer
          BY <1>2, <3>1, <5>1 DEF Producer, LoopHead, Reap, Wait, AwaitSlot, LoadSameFiles,
             LoadExtentHashes, SearchDone, HoldFilerecs, PushItem, FilesPushed, ExtentsPushed,
             SealBatch, NextWindow, EndRun, TreesListed
        <5>2. CASE ~Producer /\ ~StartRun /\ ~Kill
          BY <3>1, <5>2 DEF Next, Searcher, SearchFile, Environment, Interrupt, Delete,
             Worker, TakeItem, SkipItem, DedupeMember, FinishItem, Finished
        <5>3. CASE StartRun \/ Kill
          BY <5>3 DEF StartRun, Kill, TreesListed
        <5>. QED BY <5>1, <5>2, <5>3
      <4>2. Hands = {} /\ dups_tree = {}
        <5>1. /\ pc = "drain" /\ inflight = {} /\ open_batch = NoBatch
              /\ loaded = {} /\ topush = {} /\ dups_tree = {}
          BY <4>1 DEF Drain, Blocked, Phase, Loading, Memory, Listed
        <5>2. \A it \in InFlight : it.hi \in Seqs /\ it.hi = open_batch
          BY <5>1 DEF Memory, Pushed, InFlight, TypeOK, Items
        <5>3. InFlight = {}
          BY <5>1, <5>2, ConstantsOK DEF Seqs, NoBatch
        <5>. QED BY <5>1, <5>3 DEF Hands
      <4>. QED BY <2>3, <4>2 DEF Blocks
    <3>. QED BY <2>1, <3>1, <3>2 DEF OneSearch
  <2>. QED BY <2>2, <2>3
<1>. QED BY <1>1, <1>2

LEMMA AtWorkStep ==
    ASSUME TypeOK, AtWork, [Next]_vars PROVE AtWork'
<1>1. CASE StartRun \/ Kill
  BY <1>1 DEF StartRun, Kill, NewProcess, AtWork
<1>2. ASSUME NEW w \in Workers, NEW it \in queue, TakeItem(w, it) PROVE AtWork'
  BY <1>2 DEF TakeItem, AtWork, TypeOK
<1>3. ASSUME NEW w \in Workers, DedupeMember(w) PROVE AtWork'
  <2>1. /\ job' = job /\ todo' = [todo EXCEPT ![w] = @ \ {NextMember(w)}]
        /\ target' = target \/ \E m \in Files : target' = [target EXCEPT ![w] = m]
    BY <1>3, NextMemberType DEF DedupeMember
  <2>2. job[w].tgt \notin todo'[w]
    BY <2>1 DEF NextMember, TypeOK
  <2>. QED BY <2>1, <2>2 DEF AtWork, TypeOK
<1>4. ASSUME NEW w \in Workers, FinishItem(w) PROVE AtWork'
  BY <1>4 DEF FinishItem, AtWork, TypeOK
<1>5. CASE UNCHANGED <<job, todo, target>>
  BY <1>5 DEF AtWork
<1>6. CASE Producer \/ Searcher
  <2>1. CASE LoadSameFiles \/ LoadExtentHashes
    BY <1>5, <2>1 DEF LoadSameFiles, LoadExtentHashes, Load
  <2>. QED BY <1>5, <1>6, <2>1 DEF Producer, LoopHead, Reap, Wait, AwaitSlot, Drain, SearchDone,
       HoldFilerecs, PushItem, FilesPushed, ExtentsPushed, SealBatch, NextWindow, EndRun,
       LoadBlockHashes, Searcher, SearchFile
<1>. QED BY <1>1, <1>2, <1>3, <1>4, <1>5, <1>6
     DEF Next, Worker, Environment, Interrupt, Delete, SkipItem, Finished

LEMMA TargetsStep ==
    ASSUME TypeOK, Phase, Memory, Scope, Targets, [Next]_vars PROVE Targets'
BY PassesStep, OneSearchStep, AtWorkStep DEF Targets

\* Two groups in flight with the same content move onto the same copy.
LEMMA OneTarget ==
    ASSUME TypeOK, Targets, gone = {}, NEW i \in InFlight, NEW j \in InFlight, i.g = j.g
    PROVE  i.tgt = j.tgt
<1>1. i \in Items /\ j \in Items /\ i \in Hands /\ j \in Hands
  BY NoWorkOK DEF TypeOK, InFlight, Hands
<1>2. i.g \in Groups /\ i.tgt \in Files /\ j.tgt \in Files /\ Kind[i.g] \in Kinds
  BY <1>1, ConstantsOK DEF Items
<1>3. CASE Kind[i.g] = "file"
  <2>1. Rank[i.tgt] <= Rank[j.tgt] /\ Rank[j.tgt] <= Rank[i.tgt]
    BY <1>1, <1>3 DEF Targets, Passes, WholeFileItem
  <2>. QED BY <1>2, <2>1, ConstantsOK
<1>4. CASE Kind[i.g] = "extent"
  <2>1. OlderRow(i.tgt, j.tgt) /\ OlderRow(j.tgt, i.tgt)
    BY <1>1, <1>4 DEF Targets, Passes, ExtentItem
  <2>2. seq[i.tgt] \in Nat /\ seq[j.tgt] \in Nat /\ i.tgt \in Nat /\ j.tgt \in Nat
    <3>1. \A f \in Files : seq[f] \in Nat
      BY ConstantsOK DEF TypeOK
    <3>2. \A f \in Files : f \in Nat
      BY ConstantsOK DEF Files
    <3>. QED BY <1>2, <3>1, <3>2
  <2>3. seq[i.tgt] = seq[j.tgt] /\ i.tgt <= j.tgt /\ j.tgt <= i.tgt
    BY <2>1, <2>2 DEF OlderRow
  <2>. QED BY <2>2, <2>3
<1>5. CASE Kind[i.g] = "block"
  BY <1>1, <1>5 DEF Targets, OneSearch, Blocks
<1>. QED BY <1>2, <1>3, <1>4, <1>5 DEF Kinds

LEMMA PassesApart == ASSUME Targets PROVE DisjointPasses
<1>. SUFFICES ASSUME gone = {}, NEW i \in InFlight, NEW j \in InFlight,
                     Kind[i.g] = "file", Kind[j.g] = "extent"
              PROVE  i.ms \cap j.ms = {}
  BY DEF DisjointPasses
<1>1. \A f \in i.ms : FiledupMember(f)
  BY DEF Targets, Passes, Hands, WholeFileItem
<1>2. \A f \in j.ms : ~FiledupMember(f)
  BY DEF Targets, Passes, Hands, ExtentItem
<1>. QED BY <1>1, <1>2

\* A worker never moves the target of a group in flight, its own or another's.
LEMMA TargetKept ==
    ASSUME TypeOK, Targets, [Next]_vars, gone = {}, NEW it \in InFlight
    PROVE  storage'[it.g][it.tgt] = storage[it.g][it.tgt]
<1>1. CASE UNCHANGED storage
  BY <1>1
<1>2. ASSUME NEW w \in Workers, DedupeMember(w)
      PROVE  storage'[it.g][it.tgt] = storage[it.g][it.tgt]
  <2>. DEFINE m == NextMember(w)
              g == job[w].g
  <2>1. job[w] \in InFlight /\ job[w] \in Items /\ it \in Items /\ m \in todo[w]
    BY <1>2, NextMemberType, NoWorkOK DEF DedupeMember, InFlight, TypeOK
  <2>2. \/ storage' = storage
        \/ target[w] # NoTarget /\ storage' = [storage EXCEPT ![g][m] = storage[g][target[w]]]
    BY <1>2 DEF DedupeMember
  <2>3. CASE target[w] # NoTarget /\ storage' = [storage EXCEPT ![g][m] = storage[g][target[w]]]
    <3>1. job[w].tgt \notin todo[w]
      BY <1>2, <2>3 DEF Targets, AtWork, DedupeMember
    <3>2. it.g = g => m # it.tgt
      BY <2>1, <3>1, OneTarget
    <3>3. it.g \in Groups /\ it.tgt \in Files /\ storage \in [Groups -> [Files -> Files]]
      BY <2>1 DEF Items, TypeOK
    <3>. QED BY <2>3, <3>2, <3>3
  <2>. QED BY <2>2, <2>3
<1>3. CASE ~UNCHANGED storage /\ ~\E w \in Workers : DedupeMember(w)
  <2>1. CASE LoadSameFiles \/ LoadExtentHashes
    BY <1>3, <2>1 DEF LoadSameFiles, LoadExtentHashes, Load
  <2>2. CASE Producer
    BY <1>3, <2>1, <2>2 DEF Producer, LoopHead, Reap, Wait, AwaitSlot, Drain, SearchDone,
       HoldFilerecs, PushItem, FilesPushed, ExtentsPushed, SealBatch, NextWindow, EndRun,
       LoadBlockHashes
  <2>. QED BY <1>3, <2>2 DEF Next, StartRun, Searcher, SearchFile, Environment, Interrupt,
       Kill, Delete, Worker, TakeItem, SkipItem, FinishItem, Finished
<1>. QED BY <1>1, <1>2, <1>3

\* The whole-file and the extent groups in flight work on disjoint sets of
\* files, whichever windows they were loaded in and however far the workers are.
THEOREM PassesDisjoint == Spec => []DisjointPasses
<1>1. IInv /\ Memory /\ Scope /\ Targets /\ [Next]_vars => (Memory /\ Scope /\ Targets)'
  BY MemoryStep, ScopeStep, TargetsStep DEF IInv
<1>2. Targets => DisjointPasses
  BY PassesApart
<1>. QED BY InitMemory, InitScope, InitTargets, <1>1, <1>2, InvariantHolds, PTL DEF Spec, IInv

\* No step moves a copy that a group in flight dedupes against: groups of the
\* same content share their target, and a worker passes it before it moves one.
THEOREM TargetNeverMoves == Spec => TargetStays
<1>1. IInv /\ Memory /\ Scope /\ Targets /\ [Next]_vars => (Memory /\ Scope /\ Targets)'
  BY MemoryStep, ScopeStep, TargetsStep DEF IInv
<1>2. IInv /\ Targets /\ [Next]_vars =>
        [gone = {} => \A it \in InFlight : storage'[it.g][it.tgt] = storage[it.g][it.tgt]]_vars
  BY TargetKept DEF IInv
<1>. QED BY InitMemory, InitScope, InitTargets, <1>1, <1>2, InvariantHolds, PTL
     DEF Spec, TargetStays

-----------------------------------------------------------------------------
(***************************************************************************)
(* A run that ends by itself.                                              *)
(***************************************************************************)

\* No signal came and every load came to its end.
Clean == ~interrupted /\ load_failed_at = NoFailure

\* The end of the last window that was sealed, or of the generations.
Reached == IF pc = "sealed" THEN Hi ELSE IF lo < max THEN lo ELSE max

\* The watermark has come as far as the windows have, or a batch in flight will
\* take it there.
Exit ==
    /\ ~interrupted => ~watermark_frozen /\ \A b \in Seqs : ~cut_short[b]
    /\ pc \in {"end", "over"} /\ ~interrupted => max <= lo
    /\ pc # "dead" /\ Clean => \/ Reached <= dedupe_seq
                               \/ \E b \in inflight : Reached <= b
    /\ pc = "over" => inflight = {} /\ \A f \in Files : seq[f] <= max
    /\ pc # "dead" => unsaved \/ durable = dedupe_seq

LEMMA InitExit == Init => Exit
<1>. SUFFICES ASSUME Init PROVE Exit
  OBVIOUS
<1>1. \A b \in Seqs : ~cut_short[b]
  BY DEF Init
<1>. QED BY <1>1 DEF Init, Exit

\* A step that leaves the windows, the batches and the verdict alone.
LEMMA KeptExit ==
    ASSUME TypeOK, Phase, Exit,
           UNCHANGED <<pc, interrupted, lo, max, inflight, verdict, durable>>,
           cut_short' = cut_short \/ interrupted,
           \A f \in Files : seq'[f] = seq[f] \/ seq'[f] = 0
    PROVE  Exit'
<1>1. max \in Nat
  BY ConstantsOK DEF TypeOK
<1>2. Reached' = Reached /\ Clean' = Clean
  BY DEF Reached, Clean, Hi
<1>3. pc = "over" => \A f \in Files : seq'[f] <= max
  BY <1>1 DEF Exit
<1>. QED BY <1>2, <1>3 DEF Exit

\* Reaping moves the watermark to the end of the batch it takes away.
LEMMA ReapExit == ASSUME TypeOK, Phase, Exit, Reap PROVE Exit'
<1>1. /\ inflight' = inflight \ {Front} /\ Front \in inflight /\ Front \in Seqs
      /\ UNCHANGED <<pc, lo, max, interrupted, load_failed_at, cut_short>> /\ pc \in Reaping
      /\ watermark_frozen' = (watermark_frozen \/ cut_short[Front])
      /\ watermark_frozen' \/ AdvanceSeq(Front)
  BY FrontIn DEF Reap, FreeBatch, FrontReady, TypeOK
<1>2. Reached' = Reached /\ Reached \in Nat /\ Clean' = Clean
  BY <1>1, ConstantsOK DEF Reached, Hi, Clean, TypeOK
<1>3. ~interrupted => ~watermark_frozen'
  <2>1. ~interrupted => ~watermark_frozen /\ ~cut_short[Front]
    BY <1>1 DEF Exit
  <2>. QED BY <1>1, <2>1
<1>4. ASSUME Clean
      PROVE  Reached <= dedupe_seq' \/ \E b \in inflight' : Reached <= b
  <2>1. AdvanceSeq(Front) /\ Capped(Front) = Front
    BY <1>1, <1>3, <1>4 DEF Clean, Capped
  <2>2. dedupe_seq \in Nat /\ Front \in Nat
    BY <1>1, ConstantsOK DEF TypeOK, Seqs
  <2>3. Front <= dedupe_seq' /\ dedupe_seq <= dedupe_seq' /\ dedupe_seq' \in Nat
    BY <2>1, <2>2 DEF AdvanceSeq
  <2>4. CASE Reached <= dedupe_seq
    BY <1>2, <2>2, <2>3, <2>4
  <2>5. ASSUME NEW b \in inflight, Reached <= b
        PROVE  Reached <= dedupe_seq' \/ \E o \in inflight' : Reached <= o
    BY <1>1, <1>2, <2>2, <2>3, <2>5
  <2>. QED BY <1>1, <1>4, <2>4, <2>5 DEF Exit, Reaping
<1>5. unsaved' \/ durable' = dedupe_seq'
  <2>1. \/ UNCHANGED <<dedupe_seq, durable, unsaved>>
        \/ unsaved'
        \/ durable' = dedupe_seq'
    BY DEF Reap, FreeBatch, AdvanceSeq
  <2>. QED BY <1>1, <2>1 DEF Exit, Reaping
<1>. QED BY <1>1, <1>2, <1>3, <1>4, <1>5 DEF Exit, Reaping

LEMMA ExitStep ==
    ASSUME TypeOK, Phase, Exit, [Next]_vars PROVE Exit'
<1>0. lo \in Nat /\ max \in Nat /\ dedupe_seq \in Nat
  BY ConstantsOK DEF TypeOK
<1>1. CASE StartRun
  <2>1. /\ lo' = dedupe_seq' /\ dedupe_seq' \in Nat /\ max' \in Nat /\ pc' = "loop"
        /\ durable' = dedupe_seq'
        /\ ~watermark_frozen'
        /\ \A b \in Seqs : ~cut_short'[b]
    <3>1. TypeOK'
      BY <1>1, StartRunScan
    <3>. QED BY <1>1, <3>1, ConstantsOK DEF TypeOK, StartRun, NewProcess
  <2>. QED BY <2>1 DEF Exit, Reached
<1>2. CASE Kill
  <2>1. \A b \in Seqs : ~cut_short'[b]
    BY <1>2 DEF Kill, NewProcess
  <2>. QED BY <1>2, <2>1 DEF Kill, NewProcess, Exit
<1>3. CASE Interrupt
  BY <1>3 DEF Interrupt, Exit, Clean, Running
<1>4. CASE Reap
  BY <1>4, ReapExit
<1>5. CASE LoopHead
  BY <1>0, <1>5 DEF LoopHead, Exit, Clean, Reached
<1>6. CASE EndRun
  <2>1. /\ pc = "end" /\ pc' = "over" /\ inflight = {}
        /\ UNCHANGED <<lo, max, interrupted, verdict, batches, seq, durable>>
    BY <1>6 DEF EndRun, Blocked
  <2>. QED BY <2>1 DEF Exit, Clean, Reached, Phase, Running
<1>7. CASE AwaitSlot \/ Drain
  BY <1>7 DEF AwaitSlot, Drain, Exit, Clean, Reached
<1>8. CASE SealBatch
  <2>1. /\ pc = "seal" /\ pc' = "sealed" /\ inflight' = inflight \cup {Hi} /\ Hi' = Hi
        /\ UNCHANGED <<lo, max, interrupted, verdict, cut_short, durable>>
    BY <1>8 DEF SealBatch, Phase, Loading, Hi
  <2>2. Hi \in Nat
    BY <1>0, ConstantsOK DEF Hi
  <2>. QED BY <2>1, <2>2 DEF Exit, Reached
<1>9. CASE NextWindow
  <2>1. /\ pc = "sealed" /\ pc' = "loop" /\ lo' = lo + Stride
        /\ UNCHANGED <<max, interrupted, verdict, cut_short, inflight, durable>>
    BY <1>9 DEF NextWindow
  <2>2. Reached' = Reached
    BY <1>0, <2>1, ConstantsOK DEF Reached, Hi
  <2>. QED BY <2>1, <2>2 DEF Exit, Clean
<1>10. CASE LoadSameFiles \/ LoadExtentHashes \/ LoadBlockHashes
  <2>1. /\ pc \in {"load_files", "load_extents", "load_blocks"}
        /\ pc' \in {"hold_files", "load_blocks", "hold_extents", "search"}
        /\ UNCHANGED <<lo, max, interrupted, watermark_frozen, dedupe_seq, unsaved, durable,
                       inflight, cut_short>>
        /\ load_failed_at' = load_failed_at \/ load_failed_at' = LoadFailed
    BY <1>10 DEF LoadSameFiles, LoadExtentHashes, Load, LoadBlockHashes
  <2>2. LoadFailed # NoFailure
    BY <2>1, LoadFailedBelow DEF InWindow, Loading
  <2>3. Reached' = Reached /\ (Clean' => Clean)
    BY <2>1, <2>2 DEF Reached, Clean
  <2>. QED BY <2>1, <2>3 DEF Exit
<1>11. CASE SearchDone \/ HoldFilerecs \/ FilesPushed \/ ExtentsPushed
  <2>1. /\ pc \notin {"dead", "over", "end", "sealed"} /\ pc' \notin {"dead", "over", "end", "sealed"}
        /\ UNCHANGED <<lo, max, interrupted, verdict, inflight, cut_short, durable>>
    BY <1>11 DEF SearchDone, HoldFilerecs, FilesPushed, ExtentsPushed
  <2>. QED BY <2>1 DEF Exit, Clean, Reached
<1>12. CASE Wait \/ (\E it \in topush : PushItem(it)) \/ Searcher \/ (\E f \in Files : Delete(f))
            \/ (\E w \in Workers : Worker(w)) \/ UNCHANGED vars
  <2>1. UNCHANGED <<pc, interrupted, lo, max, inflight, verdict, durable>>
    BY <1>12 DEF Wait, PushItem, Searcher, SearchFile, Delete, Worker, TakeItem, SkipItem,
       DedupeMember, FinishItem
  <2>2. cut_short' = cut_short \/ interrupted
    BY <1>12 DEF Wait, PushItem, Searcher, SearchFile, Delete, Worker, TakeItem, SkipItem,
       DedupeMember, FinishItem
  <2>3. \A f \in Files : seq'[f] = seq[f] \/ seq'[f] = 0
    <3>1. ASSUME NEW w \in Workers, DedupeMember(w)
          PROVE  \A f \in Files : seq'[f] = seq[f] \/ seq'[f] = 0
      BY <3>1 DEF DedupeMember, TypeOK
    <3>. QED BY <1>12, <3>1 DEF Wait, PushItem, Searcher, SearchFile, Delete, Worker, TakeItem,
         SkipItem, FinishItem
  <2>. QED BY <2>1, <2>2, <2>3, KeptExit
<1>. QED BY <1>1, <1>2, <1>3, <1>4, <1>5, <1>6, <1>7, <1>8, <1>9, <1>10, <1>11, <1>12
     DEF Next, Producer, Environment, Finished

\* A run that ends by itself, read the whole hashfile and got its last write of
\* the watermark through has taken the durable one past every generation: the
\* next run has nothing to do over, whichever earlier writes were lost.
THEOREM CleanExitDone == Spec => []ExitMeansDone
<1>1. IInv /\ Exit /\ [Next]_vars => Exit'
  BY ExitStep DEF IInv
<1>2. TypeOK /\ Exit => ExitMeansDone
  <2>. SUFFICES ASSUME TypeOK, Exit, CleanExit, ~unsaved, NEW f \in Live
               PROVE  seq[f] <= durable
    BY DEF ExitMeansDone
  <2>1. lo \in Nat /\ max \in Nat /\ dedupe_seq \in Nat /\ f \in Files /\ seq[f] \in Nat
    BY ConstantsOK DEF TypeOK, Live
  <2>4. durable = dedupe_seq
    BY DEF CleanExit, Exit
  <2>2. max <= dedupe_seq
    BY <2>1 DEF CleanExit, Exit, Clean, Reached
  <2>3. seq[f] <= max
    BY <2>1 DEF CleanExit, Exit
  <2>. QED BY <2>1, <2>2, <2>3, <2>4
<1>. QED BY InitExit, <1>1, <1>2, InvariantHolds, PTL DEF Spec, IInv

-----------------------------------------------------------------------------
(***************************************************************************)
(* Convergence.  In every group one copy leads: the one a loader that saw  *)
(* them all would elect.  A copy is tied when it is on the leader's        *)
(* storage, or had to be passed over.                                      *)
(***************************************************************************)

Leads(g, t) ==
    /\ t \in Copies(g)
    /\ Kind[g] = "file" => \A o \in Copies(g) : Rank[t] <= Rank[o]
    /\ Kind[g] = "extent" => \A o \in Copies(g) : OlderRow(t, o)
Tied(g, f, t) == <<g, f>> \in refused \/ storage[g][f] = storage[g][t]
Whole(g) == Loads(g) /\ ~Apart(g)

\* The generation whose window brings f and the leader t together: a copy of
\* an earlier run comes along when the leader is new.
Due(f, t) == IF seq[f] <= first_seq THEN seq[t] ELSE seq[f]

\* The phase starts at the watermark, and only files that were scanned have rows.
Start == /\ Running => first_seq <= lo
         /\ \A f \in Files : seq[f] > 0 => f <= nscanned

\* What a worker has done of its group is tied to the group's target.
AtDone ==
    /\ \A w \in Workers : job[w] # NoWork => todo[w] \subseteq job[w].ms
    /\ gone = {} => \A w \in Workers : job[w] # NoWork /\ Kind[job[w].g] # "block" =>
           /\ job[w].tgt \in todo[w] \/ target[w] = job[w].tgt
              \/ {job[w].g} \X job[w].ms \subseteq refused
           /\ \A f \in job[w].ms \ todo[w] : Tied(job[w].g, f, job[w].tgt)

\* What is at or below the watermark is tied to its leader.
Gathered ==
    gone = {} => \A g \in Groups : Whole(g) => \A t, f \in Copies(g) :
        Leads(g, t) /\ seq[f] <= durable /\ seq[t] <= durable => Tied(g, f, t)

\* What the windows have brought together is tied, or work on it is due.
Progress ==
    Running /\ gone = {} => \A g \in Groups : Whole(g) => \A t, f \in Copies(g) :
        Leads(g, t) /\ Due(f, t) <= Loaded(g) => Tied(g, f, t) \/ Pending(g, f, Due(f, t))

Ended ==
    CleanExit /\ gone = {} => \A g \in Groups : Whole(g) => \A t, f \in Copies(g) :
        Leads(g, t) => Tied(g, f, t)

Conv == Start /\ AtDone /\ Gathered /\ Progress /\ Ended

\* Only a worker at one member of its group moves data or passes one over.
LEMMA DiskStep ==
    ASSUME [Next]_vars, ~\E w \in Workers : DedupeMember(w)
    PROVE  UNCHANGED <<storage, refused>>
<1>1. CASE LoadSameFiles \/ LoadExtentHashes
  BY <1>1 DEF LoadSameFiles, LoadExtentHashes, Load
<1>2. CASE Producer
  BY <1>1, <1>2 DEF Producer, LoopHead, Reap, Wait, AwaitSlot, Drain, SearchDone, HoldFilerecs,
     PushItem, FilesPushed, ExtentsPushed, SealBatch, NextWindow, EndRun, LoadBlockHashes
<1>. QED BY <1>2 DEF Next, StartRun, Searcher, SearchFile, Environment, Interrupt, Kill, Delete,
     Worker, TakeItem, SkipItem, FinishItem, Finished

\* A copy that can lead is the only one.
LEMMA CopiesRows ==
    ASSUME TypeOK, NEW g \in Groups, NEW f \in Copies(g)
    PROVE  /\ f \in Files /\ f \in Nat /\ seq[f] \in Nat /\ seq[f] > 0 /\ Rank[f] \in Nat
           /\ f \in Members[g] /\ f \in LiveMembers(g)
<1>1. f \in LiveMembers(g)
  BY ConstantsOK DEF Copies, Kinds
<1>. QED BY <1>1, ConstantsOK DEF LiveMembers, Live, TypeOK, Files

LEMMA OneLeads ==
    ASSUME TypeOK, NEW g \in Groups, Loads(g), NEW a, NEW b, Leads(g, a), Leads(g, b)
    PROVE  a = b
<1>1. a \in Copies(g) /\ b \in Copies(g)
  BY DEF Leads
<1>2. /\ a \in Files /\ b \in Files /\ a \in Nat /\ b \in Nat /\ seq[a] \in Nat
      /\ seq[b] \in Nat /\ Rank[a] \in Nat /\ Rank[b] \in Nat
  BY <1>1, CopiesRows
<1>3. CASE Kind[g] = "file"
  BY <1>1, <1>2, <1>3, ConstantsOK DEF Leads
<1>4. CASE Kind[g] = "extent"
  BY <1>1, <1>2, <1>4 DEF Leads, OlderRow
<1>. QED BY <1>3, <1>4 DEF Loads

LEMMA SomeLeads ==
    ASSUME TypeOK, NEW g \in Groups, Loads(g), Copies(g) # {} PROVE \E t \in Copies(g) : Leads(g, t)
<1>1. Copies(g) \in SUBSET Files
  BY CopiesRows
<1>2. CASE Kind[g] = "file"
  BY <1>1, <1>2, RankFirstIn DEF Leads
<1>3. CASE Kind[g] = "extent"
  BY <1>1, <1>3, OldestRowIn DEF Leads, TypeOK
<1>. QED BY <1>2, <1>3 DEF Loads

LEMMA ItemLeads ==
    ASSUME TypeOK, Targets, gone = {}, NEW it \in InFlight, Loads(it.g)
    PROVE  Leads(it.g, it.tgt)
BY DEF Targets, Passes, Hands, Leads, WholeFileItem, ExtentItem, Loads

\* Until the next run no copy comes or goes, and so none takes the lead.
LEMMA LeadsStep ==
    ASSUME TypeOK, Memory, Targets, [Next]_vars, ~StartRun, gone' = {}, NEW g \in Groups
    PROVE  /\ gone = {} /\ seq' = seq /\ Copies(g)' = Copies(g)
           /\ \A t : Leads(g, t)' <=> Leads(g, t)
           /\ Whole(g)' => Whole(g)
<1>1. gone = {} /\ seq' = seq
  BY RowsStay
<1>2. Copies(g)' = Copies(g) /\ \A f \in Files : FiledupMember(f)' <=> FiledupMember(f)
  BY CopiesStay DEF Targets
<1>3. \A t : Leads(g, t)' <=> Leads(g, t)
  BY <1>1, <1>2 DEF Leads, OlderRow
<1>4. refused \subseteq refused'
  <2>1. ASSUME NEW w \in Workers, DedupeMember(w) PROVE refused \subseteq refused'
    BY <2>1 DEF DedupeMember
  <2>. QED BY <2>1, DiskStep
<1>5. LiveMembers(g)' = LiveMembers(g) /\ LiveMembers(g) \subseteq Files
  BY <1>1 DEF LiveMembers, Live
<1>6. Apart(g) => Apart(g)'
  BY <1>2, <1>4, <1>5 DEF Apart
<1>. QED BY <1>1, <1>2, <1>3, <1>6 DEF Whole, Loads

\* What is tied to the target of all the groups in flight that hold the same
\* content stays tied: they move copies onto it, or give up on all of theirs.
LEMMA TiedStep ==
    ASSUME TypeOK, Targets, AtDone, [Next]_vars, gone = {},
           NEW g \in Groups, Kind[g] # "block", NEW f \in Files, NEW t \in Files,
           \A it \in InFlight : it.g = g => it.tgt = t, Tied(g, f, t)
    PROVE  Tied(g, f, t)'
<1>1. ASSUME NEW w \in Workers, DedupeMember(w) PROVE Tied(g, f, t)'
  <2>. DEFINE m == NextMember(w)
              j == job[w]
  <2>1. /\ j \in InFlight /\ j \in Items /\ j # NoWork /\ m \in todo[w] /\ m \in j.ms
    BY <1>1, NextMemberType, NoWorkOK DEF DedupeMember, InFlight, TypeOK, AtDone
  <2>2. /\ j.g \in Groups /\ m \in Files /\ storage \in [Groups -> [Files -> Files]]
    BY <2>1 DEF Items, TypeOK
  <2>3. refused \subseteq refused' /\ (storage' = storage \/
            (target[w] # NoTarget /\ storage' = [storage EXCEPT ![j.g][m] = storage[j.g][target[w]]]))
    BY <1>1 DEF DedupeMember
  <2>4. CASE storage' = storage \/ j.g # g \/ <<g, f>> \in refused
    BY <2>2, <2>3, <2>4 DEF Tied
  <2>5. CASE /\ target[w] # NoTarget /\ j.g = g /\ storage[g][f] = storage[g][t]
             /\ storage' = [storage EXCEPT ![g][m] = storage[g][target[w]]]
    <3>1. j.tgt = t /\ t \notin todo[w] /\ m # t
      BY <1>1, <2>1, <2>5 DEF Targets, AtWork
    <3>2. target[w] = t \/ {g} \X j.ms \subseteq refused
      BY <2>1, <2>5, <3>1 DEF AtDone
    <3>3. storage'[g][t] = storage[g][t]
      BY <2>2, <2>5, <3>1
    <3>4. CASE f = m
      BY <2>1, <2>2, <2>3, <2>5, <3>2, <3>3, <3>4 DEF Tied
    <3>5. CASE f # m
      BY <2>2, <2>5, <3>3, <3>5 DEF Tied
    <3>. QED BY <3>4, <3>5
  <2>. QED BY <2>3, <2>4, <2>5 DEF Tied
<1>2. CASE ~\E w \in Workers : DedupeMember(w)
  BY <1>2, DiskStep DEF Tied
<1>. QED BY <1>1, <1>2

LEMMA LedStep ==
    ASSUME TypeOK, Targets, AtDone, [Next]_vars, gone = {}, NEW g \in Groups, Loads(g),
           NEW f \in Copies(g), NEW t \in Copies(g), Leads(g, t), Tied(g, f, t)
    PROVE  Tied(g, f, t)'
<1>1. \A it \in InFlight : it.g = g => it.tgt = t
  BY ItemLeads, OneLeads
<1>2. f \in Files /\ t \in Files /\ Kind[g] # "block"
  BY CopiesRows DEF Loads
<1>. QED BY <1>1, <1>2, TiedStep

\* A worker at one member: it becomes the target, or it is the one that was
\* passed over, or it ends on the target's storage.
LEMMA MemberDone ==
    ASSUME TypeOK, Targets, AtDone, gone = {}, NEW w \in Workers, DedupeMember(w),
           NEW j, j = job[w], NEW m, m = NextMember(w), Kind[j.g] # "block"
    PROVE  /\ j.tgt \in todo'[w] \/ target'[w] = j.tgt \/ {j.g} \X j.ms \subseteq refused'
           /\ Tied(j.g, m, j.tgt)'
<1>1. /\ j \in InFlight /\ j \in Items /\ j # NoWork /\ m \in todo[w] /\ m \in j.ms
      /\ j.tgt \in todo[w] => m = j.tgt
  BY NextMemberType, NoWorkOK DEF DedupeMember, InFlight, TypeOK, AtDone, NextMember
<1>2. /\ j.g \in Groups /\ m \in Files /\ j.tgt \in Files /\ NoTarget \notin Files
      /\ storage \in [Groups -> [Files -> Files]]
      /\ target \in [Workers -> Files \cup {NoTarget}]
  <2>1. m \in Files
    BY <1>1 DEF TypeOK
  <2>2. NoTarget \notin Files
    BY ConstantsOK DEF Files, NoTarget
  <2>. QED BY <1>1, <2>1, <2>2 DEF Items, TypeOK
<1>3. j.tgt \in todo[w] \/ target[w] = j.tgt \/ {j.g} \X j.ms \subseteq refused
  BY <1>1 DEF AtDone
<1>4. CASE target[w] = NoTarget /\ target' = [target EXCEPT ![w] = m] /\ UNCHANGED <<storage, refused>>
  <2>1. target'[w] = m
    BY <1>2, <1>4
  <2>. QED BY <1>1, <1>2, <1>3, <1>4, <2>1 DEF Tied
<1>5. CASE /\ target[w] # NoTarget /\ storage' = [storage EXCEPT ![j.g][m] = storage[j.g][target[w]]]
           /\ UNCHANGED <<refused, target>>
  <2>1. j.tgt \notin todo[w] /\ m # j.tgt
    BY <1>1, <1>5 DEF Targets, AtWork
  <2>2. storage'[j.g][j.tgt] = storage[j.g][j.tgt] /\ storage'[j.g][m] = storage[j.g][target[w]]
    BY <1>2, <1>5, <2>1
  <2>3. target[w] = j.tgt \/ <<j.g, m>> \in refused
    BY <1>1, <1>3, <2>1
  <2>. QED BY <1>3, <1>5, <2>1, <2>2, <2>3 DEF Tied
<1>6. CASE /\ refused' = refused \cup ({j.g} \X IF m = j.tgt THEN j.ms ELSE {m})
           /\ UNCHANGED <<storage, target>>
  <2>1. <<j.g, m>> \in refused' /\ refused \subseteq refused'
    BY <1>1, <1>6
  <2>2. CASE m = j.tgt
    BY <1>6, <2>1, <2>2 DEF Tied
  <2>3. CASE m # j.tgt
    BY <1>1, <1>3, <1>6, <2>1, <2>3 DEF Tied
  <2>. QED BY <2>2, <2>3
<1>. QED BY <1>4, <1>5, <1>6 DEF DedupeMember

\* A worker takes a group, turns to the next member of its group, or keeps both.
LEMMA JobStep ==
    ASSUME TypeOK, [Next]_vars, NEW w \in Workers, job'[w] # NoWork
    PROVE  \/ todo'[w] = job'[w].ms
           \/ job'[w] = job[w] /\ DedupeMember(w) /\ todo'[w] = todo[w] \ {NextMember(w)}
           \/ UNCHANGED <<job[w], todo[w], target[w]>>
<1>1. ASSUME NEW v \in Workers, NEW it \in queue, TakeItem(v, it)
      PROVE  \/ todo'[w] = job'[w].ms
             \/ UNCHANGED <<job[w], todo[w], target[w]>>
  BY <1>1 DEF TakeItem, TypeOK
<1>2. ASSUME NEW v \in Workers, DedupeMember(v)
      PROVE  \/ job'[w] = job[w] /\ DedupeMember(w) /\ todo'[w] = todo[w] \ {NextMember(w)}
             \/ UNCHANGED <<job[w], todo[w], target[w]>>
  <2>1. /\ job' = job /\ todo' = [todo EXCEPT ![v] = @ \ {NextMember(v)}]
        /\ target' = target \/ \E m \in Files : target' = [target EXCEPT ![v] = m]
    BY <1>2, NextMemberType DEF DedupeMember
  <2>2. CASE v = w
    BY <1>2, <2>1, <2>2 DEF TypeOK
  <2>3. CASE v # w
    BY <2>1, <2>3 DEF TypeOK
  <2>. QED BY <2>2, <2>3
<1>3. ASSUME NEW v \in Workers, FinishItem(v) PROVE UNCHANGED <<job[w], todo[w], target[w]>>
  BY <1>3 DEF FinishItem, TypeOK
<1>4. CASE Producer
  <2>1. CASE LoadSameFiles \/ LoadExtentHashes
    BY <2>1 DEF LoadSameFiles, LoadExtentHashes, Load
  <2>. QED BY <1>4, <2>1 DEF Producer, LoopHead, Reap, Wait, AwaitSlot, Drain, SearchDone,
       HoldFilerecs, PushItem, FilesPushed, ExtentsPushed, SealBatch, NextWindow, EndRun,
       LoadBlockHashes
<1>5. CASE Searcher \/ Interrupt \/ (\E f \in Files : Delete(f)) \/ UNCHANGED vars
           \/ \E v \in Workers : \E it \in queue : SkipItem(v, it)
  BY <1>5 DEF Searcher, SearchFile, Interrupt, Delete, SkipItem
<1>6. ~StartRun /\ ~Kill
  BY DEF StartRun, Kill, NewProcess
<1>. QED BY <1>1, <1>2, <1>3, <1>4, <1>5, <1>6 DEF Next, Worker, Environment, Finished

LEMMA AtDoneStep ==
    ASSUME TypeOK, Phase, Memory, Scope, Targets, AtDone, [Next]_vars
    PROVE  AtDone'
<1>1. ASSUME NEW w \in Workers, job'[w] # NoWork PROVE todo'[w] \subseteq job'[w].ms
  BY <1>1, JobStep DEF AtDone
<1>2. ASSUME gone' = {}, NEW w \in Workers, NEW j, j = job'[w], j # NoWork, Kind[j.g] # "block"
      PROVE  /\ j.tgt \in todo'[w] \/ target'[w] = j.tgt \/ {j.g} \X j.ms \subseteq refused'
             /\ \A f \in j.ms \ todo'[w] : Tied(j.g, f, j.tgt)'
  <2>1. gone = {} /\ ~StartRun
    BY <1>2, RowsStay DEF StartRun, NewProcess
  <2>2. TypeOK' /\ Targets' /\ j \in InFlight' /\ j \in Items
    BY <1>2, TypeStep, TargetsStep DEF InFlight, TypeOK
  <2>3. Kind[j.g] \in Kinds /\ j.tgt \in Files /\ j.ms \subseteq Files /\ j.g \in Groups
    BY <2>2, ConstantsOK DEF Items
  <2>4. CASE todo'[w] = j.ms
    <3>1. j \in Hands'
      BY <2>2 DEF Hands
    <3>2. j.tgt \in j.ms
      BY <1>2, <2>2, <2>3, <3>1 DEF Targets, Passes, WholeFileItem, ExtentItem, Kinds
    <3>. QED BY <2>4, <3>2
  <2>5. ASSUME j = job[w], NEW f \in j.ms \ todo[w] PROVE Tied(j.g, f, j.tgt)'
    <3>1. j \in InFlight /\ Tied(j.g, f, j.tgt)
      BY <1>2, <2>1, <2>5 DEF AtDone, InFlight
    <3>2. \A it \in InFlight : it.g = j.g => it.tgt = j.tgt
      BY <2>1, <3>1, OneTarget
    <3>. QED BY <1>2, <2>1, <2>3, <3>1, <3>2, TiedStep
  <2>6. CASE j = job[w] /\ DedupeMember(w) /\ todo'[w] = todo[w] \ {NextMember(w)}
    <3>1. PICK m : m = NextMember(w)
      OBVIOUS
    <3>2. /\ j.tgt \in todo'[w] \/ target'[w] = j.tgt \/ {j.g} \X j.ms \subseteq refused'
          /\ Tied(j.g, m, j.tgt)'
      BY <1>2, <2>1, <2>6, <3>1, MemberDone
    <3>. QED BY <2>5, <2>6, <3>1, <3>2
  <2>7. CASE UNCHANGED <<job[w], todo[w], target[w]>>
    <3>1. refused \subseteq refused'
      BY DiskStep DEF DedupeMember
    <3>2. j = job[w] /\ (j.tgt \in todo[w] \/ target[w] = j.tgt \/ {j.g} \X j.ms \subseteq refused)
      BY <1>2, <2>1, <2>7 DEF AtDone
    <3>. QED BY <2>5, <2>7, <3>1, <3>2
  <2>. QED BY <1>2, <2>4, <2>6, <2>7, JobStep
<1>. QED BY <1>1, <1>2 DEF AtDone

\* Until the next run the phase keeps where it started, and no file is scanned.
LEMMA WindowStep ==
    ASSUME TypeOK, [Next]_vars, ~StartRun
    PROVE  nscanned' = nscanned /\ (Running' => first_seq' = first_seq /\ lo <= lo')
<1>0. lo \in Nat /\ lo <= lo /\ lo <= lo + Stride
  BY ConstantsOK DEF TypeOK
<1>1. CASE LoadSameFiles \/ LoadExtentHashes
  BY <1>0, <1>1 DEF LoadSameFiles, LoadExtentHashes, Load
<1>2. CASE Producer
  BY <1>0, <1>1, <1>2 DEF Producer, LoopHead, Reap, Wait, AwaitSlot, Drain, SearchDone,
     HoldFilerecs, PushItem, FilesPushed, ExtentsPushed, SealBatch, EndRun, NextWindow,
     LoadBlockHashes
<1>. QED BY <1>0, <1>2 DEF Next, Searcher, SearchFile, Environment, Interrupt, Kill, Running,
     Delete, Worker, TakeItem, SkipItem, DedupeMember, FinishItem, Finished

\* The rows of a new run: those of the files it scans, and those there were.
LEMMA ScannedRows ==
    ASSUME TypeOK, Start, StartRun
    PROVE  /\ \A f \in Files : seq'[f] > 0 => f <= nscanned'
           /\ gone = {} => \E new \in SUBSET Files :
                /\ \A f \in new : seq[f] = 0 /\ durable < seq'[f]
                /\ \A f \in Files \ new : seq'[f] = seq[f]
                /\ extents' = extents \cup new
<1>1. PICK n \in 0 .. NFiles - nscanned : \E s \in Generations(n) :
          /\ nscanned' = nscanned + n
          /\ seq' = [f \in Files |-> IF f \in gone THEN 0 ELSE
                        IF f \in DOMAIN s THEN s[f] ELSE seq[f]]
          /\ extents' = (extents \cup DOMAIN s) \ gone
  BY DEF StartRun
<1>2. PICK s \in Generations(n) :
          /\ nscanned' = nscanned + n
          /\ seq' = [f \in Files |-> IF f \in gone THEN 0 ELSE
                        IF f \in DOMAIN s THEN s[f] ELSE seq[f]]
          /\ extents' = (extents \cup DOMAIN s) \ gone
  BY <1>1
<1>3. nscanned \in Nat /\ n \in Nat /\ nscanned + n <= NFiles
  BY ConstantsOK DEF TypeOK
<1>4. DOMAIN s = nscanned + 1 .. nscanned + n /\ \A f \in DOMAIN s : s[f] > durable
  BY <1>2, <1>3 DEF Generations
<1>5. PICK new \in SUBSET Files : new = DOMAIN s
  BY <1>3, <1>4, ConstantsOK DEF Files
<1>6. \A f \in new : seq[f] = 0
  <2>1. \A f \in Files : seq[f] \in Nat
    BY ConstantsOK DEF TypeOK
  <2>. QED BY <1>3, <1>4, <1>5, <2>1 DEF Start
<1>7. gone = {} => \A f \in new : durable < seq'[f]
  <2>1. s \in [nscanned + 1 .. nscanned + n -> Seqs] /\ durable \in Nat
    BY <1>2, ConstantsOK DEF Generations, TypeOK
  <2>. QED BY <1>2, <1>4, <1>5, <2>1, ConstantsOK DEF Seqs
<1>8. \A f \in Files : seq'[f] > 0 => f <= nscanned'
  BY <1>2, <1>3, <1>4 DEF Start, Files
<1>9. gone = {} => (\A f \in Files \ new : seq'[f] = seq[f]) /\ extents' = extents \cup new
  BY <1>2, <1>5
<1>. QED BY <1>6, <1>7, <1>8, <1>9

LEMMA StartStep == ASSUME TypeOK, Phase, Start, [Next]_vars PROVE Start'
<1>1. CASE StartRun
  <2>1. first_seq' = durable /\ lo' = durable /\ durable \in Nat
    BY <1>1, ConstantsOK DEF StartRun, TypeOK
  <2>2. \A f \in Files : seq'[f] > 0 => f <= nscanned'
    BY <1>1, ScannedRows
  <2>. QED BY <2>1, <2>2 DEF Start
<1>2. CASE ~StartRun
  <2>1. lo \in Nat /\ lo' \in Nat /\ first_seq \in Nat
    <3>1. TypeOK'
      BY TypeStep
    <3>. QED BY <3>1, ConstantsOK DEF TypeOK
  <2>2. Running' => first_seq' <= lo'
    BY <1>2, <2>1, WindowStep, RunningStep DEF Start
  <2>3. \A f \in Files : seq'[f] > 0 => f <= nscanned'
    BY <1>2, WindowStep, RowStep DEF Start
  <2>. QED BY <2>2, <2>3 DEF Start
<1>. QED BY <1>1, <1>2

\* A run scans new files only.  The copies of the runs before are the same, and
\* so is the one that leads them, unless a new file makes the old leader a
\* whole-file duplicate.  What no worker had to pass over is on its storage
\* nevertheless.
LEMMA GatheredStart ==
    ASSUME TypeOK, Start, Gathered, StartRun
    PROVE  Gathered'
<1>. SUFFICES ASSUME gone = {}, NEW g \in Groups, Whole(g)', NEW t \in Copies(g)',
                     NEW f \in Copies(g)', Leads(g, t)', seq'[f] <= durable, seq'[t] <= durable
              PROVE  Tied(g, f, t)'
  BY DEF Gathered, StartRun
<1>1. PICK new \in SUBSET Files :
          /\ \A o \in new : seq[o] = 0 /\ durable < seq'[o]
          /\ \A o \in Files \ new : seq'[o] = seq[o]
          /\ extents' = extents \cup new
  BY ScannedRows
<1>2. TypeOK' /\ UNCHANGED <<storage, refused, durable>> /\ durable \in Nat
  BY StartRunScan, ConstantsOK DEF StartRun, TypeOK
<1>3. \A o \in Files : seq[o] \in Nat /\ seq'[o] \in Nat
  BY <1>2, ConstantsOK DEF TypeOK
<1>4. /\ LiveMembers(g) \subseteq LiveMembers(g)' /\ LiveMembers(g) \subseteq Files
      /\ \A o \in Files : FiledupMember(o) => FiledupMember(o)'
  <2>1. Live \subseteq Live' /\ Live \subseteq Files
    BY <1>1, <1>3 DEF Live
  <2>. QED BY <2>1 DEF LiveMembers, FiledupMember
<1>5. ASSUME NEW o \in Copies(g)', seq'[o] <= durable
      PROVE  o \in Copies(g) /\ o \in Files /\ o \notin new /\ seq[o] = seq'[o]
  <2>1. o \in LiveMembers(g)' /\ o \in Files
    BY <1>5, ConstantsOK DEF Copies, Kinds, LiveMembers, Live
  <2>2. o \notin new
    BY <1>1, <1>2, <1>3, <1>5, <2>1
  <2>3. o \in LiveMembers(g)
    BY <1>1, <2>1, <2>2 DEF LiveMembers, Live
  <2>. QED BY <1>1, <1>4, <1>5, <2>1, <2>2, <2>3, ConstantsOK DEF Copies, Kinds
<1>6. /\ f \in Copies(g) /\ t \in Copies(g) /\ seq[f] <= durable /\ seq[t] <= durable
      /\ seq[t] = seq'[t] /\ t \in Files /\ t \notin new /\ f \in Files
  BY <1>5
<1>7. PICK l \in Copies(g) : Leads(g, l)
  BY <1>6, SomeLeads DEF Whole, Loads
<1>8. l \in Files /\ l \in LiveMembers(g) /\ seq[l] > 0 /\ l \notin new /\ seq'[l] = seq[l]
  BY <1>1, <1>7, <1>3, CopiesRows
<1>9. Loads(g) /\ (Kind[g] = "extent" => seq[l] <= seq[t])
  BY <1>3, <1>6, <1>7, <1>8 DEF Leads, OlderRow, Whole, Loads
<1>10. CASE l \in Copies(g)'
  <2>1. l = t
    <3>1. CASE Kind[g] = "file"
      <4>1. Rank[l] <= Rank[t] /\ Rank[t] <= Rank[l] /\ Rank[l] \in Nat /\ Rank[t] \in Nat
        BY <1>6, <1>7, <1>8, <1>10, <3>1, ConstantsOK DEF Leads
      <4>. QED BY <1>6, <1>8, <4>1, ConstantsOK
    <3>2. CASE Kind[g] = "extent"
      <4>1. OlderRow(l, t) /\ OlderRow(t, l)'
        BY <1>6, <1>7, <1>10, <3>2 DEF Leads
      <4>2. l \in Nat /\ t \in Nat
        BY <1>6, <1>8, ConstantsOK DEF Files
      <4>. QED BY <1>3, <1>6, <1>8, <4>1, <4>2 DEF OlderRow
    <3>. QED BY <1>9, <3>1, <3>2 DEF Loads
  <2>2. Tied(g, f, t)
    <3>1. CASE ~Apart(g)
      BY <1>6, <1>7, <1>9, <2>1, <3>1 DEF Gathered, Whole
    <3>2. CASE Apart(g)
      <4>1. Apart(g)'
        BY <1>2, <1>4, <3>2 DEF Apart
      <4>. QED BY <4>1 DEF Whole
    <3>. QED BY <3>1, <3>2
  <2>. QED BY <1>2, <2>2 DEF Tied
<1>11. CASE l \notin Copies(g)'
  <2>1. Kind[g] = "extent" /\ FiledupMember(l)'
    <3>1. Kind[g] # "file"
      BY <1>4, <1>8, <1>11 DEF Copies
    <3>2. l \in extents
      BY <1>7, <1>9, <3>1 DEF Copies, Loads
    <3>. QED BY <1>1, <1>4, <1>8, <1>9, <1>11, <3>1, <3>2 DEF Copies, Loads
  <2>2. \A o \in Files : <<g, o>> \notin refused
    BY <1>2, <1>4, <1>8, <2>1 DEF Whole, Apart
  <2>3. seq[l] <= durable
    BY <1>2, <1>3, <1>6, <1>8, <1>9, <2>1
  <2>4. Tied(g, f, l) /\ Tied(g, t, l)
    <3>1. Whole(g)
      BY <1>9, <2>2 DEF Whole, Apart
    <3>. QED BY <1>6, <1>7, <2>3, <3>1 DEF Gathered
  <2>. QED BY <1>2, <1>6, <2>2, <2>4 DEF Tied
<1>. QED BY <1>10, <1>11

LEMMA DurableStep ==
    ASSUME [Next]_vars
    PROVE  \/ durable' = durable
           \/ Reap /\ ~watermark_frozen' /\ durable' = Capped(Front)
<1>1. CASE Reap
  BY <1>1 DEF Reap, FreeBatch, AdvanceSeq
<1>2. CASE LoadSameFiles \/ LoadExtentHashes
  BY <1>2 DEF LoadSameFiles, LoadExtentHashes, Load
<1>3. CASE Producer
  BY <1>1, <1>2, <1>3 DEF Producer, LoopHead, Wait, AwaitSlot, Drain, SearchDone, HoldFilerecs,
     PushItem, FilesPushed, ExtentsPushed, SealBatch, EndRun, NextWindow, LoadBlockHashes
<1>. QED BY <1>3 DEF Next, StartRun, Searcher, SearchFile, Environment, Interrupt, Kill, Delete,
     Worker, TakeItem, SkipItem, DedupeMember, FinishItem, Finished

LEMMA GatheredStep ==
    ASSUME TypeOK, Phase, Memory, Scope, Targets, Conv, [Next]_vars
    PROVE  Gathered'
<1>1. CASE StartRun
  BY <1>1, GatheredStart DEF Conv
<1>2. ASSUME ~StartRun, gone' = {}, NEW g \in Groups, Whole(g)', NEW t \in Copies(g)',
             NEW f \in Copies(g)', Leads(g, t)', seq'[f] <= durable', seq'[t] <= durable'
      PROVE  Tied(g, f, t)'
  <2>1. /\ gone = {} /\ seq' = seq /\ Whole(g) /\ Leads(g, t)
        /\ t \in Copies(g) /\ f \in Copies(g)
    BY <1>2, LeadsStep
  <2>2. seq[f] \in Nat /\ seq[t] \in Nat
    BY <2>1, CopiesRows
  <2>3. Tied(g, f, t)
    <3>1. CASE durable' = durable
      BY <1>2, <2>1, <3>1 DEF Conv, Gathered
    <3>2. CASE Reap /\ ~watermark_frozen' /\ durable' = Capped(Front)
      <4>1. Due(f, t) \in Nat /\ Due(f, t) <= Capped(Front) /\ Running
        BY <1>2, <2>1, <2>2, <3>2 DEF Due, Reap, Reaping, Running
      <4>2. Due(f, t) <= Loaded(g) /\ ~Pending(g, f, Due(f, t))
        BY <3>2, <4>1, ReapedPast
      <4>. QED BY <2>1, <4>1, <4>2 DEF Conv, Progress
    <3>. QED BY <1>2, <3>1, <3>2, DurableStep
  <2>. QED BY <2>1, <2>3, LedStep DEF Conv, Whole
<1>. QED BY <1>1, <1>2 DEF Gathered

\* A load that comes to its end leaves no copy behind that the window has
\* brought together with its leader.
LEMMA LoadTies ==
    ASSUME TypeOK, Phase, Start, pc \in InWindow, NEW g \in Groups, NEW t \in Copies(g),
           NEW f \in Copies(g), Leads(g, t), lo < Due(f, t), Due(f, t) <= Hi
    PROVE  /\ Kind[g] = "file" => f = t \/ Covers(SameFiles(lo, Hi), g, f)
           /\ Kind[g] = "extent" => f = t \/ Covers(ExtentHashes(lo, Hi), g, f)
<1>1. /\ f \in Files /\ t \in Files /\ seq[f] \in Nat /\ seq[t] \in Nat /\ seq[f] > 0
      /\ seq[t] > 0 /\ f \in Members[g] /\ t \in Members[g] /\ Rank[t] \in Nat
  BY CopiesRows
<1>2. lo \in Nat /\ Hi \in Nat /\ first_seq \in Nat /\ first_seq <= lo
  BY HiType, ConstantsOK DEF Start, Running, InWindow, Loading, TypeOK, Seqs
<1>3. ASSUME Kind[g] = "file", f # t PROVE Covers(SameFiles(lo, Hi), g, f)
  <2>1. SameFilesTarget(g) = t
    <3>1. Copies(g) \in SUBSET Files /\ Copies(g) # {}
      BY CopiesRows
    <3>2. /\ SameFilesTarget(g) \in Copies(g) /\ SameFilesTarget(g) \in Files
          /\ \A o \in Copies(g) : Rank[SameFilesTarget(g)] <= Rank[o]
      BY <3>1, RankFirstIn DEF SameFilesTarget
    <3>3. Rank[SameFilesTarget(g)] \in Nat
      BY <3>2, ConstantsOK
    <3>4. Rank[SameFilesTarget(g)] = Rank[t]
      BY <1>1, <1>3, <3>2, <3>3 DEF Leads
    <3>. QED BY <1>1, <3>2, <3>4, ConstantsOK
  <2>2. New(g, lo, Hi) # {} /\ f \in SameFilesRows(g, lo, Hi)
    <3>1. CASE seq[f] <= first_seq
      BY <1>1, <2>1, <3>1 DEF Due, SameFilesRows, UpTo, New, Window, Live
    <3>2. CASE ~(seq[f] <= first_seq)
      BY <1>1, <3>2 DEF Due, SameFilesRows, New, Window, Live
    <3>. QED BY <3>1, <3>2
  <2>3. Item(g, t, SameFilesRows(g, lo, Hi), Hi) \in SameFiles(lo, Hi)
    BY <1>3, <2>1, <2>2 DEF SameFiles
  <2>. QED BY <2>2, <2>3 DEF Covers, Item
<1>4. ASSUME Kind[g] = "extent" PROVE f = t \/ Covers(ExtentHashes(lo, Hi), g, f)
  <2>1. seq[t] <= seq[f]
    BY <1>1, <1>4 DEF Leads, OlderRow
  <2>2. Due(f, t) = seq[f]
    BY <1>1, <1>2, <2>1 DEF Due
  <2>3. f \in Window(lo, Hi)
    BY <1>1, <2>2 DEF Window, Live
  <2>4. t \in UpTo(g, Hi)
    BY <1>1, <1>2, <2>1, <2>2 DEF UpTo
  <2>5. <<g, f>> \in NothingToDo("extent", lo, Hi) \/ Covers(ExtentHashes(lo, Hi), g, f)
    BY <1>1, <1>4, <2>3, LoadsComplete
  <2>. QED BY <1>4, <2>4, <2>5 DEF NothingToDo
<1>. QED BY <1>3, <1>4

LEMMA ProgressStep ==
    ASSUME TypeOK, Phase, Memory, Scope, Targets, Conv, Gathered', [Next]_vars
    PROVE  Progress'
<1>1. CASE StartRun
  <2>. SUFFICES ASSUME gone' = {}, NEW g \in Groups, Whole(g)', NEW t \in Copies(g)',
                       NEW f \in Copies(g)', Leads(g, t)', Due(f, t)' <= Loaded(g)'
                PROVE  Tied(g, f, t)'
    BY DEF Progress
  <2>1. Loaded(g)' = durable' /\ first_seq' = durable'
    BY <1>1 DEF StartRun, Loaded, AllLoaded, FilesLoaded
  <2>2. seq'[f] <= durable' /\ seq'[t] <= durable'
    <3>1. durable' \in Nat /\ seq'[f] \in Nat /\ seq'[t] \in Nat
      <4>1. f \in Files /\ t \in Files
        BY ConstantsOK DEF Copies, Kinds, LiveMembers, Live
      <4>. QED BY <1>1, <4>1, StartRunScan, ConstantsOK DEF TypeOK
    <3>. QED BY <2>1, <3>1 DEF Due
  <2>. QED BY <2>2 DEF Gathered
<1>2. ASSUME ~StartRun, Running', gone' = {}, NEW g \in Groups, Whole(g)', NEW t \in Copies(g)',
             NEW f \in Copies(g)', Leads(g, t)', Due(f, t)' <= Loaded(g)'
      PROVE  Tied(g, f, t)' \/ Pending(g, f, Due(f, t))'
  <2>1. /\ gone = {} /\ seq' = seq /\ Whole(g) /\ Leads(g, t) /\ Loads(g)
        /\ t \in Copies(g) /\ f \in Copies(g)
    BY <1>2, LeadsStep DEF Whole
  <2>2. PICK d : d = Due(f, t)
    OBVIOUS
  <2>3. Running /\ Due(f, t)' = d
    BY <1>2, <2>1, <2>2, RunningStep, WindowStep DEF Due
  <2>4. f \in Files /\ t \in Files /\ d \in Nat /\ d <= max
    BY <2>1, <2>2, <2>3, CopiesRows DEF Due, Phase
  <2>5. CASE f = t
    BY <2>5 DEF Tied
  <2>6. CASE d <= Loaded(g)
    <3>1. CASE Tied(g, f, t)
      BY <2>1, <3>1, LedStep DEF Conv
    <3>2. CASE Pending(g, f, d)
      <4>1. CASE Pending(g, f, d)'
        BY <2>3, <4>1
      <4>2. ASSUME NEW w \in Workers, FinishItem(w), job[w].g = g, f \in job[w].ms
            PROVE  Tied(g, f, t)
        <5>1. job[w] # NoWork /\ job[w] \in InFlight /\ todo[w] = {}
          BY <4>2 DEF FinishItem, InFlight
        <5>2. job[w].tgt = t /\ Kind[g] # "block"
          BY <2>1, <4>2, <5>1, ItemLeads, OneLeads DEF Loads
        <5>. QED BY <2>1, <4>2, <5>1, <5>2 DEF Conv, AtDone
      <4>. QED BY <1>2, <2>1, <2>4, <3>2, <4>1, <4>2, PendingStep, LedStep DEF Conv
    <3>. QED BY <2>1, <2>2, <2>3, <2>6, <3>1, <3>2 DEF Conv, Progress
  <2>7. CASE LoadSameFiles /\ Kind[g] = "file" /\ lo < d /\ d <= Hi /\ f # t
    <3>1. /\ pc \in InWindow /\ pc \in Loading /\ pc # "sealed" /\ "hold_files" \in Loading
          /\ Load("file", SameFiles(lo, Hi), "hold_files")
      BY <2>7 DEF LoadSameFiles, InWindow, Loading
    <3>2. Covers(SameFiles(lo, Hi), g, f)
      BY <2>1, <2>2, <2>7, <3>1, LoadTies DEF Conv
    <3>. QED BY <2>3, <2>4, <2>7, <3>1, <3>2, PendingLoaded
  <2>8. CASE LoadExtentHashes /\ Kind[g] = "extent" /\ lo < d /\ d <= Hi /\ f # t
    <3>1. PICK next \in Loading : Load("extent", ExtentHashes(lo, Hi), next)
      BY <2>8 DEF LoadExtentHashes, Loading
    <3>2. pc \in InWindow /\ pc \in Loading /\ pc # "sealed"
      BY <2>8 DEF LoadExtentHashes, InWindow, Loading
    <3>3. Covers(ExtentHashes(lo, Hi), g, f)
      BY <2>1, <2>2, <2>8, <3>2, LoadTies DEF Conv
    <3>. QED BY <2>3, <2>4, <2>8, <3>1, <3>2, <3>3, PendingLoaded
  <2>. QED BY <1>2, <2>1, <2>3, <2>4, <2>5, <2>6, <2>7, <2>8, LoadedStep
<1>. QED BY <1>1, <1>2 DEF Progress

LEMMA EndedStep ==
    ASSUME TypeOK, Phase, Memory, Scope, Targets, Exit, Conv, [Next]_vars
    PROVE  Ended'
<1>. SUFFICES ASSUME CleanExit', gone' = {}, NEW g \in Groups, Whole(g)', NEW t \in Copies(g)',
                     NEW f \in Copies(g)', Leads(g, t)'
              PROVE  Tied(g, f, t)'
  BY DEF Ended
<1>1. ~StartRun
  BY DEF CleanExit, StartRun
<1>2. /\ gone = {} /\ seq' = seq /\ Whole(g) /\ Leads(g, t) /\ Loads(g)
      /\ t \in Copies(g) /\ f \in Copies(g)
  BY <1>1, LeadsStep DEF Whole
<1>3. CASE EndRun
  <2>1. /\ pc = "end" /\ inflight = {} /\ ~interrupted /\ load_failed_at = NoFailure
        /\ open_batch = NoBatch /\ Running /\ Loaded(g) = lo
    BY <1>3 DEF EndRun, Blocked, CleanExit, Phase, Loading, Running, Loaded, AllLoaded, FilesLoaded
  <2>2. max <= lo /\ ~watermark_frozen /\ lo \in Nat /\ max \in Nat
    BY <2>1, ConstantsOK DEF Exit, TypeOK
  <2>3. Due(f, t) \in Nat /\ Due(f, t) <= max
    BY <1>2, <2>1, CopiesRows DEF Due, Phase
  <2>4. ~Pending(g, f, Due(f, t))
    BY <2>1, <2>2 DEF Pending, Excused, OpenBatch
  <2>5. Tied(g, f, t)
    BY <1>2, <2>1, <2>2, <2>3, <2>4 DEF Conv, Progress
  <2>. QED BY <1>2, <2>5, LedStep DEF Conv
<1>4. CASE ~EndRun
  <2>1. CleanExit
    <3>1. CASE LoadSameFiles \/ LoadExtentHashes
      BY <3>1 DEF LoadSameFiles, LoadExtentHashes, Load, CleanExit
    <3>2. CASE Producer
      BY <1>4, <3>1, <3>2 DEF Producer, LoopHead, Reap, Reaping, Wait, AwaitSlot, Drain,
         SearchDone, HoldFilerecs, PushItem, FilesPushed, ExtentsPushed, SealBatch, NextWindow,
         LoadBlockHashes, CleanExit
    <3>3. CASE Interrupt \/ Kill
      BY <3>3 DEF Interrupt, Kill, Running, CleanExit
    <3>4. CASE Searcher \/ (\E o \in Files : Delete(o)) \/ UNCHANGED vars
      BY <3>4 DEF Searcher, SearchFile, Delete, CleanExit
    <3>5. CASE \E w \in Workers : Worker(w)
      BY <3>5 DEF Worker, TakeItem, SkipItem, DedupeMember, FinishItem, CleanExit
    <3>. QED BY <1>1, <3>2, <3>3, <3>4, <3>5 DEF Next, Environment, Finished
  <2>2. Tied(g, f, t)
    BY <1>2, <2>1 DEF Conv, Ended
  <2>. QED BY <1>2, <2>2, LedStep DEF Conv
<1>. QED BY <1>3, <1>4

LEMMA InitConv == Init => Conv
<1>. SUFFICES ASSUME Init PROVE Conv
  OBVIOUS
<1>1. pc = "dead" /\ \A w \in Workers : job[w] = NoWork
  BY DEF Init
<1>2. Live = {}
  BY DEF Init, Live
<1>3. \A g \in Groups : Copies(g) = {}
  BY <1>2, ConstantsOK DEF Copies, LiveMembers, Kinds
<1>4. Start
  BY <1>1 DEF Init, Start, Running
<1>. QED BY <1>1, <1>3, <1>4 DEF Conv, AtDone, Gathered, Progress, Ended, Running

LEMMA ConvStep ==
    ASSUME TypeOK, Phase, Memory, Scope, Targets, Exit, Conv, [Next]_vars PROVE Conv'
BY StartStep, AtDoneStep, GatheredStep, ProgressStep, EndedStep DEF Conv

\* All copies of a group are tied to the leader, so any two are together.
LEMMA EndedTogether == ASSUME TypeOK, Ended PROVE Convergence
<1>. SUFFICES ASSUME CleanExit, gone = {}, NEW g \in Groups, Whole(g),
                     NEW a \in Copies(g), NEW b \in Copies(g)
              PROVE  <<g, a>> \in refused \/ <<g, b>> \in refused \/ storage[g][a] = storage[g][b]
  BY DEF Convergence, Together, Whole, Loads
<1>1. PICK t \in Copies(g) : Leads(g, t)
  BY SomeLeads DEF Whole, Loads
<1>2. Tied(g, a, t) /\ Tied(g, b, t)
  BY <1>1 DEF Ended
<1>. QED BY <1>2 DEF Tied

\* After such a run the copies of a group are on one copy's storage, for any
\* number of runs, windows and workers and whatever happened to earlier runs.
THEOREM ConvergenceTheorem == Spec => []Convergence
<1>1. /\ IInv /\ Memory /\ Scope /\ Targets /\ Exit /\ Conv /\ [Next]_vars
      => (Memory /\ Scope /\ Targets /\ Exit /\ Conv)'
  BY MemoryStep, ScopeStep, TargetsStep, ExitStep, ConvStep DEF IInv
<1>2. TypeOK /\ Conv => Convergence
  BY EndedTogether DEF Conv
<1>. QED BY InitMemory, InitScope, InitTargets, InitExit, InitConv, <1>1, <1>2, InvariantHolds,
     PTL DEF Spec, IInv

=============================================================================
