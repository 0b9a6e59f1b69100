----------------------------- MODULE DedupeGroup -----------------------------
(***************************************************************************)
(* dedupe_extent_list() of run_dedupe.c: a worker takes the members of one *)
(* group in order, opens each, elects the first usable one as target,      *)
(* queues the others into an ioctl context, runs the context when it is    *)
(* full or the list ends, closes everything and reopens the target for the *)
(* next context.                                                           *)
(*                                                                         *)
(* Workers on different groups share filerecs, and with them one file      *)
(* descriptor and its count fd_refs, taken under filerec_fd_mutex in one   *)
(* step each.  Files are deleted, become unreadable or change at any time. *)
(* An ioctl context is one step: DedupeIoctl shows that each request comes *)
(* back exactly once.                                                      *)
(***************************************************************************)
EXTENDS Integers, FiniteSets, FiniteSetsExt, Sequences

CONSTANTS
    Workers,        \* threads of the dedupe pool, each with one group
    Files,          \* filerecs
    Group,          \* a worker's de_extents: the file of each member, in order
    WholeFile,      \* workers whose group is of whole files
    MaxPerIoctl,    \* MAX_DEDUPES_PER_IOCTL
    MaxFaults       \* bound on deleted, changed and failing files

ASSUME GroupsOK ==
    /\ IsFiniteSet(Workers)
    /\ Group \in [Workers -> Seq(Files)]
    /\ \A w \in Workers : Len(Group[w]) >= 2
    /\ WholeFile \subseteq Workers
    /\ MaxPerIoctl \in Nat /\ MaxPerIoctl >= 2
    /\ MaxFaults \in Nat

Members(w) == DOMAIN Group[w]

VARIABLES
    \* The filesystem, the hashfile, and the faults so far.
    gone, changed, rows, faults,
    \* struct filerec
    fd,         \* files whose fd is not -1
    fd_refs,
    \* Locals of a worker in dedupe_extent_list.
    pc,
    list,       \* dext->de_extents: indices of the members still on it
    pos,        \* extent: the member the loop is at
    tgt,        \* tgt_extent, 0 for NULL
    ctxt,       \* workers with an ioctl context
    queued,     \* requests of the context
    open_files, \* the files held open: the open_once list, or the rescan's one
    no_memory,  \* workers that ran out of memory
    \* How often each member was accounted for in the results.
    accounted

disk == <<gone, changed, rows, faults>>
fds == <<fd, fd_refs>>
loop == <<list, pos, tgt>>
vars == <<disk, fds, pc, loop, ctxt, queued, open_files, no_memory, accounted>>

Init ==
    /\ gone = {} /\ changed = {} /\ rows = Files /\ faults = 0
    /\ fd = {} /\ fd_refs = [f \in Files |-> 0]
    /\ pc = [w \in Workers |-> "begin"]
    /\ list = [w \in Workers |-> Members(w)]
    /\ pos = [w \in Workers |-> 1] /\ tgt = [w \in Workers |-> 0]
    /\ ctxt = {} /\ queued = [w \in Workers |-> {}]
    /\ open_files = [w \in Workers |-> {}] /\ no_memory = {}
    /\ accounted = [w \in Workers |-> [i \in Members(w) |-> 0]]

-----------------------------------------------------------------------------
(***************************************************************************)
(* Opening and closing filerecs.                                           *)
(***************************************************************************)

\* filerec_open_once succeeds: the file is open in this list already, or some
\* worker has it open, or it still exists.
OpenOnce(w, f) ==
    IF f \in open_files[w] THEN UNCHANGED <<fds, open_files>>
    ELSE /\ f \notin gone \/ fd_refs[f] > 0
         /\ fd' = fd \cup {f}
         /\ fd_refs' = [fd_refs EXCEPT ![f] = @ + 1]
         /\ open_files' = [open_files EXCEPT ![w] = @ \cup {f}]

\* filerec_open_once fails with ENOENT.
NotThere(w, f) == f \notin open_files[w] /\ f \in gone /\ fd_refs[f] = 0

\* filerec_open_once fails otherwise: open(2) or out of memory.
Unusable(w, f) ==
    /\ f \notin open_files[w]
    /\ faults < MaxFaults /\ faults' = faults + 1

\* One turn of filerec_close_open_list.
CloseOne(w, f) ==
    /\ f \in open_files[w]
    /\ fd_refs' = [fd_refs EXCEPT ![f] = @ - 1]
    /\ fd' = IF fd_refs'[f] = 0 THEN fd \ {f} ELSE fd
    /\ open_files' = [open_files EXCEPT ![w] = @ \ {f}]

-----------------------------------------------------------------------------
(***************************************************************************)
(* The loop over the members.                                              *)
(***************************************************************************)

FileAt(w) == Group[w][pos[w]]
GoTo(w, label) == pc' = [pc EXCEPT ![w] = label]
Account(w, ms) == accounted' = [accounted EXCEPT ![w] =
                    [i \in Members(w) |-> IF i \in ms THEN @[i] + 1 ELSE @[i]]]
Rest(w) == {i \in list[w] : i > pos[w]}
Last(w) == Rest(w) = {}

\* On to the next member, or out of the loop.
Continue(w) ==
    IF Last(w) THEN GoTo(w, "leave") /\ UNCHANGED pos
    ELSE GoTo(w, "open") /\ pos' = [pos EXCEPT ![w] = Min(Rest(w))]

\* A member is passed over: what was queued before a last one is still run.
PassOver(w) ==
    IF w \in ctxt /\ Last(w) THEN GoTo(w, "run") /\ UNCHANGED pos ELSE Continue(w)

\* clean_deduped: members stored on the target's extent are taken off the list,
\* and a group left with less than two is freed.
CleanDeduped(w) ==
    /\ pc[w] = "begin"
    /\ \E culled \in IF w \in WholeFile THEN {{}} ELSE SUBSET (list[w] \ {1}) :
        LET left == list[w] \ culled
        IN  IF Cardinality(left) < 2
            THEN list' = [list EXCEPT ![w] = {}] /\ GoTo(w, "done")
            ELSE list' = [list EXCEPT ![w] = left] /\ GoTo(w, "open")
    /\ UNCHANGED <<disk, fds, pos, tgt, ctxt, queued, open_files, no_memory,
                   accounted>>

\* The next member is opened; a deleted one leaves the hashfile.
OpenMember(w) ==
    /\ pc[w] = "open"
    /\ LET f == FileAt(w)
       IN  \/ /\ OpenOnce(w, f) /\ GoTo(w, "stat")
              /\ UNCHANGED <<rows, faults, pos, accounted>>
           \/ /\ NotThere(w, f) /\ rows' = rows \ {f}
              /\ Account(w, {pos[w]}) /\ PassOver(w)
              /\ UNCHANGED <<faults, fds, open_files>>
           \/ /\ Unusable(w, f) /\ Account(w, {pos[w]}) /\ PassOver(w)
              /\ UNCHANGED <<rows, fds, open_files>>
    /\ UNCHANGED <<gone, changed, list, tgt, ctxt, queued, no_memory>>

\* fstat: one that changed since the scan is passed over, and stays open.
StatMember(w) ==
    /\ pc[w] = "stat"
    /\ IF FileAt(w) \in changed THEN Account(w, {pos[w]}) /\ PassOver(w)
       ELSE GoTo(w, "place") /\ UNCHANGED <<pos, accounted>>
    /\ UNCHANGED <<disk, fds, list, tgt, ctxt, queued, open_files, no_memory>>

\* The first usable member is the target, unless it is the last; a new context
\* starts with the target chosen before.
Place(w) ==
    /\ pc[w] = "place"
    /\ IF w \in ctxt THEN GoTo(w, "map") /\ UNCHANGED <<pos, tgt, ctxt, accounted>>
       ELSE IF tgt[w] # 0
       THEN GoTo(w, "map") /\ ctxt' = ctxt \cup {w} /\ UNCHANGED <<pos, tgt, accounted>>
       ELSE /\ Account(w, {pos[w]})
            /\ IF Last(w) THEN GoTo(w, "close") /\ UNCHANGED <<pos, tgt, ctxt>>
               ELSE /\ tgt' = [tgt EXCEPT ![w] = pos[w]] /\ ctxt' = ctxt \cup {w}
                    /\ Continue(w)
    /\ UNCHANGED <<disk, fds, list, queued, open_files, no_memory>>

\* ctxt->max_queable.
MaxQueable(w) == Min({Cardinality(list[w]), MaxPerIoctl}) - 1

\* add_extent_to_dedupe has no room left.
Full(w, q) == Cardinality(q) >= MaxQueable(w)

\* The member's extent map: one that shares the target's storage is passed over,
\* another is queued, and a full context or the last member runs the ioctl.
MapMember(w) ==
    /\ pc[w] = "map"
    /\ \/ Account(w, {pos[w]}) /\ PassOver(w) /\ UNCHANGED queued
       \/ /\ queued' = [queued EXCEPT ![w] = @ \cup {pos[w]}]
          /\ IF Full(w, queued'[w]) \/ Last(w) THEN GoTo(w, "run") /\ UNCHANGED pos
             ELSE Continue(w)
          /\ UNCHANGED accounted
    /\ UNCHANGED <<disk, fds, list, tgt, ctxt, open_files, no_memory>>

\* Out of memory for a context or a request: the group is given up.
OutOfMemory(w) ==
    /\ pc[w] = "map" \/ (pc[w] = "place" /\ w \notin ctxt /\ (tgt[w] # 0 \/ ~Last(w)))
    /\ faults < MaxFaults /\ faults' = faults + 1
    /\ no_memory' = no_memory \cup {w} /\ GoTo(w, "out")
    /\ tgt' = [tgt EXCEPT ![w] = IF @ = 0 THEN pos[w] ELSE @]
    /\ UNCHANGED <<gone, changed, rows, fds, list, pos, ctxt, queued, open_files, accounted>>

\* run_dedupe: the ioctl hands every request back, and its result is counted.
RunIoctl(w) ==
    /\ pc[w] = "run"
    /\ Account(w, queued[w]) /\ queued' = [queued EXCEPT ![w] = {}]
    /\ GoTo(w, "close")
    /\ UNCHANGED <<disk, fds, loop, ctxt, open_files, no_memory>>

\* filerec_close_open_list: after a context, after the loop, when giving up.
CloseFile(w, f) ==
    /\ pc[w] \in {"close", "leave", "out"}
    /\ CloseOne(w, f)
    /\ UNCHANGED <<disk, pc, loop, ctxt, queued, no_memory, accounted>>

\* close_files: the context goes when its files are closed.
FreeContext(w) ==
    /\ pc[w] = "close" /\ open_files[w] = {}
    /\ ctxt' = ctxt \ {w}
    /\ GoTo(w, IF Last(w) THEN "leave" ELSE "reopen")
    /\ UNCHANGED <<disk, fds, loop, queued, open_files, no_memory, accounted>>

\* Mutant of Reopen: the members that are dropped are not counted.
Reopen_DropSilently(w) ==
    /\ pc[w] = "reopen"
    /\ LET f == Group[w][tgt[w]]
       IN  \/ OpenOnce(w, f) /\ Continue(w) /\ UNCHANGED faults
           \/ /\ \/ NotThere(w, f) /\ UNCHANGED faults
                 \/ Unusable(w, f)
              /\ GoTo(w, "leave")
              /\ UNCHANGED <<pos, fds, open_files>>
    /\ UNCHANGED <<gone, changed, rows, list, tgt, ctxt, queued, no_memory, accounted>>

\* Mutant of Reopen: a target that cannot be opened is tried again.
Reopen_Again(w) ==
    /\ pc[w] = "reopen"
    /\ LET f == Group[w][tgt[w]]
       IN  \/ OpenOnce(w, f) /\ Continue(w) /\ UNCHANGED <<faults, accounted>>
           \/ /\ \/ NotThere(w, f) /\ UNCHANGED faults
                 \/ Unusable(w, f)
              /\ GoTo(w, "close")
              /\ UNCHANGED <<pos, fds, open_files, accounted>>
    /\ UNCHANGED <<gone, changed, rows, list, tgt, ctxt, queued, no_memory>>

\* Mutant of Reopen: the target is thought to be open still.
Reopen_Not(w) ==
    /\ pc[w] = "reopen"
    /\ Continue(w)
    /\ UNCHANGED <<faults, accounted, fds, open_files, gone, changed, rows, list, tgt, ctxt,
                   queued, no_memory>>

\* The target is opened again for the next context; if that fails, the members
\* not yet reached are counted as failed.
Reopen(w) ==
    /\ pc[w] = "reopen"
    /\ LET f == Group[w][tgt[w]]
       IN  \/ OpenOnce(w, f) /\ Continue(w) /\ UNCHANGED <<faults, accounted>>
           \/ /\ \/ NotThere(w, f) /\ UNCHANGED faults
                 \/ Unusable(w, f)
              /\ Account(w, Rest(w)) /\ GoTo(w, "leave")
              /\ UNCHANGED <<pos, fds, open_files>>
    /\ UNCHANGED <<gone, changed, rows, list, tgt, ctxt, queued, no_memory>>

\* Mutant of Leave (#392): what the loop left open stays open.
Leave_Open(w) ==
    /\ pc[w] = "leave"
    /\ GoTo(w, "returned")
    /\ UNCHANGED <<disk, fds, loop, ctxt, queued, open_files, no_memory, accounted>>

\* After the loop everything is closed, and dedupe_extent_list asserts so.
Leave(w) ==
    /\ pc[w] = "leave" /\ open_files[w] = {}
    /\ GoTo(w, "returned")
    /\ UNCHANGED <<disk, fds, loop, ctxt, queued, open_files, no_memory, accounted>>

\* out: a group given up frees its context.
GiveUp(w) ==
    /\ pc[w] = "out" /\ open_files[w] = {}
    /\ ctxt' = ctxt \ {w} /\ queued' = [queued EXCEPT ![w] = {}]
    /\ GoTo(w, "done")
    /\ UNCHANGED <<disk, fds, loop, open_files, no_memory, accounted>>

-----------------------------------------------------------------------------
(***************************************************************************)
(* extent_dedupe_worker: the rescan of the members of an extent group.     *)
(***************************************************************************)

StartRescan(w) ==
    /\ pc[w] = "returned"
    /\ IF w \in WholeFile THEN GoTo(w, "done") /\ UNCHANGED pos
       ELSE GoTo(w, "rescan") /\ pos' = [pos EXCEPT ![w] = Min(list[w])]
    /\ UNCHANGED <<disk, fds, list, tgt, ctxt, queued, open_files, no_memory, accounted>>

\* On to the next member, or to the commit.
NextRescan(w) ==
    IF Last(w) THEN GoTo(w, "done") /\ UNCHANGED pos
    ELSE GoTo(w, "rescan") /\ pos' = [pos EXCEPT ![w] = Min(Rest(w))]

\* fiemap_scan_extent opens the member, and closes it after the fiemap.
RescanOpen(w) ==
    /\ pc[w] = "rescan"
    /\ LET f == FileAt(w)
       IN  \/ OpenOnce(w, f) /\ GoTo(w, "rescanning") /\ UNCHANGED <<faults, pos>>
           \/ /\ \/ NotThere(w, f) /\ UNCHANGED faults
                 \/ fd_refs[f] = 0 /\ Unusable(w, f)
              /\ NextRescan(w) /\ UNCHANGED <<fds, open_files>>
    /\ UNCHANGED <<gone, changed, rows, list, tgt, ctxt, queued, no_memory, accounted>>

RescanClose(w) ==
    /\ pc[w] = "rescanning"
    /\ CloseOne(w, FileAt(w)) /\ NextRescan(w)
    /\ UNCHANGED <<disk, list, tgt, ctxt, queued, no_memory, accounted>>

-----------------------------------------------------------------------------

\* The user deletes or rewrites a file.
Touch(f) ==
    /\ faults < MaxFaults /\ faults' = faults + 1
    /\ \/ gone' = gone \cup {f} /\ UNCHANGED changed
       \/ changed' = changed \cup {f} /\ UNCHANGED gone
    /\ UNCHANGED <<rows, fds, pc, loop, ctxt, queued, open_files, no_memory, accounted>>

Finished == (\A w \in Workers : pc[w] = "done") /\ UNCHANGED vars

Work(w) ==
    \/ CleanDeduped(w) \/ OpenMember(w) \/ StatMember(w) \/ Place(w) \/ MapMember(w)
    \/ OutOfMemory(w) \/ RunIoctl(w) \/ FreeContext(w) \/ Reopen(w) \/ Leave(w) \/ GiveUp(w)
    \/ StartRescan(w) \/ RescanOpen(w) \/ RescanClose(w)
    \/ \E f \in Files : CloseFile(w, f)

Next == \/ Finished
        \/ \E w \in Workers : Work(w)
        \/ \E f \in Files : Touch(f)

Spec == Init /\ [][Next]_vars
FairSpec == Spec /\ \A w \in Workers : WF_vars(Work(w))

-----------------------------------------------------------------------------
(***************************************************************************)
(* What the loop promises.                                                 *)
(***************************************************************************)

Labels == {"begin", "open", "stat", "place", "map", "run", "close", "reopen", "leave", "out",
           "returned", "rescan", "rescanning", "done"}

\* The type of every variable.
TypeOK ==
    /\ gone \subseteq Files /\ changed \subseteq Files /\ rows \subseteq Files
    /\ faults \in Nat /\ fd \subseteq Files /\ fd_refs \in [Files -> Nat]
    /\ pc \in [Workers -> Labels]
    /\ list \in [Workers -> SUBSET Nat] /\ \A w \in Workers : list[w] \subseteq Members(w)
    /\ pos \in [Workers -> Nat] /\ \A w \in Workers : pos[w] \in Members(w)
    /\ tgt \in [Workers -> Nat] /\ \A w \in Workers : tgt[w] \in Members(w) \cup {0}
    /\ ctxt \subseteq Workers /\ no_memory \subseteq Workers
    /\ queued \in [Workers -> SUBSET Nat]
    /\ \A w \in Workers : queued[w] \subseteq Members(w)
    /\ open_files \in [Workers -> SUBSET Files]
    /\ accounted = [w \in Workers |-> accounted[w]]
    /\ \A w \in Workers : accounted[w] \in [Members(w) -> Nat]

\* The descriptor of a file is open as long as somebody counts on it, and
\* fd_refs is how many do: no abort of filerec_open or filerec_close is reached,
\* and no descriptor is left open.
FdsCounted ==
    \A f \in Files :
        /\ fd_refs[f] = Cardinality({w \in Workers : f \in open_files[w]})
        /\ f \in fd <=> fd_refs[f] > 0

\* The files a worker is about to use.
Using(w) ==
    CASE pc[w] \in {"stat", "place", "rescanning"} -> {pos[w]}
      [] pc[w] = "map" -> {pos[w], tgt[w]} \cup queued[w]
      [] pc[w] = "run" -> IF queued[w] = {} THEN {} ELSE {tgt[w]} \cup queued[w]
      [] OTHER -> {}

\* Whoever uses a file's descriptor has a reference of its own on it: the other
\* workers on that file cannot close it under an fstat, a fiemap or an ioctl.
UsesItsOwn ==
    \A w \in Workers : \A i \in Using(w) : Group[w][i] \in open_files[w] /\ Group[w][i] \in fd

\* The asserts at the end of dedupe_extent_list (#392): no context and no open
\* file is left, whichever members were passed over and whatever failed.
NothingLeft ==
    \A w \in Workers : pc[w] = "returned" =>
        w \notin ctxt /\ open_files[w] = {} /\ queued[w] = {}

\* The assert of add_extent_to_dedupe: the context has room for one more.
HasRoom ==
    \A w \in Workers : pc[w] = "map" => Cardinality(queued[w]) < MaxQueable(w)

\* Every member is accounted for exactly once, whatever was passed over and
\* wherever a context ended: as a target, as one nobody is left to share with,
\* as passed over, as dropped with a target that is lost, or with a result.
Accounted ==
    \A w \in Workers : pc[w] = "returned" =>
        \A i \in list[w] : accounted[w][i] = 1

\* Only a file that was deleted leaves the hashfile.
RowsKept == Files \ rows \subseteq gone

\* A group comes to its end.
GroupsEnd == \A w \in Workers : <>(pc[w] = "done")
=============================================================================
