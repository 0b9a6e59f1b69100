---------------------------- MODULE DedupeIoctl ----------------------------
(***************************************************************************)
(* One dedupe context of dedupe.c: the destinations that share one source  *)
(* range are queued, dedupe_extents() runs FIDEDUPERANGE in rounds until   *)
(* none is left, and pop_one_dedupe_result() hands the results back.       *)
(*                                                                         *)
(* A round asks for at most RoundLen bytes.  Each destination comes back   *)
(* with a status and a number of bytes of its own, goes on in the next     *)
(* round or is completed, while the source's offset and the remaining      *)
(* length belong to the context.  Lengths are counted in a unit of which a *)
(* block has BlockSize.  Destinations are numbered in the order they were  *)
(* queued; the lists keep that order, so info[0] is the least in flight.   *)
(***************************************************************************)
EXTENDS Integers, FiniteSetsExt

CONSTANTS
    N,          \* destinations the caller may queue: max_queable
    BlockSize,  \* the filesystem's block size
    RoundLen,   \* DEDUPE_ROUND_LEN
    CallLen,    \* the most one kernel call dedupes (16 MiB on old kernels)
    MaxLen,     \* bound on the length of a group
    Kernels     \* how kernels treat an unaligned end inside the destination

Dests == 1 .. N
Lens == 0 .. MaxLen

ASSUME ConstantsOK ==
    /\ N \in Nat /\ MaxLen \in Nat
    /\ BlockSize \in Nat \ {0} /\ RoundLen \in Nat \ {0} /\ CallLen \in Nat \ {0}
    /\ RoundLen % BlockSize = 0 /\ CallLen % BlockSize = 0
    /\ Kernels \subseteq {"shortens", "reports_all", "refuses"}

VARIABLES
    \* The world: the kernel, and how each destination's file ends.
    kernel,
    at_eof,         \* destinations whose range ends where their file does
    shared,         \* bytes of a destination on the source's storage
    refused,        \* destinations the kernel answered DIFFERS or an error
    failed,         \* there was no source, or the ioctl itself has failed
    \* struct dedupe_ctxt
    pc, orig_len, len, off, aligned,
    queued, in_progress, completed,
    \* struct file_dedupe_range: the round's length and its answers
    src_length, info,
    \* struct dedupe_req: req_loff - its start and req_total are one number
    req_total, req_unshared, req_status,
    result          \* what pop_one_dedupe_result returned for each

world == <<kernel, at_eof, shared, refused, failed>>
ctxt == <<orig_len, len, off, aligned>>
lists == <<queued, in_progress, completed>>
same == <<src_length, info>>
reqs == <<req_total, req_unshared, req_status>>
vars == <<world, pc, ctxt, lists, same, reqs, result>>

NoResult == [status |-> "none", freed |-> 0, done |-> 0]
Zeroed == [d \in Dests |-> [bytes |-> 0, status |-> "same"]]
Statuses == {"same", "differs", "error", "einval"}

\* The shorter of two lengths.
Least(a, b) == IF a <= b THEN a ELSE b
RoundDown(l) == l - (l % BlockSize)

-----------------------------------------------------------------------------
(***************************************************************************)
(* Before the rounds: new_dedupe_ctxt, add_extent_to_dedupe, and the clamp *)
(* to the source's size.                                                   *)
(***************************************************************************)

Init ==
    /\ kernel \in Kernels /\ at_eof \in SUBSET Dests
    /\ shared = [d \in Dests |-> 0] /\ refused = {} /\ failed = FALSE
    /\ pc = "filling"
    /\ orig_len \in Lens \ {0} /\ len = orig_len /\ off = 0 /\ aligned = FALSE
    /\ queued = {} /\ in_progress = {} /\ completed = {}
    /\ src_length = 0 /\ info = Zeroed
    /\ req_total = [d \in Dests |-> 0] /\ req_unshared = [d \in Dests |-> 0]
    /\ req_status = [d \in Dests |-> "same"]
    /\ result = [d \in Dests |-> NoResult]

\* add_extent_to_dedupe, with what a dedupe of d can free.
Add(d, unshared) ==
    /\ pc = "filling" /\ queued = 1 .. d - 1
    /\ queued' = queued \cup {d}
    /\ req_unshared' = [req_unshared EXCEPT ![d] = unshared]
    /\ UNCHANGED <<world, pc, ctxt, in_progress, completed, same, req_total, req_status,
                   result>>

\* clamp_len_to_ioctl_file: avail bytes of the source are left at its offset.
Clamp(avail) ==
    /\ pc = "filling" /\ queued # {}
    /\ IF avail = 0
       THEN /\ completed' = queued /\ queued' = {} /\ pc' = "done"
            /\ failed' = TRUE
            /\ UNCHANGED ctxt
       ELSE /\ len' = Least(len, avail) /\ orig_len' = len'
            /\ pc' = "round"
            /\ UNCHANGED <<failed, off, aligned, queued, completed>>
    /\ UNCHANGED <<kernel, at_eof, shared, refused, in_progress, same, reqs, result>>

-----------------------------------------------------------------------------
(***************************************************************************)
(* The rounds: dedupe_extents.                                             *)
(***************************************************************************)

\* dedupe_shareable_len: a range under one block is left alone.
ShareableLen(l) == IF l < BlockSize THEN l ELSE RoundDown(l)

\* set_aligned_same_length.
SameLength(al) == LET l == Least(len, RoundLen) IN IF al THEN ShareableLen(l) ELSE l

\* populate_dedupe_request.
Populate ==
    /\ pc = "round" /\ queued # {}
    /\ src_length' = SameLength(aligned) /\ info' = Zeroed
    /\ in_progress' = queued /\ queued' = {}
    /\ pc' = "ioctl"
    /\ UNCHANGED <<world, ctxt, completed, reqs, result>>

\* What the kernel answers for destination d, asked for l bytes.  It refuses
\* one whose content differs, or for a reason of its own.  A length that ends
\* inside a block is taken only at the end of the destination's file; elsewhere
\* it is shortened, reported in full though shortened, or refused.
Unaligned(d, l) == l % BlockSize # 0 /\ ~(d \in at_eof /\ req_total[d] + l = orig_len)
Taken(d, l) == IF Unaligned(d, l) THEN RoundDown(l) ELSE l
KernelAnswers(d, l) ==
    [bytes : {0}, status : {"differs", "error", "einval"}] \cup
    {IF Unaligned(d, l) /\ kernel = "refuses" THEN [bytes |-> 0, status |-> "einval"]
     ELSE [bytes  |-> IF kernel = "reports_all" THEN l ELSE Taken(d, l),
           status |-> "same"]}

\* The request whose answer is info[0].
First == CHOOSE d \in in_progress : \A o \in in_progress : d <= o

\* The storage a call for l bytes that reports a leaves shared with the source.
SharedBy(d, l, a) ==
    IF a[d].status = "same" /\ req_total[d] = off /\ off + Taken(d, l) > shared[d]
    THEN off + Taken(d, l) ELSE shared[d]

\* The ioctl, and the retry with whole blocks after the first EINVAL.
Ioctl ==
    /\ pc = "ioctl"
    /\ LET l == Least(src_length, CallLen)
       IN  \E a \in [in_progress -> UNION {KernelAnswers(d, l) : d \in in_progress}] :
            /\ \A d \in in_progress : a[d] \in KernelAnswers(d, l)
            /\ info' = [d \in Dests |-> IF d \in in_progress THEN a[d] ELSE info[d]]
            /\ shared' = [d \in Dests |-> IF d \in in_progress THEN SharedBy(d, l, a)
                                          ELSE shared[d]]
            /\ refused' = refused \cup
                 {d \in in_progress : a[d].status # "same" /\
                    ~(kernel = "refuses" /\ Unaligned(d, l) /\ a[d].status = "einval")}
            /\ IF a[First].status = "einval" /\ ~aligned
               THEN /\ aligned' = TRUE
                    /\ src_length' = SameLength(TRUE)
                    /\ pc' = IF src_length' # src_length THEN "ioctl" ELSE "process"
               ELSE /\ pc' = "process"
                    /\ UNCHANGED <<aligned, src_length>>
    /\ UNCHANGED <<kernel, at_eof, failed, orig_len, len, off, lists, reqs, result>>

\* Mutant of IoctlFails (#280): the requests in flight are not handed back.
IoctlFails_Lost ==
    /\ pc = "ioctl"
    /\ failed' = TRUE /\ pc' = "done"
    /\ UNCHANGED <<kernel, at_eof, shared, refused, ctxt, lists, same, reqs, result>>

\* The ioctl fails as a whole: fail_in_flight.
IoctlFails ==
    /\ pc = "ioctl"
    /\ failed' = TRUE
    /\ req_status' = [d \in Dests |-> IF d \in in_progress \cup queued THEN "error"
                                      ELSE req_status[d]]
    /\ completed' = completed \cup in_progress \cup queued
    /\ in_progress' = {} /\ queued' = {}
    /\ pc' = "done"
    /\ UNCHANGED <<kernel, at_eof, shared, refused, ctxt, same, req_total, req_unshared,
                   result>>

\* The source moves by what the furthest destination did.
MaxDeduped == Max({info[d].bytes : d \in in_progress} \cup {0})

\* Mutant of Process (#396): a round without progress is asked again.
Process_NoGuard ==
    /\ pc = "process"
    /\ req_total' = [d \in Dests |-> IF d \in in_progress THEN req_total[d] + info[d].bytes
                                     ELSE req_total[d]]
    /\ req_status' = [d \in Dests |-> IF d \in in_progress THEN info[d].status
                                      ELSE req_status[d]]
    /\ len' = len - MaxDeduped /\ off' = off + MaxDeduped
    /\ LET finished == {d \in in_progress :
                            info[d].status # "same" \/ req_total'[d] >= orig_len}
           stop == (aligned /\ len' < BlockSize)
       IN  /\ completed' = completed \cup IF stop THEN in_progress ELSE finished
           /\ queued' = IF stop THEN {} ELSE in_progress \ finished
    /\ in_progress' = {}
    /\ pc' = IF queued' = {} THEN "done" ELSE "round"
    /\ UNCHANGED <<world, orig_len, aligned, same, req_unshared, result>>

\* Mutant of Process: less than a block left ends every context.
Process_DropTail ==
    /\ pc = "process"
    /\ req_total' = [d \in Dests |-> IF d \in in_progress THEN req_total[d] + info[d].bytes
                                     ELSE req_total[d]]
    /\ req_status' = [d \in Dests |-> IF d \in in_progress THEN info[d].status
                                      ELSE req_status[d]]
    /\ len' = len - MaxDeduped /\ off' = off + MaxDeduped
    /\ LET finished == {d \in in_progress :
                            info[d].status # "same" \/ req_total'[d] >= orig_len}
           stop == len' < BlockSize \/ MaxDeduped = 0
       IN  /\ completed' = completed \cup IF stop THEN in_progress ELSE finished
           /\ queued' = IF stop THEN {} ELSE in_progress \ finished
    /\ in_progress' = {}
    /\ pc' = IF queued' = {} THEN "done" ELSE "round"
    /\ UNCHANGED <<world, orig_len, aligned, same, req_unshared, result>>

\* process_dedupes, and the guard against a round without progress.
Process ==
    /\ pc = "process"
    /\ req_total' = [d \in Dests |-> IF d \in in_progress THEN req_total[d] + info[d].bytes
                                     ELSE req_total[d]]
    /\ req_status' = [d \in Dests |-> IF d \in in_progress THEN info[d].status
                                      ELSE req_status[d]]
    /\ len' = len - MaxDeduped /\ off' = off + MaxDeduped
    /\ LET finished == {d \in in_progress :
                            info[d].status # "same" \/ req_total'[d] >= orig_len}
           stop == (aligned /\ len' < BlockSize) \/ MaxDeduped = 0
       IN  /\ completed' = completed \cup IF stop THEN in_progress ELSE finished
           /\ queued' = IF stop THEN {} ELSE in_progress \ finished
    /\ in_progress' = {}
    /\ pc' = IF queued' = {} THEN "done" ELSE "round"
    /\ UNCHANGED <<world, orig_len, aligned, same, req_unshared, result>>

\* Mutant of Pop (#187): what could be freed is credited, not what was.
Pop_AllUnshared(d) ==
    /\ pc = "done" /\ d \in completed
    /\ completed' = completed \ {d}
    /\ result' = [result EXCEPT ![d] =
                    [status |-> req_status[d], freed |-> req_unshared[d], done |-> req_total[d]]]
    /\ UNCHANGED <<world, pc, ctxt, queued, in_progress, same, reqs>>

\* pop_one_dedupe_result.
Pop(d) ==
    /\ pc = "done" /\ d \in completed
    /\ completed' = completed \ {d}
    /\ result' = [result EXCEPT ![d] =
                    [status |-> req_status[d], freed |-> Least(req_unshared[d], req_total[d]),
                     done |-> req_total[d]]]
    /\ UNCHANGED <<world, pc, ctxt, queued, in_progress, same, reqs>>

\* Everything was handed back.
Finished == pc = "done" /\ completed = {} /\ UNCHANGED vars

Step == \/ Populate \/ Ioctl \/ IoctlFails \/ Process
        \/ \E d \in Dests : Pop(d)
Next == \/ Step \/ Finished
        \/ \E d \in Dests, u \in {0, orig_len} : Add(d, u)
        \/ \E avail \in Lens : Clamp(avail)

\* The worker that runs the context is scheduled.
Spec == Init /\ [][Next]_vars /\ WF_vars(Step)

-----------------------------------------------------------------------------
(***************************************************************************)
(* What the rounds promise.                                                *)
(***************************************************************************)

Answered == {d \in Dests : result[d] # NoResult}
Asked == queued \cup in_progress \cup completed \cup Answered

\* The type of every variable; no unsigned length or total goes below zero.
TypeOK ==
    /\ kernel \in Kernels /\ at_eof \subseteq Dests /\ refused \subseteq Dests
    /\ shared \in [Dests -> Lens] /\ failed \in BOOLEAN /\ aligned \in BOOLEAN
    /\ pc \in {"filling", "round", "ioctl", "process", "done"}
    /\ orig_len \in Lens /\ len \in Lens /\ off \in Lens /\ src_length \in Lens
    /\ queued \subseteq Dests /\ in_progress \subseteq Dests /\ completed \subseteq Dests
    /\ info \in [Dests -> [bytes : Lens, status : Statuses]]
    /\ req_total \in [Dests -> Lens] /\ req_unshared \in [Dests -> Lens]
    /\ req_status \in [Dests -> Statuses]
    /\ result \in [Dests -> [status : Statuses \cup {"none"}, freed : Lens, done : Lens]]

\* The kernel compares what lies at the same distance from the two starts: a
\* round that asks for anything asks it of destinations that are all where the
\* source is, although each advances by its own bytes_deduped.
InStep == pc = "ioctl" /\ src_length > 0 => \A d \in in_progress : req_total[d] = off

\* What is credited as freed or done really lies on the source's storage, after
\* a failed or refused round too (#187, #280), unless the kernel overstates it.
CreditReal ==
    \A d \in Answered : kernel # "reports_all" =>
        result[d].done <= shared[d] /\ result[d].freed <= shared[d]

\* Neither the guard against a round without progress nor the short cut for a
\* tail under one block gives up a destination the kernel would have shared: it
\* is shared down to the last whole block, and to its end where that is the end
\* of its file and no length had to be rounded.  One case is left out: a kernel
\* that refuses unaligned lengths refuses them of any destination, and only the
\* first one's EINVAL makes the rounds try again (README 6).
Complete ==
    pc = "done" /\ ~failed
    /\ (kernel = "refuses" => \/ at_eof = Dests \/ orig_len % BlockSize = 0
                              \/ at_eof = {} /\ refused = {})
    => \A d \in Asked \ refused :
        shared[d] >= IF d \in at_eof /\ ~aligned THEN orig_len ELSE RoundDown(orig_len)

\* A context as its caller sees it.
Phase == IF pc = "filling" THEN "filling" ELSE IF pc = "done" THEN "answered" ELSE "running"
Requests == INSTANCE DedupeRequests WITH phase <- Phase, asked <- Asked, answered <- Answered

\* The whole of it: each destination is asked for once, and handed back exactly
\* once, always, whatever the kernel answers.
EachAnsweredOnce == Requests!Spec
=============================================================================
