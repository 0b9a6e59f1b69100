------------------------- MODULE DedupeIoctlProofs -------------------------
(***************************************************************************)
(* Proofs about DedupeIoctl, for any number of destinations, any lengths   *)
(* and any block, round and call size: types, ranges that stay in step,    *)
(* credit for what is shared only, nobody given up whom the kernel would   *)
(* have shared, and each request answered once.                            *)
(***************************************************************************)
EXTENDS DedupeIoctl, LeastElements, TLAPS

-----------------------------------------------------------------------------
(* Arithmetic of blocks. *)

\* Rounding down leaves whole blocks, and no more than there was.
LEMMA RoundDownFacts ==
    \A l \in Nat : /\ RoundDown(l) \in Nat /\ RoundDown(l) <= l
                   /\ RoundDown(l) % BlockSize = 0
                   /\ l % BlockSize = 0 => RoundDown(l) = l
<1> SUFFICES ASSUME NEW l \in Nat
             PROVE  /\ RoundDown(l) \in Nat /\ RoundDown(l) <= l
                    /\ RoundDown(l) % BlockSize = 0
                    /\ l % BlockSize = 0 => RoundDown(l) = l
    OBVIOUS
<1>1. l % BlockSize \in 0 .. BlockSize - 1 /\ l % BlockSize <= l
    BY ConstantsOK
<1>2. /\ l = (l \div BlockSize) * BlockSize + (l % BlockSize)
      /\ l \div BlockSize \in Nat
    <2>1. l = (l \div BlockSize) * BlockSize + (l % BlockSize)
        BY ConstantsOK
    <2>2. l \div BlockSize \in Nat
        BY ConstantsOK
    <2> QED BY <2>1, <2>2
<1>3. RoundDown(l) = (l \div BlockSize) * BlockSize
    BY <1>1, <1>2, ConstantsOK DEF RoundDown
<1>4. \A q \in Nat : (q * BlockSize) % BlockSize = 0
    BY ConstantsOK
<1>5. RoundDown(l) % BlockSize = 0
    BY <1>2, <1>3, <1>4
<1> QED BY <1>1, <1>5, ConstantsOK DEF RoundDown

\* A multiple of the block size that is not zero is a block at least.
LEMMA WholeBlocks == \A l \in Nat \ {0} : l % BlockSize = 0 => l >= BlockSize
BY ConstantsOK

\* The length of a round is at most what is left, and ends inside a block only
\* if it is all that is left.
LEMMA SameLengthFacts ==
    ASSUME len \in Nat, NEW al \in BOOLEAN
    PROVE  /\ SameLength(al) \in 0 .. len
           /\ SameLength(al) % BlockSize # 0 => SameLength(al) = len
<1> DEFINE l == Least(len, RoundLen)
<1>1. l \in Nat /\ l <= len /\ (l = len \/ (l = RoundLen /\ l % BlockSize = 0))
    BY ConstantsOK DEF Least
<1>2. CASE ~al
    <2>1. SameLength(al) = l
        BY <1>2 DEF SameLength
    <2> QED BY <1>1, <2>1
<1>3. CASE al /\ l < BlockSize
    <2>1. SameLength(al) = l
        BY <1>3 DEF SameLength, ShareableLen
    <2>2. l # RoundLen
        BY <1>3, WholeBlocks, ConstantsOK
    <2> QED BY <1>1, <2>1, <2>2
<1>4. CASE al /\ ~(l < BlockSize)
    <2>1. SameLength(al) = RoundDown(l)
        BY <1>4 DEF SameLength, ShareableLen
    <2>2. RoundDown(l) \in Nat /\ RoundDown(l) <= l /\ RoundDown(l) % BlockSize = 0
        BY <1>1, RoundDownFacts
    <2> QED BY <1>1, <2>1, <2>2
<1> QED BY <1>2, <1>3, <1>4

\* The maximum of a set of which every member is one of three numbers.
LEMMA MaxOfThree ==
    ASSUME NEW S, NEW a \in Nat, NEW b \in Nat, a <= b, S \subseteq {0, a, b}, 0 \in S
    PROVE  Max(S) \in S /\ \A x \in S : x <= Max(S)
<1>1. \E m \in S : \A x \in S : x <= m
    <2>1. CASE b \in S  BY <2>1
    <2>2. CASE b \notin S /\ a \in S  BY <2>2
    <2>3. CASE b \notin S /\ a \notin S  BY <2>3
    <2> QED BY <2>1, <2>2, <2>3
<1>2. \A x \in S : x \in Nat
    OBVIOUS
<1>3. Max(S) = CHOOSE m \in S : \A x \in S : m >= x
    BY DEF Max
<1> DEFINE P(m) == m \in S /\ \A x \in S : m >= x
<1>4. \E m : P(m)
    BY <1>1, <1>2
<1>5. P(CHOOSE m : P(m))
    BY <1>4
<1> QED BY <1>2, <1>3, <1>5

-----------------------------------------------------------------------------
(* The inductive invariant. *)

\* Where a request is at each stage of the context.
ListsOK ==
    /\ queued \cap completed = {} /\ in_progress \cap completed = {}
    /\ queued \cap in_progress = {} /\ completed \cap Answered = {}
    /\ pc = "filling" => in_progress = {} /\ completed = {}
    /\ pc = "round" => queued # {} /\ in_progress = {}
    /\ pc \in {"ioctl", "process"} => queued = {} /\ in_progress # {}
    /\ pc = "done" => queued = {} /\ in_progress = {}
    /\ pc # "done" => Answered = {}

\* How far each request is.  One that is behind the source has nothing left to
\* ask for.
Progress ==
    /\ len + off = orig_len
    /\ pc = "filling" => off = 0
    /\ \A d \in Dests : req_total[d] <= off
    /\ \A d \in queued \cup in_progress : req_total[d] = off \/ len = 0

\* A call for l bytes has answered: whole blocks, or all that was left.
AnsweredCall(l) ==
    /\ l <= len /\ (l % BlockSize # 0 => l = len)
    /\ \A d \in in_progress :
        /\ info[d].bytes \in {0, RoundDown(l), l}
        /\ info[d].status = "same" => info[d].bytes \in {RoundDown(l), l}
        /\ kernel # "reports_all" => req_total[d] + info[d].bytes <= shared[d]

Round ==
    /\ pc \in {"ioctl", "process"} =>
        src_length <= len /\ (src_length % BlockSize # 0 => src_length = len)
    /\ pc = "process" => \E l \in Lens : AnsweredCall(l)

\* Credit follows what is shared.
Credit ==
    /\ \A d \in Dests : kernel # "reports_all" => req_total[d] <= shared[d]
    /\ CreditReal

IInv == TypeOK /\ ListsOK /\ Progress /\ Round /\ Credit

\* The invariant holds in every new context.
LEMMA InitIInv == Init => IInv
<1> SUFFICES ASSUME Init PROVE IInv
    OBVIOUS
<1>1. Answered = {}
    BY DEF Init, Answered
<1>2. Zeroed \in [Dests -> [bytes : Lens, status : Statuses]]
    BY ConstantsOK DEF Zeroed, Lens, Statuses
<1>3. TypeOK
    <2>1. result \in [Dests -> [status : Statuses \cup {"none"}, freed : Lens, done : Lens]]
        BY ConstantsOK DEF Init, NoResult, Lens
    <2>2. 0 \in Lens /\ "same" \in Statuses
        BY ConstantsOK DEF Lens, Statuses
    <2> QED BY <1>2, <2>1, <2>2 DEF Init, TypeOK
<1>4. ListsOK /\ Round /\ Credit
    BY <1>1 DEF Init, ListsOK, Round, Credit, CreditReal
<1>5. Progress
    BY ConstantsOK DEF Init, Progress, Lens
<1> QED BY <1>3, <1>4, <1>5 DEF IInv

USE DEF vars, world, ctxt, lists, same, reqs

\* Queueing a destination keeps the invariant.
LEMMA AddStep ==
    ASSUME IInv, NEW d \in Dests, NEW u \in {0, orig_len}, Add(d, u)
    PROVE  IInv'
<1>1. TypeOK'
    <2>1. u \in Lens
        BY ConstantsOK DEF IInv, TypeOK, Lens
    <2> QED BY <2>1 DEF IInv, TypeOK, Add
<1>2. Answered' = Answered
    BY DEF Add, Answered
<1>3. ListsOK'
    BY <1>2 DEF IInv, ListsOK, Add
<1>4. Progress'
    <2>1. req_total[d] = off
        BY ConstantsOK DEF IInv, TypeOK, Progress, Add, Lens
    <2> QED BY <2>1 DEF IInv, Progress, Add
<1>5. Round' /\ Credit'
    BY <1>2 DEF IInv, Round, Credit, CreditReal, Add
<1> QED BY <1>1, <1>3, <1>4, <1>5 DEF IInv

\* So does cutting the length at the source's end, or finding nothing there.
LEMMA ClampStep ==
    ASSUME IInv, NEW avail \in Lens, Clamp(avail)
    PROVE  IInv'
<1>1. Answered' = Answered
    BY DEF Clamp, Answered
<1>2. ListsOK'
    BY <1>1 DEF IInv, ListsOK, Clamp
<1>3. Round' /\ Credit'
    BY <1>1 DEF IInv, Round, Credit, CreditReal, Clamp
<1>4. CASE avail = 0
    <2>1. TypeOK'
        BY <1>4 DEF IInv, TypeOK, Clamp
    <2>2. Progress'
        BY <1>4 DEF IInv, ListsOK, Progress, Clamp
    <2> QED BY <1>2, <1>3, <2>1, <2>2 DEF IInv
<1>5. CASE avail # 0
    <2>1. len' \in Lens
        BY <1>5, ConstantsOK DEF IInv, TypeOK, Clamp, Least, Lens
    <2>2. TypeOK'
        BY <1>5, <2>1 DEF IInv, TypeOK, Clamp
    <2>3. Progress'
        <3>1. off = 0 /\ off' = 0 /\ len' = orig_len'
            BY <1>5 DEF IInv, Progress, Clamp
        <3>2. \A d \in Dests : req_total[d] = 0
            BY <3>1, ConstantsOK DEF IInv, TypeOK, Progress, Lens
        <3> QED
            BY <1>5, <2>1, <3>1, <3>2, ConstantsOK DEF IInv, TypeOK, ListsOK, Progress, Clamp,
               Lens
    <2> QED BY <1>2, <1>3, <2>2, <2>3 DEF IInv
<1> QED BY <1>4, <1>5

\* So does preparing a round.
LEMMA PopulateStep ==
    ASSUME IInv, Populate
    PROVE  IInv'
<1>1. Answered' = Answered
    BY DEF Populate, Answered
<1>2. /\ src_length' \in 0 .. len
      /\ src_length' % BlockSize # 0 => src_length' = len
    BY SameLengthFacts, ConstantsOK DEF IInv, TypeOK, Populate, Lens
<1>3. TypeOK'
    <2>1. src_length' \in Lens
        BY <1>2, ConstantsOK DEF IInv, TypeOK, Lens
    <2>2. Zeroed \in [Dests -> [bytes : Lens, status : Statuses]]
        BY ConstantsOK DEF Zeroed, Lens, Statuses
    <2> QED BY <2>1, <2>2 DEF IInv, TypeOK, Populate
<1>4. ListsOK'
    BY <1>1 DEF IInv, ListsOK, Populate
<1>5. Progress'
    BY DEF IInv, Progress, Populate
<1>6. Round'
    BY <1>2 DEF Round, Populate
<1>7. Credit'
    BY <1>1 DEF IInv, Credit, CreditReal, Populate
<1> QED BY <1>3, <1>4, <1>5, <1>6, <1>7 DEF IInv


\* What the kernel says of one request: nothing, or whole blocks of what was
\* asked, or all of it.
LEMMA AnswerFacts ==
    ASSUME NEW d \in Dests, NEW l \in Nat, NEW x \in KernelAnswers(d, l)
    PROVE  /\ x.bytes \in {0, RoundDown(l), l} /\ x.status \in Statuses
           /\ x.status = "same" => x.bytes \in {RoundDown(l), l}
           /\ x.status = "same" /\ kernel # "reports_all" => x.bytes = Taken(d, l)
           /\ x.status # "same" => x.bytes = 0
           /\ Taken(d, l) \in {RoundDown(l), l}
           /\ x \in [bytes : {0, RoundDown(l), l}, status : Statuses]
<1>1. Taken(d, l) \in {RoundDown(l), l}
    BY DEF Taken
<1>2. CASE x \in [bytes : {0}, status : {"differs", "error", "einval"}]
    BY <1>1, <1>2 DEF Statuses
<1>3. CASE /\ Unaligned(d, l) /\ kernel = "refuses"
           /\ x = [bytes |-> 0, status |-> "einval"]
    BY <1>1, <1>3 DEF Statuses
<1>4. CASE ~(Unaligned(d, l) /\ kernel = "refuses") /\
           x = [bytes |-> IF kernel = "reports_all" THEN l ELSE Taken(d, l), status |-> "same"]
    BY <1>1, <1>4 DEF Statuses
<1> QED BY <1>2, <1>3, <1>4 DEF KernelAnswers

\* The kernel's answers keep the invariant, the retry with whole blocks too.
LEMMA IoctlStep ==
    ASSUME IInv, Ioctl
    PROVE  IInv'
<1> DEFINE l == Least(src_length, CallLen)
<1>1. PICK a \in [in_progress -> UNION {KernelAnswers(d, l) : d \in in_progress}] :
        /\ \A d \in in_progress : a[d] \in KernelAnswers(d, l)
        /\ info' = [d \in Dests |-> IF d \in in_progress THEN a[d] ELSE info[d]]
        /\ shared' = [d \in Dests |-> IF d \in in_progress THEN SharedBy(d, l, a)
                                      ELSE shared[d]]
        /\ refused' = refused \cup
             {d \in in_progress : a[d].status # "same" /\
                ~(kernel = "refuses" /\ Unaligned(d, l) /\ a[d].status = "einval")}
        /\ IF a[First].status = "einval" /\ ~aligned
           THEN /\ aligned' = TRUE
                /\ src_length' = SameLength(TRUE)
                /\ pc' = IF src_length' # src_length THEN "ioctl" ELSE "process"
           ELSE /\ pc' = "process"
                /\ UNCHANGED <<aligned, src_length>>
    BY Zenon DEF Ioctl
<1>2. /\ pc = "ioctl" /\ pc' \in {"ioctl", "process"}
      /\ UNCHANGED <<kernel, at_eof, failed, orig_len, len, off, lists, reqs, result>>
    BY <1>1 DEF Ioctl
<1>3. /\ l \in Nat /\ l <= src_length /\ src_length <= len
      /\ l % BlockSize # 0 => l = len
    BY <1>2, ConstantsOK DEF IInv, TypeOK, Round, Least, Lens
<1>4. /\ RoundDown(l) \in Nat /\ RoundDown(l) <= l
      /\ (l = 0 => RoundDown(l) = 0)
    BY <1>3, RoundDownFacts
<1>5. l \in Lens /\ RoundDown(l) \in Lens /\ 0 \in Lens
    BY <1>3, <1>4, ConstantsOK DEF IInv, TypeOK, Lens
<1>6. in_progress \subseteq Dests
    BY DEF IInv, TypeOK
<1>7. /\ src_length' \in Lens /\ src_length' <= len
      /\ src_length' % BlockSize # 0 => src_length' = len
    <2>1. CASE src_length' = src_length
        BY <1>2, <2>1 DEF IInv, TypeOK, Round
    <2>2. CASE src_length' = SameLength(TRUE)
        <3>1. len \in Nat
            BY ConstantsOK DEF IInv, TypeOK, Lens
        <3>2. SameLength(TRUE) \in 0 .. len
              /\ (SameLength(TRUE) % BlockSize # 0 => SameLength(TRUE) = len)
            BY <3>1, SameLengthFacts
        <3>3. src_length' \in 0 .. len /\ (src_length' % BlockSize # 0 => src_length' = len)
            BY <2>2, <3>2
        <3>4. len <= MaxLen
            BY ConstantsOK DEF IInv, TypeOK, Lens
        <3>5. \A x \in 0 .. len : x \in Lens /\ x <= len
            BY <3>1, <3>4, ConstantsOK DEF Lens
        <3> QED BY <3>3, <3>5
    <2> QED BY <1>1, <2>1, <2>2
<1>8. \A d \in in_progress : a[d] \in [bytes : Lens, status : Statuses]
    BY <1>1, <1>3, <1>5, <1>6, AnswerFacts
<1>9. \A d \in in_progress : off + Taken(d, l) \in Lens
    <2>1. \A d \in in_progress : Taken(d, l) \in Nat /\ Taken(d, l) <= len
        BY <1>3, <1>4, ConstantsOK DEF IInv, TypeOK, Lens, Taken
    <2> QED BY <2>1, ConstantsOK DEF IInv, TypeOK, Progress, Lens
<1>10. \A d \in in_progress :
         /\ SharedBy(d, l, a) \in Lens /\ SharedBy(d, l, a) >= shared[d]
         /\ a[d].status = "same" /\ req_total[d] = off =>
                SharedBy(d, l, a) >= off + Taken(d, l)
    BY <1>6, <1>9, ConstantsOK DEF IInv, TypeOK, Lens, SharedBy
<1>11. shared' \in [Dests -> Lens] /\ \A d \in Dests : shared'[d] >= shared[d]
    <2>1. shared' \in [Dests -> Lens]
        BY <1>1, <1>10 DEF IInv, TypeOK
    <2>2. \A d \in Dests : shared'[d] >= shared[d]
        BY <1>1, <1>10, ConstantsOK DEF IInv, TypeOK, Lens
    <2> QED BY <2>1, <2>2
<1>12. TypeOK'
    <2>1. info' \in [Dests -> [bytes : Lens, status : Statuses]]
        BY <1>1, <1>8 DEF IInv, TypeOK
    <2>2. aligned' \in BOOLEAN /\ refused' \subseteq Dests
        BY <1>1, <1>6 DEF IInv, TypeOK
    <2> QED BY <1>2, <1>7, <1>11, <2>1, <2>2 DEF IInv, TypeOK
<1>13. Answered' = Answered
    BY <1>2 DEF Answered
<1>14. ListsOK'
    BY <1>2, <1>13 DEF IInv, ListsOK
<1>15. Progress'
    BY <1>2 DEF IInv, Progress
<1>16. Credit'
    <2>1. \A d \in Dests : kernel # "reports_all" => req_total[d] <= shared'[d]
        BY <1>11, ConstantsOK DEF IInv, TypeOK, Credit, Lens
    <2>2. ASSUME NEW d \in Answered, kernel # "reports_all"
          PROVE  result[d].done <= shared'[d] /\ result[d].freed <= shared'[d]
        BY <1>11, <2>2, ConstantsOK DEF IInv, TypeOK, Credit, CreditReal, Answered, Lens
    <2> QED BY <1>2, <1>13, <2>1, <2>2 DEF Credit, CreditReal
<1>17. \A d \in in_progress :
        /\ info'[d].bytes \in {0, RoundDown(l), l}
        /\ info'[d].status = "same" => info'[d].bytes \in {RoundDown(l), l}
        /\ kernel # "reports_all" => req_total[d] + info'[d].bytes <= shared'[d]
    <2> SUFFICES ASSUME NEW d \in in_progress
                 PROVE  /\ info'[d].bytes \in {0, RoundDown(l), l}
                        /\ info'[d].status = "same" => info'[d].bytes \in {RoundDown(l), l}
                        /\ kernel # "reports_all" =>
                             req_total[d] + info'[d].bytes <= shared'[d]
        OBVIOUS
    <2>1. info'[d] = a[d] /\ shared'[d] = SharedBy(d, l, a)
        BY <1>1, <1>6
    <2>2. /\ a[d].bytes \in {0, RoundDown(l), l}
          /\ a[d].status = "same" => a[d].bytes \in {RoundDown(l), l}
          /\ a[d].status = "same" /\ kernel # "reports_all" => a[d].bytes = Taken(d, l)
          /\ a[d].status # "same" => a[d].bytes = 0
          /\ Taken(d, l) \in {RoundDown(l), l}
        BY <1>1, <1>3, <1>6, AnswerFacts
    <2>3. ASSUME kernel # "reports_all"
          PROVE  req_total[d] + info'[d].bytes <= shared'[d]
        <3>1. req_total[d] \in Nat /\ req_total[d] <= shared[d] /\ shared[d] \in Nat
            BY <1>6, <2>3, ConstantsOK DEF IInv, TypeOK, Credit, Lens
        <3>2. CASE a[d].bytes = 0
            BY <1>6, <1>11, <2>1, <3>1, <3>2, ConstantsOK DEF TypeOK, Lens
        <3>3. CASE a[d].bytes # 0 /\ req_total[d] = off
            BY <1>10, <2>1, <2>2, <2>3, <3>3
        <3>4. CASE a[d].bytes # 0 /\ req_total[d] # off
            <4>1. len = 0
                BY <3>4 DEF IInv, Progress
            <4>2. l = 0
                BY <1>3, <4>1, ConstantsOK DEF IInv, TypeOK, Lens
            <4> QED BY <1>4, <2>2, <3>4, <4>2
        <3> QED BY <3>2, <3>3, <3>4
    <2> QED BY <2>1, <2>2, <2>3
<1>18. Round'
    <2>1. PICK m \in Lens : m = l
        BY <1>5
    <2>2. AnsweredCall(m)'
        <3>1. m <= len /\ (m % BlockSize # 0 => m = len)
            BY <1>3, <2>1, ConstantsOK DEF IInv, TypeOK, Lens
        <3>2. \A d \in in_progress :
                /\ info'[d].bytes \in {0, RoundDown(m), m}
                /\ info'[d].status = "same" => info'[d].bytes \in {RoundDown(m), m}
                /\ kernel # "reports_all" => req_total[d] + info'[d].bytes <= shared'[d]
            BY <1>17, <2>1
        <3> QED BY <1>2, <3>1, <3>2 DEF AnsweredCall, RoundDown
    <2> QED BY <1>2, <1>7, <2>2 DEF Round, Lens
<1> QED BY <1>12, <1>14, <1>15, <1>16, <1>18 DEF IInv

\* A failed call hands every request back unchanged.
LEMMA IoctlFailsStep ==
    ASSUME IInv, IoctlFails
    PROVE  IInv'
<1>1. Answered' = Answered
    BY DEF IoctlFails, Answered
<1>2. TypeOK'
    BY DEF IInv, TypeOK, IoctlFails, Statuses
<1>3. ListsOK'
    BY <1>1 DEF IInv, ListsOK, IoctlFails
<1>4. Progress'
    BY DEF IInv, Progress, IoctlFails
<1>5. Round' /\ Credit'
    BY <1>1 DEF IInv, Round, Credit, CreditReal, IoctlFails
<1> QED BY <1>2, <1>3, <1>4, <1>5 DEF IInv

\* The source moves by what a destination did, which was the call's length, or
\* that in whole blocks, or nothing.
LEMMA MovesBy ==
    ASSUME IInv, NEW l \in Lens, AnsweredCall(l)
    PROVE  /\ l \in Nat /\ l <= len
           /\ RoundDown(l) \in Nat /\ RoundDown(l) <= l /\ RoundDown(l) % BlockSize = 0
           /\ l % BlockSize = 0 \/ l = len
           /\ MaxDeduped \in {0, RoundDown(l), l}
           /\ MaxDeduped = 0 \/ \E d \in in_progress : info[d].bytes = MaxDeduped
           /\ \A d \in in_progress : info[d].bytes <= MaxDeduped
<1>1. /\ l \in Nat /\ l <= len
      /\ l % BlockSize = 0 \/ l = len
      /\ \A d \in in_progress : info[d].bytes \in {0, RoundDown(l), l}
    BY ConstantsOK DEF AnsweredCall, Lens
<1>2. RoundDown(l) \in Nat /\ RoundDown(l) <= l /\ RoundDown(l) % BlockSize = 0
    BY <1>1, RoundDownFacts
<1> DEFINE S == {info[d].bytes : d \in in_progress} \cup {0}
<1>3. S \subseteq {0, RoundDown(l), l} /\ 0 \in S
    BY <1>1
<1>4. Max(S) \in S /\ \A x \in S : x <= Max(S)
    BY <1>1, <1>2, <1>3, MaxOfThree
<1>5. MaxDeduped = Max(S)
    BY DEF MaxDeduped
<1> QED BY <1>1, <1>2, <1>3, <1>4, <1>5

\* Taking the answers in keeps the invariant: one that falls behind the source
\* leaves nothing to ask for.
LEMMA ProcessStep ==
    ASSUME IInv, Process
    PROVE  IInv'
<1> DEFINE M == MaxDeduped
           finished == {d \in in_progress :
                          info[d].status # "same" \/ req_total'[d] >= orig_len}
           stop == (aligned /\ len' < BlockSize) \/ M = 0
<1>1. /\ pc = "process" /\ in_progress' = {}
      /\ req_total' = [d \in Dests |-> IF d \in in_progress THEN req_total[d] + info[d].bytes
                                       ELSE req_total[d]]
      /\ req_status' = [d \in Dests |-> IF d \in in_progress THEN info[d].status
                                        ELSE req_status[d]]
      /\ len' = len - M /\ off' = off + M
      /\ completed' = completed \cup IF stop THEN in_progress ELSE finished
      /\ queued' = IF stop THEN {} ELSE in_progress \ finished
      /\ pc' = IF queued' = {} THEN "done" ELSE "round"
      /\ UNCHANGED <<world, orig_len, aligned, same, req_unshared, result>>
    BY DEF Process
<1>2. PICK l \in Lens : AnsweredCall(l)
    BY <1>1 DEF IInv, Round
<1>3. in_progress \subseteq Dests
    BY DEF IInv, TypeOK
<1>4. /\ l \in Nat /\ l <= len
      /\ RoundDown(l) \in Nat /\ RoundDown(l) <= l
      /\ RoundDown(l) # l => l = len
    BY <1>2, RoundDownFacts, ConstantsOK DEF AnsweredCall, Lens
<1>5. \A d \in in_progress :
        /\ info[d].bytes \in {0, RoundDown(l), l}
        /\ info[d].status = "same" => info[d].bytes \in {RoundDown(l), l}
    BY <1>2 DEF AnsweredCall
<1>6. M \in {0, RoundDown(l), l} /\ \A d \in in_progress : info[d].bytes <= M
    BY <1>2, MovesBy
<1> HIDE DEF M
<1>7. M \in Nat /\ M <= len
    BY <1>4, <1>6, ConstantsOK DEF IInv, TypeOK, Lens
<1>8. len' \in Lens /\ off' \in Lens /\ len' + off' = orig_len
    BY <1>1, <1>7, ConstantsOK DEF IInv, TypeOK, Progress, Lens
<1>9. \A d \in Dests : req_total'[d] \in Nat /\ req_total'[d] <= off'
    <2> SUFFICES ASSUME NEW d \in Dests
                 PROVE  req_total'[d] \in Nat /\ req_total'[d] <= off'
        OBVIOUS
    <2>1. req_total[d] \in Nat /\ req_total[d] <= off /\ off \in Nat /\ off' = off + M
        BY <1>1, ConstantsOK DEF IInv, TypeOK, Progress, Lens
    <2>2. CASE d \in in_progress
        <3>1. req_total'[d] = req_total[d] + info[d].bytes
            BY <1>1, <2>2
        <3>2. info[d].bytes \in Nat /\ info[d].bytes <= M
            BY <1>4, <1>5, <1>6, <2>2
        <3> QED BY <1>7, <2>1, <3>1, <3>2
    <2>3. CASE d \notin in_progress
        <3>1. req_total'[d] = req_total[d]
            BY <1>1, <2>3
        <3> QED BY <1>7, <2>1, <3>1
    <2> QED BY <2>2, <2>3
<1>10. TypeOK'
    <2>1. req_total' \in [Dests -> Lens]
        <3>1. \A d \in Dests : req_total'[d] \in Lens
            BY <1>8, <1>9, ConstantsOK DEF Lens
        <3>2. req_total' = [d \in Dests |-> req_total'[d]]
            BY <1>1
        <3> QED BY <3>1, <3>2
    <2>2. req_status' \in [Dests -> Statuses]
        BY <1>1 DEF IInv, TypeOK
    <2>3. pc' \in {"round", "done"}
        BY <1>1
    <2>4. queued' \subseteq Dests /\ in_progress' \subseteq Dests /\ completed' \subseteq Dests
        BY <1>1, <1>3 DEF IInv, TypeOK
    <2> QED BY <1>1, <1>8, <2>1, <2>2, <2>3, <2>4 DEF IInv, TypeOK
<1>11. Answered' = Answered /\ Answered = {}
    BY <1>1 DEF IInv, ListsOK, Answered
<1>12. ListsOK'
    <2>1. queued' \cap completed' = {} /\ queued' \subseteq in_progress
        BY <1>1 DEF IInv, ListsOK
    <2>2. pc' = "done" => queued' = {}
        BY <1>1
    <2>3. pc' = "round" => queued' # {}
        BY <1>1
    <2>4. pc' \in {"round", "done"}
        BY <1>1
    <2> QED BY <1>1, <1>11, <2>1, <2>2, <2>3, <2>4 DEF ListsOK
<1>13. ASSUME NEW d \in queued'
       PROVE  req_total'[d] = off' \/ len' = 0
    <2>1. d \in in_progress /\ info[d].status = "same" /\ M # 0
        BY <1>1, <1>13
    <2>2. len # 0
        BY <1>7, <2>1, ConstantsOK DEF IInv, TypeOK, Lens
    <2>3. req_total[d] = off
        BY <2>1, <2>2 DEF IInv, Progress
    <2>4. req_total'[d] = off + info[d].bytes
        BY <1>1, <1>3, <2>1, <2>3
    <2>5. CASE info[d].bytes = M
        BY <1>1, <2>4, <2>5
    <2>6. CASE info[d].bytes # M
        <3>1. info[d].bytes = RoundDown(l) /\ M = l /\ RoundDown(l) # l
            BY <1>4, <1>5, <1>6, <2>1, <2>6
        <3>2. M = len
            BY <1>4, <3>1
        <3> QED BY <1>1, <3>2, ConstantsOK DEF IInv, TypeOK, Lens
    <2> QED BY <2>5, <2>6
<1>14. Progress'
    BY <1>1, <1>8, <1>9, <1>13 DEF Progress
<1>15. Round'
    BY <1>1 DEF Round
<1>16. Credit'
    <2>1. ASSUME NEW d \in Dests, kernel # "reports_all"
          PROVE  req_total'[d] <= shared[d]
        <3>1. CASE d \in in_progress
            BY <1>1, <1>2, <2>1, <3>1 DEF AnsweredCall
        <3>2. CASE d \notin in_progress
            BY <1>1, <2>1, <3>2 DEF IInv, Credit
        <3> QED BY <3>1, <3>2
    <2> QED BY <1>1, <1>11, <2>1 DEF Credit, CreditReal
<1> QED BY <1>10, <1>12, <1>14, <1>15, <1>16 DEF IInv

\* Handing a result back credits at most what is shared.
LEMMA PopStep ==
    ASSUME IInv, NEW d \in Dests, Pop(d)
    PROVE  IInv'
<1> DEFINE r == [status |-> req_status[d], freed |-> Least(req_unshared[d], req_total[d]),
                 done |-> req_total[d]]
<1>1. /\ pc = "done" /\ d \in completed /\ completed' = completed \ {d}
      /\ result' = [result EXCEPT ![d] = r]
      /\ UNCHANGED <<world, pc, ctxt, queued, in_progress, same, reqs>>
    BY DEF Pop
<1>2. /\ r.freed \in Lens /\ r.freed <= req_total[d]
      /\ r \in [status : Statuses \cup {"none"}, freed : Lens, done : Lens]
    <2>1. /\ Least(req_unshared[d], req_total[d]) \in Lens
          /\ Least(req_unshared[d], req_total[d]) <= req_total[d]
        BY ConstantsOK DEF IInv, TypeOK, Least, Lens
    <2> QED BY <2>1 DEF IInv, TypeOK
<1>3. TypeOK'
    BY <1>1, <1>2 DEF IInv, TypeOK
<1>4. r # NoResult
    BY DEF IInv, TypeOK, NoResult, Statuses
<1>5. Answered' = Answered \cup {d}
    BY <1>1, <1>4 DEF IInv, TypeOK, Answered
<1>6. ListsOK'
    BY <1>1, <1>5 DEF IInv, ListsOK
<1>7. Progress'
    BY <1>1 DEF IInv, Progress
<1>8. Round'
    BY <1>1 DEF Round
<1>9. Credit'
    <2>1. ASSUME NEW o \in Answered', kernel # "reports_all"
          PROVE  result'[o].done <= shared[o] /\ result'[o].freed <= shared[o]
        <3>1. CASE o = d
            <4>1. result'[o].done = req_total[d] /\ result'[o].freed = r.freed
                BY <1>1, <3>1 DEF IInv, TypeOK
            <4>2. req_total[d] <= shared[d]
                BY <2>1 DEF IInv, Credit
            <4> QED BY <1>2, <3>1, <4>1, <4>2, ConstantsOK DEF IInv, TypeOK, Lens
        <3>2. CASE o # d
            <4>1. o \in Answered /\ result'[o] = result[o]
                BY <1>1, <1>5, <2>1, <3>2 DEF IInv, TypeOK, Answered
            <4> QED BY <2>1, <4>1 DEF IInv, Credit, CreditReal
        <3> QED BY <3>1, <3>2
    <2> QED BY <1>1, <2>1 DEF IInv, Credit, CreditReal
<1> QED BY <1>3, <1>6, <1>7, <1>8, <1>9 DEF IInv

\* Every step keeps the invariant.
LEMMA NextIInv ==
    ASSUME IInv, [Next]_vars
    PROVE  IInv'
<1>1. ASSUME NEW d \in Dests, NEW u \in {0, orig_len}, Add(d, u) PROVE IInv'
    BY <1>1, AddStep
<1>2. ASSUME NEW avail \in Lens, Clamp(avail) PROVE IInv'
    BY <1>2, ClampStep
<1>3. CASE Populate
    BY <1>3, PopulateStep
<1>4. CASE Ioctl
    BY <1>4, IoctlStep
<1>5. CASE IoctlFails
    BY <1>5, IoctlFailsStep
<1>6. CASE Process
    BY <1>6, ProcessStep
<1>7. ASSUME NEW d \in Dests, Pop(d) PROVE IInv'
    BY <1>7, PopStep
<1>8. CASE UNCHANGED vars
    BY <1>8 DEF IInv, TypeOK, ListsOK, Progress, Round, AnsweredCall, Credit, CreditReal,
                Answered
<1> QED BY <1>1, <1>2, <1>3, <1>4, <1>5, <1>6, <1>7, <1>8 DEF Next, Step, Finished

LEMMA Invariance == Spec => []IInv
<1>1. Init => IInv
    BY InitIInv
<1>2. IInv /\ [Next]_vars => IInv'
    BY NextIInv
<1> QED BY <1>1, <1>2, PTL DEF Spec


-----------------------------------------------------------------------------
(* The theorems. *)

\* Every variable keeps its type: the lengths that dedupe_extents subtracts from
\* each other never go below zero.
THEOREM Types == Spec => []TypeOK
<1>1. IInv => TypeOK
    BY DEF IInv
<1> QED BY <1>1, Invariance, PTL

\* A round that asks for anything asks it of destinations that are all as far as
\* the source, whatever each call reported.
THEOREM StaysInStep == Spec => []InStep
<1>1. IInv => InStep
    <2> SUFFICES ASSUME IInv, pc = "ioctl", src_length > 0, NEW d \in in_progress
                 PROVE  req_total[d] = off
        BY DEF InStep
    <2>1. src_length <= len
        BY DEF IInv, Round
    <2>2. len # 0
        BY <2>1, ConstantsOK DEF IInv, TypeOK, Lens
    <2> QED BY <2>2 DEF IInv, Progress
<1> QED BY <1>1, Invariance, PTL

\* No more is reported as freed or done than lies on the source's storage, after
\* any failure and on any kernel that does not overstate its answers.
THEOREM CreditIsReal == Spec => []CreditReal
<1>1. IInv => CreditReal
    BY DEF IInv, Credit
<1> QED BY <1>1, Invariance, PTL

\* A step of the rounds is a step of the abstract requests, or none of them.
LEMMA StepImplements ==
    ASSUME IInv, [Next]_vars
    PROVE  [Requests!Next]_<<Phase, Asked, Answered>>
<1>1. ASSUME NEW d \in Dests, NEW u \in {0, orig_len}, Add(d, u)
      PROVE  Requests!Ask(d)
    <2>1. Answered' = Answered /\ Answered = {} /\ pc = "filling" /\ pc' = pc
        BY <1>1 DEF IInv, ListsOK, Add, Answered
    <2>2. d \notin queued /\ Asked = queued
        <3>1. Asked = queued
            BY <2>1 DEF IInv, ListsOK, Asked
        <3>2. queued = 1 .. d - 1
            BY <1>1 DEF Add
        <3>3. d \notin 1 .. d - 1
            BY ConstantsOK DEF Dests
        <3> QED BY <3>1, <3>2, <3>3
    <2>3. Asked' = Asked \cup {d}
        BY <1>1, <2>1 DEF Asked, Add
    <2> QED BY <2>1, <2>2, <2>3 DEF Requests!Ask, Phase
<1>2. ASSUME NEW avail \in Lens, Clamp(avail)
      PROVE  Requests!Start
    <2>1. /\ Answered' = Answered /\ pc = "filling" /\ pc' \in {"round", "done"}
          /\ queued # {}
        BY <1>2 DEF Clamp, Answered
    <2>2. Asked' = Asked
        BY <1>2, <2>1 DEF IInv, ListsOK, Asked, Clamp
    <2> QED BY <2>1, <2>2 DEF Requests!Start, Asked, Phase
<1>3. ASSUME Populate \/ Ioctl \/ IoctlFails \/ Process
      PROVE  Requests!Complete \/ UNCHANGED <<Phase, Asked, Answered>>
    <2>1. /\ Answered' = Answered
          /\ pc \in {"round", "ioctl", "process"}
          /\ pc' \in {"round", "ioctl", "process", "done"}
        BY <1>3 DEF Populate, Ioctl, IoctlFails, Process, Answered
    <2>2. Asked' = Asked
        <3>1. queued' \cup in_progress' \cup completed' =
            queued \cup in_progress \cup completed
            <4>1. CASE Populate
                BY <4>1 DEF IInv, ListsOK, Populate
            <4>2. CASE Ioctl
                BY <4>2 DEF Ioctl
            <4>3. CASE IoctlFails
                BY <4>3 DEF IoctlFails
            <4>4. CASE Process
                BY <4>4 DEF IInv, ListsOK, Process
            <4> QED BY <1>3, <4>1, <4>2, <4>3, <4>4
        <3> QED BY <2>1, <3>1 DEF Asked
    <2> QED BY <2>1, <2>2 DEF Requests!Complete, Phase
<1>4. ASSUME NEW d \in Dests, Pop(d)
      PROVE  Requests!Answer(d)
    <2>1. pc = "done" /\ pc' = pc /\ d \in completed /\ d \notin Answered
        BY <1>4 DEF IInv, ListsOK, Pop
    <2>2. Answered' = Answered \cup {d}
        <3>1. req_status[d] # "none"
            BY DEF IInv, TypeOK, Statuses
        <3>2. /\ result'[d] = [status |-> req_status[d],
                               freed |-> Least(req_unshared[d], req_total[d]),
                               done |-> req_total[d]]
              /\ \A o \in Dests \ {d} : result'[o] = result[o]
            BY <1>4 DEF IInv, TypeOK, Pop
        <3>3. result'[d] # NoResult
            BY <3>1, <3>2 DEF NoResult
        <3> QED BY <3>2, <3>3 DEF Answered
    <2>3. Asked' = Asked
        BY <1>4, <2>1, <2>2 DEF Asked, Pop
    <2>4. d \in Asked
        BY <2>1 DEF Asked
    <2> QED BY <2>1, <2>2, <2>3, <2>4 DEF Requests!Answer, Phase
<1>5. ASSUME UNCHANGED vars
      PROVE  UNCHANGED <<Phase, Asked, Answered>>
    BY <1>5 DEF Asked, Answered, Phase
<1> QED
    BY <1>1, <1>2, <1>3, <1>4, <1>5 DEF Next, Step, Finished, Requests!Next

\* What the caller sees of a context: requests queued, the rounds run, and each
\* request handed back exactly once.
THEOREM Implements == Spec => Requests!Safety
<1>1. Init => Requests!Init
    BY DEF Init, Requests!Init, Asked, Answered, Phase
<1>2. IInv /\ [Next]_vars => [Requests!Next]_<<Phase, Asked, Answered>>
    BY StepImplements
<1> QED BY <1>1, <1>2, Invariance, PTL DEF Spec, Requests!Safety

-----------------------------------------------------------------------------
(* Nobody is given up whom the kernel would have shared. *)

\* A number of whole blocks and a rest.
LEMMA RestIs ==
    ASSUME NEW k \in Nat, NEW r \in Nat, r < BlockSize, NEW c \in Nat, c = k * BlockSize + r
    PROVE  c % BlockSize = r
<1>1. PICK q \in Int, m \in Int : q = c \div BlockSize /\ m = c % BlockSize
    BY ConstantsOK
<1>2. c = q * BlockSize + m /\ 0 <= m /\ m < BlockSize
    BY <1>1, ConstantsOK
<1>3. ~(q <= k - 1)
    <2> SUFFICES ASSUME q <= k - 1 PROVE FALSE
        OBVIOUS
    <2>1. q * BlockSize <= (k - 1) * BlockSize
        BY ConstantsOK
    <2> QED BY <1>2, <2>1, ConstantsOK
<1>4. ~(k <= q - 1)
    <2> SUFFICES ASSUME k <= q - 1 PROVE FALSE
        OBVIOUS
    <2>1. k * BlockSize <= (q - 1) * BlockSize
        BY ConstantsOK
    <2> QED BY <1>2, <2>1, ConstantsOK
<1>5. q = k
    BY <1>3, <1>4
<1> QED BY <1>1, <1>2, <1>5, ConstantsOK

LEMMA BlocksAndRest ==
    ASSUME NEW l \in Nat
    PROVE  \E q \in Nat : l = q * BlockSize + (l % BlockSize)
<1>1. l = (l \div BlockSize) * BlockSize + (l % BlockSize)
    BY ConstantsOK
<1>2. l \div BlockSize \in Nat
    BY ConstantsOK
<1> QED BY <1>1, <1>2

\* From whole blocks on, rounding down rounds what follows.
LEMMA RoundedFrom ==
    ASSUME NEW a \in Nat, a % BlockSize = 0, NEW l \in Nat
    PROVE  /\ (a + l) % BlockSize = l % BlockSize
           /\ RoundDown(a + l) = a + RoundDown(l)
           /\ l < BlockSize => RoundDown(l) = 0
<1>1. PICK p \in Nat : a = p * BlockSize
    <2>1. PICK p \in Nat : a = p * BlockSize + (a % BlockSize)
        BY BlocksAndRest
    <2> QED BY <2>1, ConstantsOK
<1>2. PICK q \in Nat, r \in Nat : l = q * BlockSize + r /\ r < BlockSize /\ r = l % BlockSize
    <2>1. l % BlockSize \in Nat /\ l % BlockSize < BlockSize
        BY ConstantsOK
    <2> QED BY <2>1, BlocksAndRest
<1>3. (a + l) % BlockSize = r
    <2>1. p + q \in Nat /\ a + l = (p + q) * BlockSize + r
        BY <1>1, <1>2, ConstantsOK
    <2> QED BY <1>2, <2>1, RestIs
<1>4. l < BlockSize => r = l
    <2>1. l = 0 * BlockSize + l
        BY ConstantsOK
    <2> QED BY <1>2, <2>1, RestIs
<1> QED BY <1>2, <1>3, <1>4 DEF RoundDown

\* A round asks for something while anything is left, and for part of a block
\* only where it may.
LEMMA SameLengthMore ==
    ASSUME len \in Nat, NEW al \in BOOLEAN
    PROVE  /\ len > 0 => SameLength(al) > 0
           /\ al => SameLength(al) % BlockSize = 0 \/ len < BlockSize
<1>1. PICK l \in Nat : l = Least(len, RoundLen)
    BY ConstantsOK DEF Least
<1>2. /\ l <= len /\ (len > 0 => l > 0) /\ (l < BlockSize => l = len)
    BY <1>1, WholeBlocks, ConstantsOK DEF Least
<1>3. CASE ~al
    <2>1. SameLength(al) = l
        BY <1>1, <1>3 DEF SameLength
    <2> QED BY <1>2, <1>3, <2>1
<1>4. CASE al /\ l < BlockSize
    <2>1. SameLength(al) = l
        BY <1>1, <1>4 DEF SameLength, ShareableLen
    <2> QED BY <1>2, <1>4, <2>1
<1>5. CASE al /\ ~(l < BlockSize)
    <2>1. SameLength(al) = RoundDown(l)
        BY <1>1, <1>5 DEF SameLength, ShareableLen
    <2>2. RoundDown(l) % BlockSize = 0
        BY RoundDownFacts
    <2>3. RoundDown(l) > 0
        BY <1>5, ConstantsOK DEF RoundDown
    <2> QED BY <2>1, <2>2, <2>3
<1> QED BY <1>3, <1>4, <1>5

\* What d must have in the end, and how it gets there: before the answers of a
\* round are taken in, it has what the source is past of, and then as much as
\* the source moves on by.
Goal(d) == IF d \in at_eof /\ ~aligned THEN orig_len ELSE RoundDown(orig_len)
Enough(d) == shared[d] >= Goal(d)
Going(d) ==
    IF pc # "process" THEN d \in queued \cup in_progress /\ shared[d] >= off
    ELSE /\ d \in in_progress /\ info[d].status = "same"
         /\ info[d].bytes > 0 /\ shared[d] >= off + info[d].bytes
         /\ \A o \in in_progress : info[o].bytes <= info[d].bytes

\* The kernels that Complete speaks of.
Heeded == kernel = "refuses" => \/ at_eof = Dests \/ orig_len % BlockSize = 0
                                \/ at_eof = {} /\ refused = {}

Covered == ~failed /\ Heeded => \A d \in Asked \ refused : Enough(d) \/ Going(d)

\* The source moves by whole blocks, but for the end.
Whole ==
    /\ off % BlockSize = 0 \/ len = 0
    /\ pc \in {"ioctl", "process"} =>
          /\ len > 0 => src_length > 0
          /\ aligned => src_length % BlockSize = 0 \/ len < BlockSize

LEMMA GoalFacts ==
    ASSUME TypeOK
    PROVE  /\ RoundDown(orig_len) \in Nat /\ RoundDown(orig_len) <= orig_len
           /\ orig_len \in Nat
           /\ \A d \in Dests : Goal(d) \in Nat /\ Goal(d) <= orig_len
<1>1. orig_len \in Nat
    BY ConstantsOK DEF TypeOK, Lens
<1>2. RoundDown(orig_len) \in Nat /\ RoundDown(orig_len) <= orig_len
    BY <1>1, RoundDownFacts
<1> QED BY <1>1, <1>2 DEF Goal

LEMMA InitCovered == Init => Covered /\ Whole
<1> SUFFICES ASSUME Init PROVE Covered /\ Whole
    OBVIOUS
<1>1. Asked = {}
    BY DEF Init, Asked, Answered
<1>2. 0 % BlockSize = 0
    BY ConstantsOK
<1> QED BY <1>1, <1>2 DEF Init, Covered, Whole

\* The steps that share nothing and complete nobody who is going on.
LEMMA EasyCovered ==
    ASSUME IInv, Covered, Whole,
           \/ \E d \in Dests, u \in {0, orig_len} : Add(d, u)
           \/ \E avail \in Lens : Clamp(avail)
           \/ Populate \/ IoctlFails \/ (\E d \in Dests : Pop(d)) \/ UNCHANGED vars
    PROVE  Covered' /\ Whole'
<1>0. IInv'
    BY NextIInv DEF Next, Step
<1>1. CASE \E d \in Dests, u \in {0, orig_len} : Add(d, u)
    <2>1. PICK d \in Dests, u \in {0, orig_len} : Add(d, u)
        BY <1>1
    <2>2. /\ pc = "filling" /\ queued' = queued \cup {d}
          /\ UNCHANGED <<world, pc, ctxt, in_progress, completed, same, result>>
        BY <2>1 DEF Add
    <2>3. Asked' \subseteq queued'
        BY <2>2 DEF IInv, ListsOK, Asked, Answered
    <2>4. off = 0 /\ \A o \in Dests : shared[o] >= 0
        BY <2>2, ConstantsOK DEF IInv, TypeOK, Progress, Lens
    <2>5. \A o \in Asked' : Going(o)'
        BY <2>2, <2>3, <2>4 DEF IInv, TypeOK, Going
    <2>6. Whole'
        BY <2>2 DEF Whole
    <2> QED BY <2>5, <2>6 DEF Covered
<1>2. CASE \E avail \in Lens : Clamp(avail)
    <2>1. PICK avail \in Lens : Clamp(avail)
        BY <1>2
    <2>2. CASE avail = 0
        BY <2>1, <2>2 DEF Clamp, Covered, Whole
    <2>3. CASE avail # 0
        <3>1. /\ pc = "filling" /\ pc' = "round"
              /\ UNCHANGED <<world, off, aligned, lists, same, result>>
            BY <2>1, <2>3 DEF Clamp
        <3>2. Asked' \subseteq queued
            BY <3>1 DEF IInv, ListsOK, Asked, Answered
        <3>3. off = 0 /\ \A o \in Dests : shared[o] >= 0
            BY <3>1, ConstantsOK DEF IInv, TypeOK, Progress, Lens
        <3>4. \A o \in Asked' : Going(o)'
            BY <3>1, <3>2, <3>3 DEF IInv, TypeOK, Going
        <3>5. 0 % BlockSize = 0
            BY ConstantsOK
        <3>6. Whole'
            BY <3>1, <3>3, <3>5 DEF Whole
        <3> QED BY <3>4, <3>6 DEF Covered
    <2> QED BY <2>2, <2>3
<1>3. CASE Populate
    <2>1. /\ pc = "round" /\ pc' = "ioctl" /\ in_progress' = queued /\ queued' = {}
          /\ src_length' = SameLength(aligned)
          /\ UNCHANGED <<world, ctxt, completed, result>>
        BY <1>3 DEF Populate
    <2>2. in_progress = {}
        BY <2>1 DEF IInv, ListsOK
    <2>3. Asked' = Asked
        BY <2>1, <2>2 DEF Asked, Answered
    <2>4. Heeded' = Heeded /\ failed' = failed /\ refused' = refused
        BY <2>1 DEF Heeded
    <2>5. \A d : Enough(d) => Enough(d)'
        BY <2>1 DEF Enough, Goal, RoundDown
    <2>6. \A d : Going(d) => Going(d)'
        BY <2>1, <2>2 DEF Going
    <2>7. len \in Nat /\ aligned \in BOOLEAN
        BY ConstantsOK DEF IInv, TypeOK, Lens
    <2>8. Whole'
        BY <2>1, <2>7, SameLengthMore DEF Whole
    <2> QED BY <2>3, <2>4, <2>5, <2>6, <2>8 DEF Covered
<1>4. CASE IoctlFails
    BY <1>4 DEF IoctlFails, Covered, Whole
<1>5. CASE \E d \in Dests : Pop(d)
    <2>1. PICK d \in Dests : Pop(d)
        BY <1>5
    <2>2. /\ pc = "done" /\ d \in completed /\ completed' = completed \ {d}
          /\ UNCHANGED <<world, pc, ctxt, queued, in_progress, same>>
          /\ \A o \in Dests : o # d => result'[o] = result[o]
        BY <2>1 DEF Pop, IInv, TypeOK
    <2>3. Asked' \subseteq Asked
        BY <2>2 DEF Asked, Answered
    <2>4. Heeded' = Heeded /\ failed' = failed /\ refused' = refused
        BY <2>2 DEF Heeded
    <2>5. \A o : (Enough(o) => Enough(o)') /\ (Going(o) => Going(o)')
        BY <2>2 DEF Enough, Goal, Going, RoundDown
    <2>6. Whole'
        BY <2>2 DEF Whole
    <2> QED BY <2>3, <2>4, <2>5, <2>6 DEF Covered
<1>6. CASE UNCHANGED vars
    <2>1. Asked' = Asked /\ Heeded' = Heeded
        BY <1>6 DEF Asked, Answered, Heeded
    <2>2. \A o : (Enough(o) => Enough(o)') /\ (Going(o) => Going(o)')
        BY <1>6 DEF Enough, Goal, Going, RoundDown
    <2> QED BY <1>6, <2>1, <2>2 DEF Covered, Whole
<1> QED BY <1>1, <1>2, <1>3, <1>4, <1>5, <1>6

\* The first request in flight is one in flight.
LEMMA LeastDest ==
    ASSUME in_progress \subseteq Dests, in_progress # {}
    PROVE  First \in in_progress
<1>1. in_progress \in SUBSET Nat
    BY ConstantsOK DEF Dests
<1>2. \E d \in in_progress : \A o \in in_progress : d <= o
    BY <1>1, LeastNat
<1> QED BY <1>2 DEF First

\* The kernel's answers: one that is not refused has what it was asked for, or
\* what it can have.
LEMMA IoctlCovered ==
    ASSUME IInv, Covered, Whole, Ioctl
    PROVE  Covered' /\ Whole'
<1> DEFINE l == Least(src_length, CallLen)
<1>0. IInv'
    BY IoctlStep
<1>1. PICK a \in [in_progress -> UNION {KernelAnswers(d, l) : d \in in_progress}] :
        /\ \A d \in in_progress : a[d] \in KernelAnswers(d, l)
        /\ info' = [d \in Dests |-> IF d \in in_progress THEN a[d] ELSE info[d]]
        /\ shared' = [d \in Dests |-> IF d \in in_progress THEN SharedBy(d, l, a)
                                      ELSE shared[d]]
        /\ refused' = refused \cup
             {d \in in_progress : a[d].status # "same" /\
                ~(kernel = "refuses" /\ Unaligned(d, l) /\ a[d].status = "einval")}
        /\ IF a[First].status = "einval" /\ ~aligned
           THEN /\ aligned' = TRUE
                /\ src_length' = SameLength(TRUE)
                /\ pc' = IF src_length' # src_length THEN "ioctl" ELSE "process"
           ELSE /\ pc' = "process"
                /\ UNCHANGED <<aligned, src_length>>
    BY Zenon DEF Ioctl
<1>2. /\ pc = "ioctl" /\ pc' \in {"ioctl", "process"}
      /\ UNCHANGED <<kernel, at_eof, failed, orig_len, len, off, lists, result>>
    BY <1>1 DEF Ioctl
<1>3. /\ len \in Nat /\ off \in Nat /\ orig_len \in Nat /\ off + len = orig_len
      /\ src_length \in Nat /\ aligned \in BOOLEAN /\ in_progress \subseteq Dests
      /\ in_progress # {} /\ queued = {}
    BY <1>2, ConstantsOK DEF IInv, TypeOK, ListsOK, Progress, Lens
<1>4. /\ l \in Nat /\ l <= len /\ (len > 0 => l > 0)
      /\ l % BlockSize # 0 => l = len /\ l = src_length
    BY <1>2, <1>3, ConstantsOK DEF IInv, Round, Whole, Least
<1>5. RoundDown(l) \in Nat /\ RoundDown(l) <= l
    BY <1>4, RoundDownFacts
<1>6. Whole'
    <2>1. CASE UNCHANGED <<aligned, src_length>>
        BY <1>2, <2>1 DEF Whole
    <2>2. CASE src_length' = SameLength(TRUE)
        BY <1>2, <1>3, <2>2, SameLengthMore DEF Whole
    <2> QED BY <1>1, <2>1, <2>2
<1>7. /\ \A d \in Dests : shared[d] \in Nat /\ shared'[d] \in Nat
      /\ \A d \in Dests : shared'[d] >= shared[d]
    <2>1. \A d \in Dests : shared[d] \in Nat /\ shared'[d] \in Nat
        BY <1>0, ConstantsOK DEF IInv, TypeOK, Lens
    <2>2. ASSUME NEW d \in Dests PROVE shared'[d] >= shared[d]
        <3>1. shared'[d] = IF d \in in_progress THEN SharedBy(d, l, a) ELSE shared[d]
            BY <1>1
        <3>2. CASE shared'[d] = shared[d]
            BY <2>1, <3>2
        <3>3. CASE shared'[d] # shared[d]
            <4>1. shared'[d] = off + Taken(d, l) /\ off + Taken(d, l) > shared[d]
                BY <3>1, <3>3 DEF SharedBy
            <4> QED BY <2>1, <4>1
        <3> QED BY <3>2, <3>3
    <2> QED BY <2>1, <2>2
<1> HIDE DEF l
<1>8. ASSUME ~failed, Heeded', NEW d \in Asked', d \notin refused'
      PROVE  Enough(d)' \/ Going(d)'
    <2>1. /\ d \in Asked \ refused /\ Heeded /\ d \in Dests
        BY <1>1, <1>2, <1>8 DEF IInv, TypeOK, Asked, Answered, Heeded
    <2>2. Goal(d)' <= Goal(d) /\ Goal(d)' \in Nat /\ Goal(d) \in Nat /\ Goal(d)' <= orig_len
        <3>1. aligned' = aligned \/ aligned'
            BY <1>1
        <3> QED BY <1>2, <2>1, <3>1, GoalFacts DEF IInv, Goal, RoundDown
    <2>3. Enough(d) => Enough(d)'
        BY <1>7, <2>1, <2>2 DEF Enough
    <2>4. ASSUME Going(d), len > 0 PROVE Enough(d)' \/ Going(d)'
        <3>1. /\ d \in in_progress /\ shared[d] >= off /\ req_total[d] = off
              /\ off % BlockSize = 0 /\ l > 0
            BY <1>2, <1>3, <1>4, <2>4 DEF Going, IInv, Progress, Whole
        <3>2. RoundDown(orig_len) = off + RoundDown(len) /\ orig_len % BlockSize = len % BlockSize
            BY <1>3, <3>1, RoundedFrom
        <3>3. pc' = "ioctl" => Going(d)'
            BY <1>2, <1>3, <1>7, <2>1, <3>1 DEF Going
        <3>4. Unaligned(d, l) => d \notin at_eof
            BY <1>3, <1>4, <3>1 DEF Unaligned
        <3>5. d \notin at_eof => Goal(d)' = RoundDown(orig_len)
            BY <1>2 DEF Goal, RoundDown
        <3>6. CASE a[d].status = "same"
            <4>1. shared'[d] >= off + Taken(d, l)
                <5>1. Taken(d, l) \in Nat
                    BY <1>4, <1>5 DEF Taken
                <5>2. shared'[d] = SharedBy(d, l, a)
                    BY <1>1, <2>1, <3>1
                <5> QED BY <1>3, <1>7, <2>1, <3>1, <3>6, <5>1, <5>2 DEF SharedBy
            <4>2. CASE l % BlockSize = 0
                <5>1. RoundDown(l) = l /\ Taken(d, l) = l
                    BY <1>4, <4>2, RoundDownFacts DEF Taken
                <5>2. \A o \in in_progress : info'[o].bytes \in {0, l}
                    BY <1>1, <1>3, <1>4, <5>1, AnswerFacts
                <5>3. info'[d].bytes = l /\ info'[d].status = "same"
                    BY <1>1, <1>4, <2>1, <3>1, <3>6, <5>1, AnswerFacts
                <5>4. pc' = "process" => Going(d)'
                    BY <1>2, <1>4, <3>1, <4>1, <5>1, <5>2, <5>3 DEF Going
                <5> QED BY <1>2, <3>3, <5>4
            <4>3. CASE Unaligned(d, l)
                <5>1. Taken(d, l) = RoundDown(len) /\ l = len
                    BY <1>4, <4>3 DEF Taken, Unaligned
                <5> QED BY <3>2, <3>4, <3>5, <4>1, <4>3, <5>1 DEF Enough
            <4>4. CASE l % BlockSize # 0 /\ ~Unaligned(d, l)
                <5>1. Taken(d, l) = len
                    BY <1>4, <4>4 DEF Taken
                <5> QED BY <1>3, <1>7, <2>1, <2>2, <4>1, <5>1 DEF Enough
            <4> QED BY <4>2, <4>3, <4>4
        <3>7. CASE /\ kernel = "refuses" /\ Unaligned(d, l) /\ a[d].status = "einval"
                   /\ pc' = "process"
            <4>1. d \notin at_eof /\ l % BlockSize # 0 /\ l = len /\ l = src_length
                BY <1>4, <3>4, <3>7 DEF Unaligned
            <4>2. at_eof = {} /\ refused' = {}
                BY <1>2, <1>8, <2>1, <3>2, <3>7, <4>1 DEF Heeded
            <4>3. First \in in_progress
                BY <1>3, LeastDest
            <4>4. Unaligned(First, l)
                BY <4>1, <4>2 DEF Unaligned
            <4>5. a[First].status = "einval"
                <5>1. a[First] \in KernelAnswers(First, l)
                    BY <1>1, <4>3
                <5>2. a[First].status \in {"differs", "error", "einval"}
                    BY <3>7, <4>4, <5>1 DEF KernelAnswers
                <5>3. First \notin refused'
                    BY <4>2
                <5> QED BY <1>1, <4>3, <5>2, <5>3
            <4>6. len < BlockSize
                <5>1. CASE aligned
                    BY <1>2, <4>1, <5>1 DEF Whole
                <5>2. CASE ~aligned
                    <6>1. SameLength(TRUE) = src_length
                        BY <1>1, <3>7, <4>5, <5>2
                    <6> QED BY <1>3, <4>1, <6>1, SameLengthMore
                <5> QED BY <5>1, <5>2
            <4>7. RoundDown(len) = 0
                BY <1>3, <3>1, <4>6, RoundedFrom
            <4> QED BY <1>3, <1>7, <2>1, <3>1, <3>2, <3>5, <4>1, <4>7 DEF Enough
        <3> QED BY <1>1, <1>2, <1>8, <3>1, <3>3, <3>6, <3>7
    <2>5. ASSUME Going(d), len = 0 PROVE Enough(d)
        BY <1>2, <1>3, <1>7, <2>1, <2>5, GoalFacts DEF Going, Enough, IInv
    <2> QED BY <1>3, <1>8, <2>1, <2>3, <2>4, <2>5 DEF Covered
<1> QED BY <1>2, <1>6, <1>8 DEF Covered

\* Taking the answers in: who is not asked again has what it can have.
LEMMA ProcessCovered ==
    ASSUME IInv, Covered, Whole, Process
    PROVE  Covered' /\ Whole'
<1> DEFINE M == MaxDeduped
           finished == {d \in in_progress :
                          info[d].status # "same" \/ req_total'[d] >= orig_len}
           stop == (aligned /\ len' < BlockSize) \/ M = 0
<1>0. IInv'
    BY ProcessStep
<1>1. /\ pc = "process" /\ in_progress' = {}
      /\ req_total' = [d \in Dests |-> IF d \in in_progress THEN req_total[d] + info[d].bytes
                                       ELSE req_total[d]]
      /\ len' = len - M /\ off' = off + M
      /\ completed' = completed \cup IF stop THEN in_progress ELSE finished
      /\ queued' = IF stop THEN {} ELSE in_progress \ finished
      /\ pc' = IF queued' = {} THEN "done" ELSE "round"
      /\ UNCHANGED <<world, orig_len, aligned, result>>
    BY DEF Process
<1>2. PICK l \in Lens : AnsweredCall(l)
    BY <1>1 DEF IInv, Round
<1>3. /\ l \in Nat /\ l <= len
      /\ RoundDown(l) \in Nat /\ RoundDown(l) <= l /\ RoundDown(l) % BlockSize = 0
      /\ l % BlockSize = 0 \/ l = len
      /\ M \in {0, RoundDown(l), l}
      /\ M = 0 \/ \E d \in in_progress : info[d].bytes = M
      /\ \A d \in in_progress : info[d].bytes <= M
      /\ \A d \in in_progress : info[d].bytes \in {0, RoundDown(l), l}
    BY <1>2, MovesBy DEF AnsweredCall
<1> HIDE DEF M
<1>4. /\ len \in Nat /\ off \in Nat /\ orig_len \in Nat /\ off + len = orig_len
      /\ M \in Nat /\ M <= len /\ len' \in Nat /\ off' \in Nat /\ off' + len' = orig_len
      /\ in_progress \subseteq Dests /\ queued = {}
      /\ \A d \in Dests : shared[d] \in Nat /\ req_total[d] \in Nat /\ req_total[d] <= off
    BY <1>1, <1>3, ConstantsOK DEF IInv, TypeOK, ListsOK, Progress, Lens
<1>5. off' % BlockSize = 0 \/ len' = 0
    <2>1. CASE len = 0
        BY <1>1, <1>4, <2>1
    <2>2. CASE len # 0
        <3>1. off % BlockSize = 0
            BY <2>2 DEF Whole
        <3>2. CASE M % BlockSize = 0
            BY <1>1, <1>4, <3>1, <3>2, RoundedFrom
        <3>3. CASE M % BlockSize # 0
            <4>1. 0 % BlockSize = 0
                BY ConstantsOK
            <4>2. M = len
                BY <1>3, <3>3, <4>1
            <4> QED BY <1>1, <1>4, <4>2
        <3> QED BY <3>2, <3>3
    <2> QED BY <2>1, <2>2
<1>6. Whole'
    BY <1>1, <1>5 DEF Whole
<1>7. ASSUME ~failed, Heeded, NEW d \in Asked', d \notin refused
      PROVE  Enough(d)' \/ Going(d)'
    <2>1. d \in Asked \ refused /\ d \in Dests
        BY <1>1, <1>4, <1>7 DEF IInv, TypeOK, Asked, Answered
    <2>2. /\ Goal(d)' = Goal(d) /\ Goal(d) \in Nat /\ Goal(d) <= orig_len
          /\ aligned => Goal(d) = RoundDown(orig_len)
        BY <1>1, <2>1, GoalFacts DEF IInv, Goal, RoundDown
    <2>3. Enough(d) => Enough(d)'
        BY <1>1, <2>2 DEF Enough
    <2>4. ASSUME Going(d) PROVE Enough(d)' \/ Going(d)'
        <3>1. PICK b \in Nat :
                /\ b = info[d].bytes /\ b > 0 /\ shared[d] >= off + b
                /\ d \in in_progress /\ info[d].status = "same"
                /\ \A o \in in_progress : info[o].bytes <= b
            BY <1>1, <1>3, <2>4 DEF Going
        <3>2. M = b /\ off' = off + b /\ req_total'[d] <= off + b
            <4>1. b <= M
                BY <1>3, <3>1
            <4>2. M <= b
                BY <1>3, <1>4, <3>1
            <4> QED BY <1>1, <1>4, <2>1, <3>1, <4>1, <4>2
        <3>3. CASE stop
            <4>1. aligned /\ len' < BlockSize
                BY <3>1, <3>2, <3>3
            <4>2. Goal(d) <= off'
                <5>1. CASE len' = 0
                    BY <1>4, <2>2, <5>1
                <5>2. CASE off' % BlockSize = 0
                    <6>1. PICK p \in Nat, r \in Nat : p = off' /\ r = len' /\ orig_len = p + r
                        BY <1>4
                    <6>2. p % BlockSize = 0 /\ r < BlockSize
                        BY <4>1, <5>2, <6>1
                    <6>3. RoundDown(orig_len) = p + RoundDown(r) /\ RoundDown(r) = 0
                        BY <6>1, <6>2, RoundedFrom
                    <6> QED BY <2>2, <4>1, <6>1, <6>3
                <5> QED BY <1>5, <5>1, <5>2
            <4> QED BY <1>1, <1>4, <2>1, <2>2, <3>1, <3>2, <4>2 DEF Enough
        <3>4. CASE ~stop /\ d \in finished
            <4>1. req_total'[d] >= orig_len
                BY <3>1, <3>4
            <4>2. req_total'[d] \in Nat
                BY <1>0, <2>1, ConstantsOK DEF IInv, TypeOK, Lens
            <4>3. shared[d] >= orig_len
                BY <1>4, <2>1, <3>1, <3>2, <4>1, <4>2
            <4> QED BY <1>1, <1>4, <2>1, <2>2, <4>3 DEF Enough
        <3>5. CASE ~stop /\ d \notin finished
            <4>1. d \in queued'
                BY <1>1, <3>1, <3>5
            <4> QED BY <1>1, <3>1, <3>2, <4>1 DEF Going
        <3> QED BY <3>3, <3>4, <3>5
    <2> QED BY <1>7, <2>1, <2>3, <2>4 DEF Covered
<1>8. Heeded' = Heeded
    BY <1>1 DEF Heeded
<1> QED BY <1>1, <1>6, <1>7, <1>8 DEF Covered

\* Every step keeps all of it.
LEMMA NextCovered ==
    ASSUME IInv, Covered, Whole, [Next]_vars
    PROVE  Covered' /\ Whole'
BY EasyCovered, IoctlCovered, ProcessCovered DEF Next, Step, Finished

\* A destination is not given up early (process_dedupes(), set_aligned_same_length(),
\* dedupe_shareable_len()): when the rounds end, the storage that the kernel would
\* share is shared, if only the kernel's refusals of unaligned lengths get through
\* to the retry.
THEOREM RoundsComplete == Spec => []Complete
<1>1. Init => IInv /\ Covered /\ Whole
    BY InitIInv, InitCovered
<1>2. IInv /\ Covered /\ Whole /\ [Next]_vars => (IInv /\ Covered /\ Whole)'
    BY NextIInv, NextCovered
<1>3. IInv /\ Covered /\ Whole => Complete
    <2> SUFFICES ASSUME IInv, Covered, pc = "done", ~failed, Heeded, NEW d \in Asked \ refused
                 PROVE  shared[d] >= IF d \in at_eof /\ ~aligned THEN orig_len
                                     ELSE RoundDown(orig_len)
        BY DEF Complete, Heeded
    <2>1. ~Going(d)
        BY DEF IInv, ListsOK, Going
    <2> QED BY <2>1 DEF Covered, Enough, Goal
<1> QED BY <1>1, <1>2, <1>3, PTL DEF Spec
=============================================================================
