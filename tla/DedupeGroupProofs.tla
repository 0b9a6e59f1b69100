------------------------- MODULE DedupeGroupProofs -------------------------
(***************************************************************************)
(* Proofs about DedupeGroup, for any number of workers, groups of any      *)
(* length, any sharing of files between them and any limit of the ioctl.   *)
(*                                                                         *)
(* What a worker owns is one invariant, Local, which its own steps keep    *)
(* and the steps of the others do not touch.  The workers share only the   *)
(* descriptors, and those are counted by FdsCounted.                       *)
(***************************************************************************)
EXTENDS DedupeGroup, FiniteSetTheorems, LeastElements

-----------------------------------------------------------------------------
(* The inductive invariant. *)

LoopLabels == {"begin", "open", "stat", "place", "map"}
AfterLoop == {"leave", "returned", "rescan", "rescanning"}
Ended == {"out", "done"}

\* Where the context and the target can be at each stage.
Where(w) ==
    /\ pc[w] # "done" => pos[w] \in list[w]
    /\ pc[w] = "begin" =>
         list[w] = Members(w) /\ pos[w] = 1 /\ tgt[w] = 0 /\ w \notin ctxt /\ queued[w] = {}
    /\ pc[w] \in {"map", "run"} => w \in ctxt
    /\ pc[w] \in {"reopen"} \cup AfterLoop => w \notin ctxt
    /\ queued[w] # {} => w \in ctxt
    /\ w \in ctxt => tgt[w] # 0
    /\ pc[w] = "close" /\ ~Last(w) => tgt[w] # 0
    /\ pc[w] = "reopen" => tgt[w] # 0 /\ ~Last(w)

\* The members the loop is through with, but for the queued ones.
Reached(w) ==
    IF pc[w] \in LoopLabels THEN {i \in list[w] : i < pos[w]}
    ELSE IF pc[w] \in {"run", "close", "reopen"} THEN {i \in list[w] : i <= pos[w]}
    ELSE list[w]

Tally(w) ==
    pc[w] \notin Ended =>
        /\ queued[w] \subseteq Reached(w)
        /\ pc[w] \notin LoopLabels \cup {"run"} => queued[w] = {}
        /\ \A i \in list[w] : accounted[w][i] = IF i \in Reached(w) \ queued[w] THEN 1 ELSE 0

\* The files a worker holds.
Holds(w) ==
    /\ pc[w] \in {"begin", "reopen", "returned", "rescan", "done"} => open_files[w] = {}
    /\ pc[w] \in {"open", "stat", "place", "map", "run"} =>
        \A i \in queued[w] \cup ({tgt[w]} \ {0}) : Group[w][i] \in open_files[w]
    /\ pc[w] \in {"stat", "place", "map"} => FileAt(w) \in open_files[w]
    /\ pc[w] = "rescanning" => open_files[w] = {FileAt(w)}

\* How full the context is.
Room(w) ==
    /\ pc[w] # "done" => Cardinality(list[w]) >= 2
    /\ pc[w] \in LoopLabels => Cardinality(queued[w]) < MaxQueable(w)

Local(w) == Where(w) /\ Tally(w) /\ Holds(w) /\ Room(w)

IInv == TypeOK /\ FdsCounted /\ \A w \in Workers : Local(w)

-----------------------------------------------------------------------------
(* Members and the order they are taken in. *)

\* A group's members are numbered from 1, finitely many, and each is a file.
LEMMA MemberFacts ==
    ASSUME NEW w \in Workers
    PROVE  /\ Members(w) = 1 .. Len(Group[w]) /\ Len(Group[w]) \in Nat
           /\ Members(w) \subseteq Nat
           /\ IsFiniteSet(Members(w)) /\ Cardinality(Members(w)) >= 2
           /\ \A i \in Members(w) : Group[w][i] \in Files
<1>1. Group[w] \in Seq(Files) /\ Len(Group[w]) >= 2
  BY GroupsOK
<1>2. Members(w) = 1 .. Len(Group[w]) /\ Len(Group[w]) \in Nat
  BY <1>1 DEF Members
<1>3. IsFiniteSet(1 .. Len(Group[w])) /\ Cardinality(1 .. Len(Group[w])) = Len(Group[w])
  BY <1>1, <1>2, FS_Interval
<1>. QED BY <1>1, <1>2, <1>3 DEF Members

\* A set of members is finite.
LEMMA SomeMembers ==
    ASSUME NEW w \in Workers, NEW S \in SUBSET Members(w)
    PROVE  IsFiniteSet(S) /\ Cardinality(S) \in Nat
BY MemberFacts, FS_Subset, FS_CardinalityType

\* A context for a list of at least two has room for at least one request.
LEMMA RoomForOne ==
    ASSUME NEW n \in Nat, n >= 2
    PROVE  Min({n, MaxPerIoctl}) - 1 \in Nat /\ Min({n, MaxPerIoctl}) - 1 >= 1
<1>1. MaxPerIoctl \in Nat /\ MaxPerIoctl >= 2
  BY GroupsOK
<1>2. {n, MaxPerIoctl} \in SUBSET Nat /\ {n, MaxPerIoctl} # {}
  BY <1>1
<1>3. Min({n, MaxPerIoctl}) \in {n, MaxPerIoctl}
  BY <1>2, MinIn
<1>. QED BY <1>1, <1>3

\* What Continue does: no member is left between the old and the new position.
Went(w) ==
    \/ Last(w) /\ pc'[w] = "leave" /\ pos'[w] = pos[w]
    \/ /\ ~Last(w) /\ pc'[w] = "open"
       /\ pos'[w] \in list[w] /\ pos'[w] > pos[w]
       /\ \A i \in list[w] : i < pos'[w] <=> i <= pos[w]

\* The steps of w leave the positions and labels of the others alone.
OthersStay(w) ==
    /\ pc' \in [Workers -> Labels] /\ pos' \in [Workers -> Nat]
    /\ \A v \in Workers : v # w => pc'[v] = pc[v] /\ pos'[v] = pos[v]

\* Going to a label changes that worker's label only.
LEMMA GoToStep ==
    ASSUME TypeOK, NEW w \in Workers, NEW l \in Labels, GoTo(w, l)
    PROVE  /\ pc' \in [Workers -> Labels] /\ pc'[w] = l
           /\ \A v \in Workers : v # w => pc'[v] = pc[v]
BY DEF TypeOK, GoTo

\* The next member on the list.
LEMMA NextMember ==
    ASSUME TypeOK, NEW w \in Workers, ~Last(w)
    PROVE  /\ Min(Rest(w)) \in Nat /\ Min(Rest(w)) \in list[w] /\ Min(Rest(w)) > pos[w]
           /\ \A i \in list[w] : i < Min(Rest(w)) <=> i <= pos[w]
<1>1. list[w] \subseteq Nat /\ pos[w] \in Nat
  BY DEF TypeOK
<1>2. Rest(w) \in SUBSET Nat /\ Rest(w) # {}
  BY <1>1 DEF Rest, Last
<1>3. Min(Rest(w)) \in Rest(w) /\ \A y \in Rest(w) : Min(Rest(w)) <= y
  BY Zenon, <1>2, MinIn
<1>4. PICK m : m = Min(Rest(w))
  OBVIOUS
<1>5. m \in Rest(w) /\ \A y \in Rest(w) : m <= y
  BY Zenon, <1>3, <1>4
<1>6. m \in Nat /\ m \in list[w] /\ m > pos[w] /\ \A i \in list[w] : i < m <=> i <= pos[w]
  BY <1>1, <1>5 DEF Rest
<1>. QED BY Zenon, <1>4, <1>6

\* Continue ends the loop or goes to the next member on the list.
LEMMA ContinueStep ==
    ASSUME TypeOK, NEW w \in Workers, Continue(w)
    PROVE  Went(w) /\ OthersStay(w)
<1>1. CASE Last(w)
  <2>1. GoTo(w, "leave") /\ pos' = pos
    BY <1>1 DEF Continue
  <2>. QED BY <1>1, <2>1, GoToStep DEF Went, OthersStay, Labels, TypeOK
<1>2. CASE ~Last(w)
  <2>1. GoTo(w, "open") /\ pos' = [pos EXCEPT ![w] = Min(Rest(w))]
    BY <1>2 DEF Continue
  <2>2. pos \in [Workers -> Nat]
    BY DEF TypeOK
  <2>. QED BY <1>2, <2>1, <2>2, GoToStep, NextMember DEF Went, OthersStay, Labels
<1>. QED BY <1>1, <1>2

\* What PassOver does.
Passed(w) ==
    \/ w \in ctxt /\ Last(w) /\ pc'[w] = "run" /\ pos'[w] = pos[w]
    \/ (Last(w) => w \notin ctxt) /\ Went(w)

\* PassOver runs what is queued before a last member, and continues otherwise.
LEMMA PassOverStep ==
    ASSUME TypeOK, NEW w \in Workers, PassOver(w)
    PROVE  Passed(w) /\ OthersStay(w)
<1>1. CASE w \in ctxt /\ Last(w)
  <2>1. GoTo(w, "run") /\ pos' = pos
    BY <1>1 DEF PassOver
  <2>. QED BY <1>1, <2>1, GoToStep DEF Passed, OthersStay, Labels, TypeOK
<1>2. CASE ~(w \in ctxt /\ Last(w))
  BY <1>2, ContinueStep DEF PassOver, Passed
<1>. QED BY <1>1, <1>2

\* What Account does: one more for each member of ms.
Counted(w, ms) ==
    /\ accounted' = [v \in Workers |-> accounted'[v]]
    /\ accounted'[w] \in [Members(w) -> Nat]
    /\ \A i \in Members(w) :
        accounted'[w][i] = IF i \in ms THEN accounted[w][i] + 1 ELSE accounted[w][i]
    /\ \A v \in Workers : v # w => accounted'[v] = accounted[v]

\* Account adds one to each member of ms.
LEMMA AccountStep ==
    ASSUME TypeOK, NEW w \in Workers, NEW ms, Account(w, ms)
    PROVE  Counted(w, ms)
<1>1. accounted = [v \in Workers |-> accounted[v]] /\ accounted[w] \in [Members(w) -> Nat]
  BY DEF TypeOK
<1>2. accounted'[w] = [i \in Members(w) |->
          IF i \in ms THEN accounted[w][i] + 1 ELSE accounted[w][i]]
  BY <1>1 DEF Account
<1>3. \A v \in Workers : v # w => accounted'[v] = accounted[v]
  BY <1>1 DEF Account
<1>4. accounted' = [v \in Workers |-> accounted'[v]]
  BY <1>1 DEF Account
<1>. QED BY <1>1, <1>2, <1>3, <1>4 DEF Counted

-----------------------------------------------------------------------------
(* The shared descriptors. *)

Holders(f) == {v \in Workers : f \in open_files[v]}

\* Holders are counted by natural numbers.
LEMMA HoldersFinite ==
    ASSUME NEW f PROVE IsFiniteSet(Holders(f)) /\ Cardinality(Holders(f)) \in Nat
<1>1. IsFiniteSet(Workers) /\ Holders(f) \in SUBSET Workers
  BY GroupsOK DEF Holders
<1>. QED BY <1>1, FS_Subset, FS_CardinalityType

\* A file somebody holds has an open descriptor.
LEMMA HeldIsOpen ==
    ASSUME TypeOK, FdsCounted, NEW w \in Workers, NEW f \in open_files[w]
    PROVE  f \in Files /\ f \in fd /\ fd_refs[f] \in Nat /\ fd_refs[f] > 0
<1>1. f \in Files /\ fd_refs[f] \in Nat
  BY DEF TypeOK
<1>2. fd_refs[f] = Cardinality(Holders(f)) /\ (f \in fd <=> fd_refs[f] > 0)
  BY <1>1 DEF FdsCounted, Holders
<1>3. Holders(f) # {}
  BY DEF Holders
<1>4. Cardinality(Holders(f)) # 0
  BY <1>3, HoldersFinite, FS_EmptySet
<1>. QED BY <1>1, <1>2, <1>4

\* The types of what opening and closing touch.
FdTypes == fd \subseteq Files /\ fd_refs \in [Files -> Nat] /\ open_files \in [Workers -> SUBSET Files]

\* filerec_open_once keeps fd_refs the number of holders.
LEMMA OpenOnceStep ==
    ASSUME TypeOK, FdsCounted, NEW w \in Workers, NEW f \in Files, OpenOnce(w, f)
    PROVE  /\ FdTypes' /\ FdsCounted'
           /\ open_files'[w] = open_files[w] \cup {f}
           /\ \A v \in Workers : v # w => open_files'[v] = open_files[v]
<1>0. FdTypes
  BY DEF TypeOK, FdTypes
<1>1. CASE f \in open_files[w]
  <2>1. fd' = fd /\ fd_refs' = fd_refs /\ open_files' = open_files
    BY <1>1 DEF OpenOnce, fds
  <2>2. open_files[w] = open_files[w] \cup {f}
    BY <1>1
  <2>3. FdsCounted'
    BY <2>1 DEF FdsCounted
  <2>. QED BY <1>0, <2>1, <2>2, <2>3 DEF FdTypes
<1>2. CASE f \notin open_files[w]
  <2>1. /\ fd' = fd \cup {f} /\ fd_refs' = [fd_refs EXCEPT ![f] = @ + 1]
        /\ open_files' = [open_files EXCEPT ![w] = @ \cup {f}]
    BY <1>2 DEF OpenOnce
  <2>2. FdTypes'
    BY <1>0, <2>1 DEF FdTypes
  <2>3. /\ open_files'[w] = open_files[w] \cup {f}
        /\ \A v \in Workers : v # w => open_files'[v] = open_files[v]
    BY <1>0, <2>1 DEF FdTypes
  <2>4. FdsCounted'
    <3>. SUFFICES ASSUME NEW g \in Files
                  PROVE  fd_refs'[g] = Cardinality(Holders(g)') /\ (g \in fd' <=> fd_refs'[g] > 0)
      BY DEF FdsCounted, Holders
    <3>1. /\ fd_refs[g] = Cardinality(Holders(g)) /\ (g \in fd <=> fd_refs[g] > 0)
          /\ fd_refs[g] \in Nat
      BY <1>0 DEF FdsCounted, Holders, FdTypes
    <3>2. CASE g = f
      <4>1. Holders(g)' = Holders(g) \cup {w} /\ w \notin Holders(g)
        BY <1>2, <2>3, <3>2 DEF Holders
      <4>2. Cardinality(Holders(g)') = Cardinality(Holders(g)) + 1
        BY <4>1, HoldersFinite, FS_AddElement
      <4>3. fd_refs'[g] = fd_refs[g] + 1 /\ g \in fd'
        BY <1>0, <2>1, <3>2 DEF FdTypes
      <4>. QED BY <3>1, <4>2, <4>3
    <3>3. CASE g # f
      <4>1. Holders(g)' = Holders(g)
        BY <2>3, <3>3 DEF Holders
      <4>2. fd_refs'[g] = fd_refs[g] /\ (g \in fd' <=> g \in fd)
        BY <1>0, <2>1, <3>3 DEF FdTypes
      <4>. QED BY <3>1, <4>1, <4>2
    <3>. QED BY <3>2, <3>3
  <2>. QED BY <2>2, <2>3, <2>4
<1>. QED BY <1>1, <1>2

\* filerec_close keeps fd_refs the number of holders.
LEMMA CloseOneStep ==
    ASSUME TypeOK, FdsCounted, NEW w \in Workers, NEW f, CloseOne(w, f)
    PROVE  /\ FdTypes' /\ FdsCounted'
           /\ open_files'[w] = open_files[w] \ {f}
           /\ \A v \in Workers : v # w => open_files'[v] = open_files[v]
<1>0. FdTypes /\ f \in open_files[w]
  BY DEF TypeOK, FdTypes, CloseOne
<1>1. f \in Files /\ fd_refs[f] \in Nat /\ fd_refs[f] > 0
  BY <1>0, HeldIsOpen
<1>2. /\ fd_refs' = [fd_refs EXCEPT ![f] = @ - 1]
      /\ fd' = IF fd_refs'[f] = 0 THEN fd \ {f} ELSE fd
      /\ open_files' = [open_files EXCEPT ![w] = @ \ {f}]
  BY DEF CloseOne
<1>3. FdTypes'
  BY <1>0, <1>1, <1>2 DEF FdTypes
<1>4. /\ open_files'[w] = open_files[w] \ {f}
      /\ \A v \in Workers : v # w => open_files'[v] = open_files[v]
  BY <1>0, <1>2 DEF FdTypes
<1>5. FdsCounted'
  <2>. SUFFICES ASSUME NEW g \in Files
                PROVE  fd_refs'[g] = Cardinality(Holders(g)') /\ (g \in fd' <=> fd_refs'[g] > 0)
    BY DEF FdsCounted, Holders
  <2>1. /\ fd_refs[g] = Cardinality(Holders(g)) /\ (g \in fd <=> fd_refs[g] > 0)
        /\ fd_refs[g] \in Nat
    BY <1>0 DEF FdsCounted, Holders, FdTypes
  <2>2. CASE g = f
    <3>1. Holders(g)' = Holders(g) \ {w} /\ w \in Holders(g)
      BY <1>0, <1>4, <2>2 DEF Holders
    <3>2. Cardinality(Holders(g)') = Cardinality(Holders(g)) - 1
      BY <3>1, HoldersFinite, FS_RemoveElement
    <3>3. fd_refs'[g] = fd_refs[g] - 1 /\ (g \in fd' <=> g \in fd /\ fd_refs'[g] # 0)
      BY <1>0, <1>2, <2>2 DEF FdTypes
    <3>. QED BY <1>1, <2>1, <2>2, <3>2, <3>3
  <2>3. CASE g # f
    <3>1. Holders(g)' = Holders(g)
      BY <1>4, <2>3 DEF Holders
    <3>2. fd_refs'[g] = fd_refs[g] /\ (g \in fd' <=> g \in fd)
      BY <1>0, <1>2, <2>3 DEF FdTypes
    <3>. QED BY <2>1, <3>1, <3>2
  <2>. QED BY <2>2, <2>3
<1>. QED BY <1>3, <1>4, <1>5

\* Without opening or closing the counts stay right.
LEMMA FdsKept ==
    ASSUME TypeOK, FdsCounted, UNCHANGED <<fds, open_files>>
    PROVE  FdTypes' /\ FdsCounted'
BY DEF TypeOK, FdsCounted, FdTypes, fds

-----------------------------------------------------------------------------
(* A worker's own state. *)

\* What the steps of w leave alone: the state of the other workers.
OthersSame(w) ==
    \A v \in Workers : v # w =>
        /\ pc'[v] = pc[v] /\ pos'[v] = pos[v] /\ list'[v] = list[v] /\ tgt'[v] = tgt[v]
        /\ queued'[v] = queued[v] /\ open_files'[v] = open_files[v]
        /\ accounted'[v] = accounted[v] /\ (v \in ctxt' <=> v \in ctxt)

\* Local speaks of the worker's own state only.
LEMMA LocalSame ==
    ASSUME NEW v \in Workers, Local(v),
           pc'[v] = pc[v], pos'[v] = pos[v], list'[v] = list[v], tgt'[v] = tgt[v],
           queued'[v] = queued[v], open_files'[v] = open_files[v],
           accounted'[v] = accounted[v], v \in ctxt' <=> v \in ctxt
    PROVE  Local(v)'
<1>1. Rest(v)' = Rest(v) /\ (Last(v)' <=> Last(v)) /\ FileAt(v)' = FileAt(v)
  BY DEF Rest, Last, FileAt
<1>2. Where(v)'
  BY <1>1 DEF Local, Where
<1>3. Reached(v)' = Reached(v)
  BY DEF Reached
<1>4. Tally(v)'
  BY <1>3 DEF Local, Tally
<1>5. Holds(v)'
  BY <1>1 DEF Local, Holds
<1>6. MaxQueable(v)' = MaxQueable(v)
  BY DEF MaxQueable
<1>7. Room(v)'
  BY <1>6 DEF Local, Room
<1>. QED BY <1>2, <1>4, <1>5, <1>7 DEF Local

\* It is enough to look at the worker that steps.
LEMMA OneSteps ==
    ASSUME IInv, NEW w \in Workers, TypeOK', FdsCounted', OthersSame(w), Local(w)'
    PROVE  IInv'
<1>. SUFFICES ASSUME NEW v \in Workers PROVE Local(v)'
  BY DEF IInv
<1>1. CASE v # w
  BY <1>1, LocalSame DEF OthersSame, IInv
<1>. QED BY <1>1

\* What is left of the list after its last member.
LEMMA LastMember ==
    ASSUME TypeOK, NEW w \in Workers, Last(w)
    PROVE  \A i \in list[w] : i <= pos[w]
<1>1. list[w] \subseteq Nat /\ pos[w] \in Nat
  BY DEF TypeOK
<1>. QED BY <1>1 DEF Last, Rest

\* The room of an empty context.
LEMMA EmptyHasRoom ==
    ASSUME NEW w \in Workers, TypeOK, Cardinality(list[w]) >= 2, queued[w] = {}
    PROVE  Cardinality(queued[w]) < MaxQueable(w)
<1>1. list[w] \in SUBSET Members(w)
  BY DEF TypeOK
<1>2. Cardinality(list[w]) \in Nat
  BY <1>1, SomeMembers
<1>3. MaxQueable(w) \in Nat /\ MaxQueable(w) >= 1
  BY <1>2, RoomForOne DEF MaxQueable
<1>4. Cardinality(queued[w]) = 0
  BY FS_EmptySet
<1>. QED BY <1>3, <1>4

\* A member that is passed over is counted, and the worker goes on.
LEMMA PassedLocal ==
    ASSUME IInv, NEW w \in Workers, pc[w] \in {"open", "stat", "map"},
           Passed(w), Counted(w, {pos[w]}),
           list'[w] = list[w], tgt'[w] = tgt[w], queued'[w] = queued[w],
           open_files'[w] = open_files[w], w \in ctxt' <=> w \in ctxt
    PROVE  Local(w)'
<1>. TypeOK /\ Local(w)
  BY DEF IInv
<1>0. list[w] \subseteq Members(w) /\ list[w] \subseteq Nat /\ pos[w] \in Nat
  BY DEF TypeOK
<1>1. pos[w] \in list[w] /\ (queued[w] # {} => w \in ctxt) /\ (w \in ctxt => tgt[w] # 0)
  BY DEF Local, Where
<1>2. pc'[w] \in {"open", "leave", "run"} /\ (pc'[w] \in {"leave", "run"} => Last(w))
      /\ (pc'[w] = "run" => w \in ctxt) /\ (pc'[w] = "leave" => w \notin ctxt)
  BY DEF Passed, Went
<1>3. pos'[w] \in list[w]
  BY <1>1 DEF Passed, Went
<1>4. Where(w)'
  BY <1>1, <1>2, <1>3 DEF Where, AfterLoop
<1>5. Reached(w) = {i \in list[w] : i < pos[w]}
  BY DEF Reached, LoopLabels
<1>6. Reached(w)' = {i \in list[w] : i <= pos[w]}
  <2>1. CASE pc'[w] = "open"
    <3>1. \A i \in list[w] : i < pos'[w] <=> i <= pos[w]
      BY <2>1 DEF Passed, Went
    <3>. QED BY <2>1, <3>1 DEF Reached, LoopLabels
  <2>2. CASE pc'[w] = "run"
    <3>1. pos'[w] = pos[w]
      BY <2>2 DEF Passed, Went
    <3>. QED BY <2>2, <3>1 DEF Reached, LoopLabels
  <2>3. CASE pc'[w] = "leave"
    <3>1. \A i \in list[w] : i <= pos[w]
      BY <1>2, <2>3, LastMember
    <3>. QED BY <2>3, <3>1 DEF Reached, LoopLabels
  <2>. QED BY <1>2, <2>1, <2>2, <2>3
<1>7. /\ queued[w] \subseteq Reached(w)
      /\ \A i \in list[w] : accounted[w][i] = IF i \in Reached(w) \ queued[w] THEN 1 ELSE 0
  BY DEF Local, Tally, Ended
<1>8. \A i \in list[w] :
        accounted'[w][i] = IF i = pos[w] THEN accounted[w][i] + 1 ELSE accounted[w][i]
  BY <1>0 DEF Counted
<1>9. \A i \in list[w] : i <= pos[w] <=> i < pos[w] \/ i = pos[w]
  BY <1>0
<1>10. pos[w] \notin Reached(w) /\ pos[w] \notin queued[w]
  BY <1>0, <1>5, <1>7
<1>11. \A i \in list[w] :
         accounted'[w][i] = IF i \in Reached(w)' \ queued[w] THEN 1 ELSE 0
  BY <1>1, <1>5, <1>6, <1>7, <1>8, <1>9, <1>10
<1>12. queued[w] \subseteq Reached(w)'
  BY <1>5, <1>6, <1>7, <1>9
<1>13. Tally(w)'
  BY <1>1, <1>2, <1>11, <1>12 DEF Tally, LoopLabels
<1>14. Holds(w)'
  BY <1>2 DEF Local, Holds
<1>15. Room(w)'
  <2>1. MaxQueable(w)' = MaxQueable(w)
    BY DEF MaxQueable
  <2>. QED BY <2>1 DEF Local, Room, LoopLabels
<1>. QED BY <1>4, <1>13, <1>14, <1>15 DEF Local

-----------------------------------------------------------------------------
(* The initial state, and one lemma for each step. *)

\* A worker that has not started holds, owes and has counted nothing.
LEMMA InitIInv == Init => IInv
<1>. SUFFICES ASSUME Init PROVE IInv
  OBVIOUS
<1>1. TypeOK
  <2>1. \A w \in Workers : 1 \in Members(w) /\ Members(w) \subseteq Nat
    <3>. TAKE w \in Workers
    <3>1. Len(Group[w]) >= 2
      BY GroupsOK
    <3>. QED BY <3>1, MemberFacts
  <2>. QED BY <2>1 DEF Init, TypeOK, Labels
<1>2. FdsCounted
  <2>. SUFFICES ASSUME NEW f \in Files
                PROVE  fd_refs[f] = Cardinality(Holders(f)) /\ (f \in fd <=> fd_refs[f] > 0)
    BY DEF FdsCounted, Holders
  <2>1. Holders(f) = {}
    BY DEF Init, Holders
  <2>2. Cardinality(Holders(f)) = 0
    BY <2>1, FS_EmptySet
  <2>. QED BY <2>2 DEF Init
<1>3. ASSUME NEW w \in Workers PROVE Local(w)
  <2>1. /\ pc[w] = "begin" /\ list[w] = Members(w) /\ pos[w] = 1 /\ tgt[w] = 0
        /\ w \notin ctxt /\ queued[w] = {} /\ open_files[w] = {}
        /\ \A i \in Members(w) : accounted[w][i] = 0
    BY DEF Init
  <2>2. Members(w) = 1 .. Len(Group[w]) /\ Cardinality(Members(w)) >= 2
    BY MemberFacts
  <2>3. Len(Group[w]) >= 2 /\ Len(Group[w]) \in Nat
    BY MemberFacts, GroupsOK
  <2>4. Where(w)
    BY <2>1, <2>2, <2>3 DEF Where, AfterLoop
  <2>5. Reached(w) = {}
    BY <2>1, <2>2, <2>3 DEF Reached, LoopLabels
  <2>6. Tally(w)
    BY <2>1, <2>5 DEF Tally, LoopLabels
  <2>7. Holds(w)
    BY <2>1 DEF Holds
  <2>8. Room(w)
    BY <1>1, <2>1, <2>2, EmptyHasRoom DEF Room, LoopLabels
  <2>. QED BY <2>4, <2>6, <2>7, <2>8 DEF Local
<1>. QED BY <1>1, <1>2, <1>3 DEF IInv

\* A culled list still starts with the first member, or the group is gone.
LEMMA CleanDedupedStep ==
    ASSUME IInv, NEW w \in Workers, CleanDeduped(w) PROVE IInv'
<1>. TypeOK /\ FdsCounted /\ Local(w) /\ pc[w] = "begin"
  BY DEF IInv, CleanDeduped
<1>1. /\ list[w] = Members(w) /\ pos[w] = 1 /\ tgt[w] = 0 /\ w \notin ctxt
      /\ queued[w] = {} /\ open_files[w] = {} /\ 1 \in list[w]
  BY DEF Local, Where, Holds
<1>2. /\ fd' = fd /\ fd_refs' = fd_refs /\ pos' = pos /\ tgt' = tgt /\ ctxt' = ctxt
      /\ queued' = queued /\ open_files' = open_files /\ accounted' = accounted
      /\ no_memory' = no_memory /\ gone' = gone /\ changed' = changed /\ rows' = rows
      /\ faults' = faults
  BY DEF CleanDeduped, disk, fds
<1>3. PICK left \in SUBSET list[w] :
        /\ 1 \in left
        /\ \/ list' = [list EXCEPT ![w] = {}] /\ GoTo(w, "done")
           \/ /\ ~(Cardinality(left) < 2)
              /\ list' = [list EXCEPT ![w] = left] /\ GoTo(w, "open")
  BY <1>1 DEF CleanDeduped
<1>4. /\ list'[w] \subseteq list[w]
      /\ \/ pc'[w] = "done"
         \/ pc'[w] = "open" /\ 1 \in list'[w] /\ ~(Cardinality(list'[w]) < 2)
      /\ list' \in [Workers -> SUBSET Nat] /\ pc' \in [Workers -> Labels]
      /\ \A v \in Workers : v # w => list'[v] = list[v] /\ pc'[v] = pc[v]
  <2>1. list \in [Workers -> SUBSET Nat] /\ list[w] \in SUBSET Nat
    BY DEF TypeOK
  <2>2. CASE list' = [list EXCEPT ![w] = {}] /\ GoTo(w, "done")
    BY <2>1, <2>2, GoToStep DEF Labels
  <2>3. CASE /\ ~(Cardinality(left) < 2)
             /\ list' = [list EXCEPT ![w] = left] /\ GoTo(w, "open")
    <3>1. list'[w] = left
      BY <2>1, <2>3
    <3>. QED BY <1>3, <2>1, <2>3, <3>1, GoToStep DEF Labels
  <2>. QED BY <1>3, <2>2, <2>3
<1>6. TypeOK'
  BY <1>2, <1>4 DEF TypeOK
<1>7. FdsCounted'
  BY <1>2 DEF FdsCounted
<1>8. OthersSame(w)
  BY <1>2, <1>4 DEF OthersSame
<1>9. Where(w)'
  BY <1>1, <1>2, <1>4 DEF Where, AfterLoop
<1>10. Tally(w)'
  <2>1. CASE pc'[w] = "done"
    BY <2>1 DEF Tally, Ended
  <2>2. CASE pc'[w] = "open"
    <3>1. \A i \in list[w] : i >= 1
      BY <1>1, MemberFacts
    <3>2. Reached(w) = {} /\ Reached(w)' = {}
      BY <1>1, <1>2, <1>4, <2>2, <3>1 DEF Reached, LoopLabels, TypeOK
    <3>3. \A i \in list[w] : accounted[w][i] = 0
      BY <3>2 DEF Local, Tally, Ended
    <3>. QED BY <1>1, <1>2, <1>4, <2>2, <3>2, <3>3 DEF Tally, LoopLabels
  <2>. QED BY <1>4, <2>1, <2>2
<1>11. Holds(w)'
  BY <1>1, <1>2, <1>4 DEF Holds
<1>12. Room(w)'
  <2>1. CASE pc'[w] = "done"
    BY <2>1 DEF Room, LoopLabels
  <2>2. CASE pc'[w] = "open"
    <3>1. list'[w] \in SUBSET Members(w)
      BY <1>1, <1>4
    <3>2. Cardinality(list'[w]) \in Nat
      BY <3>1, SomeMembers
    <3>3. Cardinality(list'[w]) >= 2
      BY <1>4, <2>2, <3>2
    <3>4. Min({Cardinality(list'[w]), MaxPerIoctl}) - 1 \in Nat
          /\ Min({Cardinality(list'[w]), MaxPerIoctl}) - 1 >= 1
      BY <3>2, <3>3, RoomForOne
    <3>5. Cardinality(queued'[w]) = 0
      BY <1>1, <1>2, FS_EmptySet
    <3>. QED BY <3>3, <3>4, <3>5 DEF Room, MaxQueable
  <2>. QED BY <1>4, <2>1, <2>2
<1>. QED BY <1>6, <1>7, <1>8, <1>9, <1>10, <1>11, <1>12, OneSteps DEF Local

\* A member that was opened is held; one that could not be is counted.
LEMMA OpenMemberStep ==
    ASSUME IInv, NEW w \in Workers, OpenMember(w) PROVE IInv'
<1>. TypeOK /\ FdsCounted /\ Local(w) /\ pc[w] = "open"
  BY DEF IInv, OpenMember
<1>. DEFINE f == FileAt(w)
<1>1. f \in Files
  BY MemberFacts DEF FileAt, TypeOK
<1>2. /\ gone' = gone /\ changed' = changed /\ list' = list /\ tgt' = tgt /\ ctxt' = ctxt
      /\ queued' = queued /\ no_memory' = no_memory
  BY DEF OpenMember
<1>3. CASE OpenOnce(w, f) /\ GoTo(w, "stat") /\ UNCHANGED <<rows, faults, pos, accounted>>
  <2>1. /\ FdTypes' /\ FdsCounted' /\ open_files'[w] = open_files[w] \cup {f}
        /\ \A v \in Workers : v # w => open_files'[v] = open_files[v]
    BY <1>1, <1>3, OpenOnceStep
  <2>2. /\ pc' \in [Workers -> Labels] /\ pc'[w] = "stat"
        /\ \A v \in Workers : v # w => pc'[v] = pc[v]
    BY <1>3, GoToStep DEF Labels
  <2>3. TypeOK'
    BY <1>2, <1>3, <2>1, <2>2 DEF TypeOK, FdTypes
  <2>4. OthersSame(w)
    BY <1>2, <1>3, <2>1, <2>2 DEF OthersSame
  <2>5. Where(w)'
    BY <1>2, <1>3, <2>2 DEF Local, Where, AfterLoop
  <2>6. Reached(w)' = Reached(w)
    BY <1>2, <1>3, <2>2 DEF Reached, LoopLabels
  <2>7. Tally(w)'
    BY <1>2, <1>3, <2>2, <2>6 DEF Local, Tally, LoopLabels, Ended
  <2>8. Holds(w)'
    BY <1>2, <1>3, <2>1, <2>2 DEF Local, Holds, FileAt
  <2>9. Room(w)'
    BY <1>2, <2>2 DEF Local, Room, LoopLabels, MaxQueable
  <2>. QED BY <2>1, <2>3, <2>4, <2>5, <2>7, <2>8, <2>9, OneSteps DEF Local
<1>4. CASE /\ rows' \subseteq rows /\ faults' \in Nat
           /\ Account(w, {pos[w]}) /\ PassOver(w) /\ UNCHANGED <<fds, open_files>>
  <2>1. Passed(w) /\ OthersStay(w) /\ Counted(w, {pos[w]})
    BY <1>4, PassOverStep, AccountStep
  <2>2. FdTypes' /\ FdsCounted' /\ open_files' = open_files
    BY <1>4, FdsKept
  <2>3. pos'[w] \in Members(w)
    BY <2>1 DEF Passed, Went, TypeOK
  <2>4. TypeOK'
    BY <1>2, <1>4, <2>1, <2>2, <2>3 DEF TypeOK, FdTypes, OthersStay, Counted
  <2>5. OthersSame(w)
    BY <1>2, <2>1, <2>2 DEF OthersSame, OthersStay, Counted
  <2>6. Local(w)'
    BY <1>2, <2>1, <2>2, PassedLocal
  <2>. QED BY <2>2, <2>4, <2>5, <2>6, OneSteps
<1>. QED BY <1>3, <1>4 DEF OpenMember, Unusable, TypeOK

\* A changed member is counted as passed over.
LEMMA StatMemberStep ==
    ASSUME IInv, NEW w \in Workers, StatMember(w) PROVE IInv'
<1>. TypeOK /\ FdsCounted /\ Local(w) /\ pc[w] = "stat"
  BY DEF IInv, StatMember
<1>1. /\ gone' = gone /\ changed' = changed /\ rows' = rows /\ faults' = faults
      /\ list' = list /\ tgt' = tgt /\ ctxt' = ctxt /\ queued' = queued
      /\ no_memory' = no_memory /\ open_files' = open_files
      /\ UNCHANGED <<fds, open_files>>
  BY DEF StatMember, disk, fds
<1>2. FdTypes' /\ FdsCounted'
  BY <1>1, FdsKept
<1>3. CASE Account(w, {pos[w]}) /\ PassOver(w)
  <2>1. Passed(w) /\ OthersStay(w) /\ Counted(w, {pos[w]})
    BY <1>3, PassOverStep, AccountStep
  <2>2. pos'[w] \in Members(w)
    BY <2>1 DEF Passed, Went, TypeOK
  <2>3. TypeOK'
    BY <1>1, <1>2, <2>1, <2>2 DEF TypeOK, FdTypes, OthersStay, Counted
  <2>4. OthersSame(w)
    BY <1>1, <2>1 DEF OthersSame, OthersStay, Counted
  <2>5. Local(w)'
    BY <1>1, <2>1, PassedLocal
  <2>. QED BY <1>2, <2>3, <2>4, <2>5, OneSteps
<1>4. CASE GoTo(w, "place") /\ UNCHANGED <<pos, accounted>>
  <2>1. /\ pc' \in [Workers -> Labels] /\ pc'[w] = "place"
        /\ \A v \in Workers : v # w => pc'[v] = pc[v]
    BY <1>4, GoToStep DEF Labels
  <2>2. TypeOK'
    BY <1>1, <1>2, <1>4, <2>1 DEF TypeOK, FdTypes
  <2>3. OthersSame(w)
    BY <1>1, <1>4, <2>1 DEF OthersSame
  <2>4. Where(w)'
    BY <1>1, <1>4, <2>1 DEF Local, Where, AfterLoop
  <2>5. Reached(w)' = Reached(w)
    BY <1>1, <1>4, <2>1 DEF Reached, LoopLabels
  <2>6. Tally(w)'
    BY <1>1, <1>4, <2>1, <2>5 DEF Local, Tally, LoopLabels, Ended
  <2>7. Holds(w)'
    BY <1>1, <1>4, <2>1 DEF Local, Holds, FileAt
  <2>8. Room(w)'
    BY <1>1, <2>1 DEF Local, Room, LoopLabels, MaxQueable
  <2>. QED BY <1>2, <2>2, <2>3, <2>4, <2>6, <2>7, <2>8, OneSteps DEF Local
<1>. QED BY <1>3, <1>4 DEF StatMember

\* A context has a target; the target, and a lone last member, are counted.
LEMMA PlaceStep ==
    ASSUME IInv, NEW w \in Workers, Place(w) PROVE IInv'
<1>. TypeOK /\ FdsCounted /\ Local(w) /\ pc[w] = "place"
  BY DEF IInv, Place
<1>1. /\ gone' = gone /\ changed' = changed /\ rows' = rows /\ faults' = faults
      /\ list' = list /\ queued' = queued /\ no_memory' = no_memory
      /\ open_files' = open_files /\ UNCHANGED <<fds, open_files>>
  BY DEF Place, disk, fds
<1>2. FdTypes' /\ FdsCounted'
  BY <1>1, FdsKept
<1>3. CASE /\ GoTo(w, "map") /\ ctxt' = ctxt \cup {w} /\ tgt[w] # 0
           /\ UNCHANGED <<pos, tgt, accounted>>
  <2>1. /\ pc' \in [Workers -> Labels] /\ pc'[w] = "map"
        /\ \A v \in Workers : v # w => pc'[v] = pc[v]
    BY <1>3, GoToStep DEF Labels
  <2>2. TypeOK'
    BY <1>1, <1>2, <1>3, <2>1 DEF TypeOK, FdTypes
  <2>3. OthersSame(w)
    BY <1>1, <1>3, <2>1 DEF OthersSame
  <2>4. Where(w)'
    BY <1>1, <1>3, <2>1 DEF Local, Where, AfterLoop
  <2>5. Reached(w)' = Reached(w)
    BY <1>1, <1>3, <2>1 DEF Reached, LoopLabels
  <2>6. Tally(w)'
    BY <1>1, <1>3, <2>1, <2>5 DEF Local, Tally, LoopLabels, Ended
  <2>7. Holds(w)'
    BY <1>1, <1>3, <2>1 DEF Local, Holds, FileAt
  <2>8. Room(w)'
    BY <1>1, <2>1 DEF Local, Room, LoopLabels, MaxQueable
  <2>. QED BY <1>2, <2>2, <2>3, <2>4, <2>6, <2>7, <2>8, OneSteps DEF Local
<1>4. CASE /\ w \notin ctxt /\ tgt[w] = 0 /\ Account(w, {pos[w]}) /\ Last(w)
           /\ GoTo(w, "close") /\ UNCHANGED <<pos, tgt, ctxt>>
  <2>1. /\ pc' \in [Workers -> Labels] /\ pc'[w] = "close"
        /\ \A v \in Workers : v # w => pc'[v] = pc[v]
    BY <1>4, GoToStep DEF Labels
  <2>2. Counted(w, {pos[w]})
    BY <1>4, AccountStep
  <2>3. TypeOK'
    BY <1>1, <1>2, <1>4, <2>1, <2>2 DEF TypeOK, FdTypes, Counted
  <2>4. OthersSame(w)
    BY <1>1, <1>4, <2>1, <2>2 DEF OthersSame, Counted
  <2>5. Last(w)' /\ queued'[w] = {} /\ queued[w] = {} /\ pos[w] \in list[w]
    BY <1>1, <1>4 DEF Local, Where, Last, Rest
  <2>6. Where(w)'
    BY <1>1, <1>4, <2>1, <2>5 DEF Local, Where, AfterLoop
  <2>7. Tally(w)'
    <3>1. list[w] \subseteq Members(w) /\ list[w] \subseteq Nat /\ pos[w] \in Nat
      BY DEF TypeOK
    <3>2. \A i \in list[w] : i <= pos[w]
      BY <1>4, LastMember
    <3>3. Reached(w)' = list[w]
      BY <1>1, <1>4, <2>1, <3>2 DEF Reached, LoopLabels
    <3>4. \A i \in list[w] : accounted[w][i] = IF i < pos[w] THEN 1 ELSE 0
      BY <2>5 DEF Local, Tally, Reached, LoopLabels, Ended
    <3>5. \A i \in list[w] :
            accounted'[w][i] = IF i = pos[w] THEN accounted[w][i] + 1 ELSE accounted[w][i]
      BY <2>2, <3>1 DEF Counted
    <3>6. \A i \in list[w] : accounted'[w][i] = 1
      BY <3>1, <3>2, <3>4, <3>5
    <3>. QED BY <1>1, <2>1, <2>5, <3>3, <3>6 DEF Tally, LoopLabels
  <2>8. Holds(w)'
    BY <2>1 DEF Holds
  <2>9. Room(w)'
    BY <1>1, <2>1 DEF Local, Room, LoopLabels
  <2>. QED BY <1>2, <2>3, <2>4, <2>6, <2>7, <2>8, <2>9, OneSteps DEF Local
<1>5. CASE /\ w \notin ctxt /\ tgt[w] = 0 /\ Account(w, {pos[w]}) /\ ~Last(w)
           /\ tgt' = [tgt EXCEPT ![w] = pos[w]] /\ ctxt' = ctxt \cup {w} /\ Continue(w)
  <2>1. Went(w) /\ OthersStay(w) /\ Counted(w, {pos[w]})
    BY <1>5, ContinueStep, AccountStep
  <2>2. /\ pc'[w] = "open" /\ pos'[w] \in list[w]
        /\ \A i \in list[w] : i < pos'[w] <=> i <= pos[w]
    BY <1>5, <2>1 DEF Went
  <2>3. list[w] \subseteq Members(w) /\ list[w] \subseteq Nat /\ pos[w] \in Nat
    BY DEF TypeOK
  <2>4. queued[w] = {} /\ pos[w] \in list[w] /\ FileAt(w) \in open_files[w]
    BY <1>5 DEF Local, Where, Holds
  <2>5. pos[w] # 0
    BY <2>3, <2>4, MemberFacts
  <2>6. /\ tgt' \in [Workers -> Nat] /\ tgt'[w] = pos[w]
        /\ \A v \in Workers : v # w => tgt'[v] = tgt[v]
    BY <1>5, <2>3 DEF TypeOK
  <2>7. TypeOK'
    BY <1>1, <1>2, <1>5, <2>1, <2>2, <2>3, <2>4, <2>6 DEF TypeOK, FdTypes, OthersStay, Counted
  <2>8. OthersSame(w)
    BY <1>1, <1>5, <2>1, <2>6 DEF OthersSame, OthersStay, Counted
  <2>9. Where(w)'
    BY <1>1, <1>5, <2>2, <2>4, <2>5, <2>6 DEF Where, AfterLoop
  <2>10. Tally(w)'
    <3>1. Reached(w)' = {i \in list[w] : i <= pos[w]}
      BY <1>1, <2>2 DEF Reached, LoopLabels
    <3>2. \A i \in list[w] : accounted[w][i] = IF i < pos[w] THEN 1 ELSE 0
      BY <2>4 DEF Local, Tally, Reached, LoopLabels, Ended
    <3>3. \A i \in list[w] :
            accounted'[w][i] = IF i = pos[w] THEN accounted[w][i] + 1 ELSE accounted[w][i]
      BY <2>1, <2>3 DEF Counted
    <3>4. \A i \in list[w] : accounted'[w][i] = IF i <= pos[w] THEN 1 ELSE 0
      BY <2>3, <3>2, <3>3
    <3>. QED BY <1>1, <2>2, <2>4, <3>1, <3>4 DEF Tally, LoopLabels
  <2>11. Holds(w)'
    BY <1>1, <2>2, <2>4, <2>6 DEF Holds, FileAt
  <2>12. Room(w)'
    BY <1>1, <2>2 DEF Local, Room, LoopLabels, MaxQueable
  <2>. QED BY <1>2, <2>7, <2>8, <2>9, <2>10, <2>11, <2>12, OneSteps DEF Local
<1>6. w \in ctxt => tgt[w] # 0 /\ ctxt = ctxt \cup {w}
  BY DEF Local, Where
<1>. QED BY <1>3, <1>4, <1>5, <1>6 DEF Place

\* A member is counted, or queued into a context that had room for it.
LEMMA MapMemberStep ==
    ASSUME IInv, NEW w \in Workers, MapMember(w) PROVE IInv'
<1>. TypeOK /\ FdsCounted /\ Local(w) /\ pc[w] = "map"
  BY DEF IInv, MapMember
<1>1. /\ gone' = gone /\ changed' = changed /\ rows' = rows /\ faults' = faults
      /\ list' = list /\ tgt' = tgt /\ ctxt' = ctxt /\ no_memory' = no_memory
      /\ open_files' = open_files /\ UNCHANGED <<fds, open_files>>
  BY DEF MapMember, disk, fds
<1>2. FdTypes' /\ FdsCounted'
  BY <1>1, FdsKept
<1>3. CASE Account(w, {pos[w]}) /\ PassOver(w) /\ UNCHANGED queued
  <2>1. Passed(w) /\ OthersStay(w) /\ Counted(w, {pos[w]})
    BY <1>3, PassOverStep, AccountStep
  <2>2. pos'[w] \in Members(w)
    BY <2>1 DEF Passed, Went, TypeOK
  <2>3. TypeOK'
    BY <1>1, <1>2, <1>3, <2>1, <2>2 DEF TypeOK, FdTypes, OthersStay, Counted
  <2>4. OthersSame(w)
    BY <1>1, <1>3, <2>1 DEF OthersSame, OthersStay, Counted
  <2>5. Local(w)'
    BY <1>1, <1>3, <2>1, PassedLocal
  <2>. QED BY <1>2, <2>3, <2>4, <2>5, OneSteps
<1>4. CASE /\ queued' = [queued EXCEPT ![w] = @ \cup {pos[w]}]
           /\ IF Full(w, queued'[w]) \/ Last(w) THEN GoTo(w, "run") /\ UNCHANGED pos
              ELSE Continue(w)
           /\ UNCHANGED accounted
  <2>1. list[w] \subseteq Members(w) /\ list[w] \subseteq Nat /\ pos[w] \in Nat
        /\ queued[w] \subseteq Members(w)
    BY DEF TypeOK
  <2>2. w \in ctxt /\ tgt[w] # 0 /\ pos[w] \in list[w] /\ FileAt(w) \in open_files[w]
    BY DEF Local, Where, Holds
  <2>3. /\ queued' \in [Workers -> SUBSET Nat] /\ queued'[w] = queued[w] \cup {pos[w]}
        /\ \A v \in Workers : v # w => queued'[v] = queued[v]
    BY <1>4, <2>1 DEF TypeOK
  <2>4. /\ OthersStay(w)
        /\ \/ pc'[w] = "run" /\ pos'[w] = pos[w]
           \/ /\ pc'[w] = "open" /\ pos'[w] \in list[w] /\ ~Full(w, queued'[w])
              /\ \A i \in list[w] : i < pos'[w] <=> i <= pos[w]
    <3>1. CASE Full(w, queued'[w]) \/ Last(w)
      <4>1. GoTo(w, "run") /\ pos' = pos
        BY <1>4, <3>1
      <4>. QED BY <4>1, GoToStep DEF OthersStay, Labels, TypeOK
    <3>2. CASE ~(Full(w, queued'[w]) \/ Last(w))
      <4>1. Went(w) /\ OthersStay(w)
        BY <1>4, <3>2, ContinueStep
      <4>. QED BY <3>2, <4>1 DEF Went
    <3>. QED BY <3>1, <3>2
  <2>5. TypeOK'
    BY <1>1, <1>2, <1>4, <2>1, <2>2, <2>3, <2>4 DEF TypeOK, FdTypes, OthersStay
  <2>6. OthersSame(w)
    BY <1>1, <1>4, <2>3, <2>4 DEF OthersSame, OthersStay
  <2>7. Where(w)'
    BY <1>1, <2>2, <2>4 DEF Where, AfterLoop
  <2>8. Tally(w)'
    <3>1. Reached(w) = {i \in list[w] : i < pos[w]}
      BY DEF Reached, LoopLabels
    <3>2. Reached(w)' = {i \in list[w] : i <= pos[w]}
      BY <1>1, <2>4 DEF Reached, LoopLabels
    <3>3. /\ queued[w] \subseteq Reached(w)
          /\ \A i \in list[w] : accounted[w][i] = IF i \in Reached(w) \ queued[w] THEN 1 ELSE 0
      BY DEF Local, Tally, Ended
    <3>4. \A i \in list[w] : i \in Reached(w)' \ queued'[w] <=> i \in Reached(w) \ queued[w]
      BY <2>1, <2>3, <3>1, <3>2
    <3>5. queued'[w] \subseteq Reached(w)'
      BY <2>1, <2>2, <2>3, <3>1, <3>2, <3>3
    <3>. QED BY <1>1, <1>4, <2>4, <3>3, <3>4, <3>5 DEF Tally, LoopLabels
  <2>9. Holds(w)'
    <3>1. \A i \in queued[w] \cup ({tgt[w]} \ {0}) : Group[w][i] \in open_files[w]
      BY DEF Local, Holds
    <3>2. Group[w][pos[w]] \in open_files[w]
      BY <2>2 DEF FileAt
    <3>. QED BY <1>1, <2>3, <2>4, <3>1, <3>2 DEF Holds
  <2>10. Room(w)'
    <3>1. Cardinality(list[w]) >= 2
      BY DEF Local, Room
    <3>2. CASE pc'[w] = "run"
      BY <1>1, <3>1, <3>2 DEF Room, LoopLabels
    <3>3. CASE pc'[w] = "open"
      <4>1. list[w] \in SUBSET Members(w) /\ queued'[w] \in SUBSET Members(w)
        BY <2>1, <2>2, <2>3
      <4>2. Cardinality(list[w]) \in Nat /\ Cardinality(queued'[w]) \in Nat
        BY <4>1, SomeMembers
      <4>3. MaxQueable(w) \in Nat
        BY <3>1, <4>2, RoomForOne DEF MaxQueable
      <4>4. Cardinality(queued'[w]) < MaxQueable(w)
        BY <2>4, <3>3, <4>2, <4>3 DEF Full
      <4>. QED BY <1>1, <3>1, <3>3, <4>4 DEF Room, MaxQueable
    <3>. QED BY <2>4, <3>2, <3>3
  <2>. QED BY <1>2, <2>5, <2>6, <2>7, <2>8, <2>9, <2>10, OneSteps DEF Local
<1>. QED BY <1>3, <1>4 DEF MapMember

\* A group given up keeps its context and target until it is freed.
LEMMA OutOfMemoryStep ==
    ASSUME IInv, NEW w \in Workers, OutOfMemory(w) PROVE IInv'
<1>. TypeOK /\ FdsCounted /\ Local(w) /\ pc[w] \in {"map", "place"}
  BY DEF IInv, OutOfMemory
<1>1. /\ gone' = gone /\ changed' = changed /\ rows' = rows /\ faults' = faults + 1
      /\ list' = list /\ pos' = pos /\ ctxt' = ctxt /\ queued' = queued
      /\ no_memory' = no_memory \cup {w} /\ accounted' = accounted
      /\ open_files' = open_files /\ UNCHANGED <<fds, open_files>>
      /\ GoTo(w, "out") /\ tgt' = [tgt EXCEPT ![w] = IF @ = 0 THEN pos[w] ELSE @]
  BY DEF OutOfMemory, fds
<1>2. FdTypes' /\ FdsCounted'
  BY <1>1, FdsKept
<1>3. /\ pc' \in [Workers -> Labels] /\ pc'[w] = "out"
      /\ \A v \in Workers : v # w => pc'[v] = pc[v]
  BY <1>1, GoToStep DEF Labels
<1>4. /\ tgt' \in [Workers -> Nat] /\ tgt'[w] \in {tgt[w], pos[w]} /\ (tgt[w] # 0 => tgt'[w] = tgt[w])
      /\ \A v \in Workers : v # w => tgt'[v] = tgt[v]
  BY <1>1 DEF TypeOK
<1>5. TypeOK'
  BY <1>1, <1>2, <1>3, <1>4 DEF TypeOK, FdTypes
<1>6. OthersSame(w)
  BY <1>1, <1>3, <1>4 DEF OthersSame
<1>7. Where(w)'
  BY <1>1, <1>3, <1>4 DEF Local, Where, AfterLoop
<1>8. Tally(w)' /\ Holds(w)'
  BY <1>3 DEF Tally, Holds, Ended
<1>9. Room(w)'
  BY <1>1, <1>3 DEF Local, Room, LoopLabels
<1>. QED BY <1>2, <1>5, <1>6, <1>7, <1>8, <1>9, OneSteps DEF Local

\* The queued members, and no others, are counted.
LEMMA RunIoctlStep ==
    ASSUME IInv, NEW w \in Workers, RunIoctl(w) PROVE IInv'
<1>. TypeOK /\ FdsCounted /\ Local(w) /\ pc[w] = "run"
  BY DEF IInv, RunIoctl
<1>1. /\ gone' = gone /\ changed' = changed /\ rows' = rows /\ faults' = faults
      /\ list' = list /\ pos' = pos /\ tgt' = tgt /\ ctxt' = ctxt /\ no_memory' = no_memory
      /\ open_files' = open_files /\ UNCHANGED <<fds, open_files>>
      /\ GoTo(w, "close") /\ queued' = [queued EXCEPT ![w] = {}] /\ Account(w, queued[w])
  BY DEF RunIoctl, disk, fds, loop
<1>2. FdTypes' /\ FdsCounted'
  BY <1>1, FdsKept
<1>3. /\ pc' \in [Workers -> Labels] /\ pc'[w] = "close"
      /\ \A v \in Workers : v # w => pc'[v] = pc[v]
  BY <1>1, GoToStep DEF Labels
<1>4. /\ queued' \in [Workers -> SUBSET Nat] /\ queued'[w] = {}
      /\ \A v \in Workers : v # w => queued'[v] = queued[v]
  BY <1>1 DEF TypeOK
<1>5. Counted(w, queued[w])
  BY <1>1, AccountStep
<1>6. TypeOK'
  BY <1>1, <1>2, <1>3, <1>4, <1>5 DEF TypeOK, FdTypes, Counted
<1>7. OthersSame(w)
  BY <1>1, <1>3, <1>4, <1>5 DEF OthersSame, Counted
<1>8. Where(w)'
  BY <1>1, <1>3, <1>4 DEF Local, Where, AfterLoop
<1>9. Tally(w)'
  <2>1. Reached(w) = {i \in list[w] : i <= pos[w]} /\ Reached(w)' = Reached(w)
    BY <1>1, <1>3 DEF Reached, LoopLabels
  <2>2. /\ queued[w] \subseteq Reached(w)
        /\ \A i \in list[w] : accounted[w][i] = IF i \in Reached(w) \ queued[w] THEN 1 ELSE 0
    BY DEF Local, Tally, Ended
  <2>3. \A i \in list[w] :
          accounted'[w][i] = IF i \in queued[w] THEN accounted[w][i] + 1 ELSE accounted[w][i]
    BY <1>5 DEF Counted, TypeOK
  <2>4. \A i \in list[w] : accounted'[w][i] = IF i \in Reached(w) THEN 1 ELSE 0
    BY <2>2, <2>3
  <2>. QED BY <1>1, <1>3, <1>4, <2>1, <2>4 DEF Tally, LoopLabels
<1>10. Holds(w)'
  BY <1>3 DEF Holds
<1>11. Room(w)'
  BY <1>1, <1>3 DEF Local, Room, LoopLabels
<1>. QED BY <1>2, <1>6, <1>7, <1>8, <1>9, <1>10, <1>11, OneSteps DEF Local

\* Closing touches the descriptors only.
LEMMA CloseFileStep ==
    ASSUME IInv, NEW w \in Workers, NEW f, CloseFile(w, f) PROVE IInv'
<1>. TypeOK /\ FdsCounted /\ Local(w) /\ pc[w] \in {"close", "leave", "out"}
  BY DEF IInv, CloseFile
<1>1. /\ gone' = gone /\ changed' = changed /\ rows' = rows /\ faults' = faults
      /\ pc' = pc /\ list' = list /\ pos' = pos /\ tgt' = tgt /\ ctxt' = ctxt
      /\ queued' = queued /\ no_memory' = no_memory /\ accounted' = accounted
      /\ CloseOne(w, f)
  BY DEF CloseFile, disk, loop
<1>2. /\ FdTypes' /\ FdsCounted'
      /\ \A v \in Workers : v # w => open_files'[v] = open_files[v]
  BY <1>1, CloseOneStep
<1>3. TypeOK'
  BY <1>1, <1>2 DEF TypeOK, FdTypes
<1>4. OthersSame(w)
  BY <1>1, <1>2 DEF OthersSame
<1>5. Where(w)'
  BY <1>1 DEF Local, Where, Last, Rest
<1>6. Tally(w)'
  BY <1>1 DEF Local, Tally, Reached
<1>7. Holds(w)'
  BY <1>1 DEF Holds
<1>8. Room(w)'
  BY <1>1 DEF Local, Room, MaxQueable
<1>. QED BY <1>2, <1>3, <1>4, <1>5, <1>6, <1>7, <1>8, OneSteps DEF Local

\* A context that ends was run: nothing is queued any more.
LEMMA FreeContextStep ==
    ASSUME IInv, NEW w \in Workers, FreeContext(w) PROVE IInv'
<1>. TypeOK /\ FdsCounted /\ Local(w) /\ pc[w] = "close"
  BY DEF IInv, FreeContext
<1>1. /\ gone' = gone /\ changed' = changed /\ rows' = rows /\ faults' = faults
      /\ list' = list /\ pos' = pos /\ tgt' = tgt /\ ctxt' = ctxt \ {w}
      /\ queued' = queued /\ no_memory' = no_memory /\ accounted' = accounted
      /\ open_files' = open_files /\ UNCHANGED <<fds, open_files>> /\ open_files[w] = {}
      /\ GoTo(w, IF Last(w) THEN "leave" ELSE "reopen")
  BY DEF FreeContext, disk, fds, loop
<1>2. FdTypes' /\ FdsCounted'
  BY <1>1, FdsKept
<1>3. /\ pc' \in [Workers -> Labels] /\ pc'[w] = IF Last(w) THEN "leave" ELSE "reopen"
      /\ \A v \in Workers : v # w => pc'[v] = pc[v]
  BY <1>1, GoToStep DEF Labels
<1>4. TypeOK'
  BY <1>1, <1>2, <1>3 DEF TypeOK, FdTypes
<1>5. OthersSame(w)
  BY <1>1, <1>3 DEF OthersSame
<1>6. queued[w] = {}
  BY DEF Local, Tally, LoopLabels, Ended
<1>7. Where(w)'
  BY <1>1, <1>3, <1>6 DEF Local, Where, AfterLoop, Last, Rest
<1>8. Tally(w)'
  <2>1. Reached(w) = {i \in list[w] : i <= pos[w]}
    BY DEF Reached, LoopLabels
  <2>2. Reached(w)' = Reached(w)
    <3>1. CASE Last(w)
      BY <1>1, <1>3, <2>1, <3>1, LastMember DEF Reached, LoopLabels
    <3>2. CASE ~Last(w)
      BY <1>1, <1>3, <2>1, <3>2 DEF Reached, LoopLabels
    <3>. QED BY <3>1, <3>2
  <2>. QED BY <1>1, <1>3, <1>6, <2>2 DEF Local, Tally, Ended
<1>9. Holds(w)'
  BY <1>1, <1>3 DEF Holds
<1>10. Room(w)'
  BY <1>1, <1>3 DEF Local, Room, LoopLabels
<1>. QED BY <1>2, <1>4, <1>5, <1>7, <1>8, <1>9, <1>10, OneSteps DEF Local

\* The target is held again, or the rest of the list is counted.
LEMMA ReopenStep ==
    ASSUME IInv, NEW w \in Workers, Reopen(w) PROVE IInv'
<1>. TypeOK /\ FdsCounted /\ Local(w) /\ pc[w] = "reopen"
  BY DEF IInv, Reopen
<1>. DEFINE f == Group[w][tgt[w]]
<1>1. /\ gone' = gone /\ changed' = changed /\ rows' = rows
      /\ list' = list /\ tgt' = tgt /\ ctxt' = ctxt /\ queued' = queued
      /\ no_memory' = no_memory
  BY DEF Reopen
<1>2. /\ queued[w] = {} /\ tgt[w] # 0 /\ ~Last(w) /\ w \notin ctxt /\ pos[w] \in list[w]
      /\ open_files[w] = {}
  BY DEF Local, Where, Tally, Holds, LoopLabels, Ended
<1>3. f \in Files
  BY <1>2, MemberFacts DEF TypeOK
<1>4. /\ Reached(w) = {i \in list[w] : i <= pos[w]}
      /\ \A i \in list[w] : accounted[w][i] = IF i \in Reached(w) THEN 1 ELSE 0
  BY <1>2 DEF Local, Tally, Reached, LoopLabels, Ended
<1>5. CASE OpenOnce(w, f) /\ Continue(w) /\ UNCHANGED <<faults, accounted>>
  <2>1. /\ FdTypes' /\ FdsCounted' /\ open_files'[w] = open_files[w] \cup {f}
        /\ \A v \in Workers : v # w => open_files'[v] = open_files[v]
    BY <1>3, <1>5, OpenOnceStep
  <2>2. Went(w) /\ OthersStay(w)
    BY <1>5, ContinueStep
  <2>3. /\ pc'[w] = "open" /\ pos'[w] \in list[w]
        /\ \A i \in list[w] : i < pos'[w] <=> i <= pos[w]
    BY <1>2, <2>2 DEF Went
  <2>4. TypeOK'
    BY <1>1, <1>5, <2>1, <2>2, <2>3 DEF TypeOK, FdTypes, OthersStay
  <2>5. OthersSame(w)
    BY <1>1, <1>5, <2>1, <2>2 DEF OthersSame, OthersStay
  <2>6. Where(w)'
    BY <1>1, <1>2, <2>3 DEF Where, AfterLoop
  <2>7. Reached(w)' = Reached(w)
    BY <1>1, <1>4, <2>3 DEF Reached, LoopLabels
  <2>8. Tally(w)'
    BY <1>1, <1>2, <1>4, <1>5, <2>3, <2>7 DEF Tally, LoopLabels
  <2>9. Holds(w)'
    BY <1>1, <1>2, <2>1, <2>3 DEF Holds
  <2>10. Cardinality(list[w]) >= 2
    BY DEF Local, Room
  <2>11. Room(w)'
    <3>1. Cardinality(queued[w]) < MaxQueable(w)
      BY <1>2, <2>10, EmptyHasRoom
    <3>. QED BY <1>1, <2>3, <2>10, <3>1 DEF Room, MaxQueable
  <2>. QED BY <2>1, <2>4, <2>5, <2>6, <2>8, <2>9, <2>11, OneSteps DEF Local
<1>6. CASE /\ faults' \in Nat /\ Account(w, Rest(w)) /\ GoTo(w, "leave")
           /\ UNCHANGED <<pos, fds, open_files>>
  <2>1. FdTypes' /\ FdsCounted'
    BY <1>6, FdsKept
  <2>2. /\ pc' \in [Workers -> Labels] /\ pc'[w] = "leave"
        /\ \A v \in Workers : v # w => pc'[v] = pc[v]
    BY <1>6, GoToStep DEF Labels
  <2>3. Counted(w, Rest(w))
    BY <1>6, AccountStep
  <2>4. TypeOK'
    BY <1>1, <1>6, <2>1, <2>2, <2>3 DEF TypeOK, FdTypes, Counted
  <2>5. OthersSame(w)
    BY <1>1, <1>6, <2>2, <2>3 DEF OthersSame, Counted
  <2>6. Where(w)'
    BY <1>1, <1>2, <1>6, <2>2 DEF Where, AfterLoop
  <2>7. Tally(w)'
    <3>1. list[w] \subseteq Nat /\ pos[w] \in Nat /\ list[w] \subseteq Members(w)
      BY DEF TypeOK
    <3>2. Reached(w)' = list[w]
      BY <1>1, <2>2 DEF Reached, LoopLabels
    <3>3. \A i \in list[w] :
            accounted'[w][i] = IF i > pos[w] THEN accounted[w][i] + 1 ELSE accounted[w][i]
      BY <2>3, <3>1 DEF Counted, Rest
    <3>4. \A i \in list[w] : accounted[w][i] = IF i <= pos[w] THEN 1 ELSE 0
      BY <1>4
    <3>5. \A i \in list[w] : accounted'[w][i] = 1
      BY <3>1, <3>3, <3>4
    <3>. QED BY <1>1, <1>2, <2>2, <3>2, <3>5 DEF Tally, LoopLabels
  <2>8. Holds(w)'
    BY <2>2 DEF Holds
  <2>9. Room(w)'
    BY <1>1, <2>2 DEF Local, Room, LoopLabels
  <2>. QED BY <2>1, <2>4, <2>5, <2>6, <2>7, <2>8, <2>9, OneSteps DEF Local
<1>. QED BY <1>5, <1>6 DEF Reopen, Unusable, TypeOK

\* The loop ends with everything closed.
LEMMA LeaveStep ==
    ASSUME IInv, NEW w \in Workers, Leave(w) PROVE IInv'
<1>. TypeOK /\ FdsCounted /\ Local(w) /\ pc[w] = "leave"
  BY DEF IInv, Leave
<1>1. /\ gone' = gone /\ changed' = changed /\ rows' = rows /\ faults' = faults
      /\ list' = list /\ pos' = pos /\ tgt' = tgt /\ ctxt' = ctxt /\ queued' = queued
      /\ no_memory' = no_memory /\ accounted' = accounted
      /\ open_files' = open_files /\ UNCHANGED <<fds, open_files>> /\ open_files[w] = {}
      /\ GoTo(w, "returned")
  BY DEF Leave, disk, fds, loop
<1>2. FdTypes' /\ FdsCounted'
  BY <1>1, FdsKept
<1>3. /\ pc' \in [Workers -> Labels] /\ pc'[w] = "returned"
      /\ \A v \in Workers : v # w => pc'[v] = pc[v]
  BY <1>1, GoToStep DEF Labels
<1>4. TypeOK'
  BY <1>1, <1>2, <1>3 DEF TypeOK, FdTypes
<1>5. OthersSame(w)
  BY <1>1, <1>3 DEF OthersSame
<1>6. Where(w)'
  BY <1>1, <1>3 DEF Local, Where, AfterLoop
<1>7. Reached(w)' = Reached(w)
  BY <1>1, <1>3 DEF Reached, LoopLabels
<1>8. Tally(w)'
  BY <1>1, <1>3, <1>7 DEF Local, Tally, LoopLabels, Ended
<1>9. Holds(w)'
  BY <1>1, <1>3 DEF Holds
<1>10. Room(w)'
  BY <1>1, <1>3 DEF Local, Room, LoopLabels
<1>. QED BY <1>2, <1>4, <1>5, <1>6, <1>8, <1>9, <1>10, OneSteps DEF Local

\* A group given up ends without a context.
LEMMA GiveUpStep ==
    ASSUME IInv, NEW w \in Workers, GiveUp(w) PROVE IInv'
<1>. TypeOK /\ FdsCounted /\ Local(w) /\ pc[w] = "out"
  BY DEF IInv, GiveUp
<1>1. /\ gone' = gone /\ changed' = changed /\ rows' = rows /\ faults' = faults
      /\ list' = list /\ pos' = pos /\ tgt' = tgt /\ ctxt' = ctxt \ {w}
      /\ queued' = [queued EXCEPT ![w] = {}] /\ no_memory' = no_memory
      /\ accounted' = accounted /\ open_files' = open_files
      /\ UNCHANGED <<fds, open_files>> /\ open_files[w] = {} /\ GoTo(w, "done")
  BY DEF GiveUp, disk, fds, loop
<1>2. FdTypes' /\ FdsCounted'
  BY <1>1, FdsKept
<1>3. /\ pc' \in [Workers -> Labels] /\ pc'[w] = "done"
      /\ \A v \in Workers : v # w => pc'[v] = pc[v]
  BY <1>1, GoToStep DEF Labels
<1>4. /\ queued' \in [Workers -> SUBSET Nat] /\ queued'[w] = {}
      /\ \A v \in Workers : v # w => queued'[v] = queued[v]
  BY <1>1 DEF TypeOK
<1>5. TypeOK'
  BY <1>1, <1>2, <1>3, <1>4 DEF TypeOK, FdTypes
<1>6. OthersSame(w)
  BY <1>1, <1>3, <1>4 DEF OthersSame
<1>7. Where(w)'
  BY <1>1, <1>3, <1>4 DEF Where, AfterLoop
<1>8. Tally(w)' /\ Holds(w)' /\ Room(w)'
  BY <1>1, <1>3 DEF Tally, Holds, Room, Ended, LoopLabels
<1>. QED BY <1>2, <1>5, <1>6, <1>7, <1>8, OneSteps DEF Local

-----------------------------------------------------------------------------
(* The rescan. *)

\* The rescan needs nothing of the descriptors, and every member is counted.
LEMMA RescanLocal ==
    ASSUME IInv, NEW w \in Workers, pc[w] \in {"returned", "rescan", "rescanning"},
           pc'[w] \in {"rescan", "rescanning", "done"}, pos'[w] \in list[w],
           list'[w] = list[w], tgt'[w] = tgt[w], queued'[w] = queued[w],
           accounted'[w] = accounted[w], w \in ctxt' <=> w \in ctxt,
           IF pc'[w] = "rescanning" THEN open_files'[w] = {Group[w][pos'[w]]}
           ELSE open_files'[w] = {}
    PROVE  Local(w)'
<1>. Local(w)
  BY DEF IInv
<1>1. Where(w)'
  BY DEF Local, Where, AfterLoop
<1>2. Tally(w)'
  <2>1. queued[w] = {} /\ \A i \in list[w] : accounted[w][i] = 1
    BY DEF Local, Tally, Reached, LoopLabels, Ended
  <2>2. CASE pc'[w] = "done"
    BY <2>2 DEF Tally, Ended
  <2>3. CASE pc'[w] # "done"
    <3>1. Reached(w)' = list[w]
      BY <2>3 DEF Reached, LoopLabels
    <3>. QED BY <2>1, <2>3, <3>1 DEF Tally, LoopLabels
  <2>. QED BY <2>2, <2>3
<1>3. Holds(w)'
  BY DEF Holds, FileAt
<1>4. Room(w)'
  BY DEF Local, Room, LoopLabels
<1>. QED BY <1>1, <1>2, <1>3, <1>4 DEF Local

\* The rescan goes to the next member or ends.
LEMMA NextRescanStep ==
    ASSUME TypeOK, NEW w \in Workers, pos[w] \in list[w], NextRescan(w)
    PROVE  OthersStay(w) /\ pc'[w] \in {"rescan", "done"} /\ pos'[w] \in list[w]
<1>1. CASE Last(w)
  <2>1. GoTo(w, "done") /\ pos' = pos
    BY <1>1 DEF NextRescan
  <2>. QED BY <2>1, GoToStep DEF OthersStay, Labels, TypeOK
<1>2. CASE ~Last(w)
  <2>1. GoTo(w, "rescan") /\ pos' = [pos EXCEPT ![w] = Min(Rest(w))]
    BY <1>2 DEF NextRescan
  <2>2. pos \in [Workers -> Nat]
    BY DEF TypeOK
  <2>. QED BY <1>2, <2>1, <2>2, GoToStep, NextMember DEF OthersStay, Labels
<1>. QED BY <1>1, <1>2

\* The rescan starts at a member of the list.
LEMMA StartRescanStep ==
    ASSUME IInv, NEW w \in Workers, StartRescan(w) PROVE IInv'
<1>. TypeOK /\ FdsCounted /\ Local(w) /\ pc[w] = "returned"
  BY DEF IInv, StartRescan
<1>1. /\ gone' = gone /\ changed' = changed /\ rows' = rows /\ faults' = faults
      /\ list' = list /\ tgt' = tgt /\ ctxt' = ctxt /\ queued' = queued
      /\ no_memory' = no_memory /\ accounted' = accounted
      /\ open_files' = open_files /\ UNCHANGED <<fds, open_files>>
  BY DEF StartRescan, disk, fds
<1>2. FdTypes' /\ FdsCounted'
  BY <1>1, FdsKept
<1>3. open_files[w] = {} /\ pos[w] \in list[w]
  BY DEF Local, Where, Holds
<1>4. OthersStay(w) /\ pc'[w] \in {"rescan", "done"} /\ pos'[w] \in list[w]
  <2>1. CASE w \in WholeFile
    <3>1. GoTo(w, "done") /\ pos' = pos
      BY <2>1 DEF StartRescan
    <3>. QED BY <1>3, <3>1, GoToStep DEF OthersStay, Labels, TypeOK
  <2>2. CASE w \notin WholeFile
    <3>1. GoTo(w, "rescan") /\ pos' = [pos EXCEPT ![w] = Min(list[w])]
      BY <2>2 DEF StartRescan
    <3>2. list[w] \in SUBSET Nat /\ list[w] # {} /\ pos \in [Workers -> Nat]
      BY <1>3 DEF TypeOK
    <3>3. Min(list[w]) \in list[w]
      BY <3>2, MinIn
    <3>. QED BY <3>1, <3>2, <3>3, GoToStep DEF OthersStay, Labels
  <2>. QED BY <2>1, <2>2
<1>5. TypeOK'
  BY <1>1, <1>2, <1>4 DEF TypeOK, FdTypes, OthersStay
<1>6. OthersSame(w)
  BY <1>1, <1>4 DEF OthersSame, OthersStay
<1>7. Local(w)'
  BY <1>1, <1>3, <1>4, RescanLocal
<1>. QED BY <1>2, <1>5, <1>6, <1>7, OneSteps

\* The rescan holds the one file it looks at.
LEMMA RescanOpenStep ==
    ASSUME IInv, NEW w \in Workers, RescanOpen(w) PROVE IInv'
<1>. TypeOK /\ FdsCounted /\ Local(w) /\ pc[w] = "rescan"
  BY DEF IInv, RescanOpen
<1>. DEFINE f == FileAt(w)
<1>1. /\ gone' = gone /\ changed' = changed /\ rows' = rows
      /\ list' = list /\ tgt' = tgt /\ ctxt' = ctxt /\ queued' = queued
      /\ no_memory' = no_memory /\ accounted' = accounted
  BY DEF RescanOpen
<1>2. open_files[w] = {} /\ pos[w] \in list[w] /\ f \in Files
  BY MemberFacts DEF Local, Where, Holds, FileAt, TypeOK
<1>3. CASE OpenOnce(w, f) /\ GoTo(w, "rescanning") /\ UNCHANGED <<faults, pos>>
  <2>1. /\ FdTypes' /\ FdsCounted' /\ open_files'[w] = open_files[w] \cup {f}
        /\ \A v \in Workers : v # w => open_files'[v] = open_files[v]
    BY <1>2, <1>3, OpenOnceStep
  <2>2. /\ pc' \in [Workers -> Labels] /\ pc'[w] = "rescanning"
        /\ \A v \in Workers : v # w => pc'[v] = pc[v]
    BY <1>3, GoToStep DEF Labels
  <2>3. TypeOK'
    BY <1>1, <1>3, <2>1, <2>2 DEF TypeOK, FdTypes
  <2>4. OthersSame(w)
    BY <1>1, <1>3, <2>1, <2>2 DEF OthersSame
  <2>5. open_files'[w] = {Group[w][pos'[w]]}
    BY <1>2, <1>3, <2>1 DEF FileAt
  <2>6. Local(w)'
    BY <1>1, <1>2, <1>3, <2>2, <2>5, RescanLocal
  <2>. QED BY <2>1, <2>3, <2>4, <2>6, OneSteps
<1>4. CASE faults' \in Nat /\ NextRescan(w) /\ UNCHANGED <<fds, open_files>>
  <2>1. FdTypes' /\ FdsCounted' /\ open_files' = open_files
    BY <1>4, FdsKept
  <2>2. OthersStay(w) /\ pc'[w] \in {"rescan", "done"} /\ pos'[w] \in list[w]
    BY <1>2, <1>4, NextRescanStep
  <2>3. TypeOK'
    BY <1>1, <1>4, <2>1, <2>2 DEF TypeOK, FdTypes, OthersStay
  <2>4. OthersSame(w)
    BY <1>1, <2>1, <2>2 DEF OthersSame, OthersStay
  <2>5. Local(w)'
    BY <1>1, <1>2, <2>1, <2>2, RescanLocal
  <2>. QED BY <2>1, <2>3, <2>4, <2>5, OneSteps
<1>. QED BY <1>3, <1>4 DEF RescanOpen, Unusable, TypeOK

\* The rescan holds nothing between two files.
LEMMA RescanCloseStep ==
    ASSUME IInv, NEW w \in Workers, RescanClose(w) PROVE IInv'
<1>. TypeOK /\ FdsCounted /\ Local(w) /\ pc[w] = "rescanning"
  BY DEF IInv, RescanClose
<1>1. /\ gone' = gone /\ changed' = changed /\ rows' = rows /\ faults' = faults
      /\ list' = list /\ tgt' = tgt /\ ctxt' = ctxt /\ queued' = queued
      /\ no_memory' = no_memory /\ accounted' = accounted
      /\ CloseOne(w, FileAt(w)) /\ NextRescan(w)
  BY DEF RescanClose, disk
<1>2. open_files[w] = {FileAt(w)} /\ pos[w] \in list[w]
  BY DEF Local, Where, Holds
<1>3. /\ FdTypes' /\ FdsCounted' /\ open_files'[w] = open_files[w] \ {FileAt(w)}
      /\ \A v \in Workers : v # w => open_files'[v] = open_files[v]
  BY <1>1, CloseOneStep
<1>4. OthersStay(w) /\ pc'[w] \in {"rescan", "done"} /\ pos'[w] \in list[w]
  BY <1>1, <1>2, NextRescanStep
<1>5. open_files'[w] = {}
  BY <1>2, <1>3
<1>6. TypeOK'
  BY <1>1, <1>3, <1>4 DEF TypeOK, FdTypes, OthersStay
<1>7. OthersSame(w)
  BY <1>1, <1>3, <1>4 DEF OthersSame, OthersStay
<1>8. Local(w)'
  BY <1>1, <1>4, <1>5, RescanLocal
<1>. QED BY <1>3, <1>6, <1>7, <1>8, OneSteps

-----------------------------------------------------------------------------
(* The theorems. *)

\* What the workers own stays as it is when no worker steps.
LEMMA NobodySteps ==
    ASSUME IInv, gone' \subseteq Files, changed' \subseteq Files, faults' \in Nat,
           UNCHANGED <<rows, fds, pc, loop, ctxt, queued, open_files, no_memory, accounted>>
    PROVE  IInv'
<1>. TypeOK /\ FdsCounted
  BY DEF IInv
<1>1. /\ rows' = rows /\ pc' = pc /\ list' = list /\ pos' = pos /\ tgt' = tgt /\ ctxt' = ctxt
      /\ queued' = queued /\ open_files' = open_files /\ no_memory' = no_memory
      /\ accounted' = accounted
  BY DEF loop
<1>2. FdTypes' /\ FdsCounted'
  BY FdsKept
<1>3. TypeOK'
  BY <1>1, <1>2 DEF TypeOK, FdTypes
<1>4. ASSUME NEW v \in Workers PROVE Local(v)'
  BY <1>1, LocalSame DEF IInv
<1>. QED BY <1>2, <1>3, <1>4 DEF IInv

\* Every step keeps the invariant.
LEMMA NextIInv == IInv /\ [Next]_vars => IInv'
<1>. SUFFICES ASSUME IInv, [Next]_vars PROVE IInv'
  OBVIOUS
<1>0. TypeOK
  BY DEF IInv
<1>1. CASE UNCHANGED vars
  <2>1. gone' = gone /\ changed' = changed /\ faults' = faults
    BY <1>1 DEF vars, disk
  <2>. QED BY <1>0, <1>1, <2>1, NobodySteps DEF TypeOK, vars, disk
<1>2. ASSUME NEW f \in Files, Touch(f) PROVE IInv'
  BY <1>0, <1>2, NobodySteps DEF Touch, TypeOK
<1>3. ASSUME NEW w \in Workers, Work(w) PROVE IInv'
  BY <1>3, CleanDedupedStep, OpenMemberStep, StatMemberStep, PlaceStep, MapMemberStep,
     OutOfMemoryStep, RunIoctlStep, FreeContextStep, ReopenStep, LeaveStep, GiveUpStep,
     StartRescanStep, RescanOpenStep, RescanCloseStep, CloseFileStep DEF Work
<1>. QED BY <1>1, <1>2, <1>3 DEF Next, Finished

\* The invariant holds in every reachable state.
LEMMA Invariance == Spec => []IInv
BY InitIInv, NextIInv, PTL DEF Spec

\* Every variable of dedupe_extent_list's workers keeps its type: positions and
\* targets are members of the group, descriptors belong to known files.
THEOREM GroupTypes == Spec => []TypeOK
<1>1. IInv => TypeOK
  BY DEF IInv
<1>. QED BY <1>1, Invariance, PTL

\* fd_refs counts the holders of a descriptor, which is open while there are any.
THEOREM GroupFdsCounted == Spec => []FdsCounted
<1>1. IInv => FdsCounted
  BY DEF IInv
<1>. QED BY <1>1, Invariance, PTL

\* No worker uses a descriptor it holds no reference on, or a closed one.
THEOREM GroupUsesItsOwn == Spec => []UsesItsOwn
<1>1. IInv => UsesItsOwn
  <2>. SUFFICES ASSUME IInv, NEW w \in Workers, NEW i \in Using(w)
                PROVE  Group[w][i] \in open_files[w] /\ Group[w][i] \in fd
    BY DEF UsesItsOwn
  <2>1. Local(w) /\ TypeOK /\ FdsCounted
    BY DEF IInv
  <2>2. Group[w][i] \in open_files[w]
    <3>1. CASE pc[w] \in {"stat", "place"}
      BY <2>1, <3>1 DEF Using, Local, Holds, FileAt
    <3>2. CASE pc[w] = "rescanning"
      BY <2>1, <3>2 DEF Using, Local, Holds, FileAt
    <3>3. CASE pc[w] = "map"
      <4>1. i \in {pos[w], tgt[w]} \cup queued[w] /\ tgt[w] # 0
        BY <2>1, <3>3 DEF Using, Local, Where
      <4>. QED BY <2>1, <3>3, <4>1 DEF Local, Holds, FileAt
    <3>4. CASE pc[w] = "run"
      <4>1. i \in {tgt[w]} \cup queued[w] /\ tgt[w] # 0
        BY <2>1, <3>4 DEF Using, Local, Where
      <4>. QED BY <2>1, <3>4, <4>1 DEF Local, Holds
    <3>5. pc[w] \in {"stat", "place", "rescanning", "map", "run"}
      BY DEF Using
    <3>. QED BY <3>1, <3>2, <3>3, <3>4, <3>5
  <2>. QED BY <2>1, <2>2, HeldIsOpen
<1>. QED BY <1>1, Invariance, PTL

\* The asserts at the end of dedupe_extent_list hold.
THEOREM GroupNothingLeft == Spec => []NothingLeft
<1>1. IInv => NothingLeft
  BY DEF IInv, NothingLeft, Local, Where, Tally, Holds, AfterLoop, LoopLabels, Ended
<1>. QED BY <1>1, Invariance, PTL

\* The assert of add_extent_to_dedupe holds.
THEOREM GroupHasRoom == Spec => []HasRoom
<1>1. IInv => HasRoom
  BY DEF IInv, HasRoom, Local, Room, LoopLabels
<1>. QED BY <1>1, Invariance, PTL

\* dedupe_extent_list accounts for each member of its group exactly once.
THEOREM GroupAccounted == Spec => []Accounted
<1>1. IInv => Accounted
  BY DEF IInv, Accounted, Local, Tally, Reached, LoopLabels, Ended
<1>. QED BY <1>1, Invariance, PTL

\* A file leaves the hashfile only when it was found deleted.
THEOREM GroupRowsKept == Spec => []RowsKept
<1>1. Init => RowsKept
  BY DEF Init, RowsKept
<1>2. RowsKept /\ [Next]_vars => RowsKept'
  <2>. SUFFICES ASSUME RowsKept, [Next]_vars PROVE RowsKept'
    OBVIOUS
  <2>1. CASE UNCHANGED <<gone, rows>>
    BY <2>1 DEF RowsKept
  <2>2. ASSUME NEW f \in Files, Touch(f) PROVE RowsKept'
    BY <2>2 DEF Touch, RowsKept
  <2>3. ASSUME NEW w \in Workers, OpenMember(w) PROVE RowsKept'
    <3>1. gone' = gone /\ (rows' = rows \/ \E f \in gone : rows' = rows \ {f})
      BY <2>3 DEF OpenMember, NotThere
    <3>. QED BY <3>1 DEF RowsKept
  <2>4. ASSUME NEW w \in Workers, Work(w), ~OpenMember(w) PROVE UNCHANGED <<gone, rows>>
    BY <2>4 DEF Work, CleanDeduped, StatMember, Place, MapMember, OutOfMemory, RunIoctl,
       CloseFile, FreeContext, Reopen, Leave, GiveUp, StartRescan, RescanOpen, RescanClose, disk
  <2>. QED BY <2>1, <2>2, <2>3, <2>4 DEF Next, Finished, vars, disk
<1>. QED BY <1>1, <1>2, PTL DEF Spec
=============================================================================
