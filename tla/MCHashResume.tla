---------------------------- MODULE MCHashResume ----------------------------
(***************************************************************************)
(* Instances of HashResume for TLC.                                        *)
(***************************************************************************)
EXTENDS HashResume

Data(from, len) == [from |-> from, len |-> len, skip |-> FALSE]
Prealloc(from, len) == [from |-> from, len |-> len, skip |-> TRUE]

\* Five cells in one extent that goes on behind the end, or in two or three;
\* rewritten in place, in two others.
Five ==
    [size |-> 5, maps |-> {{Data(0, 6)}, {Data(0, 2), Data(2, 4)},
                           {Data(0, 2), Data(2, 1), Data(3, 3)}}]
OtherFive == [size |-> 5, maps |-> {{Data(0, 3), Data(3, 2)}}]

\* Rewritten so that a hole follows.
Six == [size |-> 6, maps |-> {{Data(0, 4)}}]
Moving == <<Five, Six>>

\* Holes that do and do not fill blocks, preallocated space, a hole at the end.
Seven == [size |-> 7, maps |-> {{Data(1, 2), Data(6, 2)}}]
Eleven ==
    [size |-> 11, maps |-> {{Data(0, 1), Data(3, 2), Prealloc(5, 3),
                             Data(9, 1)}}]

\* A file that shrinks, grows to the size it had, and grows on with holes.
Growing ==
    <<Five, [size |-> 3, maps |-> {{Data(0, 4)}}], OtherFive, Seven, Eleven>>
=============================================================================
