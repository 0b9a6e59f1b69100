--------------------------- MODULE MCDedupeGroup ---------------------------
(***************************************************************************)
(* Instances of DedupeGroup for TLC.                                       *)
(***************************************************************************)
EXTENDS DedupeGroup, TLC

CONSTANTS w1, w2, a, b, c

\* Two extents of one file in one group, and a context for each request.  The
\* other group shares two files with it, in another order.
Repeating == w1 :> <<a, b, a, c>> @@ w2 :> <<c, a>>
=============================================================================
