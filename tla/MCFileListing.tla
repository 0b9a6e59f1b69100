--------------------------- MODULE MCFileListing ---------------------------
(***************************************************************************)
(* Instances of FileListing for TLC.                                       *)
(***************************************************************************)
EXTENDS FileListing, TLC

CONSTANTS a, b, x, y, z

\* Everything, or all but one name: what is not listed is not looked at.
WholeOrPart == {Names} \cup {Names \ {n} : n \in Names}

Symmetric == Permutations(Files) \cup Permutations(Names)
=============================================================================
