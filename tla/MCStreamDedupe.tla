--------------------------- MODULE MCStreamDedupe ---------------------------
(***************************************************************************)
(* Instances of StreamDedupe for TLC.                                      *)
(***************************************************************************)
EXTENDS StreamDedupe, TLC

CONSTANTS g1, g2, g3, w1, w2

\* One whole-file group: the best target is scanned last.
WholeKind == g1 :> "file"
WholeMembers == g1 :> Files
LastIsBest == [f \in Files |-> NFiles - f]

\* A whole-file group and an extent group that share a file.
MixedKind == g1 :> "file" @@ g2 :> "extent"
MixedMembers == g1 :> {1, 3} @@ g2 :> {1, 2, 4}

\* An extent group and a block group over the same files.
PartialKind == g2 :> "extent" @@ g3 :> "block"
PartialMembers == g2 :> {1, 2} @@ g3 :> Files

Symmetric == Permutations(Workers)
============================================================================
