----------------------------- MODULE MCScanWalk -----------------------------
(***************************************************************************)
(* Instances of ScanWalk for TLC: small trees, each with what one kind of  *)
(* run meets.                                                              *)
(***************************************************************************)
EXTENDS ScanWalk

CONSTANTS u, v      \* uuids

At(up, kind, dev, ino) ==
    [up |-> up, kind |-> kind, size |-> 2, dev |-> dev, excluded |-> FALSE,
     ino |-> ino, fresh |-> FALSE, host |-> "any"]
Device(uuid, btrfs, named, ro, answer) ==
    [uuid |-> uuid, btrfs |-> btrfs, named |-> named, ro |-> ro, answer |-> answer]
Options == [recurse |-> TRUE, skipRo |-> FALSE, min |-> 1, max |-> 0]

\* Two directories with links of one file, subvolumes below both, a mount.
Subvols ==
    [node |-> "r" :> At(None, "dir", 1, 1) @@ "d" :> At("r", "dir", 1, 2)
           @@ "s" :> At("r", "dir", 2, 3) @@ "t" :> At("d", "dir", 2, 3)
           @@ "m" :> At("d", "dir", 3, 4)
           @@ "f" :> At("s", "file", 2, 5) @@ "g" :> At("t", "file", 2, 5)
           @@ "h" :> At("m", "file", 3, 6) @@ "k" :> At("d", "file", 1, 7),
     fs |-> 1 :> Device(u, TRUE, TRUE, FALSE, "YES")
         @@ 2 :> Device(u, TRUE, TRUE, FALSE, "YES")
         @@ 3 :> Device(v, FALSE, FALSE, FALSE, "NO"),
     args |-> <<"r">>, stored |-> None, resumed |-> <<>>, opt |-> Options]
Snapshots == [Subvols EXCEPT !.fs[2].ro = TRUE, !.opt.skipRo = TRUE]
\* A checkpoint in a subvolume that has since become read-only.
Frozen ==
    [node |-> "r" :> At(None, "dir", 1, 1) @@ "s" :> At("r", "dir", 2, 2)
           @@ "t" :> At("s", "dir", 2, 3) @@ "g" :> At("t", "file", 2, 4)
           @@ "f" :> At("r", "file", 1, 5),
     fs |-> 1 :> Device(u, TRUE, TRUE, FALSE, "YES")
         @@ 2 :> Device(u, TRUE, TRUE, TRUE, "YES"),
     args |-> <<"r">>, stored |-> None, resumed |-> <<"g">>,
     opt |-> [Options EXCEPT !.skipRo = TRUE]]

\* Read-only subvolumes are skipped, this one is not; a root that is one, and
\* one that is excluded.
Writable ==
    [node |-> "r" :> At(None, "dir", 1, 1) @@ "f" :> At("r", "file", 1, 2)
           @@ "s" :> At("r", "dir", 2, 3) @@ "g" :> At("s", "file", 2, 4)
           @@ "x" :> At(None, "dir", 3, 5)
           @@ "e" :> [At(None, "dir", 1, 6) EXCEPT !.excluded = TRUE],
     fs |-> 1 :> Device(u, TRUE, TRUE, FALSE, "YES")
         @@ 2 :> Device(u, TRUE, TRUE, FALSE, "YES")
         @@ 3 :> Device(u, TRUE, TRUE, TRUE, "YES"),
     args |-> <<"r", "x", "e">>, stored |-> None, resumed |-> <<>>,
     opt |-> [Options EXCEPT !.skipRo = TRUE]]

\* Nested roots, an excluded directory, checkpoints below both.
Nested ==
    [node |-> "r" :> At(None, "dir", 1, 1) @@ "d" :> At("r", "dir", 1, 2)
           @@ "e" :> [At("r", "dir", 1, 3) EXCEPT !.excluded = TRUE]
           @@ "f" :> At("d", "file", 1, 4) @@ "g" :> At("e", "file", 1, 5)
           @@ "k" :> [At("r", "file", 1, 7) EXCEPT !.size = 0],
     fs |-> 1 :> Device(u, FALSE, TRUE, FALSE, "YES"),
     args |-> <<"r", "d">>, stored |-> u, resumed |-> <<"f", "g">>, opt |-> Options]
Flat == [Nested EXCEPT !.args = <<"r">>, !.opt.recurse = FALSE]

\* A filesystem oans does not know by name, and files that can and cannot be
\* asked.
Asking(answer, hosts) ==
    [node |-> "r" :> At(None, "dir", 1, 1)
           @@ "f" :> [At("r", "file", 1, 2) EXCEPT !.host = hosts[1]]
           @@ "g" :> [At("r", "file", 1, 3) EXCEPT !.host = hosts[2]]
           @@ "h" :> [At("r", "file", 1, 4) EXCEPT !.host = hosts[3]],
     fs |-> 1 :> Device(u, FALSE, FALSE, FALSE, answer),
     args |-> <<"r">>, stored |-> None, resumed |-> <<>>, opt |-> Options]
Deeper(w) == [w EXCEPT !.node = @ @@ "d" :> At("r", "dir", 1, 5)
                                  @@ "k" :> At("d", "file", 1, 6)]

\* Roots on several filesystems, one of which cannot be told apart, and a
\* checkpoint below one of them.
Several(given, stored) ==
    [node |-> "r" :> At(None, "dir", 1, 1) @@ "f" :> At("r", "file", 1, 2)
           @@ "m" :> At(None, "dir", 2, 3) @@ "g" :> At("m", "file", 2, 4)
           @@ "p" :> At(None, "dir", 3, 5),
     fs |-> 1 :> Device(u, FALSE, TRUE, FALSE, "YES")
         @@ 2 :> Device(v, TRUE, TRUE, FALSE, "YES")
         @@ 3 :> Device(None, FALSE, FALSE, FALSE, "NO"),
     args |-> given, stored |-> stored, resumed |-> <<"g">>, opt |-> Options]
Mounted == [Several(<<"f", "f", "r">>, None) EXCEPT !.node["m"].up = "r"]

Trees ==
    {Subvols, Snapshots, Frozen, Writable, Nested, Flat, Mounted}
    \cup {Asking("YES", <<"small", "any", "shut">>),
          Asking("UNKNOWN", <<"any", "rofs", "owned">>),
          Deeper(Asking("NO", <<"any", "small", "gone">>)),
          Asking("YES", <<"small", "shut", "small">>),
          Asking("YES", <<"owned", "shut", "rofs">>),
          Asking("NO", <<"gone", "gone", "gone">>)}
    \cup {Several(given, stored) :
            given \in {<<"r", "m">>, <<"p">>, <<"m", "r", None>>, <<"r", "p">>},
            stored \in {None, u}}

RootOrders == {Several(<<"p", "r">>, None)}
=============================================================================
