--------------------------- MODULE MCHashfileRuns ---------------------------
(***************************************************************************)
(* Instances of HashfileRuns for TLC.                                      *)
(***************************************************************************)
EXTENDS HashfileRuns, TLC

\* Two roots on one filesystem, one on another.
Trees == "a" :> {"a1", "a2"} @@ "b" :> {"b1"} @@ "c" :> {"c1"}
Filesystems == "a" :> "A" @@ "b" :> "A" @@ "c" :> "C"

Plain == [dedupe |-> TRUE, partial |-> FALSE, whole |-> FALSE, min |-> 1, max |-> 0]
Scan(roots) == [modes |-> {}, hashfile |-> TRUE, files |-> roots, stdin |-> FALSE,
                bs |-> 4, opts |-> Plain, excludes |-> {}]
Again == Scan(<<>>)
Job == [Scan(<<"a", "b">>) EXCEPT !.bs = 8, !.excludes = {"a2"}, !.opts.dedupe = FALSE]
Partial == [Scan(<<"a">>) EXCEPT !.opts.partial = TRUE]
Listed == [Scan(<<"b">>) EXCEPT !.stdin = TRUE]
Reading == [Again EXCEPT !.modes = {"report"}]
Delete == [Scan(<<"a1">>) EXCEPT !.modes = {"rm"}]
Prune == [Again EXCEPT !.modes = {"prune"}]

\* What parse_options() turns down.
Refused ==
    {[Job EXCEPT !.bs = 5], [Job EXCEPT !.excludes = {"["}],
     [Partial EXCEPT !.opts.whole = TRUE], [Job EXCEPT !.opts.min = 3, !.opts.max = 2],
     [Reading EXCEPT !.modes = {"report", "prune"}], [Reading EXCEPT !.hashfile = FALSE],
     [Delete EXCEPT !.files = <<>>], [Prune EXCEPT !.files = <<"a">>],
     [Again EXCEPT !.hashfile = FALSE]}

AllCommands ==
    {Scan(<<"c">>), Partial, Again, Job, Listed, Reading, Delete, Prune} \cup Refused
ScanCommands == {Scan(<<"a">>), Scan(<<"b">>), Scan(<<"c">>)}

\* A hashfile of this version, of an older one, of duperemove, one with a
\* pattern only older versions accept, and files of other programs.
Ours == [Gone EXCEPT !.schema = "full", !.app = "oans", !.major = "mine", !.bs = 4,
                     !.fs = "A", !.rows = {[file |-> "b1", bs |-> 4, blocks |-> TRUE]}]
Older == [Ours EXCEPT !.major = "old", !.bs = 8, !.rows = {}]
Duperemove == [Older EXCEPT !.app = None]
OldPattern == [Ours EXCEPT !.scan = [opts |-> Plain, roots |-> <<"a">>, excludes |-> {"["}]]
Others == {[Gone EXCEPT !.schema = "alien", !.app = app] : app \in {None, "alien"}}

AnyFile == {Gone, Empty, Ours, Older, Duperemove, OldPattern} \cup Others
NoFile == {Gone}
=============================================================================
