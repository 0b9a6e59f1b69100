--------------------------- MODULE DedupeRequests ---------------------------
(***************************************************************************)
(* What a dedupe context promises its caller: destinations are asked for,  *)
(* the context runs once, and then each of them is handed back exactly     *)
(* once.  Abstract: nothing is said of rounds, offsets or the kernel.      *)
(***************************************************************************)
EXTENDS Naturals

CONSTANT Dests      \* the destinations of one context

VARIABLES phase,    \* filling, running or answered
          asked,    \* destinations added
          answered  \* destinations handed back

Init == phase = "filling" /\ asked = {} /\ answered = {}

Ask(d) == /\ phase = "filling" /\ d \notin asked
          /\ asked' = asked \cup {d}
          /\ UNCHANGED <<phase, answered>>

Start == /\ phase = "filling" /\ asked # {}
         /\ phase' \in {"running", "answered"}
         /\ UNCHANGED <<asked, answered>>

Complete == /\ phase = "running"
            /\ phase' = "answered"
            /\ UNCHANGED <<asked, answered>>

Answer(d) == /\ phase = "answered" /\ d \in asked \ answered
             /\ answered' = answered \cup {d}
             /\ UNCHANGED <<phase, asked>>

Next == Start \/ Complete \/ \E d \in Dests : Ask(d) \/ Answer(d)

\* No request is lost or answered twice, and a context that runs is answered in
\* full.
Safety == Init /\ [][Next]_<<phase, asked, answered>>
Spec == /\ Safety
        /\ WF_<<phase, asked, answered>>(Complete \/ \E d \in Dests : Answer(d))
============================================================================
