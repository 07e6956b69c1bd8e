-------------------------------- MODULE Walk --------------------------------
(***************************************************************************)
(* What a moving node of a Sionna scenario promises: it walks along the    *)
(* paths of its route one step at a time, keeps its sense of travel, and   *)
(* turns back only where the route ends.  A closed route has no end.       *)
(***************************************************************************)
CONSTANT Paths(_)   \* the unordered steps {p, q} of a route

VARIABLES course, here, before

Exits(p) == {q \in UNION Paths(course) : q # p /\ {p, q} \in Paths(course)}

WalkInit == here \in UNION Paths(course) /\ before = here

\* The walker goes on to a neighbouring point; back to where it came from
\* only when there is nowhere else to go.
Step == /\ here' \in Exits(here)
        /\ here' = before => Exits(here) = {before}
        /\ before' = here
        /\ UNCHANGED course

WalkSpec == WalkInit /\ [][Step]_<<course, here, before>>
=============================================================================
