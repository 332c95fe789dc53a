-------------------------- MODULE MCVersionFollower --------------------------
(* VersionFollower for TLC: two functions, the first of which calls the second. *)
EXTENDS VersionFollower

MCCallers == [f \in {1, 2} |-> IF f = 2 THEN {1} ELSE {}]

\* A signature matters only to callers, so only the second function's changes.
Seen(n) == [f \in {1, 2} |-> IF f = 2 THEN n ELSE 0]

MCCheckIns ==
    [touched : SUBSET {1, 2}, signature : {Seen(0), Seen(1)}, layout : {0}]
        \cup [touched : {{2}}, signature : {Seen(0)}, layout : {1}]
==============================================================================
