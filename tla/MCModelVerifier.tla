-------------------------- MODULE MCModelVerifier --------------------------
(* ModelVerifier for TLC: two functions, a type, a global. *)
EXTENDS ModelVerifier

MCLists == <<{1, 2}, {4}, {3}>>

\* A version that records nothing; one whose events name a function and a type and miss
\* the rest; one that removes a type by name, and a function and a global unnamed.
MCCheckIns ==
    {[named |-> {}, missed |-> {}, gone |-> {}],
     [named |-> {1, 4}, missed |-> {2, 3}, gone |-> {}],
     [named |-> {4}, missed |-> {Order, 2, 3}, gone |-> {2, 3, 4}]}
============================================================================
