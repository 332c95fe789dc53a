--------------------------- MODULE JournalConsumer ---------------------------
(***************************************************************************)
(* What following the change journal promises, whatever the transport: the *)
(* resume point never passes a change that is not accounted for, in memory *)
(* or on disk.  A change is accounted for once it is in the model, or once *)
(* the operator was told that it is missing.                               *)
(***************************************************************************)
EXTENDS Integers

VARIABLES
    head,           \* changes the journal has recorded: 1..head
    position,       \* the resume point of the running consumer
    accounted,      \* changes applied or declared missing
    savedPosition,  \* the resume point a restart starts from
    savedAccounted  \* changes accounted for by what is on disk

vars == <<head, position, accounted, savedPosition, savedAccounted>>

Init ==
    /\ head = 0
    /\ position = 0
    /\ accounted = {}
    /\ savedPosition = 0
    /\ savedAccounted = {}

Record ==
    /\ head' = head + 1
    /\ UNCHANGED <<position, accounted, savedPosition, savedAccounted>>

\* The running consumer takes changes in, in any order and any number of times, moves its
\* resume point over changes it has accounted for, and may save the two together.
Consume ==
    /\ accounted \subseteq accounted'
    /\ accounted' \subseteq 1..head
    /\ position' >= position
    /\ 1..position' \subseteq accounted'
    /\ \/ UNCHANGED savedPosition
       \/ savedPosition' >= savedPosition
    /\ 1..savedPosition' \subseteq savedAccounted'
    /\ savedAccounted \subseteq savedAccounted'
    /\ savedAccounted' \subseteq accounted'
    /\ UNCHANGED head

\* A new process knows what was saved and what it can tell the operator is missing.
Restart ==
    /\ position' = savedPosition
    /\ savedAccounted \subseteq accounted'
    /\ accounted' = savedAccounted'
    /\ accounted' \subseteq 1..head
    /\ UNCHANGED <<head, savedPosition>>

Next == Record \/ Consume \/ Restart

Spec == Init /\ [][Next]_vars

=============================================================================
