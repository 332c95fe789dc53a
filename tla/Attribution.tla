----------------------------- MODULE Attribution -----------------------------
(***************************************************************************)
(* What the commits of the regen branch promise about authorship: every    *)
(* edit is committed at most once, by the owner or by one proposal, and a  *)
(* proposal's commit holds all of its edits and nothing else.              *)
(***************************************************************************)
EXTENDS Integers, Sequences

CONSTANTS
    Proposals,
    Owner,
    None,
    MaxSeq          \* bound: entries of the journal

VARIABLES
    journal,        \* sequence of [by, kind]
    credit          \* [1..MaxSeq -> author of the commit the edit is in, or None]

vars == <<journal, credit>>

Writers == Proposals \cup {Owner}

Entry == [by : Writers, kind : {"edit", "checkin"}]

Uncredited == {e \in 1..Len(journal) : journal[e].kind = "edit" /\ credit[e] = None}

EditsOf(p) == {e \in 1..Len(journal) : journal[e].kind = "edit" /\ journal[e].by = p}

Init ==
    /\ journal = <<>>
    /\ credit = [e \in 1..MaxSeq |-> None]

Record ==
    /\ Len(journal) < MaxSeq
    /\ \E entry \in Entry : journal' = Append(journal, entry)
    /\ UNCHANGED credit

Give(S, author) ==
    /\ S \subseteq Uncredited
    /\ credit' = [e \in 1..MaxSeq |-> IF e \in S THEN author ELSE credit[e]]
    /\ UNCHANGED journal

OwnerCommit == \E S \in SUBSET Uncredited : Give(S, Owner)

ProposalCommit == \E p \in Proposals : EditsOf(p) # {} /\ Give(EditsOf(p), p)

Next == Record \/ OwnerCommit \/ ProposalCommit

Spec == Init /\ [][Next]_vars

=============================================================================
