-------------------------- MODULE MCProposalBoundary --------------------------
(***************************************************************************)
(* ProposalBoundary for model checking: proposals and calls are            *)
(* interchangeable.  The configurations differ in the circumstances.       *)
(***************************************************************************)
EXTENDS ProposalBoundary, TLC

Symmetry == Permutations(Proposals) \cup Permutations(Slots)

=============================================================================
