----------------------------- MODULE MCWorkQueue -----------------------------
(* A small daemon's worth of work: change batches that can be folded, a        *)
(* rebuild and two operator merges.                                            *)
EXTENDS WorkQueue, TLC

CONSTANTS a1, a2, r1, m1, m2

MCTasks == {a1, a2, r1, m1, m2}

MCKindOf == (a1 :> "apply") @@ (a2 :> "apply") @@ (r1 :> "rebuild")
            @@ (m1 :> "merge") @@ (m2 :> "merge")

MCFoldable == {a1, a2}
=============================================================================
