----------------------------- MODULE MCAdmission -----------------------------
(* Admission on four callers of weights 1, 2, 2 and 3 and one that asks    *)
(* for more than the budget.                                               *)
EXTENDS Admission, TLC

CONSTANTS c1, c2, c3, c4, c5

MCCallers == {c1, c2, c3, c4, c5}

MCWeight == (c1 :> 1) @@ (c2 :> 2) @@ (c3 :> 2) @@ (c4 :> 3) @@ (c5 :> 4)
==============================================================================
