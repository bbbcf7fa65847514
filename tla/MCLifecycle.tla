---------------------------- MODULE MCLifecycle ----------------------------
(***************************************************************************)
(* Constants for TLC: the operations and the first context of Lifecycle.               *)
(***************************************************************************)
EXTENDS Lifecycle, TLC

CONSTANTS o1, o2, b1, v1, f1

TwoOps == {o1, o2}
OneContext == [f \in Paths |-> IF f = f1 THEN [type |-> "context", backend |-> b1, plan |-> v1]
                              ELSE Nothing]
=============================================================================
