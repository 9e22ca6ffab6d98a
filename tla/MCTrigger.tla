----------------------------- MODULE MCTrigger -----------------------------
(***************************************************************************)
(* Instances of Trigger for TLC.                                           *)
(***************************************************************************)
EXTENDS Trigger, TLC

CONSTANTS n1, n2, r1, r2

TwoNodes == {n1, n2}
OneRequest == {r1}
TwoRequests == {r1, r2}

NearFirst == [n \in Node |-> IF n = n1 THEN <<n1, n2>> ELSE <<n2, n1>>]
============================================================================
