--------------------------- MODULE MCInfoNetwork ---------------------------
(***************************************************************************)
(* Instances of InfoNetwork for TLC.                                       *)
(***************************************************************************)
EXTENDS InfoNetworkViews, TLC

CONSTANTS n1, n2, f1

TwoNodes == {n1, n2}
OneFunction == {f1}

\* Nodes are interchangeable, and so are functions.
NodeFunctionSymmetry == Permutations(Node) \cup Permutations(Function)
=============================================================================
