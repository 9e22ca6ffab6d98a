-------------------------- MODULE InfoNetworkViews --------------------------
(***************************************************************************)
(* InfoNetwork implements PeerViews: a statement is a NodeInfoMsg, what a  *)
(* node states is what packNodeInfoMsg would pack, and statements on their *)
(* way are the messages in streams and in subscriptions.                   *)
(***************************************************************************)
EXTENDS InfoNetwork

\* No provider runs.
NotUp == [avail |-> NoFunctions, overload |-> FALSE, up |-> FALSE]

\* What an entry made by NewNodeCatalogEntry holds.
NothingKnown == [avail |-> NoFunctions, overload |-> FALSE]

\* What n states about itself.
Own(n) == IF up[n] THEN packNodeInfoMsg(catalog[n], n) ELSE NotUp

\* What n knows of m.
View(n, m) ==
    IF m = n THEN NothingKnown
    ELSE [avail |-> catalog[n].avail[m], overload |-> catalog[n].overload[m]]

\* The variables of PeerViews.
owns == [n \in Node |-> Own(n)]

views == [n \in Node |-> [m \in Node |-> View(n, m)]]

tolds == [m \in Node |-> [n \in Node |-> stream[m][n] \cup Range(topic[m][n])]]

Views == INSTANCE PeerViews WITH
    Statement <- NodeInfoMsg,
    Silent <- NotUp,
    Unknown <- NothingKnown,
    own <- owns,
    view <- views,
    told <- tolds

\* The network implements PeerViews: whatever handlers, rooms, streams and
\* crashes do, a node's view of a peer only ever changes from one statement of
\* that peer to another, whole, and a node's own entry is changed by itself
\* alone (info_room.go:117-146, catalog_cluster_level.go:53-94).
ImplementsViews == Views!Spec
=============================================================================
