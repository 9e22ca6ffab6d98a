------------------------------ MODULE PeerViews ------------------------------
(***************************************************************************)
(* What the replication of catalogs promises, without rooms, streams,      *)
(* connections, goroutines or requests: each node states something about   *)
(* itself, and knows of every other node nothing, or one statement that    *)
(* this node made, whole and as it was made.  Statements may be lost,      *)
(* overtake each other and arrive more than once; a node that ends forgets *)
(* what it knew and loses what was on its way to it.                       *)
(***************************************************************************)
CONSTANTS
    Node,
    Statement,  \* what a node can state about itself
    Silent,     \* what a node that does not run states
    Unknown     \* what is known of a node before its first statement

VARIABLES
    own,        \* own[n]: what n states about itself
    view,       \* view[n][m]: what n knows of m
    told        \* told[m][n]: statements of m on their way to n

vars == <<own, view, told>>

Init ==
    /\ own = [n \in Node |-> Silent]
    /\ view = [n \in Node |-> [m \in Node |-> Unknown]]
    /\ told = [m \in Node |-> [n \in Node |-> {}]]

\* A node starts, or its functions or its load change.
Change(n) ==
    /\ \E s \in Statement : own' = [own EXCEPT ![n] = s]
    /\ UNCHANGED <<view, told>>

\* A node that runs tells some of the others what it states now.
Tell(n) ==
    /\ own[n] # Silent
    /\ \E M \in SUBSET (Node \ {n}) :
           told' = [told EXCEPT ![n] =
                        [m \in Node |-> IF m \in M THEN @[m] \cup {own[n]}
                                                   ELSE @[m]]]
    /\ UNCHANGED <<own, view>>

\* A node that runs learns a statement, which may yet arrive again.
Learn(n, m) ==
    /\ own[n] # Silent
    /\ \E s \in told[m][n] :
        /\ view' = [view EXCEPT ![n][m] = s]
        /\ \/ UNCHANGED told
           \/ told' = [told EXCEPT ![m][n] = @ \ {s}]
    /\ UNCHANGED own

\* A node ends.
Stop(n) ==
    /\ own' = [own EXCEPT ![n] = Silent]
    /\ view' = [view EXCEPT ![n] = [m \in Node |-> Unknown]]
    /\ told' = [m \in Node |-> [told[m] EXCEPT ![n] = {}]]

Next ==
    \/ \E n \in Node : Change(n) \/ Tell(n) \/ Stop(n)
    \/ \E n, m \in Node : Learn(n, m)

Spec == Init /\ [][Next]_vars
=============================================================================
