----------------------------- MODULE Namespaces -----------------------------
(***************************************************************************)
(* The handlers that create, update and delete a namespace, and what the   *)
(* handlers of functions need of it, for one namespace besides the         *)
(* default.                                                                *)
(*                                                                         *)
(* Each call to containerd is a step, and requests interleave.  A label is *)
(* there or not: of values it matters only that of "openfaas", which is    *)
(* "1" wherever these handlers set it and "true" in a namespace of an      *)
(* older release.                                                          *)
(***************************************************************************)
EXTENDS FiniteSets, Integers

CONSTANTS
    Extra,      \* labels besides openfaas
    Request,    \* requests
    Operation   \* what they may ask for

Operations == {"create", "update", "delete", "deploy", "remove"}

NamespacesAssumption ==
    /\ "openfaas" \notin Extra
    /\ Operation \subseteq Operations

Label == Extra \cup {"openfaas"}

VARIABLES
    exists,     \* the namespace exists in containerd
    labels,     \* its labels
    value,      \* the value of its openfaas label, when it has one
    functions,  \* it has a container
    req,        \* req[r]: the operation, what it asked for, and how far it is
    given,      \* history: the labels it was last given, none when unsure
    raced,      \* history: it was deleted or made while another request ran
    alone       \* history: requests that no other has overlapped with

vars == <<exists, labels, value, functions, req, given, raced, alone>>

TypeOK ==
    /\ exists \in BOOLEAN
    /\ labels \in SUBSET Label
    /\ value \in {"1", "true"}
    /\ functions \in BOOLEAN
    /\ labels # {} \/ functions => exists
    /\ req \in [Request ->
           [op : Operations \cup {"none"}, labels : SUBSET Label,
            pc : {"idle", "labels", "act", "done"},
            unset : SUBSET Label, set : SUBSET Label]]
    /\ given \in {{}} \cup {{L} : L \in SUBSET Label}
    /\ raced \in BOOLEAN
    /\ alone \in SUBSET Request

Fresh == [op |-> "none", labels |-> {}, pc |-> "idle", unset |-> {}, set |-> {}]

Init ==
    /\ \/ exists = FALSE /\ labels = {}
       \/ exists = TRUE /\ \E L \in SUBSET Extra : labels = L \cup {"openfaas"}
    /\ value \in (IF exists THEN {"1", "true"} ELSE {"1"})
    /\ functions = FALSE
    /\ req = [r \in Request |-> Fresh]
    /\ given = IF exists THEN {labels} ELSE {}
    /\ raced = FALSE
    /\ alone = {}

-----------------------------------------------------------------------------
\* The label of a request or, with its value, of the namespace.
hasOpenFaaSLabel(L, v) == "openfaas" \in L /\ v = "1"

\* The check of the other handlers takes "true" as well.
validNamespace(L) == "openfaas" \in L

Goto(r, label) == req' = [req EXCEPT ![r].pc = label]

\* What is known of the labels after r has changed them.
Wanted(r, L) == IF r \in alone THEN {L} ELSE {}

\* parseNamespaceRequest: all but the handlers of functions are asked with the
\* openfaas label among the labels.
Receive(r, op, L) ==
    /\ req[r].pc = "idle"
    /\ op \in {"create", "update", "delete"} => hasOpenFaaSLabel(L, "1")
    /\ op \in {"delete", "deploy", "remove"} => L \subseteq {"openfaas"}
    /\ req' = [req EXCEPT ![r] = [Fresh EXCEPT !.op = op, !.labels = L,
               !.pc = IF op = "delete" THEN "act" ELSE "labels"]]
    /\ alone' = IF \A q \in Request : req[q].pc \in {"idle", "done"}
                THEN {r} ELSE {}
    /\ UNCHANGED <<exists, labels, value, functions, given, raced>>

\* createNamespace: List, then Create, which refuses a name that is taken.
CreateList(r) ==
    /\ req[r].op = "create"
    /\ req[r].pc = "labels"
    /\ Goto(r, IF exists THEN "done" ELSE "act")
    /\ UNCHANGED <<exists, labels, value, functions, given, raced, alone>>

Create(r) ==
    /\ req[r].op = "create"
    /\ req[r].pc = "act"
    /\ Goto(r, "done")
    /\ IF exists
       THEN UNCHANGED <<exists, labels, value, given, raced>>
       ELSE /\ exists' = TRUE
            /\ labels' = req[r].labels
            /\ value' = "1"
            /\ given' = Wanted(r, labels')
            /\ raced' = (r \notin alone)
    /\ UNCHANGED <<functions, alone>>

\* Mutant: all labels are taken away first.
UpdateChecksClears(r) ==
    /\ req[r].op = "update"
    /\ req[r].pc = "labels"
    /\ req' = [req EXCEPT ![r] =
               IF exists /\ hasOpenFaaSLabel(labels, value)
               THEN [@ EXCEPT !.pc = "act", !.unset = labels, !.set = req[r].labels]
               ELSE [@ EXCEPT !.pc = "done"]]
    /\ UNCHANGED <<exists, labels, value, functions, given, raced, alone>>

\* updateNamespace up to the exclusions.  List and Labels are one step: of a
\* namespace that goes in between there are no labels, which is refused too.
UpdateChecks(r) ==
    /\ req[r].op = "update"
    /\ req[r].pc = "labels"
    /\ req' = [req EXCEPT ![r] =
               IF exists /\ hasOpenFaaSLabel(labels, value)
               THEN [@ EXCEPT !.pc = "act", !.unset = labels \ req[r].labels,
                              !.set = req[r].labels]
               ELSE [@ EXCEPT !.pc = "done"]]
    /\ UNCHANGED <<exists, labels, value, functions, given, raced, alone>>

\* containerd sets a label of any namespace, one that does not exist included.
SetLabel(r, L, v) ==
    /\ exists' = TRUE
    /\ labels' = L
    /\ value' = v
    /\ given' = {}
    /\ raced' = (raced \/ ~ exists)

Unset(r, key) ==
    /\ req[r].op = "update"
    /\ req[r].pc = "act"
    /\ key \in req[r].unset
    /\ SetLabel(r, labels \ {key}, value)
    /\ req' = [req EXCEPT ![r].unset = @ \ {key}]
    /\ UNCHANGED <<functions, alone>>

Set(r, key) ==
    /\ req[r].op = "update"
    /\ req[r].pc = "act"
    /\ req[r].unset = {}
    /\ key \in req[r].set
    /\ SetLabel(r, labels \cup {key}, IF key = "openfaas" THEN "1" ELSE value)
    /\ req' = [req EXCEPT ![r].set = @ \ {key}]
    /\ UNCHANGED <<functions, alone>>

\* All labels are set.
Updated(r) ==
    /\ req[r].op = "update"
    /\ req[r].pc = "act"
    /\ req[r].unset \cup req[r].set = {}
    /\ Goto(r, "done")
    /\ given' = Wanted(r, req[r].labels)
    /\ UNCHANGED <<exists, labels, value, functions, raced, alone>>

\* The client goes away, the context of the request ends and the next call
\* fails: the labels stay as they are.
Abandon(r) ==
    /\ req[r].op = "update"
    /\ req[r].pc = "act"
    /\ Goto(r, "done")
    /\ given' = {}
    /\ UNCHANGED <<exists, labels, value, functions, raced, alone>>

\* deleteNamespace: containerd refuses a namespace that is not empty.
Delete(r) ==
    /\ req[r].op = "delete"
    /\ req[r].pc = "act"
    /\ Goto(r, "done")
    /\ IF exists /\ ~ functions
       THEN /\ exists' = FALSE
            /\ labels' = {}
            /\ value' = "1"
            /\ given' = {}
            /\ raced' = (raced \/ r \notin alone)
       ELSE UNCHANGED <<exists, labels, value, given, raced>>
    /\ UNCHANGED <<functions, alone>>

\* The check of the deploy and the delete handler of functions.
CheckNamespace(r) ==
    /\ req[r].op \in {"deploy", "remove"}
    /\ req[r].pc = "labels"
    /\ Goto(r, IF validNamespace(labels) THEN "act" ELSE "done")
    /\ UNCHANGED <<exists, labels, value, functions, given, raced, alone>>

\* containerd makes the namespace of a new container if there is none.
Deploy(r) ==
    /\ req[r].op = "deploy"
    /\ req[r].pc = "act"
    /\ Goto(r, "done")
    /\ functions' = TRUE
    /\ exists' = TRUE
    /\ raced' = (raced \/ ~ exists)
    /\ UNCHANGED <<labels, value, given, alone>>

Remove(r) ==
    /\ req[r].op = "remove"
    /\ req[r].pc = "act"
    /\ Goto(r, "done")
    /\ functions' = FALSE
    /\ UNCHANGED <<exists, labels, value, given, raced, alone>>

Next ==
    \E r \in Request :
        \/ \E op \in Operation, L \in SUBSET Label : Receive(r, op, L)
        \/ CreateList(r)
        \/ Create(r)
        \/ UpdateChecks(r)
        \/ \E key \in Label : Unset(r, key) \/ Set(r, key)
        \/ Updated(r)
        \/ Abandon(r)
        \/ Delete(r)
        \/ CheckNamespace(r)
        \/ Deploy(r)
        \/ Remove(r)

Spec == Init /\ [][Next]_vars

-----------------------------------------------------------------------------
(* Properties.                                                             *)

\* A namespace never loses its openfaas label, not even while two updates set
\* and remove labels one by one or one is cut off, unless it was deleted under
\* a request that still ran: without the label no handler could get at it any
\* more (mutate_namespaces.go:63, utils.go:43).  And one that was created or
\* updated by one request at a time has exactly the labels that were asked for
\* (mutate_namespaces.go:71, :86).
LabelsKept ==
    /\ exists /\ ~ raced => validNamespace(labels)
    /\ \A L \in given : labels = L

\* No update is about to remove a label it asked for, openfaas among them, or
\* to set another.
ReqInv ==
    \A r \in Request :
        /\ req[r].op \in {"create", "update", "delete"} => validNamespace(req[r].labels)
        /\ req[r].unset \cap req[r].labels = {}
        /\ req[r].set \subseteq req[r].labels

\* While a request is alone no other acts, and an update has still to set and
\* unset exactly what separates the labels from those it asked for.
AloneInv ==
    \A r \in alone :
        /\ \A q \in Request \ {r} : req[q].pc \in {"idle", "done"}
        /\ req[r].op = "update" /\ req[r].pc = "act"
               => /\ labels \subseteq req[r].labels \cup req[r].unset
                  /\ req[r].labels \subseteq labels \cup req[r].set

\* The inductive invariant.
IInv == TypeOK /\ ReqInv /\ AloneInv /\ LabelsKept
=============================================================================
