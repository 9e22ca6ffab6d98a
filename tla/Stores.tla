------------------------------- MODULE Stores -------------------------------
(***************************************************************************)
(* The components of a node that keep something and have safety            *)
(* properties only: the catalog methods statement by statement, secrets,   *)
(* namespaces, definitions and addresses.                                  *)
(*                                                                         *)
(* The components share no variable and no property speaks of two of them, *)
(* so that a behaviour of all is a behaviour of each: focus says which of  *)
(* them moves, and the others stay in one of their initial states.         *)
(***************************************************************************)
EXTENDS Integers, FiniteSets, Sequences

CONSTANTS
    Node, Self, Goroutine, CatalogOperation,        \* CatalogRace
    Namespace, Default, Value, Length,              \* Secrets
    Writer, MaxRequests, MaxCrashes,
    Extra, SpaceRequest, SpaceOperation,            \* Namespaces
    CopyNode, CopyRequest, Image, MaxUpdates,       \* Redeploy
    Container, Pid, Addresses                       \* Addresses

VARIABLES
    focus,                                              \* who moves
    avail, total, call, fresh, last,                    \* CatalogRace
    content, provider, up, writer, want, requests, crashes,     \* Secrets
    exists, labels, value, functions, req, given, raced, alone,        \* Namespaces
    asked, container, started, files, known, reports, updates,  \* Redeploy
    task, file, removing, used, wrapped, leaks                   \* Addresses

catalog == <<avail, total, call, fresh, last>>
secrets == <<content, provider, up, writer, want, requests, crashes>>
spaces == <<exists, labels, value, functions, req, given, raced, alone>>
copies == <<asked, container, started, files, known, reports, updates>>
network == <<task, file, removing, used, wrapped, leaks>>
vars == <<focus, catalog, secrets, spaces, copies, network>>

-----------------------------------------------------------------------------
Race == INSTANCE CatalogRace WITH Operation <- CatalogOperation
Secret == INSTANCE Secrets
Space == INSTANCE Namespaces WITH
    Request <- SpaceRequest, Operation <- SpaceOperation
Copies == INSTANCE Redeploy WITH Node <- CopyNode, Request <- CopyRequest
Network == INSTANCE Addresses

\* What the components assume of their constants.
ASSUME StoresAssumption ==
    /\ Race!CatalogRaceAssumption
    /\ Secret!SecretsAssumption
    /\ Space!NamespacesAssumption
    /\ Copies!RedeployAssumption
    /\ Network!AddressesAssumption

-----------------------------------------------------------------------------
\* The catalog empty, no secret of an older release and no namespace.
AtStart ==
    /\ focus # "catalog" => \A m \in Node : avail[m] = Race!NoEntry
    /\ focus # "secrets" => content[Secret!Legacy] = "absent"
    /\ focus # "namespaces" => ~ exists
    /\ focus # "addresses" => ~ leaks

Init ==
    /\ focus \in {"catalog", "secrets", "namespaces", "definitions", "addresses"}
    /\ Race!Init /\ Secret!Init /\ Space!Init /\ Copies!Init /\ Network!Init
    /\ AtStart

CatalogMoves ==
    /\ focus = "catalog"
    /\ Race!Next
    /\ UNCHANGED <<focus, secrets, spaces, copies, network>>

SecretMoves ==
    /\ focus = "secrets"
    /\ Secret!Next
    /\ UNCHANGED <<focus, catalog, spaces, copies, network>>

SpaceMoves ==
    /\ focus = "namespaces"
    /\ Space!Next
    /\ UNCHANGED <<focus, catalog, secrets, copies, network>>

CopiesMove ==
    /\ focus = "definitions"
    /\ Copies!Next
    /\ UNCHANGED <<focus, catalog, secrets, spaces, network>>

NetworkMoves ==
    /\ focus = "addresses"
    /\ Network!Next
    /\ UNCHANGED <<focus, catalog, secrets, spaces, copies>>

Next == CatalogMoves \/ SecretMoves \/ SpaceMoves \/ CopiesMove \/ NetworkMoves

Spec == Init /\ [][Next]_vars

-----------------------------------------------------------------------------
(* The properties of the components.                                       *)

\* Each component keeps its types.
TypeOK ==
    /\ Race!TypeOK /\ Secret!TypeOK /\ Space!TypeOK /\ Copies!TypeOK
    /\ Network!TypeOK

\* CatalogRace: a recount that nothing overtakes repairs a wrong total
\* (catalog_cluster_level.go:115).
RecountRepairs == Race!RecountRepairs

\* CatalogRace: a method dereferences a missing entry only when another call's
\* delete has dropped it meanwhile, or when it is a delete of a function that
\* was not listed (catalog_cluster_level.go:89, :120).
PanicNeedsDelete == Race!PanicNeedsDelete

\* Secrets: a secret is what the last request asked for, or what the older
\* release had, through crashes and migrations (secret.go:119,
\* provider.go:227).
StoredAsAsked == Secret!StoredAsAsked

\* Namespaces: no interleaving of updates takes the openfaas label, and one
\* request at a time leaves exactly the labels it asked for
\* (mutate_namespaces.go:63, :71).
LabelsKept == Space!LabelsKept

\* Redeploy: a node refuses the status another knows only for a missing secret,
\* labels and secrets reach every replica, and a second copy loses nothing the
\* first has not lost (deploy.go:245, :308, functions.go:342).
CopiesAlike == Copies!CopiesAlike

\* Addresses: the address found for a task is held by that task, as long as
\* names and PIDs are not alike in more than one way, and addresses are lost
\* only with tasks that are removed without their network (cni_network.go:150).
AddressRight == Network!AddressRight
=============================================================================
