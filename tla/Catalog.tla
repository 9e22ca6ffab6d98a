------------------------------ MODULE Catalog ------------------------------
(***************************************************************************)
(* The in-memory catalog of one provider (pkg/provider/catalog): what a    *)
(* node knows of its own functions and of those of its peers, and the      *)
(* operations that change it, as operators from catalogs to catalogs.      *)
(*                                                                         *)
(* A Go map is a total function whose value NoEntry means "key absent".    *)
(* The node's own entry, key "0" in the code, is its own name here.  Of a  *)
(* function's status only what the properties tell apart is kept: its name *)
(* and its replica counts.  Of a FunctionExecutionTime only whether the    *)
(* entry exists is kept (reading an absent one is a nil dereference); its  *)
(* value matters to the scheduler alone.                                   *)
(*                                                                         *)
(* The operators are whole Go methods up to their call of publishInfo,     *)
(* which blocks and belongs to InfoNetwork.                                *)
(***************************************************************************)
EXTENDS Integers, FiniteSets

CONSTANTS
    Node,           \* the providers of the P2P network
    Function,       \* function names
    MaxAvailable    \* most replicas one node reports (1: one container)

ASSUME NodeAssumption == IsFiniteSet(Node)
ASSUME MaxAvailableAssumption == MaxAvailable \in Nat \ {0}

\* An absent map key.
NoEntry == -1

Count == 0 .. MaxAvailable

AvailableReplicas == [Function -> Count \cup {NoEntry}]

\* NodeInfoMsg: a node's own functions and its overload flag.
NodeInfoMsg == [avail : AvailableReplicas, overload : BOOLEAN]

\* NodeCatalog (keys, AvailableFunctionsReplicas, FunctionExecutionTime and
\* Overload of each) and FunctionCatalog (the Replicas of each function).
CatalogType ==
    [nodes     : SUBSET Node,
     avail     : [Node -> AvailableReplicas],
     execTime  : [Node -> SUBSET Function],
     overload  : [Node -> BOOLEAN],
     functions : [Function -> Nat \cup {NoEntry}]]

NoFunctions == [f \in Function |-> NoEntry]

NewCatalog ==
    [nodes     |-> {},
     avail     |-> [m \in Node |-> NoFunctions],
     execTime  |-> [m \in Node |-> {}],
     overload  |-> [m \in Node |-> FALSE],
     functions |-> NoFunctions]

\* Ignored when the peer already has an entry: what is known of it stays.
NewNodeCatalogEntry(c, peer) ==
    [c EXCEPT !.nodes = @ \cup {peer}]

-----------------------------------------------------------------------------
(* Replica totals.                                                         *)

\* The replicas of f that the catalog attributes to each node, one by one:
\* <<m, 1>>, <<m, 2>> ... for the replicas of m.
Replicas(c, f) ==
    {r \in c.nodes \X (1 .. MaxAvailable) : r[2] <= c.avail[r[1]][f]}

\* The sum over NodeCatalog of the available replicas of f.
TotalReplicas(c, f) == Cardinality(Replicas(c, f))

updatetReplicasWithFunctionName(c, f) ==
    [c EXCEPT !.functions[f] = TotalReplicas(c, f)]

updatetReplicas(c) ==
    [c EXCEPT !.functions =
        [f \in Function |->
            IF c.functions[f] = NoEntry THEN NoEntry ELSE TotalReplicas(c, f)]]

-----------------------------------------------------------------------------
(* The node's own functions.                                               *)

addAvailableFunctions(c, n, f, replicas) ==
    [c EXCEPT !.execTime[n] = @ \cup {f}, !.avail[n][f] = replicas]

updateAvailableFunctions(c, n, f, replicas) ==
    [c EXCEPT !.avail[n][f] = replicas]

\* Mutant: the count goes down by one instead of the key being deleted.
deleteAvailableFunctionsDecrements(c, n, f) ==
    [c EXCEPT !.avail[n][f] = @ - 1]

\* The execution-time entry stays behind.
deleteAvailableFunctions(c, n, f) ==
    [c EXCEPT !.avail[n][f] = NoEntry]

\* The FunctionCatalog entry is made when there is none; its value is then
\* overwritten by the recount.
AddAvailableFunctions(c, n, f, replicas) ==
    updatetReplicasWithFunctionName(
        addAvailableFunctions(c, n, f, replicas), f)

\* Mutant: the total is not recounted.
UpdateAvailableFunctionsNoRecount(c, n, f, replicas) ==
    updateAvailableFunctions(c, n, f, replicas)

\* Dereferences FunctionCatalog[f]: callers have found the entry.
UpdateAvailableFunctions(c, n, f, replicas) ==
    updatetReplicasWithFunctionName(
        updateAvailableFunctions(c, n, f, replicas), f)

\* Mutant: the entry goes although other nodes have replicas.
DeleteAvailableFunctionsAlways(c, n, f) ==
    [deleteAvailableFunctions(c, n, f) EXCEPT !.functions[f] = NoEntry]

\* Dereferences FunctionCatalog[f] too; the entry goes with the last replica.
DeleteAvailableFunctions(c, n, f) ==
    LET deleted == updatetReplicasWithFunctionName(
                       deleteAvailableFunctions(c, n, f), f)
    IN  IF deleted.functions[f] = 0
        THEN [deleted EXCEPT !.functions[f] = NoEntry]
        ELSE deleted

\* initSelfCatagory: the catalog a starting provider builds from the function
\* containers it finds, all of which EnsureAllTaskRunning has just started.
initSelfCatagory(n, containers) ==
    LET found == [f \in Function |-> IF f \in containers THEN 1 ELSE NoEntry]
    IN  [NewNodeCatalogEntry(NewCatalog, n) EXCEPT
            !.avail[n]    = found,
            !.execTime[n] = containers,
            !.functions   = found]

-----------------------------------------------------------------------------
(* Messages.                                                               *)

\* Dereferences FunctionCatalog[f] for every own function f.
packNodeInfoMsg(c, n) ==
    [avail |-> c.avail[n], overload |-> c.overload[n]]

\* The functions a message names.
Named(msg) == {f \in Function : msg.avail[f] # NoEntry}

\* Mutant: execution times are made for functions new to the FunctionCatalog.
unpackNodeInfoMsgNewOnly(c, msg, peer) ==
    updatetReplicas(
        [c EXCEPT
            !.overload[peer] = msg.overload,
            !.execTime[peer] =
                @ \cup {f \in Named(msg) : c.functions[f] = NoEntry},
            !.avail[peer]    = msg.avail,
            !.functions      =
                [f \in Function |->
                    IF @[f] = NoEntry /\ f \in Named(msg) THEN 0 ELSE @[f]]])

\* Mutant: functions the message does not name any more stay.
unpackNodeInfoMsgMerges(c, msg, peer) ==
    updatetReplicas(
        [c EXCEPT
            !.overload[peer] = msg.overload,
            !.execTime[peer] = @ \cup {f \in Function : msg.avail[f] > 0},
            !.avail[peer]    =
                [f \in Function |->
                    IF f \in Named(msg) THEN msg.avail[f] ELSE @[f]],
            !.functions      =
                [f \in Function |->
                    IF @[f] = NoEntry /\ f \in Named(msg) THEN 0 ELSE @[f]]])

\* Mutant: only the functions the message names are recounted.
unpackNodeInfoMsgCountsNamed(c, msg, peer) ==
    LET d == [c EXCEPT
                 !.overload[peer] = msg.overload,
                 !.execTime[peer] = @ \cup {f \in Function : msg.avail[f] > 0},
                 !.avail[peer]    = msg.avail]
    IN  [d EXCEPT !.functions =
            [f \in Function |->
                IF f \in Named(msg) THEN TotalReplicas(d, f) ELSE @[f]]]

\* The peer's view is replaced, new functions enter the FunctionCatalog and
\* an execution-time entry is made for those with a replica.
unpackNodeInfoMsg(c, msg, peer) ==
    updatetReplicas(
        [c EXCEPT
            !.overload[peer] = msg.overload,
            !.execTime[peer] = @ \cup {f \in Function : msg.avail[f] > 0},
            !.avail[peer]    = msg.avail,
            !.functions      =
                [f \in Function |->
                    IF @[f] = NoEntry /\ f \in Named(msg) THEN 0 ELSE @[f]]])

-----------------------------------------------------------------------------
(* What a catalog owes to the code that reads it.                          *)

\* Replicas in the FunctionCatalog is the sum over all known nodes: scaling
\* decisions are taken on it.
ReplicasAddUp(c) ==
    \A f \in Function :
        c.functions[f] # NoEntry => c.functions[f] = TotalReplicas(c, f)

\* packNodeInfoMsg and ListAvailableFunctions dereference the FunctionCatalog
\* entry of each own function, the trigger handler that of each function some
\* node runs.
FunctionsListed(c, n) ==
    \A f \in Function :
        (c.avail[n][f] # NoEntry \/ \E m \in Node : c.avail[m][f] > 0)
            => c.functions[f] # NoEntry

\* weightExecTimeScheduler loads the execution time of each node that has a
\* replica.
ExecTimeTracked(c) ==
    \A m \in Node, f \in Function : c.avail[m][f] > 0 => f \in c.execTime[m]

\* Nothing is attributed to a node without an entry.
NodesListed(c) ==
    \A m \in Node \ c.nodes : c.avail[m] = NoFunctions

CatalogInv(c, n) ==
    /\ n \in c.nodes
    /\ NodesListed(c)
    /\ ReplicasAddUp(c)
    /\ FunctionsListed(c, n)
    /\ ExecTimeTracked(c)
=============================================================================
