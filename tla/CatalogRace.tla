---------------------------- MODULE CatalogRace -----------------------------
(***************************************************************************)
(* The methods of the catalog statement by statement, as the goroutines of *)
(* one node interleave them: nothing locks the maps.                       *)
(*                                                                         *)
(* Catalog has the same methods as single operators and InfoNetwork takes  *)
(* them for single steps; here is what that leaves out.  One function; the *)
(* catalog is the replicas of each node and the total of the function's    *)
(* FunctionCatalog entry.  Left out: execution times, overload, publishing *)
(* and the abort of Go when it notices concurrent map access.              *)
(***************************************************************************)
EXTENDS Integers, FiniteSets

CONSTANTS
    Node,       \* keys of NodeCatalog
    Self,       \* that of this node
    Goroutine,  \* calls of catalog methods
    Operation   \* the methods that are called

NoEntry == -1

Operations == {"add", "update", "delete", "message"}

CatalogRaceAssumption ==
    /\ Self \in Node
    /\ IsFiniteSet(Node)
    /\ Operation \subseteq Operations

VARIABLES
    avail,  \* avail[m]: AvailableFunctionsReplicas of m, or NoEntry
    total,  \* Replicas of the FunctionCatalog entry, or NoEntry
    call,   \* call[g]: the call g makes, what it has summed up and must still;
            \* history: a delete was called for a listed function
    fresh,  \* history: calls whose sum began after the last change of avail
    last    \* history: the last call that stored a total

vars == <<avail, total, call, fresh, last>>

\* The replicas of m as a number.
Count(m) == IF avail[m] = NoEntry THEN 0 ELSE avail[m]

Sum == Cardinality({m \in Node : avail[m] = 1})

TypeOK ==
    /\ avail \in [Node -> {NoEntry, 0, 1}]
    /\ total \in {NoEntry} \cup 0 .. Cardinality(Node)
    /\ call \in [Goroutine ->
           [op : Operations \cup {"none"}, node : Node, msg : {NoEntry, 0, 1},
            pc : {"idle", "write", "list", "range", "sum", "store", "drop",
                  "done", "panicked"},
            due : SUBSET Node, sum : 0 .. Cardinality(Node), listed : BOOLEAN]]
    /\ fresh \in SUBSET Goroutine
    /\ last \in SUBSET Goroutine

Init ==
    /\ avail \in [Node -> {NoEntry, 0, 1}]
    /\ total = IF \A m \in Node : avail[m] = NoEntry THEN NoEntry ELSE Sum
    /\ call = [g \in Goroutine |->
                  [op |-> "none", node |-> Self, msg |-> NoEntry,
                   pc |-> "idle", due |-> {}, sum |-> 0, listed |-> TRUE]]
    /\ fresh = {}
    /\ last = {}

-----------------------------------------------------------------------------
Goto(g, label) == call' = [call EXCEPT ![g].pc = label]

\* A handler calls a method, or a message of peer m with v replicas is read.
\* Update is called for a function that was found in the catalog; delete for
\* whatever name the request has.
Call(g, op, m, v) ==
    /\ call[g].pc = "idle"
    /\ op = "update" => total # NoEntry
    /\ op = "message" <=> m # Self
    /\ op # "message" => v = (CASE op = "add" -> 1 [] op = "update" -> 0
                                [] OTHER -> NoEntry)
    /\ call' = [call EXCEPT ![g] =
                   [@ EXCEPT !.op = op, !.node = m, !.msg = v,
                             !.listed = (op = "delete" => total # NoEntry),
                             !.pc = IF op = "message" THEN "list" ELSE "write"]]
    /\ UNCHANGED <<avail, total, fresh, last>>

\* The replicas of a node are written: the new map of a message, or the entry
\* of this node in its map.
Write(g) ==
    LET c == call[g]
    IN  /\ c.pc = "write"
        /\ avail' = [avail EXCEPT ![c.node] = c.msg]
        /\ fresh' = {}
        /\ Goto(g, CASE c.op = "add"     -> "list"
                     [] c.op = "message" -> "range"
                     [] OTHER            -> "sum")
        /\ UNCHANGED <<total, last>>

\* Mutant: an added function is not listed.
ListMessages(g) ==
    LET c == call[g]
    IN  /\ c.pc = "list"
        /\ total' = IF total = NoEntry /\ c.op = "message" /\ c.msg # NoEntry
                    THEN 0 ELSE total
        /\ Goto(g, IF c.op = "add" THEN "sum" ELSE "write")
        /\ UNCHANGED <<avail, fresh, last>>

\* A function that is new is put into the FunctionCatalog.  What Replicas it
\* has then is overwritten by the recount.
List(g) ==
    LET c == call[g]
    IN  /\ c.pc = "list"
        /\ total' = IF total = NoEntry /\ c.msg # NoEntry THEN 0 ELSE total
        /\ Goto(g, IF c.op = "add" THEN "sum" ELSE "write")
        /\ UNCHANGED <<avail, fresh, last>>

\* updatetReplicas recounts what is in the FunctionCatalog.
RangeFunctions(g) ==
    /\ call[g].pc = "range"
    /\ Goto(g, IF total = NoEntry THEN "done" ELSE "sum")
    /\ UNCHANGED <<avail, total, fresh, last>>

\* Mutant: the sum starts with the replicas of this node, which the loop meets
\* again.
SumStartsTwice(g) ==
    /\ call[g].pc = "sum"
    /\ call' = [call EXCEPT ![g].pc = "store", ![g].due = Node,
                            ![g].sum = Count(Self)]
    /\ fresh' = fresh \cup {g}
    /\ UNCHANGED <<avail, total, last>>

\* The loop over NodeCatalog begins.
SumStarts(g) ==
    /\ call[g].pc = "sum"
    /\ call' = [call EXCEPT ![g].pc = "store", ![g].due = Node, ![g].sum = 0]
    /\ fresh' = fresh \cup {g}
    /\ UNCHANGED <<avail, total, last>>

\* Mutant: the last node is left out.
SumNodeStops(g, m) ==
    /\ call[g].pc = "store"
    /\ m \in call[g].due
    /\ call' = [call EXCEPT ![g].due = IF Cardinality(@) = 2 THEN {} ELSE @ \ {m},
                            ![g].sum = @ + Count(m)]
    /\ UNCHANGED <<avail, total, fresh, last>>

\* One iteration; the order of a map range is any.
SumNode(g, m) ==
    /\ call[g].pc = "store"
    /\ m \in call[g].due
    /\ call' = [call EXCEPT ![g].due = @ \ {m}, ![g].sum = @ + Count(m)]
    /\ UNCHANGED <<avail, total, fresh, last>>

\* The total is stored in the entry, wherever it comes from by now.
Store(g) ==
    /\ call[g].pc = "store"
    /\ call[g].due = {}
    /\ IF total = NoEntry
       THEN Goto(g, "panicked") /\ UNCHANGED <<total, last>>
       ELSE /\ total' = call[g].sum
            /\ last' = {g}
            /\ Goto(g, IF call[g].op = "delete" THEN "drop" ELSE "done")
    /\ UNCHANGED <<avail, fresh>>

\* A delete drops the entry with the last replica.
Drop(g) ==
    /\ call[g].pc = "drop"
    /\ Goto(g, IF total = NoEntry THEN "panicked" ELSE "done")
    /\ total' = IF total = 0 THEN NoEntry ELSE total
    /\ UNCHANGED <<avail, fresh, last>>

Next ==
    \E g \in Goroutine :
        \/ \E op \in Operation, m \in Node, v \in {NoEntry, 0, 1} : Call(g, op, m, v)
        \/ Write(g)
        \/ List(g)
        \/ RangeFunctions(g)
        \/ SumStarts(g)
        \/ \E m \in Node : SumNode(g, m)
        \/ Store(g)
        \/ Drop(g)

Spec == Init /\ [][Next]_vars

-----------------------------------------------------------------------------
(* Properties.                                                             *)

AtRest == \A g \in Goroutine : call[g].pc \in {"idle", "done", "panicked"}

TotalRight == total # NoEntry => total = Sum

\* A wrong total is repaired by the next recount that begins when nothing
\* changes any more, whichever call makes it: only a sum that was overtaken by
\* a change and stored after all others leaves a wrong total behind
\* (catalog_cluster_level.go:98, :115).
RecountRepairs == AtRest /\ last \subseteq fresh /\ last # {} => TotalRight

\* A method dereferences a missing FunctionCatalog entry
\* (catalog_cluster_level.go:89, :105, :120) in two cases only: a delete of the
\* same function by another call has dropped it in the meantime, or it is
\* itself a delete, of a function that was not listed when it was called
\* (delete.go:61 does not look).
PanicNeedsDelete ==
    \A g \in Goroutine : call[g].pc = "panicked" =>
        \/ call[g].op = "delete" /\ ~call[g].listed
        \/ \E d \in Goroutine \ {g} : call[d].op = "delete" /\ call[d].pc = "done"

\* How far a call can be, and what it has summed up at most.
CallInv ==
    \A g \in Goroutine :
        /\ call[g].pc # "idle" => call[g].op \in Operations
        /\ ~call[g].listed => call[g].op = "delete"
        /\ call[g].pc # "idle" /\ call[g].op = "add" => call[g].msg = 1
        /\ call[g].pc = "list" => call[g].op \in {"add", "message"}
        /\ call[g].pc = "drop" => call[g].op = "delete"
        /\ call[g].pc = "store" =>
               call[g].sum + Cardinality(call[g].due) <= Cardinality(Node)

\* g will dereference the entry, and has found or made one.
NeedsEntry(g) ==
    /\ call[g].listed
    /\ \/ call[g].pc \in {"sum", "store", "drop"}
       \/ call[g].pc = "write" /\ call[g].op \in {"update", "delete"}

\* An entry that is needed and missing was dropped by another call's delete.
DroppedInv ==
    \A g \in Goroutine : NeedsEntry(g) /\ total = NoEntry =>
        \E d \in Goroutine \ {g} : call[d].op = "delete" /\ call[d].pc = "done"

\* A sum that no change has overtaken is right for the nodes it has met.
FreshInv ==
    \A g \in fresh : call[g].pc = "store" =>
        call[g].sum = Cardinality({m \in Node \ call[g].due : avail[m] = 1})

\* A total that was stored last by such a sum is right, or a call that has
\* listed the function meanwhile will recount.
LastInv ==
    last # {} /\ last \subseteq fresh =>
        TotalRight \/ \E g \in Goroutine :
                          call[g].pc \in {"write", "range", "sum", "store"}

\* The inductive invariant.
IInv ==
    TypeOK /\ CallInv /\ DroppedInv /\ PanicNeedsDelete /\ FreshInv /\ LastInv
=============================================================================
