------------------------------ MODULE Scaling -------------------------------
(***************************************************************************)
(* The scale handler and its loop over the nodes, for one function.        *)
(*                                                                         *)
(* A client asks a node for a number of replicas.  The node compares the   *)
(* number with its view of the total, reads the total again, and deploys   *)
(* on the nodes of its ranking one after the other, calling the scale      *)
(* handler of each peer while replicas are missing.  Views follow what the *)
(* nodes report, each at its own time.  Left out: what a deployment is     *)
(* made of, and the way a report takes (InfoNetwork).                      *)
(***************************************************************************)
EXTENDS Integers, FiniteSets, FiniteSetsExt, Sequences

CONSTANTS
    Node,
    Sorted,         \* Sorted[n]: the ranking of n, itself first and only there
    Request,        \* requests of clients
    MaxAsked,       \* bound on the replicas a client asks for
    MaxReplicas,    \* the limit of the handler
    Width,          \* bits of a replica count, 64 in the code
    MaxFailures     \* bound on calls that fail

ScalingAssumption ==
    /\ IsFiniteSet(Node) /\ Node # {}
    /\ \A n \in Node : /\ Sorted[n] \in Seq(Node)
                       /\ \A i \in 1 .. Len(Sorted[n]) : Sorted[n][i] = n <=> i = 1
    /\ MaxAsked \in Nat
    /\ MaxReplicas \in Nat \ {0}
    /\ 2 ^ Width \in Nat
    /\ Cardinality(Node) < 2 ^ Width /\ MaxReplicas < 2 ^ Width
    /\ MaxFailures \in Nat

VARIABLES
    container,  \* nodes with a container of the function
    waiting,    \* nodes that wait for it to become ready and then report it
    listed,     \* nodes with the function in their FunctionCatalog
    view,       \* view[n][m]: replicas of m in the catalog of n
    overload,   \* overload[n]: nodes n holds to be overloaded
    req,        \* handlers: that of a request and that of its call to a peer
    failures    \* failures so far

vars == <<container, waiting, listed, view, overload, req, failures>>

Handler == Request \X {"client", "peer"}

\* The handler of the call that h makes.
Callee(h) == <<h[1], "peer">>

Answers == {"ok", "no content", "error", "not found"}

\* seen, made and counted are history: the total last read, the containers
\* made and the replicas counted as made.
HandlerState ==
    [pc : {"idle", "decide", "up", "loop", "call", "down"} \cup Answers,
     node : Node, desired : 0 .. MaxAsked, marked : BOOLEAN,
     pos : Nat, cnt : 0 .. 2 ^ Width - 1,
     seen : Nat, made : Nat, counted : Nat]

TypeOK ==
    /\ container \in SUBSET Node
    /\ waiting \in SUBSET Node
    /\ listed \in SUBSET Node
    /\ view \in [Node -> [Node -> 0 .. 1]]
    /\ overload \in [Node -> SUBSET Node]
    /\ req \in [Handler -> HandlerState]
    /\ failures \in 0 .. MaxFailures

Idle(n) == [pc |-> "idle", node |-> n, desired |-> 0, marked |-> FALSE,
            pos |-> 1, cnt |-> 0, seen |-> 0, made |-> 0, counted |-> 0]

\* The function runs somewhere, or was scaled down; every view is right.
Init ==
    /\ container \in SUBSET Node
    /\ waiting = {}
    /\ listed \in {L \in SUBSET Node : container # {} => L = Node}
    /\ view = [n \in Node |-> [m \in Node |-> IF m \in container THEN 1 ELSE 0]]
    /\ \E busy \in SUBSET Node : overload = [n \in Node |-> busy]
    /\ req = [h \in Handler |-> Idle(CHOOSE n \in Node : TRUE)]
    /\ failures = 0

-----------------------------------------------------------------------------
\* FunctionCatalog[name].Replicas on n.
Total(n) == Cardinality({m \in Node : view[n][m] = 1})

\* Mutant: the difference is signed.
MinusSigned(a, b) == a - b

\* An unsigned difference.
Minus(a, b) == (a - b) % 2 ^ Width

Failure ==
    /\ failures < MaxFailures
    /\ failures' = failures + 1

Target(h) == Min({req[h].desired, MaxReplicas})

\* A client asks node n for r replicas.
Ask(h, n, r) ==
    /\ h[2] = "client"
    /\ req[h].pc = "idle"
    /\ req' = [req EXCEPT ![h] =
                   [Idle(n) EXCEPT !.pc = "decide", !.desired = r]]
    /\ UNCHANGED <<container, waiting, listed, view, overload, failures>>

\* Mutant: a request of a peer is handled like one of a client.
DecideUnmarked(h) ==
    LET q == req[h]
    IN  /\ q.pc = "decide"
        /\ req' = [req EXCEPT ![h].seen = Total(q.node), ![h].pc =
                IF q.node \notin listed THEN "not found"
                ELSE IF q.desired = 0 THEN "error"
                ELSE IF Total(q.node) = Target(h) THEN "no content"
                ELSE IF Total(q.node) < Target(h) THEN "up" ELSE "down"]
        /\ UNCHANGED <<container, waiting, listed, view, overload, failures>>

\* The handler up to its call of scaleUp or scaleDown.
Decide(h) ==
    LET q == req[h]
    IN  /\ q.pc = "decide"
        /\ req' = [req EXCEPT ![h].seen = Total(q.node), ![h].pc =
                IF q.node \notin listed THEN "not found"
                ELSE IF q.desired = 0 THEN "error"
                ELSE IF Total(q.node) = Target(h) \/ q.marked THEN "no content"
                ELSE IF Total(q.node) < Target(h) THEN "up" ELSE "down"]
        /\ UNCHANGED <<container, waiting, listed, view, overload, failures>>

\* scaleUp reads the total again.
Count(h) ==
    /\ req[h].pc = "up"
    /\ req' = [req EXCEPT ![h].pc = "loop",
                          ![h].seen = Total(req[h].node),
                          ![h].cnt = Minus(Target(h), Total(req[h].node))]
    /\ UNCHANGED <<container, waiting, listed, view, overload, failures>>

\* The node at h's position of the ranking.
Candidate(h) == Sorted[req[h].node][req[h].pos]

InLoop(h) ==
    /\ req[h].pc = "loop"
    /\ req[h].pos <= Len(Sorted[req[h].node])
    /\ req[h].cnt > 0

\* The loop is over.
Finish(h) ==
    /\ req[h].pc = "loop"
    /\ ~ InLoop(h)
    /\ req' = [req EXCEPT ![h].pc = "ok"]
    /\ UNCHANGED <<container, waiting, listed, view, overload, failures>>

\* Mutant: the loop stays where it is.
SkipStays(h) ==
    /\ InLoop(h)
    /\ Candidate(h) \in overload[req[h].node]
    /\ UNCHANGED vars

\* Mutant: an overloaded node ends the loop.
SkipStops(h) ==
    /\ InLoop(h)
    /\ Candidate(h) \in overload[req[h].node]
    /\ req' = [req EXCEPT ![h].pos = Len(Sorted[req[h].node]) + 1]
    /\ UNCHANGED <<container, waiting, listed, view, overload, failures>>

\* An overloaded node is passed over.
Skip(h) ==
    /\ InLoop(h)
    /\ Candidate(h) \in overload[req[h].node]
    /\ req' = [req EXCEPT ![h].pos = @ + 1]
    /\ UNCHANGED <<container, waiting, listed, view, overload, failures>>

\* The SDK's ScaleFunction: it looks for the caller's mark under a key of a
\* type of its own, never finds it, and then adds the query that marks the
\* request.
Marks == TRUE

\* The rest of the loop's body: the peer p is asked for the replicas that are
\* still missing.
ScaleFunction(h, q, p) ==
    IF q.cnt > 0 /\ p # q.node
    THEN req' = [req EXCEPT ![h] = [q EXCEPT !.pc = "call"],
                            ![Callee(h)] =
                                [Idle(p) EXCEPT !.pc = "decide",
                                                !.desired = Target(h),
                                                !.marked = Marks]]
    ELSE req' = [req EXCEPT ![h] = [q EXCEPT !.pos = @ + 1]]

\* A node that has a replica.
Pass(h) ==
    LET q == req[h]
        p == Candidate(h)
    IN  /\ InLoop(h)
        /\ p \notin overload[q.node]
        /\ view[q.node][p] = 1
        /\ ScaleFunction(h, q, p)
        /\ UNCHANGED <<container, waiting, listed, view, overload, failures>>

\* Mutant: a deployment is not counted.
CountedNever(q) == [q EXCEPT !.counted = @ + 1]

\* A deployment taken to have succeeded.
Counted(q) == [q EXCEPT !.cnt = @ - 1, !.counted = @ + 1]

\* deployFunctionByP2PID succeeds; the node it is made on reports it later.
Deploy(h) ==
    LET q == req[h]
        p == Candidate(h)
    IN  /\ InLoop(h)
        /\ p \notin overload[q.node]
        /\ view[q.node][p] = 0
        /\ p \notin container
        /\ container' = container \cup {p}
        /\ waiting' = waiting \cup {p}
        /\ ScaleFunction(h, [Counted(q) EXCEPT !.made = @ + 1], p)
        /\ UNCHANGED <<listed, view, overload, failures>>

\* It fails: for another reason, or because the node has a container that this
\* node does not know of.  On this node the error is dropped, unless a secret
\* is missing, and the wait for the function starts; the error of a peer ends
\* the loop.
DeployFails(h) ==
    LET q == req[h]
        p == Candidate(h)
    IN  /\ InLoop(h)
        /\ p \notin overload[q.node]
        /\ view[q.node][p] = 0
        /\ \/ p \in container /\ UNCHANGED failures
           \/ p \notin container /\ Failure
        /\ \/ /\ p = q.node
              /\ waiting' = waiting \cup {p}
              /\ ScaleFunction(h, Counted(q), p)
           \/ /\ p # q.node \/ failures' # failures
              /\ req' = [req EXCEPT ![h].pc = "error"]
              /\ UNCHANGED waiting
        /\ UNCHANGED <<container, listed, view, overload>>

\* The SDK takes 200, 201 and 202 for success and every other status, 204
\* included, for an error.
Returned(h) ==
    /\ req[h].pc = "call"
    /\ req[Callee(h)].pc \in Answers
    /\ req' = [req EXCEPT
                   ![h].pc = "loop",
                   ![h].pos = @ + 1,
                   ![h].cnt = IF req[Callee(h)].pc = "ok" THEN 0 ELSE @,
                   ![Callee(h)] = Idle(req[h].node)]
    /\ UNCHANGED <<container, waiting, listed, view, overload, failures>>

\* scaleDown reads the total again, and takes no replica but its own.
ScaleDown(h) ==
    LET n == req[h].node
    IN  /\ req[h].pc = "down"
        /\ req' = [req EXCEPT ![h].pc = "ok"]
        /\ IF Minus(Total(n), Target(h)) > 0 /\ view[n][n] = 1
           THEN /\ view' = [view EXCEPT ![n][n] = 0]
                /\ container' = container \ {n}
           ELSE UNCHANGED <<view, container>>
        /\ UNCHANGED <<waiting, listed, overload, failures>>

-----------------------------------------------------------------------------
\* The wait for a new container ends with a report, or with the timeout.
Ready(p) ==
    /\ p \in waiting
    /\ waiting' = waiting \ {p}
    /\ \/ /\ p \in container
          /\ view' = [view EXCEPT ![p][p] = 1]
          /\ listed' = listed \cup {p}
          /\ UNCHANGED failures
       \/ /\ p \notin container
          /\ UNCHANGED <<view, listed, failures>>
       \/ /\ p \in container
          /\ Failure
          /\ UNCHANGED <<view, listed>>
    /\ UNCHANGED <<container, overload, req>>

\* n hears of what m last reported.
Learn(n, m) ==
    /\ view[n][m] # view[m][m]
    /\ view' = [view EXCEPT ![n][m] = view[m][m]]
    /\ listed' = listed \cup {n}
    /\ UNCHANGED <<container, waiting, overload, req, failures>>

Serve(h) ==
    \/ Decide(h)
    \/ Count(h)
    \/ Finish(h)
    \/ Skip(h)
    \/ Pass(h)
    \/ Deploy(h)
    \/ DeployFails(h)
    \/ Returned(h)
    \/ ScaleDown(h)

Next ==
    \/ \E h \in Handler, n \in Node, r \in 0 .. MaxAsked : Ask(h, n, r)
    \/ \E h \in Handler : Serve(h)
    \/ \E p \in Node : Ready(p)
    \/ \E n, m \in Node : Learn(n, m)

\* Handlers are goroutines that go on while they can; waits time out.
Fairness ==
    /\ \A h \in Handler : WF_vars(Serve(h))
    /\ \A p \in Node : WF_vars(Ready(p))

Spec == Init /\ [][Next]_vars /\ Fairness

-----------------------------------------------------------------------------
(* Properties.                                                             *)

\* A scale request that one node sends to another never leads to a scaling
\* decision there: two nodes whose views differ would otherwise scale each
\* other back and forth (scale.go:92, scale.go:148).  The mark that prevents it
\* is set by the client library, on the way between the nodes.
ScaledFirstHand ==
    \A k \in Request : req[<<k, "peer">>].pc \notin {"up", "loop", "call", "down"}

\* When clients have stopped asking every scale request is answered, although
\* each waits for peers that handle requests of their own (scale.go:150).
Answered == \A h \in Handler : req[h].pc \in Answers \cup {"idle"}

ScaleAnswered == <>[]Answered

\* No other client has asked.
Alone(h) ==
    \A k \in Request \ {h[1]} : req[<<k, "client">>].pc = "idle"

\* Unless another client has asked too or something has failed, a scale up
\* that was answered with success has made the replicas that were missing, or
\* there is no node left that is not overloaded; and it has made no more
\* (scale.go:113, scale.go:143).
ScaledUp ==
    \A h \in Handler :
        (/\ req[h].pc = "ok" /\ req[h].seen < Target(h)
         /\ Alone(h) /\ failures = 0)
            => \/ Cardinality(container) = Target(h)
               \/ /\ Cardinality(container) < Target(h)
                  /\ Node \subseteq container \cup overload[req[h].node]

\* A scale up makes no more replicas than were missing when its loop started,
\* whatever other requests do meanwhile, and of those it counts as made at most
\* one does not exist: that of this node, whose error deployFunctionByP2PID
\* drops (scale.go:237); the error of a peer is never taken for a replica.  It
\* is only when the total has passed the number asked for between the decision
\* and the loop that the unsigned difference wraps and every node gets a replica
\* (scale.go:113, scale.go:146).
UpToDesired ==
    \A h \in Handler :
        /\ \/ req[h].made = 0
           \/ req[h].made <= Target(h) - req[h].seen
           \/ req[h].seen > Target(h)
        /\ req[h].counted - req[h].made \in 0 .. 1

-----------------------------------------------------------------------------
(* Why they hold: an inductive invariant.                                  *)

\* A request between nodes carries the mark until it is decided on.
MarkInv(k) ==
    LET q == req[<<k, "peer">>]
    IN  /\ q.pc \notin {"up", "loop", "call", "down", "ok"}
        /\ q.pc = "decide" => q.marked

\* What is still missing and what was counted add up to the difference that was
\* computed, unless that has wrapped.  A replica that was counted and not made
\* is one of this node, the first of the ranking.
CountInv(h) ==
    LET q == req[h]
    IN  /\ q.pc \in {"decide", "up"} => q.made = 0 /\ q.counted = 0 /\ q.pos = 1
        /\ q.counted - q.made \in 0 .. 1
        /\ q.pos = 1 => q.counted = q.made
        /\ q.pos # 0
        /\ q.counted # 0 \/ q.pc \in {"loop", "call"}
               => q.seen > Target(h) \/ q.counted + q.cnt <= Target(h) - q.seen

IInv ==
    /\ TypeOK
    /\ \A k \in Request : MarkInv(k)
    /\ \A h \in Handler : CountInv(h)

-----------------------------------------------------------------------------
(* A client without competitors.                                           *)

\* Every node is ranked, and once: rankings that do not overlap are like that
\* when no two times are equal (Ranking).
SortedCompletely ==
    \A n \in Node :
        /\ \A m \in Node : \E i \in 1 .. Len(Sorted[n]) : Sorted[n][i] = m
        /\ \A i, j \in 1 .. Len(Sorted[n]) : Sorted[n][i] = Sorted[n][j] => i = j

\* Every node knows whether m has a replica.
Right(m) == \A n \in Node : view[n][m] = 1 <=> m \in container

\* The position of the next node the loop has to look at.
Upcoming(q) == IF q.pc = "call" THEN q.pos + 1 ELSE q.pos

\* What only a client without competitors can count on: until its loop starts
\* the views are right, and in the loop they are for the nodes ahead; the
\* replicas and those still missing add up to the number asked for; the nodes
\* behind have a replica or are overloaded.
SoloInv(k) ==
    LET h == <<k, "client">>
        q == req[h]
    IN  Alone(h) /\ failures = 0 =>
            /\ q.pc \in {"idle", "decide", "up"} => \A m \in Node : Right(m)
            /\ q.pc = "up" => Cardinality(container) < Target(h)
            /\ q.pc = "down" => q.seen >= Target(h)
            /\ q.pc \in {"loop", "call"} =>
                   /\ Cardinality(container) + q.cnt = Target(h)
                   /\ \A i \in Upcoming(q) .. Len(Sorted[q.node]) : Right(Sorted[q.node][i])
                   /\ \A i \in 1 .. Upcoming(q) - 1 : i <= Len(Sorted[q.node]) =>
                          Sorted[q.node][i] \in container \cup overload[q.node]
            /\ q.pc = "ok" /\ q.seen < Target(h) =>
                   \/ Cardinality(container) = Target(h)
                   \/ /\ Cardinality(container) < Target(h)
                      /\ Node \subseteq container \cup overload[q.node]
=============================================================================
