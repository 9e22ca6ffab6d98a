------------------------------ MODULE Trigger ------------------------------
(***************************************************************************)
(* Invocations of one function on a network of providers: the trigger      *)
(* handler, its scheduler, and the offloading of a request to a peer,      *)
(* whose own trigger handler then serves it.                               *)
(*                                                                         *)
(* A request is a stack of handler frames: the first on the node it came   *)
(* to, the next on the node that handler called, and so on.  The last one  *)
(* runs, the others wait for its answer.  Each node decides on its own     *)
(* view of the others, which is out of date whenever something changed and *)
(* the message has not arrived.                                            *)
(*                                                                         *)
(* A step is what a handler does between two blocking calls.  Execution    *)
(* times are milliseconds, and 1 means "not measured".  Abstracted: the    *)
(* random pick, which may be any node with a positive weight; floating     *)
(* point, of which only the outcomes "all weights are positive" and "the   *)
(* weights cannot be used" are kept; the order of nodes by round trip      *)
(* time, a constant; how a deployment works, see FunctionLifecycle, and    *)
(* how views travel, see InfoNetwork.                                      *)
(***************************************************************************)
EXTENDS Integers, Sequences, SequencesExt

CONSTANTS
    Node,           \* the providers
    Request,        \* invocations by clients
    SortedP2PID,    \* SortedP2PID[n]: all nodes, n first, then by distance
    Elapsed,        \* milliseconds an invocation may take
    MaxRemovals,    \* bound on replicas that are removed
    MaxFlips        \* bound on changes of an overload flag

ASSUME TriggerAssumption ==
    /\ SortedP2PID \in [Node -> Seq(Node)]
    /\ Elapsed \subseteq Nat
    /\ MaxRemovals \in Nat
    /\ MaxFlips \in Nat

VARIABLES
    container,  \* nodes on which the function runs
    awaited,    \* nodes on which a deployment waits to be reported
    ordered,    \* <<n, m>>: a goroutine of n is about to deploy it on m
    listed,     \* nodes whose FunctionCatalog has the function
    known,      \* known[n]: nodes with a replica, as n knows
    overload,   \* overload[n]: nodes that are overloaded, as n knows
    execTime,   \* execTime[n][m]: FunctionExecutionTime of m on n
    stack,      \* stack[r]: the handlers of request r
    answer,     \* answer[r]: the last response to r
    count       \* what the bounds have been spent on

catalogVars == <<listed, known, overload, execTime>>
deployVars == <<container, awaited, ordered>>
vars == <<deployVars, catalogVars, stack, answer, count>>

Absent == -1
NoNode == "no node"     \* the empty peer ID

\* "unavailable" is a 503 or a 405, which the caller takes for a measurement;
\* "error" is a 400, a 500, or a connection that broke. Which status a client
\* was given is not kept.
Status == {"none", "ok", "unavailable", "error", "given"}

Frame ==
    [node : Node, offload : BOOLEAN, target : Node \cup {NoNode},
     pc : {"receive", "deploy", "wait", "health", "invoke", "stream", "call",
           "record", "explore"}]

TypeOK ==
    /\ container \in SUBSET Node
    /\ awaited \in SUBSET Node
    /\ ordered \in SUBSET (Node \X Node)
    /\ listed \in SUBSET Node
    /\ known \in [Node -> SUBSET Node]
    /\ overload \in [Node -> SUBSET Node]
    /\ execTime \in [Node -> [Node -> Nat \cup {Absent}]]
    /\ stack \in [Request -> Seq(Frame)]
    /\ answer \in [Request -> Status]
    /\ count \in [removals : 0 .. MaxRemovals, flips : 0 .. MaxFlips]

\* Some nodes run the function, all or none are overloaded, and all know it.
Init ==
    /\ container \in SUBSET Node \ {{}}
    /\ awaited = {}
    /\ ordered = {}
    /\ listed = Node
    /\ known = [n \in Node |-> container]
    /\ \E busy \in {{}, Node} : overload = [n \in Node |-> busy]
    /\ execTime =
           [n \in Node |-> [m \in Node |-> IF m \in container THEN 1 ELSE Absent]]
    /\ stack = [r \in Request |-> <<>>]
    /\ answer = [r \in Request |-> "none"]
    /\ count = [removals |-> 0, flips |-> 0]

-----------------------------------------------------------------------------
(* The scheduler.                                                          *)

\* Nodes with a replica that have not been measured: the first one met is
\* taken.
Fresh(n) == {m \in known[n] : execTime[n][m] = 1}

\* The weights cannot be used: a time of 0 makes the least time 0 and the
\* weights NaN or infinite.
Unusable(n) == \E m \in known[n] : execTime[n][m] = 0

\* They may be beyond an int when times differ.
MayOverflow(n) == \E m, k \in known[n] : execTime[n][m] < execTime[n][k]

\* The scheduler's choices on n: the target, and the execution times after
\* it.  When the weights cannot be used they are all reset and n itself is
\* the answer.
weightExecTimeScheduler(n) ==
    LET times == execTime[n]
        reset == [m \in Node |-> IF m \in known[n] THEN 1 ELSE times[m]]
    IN  IF Fresh(n) # {}
        THEN {<<m, times>> : m \in Fresh(n)}
        ELSE {<<m, times>> : m \in IF Unusable(n) THEN {} ELSE known[n]}
             \cup {<<m, reset>> :
                      m \in IF Unusable(n) \/ MayOverflow(n) THEN {n} ELSE {}}

\* The nearest node of n in S.
NearestOf(n, S) ==
    LET at == {i \in 1 .. Len(SortedP2PID[n]) : SortedP2PID[n][i] \in S}
    IN  IF at = {} THEN NoNode ELSE SortedP2PID[n][Min(at)]

\* Where a client's request goes from n, the execution times after the
\* choice, and whether the function is deployed there first.  When no node is
\* fit for a deployment it answers the empty peer ID without an error.
findSuitableNode(n) ==
    LET nearest == NearestOf(n, Node \ overload[n])
    IN  IF known[n] = {}
        THEN {<<nearest, execTime[n], nearest # NoNode>>}
        ELSE {<<choice[1], choice[2], FALSE>> :
                 choice \in weightExecTimeScheduler(n)}

\* A node without a replica that was faster than the target when last used;
\* else the nearest that was never used.
explorePotentialNode(n, target) ==
    LET idle   == Node \ known[n]
        faster == {m \in idle : /\ execTime[n][m] # Absent
                                /\ execTime[n][m] < execTime[n][target]}
        unused == {m \in idle : execTime[n][m] = Absent}
    IN  NearestOf(n, IF faster # {} THEN faster ELSE unused)

-----------------------------------------------------------------------------
(* The trigger handler.                                                    *)

Top(r) == Last(stack[r])

Active(r, pc) == stack[r] # <<>> /\ Top(r).pc = pc

NewFrame(n, offload) ==
    [node |-> n, offload |-> offload, target |-> n, pc |-> "receive"]

Goto(r, pc) == stack' = [stack EXCEPT ![r] = Front(@) \o <<[Top(r) EXCEPT !.pc = pc]>>]

\* The handler returns; the frame below, if any, has its response.
Answer(r, status) ==
    /\ stack' = [stack EXCEPT ![r] = Front(@)]
    /\ answer' = [answer EXCEPT ![r] = IF Len(stack[r]) = 1 THEN "given" ELSE status]

\* offloadRequest has returned: a client's request explores, an offloaded one
\* is done.
Respond(r, status) ==
    IF Top(r).offload
    THEN Answer(r, status)
    ELSE Goto(r, "explore") /\ answer' = [answer EXCEPT ![r] = "given"]

\* A client invokes the function on n.
Invoke(r, n) ==
    /\ stack[r] = <<>>
    /\ answer[r] = "none"
    /\ stack' = [stack EXCEPT ![r] = <<NewFrame(n, FALSE)>>]
    /\ UNCHANGED <<deployVars, catalogVars, answer, count>>

\* Mutant: an offloaded request is scheduled like a client's.
ReceiveUnmarked(r) ==
    LET n == Top(r).node
    IN  /\ Active(r, "receive")
        /\ \/ /\ n \notin listed
              /\ Answer(r, "error")
              /\ UNCHANGED execTime
           \/ /\ n \in listed
              /\ \E found \in findSuitableNode(n) :
                    /\ stack' = [stack EXCEPT ![r] = Front(@) \o
                          <<[Top(r) EXCEPT
                                !.target = found[1],
                                !.pc = IF found[3] THEN "deploy"
                                                   ELSE "invoke"]>>]
                    /\ execTime' = [execTime EXCEPT ![n] = found[2]]
              /\ UNCHANGED answer
        /\ UNCHANGED <<deployVars, listed, known, overload, count>>

\* MakeTriggerHandler up to the choice of a target.
Receive(r) ==
    LET n == Top(r).node
    IN  /\ Active(r, "receive")
        /\ \/ /\ n \notin listed
              /\ Answer(r, "error")
              /\ UNCHANGED execTime
           \/ /\ n \in listed
              /\ Top(r).offload
              /\ Goto(r, "invoke")
              /\ UNCHANGED <<execTime, answer>>
           \/ /\ n \in listed
              /\ ~Top(r).offload
              /\ \E found \in findSuitableNode(n) :
                    /\ stack' = [stack EXCEPT ![r] = Front(@) \o
                          <<[Top(r) EXCEPT
                                !.target = found[1],
                                !.pc = IF found[3] THEN "deploy"
                                                   ELSE "invoke"]>>]
                    /\ execTime' = [execTime EXCEPT ![n] = found[2]]
              /\ UNCHANGED answer
        /\ UNCHANGED <<deployVars, listed, known, overload, count>>

\* deployFunctionByP2PID, whose error is ignored.  A peer's deploy handler
\* waits for the deployment itself; here the handler does.
DeployTarget(r) ==
    LET n == Top(r).node
        m == Top(r).target
    IN  /\ Active(r, "deploy")
        /\ \/ UNCHANGED <<container, awaited>>
           \/ /\ m \notin container
              /\ container' = container \cup {m}
              /\ awaited' = IF m = n THEN awaited ELSE awaited \cup {m}
        /\ Goto(r, "wait")
        /\ UNCHANGED <<ordered, catalogVars, answer, count>>

\* AddAvailableFunctions on m.
Report(m) ==
    /\ known' = [known EXCEPT ![m] = @ \cup {m}]
    /\ execTime' = [execTime EXCEPT ![m][m] = 1]
    /\ listed' = listed \cup {m}

\* Mutant: the wait has no timeout.
WaitReadyForever(r) ==
    LET n == Top(r).node
        m == Top(r).target
    IN  /\ Active(r, "wait")
        /\ m \in IF m = n THEN container ELSE listed
        /\ IF m = n THEN Report(n) ELSE UNCHANGED <<known, execTime, listed>>
        /\ Goto(r, "invoke")
        /\ UNCHANGED <<deployVars, overload, answer, count>>

\* waitDeployReadyAndReport: the container here answers; a peer merely has
\* the function in its FunctionCatalog; or time is up. The health check of the
\* container has no timeout of its own: it may keep the handler from looking
\* at the clock.
WaitReady(r) ==
    LET n == Top(r).node
        m == Top(r).target
    IN  /\ Active(r, "wait")
        /\ \/ /\ m = n /\ m \in container
              /\ Report(n)
              /\ Goto(r, "invoke")
              /\ UNCHANGED answer
           \/ /\ m # n /\ m \in listed
              /\ Goto(r, "invoke")
              /\ UNCHANGED <<known, execTime, listed, answer>>
           \/ /\ m = n /\ m \in container
              /\ Goto(r, "health")
              /\ UNCHANGED <<known, execTime, listed, answer>>
           \/ /\ Answer(r, "error")
              /\ UNCHANGED <<known, execTime, listed>>
        /\ UNCHANGED <<deployVars, overload, count>>

\* The function answers its health check after all, or the connection breaks
\* when the time is long up.
HealthReturns(r) ==
    LET n == Top(r).node
    IN  /\ Active(r, "health")
        /\ \/ /\ n \in container
              /\ Report(n)
              /\ Goto(r, "invoke")
              /\ UNCHANGED answer
           \/ /\ Answer(r, "error")
              /\ UNCHANGED <<known, execTime, listed>>
        /\ UNCHANGED <<deployVars, overload, count>>

\* Only GET and POST are passed on.
NotAllowed(r) ==
    /\ Active(r, "invoke")
    /\ ~Top(r).offload
    /\ Top(r).target # NoNode
    /\ Respond(r, "unavailable")
    /\ UNCHANGED <<deployVars, catalogVars, count>>

\* proxyRequest to this node's own function, with or without an event stream.
\* Without a container the resolver finds none, or an address in its cache that
\* nobody answers.
InvokeLocal(r) ==
    LET n == Top(r).node
    IN  /\ Active(r, "invoke")
        /\ Top(r).target = n
        /\ \/ n \in container /\ Goto(r, "record") /\ answer' = [answer EXCEPT ![r] = "ok"]
           \/ Goto(r, "stream") /\ UNCHANGED answer
           \/ Respond(r, "error")
           \/ n \notin container /\ Respond(r, "unavailable")
        /\ UNCHANGED <<deployVars, catalogVars, count>>

\* The stream ends, which is not measured. An error of it is not answered, so
\* that the status is 200.
StreamEnds(r) ==
    /\ Active(r, "stream")
    /\ Respond(r, "ok")
    /\ UNCHANGED <<deployVars, catalogVars, count>>

\* Mutant: the empty peer ID is called like any other.
InvokePeerUnchecked(r) ==
    /\ Active(r, "invoke")
    /\ Top(r).target # Top(r).node
    /\ stack' = [stack EXCEPT ![r] =
           Front(@) \o <<[Top(r) EXCEPT !.pc = "call"],
                         NewFrame(Top(r).target, TRUE)>>]
    /\ UNCHANGED <<deployVars, catalogVars, answer, count>>

\* proxyRequest to a peer, marked as offloaded.  The empty peer ID has no
\* catalog entry: nil dereference, here and in the deferred exploration.
InvokePeer(r) ==
    LET n == Top(r).node
        m == Top(r).target
    IN  /\ Active(r, "invoke")
        /\ m # n
        /\ \/ /\ m = NoNode
              /\ Answer(r, "error")
           \/ /\ m # NoNode
              /\ stack' = [stack EXCEPT ![r] =
                     Front(@) \o <<[Top(r) EXCEPT !.pc = "call"], NewFrame(m, TRUE)>>]
              /\ UNCHANGED answer
        /\ UNCHANGED <<deployVars, catalogVars, count>>

\* The peer has answered.  Any status but 400 and 500 is measured, unless it is
\* that of an event stream.
PeerAnswers(r) ==
    /\ Active(r, "call")
    /\ \/ answer[r] # "error" /\ Goto(r, "record") /\ UNCHANGED answer
       \/ Respond(r, answer[r])
    /\ UNCHANGED <<deployVars, catalogVars, count>>

Average(old, elapsed) == IF old = 1 THEN elapsed ELSE (old + elapsed) \div 2

\* The deferred update of the target's execution time.  Without an entry it
\* dereferences nil, and so does the deferred exploration: net/http breaks
\* the connection.
Record(r) ==
    LET n == Top(r).node
        m == Top(r).target
    IN  /\ Active(r, "record")
        /\ \/ /\ execTime[n][m] = Absent
              /\ Answer(r, "error")
              /\ UNCHANGED execTime
           \/ /\ execTime[n][m] # Absent
              /\ \E e \in Elapsed :
                    execTime' = [execTime EXCEPT ![n][m] = Average(@, e)]
              /\ Respond(r, answer[r])
        /\ UNCHANGED <<deployVars, listed, known, overload, count>>

\* The deferred exploration of the node a client's request came to.
Explore(r) ==
    LET n == Top(r).node
        m == Top(r).target
        p == explorePotentialNode(n, m)
    IN  /\ Active(r, "explore")
        /\ \/ /\ execTime[n][m] = Absent
              /\ Answer(r, "error")
              /\ UNCHANGED ordered
           \/ /\ execTime[n][m] # Absent
              /\ Answer(r, answer[r])
              /\ ordered' = IF p = NoNode THEN ordered ELSE ordered \cup {<<n, p>>}
        /\ UNCHANGED <<container, awaited, catalogVars, count>>

Handle(r) ==
    \/ Receive(r) \/ DeployTarget(r) \/ WaitReady(r)
    \/ NotAllowed(r) \/ InvokeLocal(r) \/ InvokePeer(r) \/ PeerAnswers(r)
    \/ Record(r) \/ Explore(r)

-----------------------------------------------------------------------------
(* The rest of the providers.                                              *)

\* The goroutine of n that explorePotentialNode's answer m is given to.  The
\* deployment may fail; on its own node it is waited for all the same.
DeployPotential(n, m) ==
    /\ <<n, m>> \in ordered
    /\ ordered' = ordered \ {<<n, m>>}
    /\ \/ /\ m \notin container
          /\ container' = container \cup {m}
          /\ awaited' = awaited \cup {m}
       \/ /\ UNCHANGED container
          /\ awaited' = IF m = n THEN awaited \cup {m} ELSE awaited
    /\ UNCHANGED <<catalogVars, stack, answer, count>>

\* The goroutine that waits for a deployment on m reports it, or gives up.
ReportDeployed(m) ==
    /\ m \in awaited
    /\ awaited' = awaited \ {m}
    /\ \/ m \in container /\ Report(m)
       \/ UNCHANGED <<known, execTime, listed>>
    /\ UNCHANGED <<container, ordered, overload, stack, answer, count>>

\* n receives what m publishes.
Learn(n, m) ==
    /\ n # m
    /\ \/ (m \in known[m]) # (m \in known[n])
       \/ (m \in overload[m]) # (m \in overload[n])
    /\ overload' = [overload EXCEPT ![n] =
           IF m \in overload[m] THEN @ \cup {m} ELSE @ \ {m}]
    /\ IF m \in known[m]
       THEN /\ known' = [known EXCEPT ![n] = @ \cup {m}]
            /\ execTime' = IF m \in known[n] THEN execTime
                                             ELSE [execTime EXCEPT ![n][m] = 1]
            /\ listed' = listed \cup {n}
       ELSE /\ known' = [known EXCEPT ![n] = @ \ {m}]
            /\ UNCHANGED <<execTime, listed>>
    /\ UNCHANGED <<deployVars, stack, answer, count>>

\* m reports that it has no replica, and removes the container, which may fail.
TakeReplica(m) ==
    /\ count.removals < MaxRemovals
    /\ count' = [count EXCEPT !.removals = @ + 1]
    /\ container' \in {container, container \ {m}}
    /\ known' = [known EXCEPT ![m] = @ \ {m}]
    /\ UNCHANGED <<awaited, ordered, overload, stack, answer>>

\* Mutant: the execution time goes with the replica.
DeleteForgets(m) ==
    /\ m \in listed
    /\ TakeReplica(m)
    /\ listed' = IF known[m] \subseteq {m} THEN listed \ {m} ELSE listed
    /\ execTime' = [execTime EXCEPT ![m][m] = Absent]

\* The function is deleted on m: its entry is dropped with the last replica
\* that m knows of. Of a function that is not listed nothing is deleted, as the
\* handler dereferences nil.
Delete(m) ==
    /\ m \in listed
    /\ TakeReplica(m)
    /\ listed' = IF known[m] \subseteq {m} THEN listed \ {m} ELSE listed
    /\ UNCHANGED execTime

\* A client wants fewer replicas than m knows of, and at least one.
scaleDown(m) ==
    /\ m \in known[m]
    /\ known[m] # {m}
    /\ TakeReplica(m)
    /\ UNCHANGED <<listed, execTime>>

\* The load of m crosses its threshold.
Flip(m) ==
    /\ count.flips < MaxFlips
    /\ count' = [count EXCEPT !.flips = @ + 1]
    /\ overload' = [overload EXCEPT ![m] =
           IF m \in @ THEN @ \ {m} ELSE @ \cup {m}]
    /\ UNCHANGED <<deployVars, listed, known, execTime, stack, answer>>

Next ==
    \/ \E r \in Request : Handle(r) \/ HealthReturns(r) \/ StreamEnds(r)
    \/ \E r \in Request, n \in Node : Invoke(r, n)
    \/ \E m \in Node : ReportDeployed(m) \/ Delete(m) \/ scaleDown(m) \/ Flip(m)
    \/ \E n, m \in Node : DeployPotential(n, m) \/ Learn(n, m)

\* Handlers run and the calls they make return, but for health checks and event
\* streams, which have no timeout.  Nothing else is assumed.
Spec == Init /\ [][Next]_vars /\ \A r \in Request : WF_vars(Handle(r))
-----------------------------------------------------------------------------
(* Properties.                                                             *)

\* Whatever nodes believe of each other, a request leaves the node it came to
\* at most once: the peer serves it or answers with an error, because it is
\* marked (trigger.go:47,97).
ForwardedOnce == \A r \in Request : Len(stack[r]) <= 2

\* The first handler of a request is not marked and the second is, which serves
\* itself; a handler is without a node to turn to only when it is about to
\* invoke the function there.
StackInv(s) ==
    /\ Len(s) <= 2
    /\ \A i \in 1 .. Len(s) :
           /\ s[i].offload <=> i = 2
           /\ s[i].offload => s[i].target = s[i].node
           /\ s[i].target \in Node \/ s[i].pc = "invoke"

\* The inductive invariant.
IInv == TypeOK /\ \A r \in Request : StackInv(stack[r])

\* When clients have stopped asking every invocation is answered, also while
\* deployments fail, replicas move and two nodes each believe the function to
\* be on the other (trigger.go:47, trigger.go:55), unless its node is the nearest
\* one without overload and the function, just deployed there, never answers
\* its health check (deploy.go:121), or it asked for an event stream that does
\* not end (trigger.go:291).
RequestsAnswered ==
    <>[](\A r \in Request :
            \/ stack[r] = <<>>
            \/ Active(r, "health") /\ Top(r).target = Top(r).node
                                   /\ ~Top(r).offload
            \/ Active(r, "stream"))

\* A request that was under way to a node with a measured execution time finds
\* the entry when it has been answered, though the replica may have been taken,
\* reported and forgotten meanwhile: the deferred update and the exploration
\* dereference it (trigger.go:314, trigger.go:106).  Only a node that never
\* reported the function can lack it.
TimeStaysForTarget ==
    [][\A r \in Request : \A i \in 1 .. Len(stack[r]) :
          LET n == stack[r][i].node
              m == stack[r][i].target
          IN  m # NoNode /\ execTime[n][m] # Absent
                  => execTime'[n][m] # Absent]_vars

\* "if the first parameter is nil, mean do not require deploy before trigger"
\* (trigger.go:196): a node found without an error has the function, as far
\* as the finder knows.
FoundNodeRuns ==
    [][\A r \in Request :
          (/\ Active(r, "receive") /\ ~Top(r).offload
           /\ Active(r, "invoke")')
              => Top(r)'.target \in known[Top(r).node]]_vars
=============================================================================
