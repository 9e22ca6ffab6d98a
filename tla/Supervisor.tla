----------------------------- MODULE Supervisor -----------------------------
(***************************************************************************)
(* faasd up: the supervisor that starts the core services in the order of  *)
(* their dependencies, and removes them when it is told to stop.           *)
(*                                                                         *)
(* depgraph's recursive resolve is a machine with an explicit call stack.  *)
(* Containers outlive the process, which systemd starts again when it      *)
(* failed.  Abstracted: what a container is made of (image, mounts, hosts  *)
(* file); a container is there, and it runs or not.  A service's            *)
(* dependencies are visited in any order, whatever the compose loader      *)
(* makes of it.  The loader does not look whether they are services: a     *)
(* name that is none has no node, and resolve panics on it.                *)
(***************************************************************************)
EXTENDS Integers, FiniteSets, Sequences, SequencesExt

CONSTANTS
    Service,        \* names of the core services
    Services,       \* the list made of the compose file
    Unknown,        \* names in depends_on that no service has
    MaxFailures     \* bound on calls that fail and on crashes

ASSUME SupervisorAssumption ==
    /\ Services \in Seq(Service) \ {<<>>}
    /\ Range(Services) = Service
    /\ Unknown \cap Service = {}
    /\ MaxFailures \in Nat

VARIABLES
    depends,    \* depends[s]: the DependsOn of s
    pc,         \* what the process does
    next,       \* position in the list it goes through
    stack,      \* calls of resolve: the node and the edges still due
    resolved,   \* names in the order of their resolution
    unresolved, \* names under resolution; some resolved ones stay in it
    container,  \* services with a container
    running,    \* services whose task runs
    failures    \* failures so far

resolveVars == <<stack, resolved, unresolved>>
vars == <<depends, pc, next, resolveVars, container, running, failures>>

\* What depends_on may name.
Name == Service \cup Unknown

Call == [node : Service, due : SUBSET Name]

TypeOK ==
    /\ depends \in [Service -> SUBSET Name]
    /\ pc \in {"prepare", "remove", "resolve", "start", "up", "stop",
               "failed", "panicked", "terminated"}
    /\ next \in 1 .. Len(Services) + 1
    /\ stack \in Seq(Call)
    /\ resolved \in Seq(Service)
    /\ unresolved \in SUBSET Service
    /\ container \in SUBSET Service
    /\ running \in SUBSET container
    /\ failures \in 0 .. MaxFailures

\* The first start after installation.
Init ==
    /\ depends \in [Service -> SUBSET Name]
    /\ pc = "prepare"
    /\ next = 1
    /\ stack = <<>>
    /\ resolved = <<>>
    /\ unresolved = {}
    /\ container = {}
    /\ running = {}
    /\ failures = 0

-----------------------------------------------------------------------------
\* A call fails.
Failure ==
    /\ failures < MaxFailures
    /\ failures' = failures + 1

Goto(label) == pc' = label /\ next' = 1

\* Through the list one by one, then on to the next phase.
Advance(list, label) ==
    IF next < Len(list)
    THEN next' = next + 1 /\ UNCHANGED pc
    ELSE Goto(label)

\* Images of all services.
PrepareImages ==
    /\ pc = "prepare"
    /\ \/ Goto("remove") /\ UNCHANGED failures
       \/ Failure /\ Goto("failed")
    /\ UNCHANGED <<depends, resolveVars, container, running>>

\* Mutant: a container that cannot be removed is skipped.
RemoveOldSkips ==
    /\ pc = "remove"
    /\ \/ /\ container' = container \ {Services[next]}
          /\ running' = running \ {Services[next]}
          /\ UNCHANGED failures
       \/ Failure /\ UNCHANGED <<container, running>>
    /\ Advance(Services, "resolve")
    /\ UNCHANGED <<depends, resolveVars>>

\* Mutant: the container is deleted and its task is not.
RemoveOldNoKill ==
    /\ pc = "remove"
    /\ container' = container \ {Services[next]}
    /\ Advance(Services, "resolve")
    /\ UNCHANGED <<depends, resolveVars, running, failures>>

\* Mutant: a service that runs is left alone.
RemoveOldKeepsRunning ==
    /\ pc = "remove"
    /\ container' = container \ ({Services[next]} \ running)
    /\ Advance(Services, "resolve")
    /\ UNCHANGED <<depends, resolveVars, running, failures>>

\* Old containers go.  One that cannot be removed ends the start; its task may
\* have been killed.
RemoveOld ==
    LET s == Services[next]
    IN  /\ pc = "remove"
        /\ \/ /\ container' = container \ {s}
              /\ running' = running \ {s}
              /\ Advance(Services, "resolve")
              /\ UNCHANGED failures
           \/ /\ s \in container
              /\ Failure
              /\ Goto("failed")
              /\ running' \in {running, running \ {s}}
              /\ UNCHANGED container
        /\ UNCHANGED <<depends, resolveVars>>

-----------------------------------------------------------------------------
(* depgraph.                                                               *)

\* The edges buildServiceGraph gives a node: what nodeMap has for each name of
\* DependsOn, which is nil for a name that is not a service.
Edges(s) == depends[s]

\* A call of resolve starts.
NewCall(s) == [node |-> s, due |-> Edges(s)]

\* Resolve calls resolve for each node of the graph in turn.
ResolveNode ==
    /\ pc = "resolve"
    /\ stack = <<>>
    /\ next <= Len(Services)
    /\ stack' = <<NewCall(Services[next])>>
    /\ unresolved' = unresolved \cup {Services[next]}
    /\ next' = next + 1
    /\ UNCHANGED <<depends, pc, resolved, container, running, failures>>

\* Mutant: a node that was met before counts as a cycle, resolved or not.
ResolveEdgeEager ==
    LET call == Last(stack)
    IN  /\ pc = "resolve"
        /\ stack # <<>>
        /\ \E e \in call.due :
              \/ /\ e \in Unknown \cup unresolved \cup Range(resolved)
                 /\ Goto("panicked")
                 /\ UNCHANGED <<stack, unresolved>>
              \/ /\ e \notin Unknown \cup unresolved \cup Range(resolved)
                 /\ stack' = Front(stack) \o
                        <<[call EXCEPT !.due = @ \ {e}], NewCall(e)>>
                 /\ unresolved' = unresolved \cup {e}
                 /\ UNCHANGED <<pc, next>>
        /\ UNCHANGED <<depends, resolved, container, running, failures>>

\* resolve looks at an edge: Contains dereferences a nil node, a node under
\* resolution is a cycle, any other is resolved first.
ResolveEdge ==
    LET call == Last(stack)
    IN  /\ pc = "resolve"
        /\ stack # <<>>
        /\ \E e \in call.due :
              \/ /\ e \in Unknown \/ (e \in unresolved /\ ~Contains(resolved, e))
                 /\ Goto("panicked")
                 /\ UNCHANGED <<stack, unresolved>>
              \/ /\ e \in Service
                 /\ e \notin unresolved \/ Contains(resolved, e)
                 /\ stack' = Front(stack) \o
                        <<[call EXCEPT !.due = @ \ {e}], NewCall(e)>>
                 /\ unresolved' = unresolved \cup {e}
                 /\ UNCHANGED <<pc, next>>
        /\ UNCHANGED <<depends, resolved, container, running, failures>>

\* Mutant: a node is appended each time it is met.
ResolveReturnAgain ==
    LET call == Last(stack)
    IN  /\ pc = "resolve"
        /\ stack # <<>>
        /\ call.due = {}
        /\ stack' = Front(stack)
        /\ resolved' = Append(resolved, call.node)
        /\ unresolved' = unresolved \ {call.node}
        /\ UNCHANGED <<depends, pc, next, container, running, failures>>

\* Its edges are done: the node is resolved, unless it was already; it then
\* stays in unresolved.
ResolveReturn ==
    LET call == Last(stack)
    IN  /\ pc = "resolve"
        /\ stack # <<>>
        /\ call.due = {}
        /\ stack' = Front(stack)
        /\ \/ Contains(resolved, call.node) /\ UNCHANGED <<resolved, unresolved>>
           \/ /\ ~Contains(resolved, call.node)
              /\ resolved' = Append(resolved, call.node)
              /\ unresolved' = unresolved \ {call.node}
        /\ UNCHANGED <<depends, pc, next, container, running, failures>>

\* The order is there.
ResolveDone ==
    /\ pc = "resolve"
    /\ stack = <<>>
    /\ next > Len(Services)
    /\ Goto("start")
    /\ UNCHANGED <<depends, resolveVars, container, running, failures>>

-----------------------------------------------------------------------------
\* Mutant: the services are started in the order of the list.
StartListed ==
    LET s == Services[next]
    IN  /\ pc = "start"
        /\ s \notin container
        /\ container' = container \cup {s}
        /\ running' = running \cup {s}
        /\ Advance(Services, "up")
        /\ UNCHANGED <<depends, resolveVars, failures>>

\* NewContainer refuses a name that is taken.  It, or a later call, may fail
\* for other reasons: the start ends, the services before it keep running.
StartService ==
    LET s == resolved[next]
    IN  /\ pc = "start"
        /\ \/ /\ s \notin container
              /\ container' = container \cup {s}
              /\ running' = running \cup {s}
              /\ Advance(resolved, "up")
              /\ UNCHANGED failures
           \/ /\ IF s \in container THEN UNCHANGED failures ELSE Failure
              /\ Goto("failed")
              /\ container' \in {container, container \cup {s}}
              /\ UNCHANGED running
        /\ UNCHANGED <<depends, resolveVars>>

\* SIGTERM or SIGINT once the services are up.
Signal ==
    /\ pc = "up"
    /\ Goto("stop")
    /\ UNCHANGED <<depends, resolveVars, container, running, failures>>

\* Supervisor.Remove in the order of the list; the first error ends it, and
\* the process ends anyway.
RemoveService ==
    LET s == Services[next]
    IN  /\ pc = "stop"
        /\ \/ /\ container' = container \ {s}
              /\ running' = running \ {s}
              /\ Advance(Services, "terminated")
              /\ UNCHANGED failures
           \/ /\ Failure
              /\ Goto("terminated")
              /\ running' \in {running, running \ {s}}
              /\ UNCHANGED container
        /\ UNCHANGED <<depends, resolveVars>>

\* The process is killed or its machine's containerd goes away under it.
Crash ==
    /\ pc \notin {"failed", "panicked", "terminated"}
    /\ Failure
    /\ Goto("failed")
    /\ UNCHANGED <<depends, resolveVars, container, running>>

\* systemd starts it again.
Restart ==
    /\ pc \in {"failed", "panicked"}
    /\ Goto("prepare")
    /\ stack' = <<>>
    /\ resolved' = <<>>
    /\ unresolved' = {}
    /\ UNCHANGED <<depends, container, running, failures>>

Step ==
    \/ PrepareImages \/ RemoveOld
    \/ ResolveNode \/ ResolveEdge \/ ResolveReturn \/ ResolveDone
    \/ StartService \/ RemoveService \/ Restart

Next == Step \/ Signal \/ Crash

\* The process runs and systemd restarts it (Restart=on-failure).
Spec == Init /\ [][Next]_vars /\ WF_vars(Step)
-----------------------------------------------------------------------------
(* Properties.                                                             *)

\* Some services wait for each other: each of them depends on one of them.
Cyclic == \E S \in SUBSET Service \ {{}} : \A s \in S : depends[s] \cap S # {}

\* A service depends on a name that is not a service.
Dangling == \E s \in Service : depends[s] \cap Unknown # {}

\* "in order of their dependencies" (depgraph.go:61): whenever this process
\* has started a service, all it depends on had been started before, and the
\* position in the list does not matter.
DependenciesFirst ==
    pc \in {"start", "up"} =>
        \A s \in running : depends[s] \subseteq running

\* resolve leaves nodes it meets again in unresolved (depgraph.go:98), which
\* it tests for cycles: it panics for no acyclic graph over the services,
\* however often one of them is shared.  A name that is not a service panics
\* too, acyclic or not.
PanicJustified == pc = "panicked" => Cyclic \/ Dangling

\* The order has every service once, although shared dependencies are
\* resolved again each time they are met.
OrderComplete ==
    pc \in {"start", "up"} =>
        Len(resolved) = Cardinality(Service) /\ Range(resolved) = Service

\* A start never finds the name of a service taken, whatever an earlier
\* process left behind when it failed, crashed or could not remove it.
NameFree ==
    pc = "start" =>
        \A i \in next .. Len(resolved) : resolved[i] \notin container

\* The order lists each service once, after all it depends on.
OrderInv ==
    /\ \A i, j \in 1 .. Len(resolved) : resolved[i] = resolved[j] => i = j
    /\ \A i \in 1 .. Len(resolved) : \A d \in depends[resolved[i]] :
          \E j \in 1 .. i - 1 : d = resolved[j]

\* Each call of resolve was made for a dependency of the one below; what it
\* need not look at any more is in the order or is the call above.  What is
\* marked unresolved is in the order or on the stack.
CallsInv ==
    /\ \A k \in 1 .. Len(stack) : stack[k].due \subseteq depends[stack[k].node]
    /\ \A k \in 1 .. Len(stack) : \A d \in depends[stack[k].node] \ stack[k].due :
          Contains(resolved, d) \/ (k < Len(stack) /\ d = stack[k + 1].node)
    /\ \A k \in 1 .. Len(stack) - 1 : stack[k + 1].node \in depends[stack[k].node]
    /\ \A s \in unresolved :
          Contains(resolved, s) \/ \E k \in 1 .. Len(stack) : s = stack[k].node

\* What each phase has done when it is at position next of its list.
PhaseInv ==
    /\ pc \in {"prepare", "remove"} =>
          stack = <<>> /\ resolved = <<>> /\ unresolved = {}
    /\ pc \in {"remove", "stop"} => next <= Len(Services)
    /\ pc = "remove" => \A j \in 1 .. next - 1 : Services[j] \notin container
    /\ pc = "resolve" =>
          /\ container = {}
          /\ \A j \in 1 .. next - 1 :
                \/ Contains(resolved, Services[j])
                \/ \E k \in 1 .. Len(stack) : Services[j] = stack[k].node
    /\ pc \in {"start", "up"} => Range(resolved) = Service
    /\ pc = "start" =>
          /\ next <= Len(resolved)
          /\ container = {resolved[i] : i \in 1 .. next - 1}
          /\ running = container
    /\ pc = "up" => running = Service

\* The inductive invariant.
IInv == TypeOK /\ OrderInv /\ CallsInv /\ PhaseInv /\ PanicJustified

\* With dependencies that are services and can be ordered, all services run in the end,
\* whatever failed before, unless the process was told to stop.
ComesUp ==
    <>(\/ Cyclic \/ Dangling
       \/ pc \in {"stop", "terminated"}
       \/ pc = "up" /\ running = Service)
=============================================================================
