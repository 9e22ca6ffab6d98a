------------------------- MODULE FunctionLifecycle -------------------------
(***************************************************************************)
(* One function on one provider: its container, its task and its network   *)
(* in containerd and CNI, the available replicas the catalog reports for   *)
(* it, and the goroutines that work on them without any lock:              *)
(*                                                                         *)
(*   deploy   the deploy handler, or a scale up that deploys here          *)
(*   wait     its goroutine that polls the function and then reports it    *)
(*   update   the update handler                                           *)
(*   delete   the delete handler                                           *)
(*   scale    the part of a scale down that takes this node's replica      *)
(*   monitor  ListenUpdateInfo, every ten seconds for ever                 *)
(*                                                                         *)
(* A step is one call to containerd, CNI or the catalog.  service.Remove   *)
(* and service.CreateTask are procedures: their steps are taken by the     *)
(* process that called them and lead back to its return label.  A task is  *)
(* reached through its container: one whose container is gone goes on, but *)
(* nobody can look it up, start it, signal it or delete it.                *)
(*                                                                         *)
(* Abstracted: one request of each kind at a time; of addresses, whether   *)
(* the present task has one and whether the cache holds it, so that the    *)
(* networks of earlier tasks are forgotten; containerd and CNI calls fail  *)
(* for the reasons modelled, not by themselves; what the other nodes run,  *)
(* which changes at any time, so that each test of it may go either way;   *)
(* publishing, which is in InfoNetwork.                                    *)
(***************************************************************************)
EXTENDS Integers, FiniteSets

CONSTANTS
    MaxRequests,    \* bound on requests
    MaxStops        \* bound on functions that stop by themselves

ASSUME LifecycleAssumption ==
    /\ MaxRequests \in Nat
    /\ MaxStops \in Nat

VARIABLES
    container,  \* the container exists
    task,       \* the state of its task
    net,        \* CNI knows an address for this task
    creator,    \* the process that created this task
    avail,      \* AvailableFunctionsReplicas of this node
    cached,     \* the invoke resolver's cache holds the address of this task
    pc,         \* where each process is
    ret,        \* where the procedure it is in returns to
    count       \* requests received and stops that happened

vars == <<container, task, net, creator, avail, cached, pc, ret, count>>

NoEntry == -1

Handler == {"deploy", "update", "delete", "scale"}
Process == Handler \cup {"wait", "monitor"}

\* Labels of the two procedures, then those of the processes.
Label ==
    {"rm_load", "rm_kill", "rm_check", "rm_delete"}
    \cup {"ct_new", "ct_net", "ct_start"}
    \cup {"idle", "pull", "container", "poll", "report", "get", "net",
          "remove", "read", "zero", "ensure", "restart", "ip", "sweep"}

TypeOK ==
    /\ container \in BOOLEAN
    /\ task \in {"none", "created", "running", "stopped"}
    /\ net \in BOOLEAN
    /\ creator \in Process
    /\ avail \in {NoEntry, 0, 1}
    /\ cached \in BOOLEAN
    /\ pc \in [Process -> Label]
    /\ ret \in [Process -> [ok : Label, err : Label]]
    /\ count \in [requests : 0 .. MaxRequests, stops : 0 .. MaxStops]

NoReturn == [ok |-> "idle", err |-> "idle"]

Init ==
    /\ container = FALSE
    /\ task = "none"
    /\ net = FALSE
    /\ creator = "deploy"
    /\ avail = NoEntry
    /\ cached = FALSE
    /\ pc = [p \in Process |-> IF p = "monitor" THEN "read" ELSE "idle"]
    /\ ret = [p \in Process |-> NoReturn]
    /\ count = [requests |-> 0, stops |-> 0]

-----------------------------------------------------------------------------
(* Control.                                                                *)

At(p, label) == pc[p] = label

Goto(p, label) == pc' = [pc EXCEPT ![p] = label]

\* Call a procedure that goes to ok when it succeeds, to err when it fails.
Call(p, label, ok, err) ==
    /\ Goto(p, label)
    /\ ret' = [ret EXCEPT ![p] = [ok |-> ok, err |-> err]]

Return(p) ==
    /\ Goto(p, ret[p].ok)
    /\ ret' = [ret EXCEPT ![p] = NoReturn]

Fail(p) ==
    /\ Goto(p, ret[p].err)
    /\ ret' = [ret EXCEPT ![p] = NoReturn]

containerdVars == <<container, task, net, creator>>
catalogVars == <<avail, cached>>

\* The task can be found and runs, and CNI knows its address.
Reachable == container /\ task = "running" /\ net

\* GetFunction: an error without a container, and for a running task without
\* an address.
GetFunction == container /\ (task = "running" => net)

\* cninetwork.DeleteCNINetwork: nothing without a container or a task, and
\* without a task there is no network.
DeleteCNINetwork == net' = (net /\ ~container)

\* The task goes, and with it its process ID, by which network, creator and
\* cache know it.
TaskDelete ==
    /\ task' = "none"
    /\ net' = FALSE
    /\ cached' = FALSE

-----------------------------------------------------------------------------
(* service.Remove.                                                         *)

\* LoadContainer and Task.
RemoveLoad(p) ==
    /\ At(p, "rm_load")
    /\ \/ ~container /\ Return(p)
       \/ container /\ task = "none" /\ Goto(p, "rm_check") /\ UNCHANGED ret
       \/ container /\ task # "none" /\ Goto(p, "rm_kill") /\ UNCHANGED ret
    /\ UNCHANGED <<containerdVars, catalogVars, count>>

\* Mutant: without the timeout, a function that ignores SIGTERM is waited for.
killTaskWaits(p) ==
    /\ At(p, "rm_kill")
    /\ task # "running"
    /\ TaskDelete
    /\ Goto(p, "rm_check")
    /\ UNCHANGED <<container, creator, avail, ret, count>>

\* What a signal to the task and task.Delete do: the task exits in time and is
\* deleted, or it is left; of a task without its container both fail.
Kill ==
    \/ container /\ TaskDelete
    \/ /\ container /\ task \in {"created", "running"}
       /\ task' = "stopped"
       /\ UNCHANGED <<net, cached>>
    \/ ~container /\ UNCHANGED <<task, net, cached>>

\* killTask: SIGTERM, and either the task exits and is deleted or after
\* thirty seconds it is sent SIGKILL and left.  Its errors are shadowed.
killTask(p) ==
    /\ At(p, "rm_kill")
    /\ Kill
    /\ Goto(p, "rm_check")
    /\ UNCHANGED <<container, creator, avail, ret, count>>

\* container.Delete refuses a container that has a task...
RemoveCheck(p) ==
    /\ At(p, "rm_check")
    /\ \/ container /\ task # "none" /\ Fail(p)
       \/ (~container \/ task = "none") /\ Goto(p, "rm_delete") /\ UNCHANGED ret
    /\ UNCHANGED <<containerdVars, catalogVars, count>>

\* ... and then deletes it, with or without a task by now.
RemoveDelete(p) ==
    /\ At(p, "rm_delete")
    /\ container' = FALSE
    /\ \/ container /\ Return(p)
       \/ ~container /\ Fail(p)
    /\ UNCHANGED <<task, net, creator, catalogVars, count>>

-----------------------------------------------------------------------------
(* service.CreateTask.                                                     *)

\* NewTask refuses a container that has a task already.
NewTask(p) ==
    /\ At(p, "ct_new")
    /\ \/ /\ container /\ task = "none"
          /\ task' = "created"
          /\ creator' = p
          /\ Goto(p, "ct_net")
          /\ UNCHANGED ret
       \/ /\ ~container \/ task # "none"
          /\ Fail(p)
          /\ UNCHANGED <<task, creator>>
    /\ UNCHANGED <<container, net, catalogVars, count>>

\* The task this process created is still there, not yet started.
OwnTask(p) == task = "created" /\ creator = p

\* CreateCNINetwork, in the network namespace of the new process.
CreateCNINetwork(p) ==
    /\ At(p, "ct_net")
    /\ \/ /\ OwnTask(p)
          /\ net' = TRUE
          /\ Goto(p, "ct_start")
          /\ UNCHANGED ret
       \/ /\ ~OwnTask(p)
          /\ Fail(p)
          /\ UNCHANGED net
    /\ UNCHANGED <<container, task, creator, catalogVars, count>>

\* GetIPAddress, Wait and Start.
StartTask(p) ==
    /\ At(p, "ct_start")
    /\ \/ /\ OwnTask(p) /\ net /\ container
          /\ task' = "running"
          /\ Return(p)
       \/ /\ ~(OwnTask(p) /\ net /\ container)
          /\ Fail(p)
          /\ UNCHANGED task
    /\ UNCHANGED <<container, net, creator, catalogVars, count>>

-----------------------------------------------------------------------------
(* Requests.                                                               *)

\* A request reaches an idle handler.
Request(p, label) ==
    /\ At(p, "idle")
    /\ count.requests < MaxRequests
    /\ count' = [count EXCEPT !.requests = @ + 1]
    /\ Goto(p, label)
    /\ UNCHANGED <<containerdVars, catalogVars, ret>>

\* deploy() of the deploy and of the update handler up to its pull, which
\* can fail.
Pull(p) ==
    /\ p \in {"deploy", "update"}
    /\ At(p, "pull")
    /\ Goto(p, "container") \/ Goto(p, "idle")
    /\ UNCHANGED <<containerdVars, catalogVars, ret, count>>

\* NewContainer refuses a name that is taken; then CreateTask.
NewContainer(p) ==
    /\ p \in {"deploy", "update"}
    /\ At(p, "container")
    /\ \/ /\ ~container
          /\ container' = TRUE
          /\ Call(p, "ct_new", IF p = "deploy" THEN "report" ELSE "idle", "idle")
       \/ /\ container
          /\ Goto(p, "idle")
          /\ UNCHANGED <<container, ret>>
    /\ UNCHANGED <<task, net, creator, catalogVars, count>>

\* The deploy handler starts the goroutine that waits and answers.
StartWait ==
    /\ At("deploy", "report")
    /\ At("wait", "idle")
    /\ pc' = [pc EXCEPT !["deploy"] = "idle", !["wait"] = "poll"]
    /\ UNCHANGED <<containerdVars, catalogVars, ret, count>>

\* waitDeployReadyAndReport: status, address and health are right, or time
\* is up.
Poll ==
    /\ At("wait", "poll")
    /\ \/ Reachable /\ Goto("wait", "report")
       \/ Goto("wait", "idle")
    /\ UNCHANGED <<containerdVars, catalogVars, ret, count>>

\* AddAvailableFunctions.
ReportReady ==
    /\ At("wait", "report")
    /\ avail' = 1
    /\ Goto("wait", "idle")
    /\ UNCHANGED <<containerdVars, cached, ret, count>>

\* The update handler: GetFunction, then the network if it runs, Remove and
\* deploy.  The catalog is not told.
UpdateGet ==
    /\ At("update", "get")
    /\ IF GetFunction THEN Goto("update", IF task = "running" THEN "net" ELSE "remove")
                      ELSE Goto("update", "idle")
    /\ UNCHANGED <<containerdVars, catalogVars, ret, count>>

\* Mutant: the count goes down by one instead of its entry being deleted.
DeleteReportDecrements ==
    /\ At("delete", "report")
    /\ avail' = avail - 1
    /\ Goto("delete", "get")
    /\ UNCHANGED <<containerdVars, cached, ret, count>>

\* DeleteAvailableFunctions of the delete handler.  A function neither this
\* node nor another reports has no entry in the FunctionCatalog: it panics
\* and net/http ends the request.
DeleteReport ==
    /\ At("delete", "report")
    /\ \/ /\ avail' = NoEntry
          /\ Goto("delete", "get")
       \/ /\ avail = NoEntry
          /\ Goto("delete", "idle")
          /\ UNCHANGED avail
    /\ UNCHANGED <<containerdVars, cached, ret, count>>

\* UpdateAvailableFunctions of scaleDown.  It takes this node's replica only
\* when there is one and another node has one as well.
ScaleReport ==
    /\ At("scale", "report")
    /\ \/ /\ avail = 1
          /\ avail' = 0
          /\ Goto("scale", "get")
       \/ /\ Goto("scale", "idle")
          /\ UNCHANGED avail
    /\ UNCHANGED <<containerdVars, cached, ret, count>>

\* DeleteFunction: GetFunction, then the network and Remove.
DeleteGet(p) ==
    /\ p \in {"delete", "scale"}
    /\ At(p, "get")
    /\ Goto(p, IF GetFunction THEN "net" ELSE "idle")
    /\ UNCHANGED <<containerdVars, catalogVars, ret, count>>

DeleteNet(p) ==
    /\ p \in {"update", "delete", "scale"}
    /\ At(p, "net")
    /\ DeleteCNINetwork
    /\ Goto(p, "remove")
    /\ UNCHANGED <<container, task, creator, catalogVars, ret, count>>

DeleteRemove(p) ==
    /\ p \in {"update", "delete", "scale"}
    /\ At(p, "remove")
    /\ Call(p, "rm_load", IF p = "update" THEN "pull" ELSE "idle", "idle")
    /\ UNCHANGED <<containerdVars, catalogVars, count>>

-----------------------------------------------------------------------------
(* The monitor loop.                                                       *)

\* Mutant: no case for a function scaled down to zero.
MonitorReadSkipsZero ==
    /\ At("monitor", "read")
    /\ Goto("monitor", IF avail = 1 THEN "ensure" ELSE "sweep")
    /\ UNCHANGED <<containerdVars, catalogVars, ret, count>>

\* updateAvailableReplicas reads the count of the function, if it has one.
MonitorRead ==
    /\ At("monitor", "read")
    /\ Goto("monitor", CASE avail = NoEntry -> "sweep"
                         [] avail = 0       -> "zero"
                         [] OTHER           -> "ensure")
    /\ UNCHANGED <<containerdVars, catalogVars, ret, count>>

\* No replica: network and container go.
MonitorZero ==
    /\ At("monitor", "zero")
    /\ DeleteCNINetwork
    /\ Call("monitor", "rm_load", "sweep", "sweep")
    /\ UNCHANGED <<container, task, creator, catalogVars, count>>

\* EnsureTaskRunning.  Its error is logged.
EnsureTaskRunning ==
    /\ At("monitor", "ensure")
    /\ \/ /\ ~container \/ task = "created"
          /\ Goto("monitor", "ip")
          /\ UNCHANGED <<net, ret>>
       \/ /\ container /\ task = "none"
          /\ Call("monitor", "ct_new", "ip", "ip")
          /\ UNCHANGED net
       \/ /\ container /\ task = "running"
          /\ net' = TRUE
          /\ Goto("monitor", "ip")
          /\ UNCHANGED ret
       \/ /\ container /\ task = "stopped"
          /\ Goto("monitor", "restart")
          /\ UNCHANGED <<net, ret>>
    /\ UNCHANGED <<container, task, creator, catalogVars, count>>

\* A stopped task is deleted, its network is not, and one is created anew.
\* SIGKILL also hits a task that was started in the meantime; it is deleted if
\* it exits at once.
RestartTask ==
    /\ At("monitor", "restart")
    /\ Kill
    /\ Call("monitor", "ct_new", "ip", "ip")
    /\ UNCHANGED <<container, creator, avail, count>>

\* Mutant: the address is looked up and not stored.
GetTaskIPForgets ==
    /\ At("monitor", "ip")
    /\ Goto("monitor", "sweep")
    /\ UNCHANGED <<containerdVars, catalogVars, ret, count>>

\* GetTaskIP: the resolver's cache gets the present address.
GetTaskIP ==
    /\ At("monitor", "ip")
    /\ cached' = (cached \/ (container /\ net))
    /\ Goto("monitor", "sweep")
    /\ UNCHANGED <<containerdVars, avail, ret, count>>

\* Mutant: a container with a task is taken to be fine, whatever the task does.
SweepIgnoresStopped ==
    /\ At("monitor", "sweep")
    /\ \/ /\ ~container \/ task # "none"
          /\ Goto("monitor", "read")
          /\ UNCHANGED ret
       \/ /\ container /\ task = "none"
          /\ Call("monitor", "ct_new", "read", "read")
    /\ UNCHANGED <<containerdVars, catalogVars, count>>

\* EnsureAllStoppedTaskDelete looks at every container there is: it creates
\* the task that is missing and removes what has stopped.
EnsureAllStoppedTaskDelete ==
    /\ At("monitor", "sweep")
    /\ \/ /\ ~container \/ task \in {"created", "running"}
          /\ Goto("monitor", "read")
          /\ UNCHANGED <<net, ret>>
       \/ /\ container /\ task = "none"
          /\ Call("monitor", "ct_new", "read", "read")
          /\ UNCHANGED net
       \/ /\ container /\ task = "stopped"
          /\ DeleteCNINetwork
          /\ Call("monitor", "rm_load", "read", "read")
    /\ UNCHANGED <<container, task, creator, catalogVars, count>>

Monitor ==
    \/ MonitorRead \/ MonitorZero \/ EnsureTaskRunning \/ RestartTask
    \/ GetTaskIP \/ EnsureAllStoppedTaskDelete

-----------------------------------------------------------------------------
\* The function's process ends by itself.
FunctionStops ==
    /\ task = "running"
    /\ count.stops < MaxStops
    /\ count' = [count EXCEPT !.stops = @ + 1]
    /\ task' = "stopped"
    /\ UNCHANGED <<container, net, creator, catalogVars, pc, ret>>

\* Steps of the procedures.
Procedure(p) ==
    \/ RemoveLoad(p) \/ killTask(p) \/ RemoveCheck(p) \/ RemoveDelete(p)
    \/ NewTask(p) \/ CreateCNINetwork(p) \/ StartTask(p)

\* Steps of the requests.
Handle(p) ==
    \/ Pull(p) \/ NewContainer(p)
    \/ DeleteGet(p) \/ DeleteNet(p) \/ DeleteRemove(p)
    \/ p = "deploy" /\ StartWait
    \/ p = "wait" /\ (Poll \/ ReportReady)
    \/ p = "update" /\ UpdateGet
    \/ p = "delete" /\ DeleteReport
    \/ p = "scale" /\ ScaleReport
    \/ p = "monitor" /\ Monitor

Step(p) == Procedure(p) \/ Handle(p)

Arrive ==
    \/ Request("deploy", "pull")
    \/ Request("update", "get")
    \/ Request("delete", "report")
    \/ Request("scale", "report")

Next == (\E p \in Process : Step(p)) \/ Arrive \/ FunctionStops

\* Goroutines are scheduled and their calls return; nothing is assumed of
\* requests or of functions that stop.
Spec == Init /\ [][Next]_vars /\ \A p \in Process : WF_vars(Step(p))
-----------------------------------------------------------------------------
(* Properties.                                                             *)

\* "make sure the available container is running"
\* (catalog_local_level.go:39): a function the node reports as available is
\* brought back to running by the monitor loop, unless it is no longer
\* reported.
AvailableRuns == avail = 1 ~> (Reachable \/ avail # 1)

\* "make sure the container is remove when the available replicas is zero"
\* (catalog_local_level.go:54): a replica that was scaled down goes, even
\* when its scale down found it half started, could not kill it in time or
\* was overtaken by a deployment; unless the function is reported again or
\* deleted.
ScaledDownRemoved == avail = 0 ~> (~container \/ avail # 0)

\* The resolver answers from its cache first and nothing evicts an entry
\* (invoke_resolver.go:26): whatever the function's address was before, the
\* monitor replaces it once the function is up and reported, unless it
\* changes again.
CacheRefreshed ==
    (avail = 1 /\ Reachable) ~> (cached \/ avail # 1 \/ ~Reachable)

\* A stopped task does not stay: the monitor restarts or removes it, through
\* every interleaving with handlers that kill, delete or create tasks, unless a
\* removal that found no task has taken its container (catalog_local_level.go:48,
\* service.go:144, service.go:275).
StoppedCleared == task = "stopped" ~> (task # "stopped" \/ ~container)

\* Every request is answered, whoever it collides with: no chain of calls
\* waits for something another process took away, a function that ignores
\* SIGTERM included (service.go:290-326).
HandlersReturn == \A p \in Handler : ~At(p, "idle") ~> At(p, "idle")

-----------------------------------------------------------------------------
(* The inductive invariant.                                                *)

InProcedure(label) ==
    label \in {"rm_load", "rm_kill", "rm_check", "rm_delete",
               "ct_new", "ct_net", "ct_start"}

\* Procedures do not call each other and return to the code of their caller,
\* which for the monitor is its loop.
Returns ==
    /\ \A p \in Process : InProcedure(pc[p]) =>
           ~ InProcedure(ret[p].ok) /\ ~ InProcedure(ret[p].err)
    /\ pc["monitor"] # "idle"
    /\ InProcedure(pc["monitor"]) =>
           ret["monitor"].ok # "idle" /\ ret["monitor"].err # "idle"

IInv == TypeOK /\ Returns
=============================================================================
