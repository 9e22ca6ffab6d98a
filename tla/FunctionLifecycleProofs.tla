---------------------- MODULE FunctionLifecycleProofs ----------------------
(***************************************************************************)
(* No process loses its way, through every interleaving of the handlers    *)
(* and the monitor, for any number of requests and of functions that stop. *)
(* That requests are answered and that what is stopped goes is left to     *)
(* TLC.                                                                    *)
(***************************************************************************)
EXTENDS FunctionLifecycle, TLAPS

-----------------------------------------------------------------------------
(* Control.                                                                *)

\* The parts of the invariant: what the node runs, and where processes are.
World ==
    /\ container \in BOOLEAN /\ net \in BOOLEAN /\ cached \in BOOLEAN
    /\ task \in {"none", "created", "running", "stopped"}
    /\ creator \in Process
    /\ avail \in {NoEntry, 0, 1}

Where ==
    /\ pc \in [Process -> Label]
    /\ ret \in [Process -> [ok : Label, err : Label]]
    /\ Returns

Counted == count \in [requests : 0 .. MaxRequests, stops : 0 .. MaxStops]

LEMMA Parts ==
    /\ IInv <=> World /\ Where /\ Counted
    /\ IInv' <=> World' /\ Where' /\ Counted'
BY DEF IInv, TypeOK, World, Where, Counted

\* A process goes on in its own code, or within a procedure.
LEMMA Proceeds ==
    ASSUME Where, NEW p \in Process, NEW label \in Label, Goto(p, label),
           ret' = ret,
           InProcedure(label) => InProcedure(pc[p]),
           p = "monitor" => label # "idle"
    PROVE  Where'
<1>1. /\ pc' \in [Process -> Label] /\ pc'[p] = label
      /\ \A q \in Process \ {p} : pc'[q] = pc[q]
  BY DEF Where, Goto
<1>2. "monitor" \in Process
  BY DEF Process
<1>3. Returns'
  BY <1>1, <1>2 DEF Where, Returns
<1> QED
  BY <1>1, <1>3 DEF Where

\* A process calls a procedure.
LEMMA Calls ==
    ASSUME Where, NEW p \in Process, NEW label \in Label \ {"idle"},
           NEW ok \in Label, NEW err \in Label, Call(p, label, ok, err),
           ~ InProcedure(ok), ~ InProcedure(err),
           p = "monitor" => ok # "idle" /\ err # "idle"
    PROVE  Where'
<1> DEFINE r == [ok |-> ok, err |-> err]
<1>1. /\ pc' \in [Process -> Label] /\ pc'[p] = label
      /\ \A q \in Process \ {p} : pc'[q] = pc[q]
  BY DEF Where, Call, Goto
<1>2. r \in [ok : Label, err : Label] /\ r.ok = ok /\ r.err = err
  OBVIOUS
<1>3. ret' = [ret EXCEPT ![p] = r]
  BY DEF Call
<1> HIDE DEF r
<1>4. /\ ret' \in [Process -> [ok : Label, err : Label]] /\ ret'[p] = r
      /\ \A q \in Process \ {p} : ret'[q] = ret[q]
  BY <1>2, <1>3 DEF Where
<1>5. "monitor" \in Process
  BY DEF Process
<1>6. Returns'
  BY <1>1, <1>2, <1>4, <1>5 DEF Where, Returns
<1> QED
  BY <1>1, <1>4, <1>6 DEF Where

\* A procedure ends, with or without an error.
LEMMA Ends ==
    ASSUME Where, NEW p \in Process, InProcedure(pc[p]), Return(p) \/ Fail(p)
    PROVE  Where'
<1>1. PICK label \in {ret[p].ok, ret[p].err} :
          Goto(p, label) /\ ret' = [ret EXCEPT ![p] = NoReturn]
  BY DEF Return, Fail
<1>2. /\ label \in Label /\ ~ InProcedure(label)
      /\ p = "monitor" => label # "idle"
  BY <1>1 DEF Where, Returns
<1>3. /\ pc' \in [Process -> Label] /\ pc'[p] = label
      /\ \A q \in Process \ {p} : pc'[q] = pc[q]
  BY <1>1, <1>2 DEF Where, Goto
<1>4. NoReturn \in [ok : Label, err : Label]
  BY DEF NoReturn, Label
<1>5. /\ ret' \in [Process -> [ok : Label, err : Label]]
      /\ \A q \in Process \ {p} : ret'[q] = ret[q]
  BY <1>1, <1>4 DEF Where
<1>6. "monitor" \in Process
  BY DEF Process
<1>7. Returns'
  BY <1>2, <1>3, <1>5, <1>6 DEF Where, Returns
<1> QED
  BY <1>3, <1>5, <1>7 DEF Where

LEMMA InitHolds == Init => IInv
<1> SUFFICES ASSUME Init PROVE IInv
  OBVIOUS
<1>1. World
  <2>1. avail = NoEntry /\ creator = "deploy" /\ task = "none"
    BY DEF Init
  <2>2. "deploy" \in Process
    BY DEF Process, Handler
  <2>3. container = FALSE /\ net = FALSE /\ cached = FALSE
    BY DEF Init
  <2> QED
    BY <2>1, <2>2, <2>3 DEF World
<1>2. Where
  <2>1. NoReturn \in [ok : Label, err : Label]
    BY DEF NoReturn, Label
  <2>2. pc \in [Process -> {"idle", "read"}] /\ pc["monitor"] = "read"
    BY DEF Init, Process
  <2>3. ret \in [Process -> [ok : Label, err : Label]]
    BY <2>1 DEF Init
  <2>4. {"idle", "read"} \subseteq Label
    BY DEF Label
  <2>5. "monitor" \in Process
    BY DEF Process
  <2> QED
    BY <2>2, <2>3, <2>4, <2>5 DEF Where, Returns, InProcedure
<1>3. Counted
  BY LifecycleAssumption DEF Init, Counted
<1> QED
  BY <1>1, <1>2, <1>3, Parts

\* Steps that leave what the node runs, the catalog and the counts alone.
LEMMA Quiet ==
    ASSUME World, Counted, UNCHANGED <<containerdVars, catalogVars, count>>
    PROVE  World' /\ Counted'
BY DEF World, Counted, containerdVars, catalogVars

\* The task goes, or is hit by a signal.
LEMMA Killed ==
    ASSUME World, Kill, UNCHANGED <<container, creator, avail>>
    PROVE  World'
<1>1. CASE TaskDelete
  BY <1>1 DEF TaskDelete, World
<1>2. CASE task' \in {"stopped", task} /\ UNCHANGED <<net, cached>>
  BY <1>2 DEF World
<1> QED
  BY <1>1, <1>2 DEF Kill

-----------------------------------------------------------------------------
(* The procedures.                                                         *)

LEMMA RemoveSteps ==
    ASSUME IInv, NEW p \in Process,
           RemoveLoad(p) \/ killTask(p) \/ RemoveCheck(p) \/ RemoveDelete(p)
    PROVE  IInv'
<1> USE Parts
<1> DEFINE next == {"rm_check", "rm_delete", "rm_kill"}
<1>1. \A label \in next : label \in Label /\ label # "idle"
  BY DEF Label
<1>2. CASE RemoveLoad(p)
  <2>1. InProcedure(pc[p])
    BY <1>2 DEF RemoveLoad, At, InProcedure
  <2>2. World' /\ Counted'
    BY <1>2, Quiet DEF RemoveLoad
  <2>3. CASE Return(p)
    BY <2>1, <2>2, <2>3, Ends
  <2>4. CASE \E label \in next : Goto(p, label) /\ ret' = ret
    BY <1>1, <2>1, <2>2, <2>4, Proceeds
  <2> QED
    BY <1>2, <2>3, <2>4 DEF RemoveLoad
<1>3. CASE killTask(p)
  <2>1. InProcedure(pc[p]) /\ Goto(p, "rm_check") /\ UNCHANGED <<ret, count>>
    BY <1>3 DEF killTask, At, InProcedure
  <2>2. Where'
    BY <1>1, <2>1, Proceeds
  <2>3. World'
    BY <1>3, Killed DEF killTask
  <2> QED
    BY <2>1, <2>2, <2>3 DEF Counted
<1>4. CASE RemoveDelete(p)
  <2>1. InProcedure(pc[p]) /\ (Return(p) \/ Fail(p))
    BY <1>4 DEF RemoveDelete, At, InProcedure
  <2>2. Where'
    BY <2>1, Ends
  <2>3. /\ UNCHANGED <<task, net, creator, avail, cached, count>>
        /\ container' = FALSE
    BY <1>4 DEF RemoveDelete, catalogVars
  <2>4. container' \in BOOLEAN
    BY <2>3 DEF World
  <2>5. World' /\ Counted'
    BY <2>3, <2>4 DEF World, Counted
  <2> QED
    BY <2>2, <2>5
<1>5. CASE RemoveCheck(p)
  <2>1. InProcedure(pc[p])
    BY <1>5 DEF RemoveCheck, At, InProcedure
  <2>2. World' /\ Counted'
    BY <1>5, Quiet DEF RemoveCheck
  <2>3. CASE Fail(p)
    BY <2>1, <2>2, <2>3, Ends
  <2>4. CASE \E label \in next : Goto(p, label) /\ ret' = ret
    BY <1>1, <2>1, <2>2, <2>4, Proceeds
  <2> QED
    BY <1>5, <2>3, <2>4 DEF RemoveCheck
<1> QED
  BY <1>2, <1>3, <1>4, <1>5

LEMMA CreateSteps ==
    ASSUME IInv, NEW p \in Process,
           NewTask(p) \/ CreateCNINetwork(p) \/ StartTask(p)
    PROVE  IInv'
<1> USE Parts
<1>1. /\ "ct_net" \in Label /\ "ct_start" \in Label
      /\ "ct_net" # "idle" /\ "ct_start" # "idle"
  BY DEF Label
<1>2. InProcedure(pc[p])
  BY DEF NewTask, CreateCNINetwork, StartTask, At, InProcedure
<1>3. CASE NewTask(p)
  <2>1. Where'
    BY <1>1, <1>2, <1>3, Proceeds, Ends DEF NewTask
  <2>2. /\ UNCHANGED <<container, net, avail, cached, count>>
        /\ \/ container /\ task' = "created" /\ creator' = p
           \/ UNCHANGED <<task, creator>>
    BY <1>3 DEF NewTask, catalogVars
  <2>3. World' /\ Counted'
    BY <2>2 DEF World, Counted
  <2> QED
    BY <2>1, <2>3
<1>4. CASE CreateCNINetwork(p)
  <2>1. Where'
    BY <1>1, <1>2, <1>4, Proceeds, Ends DEF CreateCNINetwork
  <2>2. /\ UNCHANGED <<container, task, creator, avail, cached, count>>
        /\ \/ task = "created" /\ net' = TRUE
           \/ net' = net
    BY <1>4 DEF CreateCNINetwork, OwnTask, catalogVars
  <2>3. net' \in BOOLEAN
    BY <2>2 DEF World
  <2>4. World' /\ Counted'
    BY <2>2, <2>3 DEF World, Counted
  <2> QED
    BY <2>1, <2>4
<1>5. CASE StartTask(p)
  <2>1. Where'
    BY <1>1, <1>2, <1>5, Proceeds, Ends DEF StartTask
  <2>2. /\ UNCHANGED <<container, net, creator, avail, cached, count>>
        /\ \/ task = "created" /\ task' = "running"
           \/ task' = task
    BY <1>5 DEF StartTask, OwnTask, catalogVars
  <2>3. World' /\ Counted'
    BY <2>2 DEF World, Counted
  <2> QED
    BY <2>1, <2>3
<1> QED
  BY <1>3, <1>4, <1>5

-----------------------------------------------------------------------------
(* The requests.                                                           *)

\* A handler goes on in its own code.
LEMMA HandlerProceeds ==
    ASSUME Where, NEW p \in Process \ {"monitor"}, ret' = ret,
           NEW label \in {"idle", "pull", "container", "poll", "report", "get",
                          "net", "remove"},
           Goto(p, label)
    PROVE  Where'
<1>1. label \in Label /\ ~ InProcedure(label)
  BY DEF Label, InProcedure
<1> QED
  BY <1>1, Proceeds

LEMMA DeploySteps ==
    ASSUME IInv, NEW p \in {"deploy", "update"}, Pull(p) \/ NewContainer(p)
    PROVE  IInv'
<1> USE Parts
<1>1. p \in Process \ {"monitor"}
  BY DEF Process, Handler
<1>2. CASE Pull(p)
  <2>1. World' /\ Counted'
    BY <1>2, Quiet DEF Pull
  <2>2. Where'
    BY <1>1, <1>2, HandlerProceeds DEF Pull
  <2> QED
    BY <2>1, <2>2
<1>3. CASE NewContainer(p)
  <2>1. /\ UNCHANGED <<task, net, creator, avail, cached, count>>
        /\ container' = TRUE \/ container' = container
    BY <1>3 DEF NewContainer, catalogVars
  <2>2. container' \in BOOLEAN
    BY <2>1 DEF World
  <2>3. World' /\ Counted'
    BY <2>1, <2>2 DEF World, Counted
  <2>4. ASSUME NEW ok \in {"report", "idle"}, Call(p, "ct_new", ok, "idle")
        PROVE  Where'
    <3>1. /\ "ct_new" \in Label \ {"idle"} /\ ok \in Label /\ "idle" \in Label
          /\ ~ InProcedure(ok) /\ ~ InProcedure("idle")
      BY DEF Label, InProcedure
    <3> QED
      BY <1>1, <2>4, <3>1, Calls
  <2>5. CASE Call(p, "ct_new", IF p = "deploy" THEN "report" ELSE "idle", "idle")
    BY <2>3, <2>4, <2>5
  <2>6. CASE Goto(p, "idle") /\ ret' = ret
    BY <1>1, <2>3, <2>6, HandlerProceeds
  <2> QED
    BY <1>3, <2>5, <2>6 DEF NewContainer
<1> QED
  BY <1>2, <1>3

LEMMA WaitSteps ==
    ASSUME IInv, StartWait \/ Poll \/ ReportReady
    PROVE  IInv'
<1> USE Parts
<1>1. {"deploy", "wait"} \subseteq Process \ {"monitor"} /\ "monitor" \in Process
  BY DEF Process, Handler
<1>2. CASE StartWait
  <2>1. World' /\ Counted'
    BY <1>2, Quiet DEF StartWait
  <2>2. "idle" \in Label /\ "poll" \in Label
    BY DEF Label
  <2>3. /\ ret' = ret /\ pc' \in [Process -> Label]
        /\ \A q \in Process : pc'[q] \in {pc[q], "idle", "poll"}
        /\ pc'["monitor"] = pc["monitor"]
    BY <1>1, <1>2, <2>2 DEF StartWait, Where
  <2>4. Returns'
    BY <1>1, <2>3 DEF Where, Returns, InProcedure
  <2> QED
    BY <2>1, <2>3, <2>4 DEF Where
<1>3. CASE Poll
  <2>1. World' /\ Counted'
    BY <1>3, Quiet DEF Poll
  <2>2. Where'
    BY <1>1, <1>3, HandlerProceeds DEF Poll
  <2> QED
    BY <2>1, <2>2
<1>4. CASE ReportReady
  <2>1. /\ UNCHANGED <<container, task, net, creator, cached, count>> /\ avail' = 1
    BY <1>4 DEF ReportReady, containerdVars
  <2>2. World' /\ Counted'
    BY <2>1 DEF World, Counted
  <2>3. Where'
    BY <1>1, <1>4, HandlerProceeds DEF ReportReady
  <2> QED
    BY <2>2, <2>3
<1> QED
  BY <1>2, <1>3, <1>4

LEMMA ReportSteps ==
    ASSUME IInv, UpdateGet \/ DeleteReport \/ ScaleReport
    PROVE  IInv'
<1> USE Parts
<1>1. {"update", "delete", "scale"} \subseteq Process \ {"monitor"}
  BY DEF Process, Handler
<1>2. CASE UpdateGet
  <2>1. World' /\ Counted'
    BY <1>2, Quiet DEF UpdateGet
  <2>2. ret' = ret /\ \E label \in {"net", "remove", "idle"} : Goto("update", label)
    BY <1>2 DEF UpdateGet
  <2>3. Where'
    BY <1>1, <2>2, HandlerProceeds
  <2> QED
    BY <2>1, <2>3
<1>3. CASE DeleteReport \/ ScaleReport
  <2>1. /\ UNCHANGED <<container, task, net, creator, cached, count, ret>>
        /\ avail' \in {NoEntry, 0, avail}
    BY <1>3 DEF DeleteReport, ScaleReport, containerdVars
  <2>2. World' /\ Counted'
    BY <2>1 DEF World, Counted
  <2>3. \E q \in {"delete", "scale"}, label \in {"get", "idle"} : Goto(q, label)
    BY <1>3 DEF DeleteReport, ScaleReport
  <2>4. Where'
    BY <1>1, <2>1, <2>3, HandlerProceeds
  <2> QED
    BY <2>2, <2>4
<1> QED
  BY <1>2, <1>3

LEMMA DeleteSteps ==
    ASSUME IInv, NEW p \in {"update", "delete", "scale"},
           DeleteGet(p) \/ DeleteNet(p) \/ DeleteRemove(p)
    PROVE  IInv'
<1> USE Parts
<1>1. p \in Process \ {"monitor"}
  BY DEF Process, Handler
<1>2. CASE DeleteGet(p)
  <2>1. World' /\ Counted'
    BY <1>2, Quiet DEF DeleteGet
  <2>2. ret' = ret /\ \E label \in {"net", "idle"} : Goto(p, label)
    BY <1>2 DEF DeleteGet
  <2>3. Where'
    BY <1>1, <2>2, HandlerProceeds
  <2> QED
    BY <2>1, <2>3
<1>3. CASE DeleteNet(p)
  <2>1. UNCHANGED <<container, task, creator, avail, cached, count>>
    BY <1>3 DEF DeleteNet, catalogVars
  <2>4. net' \in BOOLEAN
    BY <1>3 DEF DeleteNet, DeleteCNINetwork
  <2>2. World' /\ Counted'
    BY <2>1, <2>4 DEF World, Counted
  <2>3. Where'
    BY <1>1, <1>3, HandlerProceeds DEF DeleteNet
  <2> QED
    BY <2>2, <2>3
<1>4. CASE DeleteRemove(p)
  <2>1. World' /\ Counted'
    BY <1>4, Quiet DEF DeleteRemove
  <2>2. PICK ok \in {"pull", "idle"} : Call(p, "rm_load", ok, "idle")
    BY <1>4 DEF DeleteRemove
  <2>3. /\ "rm_load" \in Label \ {"idle"} /\ ok \in Label /\ "idle" \in Label
        /\ ~ InProcedure(ok) /\ ~ InProcedure("idle")
    BY DEF Label, InProcedure
  <2>4. Where'
    BY <1>1, <2>2, <2>3, Calls
  <2> QED
    BY <2>1, <2>4
<1> QED
  BY <1>2, <1>3, <1>4

-----------------------------------------------------------------------------
(* The monitor.                                                            *)

\* The monitor goes on in its loop.
LEMMA MonitorProceeds ==
    ASSUME Where, ret' = ret,
           NEW label \in {"read", "zero", "ensure", "restart", "ip", "sweep"},
           Goto("monitor", label)
    PROVE  Where'
<1>1. /\ label \in Label /\ ~ InProcedure(label) /\ label # "idle"
      /\ "monitor" \in Process
  BY DEF Label, InProcedure, Process
<1> QED
  BY <1>1, Proceeds

\* The monitor calls a procedure that returns to its loop.
LEMMA MonitorCalls ==
    ASSUME Where, NEW label \in {"rm_load", "ct_new"}, NEW back \in {"sweep", "ip", "read"},
           Call("monitor", label, back, back)
    PROVE  Where'
<1>1. /\ label \in Label \ {"idle"} /\ back \in Label
      /\ ~ InProcedure(back) /\ back # "idle" /\ "monitor" \in Process
  BY DEF Label, InProcedure, Process
<1> QED
  BY <1>1, Calls

LEMMA MonitorSteps ==
    ASSUME IInv, Monitor
    PROVE  IInv'
<1> USE Parts
<1>1. CASE MonitorRead
  <2>1. World' /\ Counted'
    BY <1>1, Quiet DEF MonitorRead
  <2>2. ret' = ret /\ \E label \in {"sweep", "zero", "ensure"} : Goto("monitor", label)
    BY <1>1 DEF MonitorRead
  <2>3. Where'
    BY <2>2, MonitorProceeds
  <2> QED
    BY <2>1, <2>3
<1>2. CASE MonitorZero
  <2>1. UNCHANGED <<container, task, creator, avail, cached, count>>
    BY <1>2 DEF MonitorZero, catalogVars
  <2>4. net' \in BOOLEAN
    BY <1>2 DEF MonitorZero, DeleteCNINetwork
  <2>2. World' /\ Counted'
    BY <2>1, <2>4 DEF World, Counted
  <2>3. Where'
    BY <1>2, MonitorCalls DEF MonitorZero
  <2> QED
    BY <2>2, <2>3
<1>3. CASE EnsureTaskRunning
  <2>1. /\ UNCHANGED <<container, task, creator, avail, cached, count>>
        /\ net' = net \/ (net' = TRUE /\ task = "running")
    BY <1>3 DEF EnsureTaskRunning, catalogVars
  <2>2. net' \in BOOLEAN
    BY <2>1 DEF World
  <2>3. World' /\ Counted'
    BY <2>1, <2>2 DEF World, Counted
  <2>4. \/ ret' = ret /\ Goto("monitor", "ip")
        \/ Call("monitor", "ct_new", "ip", "ip")
        \/ ret' = ret /\ Goto("monitor", "restart")
    BY <1>3 DEF EnsureTaskRunning
  <2>5. Where'
    BY <2>4, MonitorProceeds, MonitorCalls
  <2> QED
    BY <2>3, <2>5
<1>4. CASE RestartTask
  <2>1. World'
    BY <1>4, Killed DEF RestartTask
  <2>2. Where' /\ count' = count
    BY <1>4, MonitorCalls DEF RestartTask
  <2> QED
    BY <2>1, <2>2 DEF Counted
<1>5. CASE GetTaskIP
  <2>1. /\ UNCHANGED <<container, task, net, creator, avail, count>>
        /\ cached' = (cached \/ (container /\ net))
    BY <1>5 DEF GetTaskIP, containerdVars
  <2>2. cached' \in BOOLEAN
    BY <2>1
  <2>4. World' /\ Counted'
    BY <2>1, <2>2 DEF World, Counted
  <2>5. Where'
    BY <1>5, MonitorProceeds DEF GetTaskIP
  <2> QED
    BY <2>4, <2>5
<1>6. CASE EnsureAllStoppedTaskDelete
  <2>1. UNCHANGED <<container, task, creator, avail, cached, count>>
    BY <1>6 DEF EnsureAllStoppedTaskDelete, catalogVars
  <2>2. net' \in BOOLEAN
    BY <1>6 DEF EnsureAllStoppedTaskDelete, DeleteCNINetwork, World
  <2>3. World' /\ Counted'
    BY <2>1, <2>2 DEF World, Counted
  <2>4. \/ ret' = ret /\ Goto("monitor", "read")
        \/ Call("monitor", "ct_new", "read", "read")
        \/ Call("monitor", "rm_load", "read", "read")
    BY <1>6 DEF EnsureAllStoppedTaskDelete
  <2>5. Where'
    BY <2>4, MonitorProceeds, MonitorCalls
  <2> QED
    BY <2>3, <2>5
<1> QED
  BY <1>1, <1>2, <1>3, <1>4, <1>5, <1>6 DEF Monitor

-----------------------------------------------------------------------------
(* The invariant.                                                          *)

LEMMA ArriveSteps ==
    ASSUME IInv, Arrive
    PROVE  IInv'
<1> USE Parts
<1>1. PICK p \in Handler, label \in {"pull", "get", "report"} : Request(p, label)
  BY DEF Arrive, Handler
<1>2. p \in Process \ {"monitor"}
  BY DEF Process, Handler
<1>3. World'
  BY <1>1 DEF Request, World, containerdVars, catalogVars
<1>4. Counted'
  BY <1>1, LifecycleAssumption DEF Request, Counted
<1>5. Where'
  BY <1>1, <1>2, HandlerProceeds DEF Request
<1> QED
  BY <1>3, <1>4, <1>5

LEMMA StopSteps ==
    ASSUME IInv, FunctionStops
    PROVE  IInv'
<1> USE Parts
<1>1. World'
  BY DEF FunctionStops, World, catalogVars
<1>2. Counted'
  BY LifecycleAssumption DEF FunctionStops, Counted
<1>3. Where'
  BY DEF FunctionStops, Where, Returns
<1> QED
  BY <1>1, <1>2, <1>3

LEMMA Invariance == Spec => []IInv
<1>1. Init => IInv
  BY InitHolds
<1>2. IInv /\ [Next]_vars => IInv'
  <2> SUFFICES ASSUME IInv, [Next]_vars PROVE IInv'
    OBVIOUS
  <2>1. ASSUME NEW p \in Process, Procedure(p) PROVE IInv'
    BY <2>1, RemoveSteps, CreateSteps DEF Procedure
  <2>2. ASSUME NEW p \in Process, Handle(p) PROVE IInv'
    <3>1. CASE Pull(p) \/ NewContainer(p)
      BY <3>1, DeploySteps DEF Pull, NewContainer
    <3>2. CASE DeleteGet(p) \/ DeleteNet(p) \/ DeleteRemove(p)
      BY <3>2, DeleteSteps DEF DeleteGet, DeleteNet, DeleteRemove
    <3> QED
      BY <2>2, <3>1, <3>2, WaitSteps, ReportSteps, MonitorSteps DEF Handle
  <2>3. CASE UNCHANGED vars
    BY <2>3 DEF vars, IInv, TypeOK, Returns
  <2> QED
    BY <2>1, <2>2, <2>3, ArriveSteps, StopSteps DEF Next, Step
<1> QED
  BY <1>1, <1>2, PTL DEF Spec

\* The state of the function and of its processes keeps its types, through
\* every interleaving of requests with the monitor loop, and wherever their
\* calls of Remove and CreateTask return to (deploy.go:166, update.go:20,
\* functions.go:316, service.go:208, service.go:246, catalog_local_level.go:37).
THEOREM TypeCorrect == Spec => []TypeOK
<1>1. IInv => TypeOK
  BY DEF IInv
<1> QED
  BY <1>1, Invariance, PTL

\* No failed call ends the monitor loop: whatever Remove and CreateTask
\* return, it goes on (catalog_local_level.go:37).
THEOREM MonitorGoesOn == Spec => []~At("monitor", "idle")
<1>1. IInv => ~At("monitor", "idle")
  BY DEF IInv, Returns, At
<1> QED
  BY <1>1, Invariance, PTL
=============================================================================
