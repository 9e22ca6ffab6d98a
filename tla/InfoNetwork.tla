---------------------------- MODULE InfoNetwork ----------------------------
(***************************************************************************)
(* The P2P network of providers that replicate their catalogs.             *)
(*                                                                         *)
(* Each provider has an info room, a pubsub topic named after its peer ID. *)
(* Whenever its own functions or its overload flag change it publishes     *)
(* them there, whole; its peers subscribe to the room and replace their    *)
(* view of it by each message they receive.  When two providers get        *)
(* connected each also sends the other its own functions on a stream.      *)
(*                                                                         *)
(* Processes per node, as in the code: HTTP handlers, one goroutine per    *)
(* deployment that waits for the function to answer, the monitor loop, the *)
(* publish loop, one subscribe loop per peer, one dialer per peer, one     *)
(* goroutine per connection that sends the initial stream and one per      *)
(* stream received.  An action is what one of them does between two points *)
(* where it blocks (channel, network, containerd); the catalog methods are *)
(* atomic here although the code has no lock around them.                  *)
(*                                                                         *)
(* Abstracted: a container is there or not, see FunctionLifecycle; one     *)
(* namespace; a node appears at most once per kind and function among its  *)
(* own blocked handlers.                                                   *)
(***************************************************************************)
EXTENDS Catalog, Sequences, SequencesExt

CONSTANTS
    SubscriberBuffer,   \* messages a subscription holds; more are dropped
    Ordered,            \* pubsub keeps the order of a room's messages
    Overlap,            \* changes may overlap with nodes that join or crash
    MaxRequests,        \* bound on HTTP requests that change a catalog
    MaxFlips,           \* bound on changes of the overload flag
    MaxCrashes,         \* bound on spontaneous crashes
    MaxGiveUps,         \* bound on dialers that exhaust their retries
    MaxEarly            \* bound on connections to a node that is starting

ASSUME BoundsAssumption ==
    /\ SubscriberBuffer \in Nat \ {0}
    /\ Ordered \in BOOLEAN
    /\ Overlap \in BOOLEAN
    /\ MaxRequests \in Nat
    /\ MaxFlips \in Nat
    /\ MaxCrashes \in Nat
    /\ MaxGiveUps \in Nat
    /\ MaxEarly \in Nat

VARIABLES
    up,         \* up[n]: the provider process of n runs, its host listens
    serves,     \* serves[n]: stream handler and notifiee are registered
    unseen,     \* unseen[n]: peers staticDiscovery has still to look at
    early,      \* early[n]: peers it was connected to before it registered
    container,  \* container[n]: functions with a container on n
    catalog,    \* catalog[n]: the catalog of n
    waiting,    \* waiting[n]: deployments whose readiness is awaited
    sends,      \* sends[n]: goroutines blocked in publishInfo
    removing,   \* removing[n]: handlers about to call DeleteFunction
    packing,    \* packing[n]: the publish loop has received, not published
    dialing,    \* dialing[n]: peers HandlePeerFound still tries to reach
    conn,       \* conn[n]: peers n has a connection with
    notify,     \* notify[n]: peers whose Connected callback is due on n
    sending,    \* sending[n]: peers n owes the initial stream
    stream,     \* stream[n][m]: initial streams in flight from n to m
    subscribed, \* subscribed[n]: peers whose room n has joined
    topic,      \* topic[n][m]: messages of n's room not yet read by m
    count       \* what the bounds have been spent on

catalogVars == <<container, catalog, waiting, sends, removing, packing>>
startVars == <<serves, unseen, early>>
peerVars == <<dialing, conn, notify, sending, subscribed, startVars>>
netVars == <<stream, topic>>
vars == <<up, catalogVars, peerVars, netVars, count>>

\* A goroutine blocked in publishInfo, and what called it.
Send == ({"add", "update", "delete"} \X Function) \cup {<<"pressure">>}

Counter ==
    [requests : Nat, flips : Nat, crashes : Nat, giveUps : Nat, early : Nat]

TypeOK ==
    /\ up \in [Node -> BOOLEAN]
    /\ serves \in [Node -> BOOLEAN]
    /\ unseen \in [Node -> SUBSET Node]
    /\ early \in [Node -> SUBSET Node]
    /\ container \in [Node -> SUBSET Function]
    /\ catalog \in [Node -> CatalogType]
    /\ waiting \in [Node -> SUBSET Function]
    /\ sends \in [Node -> SUBSET Send]
    /\ removing \in [Node -> SUBSET Function]
    /\ packing \in [Node -> BOOLEAN]
    /\ dialing \in [Node -> SUBSET Node]
    /\ conn \in [Node -> SUBSET Node]
    /\ notify \in [Node -> SUBSET Node]
    /\ sending \in [Node -> SUBSET Node]
    /\ stream \in [Node -> [Node -> SUBSET NodeInfoMsg]]
    /\ subscribed \in [Node -> SUBSET Node]
    /\ topic \in [Node -> [Node -> Seq(NodeInfoMsg)]]
    /\ count \in Counter

Init ==
    /\ up = [n \in Node |-> FALSE]
    /\ serves = [n \in Node |-> FALSE]
    /\ unseen = [n \in Node |-> {}]
    /\ early = [n \in Node |-> {}]
    /\ container = [n \in Node |-> {}]
    /\ catalog = [n \in Node |-> NewCatalog]
    /\ waiting = [n \in Node |-> {}]
    /\ sends = [n \in Node |-> {}]
    /\ removing = [n \in Node |-> {}]
    /\ packing = [n \in Node |-> FALSE]
    /\ dialing = [n \in Node |-> {}]
    /\ conn = [n \in Node |-> {}]
    /\ notify = [n \in Node |-> {}]
    /\ sending = [n \in Node |-> {}]
    /\ stream = [n \in Node |-> [m \in Node |-> {}]]
    /\ subscribed = [n \in Node |-> {}]
    /\ topic = [n \in Node |-> [m \in Node |-> <<>>]]
    /\ count = [requests |-> 0, flips |-> 0, crashes |-> 0, giveUps |-> 0,
                early |-> 0]

-----------------------------------------------------------------------------
(* Process start and end.                                                  *)

\* runProviderE until libp2p.New: containers outlive the process, the catalog
\* is rebuilt from them, and the new host listens for connections.
Start(n) ==
    /\ ~up[n]
    /\ up' = [up EXCEPT ![n] = TRUE]
    /\ catalog' = [catalog EXCEPT ![n] = initSelfCatagory(n, container[n])]
    /\ UNCHANGED <<container, waiting, sends, removing, packing, peerVars,
                   netVars, count>>

\* InitInfoNetwork goes on: the handler of initial streams, the node's own
\* room, and the notifiee, which is not told of connections that exist.
Register(n) ==
    /\ up[n] /\ ~serves[n]
    /\ serves' = [serves EXCEPT ![n] = TRUE]
    /\ unseen' = [unseen EXCEPT ![n] = Node \ {n}]
    /\ UNCHANGED <<up, early, catalogVars, dialing, conn, notify, sending,
                   subscribed, netVars, count>>

\* One turn of the loop over the configured peers: a dialer is started for m
\* unless m already has an entry.
staticDiscovery(n, m) ==
    /\ m \in unseen[n]
    /\ unseen' = [unseen EXCEPT ![n] = @ \ {m}]
    /\ dialing' = [dialing EXCEPT ![n] = @ \cup ({m} \ catalog[n].nodes)]
    /\ UNCHANGED <<up, serves, early, catalogVars, conn, notify, sending,
                   subscribed, netVars, count>>

\* InitInfoNetwork has returned: the monitor loop and the HTTP server start.
Started(n) == serves[n] /\ unseen[n] = {}

\* The process of n ends, from outside or by log.Fatal: its goroutines, its
\* catalog and its connections are gone, its containers are not.  Its peers
\* notice the lost connection; Disconnected does nothing.
Exit(n) ==
    /\ up' = [up EXCEPT ![n] = FALSE]
    /\ serves' = [serves EXCEPT ![n] = FALSE]
    /\ unseen' = [unseen EXCEPT ![n] = {}]
    /\ early' = [early EXCEPT ![n] = {}]
    /\ catalog' = [catalog EXCEPT ![n] = NewCatalog]
    /\ waiting' = [waiting EXCEPT ![n] = {}]
    /\ sends' = [sends EXCEPT ![n] = {}]
    /\ removing' = [removing EXCEPT ![n] = {}]
    /\ packing' = [packing EXCEPT ![n] = FALSE]
    /\ dialing' = [dialing EXCEPT ![n] = {}]
    /\ conn' = [m \in Node |-> IF m = n THEN {} ELSE conn[m] \ {n}]
    /\ notify' = [notify EXCEPT ![n] = {}]
    /\ sending' = [sending EXCEPT ![n] = {}]
    /\ subscribed' = [subscribed EXCEPT ![n] = {}]
    /\ stream' = [m \in Node |-> [stream[m] EXCEPT ![n] = {}]]
    /\ topic' = [m \in Node |-> [topic[m] EXCEPT ![n] = <<>>]]
    /\ UNCHANGED container

\* No change is being reported, published or read.
Quiet ==
    \A n \in Node :
        /\ waiting[n] = {} /\ sends[n] = {} /\ removing[n] = {}
        /\ ~packing[n]
        /\ \A m \in Node : topic[n][m] = <<>>

\* The process is killed, or updatePressure cannot query Prometheus, which it
\* takes for fatal.
Crash(n) ==
    /\ up[n]
    /\ Overlap \/ Quiet
    /\ count.crashes < MaxCrashes
    /\ count' = [count EXCEPT !.crashes = @ + 1]
    /\ Exit(n)

-----------------------------------------------------------------------------
(* Peer discovery.                                                         *)

\* A dialer of n reaches m, which may still be starting.  The callbacks of an
\* earlier connection between the two have run and its streams are closed.
Reach(n, m) ==
    /\ up[n] /\ up[m]
    /\ m \in dialing[n]
    /\ m \notin conn[n]
    /\ m \notin notify[n] /\ n \notin notify[m]
    /\ stream[n][m] = {} /\ stream[m][n] = {}
    /\ conn' = [conn EXCEPT ![n] = @ \cup {m}, ![m] = @ \cup {n}]
    /\ UNCHANGED <<up, serves, unseen, catalogVars, dialing, sending,
                   subscribed, netVars>>

\* Both ends have a notifiee, whose callback is due.
BothNotified(n, m) ==
    /\ notify' = [notify EXCEPT ![n] = @ \cup {m}, ![m] = @ \cup {n}]
    /\ UNCHANGED early

\* The notifiee of n is told, m has none yet.
DialerNotified(n, m) ==
    /\ notify' = [notify EXCEPT ![n] = @ \cup {m}]
    /\ early' = [early EXCEPT ![m] = @ \cup {n}]

Connect(n, m) ==
    /\ Started(m)
    /\ Reach(n, m)
    /\ BothNotified(n, m)
    /\ UNCHANGED count

ConnectEarly(n, m) ==
    /\ ~Started(m)
    /\ count.early < MaxEarly
    /\ count' = [count EXCEPT !.early = @ + 1]
    /\ Reach(n, m)
    /\ IF serves[m] THEN BothNotified(n, m) ELSE DialerNotified(n, m)

\* Streams pass once the callbacks of both ends have run: the swarm starts
\* a connection after it has notified.
Talks(n, m) == m \in conn[n] /\ m \notin notify[n] /\ n \notin notify[m]

\* NewNodeCatalogEntry for a peer that has none, from the callback or from
\* the handler of an initial stream, which then wait for RankNodeByRTT.
NewEntry(n, m) ==
    /\ up[n]
    /\ m \notin catalog[n].nodes
    /\ m \in notify[n] \/ stream[m][n] # {}
    /\ catalog' = [catalog EXCEPT ![n] = NewNodeCatalogEntry(@, m)]
    /\ UNCHANGED <<up, container, waiting, sends, removing, packing, peerVars,
                   netVars, count>>

\* Mutant: the entry is left to the peer's initial stream.
ConnectedNoEntry(n, m) ==
    /\ m \in notify[n]
    /\ notify' = [notify EXCEPT ![n] = @ \ {m}]
    /\ sending' = [sending EXCEPT ![n] = @ \cup {m}]
    /\ UNCHANGED <<up, startVars, catalogVars, dialing, conn, subscribed,
                   netVars, count>>

\* The rest of the callback of a new connection, when the peer has its entry:
\* a goroutine that sends the initial stream.
Connected(n, m) ==
    /\ m \in notify[n] \cap catalog[n].nodes
    /\ notify' = [notify EXCEPT ![n] = @ \ {m}]
    /\ sending' = [sending EXCEPT ![n] = @ \cup {m}]
    /\ UNCHANGED <<up, startVars, catalogVars, dialing, conn, subscribed,
                   netVars, count>>

\* HandlePeerFound after Connect succeeded, by this dialer or because the
\* peer had dialed first: join the peer's room unless already in it.
HandlePeerFound(n, m) ==
    /\ m \in dialing[n] \cap conn[n]
    /\ dialing' = [dialing EXCEPT ![n] = @ \ {m}]
    /\ subscribed' = [subscribed EXCEPT ![n] = @ \cup {m}]
    /\ UNCHANGED <<up, startVars, catalogVars, conn, notify, sending, netVars,
                   count>>

\* All retries failed: the dialer ends and n never joins the room of m.
GiveUp(n, m) ==
    /\ m \in dialing[n]
    /\ ~up[m]
    /\ count.giveUps < MaxGiveUps
    /\ count' = [count EXCEPT !.giveUps = @ + 1]
    /\ dialing' = [dialing EXCEPT ![n] = @ \ {m}]
    /\ UNCHANGED <<up, startVars, catalogVars, conn, notify, sending,
                   subscribed, netVars>>

\* The goroutine of Connected: pack and write the node's own functions.
SendStream(n, m) ==
    /\ m \in sending[n]
    /\ Talks(n, m) /\ serves[m]
    /\ sending' = [sending EXCEPT ![n] = @ \ {m}]
    /\ stream' = [stream EXCEPT ![n][m] =
                      @ \cup {packNodeInfoMsg(catalog[n], n)}]
    /\ UNCHANGED <<up, startVars, catalogVars, dialing, conn, notify,
                   subscribed, topic, count>>

\* NewStream or Write fails because the peer is gone or has not registered a
\* handler: log.Fatalf.
SendStreamFails(n, m) ==
    /\ m \in sending[n]
    /\ \/ m \notin conn[n] /\ ~up[m]
       \/ Talks(n, m) /\ ~serves[m]
    /\ Exit(n)
    /\ UNCHANGED count

\* Receives an initial stream of m, which has its entry, on n.
streamAvailableFunctions(n, m) ==
    /\ up[n]
    /\ m \in catalog[n].nodes
    /\ \E msg \in stream[m][n] :
        /\ stream' = [stream EXCEPT ![m][n] = @ \ {msg}]
        /\ catalog' = [catalog EXCEPT ![n] = unpackNodeInfoMsg(@, msg, m)]
    /\ UNCHANGED <<up, container, waiting, sends, removing, packing, peerVars,
                   topic, count>>

\* The connection breaks while n reads the stream of m: log.Fatalf.
StreamReset(n, m) ==
    /\ stream[m][n] # {}
    /\ m \notin conn[n]
    /\ Exit(n)
    /\ UNCHANGED count

-----------------------------------------------------------------------------
(* Info rooms.                                                             *)

\* The publish loop takes one blocked sender, which runs on: the handlers
\* that report a removal then remove the container.
PublishReceive(n) ==
    /\ ~packing[n]
    /\ \E s \in sends[n] :
        /\ sends' = [sends EXCEPT ![n] = @ \ {s}]
        /\ removing' = [removing EXCEPT ![n] =
               IF s[1] \in {"update", "delete"} THEN @ \cup {s[2]} ELSE @]
    /\ packing' = [packing EXCEPT ![n] = TRUE]
    /\ UNCHANGED <<up, container, catalog, waiting, peerVars, netVars, count>>

\* The subscribers of n's room that have room for a message and get it from n
\* itself.
Direct(n) ==
    {m \in Node : /\ Talks(n, m)
                  /\ n \in subscribed[m]
                  /\ Len(topic[n][m]) < SubscriberBuffer}

\* Those that a third node in the room can relay it to.
Relayed(n) ==
    {m \in Node : /\ n \in subscribed[m]
                  /\ Len(topic[n][m]) < SubscriberBuffer
                  /\ \E k \in Node \ {n, m} : n \in subscribed[k] /\ Talks(k, m)}

\* The message is packed from the catalog as it is now, and is put in the
\* buffers of the nodes M.
Deliver(n, M) ==
    topic' = [topic EXCEPT ![n] =
                 [m \in Node |->
                     IF m \in M THEN Append(@[m], packNodeInfoMsg(catalog[n], n))
                                ELSE @[m]]]

\* Mutant: the publish loop ends after the message instead of going round.
PublishOnce(n) ==
    /\ packing[n]
    /\ Deliver(n, Direct(n))
    /\ UNCHANGED <<up, catalogVars, peerVars, stream, count>>

\* Connected subscribers get the message, others when it is relayed to them.
Publish(n) ==
    /\ packing[n]
    /\ packing' = [packing EXCEPT ![n] = FALSE]
    /\ \E relayed \in SUBSET Relayed(n) : Deliver(n, Direct(n) \cup relayed)
    /\ UNCHANGED <<up, container, catalog, waiting, sends, removing, peerVars,
                   stream, count>>

\* The messages of a room that may come next: pubsub validates them on
\* several workers and relays them over several paths.
Deliverable(queue) ==
    IF Ordered THEN {i \in {1} : i <= Len(queue)} ELSE 1 .. Len(queue)

\* One turn of n's subscribe loop for the room of m.
subscribeLoop(n, m) ==
    /\ m \in catalog[n].nodes
    /\ \E i \in Deliverable(topic[m][n]) :
        /\ topic' = [topic EXCEPT ![m][n] = RemoveAt(@, i)]
        /\ catalog' = [catalog EXCEPT ![n] =
                           unpackNodeInfoMsg(@, topic[m][n][i], m)]
    /\ UNCHANGED <<up, container, waiting, sends, removing, packing, peerVars,
                   stream, count>>

\* Without an entry of m, unpackNodeInfoMsg dereferences nil: the panic ends
\* the process.
subscribeLoopPanics(n, m) ==
    /\ m \notin catalog[n].nodes
    /\ topic[m][n] # <<>>
    /\ Exit(n)
    /\ UNCHANGED count

-----------------------------------------------------------------------------
(* Requests.                                                               *)

\* Every node runs, is in every room and has received every initial stream.
Joined ==
    \A n \in Node :
        /\ Started(n)
        /\ subscribed[n] = Node \ {n}
        /\ notify[n] = {}
        /\ sending[n] = {}
        /\ \A m \in Node : stream[n][m] = {}

Request(n) ==
    /\ Started(n)
    /\ Overlap \/ Joined
    /\ count.requests < MaxRequests
    /\ count' = [count EXCEPT !.requests = @ + 1]

\* The deploy handler, and a scale up that deploys here: the container is
\* made and a goroutine waits for it to answer.
Deploy(n, f) ==
    /\ Request(n)
    /\ f \notin container[n]
    /\ container' = [container EXCEPT ![n] = @ \cup {f}]
    /\ waiting' = [waiting EXCEPT ![n] = @ \cup {f}]
    /\ UNCHANGED <<up, catalog, sends, removing, packing, peerVars, netVars>>

\* waitDeployReadyAndReport found the function running and healthy.
ReportReady(n, f) ==
    /\ f \in waiting[n] \cap container[n]
    /\ <<"add", f>> \notin sends[n]
    /\ waiting' = [waiting EXCEPT ![n] = @ \ {f}]
    /\ catalog' = [catalog EXCEPT ![n] = AddAvailableFunctions(@, n, f, 1)]
    /\ sends' = [sends EXCEPT ![n] = @ \cup {<<"add", f>>}]
    /\ UNCHANGED <<up, container, removing, packing, peerVars, netVars, count>>

\* It did not within its timeout, the container being gone or not healthy:
\* nothing is reported.
ReportTimeout(n, f) ==
    /\ f \in waiting[n]
    /\ waiting' = [waiting EXCEPT ![n] = @ \ {f}]
    /\ UNCHANGED <<up, container, catalog, sends, removing, packing, peerVars,
                   netVars, count>>

\* scaleDown on a node that runs the function while others do too: report no
\* replica, then remove.
ScaleDown(n, f) ==
    /\ Request(n)
    /\ catalog[n].functions[f] > 1
    /\ catalog[n].avail[n][f] > 0
    /\ <<"update", f>> \notin sends[n]
    /\ catalog' = [catalog EXCEPT ![n] = UpdateAvailableFunctions(@, n, f, 0)]
    /\ sends' = [sends EXCEPT ![n] = @ \cup {<<"update", f>>}]
    /\ UNCHANGED <<up, container, waiting, removing, packing, peerVars,
                   netVars>>

\* The delete handler up to its report.  For a function without a
\* FunctionCatalog entry it dereferences nil: net/http ends the request, and
\* nothing has changed.
Delete(n, f) ==
    /\ Request(n)
    /\ catalog[n].functions[f] # NoEntry
    /\ <<"delete", f>> \notin sends[n]
    /\ catalog' = [catalog EXCEPT ![n] = DeleteAvailableFunctions(@, n, f)]
    /\ sends' = [sends EXCEPT ![n] = @ \cup {<<"delete", f>>}]
    /\ UNCHANGED <<up, container, waiting, removing, packing, peerVars,
                   netVars>>

\* The rest of the handler, once the publish loop has received.
DeleteFunction(n, f) ==
    /\ f \in removing[n]
    /\ removing' = [removing EXCEPT ![n] = @ \ {f}]
    /\ container' = [container EXCEPT ![n] = @ \ {f}]
    /\ UNCHANGED <<up, catalog, waiting, sends, packing, peerVars, netVars,
                   count>>

\* The monitor loop sees the load cross the threshold.  It is one goroutine:
\* blocked in publishInfo it does not look again.  A query of Prometheus that
\* fails is a Crash.
updatePressure(n) ==
    /\ Started(n)
    /\ Overlap \/ Joined
    /\ <<"pressure">> \notin sends[n]
    /\ count.flips < MaxFlips
    /\ count' = [count EXCEPT !.flips = @ + 1]
    /\ catalog' = [catalog EXCEPT ![n].overload[n] = ~@]
    /\ sends' = [sends EXCEPT ![n] = @ \cup {<<"pressure">>}]
    /\ UNCHANGED <<up, container, waiting, removing, packing, peerVars,
                   netVars>>

-----------------------------------------------------------------------------
Local(n) == Start(n) \/ Register(n) \/ PublishReceive(n) \/ Publish(n)

Peer(n, m) ==
    \/ staticDiscovery(n, m)
    \/ Connect(n, m)
    \/ NewEntry(n, m)
    \/ Connected(n, m)
    \/ HandlePeerFound(n, m)
    \/ SendStream(n, m)
    \/ SendStreamFails(n, m)
    \/ streamAvailableFunctions(n, m)
    \/ subscribeLoop(n, m)
    \/ subscribeLoopPanics(n, m)

Report(n, f) == ReportReady(n, f) \/ ReportTimeout(n, f) \/ DeleteFunction(n, f)

Environment ==
    \/ \E n \in Node : Crash(n) \/ updatePressure(n)
    \/ \E n, m \in Node :
           ConnectEarly(n, m) \/ GiveUp(n, m) \/ StreamReset(n, m)
    \/ \E n \in Node, f \in Function :
           Deploy(n, f) \/ ScaleDown(n, f) \/ Delete(n, f)

Next ==
    \/ \E n \in Node : Local(n)
    \/ \E n, m \in Node : Peer(n, m)
    \/ \E n \in Node, f \in Function : Report(n, f)
    \/ Environment

\* Goroutines that can run do run, and systemd restarts a failed provider
\* (Restart=on-failure).  Nothing is assumed of requests, load, crashes,
\* exhausted retries or broken streams, nor of a readiness poll, whose
\* http.Get has no timeout.
Fairness ==
    /\ \A n \in Node :
           /\ WF_vars(Start(n)) /\ WF_vars(Register(n))
           /\ WF_vars(PublishReceive(n)) /\ WF_vars(Publish(n))
    /\ \A n, m \in Node :
           /\ WF_vars(staticDiscovery(n, m))
           /\ WF_vars(Connect(n, m))
           /\ WF_vars(NewEntry(n, m))
           /\ WF_vars(Connected(n, m))
           /\ WF_vars(HandlePeerFound(n, m))
           /\ WF_vars(SendStream(n, m) \/ SendStreamFails(n, m))
           /\ WF_vars(streamAvailableFunctions(n, m))
           /\ WF_vars(subscribeLoop(n, m) \/ subscribeLoopPanics(n, m))
    /\ \A n \in Node, f \in Function : WF_vars(DeleteFunction(n, f))

Spec == Init /\ [][Next]_vars

FairSpec == Spec /\ Fairness
-----------------------------------------------------------------------------
(* Properties.                                                             *)

\* A process that does not run has no goroutines, no connections and no
\* catalog.
DownIsIdle ==
    \A n \in Node :
        ~up[n] =>
            /\ ~serves[n] /\ unseen[n] = {} /\ early[n] = {}
            /\ catalog[n] = NewCatalog
            /\ waiting[n] = {} /\ sends[n] = {} /\ removing[n] = {}
            /\ ~packing[n]
            /\ dialing[n] = {} /\ conn[n] = {} /\ notify[n] = {}
            /\ sending[n] = {} /\ subscribed[n] = {}
            /\ \A m \in Node : stream[m][n] = {} /\ topic[m][n] = <<>>

\* No node dials, or hears from, itself.
NoSelf ==
    \A n \in Node :
        /\ n \notin unseen[n] /\ n \notin dialing[n] /\ n \notin conn[n]
        /\ n \notin subscribed[n]
        /\ stream[n][n] = {} /\ topic[n][n] = <<>>

\* Both ends have a connection or neither has.
ConnSymmetric == \A n, m \in Node : m \in conn[n] => n \in conn[m]

\* A connection is known to its owner once its callback has run, unless the
\* connection was there before the notifiee.
ConnectedKnown ==
    \A n \in Node : conn[n] \subseteq catalog[n].nodes \cup early[n] \cup notify[n]

\* The room of a node is joined after a connection with it.
JoinedKnown ==
    \A n \in Node :
        subscribed[n] \subseteq catalog[n].nodes \cup early[n] \cup notify[n]

\* Scaling and the readers take Replicas of the FunctionCatalog for the
\* number of replicas known anywhere (scale.go:88): on every running node it
\* is the sum of its views after whatever mix of reports, messages, streams
\* and restarts, whichever of the four places that recount ran last.
ReplicaAccounting == \A n \in Node : ReplicasAddUp(catalog[n])

\* packNodeInfoMsg, ListAvailableFunctions and the trigger handler look
\* functions up in the FunctionCatalog without testing for nil
\* (info_room.go:108): a function that the node reports or that some node is
\* known to run is listed there, although a delete here drops entries that
\* peers still mention.
CatalogClosed == \A n \in Node : FunctionsListed(catalog[n], n)

\* weightExecTimeScheduler (trigger.go:137) loads the execution time of every
\* node with a replica: whoever announced it, by stream or by room, before or
\* after a restart, the entry is there.
SchedulerReady == \A n \in Node : ExecTimeTracked(catalog[n])

\* unpackNodeInfoMsg (info_room.go:119) writes through NodeCatalog[room]
\* unchecked, so a message of a room must not be read by a subscriber without
\* an entry for the room's owner.  Joining the room needs no entry, and an
\* entry only the callback of the connection: still no message waits for a
\* node without the entry, with two exceptions, in which the code panics.  The
\* node accepted the connection before it registered the notifiee (p2p.go:25,
\* discovery.go:41); or a third node relayed the message although the
\* callback of the connection with the owner has not made the entry yet.
RoomOwnerKnown ==
    \A n, m \in Node :
        topic[m][n] # <<>> =>
            \/ m \in catalog[n].nodes
            \/ m \in early[n]
            \/ m \in notify[n] /\ Node \ {n, m} # {}

\* The inductive invariant.
IInv ==
    /\ TypeOK
    /\ DownIsIdle
    /\ NoSelf
    /\ ConnSymmetric
    /\ ConnectedKnown
    /\ JoinedKnown
    /\ RoomOwnerKnown
    /\ \A n \in Node : up[n] => CatalogInv(catalog[n], n)

\* publishInfo blocks its caller on an unbuffered channel
\* (catalog_local_level.go:133): the publish loop always comes round, so no
\* handler and not the monitor loop is stuck in it.
PublishersReturn ==
    \A n \in Node, s \in Send : s \in sends[n] ~> s \notin sends[n]

\* "replicas cannot be set to 0" (scale.go:81): while every node still lists
\* the function as its own, nobody has deleted it, and scaling down leaves a
\* replica somewhere.
ScaleDownLeavesOne ==
    [][\A n \in Node, f \in Function :
          (ScaleDown(n, f) /\ \A m \in Node : catalog[m].avail[m][f] # NoEntry)
              => \E m \in Node : catalog'[m].avail[m][f] > 0]_vars

\* A node's view of m is what m says of itself.
Agree(n, m) ==
    /\ catalog[n].avail[m] = catalog[m].avail[m]
    /\ catalog[n].overload[m] = catalog[m].overload[m]

\* Views converge: once changes stop every node's view of every peer is and
\* stays the peer's own functions and load, through crashes and restarts of
\* either (info_room.go:67-146, discovery.go:147).
Convergence == <>[](\A n, m \in Node : Agree(n, m))

\* Replicas "in the entire p2p network" (catalog_cluster_level.go:109): the
\* totals of all nodes end up equal to what the nodes really report, also for
\* functions deleted or scaled to zero elsewhere.
ClusterReplicas ==
    <>[](\A n \in Node, f \in Function :
            catalog[n].functions[f] # NoEntry =>
                catalog[n].functions[f] =
                    Cardinality({m \in Node : catalog[m].avail[m][f] > 0}))
=============================================================================
