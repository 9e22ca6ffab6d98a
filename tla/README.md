# A TLA+ model of faasd with P2P providers

This directory specifies this fork of faasd: providers that run functions in
containerd, replicate their catalogs over a libp2p network, scale functions and
forward invocations to each other; what a provider keeps on its machine; and
the supervisor that runs the core services. The modules are model-checked with
TLC on small instances and, where stated, proved with TLAPS for every value of
the constants. Line numbers refer to files under `src/`.

## The system

### Components, their state and operations

| Component | State | Operations that change it | Module |
|---|---|---|---|
| catalog (`pkg/provider/catalog/catalog*.go`) | `NodeCatalog` (per node: available replicas, execution times, overload flag), `FunctionCatalog` (per function: cached total) | add, update and delete of own functions, new node entry, unpacking of a message | `Catalog`; statement by statement `CatalogRace` |
| info rooms (`info_room.go`) | one pubsub topic per node, an unbuffered channel to its publish loop | `publishInfo`, `publishLoop`, `subscribeLoop` | `InfoNetwork` |
| peer discovery (`discovery.go`, `p2p.go`) | dialers, connections, callbacks, initial streams | `staticDiscovery`, `HandlePeerFound`, `Connected`, `streamAvailableFunctions` | `InfoNetwork` |
| peer ranking (`faas_client.go`) | one slice of peers sorted by round trip time | `NewNodeCatalogEntry`, `RankNodeByRTT` | `Ranking` |
| provider process (`cmd/provider.go`) | runs or not; containers outlive it | start with `initSelfCatagory`, migration of secrets, crash, `log.Fatal` | `InfoNetwork`, `Secrets` |
| deploy, update, delete handlers (`handlers/`) | program counters of concurrent HTTP requests; what a container is made of | one per request kind | `FunctionLifecycle`, `InfoNetwork`, `Redeploy` |
| scale handler (`scale.go`) | requests under way on several nodes | scale up over the ranked nodes, scale down | `Scaling`, `InfoNetwork`, `FunctionLifecycle` |
| service and CNI (`pkg/service`, `pkg/cninetwork`) | container, task, network and address of a function | `CreateTask`, `Remove`, `killTask`, `EnsureTaskRunning`, `EnsureAllStoppedTaskDelete`, `GetIPAddress` | `FunctionLifecycle`, `Addresses` |
| monitor loop (`catalog_local_level.go`) | invoke cache, overload flag | `updateAvailableReplicas`, `updatePressure` | `FunctionLifecycle`, `InfoNetwork` |
| trigger handler and scheduler (`trigger.go`) | execution times, requests under way | schedule, implicit deployment, offload, measure, explore | `Trigger` |
| namespaces (`mutate_namespaces.go`, `utils.go`) | labels of a containerd namespace | create, update, delete, the check of other handlers | `Namespaces` |
| secrets (`secret.go`, `cmd/provider.go`, `cmd/up.go`) | files, the password file | create, replace, delete, migrate, make | `Secrets` |
| logs (`pkg/logs/requestor.go`) | journalctl, its pipe, two goroutines, the handler | one request | `Logs` |
| supervisor and dependency graph (`pkg/supervisor.go`, `pkg/depgraph`) | containers of the core services, the order | start, stop, resolve | `Supervisor` |
| local resolver and proxy (`local_resolver.go`, `proxy.go`, `cmd/up.go`) | hosts file, a map per process, lookups | poll, rebuild, look up, time out, dial | `Resolver` |
| installation, configuration, info, health, log collector | | | not modelled, see below |

### How they interact

HTTP handlers, one goroutine per awaited deployment, the monitor loop, the
subscribe loops and the stream handlers all call catalog methods without a
lock. Add, update and delete end in `publishInfo`, which blocks on an unbuffered
channel until the node's publish loop receives; the loop packs the *whole* own
entry and publishes it; each subscriber *replaces* its view of the publisher.
A new connection makes each side send its own entry once more on a stream.
Handlers and the monitor change containers through containerd, call by call,
without coordination. The trigger handler chooses a node on the views this
produces and calls that node's trigger handler; the scale handler goes through
the ranking and calls the scale handlers of peers. A replica on another node is
made from the status some node has read back from a container. `faasd up`
writes the addresses of the services it starts to a hosts file that its own
proxies and the provider poll.

### What is hard here

* Views are replaced by messages without sequence numbers, sent once, on two
  independent channels (room and initial stream), dropped when a buffer is full.
* Totals are cached and recounted in several places, without a lock; readers
  dereference map entries without testing them.
* Anything that goes wrong while a stream is sent or read ends the process.
* The monitor creates, restarts and removes tasks between any two calls of a
  handler that does the same.
* Decisions to scale and to forward are taken on views that may be stale, with
  an unsigned subtraction, and call nodes that take such decisions themselves.
* Containers and files outlive both the provider and the supervisor; files are
  made, emptied and filled in separate steps.
* Waiting without a timeout: an unbuffered channel whose reader may have left,
  a lookup that answers nothing when it gives up, a ping.

`PROJECT.json` lists these as hazards at their lines, with the properties that
would catch each going wrong.

## Modules

The network:

* `Catalog` – the catalog as a record and every method as an operator on it. A
  Go map is a total function with `NoEntry` for an absent key; key "0" is the
  node's own name. No variables.
* `InfoNetwork` – extends `Catalog`; a network of providers. `catalog[n]` is the
  catalog of n, `sends[n]` the goroutines blocked in `publishInfo`, `packing[n]`
  the publish loop between receive and publish, `topic[n][m]` what is in m's
  buffer of n's room, `stream[n][m]` initial streams under way, `dialing`,
  `conn`, `notify`, `sending`, `subscribed` the state of discovery. A step is
  what one goroutine does between two points where it blocks. A node starts in
  steps, as `InitInfoNetwork` does: its host listens (`Start`), its stream
  handler and notifiee are registered (`Register`), and it looks at one peer
  after the other (`staticDiscovery`), passing over those that have an entry
  already; only then do the monitor and the HTTP server run (`Started`). A peer
  may connect in between (`ConnectEarly`; `early[n]` are those n has no
  callback for). A room message reaches subscribers directly or by way of a
  third one (`Relayed`). `Crash` is a kill, or a query of Prometheus that fails,
  which `updatePressure` takes for fatal.
* `PeerViews` – what the replication promises, without rooms, streams or
  goroutines: a node knows of another nothing, or one statement that node made,
  whole; statements get lost, overtake each other and arrive twice.
  `InfoNetworkViews` is the refinement mapping from `InfoNetwork`.
* `CatalogRace` – the catalog methods for one function statement by statement,
  as goroutines interleave them: what `InfoNetwork` leaves out by taking each
  for one step.
* `Ranking` – `RankNodeByRTT` ping by ping and copy by copy, in callbacks that
  overlap, on one slice.

The handlers:

* `FunctionLifecycle` – one function on one node, one containerd, CNI or catalog
  call per step; six processes with program counters; `service.Remove` and
  `CreateTask` are procedures with return labels. `container.Delete` is two
  calls, as in containerd's client: it looks for a task, then deletes.
* `Trigger` – invocations of one function; a request is a stack of handler
  frames, so that a peer's handler runs the same code as the first. A request
  may be refused for its method (`NotAllowed`) or ask for an event stream, which
  is not measured (`StreamEnds`).
* `Scaling` – scale requests of clients and the calls between nodes they make;
  replica counts have `Width` bits and wrap.
* `Redeploy` – how a definition goes from a request to a container, is read
  back, and is deployed again elsewhere. A string is the sequence of its parts
  between "=" signs, a label's key counts its annotation prefixes: the cases
  `readEnvFromProcessEnv` and `buildLabelsAndAnnotations` tell apart. Of a
  variable listed twice it keeps the later entry, the one that is read back.
  Secret files come and go on every node; an update goes on without them and
  leaves a container without a task (`update.go:71`).
* `Namespaces` – requests on one namespace, one containerd call per step. The
  label's value may be the one of an older release, which deployments accept and
  the namespace handlers do not.

What a machine keeps, and the core services:

* `Secrets` – secret files and the password file, opened and filled in separate
  steps, with crashes and the migration at provider start.
* `Addresses` – the directory of the CNI plugin and the search by substring for
  "<name>-<PID>"; a name and a PID are sequences of characters.
* `Logs` – one log request: journalctl, the goroutine in `cmd.Wait`, the
  goroutine that decodes, and the handler of the provider library.
* `Supervisor` – the start-up of the core services; the recursive `resolve` of
  `depgraph` is a machine with an explicit stack, a call of which has a node and
  the edges still due. Edges are taken in any order, so that what holds does so
  for every order a compose file may list them in.
  A name in `depends_on` that is no service has no node, and meeting it panics:
  neither the compose loader nor `buildServiceGraph` refuses it.
* `Resolver` – hosts file, resolvers, lookups and proxies, through restarts of
  both processes. The two steps of a write may have one modification time; those
  of two writes, with a container created in between, have not.

Instances and proofs:

* `Stores` – `CatalogRace`, `Secrets`, `Namespaces`, `Redeploy`, `Addresses`
  together; `Progress` – `Scaling`, `Ranking`, `Resolver`, `Logs`. These
  components share no state and no property speaks of two of them, so a variable
  `focus`, chosen in the initial state, says which one moves; the others stay in
  an initial state. Every behaviour of every component is one of the whole,
  without the product of them all. The assumptions of the components on their
  constants are asserted there.
* `MCInfoNetwork`, `MCTrigger`, `MCSupervisor`, `MCStores`, `MCProgress` – values
  of constants for TLC.
* The theorems, with the lemmas they rest on: `CatalogProofs` (operators of
  `Catalog`) and `InfoNetworkProofs` (its invariants and the refinement);
  `FunctionLifecycleProofs`; `CallStacks` (sequences used as stacks), used by
  `TriggerProofs` and `SupervisorProofs`; `StoresProofs` (the components of `Stores`) and
  `ProgressProofs` (those of `Progress`), which prove the properties of each
  component by itself, from the assumption of that component, and then of all
  together.

Operators marked *Mutant* in a comment are variants of the definition that
follows them with a plausible mistake in it; they are not part of the
specifications. `PROJECT.json` pairs each with the property that detects it.

`InfoNetwork` keeps the container as a set member and `FunctionLifecycle` keeps
the catalog as one counter: the two meet in the handlers, of which
`InfoNetwork` has the catalog side and `FunctionLifecycle` the containerd side.
`Trigger`, `Scaling` and `Redeploy` have views that go stale (`Learn`) in place
of the messages that `InfoNetwork` models; `PeerViews` says what they may be.

## What the runs check

| Run | Result | Shows |
|---|---|---|
| `network_safety` | passes | With overlapping joins, a connection to a node that is still starting, requests, a crash, a dialer that gives up, reordered rooms and one-message buffers: the cached totals are the sums of the views (`ReplicaAccounting`), no reader of the `FunctionCatalog` meets a missing entry (`CatalogClosed`), the scheduler finds an execution time for every replica (`SchedulerReady`), no message waits where its room's owner is unknown, but for two cases in which the code panics (`RoomOwnerKnown`). The network implements `PeerViews` (`ImplementsViews`). |
| `network_converge` | passes | Views (`Convergence`) and totals (`ClusterReplicas`) end up equal to what nodes report, if changes are made while the network is joined and quiet, rooms are ordered and no buffer overflows. A crash and restart is included. |
| `network_publishers` | passes | `PublishersReturn`: nobody stays blocked in `publishInfo`. |
| `network_join` | **violated** | Without the proviso "joined": an initial stream packed before a report arrives after the report's room message and overwrites it; `ClusterReplicas` fails for good. |
| `network_scaledown` | **violated** | `ScaleDownLeavesOne`: two nodes scale to one on their own and none is left. |
| `lifecycle_converge` | passes | Replicas scaled down go (`ScaledDownRemoved`), stopped tasks do not stay (`StoppedCleared`), the cached address is refreshed (`CacheRefreshed`), requests return (`HandlersReturn`), for every interleaving of three requests and the monitor. |
| `lifecycle_available` | **violated** | `AvailableRuns`: a function that stops between the two halves of a monitor round is removed and stays reported. |
| `trigger_offload` | passes | Stale views never send a request on a second time (`ForwardedOnce`); the execution time of a node a request is under way to is not lost when the replica is (`TimeStaysForTarget`); every request is answered, also when a deployment whose error was ignored never becomes ready, unless a health check or an event stream never ends (`RequestsAnswered`). |
| `trigger_overloaded` | **violated** | `FoundNodeRuns`: no replica and all nodes overloaded gives the empty peer ID without an error. |
| `supervisor_start` | passes | For every graph over three services and a name that is none: `DependenciesFirst`, `PanicJustified`, `OrderComplete`; for failures and crashes anywhere: `NameFree`, `ComesUp`. |
| `stores` | passes | `CatalogRace`: only a sum that was overtaken and stored last leaves a wrong total (`RecountRepairs`), and a method panics only when a delete dropped the entry under it or when it is a delete of a function that is not listed (`PanicNeedsDelete`). `Secrets`: files hold what the last request asked for (`StoredAsAsked`). `Namespaces`: the label stays and updates do what they say (`LabelsKept`). `Redeploy`: what a node knows is refused elsewhere only for a missing secret, labels arrive, and a copy of a copy is like the copy (`CopiesAlike`). `Addresses`: the address found is the task's, and addresses are lost only with tasks removed without their network (`AddressRight`). |
| `progress` | passes | `Scaling`: a peer asked to scale does not scale others (`ScaledFirstHand`), a request makes what is missing (`ScaledUp`) and no more (`UpToDesired`), and is answered (`ScaleAnswered`). `Ranking`: this node first, the others by time (`RankedByRTT`). `Resolver`: no proxy gets the address of an earlier start (`CurrentAddress`); maps follow the file and proxies are answered (`NamesSettle`). `Logs`: handler and journalctl come to an end (`LogsEnd`). |

Each violated run checks a sentence of the repository, quoted in
`PROJECT.json` under `findings`.

### What the properties except

Several properties of the passing runs hold only with an exception, and
the exception is what the code does. None contradicts a document of the
repository, so none has a run of its own:

* `RoomOwnerKnown`: the host listens before the notifiee is registered
  (`p2p.go:25`, `discovery.go:41`), and a connection accepted then never has a
  callback here; and with three nodes or more one can relay a message before the
  callback has made the entry. In both cases the message is unpacked through a
  nil entry (`info_room.go:119`) and the process ends.
* `Convergence` and `ClusterReplicas` are checked without connections to nodes
  that are still starting: `staticDiscovery` passes over a peer that has an
  entry by then (`discovery.go:73`), and the node never joins that peer's room.
* `StoppedCleared`: a task created between the two calls of `container.Delete`
  loses its container. No handler reaches such a task, since all of them go by
  the container; while it is there a new container of that name gets no task.
* `RecountRepairs`: of two recounts that overlap with a change the older one may
  be stored last, and the total is wrong until the next recount.
* `UpToDesired`: the total may pass the number asked for between the two reads;
  the unsigned difference wraps and every node gets a replica (`scale.go:113`).
  A failed deployment on this node counts as a replica (`scale.go:237`).
* `RankedByRTT`: of two peers with equal times one is listed twice and the other
  not; rankings that overlap may list a peer twice too.
* `StoredAsAsked`: two writers at once leave a mixture, a crash leaves an empty
  file; delete looks for the namespace in the query where create looks in the
  body (`secret.go:139`); a deleted secret of the default namespace comes back
  from the older directory; a migrated copy or a password file left empty by a
  crash is never repaired.
* `PanicNeedsDelete`: a DELETE for a function this node does not list, unknown
  or not yet reported, dereferences a missing entry by itself (`delete.go:61`,
  `catalog_cluster_level.go:120`).
* `LabelsKept`: a namespace deleted between the check and the container of a
  deployment is made again by containerd, without its label.
* `CopiesAlike`: what follows a second "=" in an environment value and the
  memory limit are lost at the first copy, and peers keep the definition they
  learned first when a function is updated. A request variable `fprocess` whose
  value has no "=" removes the image variable it names (`deploy.go:267`, and
  containerd's `replaceOrAppendEnvValues`), and one that sets `fprocess` to the
  empty string is read back as none; the first copy has the image's variable
  again, whole, and the second loses what follows an "=" in it. After that
  nothing changes (`Revives`). A node without the file of a secret refuses the
  function (`deploy.go:308`); secrets do not travel with a definition.
* `AddressRight`: the search is for a substring (`cni_network.go:197`). It finds
  the wrong file when two of these come together: a PID begins another, a file
  was left behind (a task restarted, the services of an earlier `faasd up`, a
  network whose removal failed), a name ends like another one (the last two only
  if a PID came again). And it does when a name has another one in it with a "-"
  and a digit: `nats-62-700` has `nats-62` in it.
* `NamesSettle`: a hosts file that could not be written or read is only logged,
  and the proxies then wait for ever; a resolver that read the file between the
  two steps of the last write misses what was written when both steps have one
  modification time (`local_resolver.go:38`), until the file changes again; a
  proxy ends at its first failed dial; a provider started before prometheus is
  in the file never serves.
* `RequestsAnswered`: the health check in the wait for a deployment has no
  timeout (`deploy.go:121`), so that a function which accepts the connection and
  never answers keeps the handler past its 60 s; nor has an event stream
  (`trigger.go:291`).
* `LogsEnd` is silent on the decoding goroutine, which stays blocked when the
  client has left, and on the entries lost when `cmd.Wait` closes the pipe.
* `FoundNodeRuns` is violated also by an average of 0 ms, which makes the
  weights of the scheduler unusable and sends the request to this node.

### Bounds and why they are enough

Two nodes suffice for every pairwise race of discovery, rooms and streams: a
node's views of two peers do not influence each other except through the total,
which two nodes (its own and a peer's share) exercise. What takes a third node
is relaying; it concerns `RoomOwnerKnown`, which is proved for any number of
nodes and excepts it. One function is enough: the methods of the catalog treat
functions one by one, and the theorems are for any number. One connection to a
node that is starting (`MaxEarly`) meets it before or after it has registered,
and `MaxGiveUps` of one leaves a node outside a room. Three requests allow two replicas
and a scale down, four a further one after the crash. One crash gives a restart
with messages of the former life under way; it cascades by `log.Fatalf`. A
change of the overload flag takes the same path as a report and is in
`network_converge` and `network_publishers`.
Buffers of one make drops happen in `network_safety`; in `network_converge` the
buffer holds everything, as a drop is what convergence does not survive. In
`FunctionLifecycle` three requests give every pair of handlers with the monitor
and one more. In `Trigger` a measured time is 0 or 3 ms, so that averages reach
0, 1 (which means "not measured") and larger values; the nodes start all
overloaded or none, and one changes. In `Supervisor` three services have chains,
shared dependencies and cycles of every length up to three. The unknown name
may be a dependency of any of them.

In `MCStores` three catalog calls give a pair that races and one that recounts
after them, from every initial catalog of two nodes; three secret requests, two
at a time, and two crashes give a crash in a migration that follows one; three
namespace requests give two updates and a deletion; two nodes give a copy of a
copy of a copy (scaled down and up, with restarts in between), from requests that
between them have a label that conflicts with an annotation, annotations of
annotations, values with "=", and an `fprocess` that removes an image variable,
names or repeats one of the request, or is empty; two addresses, three PIDs and
the names `ats`, `nats` and `nats-62` give a file left behind, a PID that begins
another, one that comes again, a name inside another and a subnet that is full. In `MCProgress` two scale requests and one
failure on two nodes, with two bits per count, make the difference wrap; two
joins overlap with times that may be equal; three starts of `faasd up` and one
fault give a restart before and after each step; four entries overflow a pipe
of two. `SYMMETRY` is used in runs without liveness properties only.

`CHECK_DEADLOCK FALSE` is set where a system may be at rest: all bounds spent,
or the process terminated. In `FunctionLifecycle` the monitor runs for ever, and
deadlock is checked.

### Fairness

Weak fairness of each goroutine's steps: the Go scheduler runs what can run, the
calls to containerd, CNI and peers return. They have no timeout, and neither has
the health check of a new function, of which nothing is assumed: in
`InfoNetwork` a deployment may be awaited for ever. A restart of the process
is fair because of `Restart=on-failure` in `hack/faasd-provider.service` and
`hack/faasd.service`. In `Resolver` the poll loops go on and a lookup that finds
nothing times out; a lookup lasts 5 s and the file is polled every 3 s, so none
gives up before a poll that began after it. In `Logs` journalctl ends when it
has written everything or is killed, and the server's timeout runs out. Nothing
is assumed of clients, load, crashes, retries that run out, pings, connections
that break, functions that stop, or failures.

## What is proved

All theorems hold for every value of the constants that satisfies the stated
assumptions: any number of nodes, functions, services, requests, and any bounds.

| Theorem | States | Of |
|---|---|---|
| `InfoNetworkProofs!TypeCorrect` | `Spec => []TypeOK` | `InfoNetwork` |
| `InfoNetworkProofs!AccountingHolds` | `Spec => []ReplicaAccounting` | |
| `InfoNetworkProofs!ClosedHolds` | `Spec => []CatalogClosed` | |
| `InfoNetworkProofs!SchedulerHolds` | `Spec => []SchedulerReady` | |
| `InfoNetworkProofs!RoomOwnerHolds` | `Spec => []RoomOwnerKnown` | |
| `InfoNetworkProofs!Refinement` | `Spec => ImplementsViews` | `InfoNetwork`, `PeerViews` |
| `FunctionLifecycleProofs!TypeCorrect` | `Spec => []TypeOK` | `FunctionLifecycle` |
| `TriggerProofs!TypeCorrect` | `Spec => []TypeOK` | `Trigger` |
| `TriggerProofs!ForwardedOnceHolds` | `Spec => []ForwardedOnce` | |
| `TriggerProofs!TimeStays` | `Spec => TimeStaysForTarget` | |
| `SupervisorProofs!TypeCorrect` | `Spec => []TypeOK` | `Supervisor` |
| `SupervisorProofs!StartedInOrder` | `Spec => []DependenciesFirst` | |
| `SupervisorProofs!PanicIsRight` | `Spec => []PanicJustified` | |
| `SupervisorProofs!OrderIsComplete` | `Spec => []OrderComplete` | |
| `SupervisorProofs!NamesAreFree` | `Spec => []NameFree` | |
| `StoresProofs!LabelsKeptHolds` | `Spec => []LabelsKept` | `Namespaces` |
| `StoresProofs!AddressRightHolds` | `Spec => []AddressRight` | `Addresses` |
| `StoresProofs!RecountRepairsHolds` | `Spec => []RecountRepairs` | `CatalogRace` |
| `StoresProofs!PanicNeedsDeleteHolds` | `Spec => []PanicNeedsDelete` | |
| `StoresProofs!StoredAsAskedHolds` | `Spec => []StoredAsAsked` | `Secrets` |
| `StoresProofs!CopiesAlikeHolds` | `Spec => []CopiesAlike` | `Redeploy` |
| `StoresProofs!TypeCorrect` | `Spec => []TypeOK` | all components of `Stores` |
| `ProgressProofs!CurrentAddressHolds` | `Spec => []CurrentAddress` | `Resolver` |
| `ProgressProofs!ScaledFirstHandHolds` | `Spec => []ScaledFirstHand` | `Scaling` |
| `ProgressProofs!UpToDesiredHolds` | `Spec => []UpToDesired` | |
| `ProgressProofs!ScaledUpHolds` | `Spec => []ScaledUp` | |
| `ProgressProofs!RankedByRTTHolds` | `Spec => []RankedByRTT` | `Ranking` |
| `ProgressProofs!TypeCorrect` | `Spec => []TypeOK` | all components of `Progress` |

The theorems of `StoresProofs` and `ProgressProofs` in this table are about
`Stores` and `Progress`. Each follows from a theorem about the component alone
(`LabelsStay`, `AddressIsRight`, `RecountsRepair`, `PanicsNeedDelete`,
`SecretsStored`, `CopiesAreAlike`; `AddressesAreCurrent`, `PeersDoNotScale`,
`NoneTooMany`, `MissingAreMade`, `RankingByTime`) by `EachComponent`: a behaviour of the whole is one of each
component.

### Assumptions

TLC evaluates each of them in every run that uses the module.

* `InfoNetwork`: `NodeAssumption` (finitely many nodes),
  `MaxAvailableAssumption`, `BoundsAssumption`.
* `Trigger`: `TriggerAssumption`, on the ranking and the bounds.
* `Supervisor`: the list of services is not empty and names exactly the
  services. A name may be listed twice. Unknown names are those of no service.
* `Namespaces`, `CatalogRace`, `Resolver`, `Logs`, `FunctionLifecycle`: the
  types of constants and bounds.
* `Redeploy`: requests and image variables have the form JSON and the image
  specification give them (`IsRequest`); none is the mark for "no request".
* `Ranking`: finitely many peers, each with a key file, as this node has; a round
  trip to another node takes time.
* `Addresses`: PIDs are sequences of digits and not empty; names are any
  sequences of characters. A PID may come again, but not while containerd has a
  task with it.
* `Secrets`: a namespace is none of the two names the model gives to the other
  files, and a value none of the marks it uses for files that have no value.
* `Scaling`: finitely many nodes, fewer than a replica count can express; a
  ranking has this node first and nowhere else.
* `ScaledUpHolds` also assumes `SortedCompletely`: a ranking lists every node,
  and once. That is so when no two round trip times are equal and rankings do
  not overlap; otherwise a node may be missing from the ranking, and the theorem
  would be false.

### The arguments

Each proof has an inductive invariant, `IInv` of the component's module, which
TLC confirms on the instances of the runs, one lemma per action, and a theorem
that puts them together. What `IInv` has to add to the properties:

* **Catalog and network.** `CatalogProofs` shows that each catalog method keeps
  `CatalogInv`: totals add up, functions that are reported or run somewhere are
  listed, every replica has an execution time, and nodes without an entry have
  no replicas. That last part is needed because totals are summed over the
  entries only. The three properties of a catalog depend on each other: a delete
  drops the `FunctionCatalog` entry when the total is zero, which is only right
  if the total adds up. `RoomOwnerKnown` is not inductive: a message may be
  published to a subscriber whose callback has not run. `IInv` adds that a
  connection is known to its owner once its callback has run, unless it is older
  than the notifiee (`ConnectedKnown`), the same of a room that was joined, which
  outlives the connection (`JoinedKnown`), that both ends have a connection (`ConnSymmetric`), that a process that is down has no
  goroutines (`DownIsIdle`) and that nobody talks to itself (`NoSelf`).
* **Refinement.** The mapping takes a node's own entry for its statement, its
  entries of peers for its views, and everything in rooms, packing and streams
  for what was told. `NextViews` has a lemma per action of `InfoNetwork`, each of
  which is a step of `PeerViews` (`ChangeStep`, `TellStep`, `LearnStep`,
  `StopStep`) or a stutter. `IInv` supplies the types and that a process that is
  down has nothing under way.
* **Trigger.** `StackInv`: a request has at most two handlers, the second and
  only the second is marked as offloaded and serves itself, and a handler lacks
  a node to turn to only when it is about to invoke the function there. `TimeStays`
  then goes through the actions: none of them takes an execution time away once
  it is there, averages included, which stay natural numbers.
* **Supervisor.** `OrderInv`: each service is in the order once, after all it
  depends on. `CallsInv`: each call of `resolve` was made for a dependency of the
  one below, what it no longer has to look at is in the order or is the call
  above, and what is marked unresolved is in the order or on the stack. So an
  unresolved name that is met and is not in the order is on the stack and closes
  a cycle, although resolved names stay in `unresolved` (`depgraph.go:98`).
  The only other panic is at a name without a node.
  `PhaseInv`: what each phase has done up to its position in its list.
* **Function lifecycle.** `Returns`: procedures are not called from procedures and return
  to the code of the caller. This is what the type of a program counter
  alone does not say; from it follows that no error in a procedure ends the
  monitor loop (`MonitorGoesOn`).
* **Namespaces.** `ReqInv` (an update is never about to remove a label it asked
  for), `AloneInv` (an update without a competitor has still to set and unset
  exactly what separates the labels from those it asked for).
* **Addresses.** `PidsOwned` (a PID of this boot belongs to one container, in
  every file, unless it was used again), `FilesLive` (without a leak a file is
  that of a task, and of none that is about to be removed). `LineOf` is about the
  substring: digits are no "-", so that where "name-PID" occurs in a line the
  separators meet, and then the name ends the other and the PID begins the other,
  or the line's name has a "-" with a digit after it.
* **CatalogRace.** `DroppedInv` (an entry that is needed and missing was dropped
  by another call's delete), `FreshInv` (a sum that no change has overtaken is
  right for the nodes it has met), `LastInv` (a total stored last by such a sum
  is right, or a call that has listed the function since will recount).
* **Secrets.** `WriterInv`, `WantInv`, `CopyInv`, `AuthInv`: how the file and
  what is wanted are related between the opening and the filling of a file, in
  the migration and after a crash.
* **Redeploy.** `IInv` says of containers and statuses what they are copies of:
  `Generations`, a request's container, its copy and the copy of that. The
  lemmas compute a copy field by field: labels and secrets are those of the
  original (an annotation is read back with one prefix less and deployed with one
  more, and no label read back has a prefix, so that none conflicts), the
  environment is that of the image with the first field of each value that is
  read back over it.
  Taking the first field twice changes nothing, hence the third copy is the
  second, and the second the first unless a variable has come back.
* **Resolver.** `FileInv` (`faasd up` writes a hosts file of its own before its
  resolver looks at it), `MapInv` (the map has entries of this start only).
* **Scaling.** `MarkInv` (a request between nodes carries the mark until it is
  decided on, and no answer to one is a success), `CountInv` (what is missing
  and what was counted add up). For `ScaledUp` there is `SoloInv`: while a client
  is alone and nothing has failed, the views of the nodes ahead of its loop are
  right, the nodes behind have a replica or are overloaded, and containers and
  missing replicas add up to the number asked for.
* **Ranking.** `Sort` is any permutation of the indices that orders the values,
  so the proof first shows that there is one (`SortExists`): an index goes to the
  place after all that come before it, ties by position. `JoinInv` relates the
  times of a call to the nodes it has met: as many times as nodes, time 0 is this
  node's and no other's, so the sort puts it first and every copy, however it
  overlaps, writes it to the first slot. `OneByOne`: without overlap the call
  under way is unknown to the others, and the slots copied so far are those of
  the latest call.
* **Logs.** `TypeOK` is not inductive: between two entries everything decoded has
  been sent, which `IInv` adds.

### Only model-checked

* The liveness properties (`Convergence`, `ClusterReplicas`, `PublishersReturn`,
  those of `FunctionLifecycle`, `RequestsAnswered`, `ComesUp`, `ScaleAnswered`,
  `NamesSettle`, `LogsEnd`): fairness and `ENABLED` are out of the prover's
  reach.

Every safety invariant and action property of a passing run is proved.

No module uses `RECURSIVE`, which the prover cannot handle, and no theorem rests
on induction over data, which is out of its reach as well.

## What is not modelled

* The abort of the Go runtime when it notices concurrent map access, and data
  races below the level of statements.
* Gossip to nodes that join a room after a message was published in it: relaying
  is to those that are in the room by then.
* Spontaneous failures of containerd and CNI calls in `FunctionLifecycle`.
* That the pinger's callbacks end: a ping without an answer hangs its callback.
* The log collector (`cmd/collect.go`), one copy loop per stream that ends at a
  line of more than 64 KB: no state but the streams.
* Listings (`read.go`, `replicas.go`, `namespaces.go`) only read; installation,
  configuration, image handling, HTTP headers and bodies, compose files, mounts
  and the bytes a proxy forwards are I/O and formatting.

## Plan

Done: the network, its refinement and proofs; the handlers; what a machine
keeps; the core services; a proof of every safety property that the passing runs
check. What could follow:

1. The log collector and the listings, if they come to hold state.
2. Failures of containerd calls in `FunctionLifecycle`, one per call.
3. The liveness properties, with a prover that handles fairness.
