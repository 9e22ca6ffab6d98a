------------------------------ MODULE Progress ------------------------------
(***************************************************************************)
(* Components whose calls have to come to an end: scaling, the ranking of  *)
(* nodes, the resolver with the proxies, and log requests.                 *)
(*                                                                         *)
(* The components share no variable and no property speaks of two of them, *)
(* so that a behaviour of all is a behaviour of each: focus says which of  *)
(* them moves, and the others stay in one of their initial states.         *)
(***************************************************************************)
EXTENDS Integers, FiniteSets, Sequences

CONSTANTS
    Node, Sorted, Request, MaxAsked,            \* Scaling
    MaxReplicas, Width, MaxFailures,
    Peer, Self, None, Rtt, Capacity,            \* Ranking
    MaxOverlap, MaxLost,
    Order, Prometheus, MaxStarts, MaxFaults,    \* Resolver
    JournalEntries, PipeSize, BadEntries        \* Logs

VARIABLES
    focus,                                                      \* who moves
    container, waiting, listed, view, overload, req, failures,  \* Scaling
    nodes, slots, length, join, lost, overlapped,               \* Ranking
    starts, up, started, text, file, mtime, missed, poll,       \* Resolver
    lastStat, map, lookup, address, ready, faults, unwritten,
    follow, journalctl, wait, stream, handler, cancelled,       \* Logs
    emitted, read, decoded, sent

scaling == <<container, waiting, listed, view, overload, req, failures>>
ranking == <<nodes, slots, length, join, lost, overlapped>>
names == <<starts, up, started, text, file, mtime, missed, poll, lastStat, map,
           lookup, address, ready, faults, unwritten>>
logs == <<follow, journalctl, wait, stream, handler, cancelled, emitted, read,
          decoded, sent>>
vars == <<focus, scaling, ranking, names, logs>>

-----------------------------------------------------------------------------
Scale == INSTANCE Scaling
Rank == INSTANCE Ranking
Names == INSTANCE Resolver
Log == INSTANCE Logs WITH Entries <- JournalEntries

\* What the components assume of their constants.
ASSUME ProgressAssumption ==
    /\ Scale!ScalingAssumption
    /\ Rank!RankingAssumption
    /\ Names!ResolverAssumption
    /\ Log!LogsAssumption

-----------------------------------------------------------------------------
\* No replica and no overload, no hosts file, and no request to follow logs.
AtStart ==
    /\ focus # "scaling" => /\ container = {} /\ listed = {}
                            /\ \A n \in Node : overload[n] = {}
    /\ focus # "names" => starts = 0
    /\ focus # "logs" => ~ follow

Init ==
    /\ focus \in {"scaling", "ranking", "names", "logs"}
    /\ Scale!Init /\ Rank!Init /\ Names!Init /\ Log!Init
    /\ AtStart

ScaleMoves ==
    /\ focus = "scaling"
    /\ Scale!Next
    /\ UNCHANGED <<focus, ranking, names, logs>>

RankMoves ==
    /\ focus = "ranking"
    /\ Rank!Next
    /\ UNCHANGED <<focus, scaling, names, logs>>

NamesMove ==
    /\ focus = "names"
    /\ Names!Next
    /\ UNCHANGED <<focus, scaling, ranking, logs>>

LogMoves ==
    /\ focus = "logs"
    /\ Log!Next
    /\ UNCHANGED <<focus, scaling, ranking, names>>

Next == ScaleMoves \/ RankMoves \/ NamesMove \/ LogMoves

\* Names!Fairness and Log!Fairness where the component moves: unlike those of
\* Scaling their fair steps are enabled in the initial state.
NamesFair ==
    /\ WF_names(focus = "names" /\ Names!Up)
    /\ WF_names(focus = "names" /\ Names!ProviderStart)
    /\ \A p \in Names!Process :
           /\ WF_names(focus = "names" /\ Names!Stat(p))
           /\ WF_names(focus = "names" /\ Names!Rebuild(p))
    /\ \A l \in Names!Lookup :
           /\ WF_names(focus = "names" /\ Names!Get(l))
           /\ WF_names(focus = "names" /\ Names!TimeOut(l))

LogFair ==
    /\ WF_logs(focus = "logs" /\ Log!Exit)
    /\ WF_logs(focus = "logs" /\ Log!Wait)
    /\ WF_logs(focus = "logs" /\ Log!streamLogs)
    /\ WF_logs(focus = "logs" /\ Log!Receive)
    /\ WF_logs(focus = "logs" /\ Log!EndOfStream)
    /\ WF_logs(focus = "logs" /\ Log!Timeout)

Spec ==
    /\ Init
    /\ [][Next]_vars
    /\ Scale!Fairness
    /\ NamesFair
    /\ LogFair

-----------------------------------------------------------------------------
(* The properties of the components.                                       *)

\* Each component keeps its types.
TypeOK == Scale!TypeOK /\ Rank!TypeOK /\ Names!TypeOK /\ Log!TypeOK

\* Scaling: a request that a node sends leads to no scaling decision on the
\* peer (scale.go:92).
ScaledFirstHand == Scale!ScaledFirstHand

\* Scaling: one request alone makes exactly the replicas that are missing
\* (scale.go:143).
ScaledUp == Scale!ScaledUp

\* Scaling: concurrent requests make no more than was missing, unless the
\* difference has wrapped, and count no replica that a peer has not made
\* (scale.go:113, scale.go:237).
UpToDesired == Scale!UpToDesired

\* Scaling: every request is answered (scale.go:150).
ScaleAnswered == <>[](focus = "scaling" => Scale!Answered)

\* Ranking: this node stays first, and joins one after the other leave each
\* node in the place of its time (faas_client.go:104).
RankedByRTT == Rank!RankedByRTT

\* Resolver: no proxy is given the address of an earlier start
\* (local_resolver.go:72).
CurrentAddress == Names!CurrentAddress

\* Resolver: resolvers end up with the addresses of the hosts file, unless they
\* failed to read it or read it within a write whose two steps have one
\* modification time, and the proxies' lookups are answered, unless an address
\* was not written or read or faasd up has ended (local_resolver.go:38,
\* local_resolver.go:78).
NamesSettle == <>[](focus = "names" => Names!Settled)

\* Logs: the handler returns and journalctl is waited for, also when the client
\* follows or leaves (requestor.go:108).
LogsEnd == <>[](focus = "logs" => Log!Ended)
=============================================================================
