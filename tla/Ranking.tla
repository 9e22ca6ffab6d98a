------------------------------ MODULE Ranking -------------------------------
(***************************************************************************)
(* The ranking of the known nodes by round trip time.                      *)
(*                                                                         *)
(* Each connection callback and each stream handler that meets a new peer  *)
(* adds it to NodeCatalog and ranks all known nodes: it pings them one by  *)
(* one, sorts the times, and copies the peers into the one slice that the  *)
(* scheduler and the scale-up loop read.  Nothing locks the map or the     *)
(* slice.  A map range meets every key that was there when it began; one   *)
(* added later it meets or not.  Left out: that Go may abort when it       *)
(* notices a map write during the range.                                   *)
(***************************************************************************)
EXTENDS Integers, FiniteSets, Sequences, Functions

CONSTANTS
    Peer,           \* the other nodes
    Self,           \* the key of this node
    None,           \* the empty string
    Rtt,            \* Rtt[p]: the round trip times a ping of p may measure
    Capacity,       \* capacity of the slice: the number of key files
    MaxOverlap,     \* bound on the joins at the same time
    MaxLost         \* bound on the pings without an answer

\* A round trip takes time; there is a key file for each node, this one too.
RankingAssumption ==
    /\ Self \notin Peer
    /\ None \notin Peer \cup {Self}
    /\ IsFiniteSet(Peer)
    /\ \A p \in Peer : Rtt[p] \subseteq Nat \ {0}
    /\ Capacity \in Nat /\ Capacity > Cardinality(Peer)
    /\ MaxOverlap \in Nat \ {0}
    /\ MaxLost \in Nat

VARIABLES
    nodes,      \* keys of NodeCatalog
    slots,      \* the array under SortedP2PID
    length,     \* the length of SortedP2PID
    join,       \* join[p]: the call of NewNodeCatalogEntry for p: the nodes its
                \* range has to meet and has met, the times, and the next copy
    lost,       \* pings lost so far
    overlapped  \* history: two rankings were under way at the same time

vars == <<nodes, slots, length, join, lost, overlapped>>

Key == Peer \cup {Self}

TypeOK ==
    /\ nodes \in SUBSET Key
    /\ slots \in [1 .. Capacity -> Key \cup {None}]
    /\ length \in 1 .. Capacity
    /\ \A p \in Peer :
           /\ join[p].pc \in {"idle", "range", "copy", "done", "hung"}
           /\ join[p].due \in SUBSET nodes
           /\ join[p].met \in SUBSET nodes
           /\ join[p].rtts \in Seq(Nat)
           /\ Range(join[p].rtts) = DOMAIN join[p].rttToID
           /\ Range(join[p].rttToID) \in SUBSET join[p].met
           /\ join[p].next \in 1 .. Capacity + 1
    /\ lost \in 0 .. MaxLost
    /\ overlapped \in BOOLEAN

\* initSelfCatagory has added and ranked this node alone.
Init ==
    /\ nodes = {Self}
    /\ slots = [i \in 1 .. Capacity |-> IF i = 1 THEN Self ELSE None]
    /\ length = 1
    /\ join = [p \in Peer |->
                  [pc |-> "idle", due |-> {}, met |-> {}, rtts |-> <<>>,
                   rttToID |-> <<>>, next |-> 1]]
    /\ lost = 0
    /\ overlapped = FALSE

-----------------------------------------------------------------------------
\* The calls of RankNodeByRTT under way.
Ranking == {p \in Peer : join[p].pc \in {"range", "copy"}}

\* Mutant: the known nodes are ranked before the new one is added.
InsertLate(p) ==
    /\ join[p].pc = "idle"
    /\ Cardinality(Ranking) < MaxOverlap
    /\ nodes' = nodes \cup {p}
    /\ join' = [join EXCEPT ![p].pc = "range", ![p].due = nodes, ![p].met = {p}]
    /\ overlapped' = (overlapped \/ Ranking # {})
    /\ UNCHANGED <<slots, length, lost>>

\* NewNodeCatalogEntry for a new peer, up to the range of RankNodeByRTT.
Insert(p) ==
    /\ join[p].pc = "idle"
    /\ Cardinality(Ranking) < MaxOverlap
    /\ nodes' = nodes \cup {p}
    /\ join' = [join EXCEPT ![p].pc = "range", ![p].due = nodes']
    /\ overlapped' = (overlapped \/ Ranking # {})
    /\ UNCHANGED <<slots, length, lost>>

\* The times a ping of n may measure; this node is not pinged.
Times(n) == IF n = Self THEN {0} ELSE Rtt[n]

Put(map, k, v) ==
    [j \in DOMAIN map \cup {k} |-> IF j = k THEN v ELSE map[j]]

\* One iteration.  A node that came after the range began is met or not.
Ping(p, n) ==
    /\ join[p].pc = "range"
    /\ n \in nodes \ join[p].met
    /\ \E t \in Times(n) :
           join' = [join EXCEPT
                       ![p].met = @ \cup {n},
                       ![p].rtts = Append(@, t),
                       ![p].rttToID = Put(@, t, n)]
    /\ UNCHANGED <<nodes, slots, length, lost, overlapped>>

\* The pinger has no timeout and waits for all its answers.
PingLost(p, n) ==
    /\ join[p].pc = "range"
    /\ n \in nodes \ (join[p].met \cup {Self})
    /\ lost < MaxLost
    /\ lost' = lost + 1
    /\ join' = [join EXCEPT ![p].pc = "hung"]
    /\ UNCHANGED <<nodes, slots, length, overlapped>>

\* slices.Sort.
Sort(s) ==
    LET order == CHOOSE q \in Bijection(DOMAIN s, DOMAIN s) :
                     \A i, j \in DOMAIN s : i < j => s[q[i]] <= s[q[j]]
    IN  [i \in DOMAIN s |-> s[order[i]]]

\* The end of the range: the times are sorted and the slice is given its
\* length.
Resize(p) ==
    /\ join[p].pc = "range"
    /\ join[p].due \subseteq join[p].met
    /\ join' = [join EXCEPT ![p].pc = "copy", ![p].rtts = Sort(@)]
    /\ length' = Len(join[p].rtts)
    /\ UNCHANGED <<nodes, slots, lost, overlapped>>

\* One element is copied.
Copy(p) ==
    LET j == join[p]
    IN  /\ j.pc = "copy"
        /\ j.next <= Len(j.rtts)
        /\ slots' = [slots EXCEPT ![j.next] = j.rttToID[j.rtts[j.next]]]
        /\ join' = [join EXCEPT ![p].next = @ + 1]
        /\ UNCHANGED <<nodes, length, lost, overlapped>>

Return(p) ==
    /\ join[p].pc = "copy"
    /\ join[p].next > Len(join[p].rtts)
    /\ join' = [join EXCEPT ![p].pc = "done"]
    /\ UNCHANGED <<nodes, slots, length, lost, overlapped>>

Rank(p) ==
    \/ \E n \in Key : Ping(p, n) \/ PingLost(p, n)
    \/ Resize(p)
    \/ Copy(p)
    \/ Return(p)

Next == \E p \in Peer : Insert(p) \/ Rank(p)

Spec == Init /\ [][Next]_vars

-----------------------------------------------------------------------------
(* Properties.                                                             *)

Ranked == {slots[i] : i \in 1 .. length}

AtRest == Ranking = {}

\* The last of calls that do not overlap has met the most nodes.
Latest(p) ==
    /\ join[p].pc = "done"
    /\ \A q \in Peer : join[q].due \subseteq join[p].due

\* The place of n in the order of the times that the call for p has measured.
Place(p, n) ==
    CHOOSE i \in 1 .. Len(join[p].rtts) : join[p].rttToID[join[p].rtts[i]] = n

\* This node is first in the ranking at every moment, through all overlapping
\* copies: scaleDown takes the first for itself and an implicit deployment
\* prefers it (scale.go:163, trigger.go:203).  When peers have come one after
\* the other and no two times are equal, the ranking holds each known node
\* once, in the order of the times measured last: the map from times to peers
\* loses nothing but a peer whose time another one has too
\* (faas_client.go:104, faas_client.go:111).
RankedByRTT ==
    /\ slots[1] = Self
    /\ \A p \in Peer :
           Latest(p) /\ ~ overlapped /\ AtRest /\ IsInjective(join[p].rtts)
               => /\ length = Cardinality(nodes)
                  /\ Ranked = nodes
                  /\ \A i \in 1 .. length : Place(p, slots[i]) = i

-----------------------------------------------------------------------------
(* The inductive invariant.                                                *)

\* What one call of NewNodeCatalogEntry has measured and copied.
JoinInv(p) ==
    LET j == join[p]
    IN  /\ j.pc = "idle" <=> p \notin nodes
        /\ j.due = {} \/ {p, Self} \subseteq j.due
        /\ j.due = {} <=> j.pc = "idle"
        /\ j.pc \in {"idle", "range", "hung"} => j.next = 1
        /\ j.pc \in {"copy", "done"} =>
               /\ j.due \subseteq j.met
               /\ \A i \in 1 .. Len(j.rtts) : j.rtts[1] <= j.rtts[i]
        /\ j.next <= Len(j.rtts) + 1
        /\ j.pc = "done" => j.next > Len(j.rtts)
        /\ Len(j.rtts) = Cardinality(j.met)
        /\ Self \in j.met => 0 \in DOMAIN j.rttToID
        /\ 0 \in DOMAIN j.rttToID => j.rttToID[0] = Self
        /\ IsInjective(j.rttToID)
        /\ IsInjective(j.rtts) => Range(j.rttToID) = j.met

\* Calls that do not overlap: the one under way is the only one and is unknown
\* to the others, and the slice is as the latest one has left it.
OneByOne ==
    ~ overlapped => \A p \in Peer :
        /\ p \in Ranking => \A q \in Peer \ {p} :
               q \notin Ranking /\ p \notin join[q].due
        /\ /\ join[p].pc \in {"copy", "done"}
           /\ \A q \in Peer : join[q].due \subseteq join[p].due
           => /\ length = Len(join[p].rtts)
              /\ \A i \in 1 .. join[p].next - 1 :
                     slots[i] = join[p].rttToID[join[p].rtts[i]]

IInv ==
    /\ TypeOK
    /\ Self \in nodes /\ slots[1] = Self
    /\ \A p \in Peer : JoinInv(p)
    /\ OneByOne
=============================================================================
