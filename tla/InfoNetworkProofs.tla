------------------------- MODULE InfoNetworkProofs -------------------------
(***************************************************************************)
(* The invariants of InfoNetwork hold for any number of nodes, functions,  *)
(* requests, crashes and lost or reordered messages, and it implements     *)
(* PeerViews: its initial states are initial states of PeerViews, and each *)
(* of its steps is one of PeerViews or leaves what PeerViews speaks of     *)
(* unchanged.                                                              *)
(***************************************************************************)
EXTENDS InfoNetworkViews, CatalogProofs

\* Taking an element out of a sequence leaves a sequence of the same set.
LEMMA RemoveAtType ==
    ASSUME NEW S, NEW s \in Seq(S), NEW i \in 1 .. Len(s)
    PROVE  RemoveAt(s, i) \in Seq(S)
<1>1. SubSeq(s, 1, i - 1) \in Seq(S) /\ SubSeq(s, i + 1, Len(s)) \in Seq(S)
  OBVIOUS
<1> QED
  BY <1>1 DEF RemoveAt

\* Deliverable messages are messages of the queue.
LEMMA DeliverableIndex ==
    ASSUME NEW s, NEW i \in Deliverable(s), Len(s) \in Nat
    PROVE  i \in 1 .. Len(s)
BY DEF Deliverable

\* Spending a bound leaves a counter.
LEMMA CounterType ==
    ASSUME NEW c \in Counter
    PROVE  /\ [c EXCEPT !.requests = @ + 1] \in Counter
           /\ [c EXCEPT !.flips = @ + 1] \in Counter
           /\ [c EXCEPT !.crashes = @ + 1] \in Counter
           /\ [c EXCEPT !.giveUps = @ + 1] \in Counter
           /\ [c EXCEPT !.early = @ + 1] \in Counter
BY DEF Counter

\* Recording a pair of peers at both ends.
LEMMA PairType ==
    ASSUME NEW g \in [Node -> SUBSET Node], NEW n \in Node, NEW m \in Node,
           n # m, NEW h, h = [g EXCEPT ![n] = @ \cup {m}, ![m] = @ \cup {n}]
    PROVE  /\ h \in [Node -> SUBSET Node]
           /\ h[n] = g[n] \cup {m} /\ h[m] = g[m] \cup {n}
           /\ \A k \in Node \ {n, m} : h[k] = g[k]
OBVIOUS

\* The conjuncts of the invariant that are about catalogs alone, of which
\* only the one of n changes, by an operation that keeps it sound and forgets
\* no node.
LEMMA CatalogStep ==
    ASSUME IInv, NEW n \in Node, up[n], up' = up,
           NEW d \in CatalogType, CatalogInv(d, n),
           catalog[n].nodes \subseteq d.nodes,
           catalog' = [catalog EXCEPT ![n] = d]
    PROVE  /\ catalog' \in [Node -> CatalogType]
           /\ \A k \in Node : up'[k] => CatalogInv(catalog'[k], k)
           /\ \A k \in Node : catalog[k].nodes \subseteq catalog'[k].nodes
           /\ \A k \in Node : ~up'[k] => catalog'[k] = catalog[k]
BY DEF IInv, TypeOK

-----------------------------------------------------------------------------
(* Process start and end.                                                  *)

\* Before any provider runs, nothing is connected and nothing in flight.
LEMMA InitIInv == Init => IInv
<1> SUFFICES ASSUME Init PROVE IInv
  OBVIOUS
<1>1. TypeOK
  BY NewCatalogType DEF Init, TypeOK, Counter
<1>2. DownIsIdle /\ NoSelf /\ ConnSymmetric /\ ConnectedKnown /\ JoinedKnown /\ RoomOwnerKnown
  BY DEF Init, DownIsIdle, NoSelf, ConnSymmetric, ConnectedKnown, JoinedKnown, RoomOwnerKnown
<1>3. \A n \in Node : up[n] => CatalogInv(catalog[n], n)
  BY DEF Init
<1> QED
  BY <1>1, <1>2, <1>3 DEF IInv

\* A starting provider's catalog, built from the containers it finds, is
\* sound.
LEMMA StartIInv ==
    ASSUME IInv, NEW n \in Node, Start(n)
    PROVE  IInv'
<1> USE DEF IInv, Start, netVars, peerVars, startVars
<1>1. /\ initSelfCatagory(n, container[n]) \in CatalogType
      /\ CatalogInv(initSelfCatagory(n, container[n]), n)
  BY initSelfCatagorySound DEF TypeOK
<1>2. TypeOK'
  BY <1>1 DEF TypeOK
<1>3. DownIsIdle'
  BY DEF DownIsIdle, TypeOK
<1>4. (NoSelf /\ ConnSymmetric)'
  BY DEF NoSelf, ConnSymmetric, TypeOK
<1>5. (ConnectedKnown /\ JoinedKnown /\ RoomOwnerKnown)'
  <2>1. conn[n] = {} /\ subscribed[n] = {} /\ \A m \in Node : topic[m][n] = <<>>
    BY DEF DownIsIdle
  <2>2. \A k \in Node \ {n} : catalog'[k] = catalog[k]
    BY DEF TypeOK
  <2> QED
    BY <2>1, <2>2 DEF ConnectedKnown, JoinedKnown, RoomOwnerKnown
<1>6. \A k \in Node : up'[k] => CatalogInv(catalog'[k], k)
  BY <1>1 DEF TypeOK
<1> QED
  BY <1>2, <1>3, <1>4, <1>5, <1>6

\* Whatever ends the process of n.
LEMMA ExitIInv ==
    ASSUME IInv, NEW n \in Node, Exit(n), count' \in Counter
    PROVE  IInv'
<1> USE DEF IInv, Exit
<1>1. TypeOK'
  BY NewCatalogType DEF TypeOK
<1>2. DownIsIdle'
  BY DEF DownIsIdle, TypeOK
<1>3. (NoSelf /\ ConnSymmetric)'
  BY DEF NoSelf, ConnSymmetric, TypeOK
<1>4. (ConnectedKnown /\ JoinedKnown /\ RoomOwnerKnown)'
  BY DEF ConnectedKnown, JoinedKnown, RoomOwnerKnown, TypeOK
<1>5. \A k \in Node : up'[k] => CatalogInv(catalog'[k], k)
  BY DEF TypeOK
<1> QED
  BY <1>1, <1>2, <1>3, <1>4, <1>5
-----------------------------------------------------------------------------
(* Peer discovery.                                                         *)

\* The handler, the room and the notifiee are registered.
LEMMA RegisterIInv ==
    ASSUME IInv, NEW n \in Node, Register(n)
    PROVE  IInv'
<1> USE DEF IInv, Register, netVars, catalogVars
<1>1. TypeOK'
  BY DEF TypeOK
<1>2. DownIsIdle'
  BY DEF DownIsIdle, TypeOK
<1>3. (NoSelf /\ ConnSymmetric /\ ConnectedKnown /\ JoinedKnown /\ RoomOwnerKnown)'
  BY DEF NoSelf, ConnSymmetric, ConnectedKnown, JoinedKnown, RoomOwnerKnown, TypeOK
<1>4. \A k \in Node : up'[k] => CatalogInv(catalog'[k], k)
  OBVIOUS
<1> QED
  BY <1>1, <1>2, <1>3, <1>4

\* A peer is dialed or passed over.
LEMMA staticDiscoveryIInv ==
    ASSUME IInv, NEW n \in Node, NEW m \in Node, staticDiscovery(n, m)
    PROVE  IInv'
<1> USE DEF IInv, staticDiscovery, netVars, catalogVars
<1>1. up[n] /\ n # m
  BY DEF DownIsIdle, NoSelf
<1>2. TypeOK'
  BY DEF TypeOK
<1>3. DownIsIdle'
  BY <1>1 DEF DownIsIdle, TypeOK
<1>4. (NoSelf /\ ConnSymmetric /\ ConnectedKnown /\ JoinedKnown /\ RoomOwnerKnown)'
  BY <1>1 DEF NoSelf, ConnSymmetric, ConnectedKnown, JoinedKnown, RoomOwnerKnown, TypeOK
<1>5. \A k \in Node : up'[k] => CatalogInv(catalog'[k], k)
  OBVIOUS
<1> QED
  BY <1>2, <1>3, <1>4, <1>5

\* A new connection is due its callback at each end, or was there before the
\* end's notifiee.
LEMMA ReachIInv ==
    ASSUME IInv, NEW n \in Node, NEW m \in Node, Reach(n, m),
           BothNotified(n, m) \/ DialerNotified(n, m), count' \in Counter
    PROVE  IInv'
<1> USE DEF IInv, Reach, netVars, catalogVars
<1>1. n # m
  BY DEF NoSelf
<1>2. /\ notify' \in [Node -> SUBSET Node] /\ early' \in [Node -> SUBSET Node]
      /\ \A k \in Node : notify[k] \subseteq notify'[k] /\ early[k] \subseteq early'[k]
      /\ \A k \in Node \ {n, m} : notify'[k] = notify[k] /\ early'[k] = early[k]
      /\ m \in notify'[n] /\ n \in notify'[m] \cup early'[m]
  <2>1. CASE BothNotified(n, m)
    <3>1. /\ notify \in [Node -> SUBSET Node] /\ early' = early
          /\ notify' = [notify EXCEPT ![n] = @ \cup {m}, ![m] = @ \cup {n}]
      BY <2>1 DEF BothNotified, TypeOK
    <3>2. /\ notify' \in [Node -> SUBSET Node]
          /\ notify'[n] = notify[n] \cup {m} /\ notify'[m] = notify[m] \cup {n}
          /\ \A k \in Node \ {n, m} : notify'[k] = notify[k]
      BY <1>1, <3>1, PairType
    <3> QED
      BY <3>1, <3>2 DEF TypeOK
  <2>2. CASE DialerNotified(n, m)
    BY <1>1, <2>2 DEF DialerNotified, TypeOK
  <2> QED
    BY <2>1, <2>2
<1>3. /\ conn' \in [Node -> SUBSET Node]
      /\ conn'[n] = conn[n] \cup {m} /\ conn'[m] = conn[m] \cup {n}
      /\ \A k \in Node \ {n, m} : conn'[k] = conn[k]
  <2>1. /\ conn \in [Node -> SUBSET Node]
        /\ conn' = [conn EXCEPT ![n] = @ \cup {m}, ![m] = @ \cup {n}]
    BY DEF TypeOK
  <2> QED
    BY <1>1, <2>1, PairType
<1>4. TypeOK'
  BY <1>2, <1>3 DEF TypeOK
<1>5. DownIsIdle'
  BY <1>2, <1>3 DEF DownIsIdle, TypeOK
<1>6. (NoSelf /\ ConnSymmetric)'
  <2>1. \A k, l \in Node :
            l \in conn'[k] <=>
                (l \in conn[k] \/ (k = n /\ l = m) \/ (k = m /\ l = n))
    BY <1>3
  <2>2. NoSelf'
    BY <1>1, <2>1 DEF NoSelf
  <2>3. ConnSymmetric'
    BY <2>1, Zenon DEF ConnSymmetric
  <2> QED
    BY <2>2, <2>3
<1>7. ConnectedKnown'
  BY <1>2, <1>3 DEF ConnectedKnown
<1>8. (JoinedKnown /\ RoomOwnerKnown)'
  BY <1>2 DEF JoinedKnown, RoomOwnerKnown
<1>9. \A k \in Node : up'[k] => CatalogInv(catalog'[k], k)
  OBVIOUS
<1> QED
  BY <1>4, <1>5, <1>6, <1>7, <1>8, <1>9

LEMMA ConnectIInv ==
    ASSUME IInv, NEW n \in Node, NEW m \in Node, Connect(n, m) \/ ConnectEarly(n, m)
    PROVE  IInv'
<1>1. Reach(n, m) /\ (BothNotified(n, m) \/ DialerNotified(n, m))
  BY DEF Connect, ConnectEarly
<1>2. count' \in Counter
  <2>1. count \in Counter
    BY DEF IInv, TypeOK
  <2> QED
    BY <2>1, CounterType DEF Connect, ConnectEarly
<1> QED
  BY <1>1, <1>2, ReachIInv

\* The entry of a peer is made.
LEMMA NewEntryIInv ==
    ASSUME IInv, NEW n \in Node, NEW m \in Node, NewEntry(n, m)
    PROVE  IInv'
<1> USE DEF IInv, NewEntry, netVars, peerVars, startVars
<1> DEFINE d == NewNodeCatalogEntry(catalog[n], m)
<1>1. d \in CatalogType /\ CatalogInv(d, n) /\ d.nodes = catalog[n].nodes \cup {m}
  BY NewNodeCatalogEntrySound DEF TypeOK
<1> HIDE DEF d
<1>2. catalog' = [catalog EXCEPT ![n] = d]
  BY DEF d
<1>3. /\ catalog' \in [Node -> CatalogType]
      /\ \A k \in Node : up'[k] => CatalogInv(catalog'[k], k)
      /\ \A k \in Node : catalog[k].nodes \subseteq catalog'[k].nodes
      /\ \A k \in Node : ~up'[k] => catalog'[k] = catalog[k]
  BY <1>1, <1>2, CatalogStep
<1>4. TypeOK'
  BY <1>3 DEF TypeOK
<1>5. DownIsIdle'
  BY <1>3 DEF DownIsIdle, TypeOK
<1>6. (NoSelf /\ ConnSymmetric)'
  BY DEF NoSelf, ConnSymmetric
<1>7. (ConnectedKnown /\ JoinedKnown /\ RoomOwnerKnown)'
  BY <1>3 DEF ConnectedKnown, JoinedKnown, RoomOwnerKnown
<1> QED
  BY <1>3, <1>4, <1>5, <1>6, <1>7

\* The callback ends when the peer has its entry.
LEMMA ConnectedIInv ==
    ASSUME IInv, NEW n \in Node, NEW m \in Node, Connected(n, m)
    PROVE  IInv'
<1> USE DEF IInv, Connected, netVars, startVars, catalogVars
<1>1. up[n] /\ m \in catalog[n].nodes
  BY DEF DownIsIdle
<1>2. /\ \A k \in Node : notify[k] = notify'[k] \/ k = n
      /\ notify[n] = notify'[n] \cup {m}
  BY DEF TypeOK
<1>3. TypeOK'
  BY DEF TypeOK
<1>4. DownIsIdle'
  BY <1>1 DEF DownIsIdle, TypeOK
<1>5. (NoSelf /\ ConnSymmetric)'
  BY DEF NoSelf, ConnSymmetric
<1>6. (ConnectedKnown /\ JoinedKnown)'
  BY <1>1, <1>2 DEF ConnectedKnown, JoinedKnown
<1>7. RoomOwnerKnown'
  BY <1>1, <1>2 DEF RoomOwnerKnown
<1>8. \A k \in Node : up'[k] => CatalogInv(catalog'[k], k)
  OBVIOUS
<1> QED
  BY <1>3, <1>4, <1>5, <1>6, <1>7, <1>8

\* Joining a room brings no message with it.
LEMMA HandlePeerFoundIInv ==
    ASSUME IInv, NEW n \in Node, NEW m \in Node, HandlePeerFound(n, m)
    PROVE  IInv'
<1> USE DEF IInv, HandlePeerFound, netVars, startVars, catalogVars
<1>1. up[n] /\ n # m
  BY DEF DownIsIdle, NoSelf
<1>2. TypeOK'
  BY DEF TypeOK
<1>3. DownIsIdle'
  BY <1>1 DEF DownIsIdle, TypeOK
<1>4. (NoSelf /\ ConnSymmetric /\ ConnectedKnown /\ JoinedKnown /\ RoomOwnerKnown)'
  BY <1>1 DEF NoSelf, ConnSymmetric, ConnectedKnown, JoinedKnown, RoomOwnerKnown, TypeOK
<1>5. \A k \in Node : up'[k] => CatalogInv(catalog'[k], k)
  OBVIOUS
<1> QED
  BY <1>2, <1>3, <1>4, <1>5

\* A dialer that gives up only stops dialing.
LEMMA GiveUpIInv ==
    ASSUME IInv, NEW n \in Node, NEW m \in Node, GiveUp(n, m)
    PROVE  IInv'
<1> USE DEF IInv, GiveUp, netVars, startVars, catalogVars
<1>1. TypeOK'
  <2>1. count' \in Counter
    BY CounterType DEF TypeOK
  <2> QED
    BY <2>1 DEF TypeOK
<1>2. DownIsIdle'
  BY DEF DownIsIdle, TypeOK
<1>3. (NoSelf /\ ConnSymmetric /\ ConnectedKnown /\ JoinedKnown /\ RoomOwnerKnown)'
  BY DEF NoSelf, ConnSymmetric, ConnectedKnown, JoinedKnown, RoomOwnerKnown, TypeOK
<1>4. \A k \in Node : up'[k] => CatalogInv(catalog'[k], k)
  OBVIOUS
<1> QED
  BY <1>1, <1>2, <1>3, <1>4

\* The initial stream carries a message made of the sender's own entry.
LEMMA SendStreamIInv ==
    ASSUME IInv, NEW n \in Node, NEW m \in Node, SendStream(n, m)
    PROVE  IInv'
<1> USE DEF IInv, SendStream, startVars, catalogVars, Talks
<1>1. packNodeInfoMsg(catalog[n], n) \in NodeInfoMsg
  BY packNodeInfoMsgType DEF TypeOK
<1>2. up[n] /\ up[m] /\ n # m
  BY DEF DownIsIdle, ConnSymmetric, NoSelf
<1>3. TypeOK'
  BY <1>1 DEF TypeOK
<1>4. DownIsIdle'
  BY <1>2 DEF DownIsIdle, TypeOK
<1>5. (NoSelf /\ ConnSymmetric /\ ConnectedKnown /\ JoinedKnown /\ RoomOwnerKnown)'
  BY <1>2 DEF NoSelf, ConnSymmetric, ConnectedKnown, JoinedKnown, RoomOwnerKnown, TypeOK
<1>6. \A k \in Node : up'[k] => CatalogInv(catalog'[k], k)
  OBVIOUS
<1> QED
  BY <1>3, <1>4, <1>5, <1>6

\* Receiving an initial stream replaces the view.
LEMMA streamAvailableFunctionsIInv ==
    ASSUME IInv, NEW n \in Node, NEW m \in Node, streamAvailableFunctions(n, m)
    PROVE  IInv'
<1> USE DEF IInv, streamAvailableFunctions, peerVars, startVars
<1>1. PICK msg \in stream[m][n] :
        /\ stream' = [stream EXCEPT ![m][n] = @ \ {msg}]
        /\ catalog' = [catalog EXCEPT ![n] = unpackNodeInfoMsg(@, msg, m)]
  OBVIOUS
<1> DEFINE d == unpackNodeInfoMsg(catalog[n], msg, m)
<1>2. m # n /\ msg \in NodeInfoMsg
  BY DEF NoSelf, TypeOK
<1>3. catalog[n] \in CatalogType /\ CatalogInv(catalog[n], n)
  BY DEF TypeOK
<1>4. d \in CatalogType /\ CatalogInv(d, n) /\ d.nodes = catalog[n].nodes
  BY <1>2, <1>3, unpackNodeInfoMsgSound
<1> HIDE DEF d
<1>5. catalog' = [catalog EXCEPT ![n] = d]
  BY <1>1 DEF d
<1>6. /\ catalog' \in [Node -> CatalogType]
      /\ \A k \in Node : up'[k] => CatalogInv(catalog'[k], k)
      /\ \A k \in Node : catalog[k].nodes \subseteq catalog'[k].nodes
      /\ \A k \in Node : ~up'[k] => catalog'[k] = catalog[k]
  BY <1>3, <1>4, <1>5, CatalogStep
<1>7. TypeOK'
  BY <1>1, <1>6 DEF TypeOK
<1>8. DownIsIdle'
  BY <1>1, <1>6 DEF DownIsIdle, TypeOK
<1>9. (NoSelf /\ ConnSymmetric)'
  BY <1>1 DEF NoSelf, ConnSymmetric, TypeOK
<1>10. (ConnectedKnown /\ JoinedKnown /\ RoomOwnerKnown)'
  BY <1>6 DEF ConnectedKnown, JoinedKnown, RoomOwnerKnown
<1> QED
  BY <1>6, <1>7, <1>8, <1>9, <1>10

-----------------------------------------------------------------------------
(* Info rooms.                                                             *)

\* The publish loop takes a blocked sender over; no catalog changes.
LEMMA PublishReceiveIInv ==
    ASSUME IInv, NEW n \in Node, PublishReceive(n)
    PROVE  IInv'
<1> USE DEF IInv, PublishReceive, peerVars, startVars, netVars
<1>1. PICK s \in sends[n] :
        /\ sends' = [sends EXCEPT ![n] = @ \ {s}]
        /\ removing' = [removing EXCEPT ![n] =
               IF s[1] \in {"update", "delete"} THEN @ \cup {s[2]} ELSE @]
  OBVIOUS
<1>2. up[n]
  BY DEF DownIsIdle
<1>3. s[1] \in {"update", "delete"} => s[2] \in Function
  <2>1. s \in Send
    BY DEF TypeOK
  <2>2. CASE s = <<"pressure">>
    BY <2>2
  <2>3. CASE s \in {"add", "update", "delete"} \X Function
    BY <2>3
  <2> QED
    BY <2>1, <2>2, <2>3 DEF Send
<1>4. TypeOK'
  BY <1>1, <1>3 DEF TypeOK
<1>5. DownIsIdle'
  BY <1>1, <1>2 DEF DownIsIdle, TypeOK
<1>6. (NoSelf /\ ConnSymmetric /\ ConnectedKnown /\ JoinedKnown /\ RoomOwnerKnown)'
  BY DEF NoSelf, ConnSymmetric, ConnectedKnown, JoinedKnown, RoomOwnerKnown
<1>7. \A k \in Node : up'[k] => CatalogInv(catalog'[k], k)
  OBVIOUS
<1> QED
  BY <1>4, <1>5, <1>6, <1>7

\* A message reaches only subscribers that know the publisher, accepted its
\* connection too early or got the message from a third node.
LEMMA PublishIInv ==
    ASSUME IInv, NEW n \in Node, Publish(n)
    PROVE  IInv'
<1> USE DEF IInv, Publish, peerVars, startVars
<1>0. PICK relayed \in SUBSET Relayed(n) : Deliver(n, Direct(n) \cup relayed)
  OBVIOUS
<1> DEFINE msg == packNodeInfoMsg(catalog[n], n)
           reached(m) == m \in Direct(n) \cup relayed
           queues == [m \in Node |-> IF reached(m) THEN Append(topic[n][m], msg)
                                                   ELSE topic[n][m]]
<1>1. msg \in NodeInfoMsg
  BY packNodeInfoMsgType DEF TypeOK
<1>2. topic' = [topic EXCEPT ![n] = queues]
  BY <1>0, Zenon DEF Deliver
<1> HIDE DEF msg
<1>3. queues \in [Node -> Seq(NodeInfoMsg)]
  BY <1>1 DEF TypeOK
<1>4. \A m \in Node : queues[m] = topic[n][m] \/ reached(m)
  OBVIOUS
<1> HIDE DEF queues
<1>5. TypeOK'
  BY <1>2, <1>3 DEF TypeOK
<1>6. up[n]
  BY DEF DownIsIdle
<1>7. ASSUME NEW m \in Node, reached(m)
      PROVE  /\ up[m] /\ m # n
             /\ \/ n \in catalog[m].nodes \cup early[m]
                \/ n \in notify[m] /\ Node \ {m, n} # {}
  <2>1. n \in subscribed[m]
    BY <1>7 DEF Direct, Relayed
  <2>2. up[m] /\ m # n
    BY <2>1 DEF DownIsIdle, NoSelf
  <2>3. CASE m \in Direct(n)
    BY <2>2, <2>3 DEF Direct, Talks, ConnSymmetric, ConnectedKnown
  <2>4. CASE m \in Relayed(n)
    BY <2>1, <2>2, <2>4 DEF Relayed, JoinedKnown
  <2> QED
    BY <1>7, <2>2, <2>3, <2>4
<1> HIDE DEF reached
<1>8. \A k, m \in Node : topic'[k][m] = topic[k][m] \/ (k = n /\ reached(m))
  BY <1>2, <1>4 DEF TypeOK
<1>9. DownIsIdle'
  BY <1>6, <1>7, <1>8 DEF DownIsIdle, TypeOK
<1>10. (NoSelf /\ ConnSymmetric)'
  <2>1. \A k \in Node : topic'[k][k] = topic[k][k]
    BY <1>7, <1>8
  <2> QED
    BY <2>1 DEF NoSelf, ConnSymmetric
<1>11. (ConnectedKnown /\ JoinedKnown /\ RoomOwnerKnown)'
  BY <1>7, <1>8 DEF ConnectedKnown, JoinedKnown, RoomOwnerKnown
<1>12. \A k \in Node : up'[k] => CatalogInv(catalog'[k], k)
  OBVIOUS
<1> QED
  BY <1>5, <1>9, <1>10, <1>11, <1>12

\* A subscriber replaces its view of the room's owner, which it knows.
LEMMA subscribeLoopIInv ==
    ASSUME IInv, NEW n \in Node, NEW m \in Node, subscribeLoop(n, m)
    PROVE  IInv'
<1> USE DEF IInv
<1>1. PICK i \in Deliverable(topic[m][n]) :
        /\ topic' = [topic EXCEPT ![m][n] = RemoveAt(@, i)]
        /\ catalog' = [catalog EXCEPT ![n] =
                           unpackNodeInfoMsg(@, topic[m][n][i], m)]
        /\ UNCHANGED <<up, container, waiting, sends, removing, packing,
                       peerVars, stream, count>>
        /\ m \in catalog[n].nodes
  BY DEF subscribeLoop
<1> DEFINE queue == topic[m][n]
           d == unpackNodeInfoMsg(catalog[n], queue[i], m)
<1>2. queue \in Seq(NodeInfoMsg)
  BY DEF TypeOK
<1>3. i \in 1 .. Len(queue)
  BY <1>2, DeliverableIndex
<1>4. queue # <<>> /\ queue[i] \in NodeInfoMsg /\ RemoveAt(queue, i) \in Seq(NodeInfoMsg)
  BY <1>2, <1>3, RemoveAtType
<1>5. m # n /\ up[n] /\ m \in catalog[n].nodes
  BY <1>1, <1>4 DEF NoSelf, DownIsIdle
<1>6. d \in CatalogType /\ CatalogInv(d, n) /\ d.nodes = catalog[n].nodes
  <2>1. catalog[n] \in CatalogType /\ CatalogInv(catalog[n], n)
    BY <1>5 DEF TypeOK
  <2> QED
    BY <1>4, <1>5, <2>1, unpackNodeInfoMsgSound
<1> HIDE DEF d
<1>7. catalog' = [catalog EXCEPT ![n] = d]
  BY <1>1 DEF d
<1>8. /\ catalog' \in [Node -> CatalogType]
      /\ \A k \in Node : up'[k] => CatalogInv(catalog'[k], k)
      /\ \A k \in Node : catalog[k].nodes \subseteq catalog'[k].nodes
      /\ \A k \in Node : ~up'[k] => catalog'[k] = catalog[k]
  BY <1>1, <1>5, <1>6, <1>7, CatalogStep
<1>9. topic' \in [Node -> [Node -> Seq(NodeInfoMsg)]]
  BY <1>1, <1>4 DEF TypeOK
<1>10. \A j, k \in Node : topic'[j][k] = topic[j][k] \/ (j = m /\ k = n)
  BY <1>1 DEF TypeOK
<1>11. TypeOK'
  BY <1>1, <1>8, <1>9 DEF TypeOK, peerVars, startVars
<1>12. DownIsIdle'
  BY <1>1, <1>5, <1>8, <1>10 DEF DownIsIdle, peerVars, startVars
<1>13. (NoSelf /\ ConnSymmetric)'
  BY <1>1, <1>5, <1>10 DEF NoSelf, ConnSymmetric, peerVars, startVars
<1>14. (ConnectedKnown /\ JoinedKnown)'
  BY <1>1, <1>8 DEF ConnectedKnown, JoinedKnown, peerVars, startVars
<1>15. RoomOwnerKnown'
  BY <1>1, <1>5, <1>8, <1>10 DEF RoomOwnerKnown, peerVars, startVars
<1> QED
  BY <1>8, <1>11, <1>12, <1>13, <1>14, <1>15

-----------------------------------------------------------------------------
(* Requests.                                                               *)

\* A step of a running node that touches neither connections nor messages
\* and leaves its catalog sound.
LEMMA RequestStep ==
    ASSUME IInv, NEW n \in Node, up[n],
           NEW d \in CatalogType, CatalogInv(d, n), d.nodes = catalog[n].nodes,
           catalog' = [catalog EXCEPT ![n] = d],
           UNCHANGED <<up, packing, peerVars, netVars>>,
           container' \in [Node -> SUBSET Function],
           waiting' \in [Node -> SUBSET Function],
           sends' \in [Node -> SUBSET Send],
           removing' \in [Node -> SUBSET Function],
           \A k \in Node \ {n} : /\ waiting'[k] = waiting[k]
                                 /\ sends'[k] = sends[k]
                                 /\ removing'[k] = removing[k],
           count' \in Counter
    PROVE  IInv'
<1> USE DEF IInv
<1>1. /\ catalog' \in [Node -> CatalogType]
      /\ \A k \in Node : up'[k] => CatalogInv(catalog'[k], k)
      /\ \A k \in Node : catalog[k].nodes \subseteq catalog'[k].nodes
      /\ \A k \in Node : ~up'[k] => catalog'[k] = catalog[k]
  BY CatalogStep
<1>2. TypeOK'
  BY <1>1 DEF TypeOK, peerVars, startVars, netVars
<1>3. DownIsIdle'
  BY <1>1 DEF DownIsIdle, peerVars, startVars, netVars
<1>4. (NoSelf /\ ConnSymmetric)'
  BY DEF NoSelf, ConnSymmetric, peerVars, startVars, netVars
<1>5. (ConnectedKnown /\ JoinedKnown /\ RoomOwnerKnown)'
  BY <1>1 DEF ConnectedKnown, JoinedKnown, RoomOwnerKnown, peerVars, startVars, netVars
<1> QED
  BY <1>1, <1>2, <1>3, <1>4, <1>5

\* Making a container changes no catalog.
LEMMA DeployIInv ==
    ASSUME IInv, NEW n \in Node, NEW f \in Function, Deploy(n, f)
    PROVE  IInv'
<1>1. up[n] /\ count' \in Counter
  BY CounterType DEF IInv, TypeOK, DownIsIdle, Deploy, Request, Started
<1>2. catalog[n] \in CatalogType /\ CatalogInv(catalog[n], n)
  BY <1>1 DEF IInv, TypeOK
<1>3. catalog' = [catalog EXCEPT ![n] = catalog[n]]
  BY DEF IInv, TypeOK, Deploy
<1> QED
  BY <1>1, <1>2, <1>3, RequestStep DEF IInv, TypeOK, Deploy

\* Reporting a function that answers.
LEMMA ReportReadyIInv ==
    ASSUME IInv, NEW n \in Node, NEW f \in Function, ReportReady(n, f)
    PROVE  IInv'
<1> DEFINE d == AddAvailableFunctions(catalog[n], n, f, 1)
<1>1. up[n] /\ count' \in Counter
  BY DEF IInv, TypeOK, DownIsIdle, ReportReady
<1>2. catalog[n] \in CatalogType /\ CatalogInv(catalog[n], n) /\ 1 \in Count
  BY <1>1, MaxAvailableAssumption DEF IInv, TypeOK, Count
<1>3. d \in CatalogType /\ CatalogInv(d, n) /\ d.nodes = catalog[n].nodes
  BY <1>2, AddAvailableFunctionsSound
<1>4. catalog' = [catalog EXCEPT ![n] = d]
  BY DEF ReportReady
<1> HIDE DEF d
<1>5. sends' \in [Node -> SUBSET Send]
  BY DEF IInv, TypeOK, ReportReady, Send
<1> QED
  BY <1>1, <1>3, <1>4, <1>5, RequestStep DEF IInv, TypeOK, ReportReady

\* A deployment that is not reported changes no catalog.
LEMMA ReportTimeoutIInv ==
    ASSUME IInv, NEW n \in Node, NEW f \in Function, ReportTimeout(n, f)
    PROVE  IInv'
<1>1. up[n] /\ count' \in Counter
  BY DEF IInv, TypeOK, DownIsIdle, ReportTimeout
<1>2. catalog[n] \in CatalogType /\ CatalogInv(catalog[n], n)
  BY <1>1 DEF IInv, TypeOK
<1>3. catalog' = [catalog EXCEPT ![n] = catalog[n]]
  BY DEF IInv, TypeOK, ReportTimeout
<1> QED
  BY <1>1, <1>2, <1>3, RequestStep DEF IInv, TypeOK, ReportTimeout

\* Reporting zero replicas of an own function.
LEMMA ScaleDownIInv ==
    ASSUME IInv, NEW n \in Node, NEW f \in Function, ScaleDown(n, f)
    PROVE  IInv'
<1> DEFINE d == UpdateAvailableFunctions(catalog[n], n, f, 0)
<1>1. up[n] /\ count' \in Counter
  BY CounterType DEF IInv, TypeOK, DownIsIdle, ScaleDown, Request, Started
<1>2. catalog[n] \in CatalogType /\ CatalogInv(catalog[n], n)
  BY <1>1 DEF IInv, TypeOK
<1>3. d \in CatalogType /\ CatalogInv(d, n) /\ d.nodes = catalog[n].nodes
  BY <1>2, UpdateAvailableFunctionsSound
<1>4. catalog' = [catalog EXCEPT ![n] = d]
  BY DEF ScaleDown
<1> HIDE DEF d
<1>5. sends' \in [Node -> SUBSET Send]
  BY DEF IInv, TypeOK, ScaleDown, Send
<1> QED
  BY <1>1, <1>3, <1>4, <1>5, RequestStep DEF IInv, TypeOK, ScaleDown

\* Deleting an own function, or one that only peers run.
LEMMA DeleteIInv ==
    ASSUME IInv, NEW n \in Node, NEW f \in Function, Delete(n, f)
    PROVE  IInv'
<1> DEFINE d == DeleteAvailableFunctions(catalog[n], n, f)
<1>1. up[n] /\ count' \in Counter
  BY CounterType DEF IInv, TypeOK, DownIsIdle, Delete, Request, Started
<1>2. catalog[n] \in CatalogType /\ CatalogInv(catalog[n], n)
  BY <1>1 DEF IInv, TypeOK
<1>3. d \in CatalogType /\ CatalogInv(d, n) /\ d.nodes = catalog[n].nodes
  BY <1>2, DeleteAvailableFunctionsSound
<1>4. catalog' = [catalog EXCEPT ![n] = d]
  BY DEF Delete
<1> HIDE DEF d
<1>5. sends' \in [Node -> SUBSET Send]
  BY DEF IInv, TypeOK, Delete, Send
<1> QED
  BY <1>1, <1>3, <1>4, <1>5, RequestStep DEF IInv, TypeOK, Delete

\* Removing a container changes no catalog.
LEMMA DeleteFunctionIInv ==
    ASSUME IInv, NEW n \in Node, NEW f \in Function, DeleteFunction(n, f)
    PROVE  IInv'
<1>1. up[n] /\ count' \in Counter
  BY DEF IInv, TypeOK, DownIsIdle, DeleteFunction
<1>2. catalog[n] \in CatalogType /\ CatalogInv(catalog[n], n)
  BY <1>1 DEF IInv, TypeOK
<1>3. catalog' = [catalog EXCEPT ![n] = catalog[n]]
  BY DEF IInv, TypeOK, DeleteFunction
<1> QED
  BY <1>1, <1>2, <1>3, RequestStep DEF IInv, TypeOK, DeleteFunction

\* The overload flag is not part of what CatalogInv constrains.
LEMMA updatePressureIInv ==
    ASSUME IInv, NEW n \in Node, updatePressure(n)
    PROVE  IInv'
<1> DEFINE c == catalog[n]
           d == [c EXCEPT !.overload[n] = ~@]
<1>1. up[n] /\ count' \in Counter
  BY CounterType DEF IInv, TypeOK, DownIsIdle, updatePressure, Started
<1>2. c \in CatalogType /\ CatalogInv(c, n)
  BY <1>1 DEF IInv, TypeOK
<1>3. catalog' = [catalog EXCEPT ![n] = d]
  BY DEF updatePressure
<1> HIDE DEF c
<1>4. /\ d \in CatalogType
      /\ d.nodes = c.nodes /\ d.avail = c.avail /\ d.execTime = c.execTime
      /\ d.functions = c.functions
  BY <1>2 DEF CatalogType
<1> HIDE DEF d
<1>5. \A f \in Function : TotalReplicas(d, f) = TotalReplicas(c, f)
  BY <1>4, TotalReplicasSame
<1>6. CatalogInv(d, n)
  BY <1>2, <1>4, <1>5 DEF CatalogInv, NodesListed, ReplicasAddUp,
                          FunctionsListed, ExecTimeTracked
<1>7. sends' \in [Node -> SUBSET Send]
  BY DEF IInv, TypeOK, updatePressure, Send
<1> QED
  BY <1>1, <1>3, <1>4, <1>6, <1>7, RequestStep
  DEF IInv, TypeOK, updatePressure, c

-----------------------------------------------------------------------------
(* The theorems.                                                           *)

\* Every step preserves the inductive invariant.
LEMMA NextIInv == IInv /\ [Next]_vars => IInv'
<1> SUFFICES ASSUME IInv, [Next]_vars PROVE IInv'
  OBVIOUS
<1>1. ASSUME NEW n \in Node, Crash(n) PROVE IInv'
  <2>1. count' \in Counter /\ Exit(n)
    BY <1>1, CounterType DEF Crash, IInv, TypeOK
  <2> QED
    BY <2>1, ExitIInv
<1>2. ASSUME NEW n \in Node, NEW m \in Node,
             SendStreamFails(n, m) \/ StreamReset(n, m) \/ subscribeLoopPanics(n, m)
      PROVE  IInv'
  <2>1. count' \in Counter /\ Exit(n)
    BY <1>2 DEF SendStreamFails, StreamReset, subscribeLoopPanics, IInv, TypeOK
  <2> QED
    BY <2>1, ExitIInv
<1>3. ASSUME NEW n \in Node, Local(n) PROVE IInv'
  BY <1>3, StartIInv, RegisterIInv, PublishReceiveIInv, PublishIInv DEF Local
<1>4. ASSUME NEW n \in Node, NEW m \in Node, Peer(n, m) PROVE IInv'
  BY <1>2, <1>4, staticDiscoveryIInv, ConnectIInv, NewEntryIInv,
     ConnectedIInv, HandlePeerFoundIInv, SendStreamIInv,
     streamAvailableFunctionsIInv, subscribeLoopIInv DEF Peer
<1>5. ASSUME NEW n \in Node, NEW f \in Function, Report(n, f) PROVE IInv'
  BY <1>5, ReportReadyIInv, ReportTimeoutIInv, DeleteFunctionIInv DEF Report
<1>6. ASSUME Environment PROVE IInv'
  BY <1>1, <1>2, <1>6, updatePressureIInv, ConnectIInv, GiveUpIInv, DeployIInv,
     ScaleDownIInv, DeleteIInv DEF Environment
<1>7. CASE UNCHANGED vars
  BY <1>7 DEF vars, catalogVars, peerVars, startVars, netVars, IInv, TypeOK, DownIsIdle,
              NoSelf, ConnSymmetric, ConnectedKnown, JoinedKnown, RoomOwnerKnown
<1> QED
  BY <1>3, <1>4, <1>5, <1>6, <1>7 DEF Next

\* The invariant holds in every behaviour.
THEOREM Invariance == Spec => []IInv
<1>1. Init => IInv
  BY InitIInv
<1>2. IInv /\ [Next]_vars => IInv'
  BY NextIInv
<1> QED
  BY <1>1, <1>2, PTL DEF Spec

\* State and messages keep their types, whatever nodes, handlers and network
\* do.
THEOREM TypeCorrect == Spec => []TypeOK
<1>1. IInv => TypeOK
  BY DEF IInv
<1> QED
  BY <1>1, Invariance, PTL

\* On every node the Replicas of the FunctionCatalog are the sum of its views.
THEOREM AccountingHolds == Spec => []ReplicaAccounting
<1>1. IInv => ReplicaAccounting
  <2> SUFFICES ASSUME IInv, NEW n \in Node PROVE ReplicasAddUp(catalog[n])
    BY DEF ReplicaAccounting
  <2>1. CASE up[n]
    BY <2>1 DEF IInv, CatalogInv
  <2>2. CASE ~up[n]
    <3>1. catalog[n].functions = NoFunctions
      BY <2>2 DEF IInv, DownIsIdle, NewCatalog
    <3> QED
      BY <3>1 DEF ReplicasAddUp, NoFunctions
  <2> QED
    BY <2>1, <2>2
<1> QED
  BY <1>1, Invariance, PTL

\* Every function a node reports, or knows to run somewhere, is in its
\* FunctionCatalog.
THEOREM ClosedHolds == Spec => []CatalogClosed
<1>1. IInv => CatalogClosed
  <2> SUFFICES ASSUME IInv, NEW n \in Node PROVE FunctionsListed(catalog[n], n)
    BY DEF CatalogClosed
  <2>1. CASE up[n]
    BY <2>1 DEF IInv, CatalogInv
  <2>2. CASE ~up[n]
    <3>1. catalog[n].avail = [m \in Node |-> NoFunctions]
      BY <2>2 DEF IInv, DownIsIdle, NewCatalog
    <3> QED
      BY <3>1 DEF FunctionsListed, NoFunctions, NoEntry
  <2> QED
    BY <2>1, <2>2
<1> QED
  BY <1>1, Invariance, PTL

\* Every node known to run a function has an execution-time entry for it.
THEOREM SchedulerHolds == Spec => []SchedulerReady
<1>1. IInv => SchedulerReady
  <2> SUFFICES ASSUME IInv, NEW n \in Node PROVE ExecTimeTracked(catalog[n])
    BY DEF SchedulerReady
  <2>1. CASE up[n]
    BY <2>1 DEF IInv, CatalogInv
  <2>2. CASE ~up[n]
    <3>1. catalog[n].avail = [m \in Node |-> NoFunctions]
      BY <2>2 DEF IInv, DownIsIdle, NewCatalog
    <3> QED
      BY <3>1 DEF ExecTimeTracked, NoFunctions, NoEntry
  <2> QED
    BY <2>1, <2>2
<1> QED
  BY <1>1, Invariance, PTL

\* With any number of nodes, a message waits for a subscriber without an
\* entry of the room's owner only after a connection accepted before the
\* notifiee was registered, or when a third node relayed it.
THEOREM RoomOwnerHolds == Spec => []RoomOwnerKnown
<1>1. IInv => RoomOwnerKnown
  BY DEF IInv
<1> QED
  BY <1>1, Invariance, PTL

-----------------------------------------------------------------------------
(* Messages in a subscription.                                             *)

LEMMA RangeOf ==
    ASSUME NEW S, NEW s \in Seq(S)
    PROVE  Range(s) = {s[i] : i \in 1 .. Len(s)}
BY DEF Range

\* A message is put in the buffer.
LEMMA RangeAppend ==
    ASSUME NEW S, NEW s \in Seq(S), NEW x \in S
    PROVE  Range(Append(s, x)) = Range(s) \cup {x}
<1>1. /\ Append(s, x) \in Seq(S) /\ Len(s) \in Nat
      /\ Len(Append(s, x)) = Len(s) + 1
      /\ \A i \in 1 .. Len(s) : Append(s, x)[i] = s[i]
      /\ Append(s, x)[Len(s) + 1] = x
  OBVIOUS
<1>2. 1 .. Len(s) + 1 = (1 .. Len(s)) \cup {Len(s) + 1}
  BY <1>1
<1>3. Range(Append(s, x)) = {Append(s, x)[i] : i \in 1 .. Len(s) + 1}
  BY <1>1, RangeOf
<1>4. Range(s) = {s[i] : i \in 1 .. Len(s)}
  BY RangeOf
<1> QED
  BY <1>1, <1>2, <1>3, <1>4

LEMMA ConcatOf ==
    ASSUME NEW S, NEW a \in Seq(S), NEW b \in Seq(S)
    PROVE  /\ a \o b \in Seq(S)
           /\ Len(a \o b) = Len(a) + Len(b)
           /\ \A j \in 1 .. Len(a) : (a \o b)[j] = a[j]
           /\ \A j \in 1 .. Len(b) : (a \o b)[Len(a) + j] = b[j]
OBVIOUS

\* A message is taken out: what is left are the others, and possibly it again.
LEMMA RangeRemoveAt ==
    ASSUME NEW S, NEW s \in Seq(S), NEW i \in 1 .. Len(s)
    PROVE  Range(RemoveAt(s, i)) \cup {s[i]} = Range(s)
<1> DEFINE a == SubSeq(s, 1, i - 1)
           b == SubSeq(s, i + 1, Len(s))
           t == RemoveAt(s, i)
<1>1. Len(s) \in Nat /\ i \in Nat \ {0} /\ i <= Len(s)
  OBVIOUS
<1>2. PICK k \in Nat : i = k + 1
  <2>1. i - 1 \in Nat /\ i = (i - 1) + 1
    BY <1>1
  <2> QED
    BY <2>1
<1>3. PICK l \in Nat : Len(s) = i + l
  <2>1. Len(s) - i \in Nat /\ Len(s) = i + (Len(s) - i)
    BY <1>1
  <2> QED
    BY <2>1
<1>4. a \in Seq(S) /\ Len(a) = k /\ \A j \in 1 .. k : a[j] = s[j]
  <2>1. a = SubSeq(s, 1, k)
    BY <1>2
  <2> QED
    BY <1>1, <1>2, <2>1
<1>5. b \in Seq(S) /\ Len(b) = l /\ \A j \in 1 .. l : b[j] = s[i + j]
  BY <1>1, <1>2, <1>3
<1>6. t = a \o b
  BY DEF RemoveAt
<1> HIDE DEF a, b, t
<1>7. /\ t \in Seq(S) /\ Len(t) = k + l
      /\ \A j \in 1 .. k : t[j] = s[j]
      /\ \A j \in 1 .. l : t[k + j] = s[i + j]
  <2>1. /\ t \in Seq(S) /\ Len(t) = Len(a) + Len(b)
        /\ \A j \in 1 .. Len(a) : t[j] = a[j]
        /\ \A j \in 1 .. Len(b) : t[Len(a) + j] = b[j]
    <3>1. a \in Seq(S) /\ b \in Seq(S)
      BY <1>4, <1>5
    <3> QED
      BY <1>6, <3>1, ConcatOf
  <2> QED
    BY <1>4, <1>5, <2>1
<1>8. Range(t) = {t[j] : j \in 1 .. k + l} /\ Range(s) = {s[j] : j \in 1 .. Len(s)}
  BY <1>7, RangeOf
<1>9. ASSUME NEW j \in 1 .. k + l
      PROVE  \E h \in 1 .. Len(s) : t[j] = s[h]
  <2>1. CASE j <= k
    <3>1. j \in 1 .. k /\ j \in 1 .. Len(s)
      BY <1>2, <1>3, <2>1
    <3> QED
      BY <1>7, <3>1
  <2>2. CASE j > k
    <3>1. PICK h \in 1 .. l : j = k + h
      <4>1. j - k \in 1 .. l /\ j = k + (j - k)
        BY <2>2
      <4> QED
        BY <4>1
    <3>2. i + h \in 1 .. Len(s)
      BY <1>1, <1>3
    <3> QED
      BY <1>7, <3>1, <3>2
  <2> QED
    BY <2>1, <2>2
<1>10. ASSUME NEW h \in 1 .. Len(s), h # i
       PROVE  \E j \in 1 .. k + l : s[h] = t[j]
  <2>1. CASE h < i
    <3>1. h \in 1 .. k /\ h \in 1 .. k + l
      BY <1>2, <2>1
    <3> QED
      BY <1>7, <3>1
  <2>2. CASE h > i
    <3>1. PICK j \in 1 .. l : h = i + j
      <4>1. h - i \in 1 .. l /\ h = i + (h - i)
        BY <1>1, <1>3, <2>2
      <4> QED
        BY <4>1
    <3>2. k + j \in 1 .. k + l
      OBVIOUS
    <3> QED
      BY <1>7, <3>1, <3>2
  <2> QED
    BY <1>1, <1>10, <2>1, <2>2
<1>11. Range(t) \cup {s[i]} = Range(s)
  BY <1>8, <1>9, <1>10
<1> QED
  BY <1>11 DEF t

-----------------------------------------------------------------------------
(* What the catalog's operations leave of the views of other nodes.        *)

\* From c to d the catalog of n keeps what it knows of the others.
OthersKept(c, d, n) ==
    \A m \in Node \ {n} :
        d.avail[m] = c.avail[m] /\ d.overload[m] = c.overload[m]

LEMMA AddKeeps ==
    ASSUME NEW c \in CatalogType, NEW n \in Node, NEW f \in Function,
           NEW replicas \in Count
    PROVE  OthersKept(c, AddAvailableFunctions(c, n, f, replicas), n)
<1> DEFINE b == addAvailableFunctions(c, n, f, replicas)
<1>1. b \in CatalogType /\ OthersKept(c, b, n)
  BY DEF addAvailableFunctions, CatalogType, AvailableReplicas, OthersKept
<1> HIDE DEF b
<1>2. /\ updatetReplicasWithFunctionName(b, f).avail = b.avail
      /\ updatetReplicasWithFunctionName(b, f).overload = b.overload
  BY <1>1, RecountOne
<1> QED
  BY <1>1, <1>2 DEF AddAvailableFunctions, b, OthersKept

LEMMA UpdateKeeps ==
    ASSUME NEW c \in CatalogType, NEW n \in Node, NEW f \in Function
    PROVE  OthersKept(c, UpdateAvailableFunctions(c, n, f, 0), n)
<1> DEFINE b == updateAvailableFunctions(c, n, f, 0)
<1>1. 0 \in Count
  BY MaxAvailableAssumption DEF Count
<1>2. b \in CatalogType /\ OthersKept(c, b, n)
  BY <1>1 DEF updateAvailableFunctions, CatalogType, AvailableReplicas, OthersKept
<1> HIDE DEF b
<1>3. /\ updatetReplicasWithFunctionName(b, f).avail = b.avail
      /\ updatetReplicasWithFunctionName(b, f).overload = b.overload
  BY <1>2, RecountOne
<1> QED
  BY <1>2, <1>3 DEF UpdateAvailableFunctions, b, OthersKept

LEMMA DeleteKeeps ==
    ASSUME NEW c \in CatalogType, NEW n \in Node, NEW f \in Function
    PROVE  OthersKept(c, DeleteAvailableFunctions(c, n, f), n)
<1> DEFINE b == deleteAvailableFunctions(c, n, f)
           e == updatetReplicasWithFunctionName(b, f)
<1>1. b \in CatalogType /\ OthersKept(c, b, n)
  BY DEF deleteAvailableFunctions, CatalogType, AvailableReplicas, OthersKept
<1> HIDE DEF b
<1>2. e \in CatalogType /\ e.avail = b.avail /\ e.overload = b.overload
  BY <1>1, RecountOne
<1> HIDE DEF e
<1>3. \/ DeleteAvailableFunctions(c, n, f) = e
      \/ DeleteAvailableFunctions(c, n, f) = [e EXCEPT !.functions[f] = NoEntry]
  BY DEF DeleteAvailableFunctions, e, b
<1>4. /\ DeleteAvailableFunctions(c, n, f).avail = e.avail
      /\ DeleteAvailableFunctions(c, n, f).overload = e.overload
  BY <1>2, <1>3 DEF CatalogType
<1> QED
  BY <1>1, <1>2, <1>4 DEF OthersKept

LEMMA initSelfKnowsNothing ==
    ASSUME NEW n \in Node, NEW containers \in SUBSET Function
    PROVE  OthersKept(NewCatalog, initSelfCatagory(n, containers), n)
BY DEF initSelfCatagory, NewNodeCatalogEntry, NewCatalog, OthersKept

\* Unpacking a message replaces what is known of its sender, and nothing else.
LEMMA unpackReplaces ==
    ASSUME NEW c \in CatalogType, NEW peer \in Node, NEW msg \in NodeInfoMsg
    PROVE  LET d == unpackNodeInfoMsg(c, msg, peer)
           IN  /\ d.avail = [c.avail EXCEPT ![peer] = msg.avail]
               /\ d.overload = [c.overload EXCEPT ![peer] = msg.overload]
<1> DEFINE b == [c EXCEPT
                    !.overload[peer] = msg.overload,
                    !.execTime[peer] = @ \cup {f \in Function : msg.avail[f] > 0},
                    !.avail[peer]    = msg.avail,
                    !.functions      =
                        [f \in Function |->
                            IF @[f] = NoEntry /\ f \in Named(msg) THEN 0 ELSE @[f]]]
<1>1. /\ b.avail = [c.avail EXCEPT ![peer] = msg.avail]
      /\ b.overload = [c.overload EXCEPT ![peer] = msg.overload]
      /\ b \in CatalogType
  BY DEF CatalogType, NodeInfoMsg
<1>2. unpackNodeInfoMsg(c, msg, peer) = updatetReplicas(b)
  BY DEF unpackNodeInfoMsg
<1> HIDE DEF b
<1>3. updatetReplicas(b).avail = b.avail /\ updatetReplicas(b).overload = b.overload
  BY <1>1, RecountAll
<1> QED
  BY <1>1, <1>2, <1>3

-----------------------------------------------------------------------------
(* Steps of PeerViews.                                                     *)

\* A node that runs is not silent, and states what it would pack.
LEMMA UpSpeaks ==
    ASSUME TypeOK, NEW n \in Node, up[n]
    PROVE  /\ owns[n] = packNodeInfoMsg(catalog[n], n)
           /\ owns[n] \in NodeInfoMsg
           /\ owns[n] # NotUp
<1>1. owns[n] = packNodeInfoMsg(catalog[n], n)
  BY DEF owns, Own
<1>2. packNodeInfoMsg(catalog[n], n) \in NodeInfoMsg
  BY packNodeInfoMsgType DEF TypeOK
<1>3. NotUp \notin NodeInfoMsg
  <2>1. \A msg \in NodeInfoMsg : DOMAIN msg = {"avail", "overload"}
    BY DEF NodeInfoMsg
  <2>2. DOMAIN NotUp = {"avail", "overload", "up"}
    BY DEF NotUp
  <2> QED
    BY <2>1, <2>2
<1> QED
  BY <1>1, <1>2, <1>3

\* Nothing that PeerViews speaks of changes.
LEMMA StutterStep ==
    ASSUME TypeOK, UNCHANGED <<up, catalog, netVars>>
    PROVE  UNCHANGED Views!vars
BY DEF owns, Own, views, View, tolds, netVars, Views!vars

\* A node starts or changes its own entry.
LEMMA ChangeStep ==
    ASSUME TypeOK, TypeOK', NEW n \in Node,
           up' = [up EXCEPT ![n] = TRUE],
           NEW d, catalog' = [catalog EXCEPT ![n] = d],
           OthersKept(catalog[n], d, n),
           UNCHANGED netVars
    PROVE  Views!Change(n)
<1>1. \A k \in Node : /\ up'[k] = IF k = n THEN TRUE ELSE up[k]
                      /\ catalog'[k] = IF k = n THEN d ELSE catalog[k]
  BY DEF TypeOK
<1>2. d \in CatalogType
  BY <1>1 DEF TypeOK
<1>3. packNodeInfoMsg(d, n) \in NodeInfoMsg
  BY <1>2, packNodeInfoMsgType
<1>4. owns' = [owns EXCEPT ![n] = packNodeInfoMsg(d, n)]
  <2>1. ASSUME NEW k \in Node
        PROVE  Own(k)' = IF k = n THEN packNodeInfoMsg(d, n) ELSE Own(k)
    <3>1. CASE k = n
      <4>1. up'[n] /\ catalog'[n] = d
        BY <1>1
      <4> QED
        BY <3>1, <4>1 DEF Own, packNodeInfoMsg
    <3>2. CASE k # n
      <4>1. up'[k] = up[k] /\ catalog'[k] = catalog[k]
        BY <1>1, <3>2
      <4> QED
        BY <3>2, <4>1 DEF Own, packNodeInfoMsg
    <3> QED
      BY <3>1, <3>2
  <2>2. owns' = [k \in Node |-> IF k = n THEN packNodeInfoMsg(d, n) ELSE Own(k)]
    BY <2>1 DEF owns
  <2> QED
    BY <2>2 DEF owns
<1>5. views' = views
  <2>1. \A k, m \in Node : View(k, m)' = View(k, m)
    BY <1>1 DEF View, OthersKept
  <2> QED
    BY <2>1 DEF views
<1>6. tolds' = tolds
  BY DEF tolds, netVars
<1> QED
  BY <1>3, <1>4, <1>5, <1>6 DEF Views!Change

\* A node puts what it states on its way to some others.
LEMMA TellStep ==
    ASSUME TypeOK, NEW n \in Node, up[n], NEW M \in SUBSET (Node \ {n}),
           UNCHANGED <<up, catalog>>,
           \A k, m \in Node :
               stream'[k][m] \cup Range(topic'[k][m]) =
                   (stream[k][m] \cup Range(topic[k][m])) \cup
                       IF k = n /\ m \in M THEN {packNodeInfoMsg(catalog[n], n)} ELSE {}
    PROVE  Views!Tell(n)
<1>1. owns[n] = packNodeInfoMsg(catalog[n], n) /\ owns[n] # NotUp
  BY UpSpeaks
<1>2. owns' = owns /\ views' = views
  BY DEF owns, Own, views, View
<1>3. tolds' = [tolds EXCEPT ![n] =
                   [m \in Node |-> IF m \in M THEN @[m] \cup {owns[n]} ELSE @[m]]]
  <2>1. tolds' = [k \in Node |-> [m \in Node |->
                    tolds[k][m] \cup IF k = n /\ m \in M THEN {owns[n]} ELSE {}]]
    BY <1>1 DEF tolds
  <2>2. \A k, m \in Node : (k # n \/ m \notin M) =>
            (tolds[k][m] \cup IF k = n /\ m \in M THEN {owns[n]} ELSE {}) = tolds[k][m]
    OBVIOUS
  <2>3. \A k \in Node : k # n => tolds'[k] = tolds[k]
    BY <2>1, <2>2 DEF tolds
  <2>4. tolds'[n] = [m \in Node |-> IF m \in M THEN tolds[n][m] \cup {owns[n]}
                                               ELSE tolds[n][m]]
    BY <2>1, <2>2
  <2> QED
    BY <2>3, <2>4 DEF tolds
<1> QED
  BY <1>1, <1>2, <1>3 DEF Views!Tell

\* Two tables of nodes that differ in one place.
LEMMA OnePlace ==
    ASSUME NEW f, NEW g, NEW m \in Node, NEW n \in Node, NEW w,
           f = [k \in Node |-> [l \in Node |-> f[k][l]]],
           g = [k \in Node |-> [l \in Node |-> g[k][l]]],
           \A k, l \in Node : k # m \/ l # n => g[k][l] = f[k][l],
           g[m][n] = w
    PROVE  g = [f EXCEPT ![m][n] = w]
<1>1. \A k \in Node : /\ f[k] = [l \in Node |-> f[k][l]]
                      /\ g[k] = [l \in Node |-> g[k][l]]
  OBVIOUS
<1>2. g[m] = [f[m] EXCEPT ![n] = w]
  BY <1>1
<1>3. \A k \in Node : k # m => g[k] = f[k]
  BY <1>1
<1>4. g = [k \in Node |-> g[k]] /\ f = [k \in Node |-> f[k]]
  OBVIOUS
<1>5. [f EXCEPT ![m] = [f[m] EXCEPT ![n] = w]] =
          [k \in Node |-> IF k = m THEN [f[m] EXCEPT ![n] = w] ELSE f[k]]
  BY <1>4
<1>6. g = [k \in Node |-> IF k = m THEN [f[m] EXCEPT ![n] = w] ELSE f[k]]
  BY <1>2, <1>3, <1>4
<1> QED
  BY <1>5, <1>6

\* A node learns a statement of another.
LEMMA LearnStep ==
    ASSUME TypeOK, NEW n \in Node, NEW m \in Node \ {n}, up[n],
           NEW msg \in NodeInfoMsg, NEW d,
           UNCHANGED up,
           catalog' = [catalog EXCEPT ![n] = d],
           d.avail = [catalog[n].avail EXCEPT ![m] = msg.avail],
           d.overload = [catalog[n].overload EXCEPT ![m] = msg.overload],
           msg \in tolds[m][n],
           \A k, l \in Node : k # m \/ l # n => tolds'[k][l] = tolds[k][l],
           tolds'[m][n] \cup {msg} = tolds[m][n]
    PROVE  Views!Learn(n, m)
<1>1. owns[n] # NotUp
  BY UpSpeaks
<1>2. /\ catalog[n] \in CatalogType
      /\ \A k \in Node : catalog'[k] = IF k = n THEN d ELSE catalog[k]
  BY DEF TypeOK
<1>3. /\ \A k \in Node : d.avail[k] = IF k = m THEN msg.avail
                                              ELSE catalog[n].avail[k]
      /\ \A k \in Node : d.overload[k] = IF k = m THEN msg.overload
                                                 ELSE catalog[n].overload[k]
  BY <1>2 DEF CatalogType
<1>4. owns' = owns
  <2>1. packNodeInfoMsg(d, n) = packNodeInfoMsg(catalog[n], n)
    BY <1>3 DEF packNodeInfoMsg
  <2> QED
    BY <1>2, <2>1 DEF owns, Own
<1>5. views' = [views EXCEPT ![n][m] = msg]
  <2>1. msg = [avail |-> msg.avail, overload |-> msg.overload]
    BY DEF NodeInfoMsg
  <2>2. ASSUME NEW k \in Node, NEW l \in Node
        PROVE  View(k, l)' = IF k = n /\ l = m THEN msg ELSE View(k, l)
    <3>1. CASE k # n
      BY <1>2, <3>1 DEF View
    <3>2. CASE k = n /\ l = m
      <4>1. /\ catalog'[k].avail[l] = msg.avail
            /\ catalog'[k].overload[l] = msg.overload
        <5>1. catalog'[k] = d
          BY <1>2, <3>2
        <5>2. d.avail[l] = msg.avail /\ d.overload[l] = msg.overload
          BY <1>3, <3>2
        <5> QED
          BY <5>1, <5>2
      <4> QED
        BY <2>1, <3>2, <4>1 DEF View
    <3>3. CASE k = n /\ l # m
      <4>1. /\ catalog'[k].avail[l] = catalog[k].avail[l]
            /\ catalog'[k].overload[l] = catalog[k].overload[l]
        <5>1. catalog'[k] = d
          BY <1>2, <3>3
        <5>2. /\ d.avail[l] = catalog[n].avail[l]
              /\ d.overload[l] = catalog[n].overload[l]
          BY <1>3, <3>3
        <5> QED
          BY <5>1, <5>2, <3>3
      <4> QED
        BY <3>3, <4>1 DEF View
    <3> QED
      BY <3>1, <3>2, <3>3
  <2>3. views' = [k \in Node |-> [l \in Node |->
                    IF k = n /\ l = m THEN msg ELSE View(k, l)]]
    BY <2>2 DEF views
  <2> QED
    BY <2>3 DEF views
<1>6. tolds' = tolds \/ tolds' = [tolds EXCEPT ![m][n] = @ \ {msg}]
  <2>1. /\ tolds' = [k \in Node |-> [l \in Node |-> tolds'[k][l]]]
        /\ tolds = [k \in Node |-> [l \in Node |-> tolds[k][l]]]
    BY DEF tolds
  <2>2. CASE msg \in tolds'[m][n]
    <3>1. tolds'[m][n] = tolds[m][n]
      BY <2>2
    <3>2. \A k, l \in Node : tolds'[k][l] = tolds[k][l]
      BY <3>1
    <3> QED
      BY <2>1, <3>2
  <2>3. CASE msg \notin tolds'[m][n]
    <3>1. tolds'[m][n] = tolds[m][n] \ {msg}
      BY <2>3
    <3> QED
      BY <2>1, <3>1, OnePlace
  <2> QED
    BY <2>2, <2>3
<1> QED
  BY <1>1, <1>4, <1>5, <1>6 DEF Views!Learn

\* A node ends.
LEMMA StopStep ==
    ASSUME TypeOK, NEW n \in Node, Exit(n)
    PROVE  Views!Stop(n)
<1>1. \A k \in Node : /\ up'[k] = IF k = n THEN FALSE ELSE up[k]
                      /\ catalog'[k] = IF k = n THEN NewCatalog ELSE catalog[k]
  BY DEF TypeOK, Exit
<1>2. owns' = [owns EXCEPT ![n] = NotUp]
  <2>1. ASSUME NEW k \in Node
        PROVE  Own(k)' = IF k = n THEN NotUp ELSE Own(k)
    <3>1. CASE k = n
      BY <1>1, <3>1 DEF Own
    <3>2. CASE k # n
      <4>1. up'[k] = up[k] /\ catalog'[k] = catalog[k]
        BY <1>1, <3>2
      <4> QED
        BY <3>2, <4>1 DEF Own, packNodeInfoMsg
    <3> QED
      BY <3>1, <3>2
  <2>2. owns' = [k \in Node |-> IF k = n THEN NotUp ELSE Own(k)]
    BY <2>1 DEF owns
  <2> QED
    BY <2>2 DEF owns
<1>3. views' = [views EXCEPT ![n] = [m \in Node |-> NothingKnown]]
  <2>1. ASSUME NEW k \in Node, NEW m \in Node
        PROVE  View(k, m)' = IF k = n THEN NothingKnown ELSE View(k, m)
    <3>1. CASE k = n
      <4>1. catalog'[n] = NewCatalog
        BY <1>1
      <4>2. NewCatalog.avail[m] = NoFunctions /\ NewCatalog.overload[m] = FALSE
        BY DEF NewCatalog
      <4> QED
        BY <3>1, <4>1, <4>2 DEF View, NothingKnown
    <3>2. CASE k # n
      <4>1. catalog'[k] = catalog[k]
        BY <1>1, <3>2
      <4> QED
        BY <3>2, <4>1 DEF View
    <3> QED
      BY <3>1, <3>2
  <2>2. views' = [k \in Node |-> IF k = n THEN [m \in Node |-> NothingKnown]
                                          ELSE [m \in Node |-> View(k, m)]]
    BY <2>1 DEF views
  <2> QED
    BY <2>2 DEF views
<1>4. tolds' = [k \in Node |-> [tolds[k] EXCEPT ![n] = {}]]
  <2>1. Range(<<>>) = {}
    BY DEF Range
  <2>2. ASSUME NEW k \in Node, NEW m \in Node
        PROVE  stream'[k][m] \cup Range(topic'[k][m]) =
                   IF m = n THEN {} ELSE stream[k][m] \cup Range(topic[k][m])
    <3>1. /\ stream'[k][m] = IF m = n THEN {} ELSE stream[k][m]
          /\ topic'[k][m] = IF m = n THEN <<>> ELSE topic[k][m]
      BY DEF TypeOK, Exit
    <3> QED
      BY <2>1, <3>1
  <2>3. tolds' = [k \in Node |-> [m \in Node |->
                    IF m = n THEN {} ELSE stream[k][m] \cup Range(topic[k][m])]]
    BY <2>2 DEF tolds
  <2> QED
    BY <2>3 DEF tolds
<1> QED
  BY <1>2, <1>3, <1>4 DEF Views!Stop

-----------------------------------------------------------------------------
(* The actions that change a catalog or a message.                         *)

\* A step of a running node on its own entry.
LEMMA OwnStep ==
    ASSUME IInv, IInv', NEW n \in Node, up[n], UNCHANGED <<up, netVars>>,
           NEW d, catalog' = [catalog EXCEPT ![n] = d],
           OthersKept(catalog[n], d, n)
    PROVE  Views!Change(n)
<1>1. up' = [up EXCEPT ![n] = TRUE]
  BY DEF IInv, TypeOK
<1> QED
  BY <1>1, ChangeStep DEF IInv

LEMMA StartViews ==
    ASSUME IInv, IInv', NEW n \in Node, Start(n)
    PROVE  Views!Change(n)
<1> DEFINE d == initSelfCatagory(n, container[n])
<1>1. catalog[n] = NewCatalog
  BY DEF Start, IInv, DownIsIdle
<1>2. container[n] \in SUBSET Function
  BY DEF IInv, TypeOK
<1>3. OthersKept(catalog[n], d, n)
  BY <1>1, <1>2, initSelfKnowsNothing
<1>4. /\ up' = [up EXCEPT ![n] = TRUE]
      /\ catalog' = [catalog EXCEPT ![n] = d]
      /\ UNCHANGED netVars
  BY DEF Start
<1> HIDE DEF d
<1> QED
  BY <1>3, <1>4, ChangeStep DEF IInv

LEMMA ReportReadyViews ==
    ASSUME IInv, IInv', NEW n \in Node, NEW f \in Function, ReportReady(n, f)
    PROVE  Views!Change(n)
<1> DEFINE d == AddAvailableFunctions(catalog[n], n, f, 1)
<1>1. up[n] /\ catalog[n] \in CatalogType /\ 1 \in Count
  BY MaxAvailableAssumption DEF ReportReady, IInv, DownIsIdle, TypeOK, Count
<1>2. OthersKept(catalog[n], d, n)
  BY <1>1, AddKeeps
<1>3. catalog' = [catalog EXCEPT ![n] = d] /\ UNCHANGED <<up, netVars>>
  BY DEF ReportReady
<1> HIDE DEF d
<1> QED
  BY <1>1, <1>2, <1>3, OwnStep

LEMMA ScaleDownViews ==
    ASSUME IInv, IInv', NEW n \in Node, NEW f \in Function, ScaleDown(n, f)
    PROVE  Views!Change(n)
<1> DEFINE d == UpdateAvailableFunctions(catalog[n], n, f, 0)
<1>1. up[n] /\ catalog[n] \in CatalogType
  BY DEF ScaleDown, Request, Started, IInv, DownIsIdle, TypeOK
<1>2. OthersKept(catalog[n], d, n)
  BY <1>1, UpdateKeeps
<1>3. catalog' = [catalog EXCEPT ![n] = d] /\ UNCHANGED <<up, netVars>>
  BY DEF ScaleDown
<1> HIDE DEF d
<1> QED
  BY <1>1, <1>2, <1>3, OwnStep

LEMMA DeleteViews ==
    ASSUME IInv, IInv', NEW n \in Node, NEW f \in Function, Delete(n, f)
    PROVE  Views!Change(n)
<1> DEFINE d == DeleteAvailableFunctions(catalog[n], n, f)
<1>1. up[n] /\ catalog[n] \in CatalogType
  BY DEF Delete, Request, Started, IInv, DownIsIdle, TypeOK
<1>2. OthersKept(catalog[n], d, n)
  BY <1>1, DeleteKeeps
<1>3. catalog' = [catalog EXCEPT ![n] = d] /\ UNCHANGED <<up, netVars>>
  BY DEF Delete
<1> HIDE DEF d
<1> QED
  BY <1>1, <1>2, <1>3, OwnStep

LEMMA updatePressureViews ==
    ASSUME IInv, IInv', NEW n \in Node, updatePressure(n)
    PROVE  Views!Change(n)
<1> DEFINE d == [catalog[n] EXCEPT !.overload[n] = ~@]
<1>1. up[n] /\ catalog[n] \in CatalogType
  BY DEF updatePressure, Started, IInv, DownIsIdle, TypeOK
<1>2. OthersKept(catalog[n], d, n)
  BY <1>1 DEF OthersKept, CatalogType
<1>3. catalog' = [catalog EXCEPT ![n] = d] /\ UNCHANGED <<up, netVars>>
  BY DEF updatePressure
<1> HIDE DEF d
<1> QED
  BY <1>1, <1>2, <1>3, OwnStep

\* A new entry is empty: nothing is known that was not known before.
LEMMA NewEntryViews ==
    ASSUME IInv, NEW n \in Node, NEW m \in Node, NewEntry(n, m)
    PROVE  UNCHANGED Views!vars
<1> DEFINE d == NewNodeCatalogEntry(catalog[n], m)
<1>1. d.avail = catalog[n].avail /\ d.overload = catalog[n].overload
  BY DEF NewNodeCatalogEntry, IInv, TypeOK, CatalogType
<1>2. catalog' = [catalog EXCEPT ![n] = d] /\ UNCHANGED <<up, netVars>>
  BY DEF NewEntry
<1> HIDE DEF d
<1>3. ASSUME NEW k \in Node
      PROVE  /\ catalog'[k].avail = catalog[k].avail
             /\ catalog'[k].overload = catalog[k].overload
  <2>1. catalog'[k] = IF k = n THEN d ELSE catalog[k]
    BY <1>2 DEF IInv, TypeOK
  <2> QED
    BY <1>1, <2>1
<1>4. \A k \in Node : Own(k)' = Own(k)
  BY <1>2, <1>3 DEF Own, packNodeInfoMsg
<1>5. \A k, l \in Node : View(k, l)' = View(k, l)
  BY <1>3 DEF View
<1> QED
  BY <1>2, <1>4, <1>5 DEF owns, views, tolds, netVars, Views!vars

\* The initial stream.
LEMMA SendStreamViews ==
    ASSUME IInv, NEW n \in Node, NEW m \in Node, SendStream(n, m)
    PROVE  Views!Tell(n)
<1>1. up[n] /\ m # n
  BY DEF SendStream, Talks, IInv, DownIsIdle, NoSelf
<1>2. UNCHANGED <<up, catalog>>
  BY DEF SendStream, catalogVars
<1>3. ASSUME NEW k \in Node, NEW l \in Node
      PROVE  stream'[k][l] \cup Range(topic'[k][l]) =
                 (stream[k][l] \cup Range(topic[k][l])) \cup
                     IF k = n /\ l \in {m} THEN {packNodeInfoMsg(catalog[n], n)} ELSE {}
  <2>1. /\ topic' = topic
        /\ stream'[k][l] = stream[k][l] \cup
               IF k = n /\ l = m THEN {packNodeInfoMsg(catalog[n], n)} ELSE {}
    BY DEF SendStream, IInv, TypeOK
  <2> QED
    BY <2>1
<1>4. {m} \in SUBSET (Node \ {n}) /\ TypeOK
  BY <1>1 DEF IInv
<1> QED
  BY <1>1, <1>2, <1>3, <1>4, TellStep

\* A message of the room, to the subscribers that have room for it.
LEMMA PublishViews ==
    ASSUME IInv, NEW n \in Node, Publish(n)
    PROVE  Views!Tell(n)
<1>0. PICK relayed \in SUBSET Relayed(n) : Deliver(n, Direct(n) \cup relayed)
  BY DEF Publish
<1> DEFINE M == Direct(n) \cup relayed
           msg == packNodeInfoMsg(catalog[n], n)
<1>1. up[n]
  BY DEF Publish, IInv, DownIsIdle
<1>2. M \in SUBSET (Node \ {n})
  BY DEF Direct, Relayed, IInv, NoSelf
<1>3. UNCHANGED <<up, catalog, stream>>
  BY DEF Publish
<1>4. msg \in NodeInfoMsg
  BY packNodeInfoMsgType DEF IInv, TypeOK
<1>5. ASSUME NEW k \in Node, NEW l \in Node
      PROVE  topic'[k][l] = IF k = n /\ l \in M THEN Append(topic[k][l], msg)
                                                ELSE topic[k][l]
  BY <1>0 DEF Deliver, IInv, TypeOK
<1> HIDE DEF M, msg
<1>6. ASSUME NEW k \in Node, NEW l \in Node
      PROVE  stream'[k][l] \cup Range(topic'[k][l]) =
                 (stream[k][l] \cup Range(topic[k][l])) \cup
                     IF k = n /\ l \in M THEN {msg} ELSE {}
  <2>1. topic[k][l] \in Seq(NodeInfoMsg)
    BY DEF IInv, TypeOK
  <2>2. CASE k = n /\ l \in M
    <3>1. Range(topic'[k][l]) = Range(topic[k][l]) \cup {msg}
      BY <1>4, <1>5, <2>1, <2>2, RangeAppend
    <3> QED
      BY <1>3, <2>2, <3>1
  <2>3. CASE ~(k = n /\ l \in M)
    <3>1. topic'[k][l] = topic[k][l]
      BY <1>5, <2>3
    <3> QED
      BY <1>3, <2>3, <3>1
  <2> QED
    BY <2>2, <2>3
<1>7. \A k, l \in Node :
          stream'[k][l] \cup Range(topic'[k][l]) =
              (stream[k][l] \cup Range(topic[k][l])) \cup
                  IF k = n /\ l \in M THEN {packNodeInfoMsg(catalog[n], n)} ELSE {}
  BY <1>6 DEF msg
<1> QED
  BY <1>1, <1>2, <1>3, <1>7, TellStep DEF IInv

\* An initial stream is read: it leaves the streams, though the same message
\* may also be on its way in the room.
LEMMA streamViews ==
    ASSUME IInv, NEW n \in Node, NEW m \in Node, streamAvailableFunctions(n, m)
    PROVE  Views!Learn(n, m)
<1>1. PICK msg \in stream[m][n] :
        /\ stream' = [stream EXCEPT ![m][n] = @ \ {msg}]
        /\ catalog' = [catalog EXCEPT ![n] = unpackNodeInfoMsg(@, msg, m)]
  BY DEF streamAvailableFunctions
<1> DEFINE d == unpackNodeInfoMsg(catalog[n], msg, m)
<1>2. m # n /\ msg \in NodeInfoMsg /\ up[n] /\ UNCHANGED <<up, topic>>
  BY DEF streamAvailableFunctions, IInv, NoSelf, TypeOK
<1>3. catalog[n] \in CatalogType
  BY DEF IInv, TypeOK
<1>4. /\ d.avail = [catalog[n].avail EXCEPT ![m] = msg.avail]
      /\ d.overload = [catalog[n].overload EXCEPT ![m] = msg.overload]
  BY <1>2, <1>3, unpackReplaces
<1> HIDE DEF d
<1>5. catalog' = [catalog EXCEPT ![n] = d]
  BY <1>1 DEF d
<1>6. \A k, l \in Node :
          stream'[k][l] = IF k = m /\ l = n THEN stream[k][l] \ {msg}
                                            ELSE stream[k][l]
  BY <1>1 DEF IInv, TypeOK
<1>7. /\ msg \in tolds[m][n]
      /\ \A k, l \in Node : k # m \/ l # n => tolds'[k][l] = tolds[k][l]
      /\ tolds'[m][n] \cup {msg} = tolds[m][n]
  BY <1>2, <1>6 DEF tolds
<1>8. TypeOK /\ m \in Node \ {n} /\ up' = up
  BY <1>2 DEF IInv
<1> QED
  BY <1>2, <1>4, <1>5, <1>7, <1>8, LearnStep

\* A message of a room is read.
LEMMA subscribeViews ==
    ASSUME IInv, NEW n \in Node, NEW m \in Node, subscribeLoop(n, m)
    PROVE  Views!Learn(n, m)
<1>1. PICK i \in Deliverable(topic[m][n]) :
        /\ topic' = [topic EXCEPT ![m][n] = RemoveAt(@, i)]
        /\ catalog' = [catalog EXCEPT ![n] =
                           unpackNodeInfoMsg(@, topic[m][n][i], m)]
        /\ UNCHANGED <<up, stream>>
  BY DEF subscribeLoop
<1> DEFINE queue == topic[m][n]
           msg == queue[i]
           d == unpackNodeInfoMsg(catalog[n], msg, m)
<1>2. queue \in Seq(NodeInfoMsg)
  BY DEF IInv, TypeOK
<1>3. i \in 1 .. Len(queue)
  BY <1>2, DeliverableIndex
<1>4. queue # <<>> /\ msg \in NodeInfoMsg
  BY <1>2, <1>3
<1>5. m # n /\ up[n]
  BY <1>4 DEF IInv, NoSelf, DownIsIdle
<1>6. /\ d.avail = [catalog[n].avail EXCEPT ![m] = msg.avail]
      /\ d.overload = [catalog[n].overload EXCEPT ![m] = msg.overload]
  <2>1. catalog[n] \in CatalogType
    BY DEF IInv, TypeOK
  <2> HIDE DEF msg
  <2> QED
    BY <1>4, <2>1, unpackReplaces
<1> HIDE DEF d
<1>7. catalog' = [catalog EXCEPT ![n] = d]
  BY <1>1 DEF d
<1>8. \A k, l \in Node :
          topic'[k][l] = IF k = m /\ l = n THEN RemoveAt(queue, i) ELSE topic[k][l]
  BY <1>1 DEF IInv, TypeOK
<1>9. Range(RemoveAt(queue, i)) \cup {msg} = Range(queue)
  BY <1>2, <1>3, RangeRemoveAt
<1>10. /\ msg \in tolds[m][n]
       /\ \A k, l \in Node : k # m \/ l # n => tolds'[k][l] = tolds[k][l]
       /\ tolds'[m][n] \cup {msg} = tolds[m][n]
  <2>1. tolds[m][n] = stream[m][n] \cup Range(queue)
    BY DEF tolds
  <2>2. tolds'[m][n] = stream[m][n] \cup Range(RemoveAt(queue, i))
    BY <1>1, <1>8 DEF tolds
  <2>3. ASSUME NEW k \in Node, NEW l \in Node, k # m \/ l # n
        PROVE  tolds'[k][l] = tolds[k][l]
    <3>1. topic'[k][l] = topic[k][l] /\ stream' = stream
      BY <1>1, <1>8, <2>3
    <3> QED
      BY <3>1 DEF tolds
  <2> HIDE DEF queue, msg
  <2> QED
    BY <1>9, <2>1, <2>2, <2>3
<1>11. TypeOK /\ m \in Node \ {n} /\ up' = up
  BY <1>1, <1>5 DEF IInv
<1> HIDE DEF queue, msg
<1> QED
  BY <1>4, <1>5, <1>6, <1>7, <1>10, <1>11, LearnStep

-----------------------------------------------------------------------------
(* The theorem.                                                            *)

LEMMA InitViews == Init => Views!Init
<1> SUFFICES ASSUME Init PROVE Views!Init
  OBVIOUS
<1>1. Range(<<>>) = {}
  BY DEF Range
<1>2. owns = [n \in Node |-> NotUp]
  BY DEF Init, owns, Own
<1>3. views = [n \in Node |-> [m \in Node |-> NothingKnown]]
  <2>1. \A n, m \in Node : View(n, m) = NothingKnown
    BY DEF Init, View, NothingKnown, NewCatalog
  <2> QED
    BY <2>1 DEF views
<1>4. tolds = [n \in Node |-> [m \in Node |-> {}]]
  <2>1. \A n, m \in Node : stream[n][m] \cup Range(topic[n][m]) = {}
    BY <1>1 DEF Init
  <2> QED
    BY <2>1 DEF tolds
<1> QED
  BY <1>2, <1>3, <1>4 DEF Views!Init

\* Every step of the network is one of PeerViews or changes nothing it
\* speaks of.
LEMMA NextViews ==
    ASSUME IInv, IInv', [Next]_vars
    PROVE  [Views!Next]_(Views!vars)
<1> DEFINE Step == [Views!Next]_(Views!vars)
<1>0. TypeOK
  BY DEF IInv
<1>1. ASSUME NEW n \in Node, Views!Change(n) \/ Views!Tell(n) \/ Views!Stop(n)
      PROVE  Step
  BY <1>1 DEF Views!Next
<1>2. ASSUME NEW n \in Node, NEW m \in Node, Views!Learn(n, m) PROVE Step
  BY <1>2 DEF Views!Next
<1>3. ASSUME UNCHANGED <<up, catalog, netVars>> PROVE Step
  BY <1>0, <1>3, StutterStep
<1>4. ASSUME NEW n \in Node, NEW m \in Node, NewEntry(n, m) PROVE Step
  BY <1>4, NewEntryViews
<1> HIDE DEF Step
<1>5. ASSUME NEW n \in Node, Exit(n) PROVE Step
  BY <1>0, <1>1, <1>5, StopStep
<1>6. ASSUME NEW n \in Node, Local(n) PROVE Step
  <2>1. CASE Register(n) \/ PublishReceive(n)
    BY <1>3, <2>1 DEF Register, PublishReceive, catalogVars
  <2> QED
    BY <1>1, <1>6, <2>1, StartViews, PublishViews DEF Local
<1>7. ASSUME NEW n \in Node, NEW m \in Node, Peer(n, m) PROVE Step
  <2>1. CASE \/ staticDiscovery(n, m) \/ Connect(n, m) \/ Connected(n, m)
             \/ HandlePeerFound(n, m)
    BY <1>3, <2>1 DEF staticDiscovery, Connect, Reach, Connected,
                      HandlePeerFound, catalogVars
  <2>2. CASE SendStreamFails(n, m) \/ subscribeLoopPanics(n, m)
    BY <1>5, <2>2 DEF SendStreamFails, subscribeLoopPanics
  <2>3. CASE NewEntry(n, m)
    BY <1>4, <2>3
  <2>4. CASE SendStream(n, m)
    BY <1>1, <2>4, SendStreamViews
  <2>5. CASE streamAvailableFunctions(n, m) \/ subscribeLoop(n, m)
    BY <1>2, <2>5, streamViews, subscribeViews
  <2> QED
    BY <1>7, <2>1, <2>2, <2>3, <2>4, <2>5 DEF Peer
<1>8. ASSUME NEW n \in Node, NEW f \in Function, Report(n, f) PROVE Step
  <2>1. CASE ReportTimeout(n, f) \/ DeleteFunction(n, f)
    BY <1>3, <2>1 DEF ReportTimeout, DeleteFunction
  <2> QED
    BY <1>1, <1>8, <2>1, ReportReadyViews DEF Report
<1>9. ASSUME Environment PROVE Step
  <2>1. ASSUME NEW n \in Node, Crash(n) \/ updatePressure(n) PROVE Step
    BY <1>1, <1>5, <2>1, updatePressureViews DEF Crash
  <2>2. ASSUME NEW n \in Node, NEW m \in Node,
               ConnectEarly(n, m) \/ GiveUp(n, m) \/ StreamReset(n, m)
        PROVE  Step
    <3>1. CASE ConnectEarly(n, m) \/ GiveUp(n, m)
      BY <1>3, <3>1 DEF ConnectEarly, Reach, GiveUp, catalogVars
    <3>2. CASE StreamReset(n, m)
      BY <1>5, <3>2 DEF StreamReset
    <3> QED
      BY <2>2, <3>1, <3>2
  <2>3. ASSUME NEW n \in Node, NEW f \in Function,
               Deploy(n, f) \/ ScaleDown(n, f) \/ Delete(n, f)
        PROVE  Step
    <3>1. CASE Deploy(n, f)
      BY <1>3, <3>1 DEF Deploy
    <3> QED
      BY <1>1, <2>3, <3>1, ScaleDownViews, DeleteViews
  <2> QED
    BY <1>9, <2>1, <2>2, <2>3 DEF Environment
<1>10. ASSUME UNCHANGED vars PROVE Step
  BY <1>3, <1>10 DEF vars, catalogVars
<1>11. Step
  BY <1>6, <1>7, <1>8, <1>9, <1>10 DEF Next
<1> QED
  BY <1>11 DEF Step

\* The network implements PeerViews: in every behaviour of the handlers,
\* loops, dialers and streams of info_room.go, discovery.go and
\* catalog_cluster_level.go, with any number of nodes, crashes and lost,
\* repeated or reordered messages, what a node knows of a peer is nothing or
\* one statement that this peer made about itself, whole.
THEOREM Refinement == Spec => ImplementsViews
<1>1. Init => Views!Init
  BY InitViews
<1>2. IInv /\ IInv' /\ [Next]_vars => [Views!Next]_(Views!vars)
  BY NextViews
<1> QED
  BY <1>1, <1>2, Invariance, PTL DEF Spec, ImplementsViews, Views!Spec
=============================================================================
