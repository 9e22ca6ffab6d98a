--------------------------- MODULE CatalogProofs ---------------------------
(***************************************************************************)
(* Every catalog operation preserves the type of the catalog and what the  *)
(* readers of a catalog rely on, for any set of nodes and functions.       *)
(***************************************************************************)
EXTENDS Catalog, FiniteSetTheorems, TLAPS

-----------------------------------------------------------------------------
(* Replica totals.                                                         *)

\* A catalog attributes finitely many replicas to a function.
LEMMA ReplicasFinite ==
    ASSUME NEW c \in CatalogType, NEW f \in Function
    PROVE  IsFiniteSet(Replicas(c, f)) /\ TotalReplicas(c, f) \in Nat
<1>1. IsFiniteSet(c.nodes)
  BY NodeAssumption, FS_Subset DEF CatalogType
<1>2. IsFiniteSet(1 .. MaxAvailable)
  BY MaxAvailableAssumption, FS_Interval
<1>3. IsFiniteSet(c.nodes \X (1 .. MaxAvailable))
  BY <1>1, <1>2, FS_Product
<1>4. Replicas(c, f) \in SUBSET (c.nodes \X (1 .. MaxAvailable))
  BY DEF Replicas
<1> QED
  BY <1>3, <1>4, FS_Subset, FS_CardinalityType DEF TotalReplicas

\* The total of f is that of any catalog with the same nodes and the same
\* counts of f.
LEMMA TotalReplicasSame ==
    ASSUME NEW c, NEW d, NEW f,
           c.nodes = d.nodes,
           \A m \in c.nodes : c.avail[m][f] = d.avail[m][f]
    PROVE  TotalReplicas(c, f) = TotalReplicas(d, f)
<1>1. Replicas(c, f) = Replicas(d, f)
  BY DEF Replicas
<1> QED
  BY <1>1 DEF TotalReplicas

\* When the total is zero no listed node has a replica.
LEMMA TotalReplicasZero ==
    ASSUME NEW c \in CatalogType, NEW f \in Function,
           TotalReplicas(c, f) = 0, NEW m \in c.nodes
    PROVE  ~(c.avail[m][f] > 0)
<1>1. Replicas(c, f) = {}
  BY ReplicasFinite, FS_EmptySet DEF TotalReplicas
<1>2. c.avail[m][f] \in Count \cup {NoEntry}
  BY DEF CatalogType, AvailableReplicas
<1>3. ASSUME c.avail[m][f] > 0
      PROVE  <<m, 1>> \in Replicas(c, f)
  BY <1>2, <1>3, MaxAvailableAssumption DEF Replicas, Count, NoEntry
<1> QED
  BY <1>1, <1>3

-----------------------------------------------------------------------------
(* Entries and the initial catalogs.                                       *)

\* An empty catalog is a catalog.
LEMMA NewCatalogType == NewCatalog \in CatalogType
BY DEF NewCatalog, CatalogType, NoFunctions, AvailableReplicas, Count, NoEntry

\* A new entry changes no view and no total, for an unknown peer has no
\* replicas.
LEMMA NewNodeCatalogEntrySound ==
    ASSUME NEW c \in CatalogType, NEW n \in Node, NEW peer \in Node,
           CatalogInv(c, n)
    PROVE  LET d == NewNodeCatalogEntry(c, peer)
           IN  /\ d \in CatalogType
               /\ CatalogInv(d, n)
               /\ d.nodes = c.nodes \cup {peer}
<1> DEFINE d == NewNodeCatalogEntry(c, peer)
<1>1. /\ d \in CatalogType
      /\ d.nodes = c.nodes \cup {peer}
      /\ d.avail = c.avail /\ d.functions = c.functions
      /\ d.execTime = c.execTime
  BY DEF NewNodeCatalogEntry, CatalogType
<1>2. ASSUME NEW f \in Function PROVE TotalReplicas(d, f) = TotalReplicas(c, f)
  <2>1. \A m \in Node \ c.nodes : c.avail[m][f] = NoEntry
    BY DEF CatalogInv, NodesListed, NoFunctions
  <2>2. Replicas(d, f) = Replicas(c, f)
    BY <1>1, <2>1, MaxAvailableAssumption
    DEF Replicas, CatalogType, NoEntry
  <2> QED
    BY <2>2 DEF TotalReplicas
<1>3. ReplicasAddUp(d)
  BY <1>1, <1>2 DEF CatalogInv, ReplicasAddUp
<1>4. NodesListed(d) /\ FunctionsListed(d, n) /\ ExecTimeTracked(d)
  BY <1>1 DEF CatalogInv, NodesListed, FunctionsListed, ExecTimeTracked
<1> QED
  BY <1>1, <1>3, <1>4 DEF CatalogInv
\* The catalog of a starting provider: one replica of each container found.
LEMMA initSelfCatagorySound ==
    ASSUME NEW n \in Node, NEW containers \in SUBSET Function
    PROVE  /\ initSelfCatagory(n, containers) \in CatalogType
           /\ CatalogInv(initSelfCatagory(n, containers), n)
<1> DEFINE base == NewNodeCatalogEntry(NewCatalog, n)
           found == [f \in Function |-> IF f \in containers THEN 1 ELSE NoEntry]
           d == [base EXCEPT !.avail[n] = found, !.execTime[n] = containers,
                             !.functions = found]
<1>0. initSelfCatagory(n, containers) = d
  BY DEF initSelfCatagory
<1>1. /\ base \in CatalogType
      /\ base.nodes = {n} /\ base.avail = [m \in Node |-> NoFunctions]
      /\ base.execTime = [m \in Node |-> {}]
  <2>1. NewCatalog.nodes = {} /\ NewCatalog.avail = [m \in Node |-> NoFunctions]
        /\ NewCatalog.execTime = [m \in Node |-> {}]
    BY DEF NewCatalog
  <2> QED
    BY <2>1, NewCatalogType DEF NewNodeCatalogEntry, CatalogType
<1> HIDE DEF base
<1>2. found \in AvailableReplicas /\ NoFunctions \in AvailableReplicas
      /\ found \in [Function -> Nat \cup {NoEntry}]
  BY MaxAvailableAssumption DEF AvailableReplicas, NoFunctions, Count
<1>3. /\ d \in CatalogType
      /\ d.nodes = {n}
      /\ d.avail = [m \in Node |-> IF m = n THEN found ELSE NoFunctions]
      /\ d.execTime = [m \in Node |-> IF m = n THEN containers ELSE {}]
      /\ d.functions = found
  BY <1>1, <1>2 DEF CatalogType
<1> HIDE DEF d
<1>4. ASSUME NEW f \in Function, found[f] # NoEntry
      PROVE  TotalReplicas(d, f) = 1
  <2>1. found[f] = 1
    BY <1>4
  <2>2. Replicas(d, f) = {<<n, 1>>}
    <3>1. \A r \in {n} \X (1 .. MaxAvailable) :
             r[2] <= d.avail[r[1]][f] <=> r = <<n, 1>>
      BY <1>3, <2>1, MaxAvailableAssumption
    <3>2. <<n, 1>> \in {n} \X (1 .. MaxAvailable)
      BY MaxAvailableAssumption
    <3> QED
      BY <1>3, <3>1, <3>2 DEF Replicas
  <2> QED
    BY <2>2, FS_Singleton DEF TotalReplicas
<1>5. ReplicasAddUp(d)
  BY <1>3, <1>4 DEF ReplicasAddUp
<1>6. NodesListed(d) /\ FunctionsListed(d, n) /\ ExecTimeTracked(d)
  BY <1>3 DEF NodesListed, FunctionsListed, ExecTimeTracked, NoFunctions,
              NoEntry
<1> QED
  BY <1>0, <1>3, <1>5, <1>6 DEF CatalogInv

-----------------------------------------------------------------------------
(* The recounts.                                                           *)

\* Recounting one function writes its FunctionCatalog entry and nothing else.
LEMMA RecountOne ==
    ASSUME NEW c \in CatalogType, NEW f \in Function
    PROVE  LET d == updatetReplicasWithFunctionName(c, f)
           IN  /\ d \in CatalogType
               /\ d.nodes = c.nodes /\ d.avail = c.avail
               /\ d.execTime = c.execTime /\ d.overload = c.overload
               /\ \A g \in Function :
                      d.functions[g] = IF g = f THEN TotalReplicas(c, f)
                                                ELSE c.functions[g]
               /\ \A g \in Function :
                      TotalReplicas(d, g) = TotalReplicas(c, g)
<1> DEFINE d == updatetReplicasWithFunctionName(c, f)
<1>1. TotalReplicas(c, f) \in Nat
  BY ReplicasFinite
<1>2. /\ d \in CatalogType
      /\ d.nodes = c.nodes /\ d.avail = c.avail
      /\ d.execTime = c.execTime /\ d.overload = c.overload
      /\ \A g \in Function :
             d.functions[g] = IF g = f THEN TotalReplicas(c, f)
                                       ELSE c.functions[g]
  BY <1>1 DEF updatetReplicasWithFunctionName, CatalogType
<1> HIDE DEF d
<1>3. \A g \in Function : TotalReplicas(d, g) = TotalReplicas(c, g)
  BY <1>2, TotalReplicasSame
<1> QED
  BY <1>2, <1>3 DEF d

\* Recounting all functions writes the entries there are.
LEMMA RecountAll ==
    ASSUME NEW c \in CatalogType
    PROVE  LET d == updatetReplicas(c)
           IN  /\ d \in CatalogType
               /\ d.nodes = c.nodes /\ d.avail = c.avail
               /\ d.execTime = c.execTime /\ d.overload = c.overload
               /\ \A g \in Function :
                      d.functions[g] = IF c.functions[g] = NoEntry
                                       THEN NoEntry
                                       ELSE TotalReplicas(c, g)
               /\ \A g \in Function :
                      TotalReplicas(d, g) = TotalReplicas(c, g)
<1> DEFINE d == updatetReplicas(c)
<1>1. \A g \in Function : TotalReplicas(c, g) \in Nat
  BY ReplicasFinite
<1>2. /\ d \in CatalogType
      /\ d.nodes = c.nodes /\ d.avail = c.avail
      /\ d.execTime = c.execTime /\ d.overload = c.overload
      /\ \A g \in Function :
             d.functions[g] = IF c.functions[g] = NoEntry
                              THEN NoEntry
                              ELSE TotalReplicas(c, g)
  BY <1>1 DEF updatetReplicas, CatalogType
<1> HIDE DEF d
<1>3. \A g \in Function : TotalReplicas(d, g) = TotalReplicas(c, g)
  BY <1>2, TotalReplicasSame
<1> QED
  BY <1>2, <1>3 DEF d
-----------------------------------------------------------------------------
(* The node's own functions.                                               *)

\* Writing the node's own count of f and then recounting f keeps a sound
\* catalog sound, if the execution-time entry is there when it is needed.
\* The add and the update are instances; c is the catalog before, b the one
\* after the write.
LEMMA OwnCountRecounted ==
    ASSUME NEW c \in CatalogType, NEW b \in CatalogType,
           NEW n \in Node, NEW f \in Function,
           CatalogInv(c, n),
           b.nodes = c.nodes, b.functions = c.functions,
           \A m \in Node, g \in Function :
               (m # n \/ g # f) => b.avail[m][g] = c.avail[m][g],
           \A m \in Node : c.execTime[m] \subseteq b.execTime[m],
           b.avail[n][f] > 0 => f \in b.execTime[n]
    PROVE  LET d == updatetReplicasWithFunctionName(b, f)
           IN  d \in CatalogType /\ CatalogInv(d, n) /\ d.nodes = c.nodes
<1> DEFINE d == updatetReplicasWithFunctionName(b, f)
<1>1. /\ d \in CatalogType
      /\ d.nodes = c.nodes /\ d.avail = b.avail /\ d.execTime = b.execTime
      /\ \A g \in Function :
             d.functions[g] = IF g = f THEN TotalReplicas(b, f)
                                       ELSE c.functions[g]
      /\ \A g \in Function : TotalReplicas(d, g) = TotalReplicas(b, g)
  BY RecountOne
<1> HIDE DEF d
<1>2. c.nodes \subseteq Node
  BY DEF CatalogType
<1>3. \A g \in Function : g # f => TotalReplicas(b, g) = TotalReplicas(c, g)
  BY <1>2, TotalReplicasSame
<1>4. ReplicasAddUp(d)
  BY <1>1, <1>3 DEF ReplicasAddUp, CatalogInv
<1>5. n \in c.nodes
  BY DEF CatalogInv
<1>6. NodesListed(d)
  <2> SUFFICES ASSUME NEW m \in Node \ d.nodes PROVE d.avail[m] = NoFunctions
    BY DEF NodesListed
  <2>1. m # n /\ c.avail[m] = NoFunctions
    BY <1>1, <1>5 DEF CatalogInv, NodesListed
  <2>2. c.avail[m] \in AvailableReplicas /\ b.avail[m] \in AvailableReplicas
    BY DEF CatalogType
  <2>3. \A g \in Function : b.avail[m][g] = c.avail[m][g]
    BY <2>1
  <2>4. b.avail[m] = c.avail[m]
    BY <2>2, <2>3 DEF AvailableReplicas
  <2> QED
    BY <1>1, <2>1, <2>4
<1>7. FunctionsListed(d, n)
  <2>1. TotalReplicas(b, f) \in Nat
    BY ReplicasFinite
  <2>2. \A g \in Function \ {f} :
           (b.avail[n][g] # NoEntry \/ \E m \in Node : b.avail[m][g] > 0)
               => c.functions[g] # NoEntry
    BY DEF CatalogInv, FunctionsListed
  <2> QED
    BY <1>1, <2>1, <2>2 DEF FunctionsListed, NoEntry
<1>8. ExecTimeTracked(d)
  <2> SUFFICES ASSUME NEW m \in Node, NEW g \in Function, b.avail[m][g] > 0
               PROVE  g \in b.execTime[m]
    BY <1>1 DEF ExecTimeTracked
  <2>1. CASE m = n /\ g = f
    BY <2>1
  <2>2. CASE m # n \/ g # f
    BY <2>2 DEF CatalogInv, ExecTimeTracked
  <2> QED
    BY <2>1, <2>2
<1> QED
  BY <1>1, <1>4, <1>5, <1>6, <1>7, <1>8 DEF CatalogInv, d

\* AddAvailableFunctions keeps the catalog sound.
LEMMA AddAvailableFunctionsSound ==
    ASSUME NEW c \in CatalogType, NEW n \in Node, NEW f \in Function,
           NEW replicas \in Count, CatalogInv(c, n)
    PROVE  LET d == AddAvailableFunctions(c, n, f, replicas)
           IN  d \in CatalogType /\ CatalogInv(d, n) /\ d.nodes = c.nodes
<1> DEFINE b == addAvailableFunctions(c, n, f, replicas)
<1>1. /\ b \in CatalogType
      /\ b.nodes = c.nodes /\ b.functions = c.functions
      /\ \A m \in Node, g \in Function :
             (m # n \/ g # f) => b.avail[m][g] = c.avail[m][g]
      /\ \A m \in Node : c.execTime[m] \subseteq b.execTime[m]
      /\ f \in b.execTime[n]
  BY DEF addAvailableFunctions, CatalogType, AvailableReplicas
<1> HIDE DEF b
<1> QED
  BY <1>1, OwnCountRecounted DEF AddAvailableFunctions, b

\* Reporting zero replicas keeps the catalog sound.
LEMMA UpdateAvailableFunctionsSound ==
    ASSUME NEW c \in CatalogType, NEW n \in Node, NEW f \in Function,
           CatalogInv(c, n)
    PROVE  LET d == UpdateAvailableFunctions(c, n, f, 0)
           IN  d \in CatalogType /\ CatalogInv(d, n) /\ d.nodes = c.nodes
<1> DEFINE b == updateAvailableFunctions(c, n, f, 0)
<1>0. 0 \in Count
  BY MaxAvailableAssumption DEF Count
<1>1. /\ b \in CatalogType
      /\ b.nodes = c.nodes /\ b.functions = c.functions
      /\ \A m \in Node, g \in Function :
             (m # n \/ g # f) => b.avail[m][g] = c.avail[m][g]
      /\ \A m \in Node : c.execTime[m] \subseteq b.execTime[m]
      /\ b.avail[n][f] = 0
  BY <1>0 DEF updateAvailableFunctions, CatalogType, AvailableReplicas
<1> HIDE DEF b
<1>2. ~(b.avail[n][f] > 0)
  BY <1>1
<1> QED
  BY <1>1, <1>2, OwnCountRecounted DEF UpdateAvailableFunctions, b

\* DeleteAvailableFunctions keeps the catalog sound: it drops the
\* FunctionCatalog entry only when no node is known to run the function.
LEMMA DeleteAvailableFunctionsSound ==
    ASSUME NEW c \in CatalogType, NEW n \in Node, NEW f \in Function,
           CatalogInv(c, n)
    PROVE  LET d == DeleteAvailableFunctions(c, n, f)
           IN  d \in CatalogType /\ CatalogInv(d, n) /\ d.nodes = c.nodes
<1> DEFINE b == deleteAvailableFunctions(c, n, f)
           e == updatetReplicasWithFunctionName(b, f)
           d == [e EXCEPT !.functions[f] = NoEntry]
<1>1. /\ b \in CatalogType
      /\ b.nodes = c.nodes /\ b.functions = c.functions
      /\ \A m \in Node, g \in Function :
             (m # n \/ g # f) => b.avail[m][g] = c.avail[m][g]
      /\ \A m \in Node : c.execTime[m] \subseteq b.execTime[m]
      /\ b.avail[n][f] = NoEntry
  BY DEF deleteAvailableFunctions, CatalogType, AvailableReplicas
<1> HIDE DEF b
<1>2. ~(b.avail[n][f] > 0)
  BY <1>1 DEF NoEntry
<1>3. e \in CatalogType /\ CatalogInv(e, n) /\ e.nodes = c.nodes
  BY <1>1, <1>2, OwnCountRecounted
<1>4. e.avail = b.avail /\ e.functions[f] = TotalReplicas(e, f)
  BY <1>1, RecountOne
<1>5. DeleteAvailableFunctions(c, n, f) = IF e.functions[f] = 0 THEN d ELSE e
  BY DEF DeleteAvailableFunctions, b
<1> HIDE DEF e
<1>6. ASSUME e.functions[f] = 0
      PROVE  d \in CatalogType /\ CatalogInv(d, n) /\ d.nodes = c.nodes
  <2>1. /\ d \in CatalogType
        /\ d.nodes = e.nodes /\ d.avail = e.avail /\ d.execTime = e.execTime
        /\ \A g \in Function :
               d.functions[g] = IF g = f THEN NoEntry ELSE e.functions[g]
    BY <1>3 DEF CatalogType
  <2> HIDE DEF d
  <2>2. \A m \in Node : ~(e.avail[m][f] > 0)
    <3> SUFFICES ASSUME NEW m \in Node PROVE ~(e.avail[m][f] > 0)
      OBVIOUS
    <3>1. CASE m \in e.nodes
      BY <1>3, <1>4, <1>6, <3>1, TotalReplicasZero
    <3>2. CASE m \notin e.nodes
      BY <1>3, <3>2 DEF CatalogInv, NodesListed, NoFunctions, NoEntry
    <3> QED
      BY <3>1, <3>2
  <2>3. FunctionsListed(d, n)
    BY <1>1, <1>3, <1>4, <2>1, <2>2 DEF CatalogInv, FunctionsListed
  <2>4. \A g \in Function : TotalReplicas(d, g) = TotalReplicas(e, g)
    BY <2>1, TotalReplicasSame
  <2>5. ReplicasAddUp(d)
    BY <1>3, <2>1, <2>4 DEF CatalogInv, ReplicasAddUp
  <2>6. NodesListed(d) /\ ExecTimeTracked(d) /\ n \in d.nodes
    BY <1>3, <2>1 DEF CatalogInv, NodesListed, ExecTimeTracked
  <2> QED
    BY <1>3, <2>1, <2>3, <2>5, <2>6 DEF CatalogInv
<1> QED
  BY <1>3, <1>5, <1>6

-----------------------------------------------------------------------------
(* Messages.                                                               *)

\* What a node packs is a message.
LEMMA packNodeInfoMsgType ==
    ASSUME NEW c \in CatalogType, NEW n \in Node
    PROVE  packNodeInfoMsg(c, n) \in NodeInfoMsg
BY DEF packNodeInfoMsg, NodeInfoMsg, CatalogType

\* Whatever message is unpacked for whatever listed peer other than the node
\* itself, the catalog stays sound.
LEMMA unpackNodeInfoMsgSound ==
    ASSUME NEW c \in CatalogType, NEW n \in Node, NEW peer \in Node \ {n},
           NEW msg \in NodeInfoMsg, CatalogInv(c, n), peer \in c.nodes
    PROVE  LET d == unpackNodeInfoMsg(c, msg, peer)
           IN  d \in CatalogType /\ CatalogInv(d, n) /\ d.nodes = c.nodes
<1> DEFINE listed == [f \in Function |->
                        IF c.functions[f] = NoEntry /\ f \in Named(msg)
                        THEN 0 ELSE c.functions[f]]
           running == {f \in Function : msg.avail[f] > 0}
           b == [c EXCEPT !.overload[peer] = msg.overload,
                          !.execTime[peer] = @ \cup running,
                          !.avail[peer]    = msg.avail,
                          !.functions      = listed]
           d == updatetReplicas(b)
<1>1. unpackNodeInfoMsg(c, msg, peer) = d
  BY DEF unpackNodeInfoMsg
<1>2. /\ msg.avail \in AvailableReplicas /\ msg.overload \in BOOLEAN
      /\ listed \in [Function -> Nat \cup {NoEntry}]
      /\ running \in SUBSET Function
  BY DEF NodeInfoMsg, CatalogType
<1> HIDE DEF listed, running
<1>3. /\ b \in CatalogType
      /\ b.nodes = c.nodes
      /\ b.functions = listed
      /\ b.avail = [c.avail EXCEPT ![peer] = msg.avail]
      /\ b.execTime = [c.execTime EXCEPT ![peer] = @ \cup running]
  BY <1>2 DEF CatalogType
<1> HIDE DEF b
<1>4. /\ d \in CatalogType
      /\ d.nodes = c.nodes /\ d.avail = b.avail /\ d.execTime = b.execTime
      /\ \A g \in Function :
             d.functions[g] = IF listed[g] = NoEntry
                              THEN NoEntry ELSE TotalReplicas(b, g)
      /\ \A g \in Function : TotalReplicas(d, g) = TotalReplicas(b, g)
  BY <1>3, RecountAll
<1> HIDE DEF d
<1>5. ReplicasAddUp(d)
  BY <1>4 DEF ReplicasAddUp
<1>6. NodesListed(d)
  BY <1>3, <1>4 DEF CatalogInv, NodesListed, CatalogType
<1>7. FunctionsListed(d, n)
  <2> SUFFICES ASSUME NEW f \in Function,
                      b.avail[n][f] # NoEntry \/ \E m \in Node : b.avail[m][f] > 0
               PROVE  d.functions[f] # NoEntry
    BY <1>4 DEF FunctionsListed
  <2>1. TotalReplicas(b, f) # NoEntry
    BY <1>3, ReplicasFinite DEF NoEntry
  <2>2. CASE f \in Named(msg)
    <3>1. listed[f] # NoEntry
      BY <2>2 DEF listed, NoEntry
    <3> QED
      BY <1>4, <2>1, <3>1
  <2>3. CASE f \notin Named(msg)
    <3>1. ~(b.avail[peer][f] > 0)
      BY <1>3, <2>3 DEF Named, NoEntry, CatalogType
    <3>2. \A m \in Node \ {peer} : b.avail[m] = c.avail[m]
      BY <1>3 DEF CatalogType
    <3>3. c.functions[f] # NoEntry
      BY <3>1, <3>2 DEF CatalogInv, FunctionsListed
    <3>4. listed[f] # NoEntry
      BY <3>3 DEF listed, NoEntry
    <3> QED
      BY <1>4, <2>1, <3>4
  <2> QED
    BY <2>2, <2>3
<1>8. ExecTimeTracked(d)
  <2> SUFFICES ASSUME NEW m \in Node, NEW g \in Function, b.avail[m][g] > 0
               PROVE  g \in b.execTime[m]
    BY <1>4 DEF ExecTimeTracked
  <2>1. CASE m = peer
    BY <1>3, <2>1 DEF running, CatalogType
  <2>2. CASE m # peer
    BY <1>3, <2>2 DEF CatalogInv, ExecTimeTracked, CatalogType
  <2> QED
    BY <2>1, <2>2
<1> QED
  BY <1>1, <1>4, <1>5, <1>6, <1>7, <1>8 DEF CatalogInv
=============================================================================
