---------------------------- MODULE StoresProofs ----------------------------
(***************************************************************************)
(* Proofs about what nodes keep: namespaces, addresses, the catalog whose  *)
(* methods interleave, secrets, and the definitions that nodes copy.  Each *)
(* component has a theorem of its own; at the end they are stated of all   *)
(* components together.                                                    *)
(***************************************************************************)
EXTENDS Stores, SequencesExt, FiniteSetTheorems, SequenceTheorems,
        WellFoundedInduction, TLAPS

-----------------------------------------------------------------------------
(* Namespaces.                                                             *)

LEMMA SpaceInit == Space!Init => Space!IInv
<1> SUFFICES ASSUME Space!Init PROVE Space!IInv
  OBVIOUS
<1> USE DEF Space!Init, Space!Fresh
<1>1. Space!TypeOK
  BY DEF Space!TypeOK, Space!Label, Space!Operations
<1>2. Space!ReqInv /\ Space!AloneInv
  BY DEF Space!ReqInv, Space!AloneInv
<1>3. Space!LabelsKept
  BY DEF Space!LabelsKept, Space!validNamespace
<1> QED
  BY <1>1, <1>2, <1>3 DEF Space!IInv

SpaceState ==
    [op : Space!Operations \cup {"none"}, labels : SUBSET Space!Label,
     pc : {"idle", "labels", "act", "done"},
     unset : SUBSET Space!Label, set : SUBSET Space!Label]

\* A step of a request that runs: no other request is alone, so that only what
\* it leaves of its own plan matters.
LEMMA SpaceStep ==
    ASSUME Space!IInv, NEW r \in SpaceRequest, NEW q \in SpaceState,
           req[r].pc \in {"labels", "act"},
           req' = [req EXCEPT ![r] = q],
           UNCHANGED alone,
           exists' \in BOOLEAN, functions' \in BOOLEAN, raced' \in BOOLEAN,
           labels' \in SUBSET Space!Label, value' \in {"1", "true"},
           given' \in {{}} \cup {{L} : L \in SUBSET Space!Label},
           labels' # {} \/ functions' => exists',
           q.op = req[r].op, q.labels = req[r].labels,
           q.unset \cap q.labels = {}, q.set \subseteq q.labels,
           (r \in alone /\ q.op = "update" /\ q.pc = "act")
               => /\ labels' \subseteq q.labels \cup q.unset
                  /\ q.labels \subseteq labels' \cup q.set,
           Space!LabelsKept'
    PROVE  Space!IInv'
<1>0. req \in [SpaceRequest -> SpaceState]
  BY DEF Space!IInv, Space!TypeOK, SpaceState
<1>1. \A k \in SpaceRequest : req'[k] = IF k = r THEN q ELSE req[k]
  BY <1>0
<1>2. Space!TypeOK'
  <2>1. req' \in [SpaceRequest -> SpaceState]
    BY <1>0
  <2> QED
    BY <2>1 DEF Space!IInv, Space!TypeOK, SpaceState
<1>3. Space!ReqInv'
  BY <1>1 DEF Space!IInv, Space!ReqInv, Space!validNamespace
<1>4. Space!AloneInv'
  <2>1. alone' = alone /\ alone \subseteq {r} /\ alone \subseteq SpaceRequest
    BY DEF Space!IInv, Space!AloneInv, Space!TypeOK
  <2> SUFFICES ASSUME r \in alone
               PROVE  /\ \A k \in SpaceRequest \ {r} : req'[k].pc \in {"idle", "done"}
                      /\ req'[r].op = "update" /\ req'[r].pc = "act"
                            => /\ labels' \subseteq req'[r].labels \cup req'[r].unset
                               /\ req'[r].labels \subseteq labels' \cup req'[r].set
    BY <2>1 DEF Space!AloneInv
  <2> QED
    BY <1>1 DEF Space!IInv, Space!AloneInv
<1> QED
  BY <1>2, <1>3, <1>4 DEF Space!IInv

\* A step of a request that moves on and changes nothing else.
LEMMA SpaceGoto ==
    ASSUME Space!IInv, NEW r \in SpaceRequest,
           NEW label \in {"labels", "act", "done"},
           req[r].pc \in {"labels", "act"},
           req[r].op = "update" => label = "done",
           Space!Goto(r, label),
           UNCHANGED <<exists, labels, value, functions, given, raced, alone>>
    PROVE  Space!IInv'
<1> DEFINE q == [req[r] EXCEPT !.pc = label]
<1>0. req \in [SpaceRequest -> SpaceState]
  BY DEF Space!IInv, Space!TypeOK, SpaceState
<1>1. /\ q \in SpaceState
      /\ q.op = req[r].op /\ q.labels = req[r].labels /\ q.pc = label
      /\ q.unset \cap q.labels = {} /\ q.set \subseteq q.labels
  BY <1>0 DEF SpaceState, Space!IInv, Space!ReqInv
<1>2. req' = [req EXCEPT ![r] = q]
  BY DEF Space!Goto
<1> HIDE DEF q
<1>3. Space!LabelsKept'
  BY DEF Space!IInv, Space!LabelsKept, Space!validNamespace
<1> QED
  BY <1>1, <1>2, <1>3, SpaceStep DEF Space!IInv, Space!TypeOK

\* A request arrives: it is alone if no other runs, and then none was.
LEMMA SpaceReceive ==
    ASSUME Space!NamespacesAssumption, Space!IInv,
           NEW r \in SpaceRequest, NEW op \in SpaceOperation,
           NEW L \in SUBSET Space!Label, Space!Receive(r, op, L)
    PROVE  Space!IInv'
<1> DEFINE q == [Space!Fresh EXCEPT !.op = op, !.labels = L,
                     !.pc = IF op = "delete" THEN "act" ELSE "labels"]
<1>0. req \in [SpaceRequest -> SpaceState] /\ op \in Space!Operations
  BY DEF Space!IInv, Space!TypeOK, SpaceState, Space!NamespacesAssumption
<1>1. /\ q \in SpaceState
      /\ q.op = op /\ q.labels = L /\ q.unset = {} /\ q.set = {}
      /\ ~ (q.op = "update" /\ q.pc = "act")
  BY <1>0 DEF SpaceState, Space!Fresh
<1>2. req' = [req EXCEPT ![r] = q]
  BY DEF Space!Receive
<1> HIDE DEF q
<1>3. \A k \in SpaceRequest : req'[k] = IF k = r THEN q ELSE req[k]
  BY <1>0, <1>2
<1>4. Space!TypeOK'
  <2>1. req' \in [SpaceRequest -> SpaceState]
    BY <1>0, <1>1, <1>2
  <2>2. alone' \in SUBSET SpaceRequest
    BY DEF Space!Receive
  <2> QED
    BY <2>1, <2>2 DEF Space!Receive, Space!IInv, Space!TypeOK, SpaceState
<1>5. Space!ReqInv'
  BY <1>1, <1>3
     DEF Space!Receive, Space!IInv, Space!ReqInv, Space!validNamespace,
         Space!hasOpenFaaSLabel
<1>6. Space!AloneInv'
  BY <1>1, <1>3 DEF Space!Receive, Space!AloneInv
<1>7. Space!LabelsKept'
  BY DEF Space!Receive, Space!IInv, Space!LabelsKept, Space!validNamespace
<1> QED
  BY <1>4, <1>5, <1>6, <1>7 DEF Space!IInv

LEMMA SpaceCreate ==
    ASSUME Space!IInv, NEW r \in SpaceRequest, Space!Create(r)
    PROVE  Space!IInv'
<1>1. CASE exists
  BY <1>1, SpaceGoto DEF Space!Create
<1>2. CASE ~ exists
  <2> DEFINE q == [req[r] EXCEPT !.pc = "done"]
  <2>0. req \in [SpaceRequest -> SpaceState]
    BY DEF Space!IInv, Space!TypeOK, SpaceState
  <2>1. /\ q \in SpaceState
        /\ q.op = req[r].op /\ q.labels = req[r].labels /\ q.pc = "done"
        /\ q.unset \cap q.labels = {} /\ q.set \subseteq q.labels
    BY <2>0 DEF SpaceState, Space!IInv, Space!ReqInv
  <2>2. req' = [req EXCEPT ![r] = q]
    BY DEF Space!Create, Space!Goto
  <2> HIDE DEF q
  <2>3. /\ exists' = TRUE /\ labels' = req[r].labels /\ value' = "1"
        /\ given' \in {{}, {labels'}}
        /\ raced' \in BOOLEAN
        /\ UNCHANGED <<functions, alone>>
    BY <1>2 DEF Space!Create, Space!Wanted
  <2>4. labels' \in SUBSET Space!Label /\ Space!validNamespace(labels')
    BY <2>0, <2>3 DEF SpaceState, Space!Create, Space!IInv, Space!ReqInv, Space!validNamespace
  <2>5. Space!LabelsKept'
    BY <2>3, <2>4 DEF Space!LabelsKept, Space!validNamespace
  <2>6. /\ given' \in {{}} \cup {{L} : L \in SUBSET Space!Label}
        /\ functions' \in BOOLEAN /\ req[r].pc \in {"labels", "act"}
    BY <2>3, <2>4 DEF Space!IInv, Space!TypeOK, Space!Create
  <2> QED
    BY <2>1, <2>2, <2>3, <2>4, <2>5, <2>6, SpaceStep
<1> QED
  BY <1>1, <1>2

\* An update plans what it will set and unset: it unsets nothing it asked for.
LEMMA SpaceUpdateChecks ==
    ASSUME Space!IInv, NEW r \in SpaceRequest, Space!UpdateChecks(r)
    PROVE  Space!IInv'
<1>0. /\ req \in [SpaceRequest -> SpaceState]
      /\ labels \in SUBSET Space!Label
      /\ req[r].op = "update" /\ req[r].pc = "labels"
  BY DEF Space!IInv, Space!TypeOK, SpaceState, Space!UpdateChecks
<1>1. CASE exists /\ Space!hasOpenFaaSLabel(labels, value)
  <2> DEFINE q == [req[r] EXCEPT !.pc = "act", !.unset = labels \ req[r].labels,
                                 !.set = req[r].labels]
  <2>1. /\ q \in SpaceState
        /\ q.op = req[r].op /\ q.labels = req[r].labels
        /\ q.unset = labels \ req[r].labels /\ q.set = req[r].labels
    BY <1>0 DEF SpaceState
  <2>2. req' = [req EXCEPT ![r] = q]
    BY <1>1 DEF Space!UpdateChecks
  <2> HIDE DEF q
  <2>3. q.unset \cap q.labels = {} /\ q.set \subseteq q.labels
    BY <2>1
  <2>4. Space!LabelsKept'
    BY DEF Space!UpdateChecks, Space!IInv, Space!LabelsKept, Space!validNamespace
  <2>5. UNCHANGED <<exists, labels, value, functions, given, raced, alone>>
    BY DEF Space!UpdateChecks
  <2> QED
    BY <1>0, <2>1, <2>2, <2>3, <2>4, <2>5, SpaceStep DEF Space!IInv, Space!TypeOK
<1>2. CASE ~ (exists /\ Space!hasOpenFaaSLabel(labels, value))
  BY <1>0, <1>2, SpaceGoto DEF Space!UpdateChecks, Space!Goto
<1> QED
  BY <1>1, <1>2

\* One label is removed.
LEMMA SpaceUnset ==
    ASSUME Space!IInv, NEW r \in SpaceRequest, NEW key \in Space!Label,
           Space!Unset(r, key)
    PROVE  Space!IInv'
<1> DEFINE q == [req[r] EXCEPT !.unset = @ \ {key}]
<1>0. /\ req \in [SpaceRequest -> SpaceState]
      /\ req[r].op = "update" /\ req[r].pc = "act" /\ key \in req[r].unset
  BY DEF Space!IInv, Space!TypeOK, SpaceState, Space!Unset
<1>1. /\ q \in SpaceState
      /\ q.op = req[r].op /\ q.labels = req[r].labels /\ q.pc = "act"
      /\ q.unset = req[r].unset \ {key} /\ q.set = req[r].set
  BY <1>0 DEF SpaceState
<1>2. req' = [req EXCEPT ![r] = q]
  BY DEF Space!Unset
<1> HIDE DEF q
<1>3. /\ exists' = TRUE /\ labels' = labels \ {key} /\ given' = {}
      /\ value' = value
      /\ raced' = (raced \/ ~ exists)
      /\ UNCHANGED <<functions, alone>>
  BY DEF Space!Unset, Space!SetLabel
<1>4. /\ key # "openfaas" /\ key \notin req[r].labels
      /\ q.unset \cap q.labels = {} /\ q.set \subseteq q.labels
  BY <1>0, <1>1 DEF Space!IInv, Space!ReqInv, Space!validNamespace
<1>5. Space!LabelsKept'
  BY <1>3, <1>4 DEF Space!IInv, Space!LabelsKept, Space!validNamespace
<1>6. r \in alone => /\ labels' \subseteq q.labels \cup q.unset
                     /\ q.labels \subseteq labels' \cup q.set
  <2> SUFFICES ASSUME r \in alone
               PROVE  /\ labels' \subseteq q.labels \cup q.unset
                      /\ q.labels \subseteq labels' \cup q.set
    OBVIOUS
  <2>1. /\ labels \subseteq req[r].labels \cup req[r].unset
        /\ req[r].labels \subseteq labels \cup req[r].set
    BY <1>0 DEF Space!IInv, Space!AloneInv
  <2> QED
    BY <1>1, <1>3, <1>4, <2>1
<1> QED
  BY <1>0, <1>1, <1>2, <1>3, <1>4, <1>5, <1>6, SpaceStep DEF Space!IInv, Space!TypeOK

\* One label is set.
LEMMA SpaceSet ==
    ASSUME Space!IInv, NEW r \in SpaceRequest, NEW key \in Space!Label,
           Space!Set(r, key)
    PROVE  Space!IInv'
<1> DEFINE q == [req[r] EXCEPT !.set = @ \ {key}]
<1>0. /\ req \in [SpaceRequest -> SpaceState]
      /\ req[r].op = "update" /\ req[r].pc = "act" /\ req[r].unset = {}
      /\ key \in req[r].set
  BY DEF Space!IInv, Space!TypeOK, SpaceState, Space!Set
<1>1. /\ q \in SpaceState
      /\ q.op = req[r].op /\ q.labels = req[r].labels /\ q.pc = "act"
      /\ q.unset = {} /\ q.set = req[r].set \ {key} /\ q.set \subseteq q.labels
  BY <1>0 DEF SpaceState, Space!IInv, Space!ReqInv
<1>2. req' = [req EXCEPT ![r] = q]
  BY DEF Space!Set
<1> HIDE DEF q
<1>3. /\ exists' = TRUE /\ labels' = labels \cup {key} /\ given' = {}
      /\ value' \in {"1", value}
      /\ raced' = (raced \/ ~ exists)
      /\ UNCHANGED <<functions, alone>>
  BY DEF Space!Set, Space!SetLabel
<1>4. Space!LabelsKept'
  BY <1>3 DEF Space!IInv, Space!LabelsKept, Space!validNamespace
<1>5. r \in alone => /\ labels' \subseteq q.labels \cup q.unset
                     /\ q.labels \subseteq labels' \cup q.set
  <2> SUFFICES ASSUME r \in alone
               PROVE  /\ labels' \subseteq q.labels \cup q.unset
                      /\ q.labels \subseteq labels' \cup q.set
    OBVIOUS
  <2>1. /\ labels \subseteq req[r].labels
        /\ req[r].labels \subseteq labels \cup req[r].set
        /\ key \in req[r].labels
    BY <1>0 DEF Space!IInv, Space!AloneInv, Space!ReqInv
  <2> QED
    BY <1>1, <1>3, <2>1
<1> QED
  BY <1>0, <1>1, <1>2, <1>3, <1>4, <1>5, SpaceStep DEF Space!IInv, Space!TypeOK

\* An update is done, or is cut off.
LEMMA SpaceUpdated ==
    ASSUME Space!IInv, NEW r \in SpaceRequest, Space!Updated(r) \/ Space!Abandon(r)
    PROVE  Space!IInv'
<1> DEFINE q == [req[r] EXCEPT !.pc = "done"]
<1>0. /\ req \in [SpaceRequest -> SpaceState]
      /\ req[r].op = "update" /\ req[r].pc = "act"
  BY DEF Space!IInv, Space!TypeOK, SpaceState, Space!Updated, Space!Abandon
<1>1. /\ q \in SpaceState
      /\ q.op = req[r].op /\ q.labels = req[r].labels /\ q.pc = "done"
      /\ q.unset \cap q.labels = {} /\ q.set \subseteq q.labels
  BY <1>0 DEF SpaceState, Space!IInv, Space!ReqInv
<1>2. req' = [req EXCEPT ![r] = q]
  BY DEF Space!Updated, Space!Abandon, Space!Goto
<1> HIDE DEF q
<1>3. UNCHANGED <<exists, labels, value, functions, raced, alone>>
  BY DEF Space!Updated, Space!Abandon
<1>4. given' = {} \/ given' = {labels}
  <2>1. CASE Space!Updated(r) /\ r \in alone
    <3>1. given' = {req[r].labels}
      BY <2>1 DEF Space!Updated, Space!Wanted
    <3>2. req[r].unset = {} /\ req[r].set = {}
      BY <2>1 DEF Space!Updated
    <3>3. labels = req[r].labels
      BY <1>0, <2>1, <3>2 DEF Space!IInv, Space!AloneInv
    <3> QED
      BY <3>1, <3>3
  <2> QED
    BY <2>1 DEF Space!Updated, Space!Abandon, Space!Wanted
<1>5. Space!LabelsKept'
  BY <1>3, <1>4 DEF Space!IInv, Space!LabelsKept, Space!validNamespace
<1>6. given' \in {{}} \cup {{L} : L \in SUBSET Space!Label}
  BY <1>4 DEF Space!IInv, Space!TypeOK
<1> QED
  BY <1>0, <1>1, <1>2, <1>3, <1>5, <1>6, SpaceStep DEF Space!IInv, Space!TypeOK

LEMMA SpaceDelete ==
    ASSUME Space!IInv, NEW r \in SpaceRequest, Space!Delete(r)
    PROVE  Space!IInv'
<1>1. CASE ~ (exists /\ ~ functions)
  BY <1>1, SpaceGoto DEF Space!Delete
<1>2. CASE exists /\ ~ functions
  <2> DEFINE q == [req[r] EXCEPT !.pc = "done"]
  <2>0. req \in [SpaceRequest -> SpaceState] /\ req[r].pc = "act"
    BY DEF Space!IInv, Space!TypeOK, SpaceState, Space!Delete
  <2>1. /\ q \in SpaceState
        /\ q.op = req[r].op /\ q.labels = req[r].labels /\ q.pc = "done"
        /\ q.unset \cap q.labels = {} /\ q.set \subseteq q.labels
    BY <2>0 DEF SpaceState, Space!IInv, Space!ReqInv
  <2>2. req' = [req EXCEPT ![r] = q]
    BY DEF Space!Delete, Space!Goto
  <2> HIDE DEF q
  <2>3. /\ exists' = FALSE /\ labels' = {} /\ value' = "1" /\ given' = {}
        /\ raced' \in BOOLEAN
        /\ UNCHANGED <<functions, alone>>
    BY <1>2 DEF Space!Delete, Space!IInv, Space!TypeOK
  <2>4. Space!LabelsKept'
    BY <2>3 DEF Space!LabelsKept
  <2> QED
    BY <1>2, <2>0, <2>1, <2>2, <2>3, <2>4, SpaceStep DEF Space!IInv, Space!TypeOK
<1> QED
  BY <1>1, <1>2

\* A container is made, and with it the namespace if there is none, or removed.
LEMMA SpaceContainer ==
    ASSUME Space!IInv, NEW r \in SpaceRequest, Space!Deploy(r) \/ Space!Remove(r)
    PROVE  Space!IInv'
<1> DEFINE q == [req[r] EXCEPT !.pc = "done"]
<1>0. req \in [SpaceRequest -> SpaceState] /\ req[r].pc = "act"
  BY DEF Space!IInv, Space!TypeOK, SpaceState, Space!Deploy, Space!Remove
<1>1. /\ q \in SpaceState
      /\ q.op = req[r].op /\ q.labels = req[r].labels /\ q.pc = "done"
      /\ q.unset \cap q.labels = {} /\ q.set \subseteq q.labels
  BY <1>0 DEF SpaceState, Space!IInv, Space!ReqInv
<1>2. req' = [req EXCEPT ![r] = q]
  BY DEF Space!Deploy, Space!Remove, Space!Goto
<1> HIDE DEF q
<1>3. /\ UNCHANGED <<labels, value, given, alone>>
      /\ exists' \in BOOLEAN /\ functions' \in BOOLEAN /\ raced' \in BOOLEAN
      /\ labels' # {} \/ functions' => exists'
      /\ exists' /\ ~ raced' => exists /\ ~ raced
  <2>1. CASE Space!Deploy(r)
    BY <2>1 DEF Space!Deploy, Space!IInv, Space!TypeOK
  <2>2. CASE Space!Remove(r)
    BY <2>2 DEF Space!Remove, Space!IInv, Space!TypeOK
  <2> QED
    BY <2>1, <2>2
<1>4. Space!LabelsKept'
  BY <1>3 DEF Space!IInv, Space!LabelsKept, Space!validNamespace
<1> QED
  BY <1>0, <1>1, <1>2, <1>3, <1>4, SpaceStep DEF Space!IInv, Space!TypeOK

LEMMA SpaceNext ==
    ASSUME Space!NamespacesAssumption, Space!IInv, [Space!Next]_(Space!vars)
    PROVE  Space!IInv'
<1>1. ASSUME NEW r \in SpaceRequest, Space!CreateList(r) PROVE Space!IInv'
  BY <1>1, SpaceGoto DEF Space!CreateList
<1>2. ASSUME NEW r \in SpaceRequest, Space!CheckNamespace(r) PROVE Space!IInv'
  BY <1>2, SpaceGoto DEF Space!CheckNamespace
<1>3. CASE UNCHANGED Space!vars
  BY <1>3 DEF Space!vars, Space!IInv, Space!TypeOK, Space!ReqInv, Space!AloneInv,
              Space!LabelsKept, Space!validNamespace
<1> QED
  BY <1>1, <1>2, <1>3, SpaceReceive, SpaceCreate, SpaceUpdateChecks, SpaceUnset,
     SpaceSet, SpaceUpdated, SpaceDelete, SpaceContainer DEF Space!Next

LEMMA SpaceInvariance ==
    ASSUME Space!NamespacesAssumption
    PROVE  Space!Spec => []Space!IInv
<1>1. Space!Init => Space!IInv
  BY SpaceInit
<1>2. Space!IInv /\ [Space!Next]_(Space!vars) => Space!IInv'
  BY SpaceNext
<1> QED
  BY <1>1, <1>2, PTL DEF Space!Spec

\* mutate_namespaces.go sets and unsets labels one by one, without a lock: any
\* number of requests in any interleaving leave a namespace its openfaas label,
\* unless it was deleted or made under a running request, and exactly the
\* labels of the last request when requests come one at a time.
THEOREM LabelsStay ==
    ASSUME Space!NamespacesAssumption
    PROVE  Space!Spec => []Space!LabelsKept
<1>1. Space!IInv => Space!LabelsKept
  BY DEF Space!IInv
<1> QED
  BY <1>1, SpaceInvariance, PTL

-----------------------------------------------------------------------------
(* Addresses.                                                              *)

\* A line of a file is not the absence of a line.
LEMMA NetIdSome ==
    ASSUME NEW id \in Network!NetId
    PROVE  id # Network!None
<1>1. DOMAIN id = {"owner", "pid"}
  BY DEF Network!NetId
<1>2. DOMAIN <<>> = {}
  OBVIOUS
<1> QED
  BY <1>1, <1>2 DEF Network!None

LEMMA NetworkInit == Network!Init => Network!IInv
<1> SUFFICES ASSUME Network!Init PROVE Network!IInv
  OBVIOUS
<1> USE DEF Network!Init
<1>1. Network!TypeOK
  BY DEF Network!TypeOK
<1>2. Network!PidsOwned /\ Network!FilesLive
  BY DEF Network!PidsOwned, Network!FilesLive
<1> QED
  BY <1>1, <1>2 DEF Network!IInv

\* A task with a PID that no task has.
LEMMA NetworkNewTask ==
    ASSUME Network!AddressesAssumption, Network!IInv,
           NEW c \in Container, NEW p \in Pid,
           Network!CreateTask(c, p) \/ Network!CreateTaskFails(c, p)
    PROVE  Network!IInv'
<1> DEFINE id == [owner |-> c, pid |-> p]
<1>1. /\ task[c] = Network!None /\ \A d \in Container : task[d] # p
      /\ used' = used \cup {p}
      /\ wrapped' = (wrapped \/ p \in used)
      /\ task' = [task EXCEPT ![c] = p]
      /\ UNCHANGED <<removing, leaks>>
  BY DEF Network!CreateTask, Network!CreateTaskFails, Network!NewTask
<1>2. /\ id \in Network!NetId /\ id.owner = c /\ id.pid = p
      /\ p # Network!None
  BY DEF Network!NetId, Network!AddressesAssumption, Network!None
<1> HIDE DEF id
<1>3. \A k \in Container : task'[k] = IF k = c THEN p ELSE task[k]
  BY <1>1 DEF Network!IInv, Network!TypeOK
<1>4. PICK new \in SUBSET Network!Address :
          /\ file' \in [Network!Address -> Network!NetId \cup {Network!None}]
          /\ \A a \in Network!Address :
                 file'[a] = IF a \in new THEN id ELSE file[a]
  <2>1. CASE UNCHANGED file
    <3>1. \A a \in Network!Address : file'[a] = IF a \in {} THEN id ELSE file[a]
      BY <2>1
    <3>2. {} \in SUBSET Network!Address
      OBVIOUS
    <3>3. file' \in [Network!Address -> Network!NetId \cup {Network!None}]
      BY <2>1 DEF Network!IInv, Network!TypeOK
    <3> QED
      BY <3>1, <3>2, <3>3
  <2>2. CASE Network!CreateTask(c, p)
    <3>1. PICK a \in Network!Address : file' = [file EXCEPT ![a] = id]
      BY <2>2 DEF Network!CreateTask, Network!Setup, id
    <3>2. \A b \in Network!Address : file'[b] = IF b \in {a} THEN id ELSE file[b]
      BY <3>1 DEF Network!IInv, Network!TypeOK
    <3>3. file' \in [Network!Address -> Network!NetId \cup {Network!None}]
      BY <1>2, <3>1 DEF Network!IInv, Network!TypeOK
    <3>4. {a} \in SUBSET Network!Address
      OBVIOUS
    <3> QED
      BY <3>2, <3>3, <3>4
  <2> QED
    BY <2>1, <2>2 DEF Network!CreateTaskFails
<1>5. Network!TypeOK'
  <2>1. task' \in [Container -> Pid \cup {Network!None}]
    BY <1>1 DEF Network!IInv, Network!TypeOK
  <2>2. /\ removing' \subseteq {k \in Container : task'[k] # Network!None}
        /\ used' \subseteq Pid /\ leaks' \in BOOLEAN
    BY <1>1, <1>2, <1>3 DEF Network!IInv, Network!TypeOK
  <2>4. wrapped' \in BOOLEAN
    BY <1>1
  <2>3. \A k, l \in Container :
            k # l /\ task'[k] = task'[l] => task'[k] = Network!None
    BY <1>1, <1>2, <1>3 DEF Network!IInv, Network!TypeOK
  <2> QED
    BY <1>4, <2>1, <2>2, <2>3, <2>4 DEF Network!TypeOK
<1>6. Network!PidsOwned'
  <2>1. \A k \in Container : task'[k] # Network!None => task'[k] \in used'
    BY <1>1, <1>3 DEF Network!IInv, Network!PidsOwned
  <2>2. ASSUME NEW a \in Network!Address, file'[a] # Network!None
        PROVE  /\ file'[a].pid \in used'
               /\ ~ wrapped' =>
                      \A k \in Container : task'[k] = file'[a].pid => k = file'[a].owner
    <3>0. ~ wrapped' => ~ wrapped /\ p \notin used
      BY <1>1
    <3>1. CASE a \in new
      BY <1>1, <1>2, <1>3, <1>4, <3>1 DEF Network!IInv, Network!PidsOwned
    <3>2. CASE a \notin new
      BY <1>1, <1>3, <1>4, <2>2, <3>0, <3>2 DEF Network!IInv, Network!PidsOwned
    <3> QED
      BY <3>1, <3>2
  <2> QED
    BY <2>1, <2>2 DEF Network!PidsOwned
<1>7. Network!FilesLive'
  <2> SUFFICES ASSUME ~ leaks, NEW a \in Network!Address, file'[a] # Network!None
               PROVE  /\ task'[file'[a].owner] = file'[a].pid
                      /\ file'[a].owner \notin removing
    BY <1>1 DEF Network!FilesLive
  <2>1. CASE a \in new
    BY <1>1, <1>2, <1>3, <1>4, <2>1 DEF Network!IInv, Network!TypeOK
  <2>2. CASE a \notin new
    <3>1. /\ file'[a] = file[a] /\ file[a].owner \in Container
          /\ task[file[a].owner] = file[a].pid /\ file[a].owner \notin removing
          /\ file[a].pid \in Pid
      BY <1>4, <2>2 DEF Network!IInv, Network!FilesLive, Network!TypeOK, Network!NetId
    <3>2. file[a].owner # c
      BY <1>1, <3>1 DEF Network!AddressesAssumption, Network!None
    <3> QED
      BY <1>3, <3>1, <3>2
  <2> QED
    BY <2>1, <2>2
<1> QED
  BY <1>5, <1>6, <1>7 DEF Network!IInv

\* The files of a task are taken away before the task.
LEMMA NetworkDelete ==
    ASSUME Network!IInv, NEW c \in Container, Network!DeleteCNINetwork(c)
    PROVE  Network!IInv'
<1> DEFINE id == Network!netID(c)
<1>1. /\ task[c] # Network!None
      /\ removing' = removing \cup {c}
      /\ \A a \in Network!Address :
             file'[a] = IF file[a] = id THEN Network!None ELSE file[a]
      /\ UNCHANGED <<task, used, wrapped, leaks>>
  BY DEF Network!DeleteCNINetwork, Network!FreedFor
<1>2. id.owner = c /\ id.pid = task[c]
  BY DEF Network!netID
<1> HIDE DEF id
<1>3. Network!TypeOK'
  BY <1>1 DEF Network!DeleteCNINetwork, Network!FreedFor, Network!IInv, Network!TypeOK
<1>4. Network!PidsOwned'
  BY <1>1 DEF Network!IInv, Network!PidsOwned
<1>5. Network!FilesLive'
  <2> SUFFICES ASSUME ~ leaks, NEW a \in Network!Address, file'[a] # Network!None
               PROVE  /\ task[file'[a].owner] = file'[a].pid
                      /\ file'[a].owner \notin removing \cup {c}
    BY <1>1 DEF Network!FilesLive
  <2>1. file'[a] = file[a] /\ file[a] # id /\ file[a] # Network!None
    BY <1>1
  <2>2. /\ task[file[a].owner] = file[a].pid /\ file[a].owner \notin removing
        /\ file[a] \in Network!NetId
    BY <2>1 DEF Network!IInv, Network!FilesLive, Network!TypeOK
  <2>3. file[a].owner # c
    BY <2>1, <2>2 DEF Network!NetId, id, Network!netID
  <2> QED
    BY <2>1, <2>2, <2>3
<1> QED
  BY <1>3, <1>4, <1>5 DEF Network!IInv

\* A task goes: its files are gone already, or may be forgotten.
LEMMA NetworkRemove ==
    ASSUME Network!AddressesAssumption, Network!IInv, NEW c \in Container,
           Network!RemoveTask(c) \/ Network!RemoveOld(c)
    PROVE  Network!IInv'
<1>1. /\ task' = [task EXCEPT ![c] = Network!None]
      /\ removing' \subseteq removing \ {c}
      /\ leaks \/ c \in removing
      /\ UNCHANGED <<file, used, wrapped, leaks>>
  BY DEF Network!RemoveTask, Network!RemoveOld
<1>2. \A k \in Container : task'[k] = IF k = c THEN Network!None ELSE task[k]
  BY <1>1 DEF Network!IInv, Network!TypeOK
<1>3. Network!TypeOK'
  BY <1>1, <1>2 DEF Network!IInv, Network!TypeOK
<1>4. Network!PidsOwned'
  <2>1. \A a \in Network!Address :
            file[a] # Network!None => file[a].pid # Network!None
    BY DEF Network!IInv, Network!TypeOK, Network!NetId,
           Network!AddressesAssumption, Network!None
  <2> QED
    BY <1>1, <1>2, <2>1 DEF Network!IInv, Network!PidsOwned
<1>5. Network!FilesLive'
  BY <1>1, <1>2 DEF Network!IInv, Network!FilesLive, Network!TypeOK, Network!NetId
<1> QED
  BY <1>3, <1>4, <1>5 DEF Network!IInv

\* A running task is given a file.
LEMMA NetworkEnsure ==
    ASSUME Network!IInv, NEW c \in Container, Network!EnsureTaskRunning(c)
    PROVE  Network!IInv'
<1> DEFINE id == Network!netID(c)
<1>1. /\ leaks /\ task[c] # Network!None
      /\ UNCHANGED <<task, removing, used, wrapped, leaks>>
  BY DEF Network!EnsureTaskRunning
<1>2. PICK a \in Network!Address : file' = [file EXCEPT ![a] = id]
  BY DEF Network!EnsureTaskRunning, Network!Setup
<1>3. id \in Network!NetId /\ id.owner = c /\ id.pid = task[c]
  BY <1>1 DEF Network!IInv, Network!TypeOK, Network!netID, Network!NetId
<1> HIDE DEF id
<1>4. /\ file' \in [Network!Address -> Network!NetId \cup {Network!None}]
      /\ \A b \in Network!Address : file'[b] = IF b = a THEN id ELSE file[b]
  BY <1>2, <1>3 DEF Network!IInv, Network!TypeOK
<1>5. Network!TypeOK'
  BY <1>1, <1>4 DEF Network!IInv, Network!TypeOK
<1>6. Network!PidsOwned'
  <2>1. ASSUME NEW b \in Network!Address, file'[b] # Network!None
        PROVE  /\ file'[b].pid \in used
               /\ ~ wrapped =>
                      \A k \in Container : task[k] = file'[b].pid => k = file'[b].owner
    <3>1. CASE b = a
      BY <1>1, <1>3, <1>4, <3>1 DEF Network!IInv, Network!PidsOwned, Network!TypeOK
    <3>2. CASE b # a
      BY <1>4, <2>1, <3>2 DEF Network!IInv, Network!PidsOwned
    <3> QED
      BY <3>1, <3>2
  <2> QED
    BY <1>1, <2>1 DEF Network!IInv, Network!PidsOwned
<1>7. Network!FilesLive'
  BY <1>1 DEF Network!FilesLive
<1> QED
  BY <1>5, <1>6, <1>7 DEF Network!IInv

LEMMA NetworkNext ==
    ASSUME Network!AddressesAssumption, Network!IInv, [Network!Next]_(Network!vars)
    PROVE  Network!IInv'
<1>1. CASE Network!Reboot
  BY <1>1 DEF Network!Reboot, Network!IInv, Network!TypeOK, Network!PidsOwned,
              Network!FilesLive
<1>2. CASE UNCHANGED Network!vars
  BY <1>2 DEF Network!vars, Network!IInv, Network!TypeOK, Network!PidsOwned,
              Network!FilesLive
<1> QED
  BY <1>1, <1>2, NetworkNewTask, NetworkDelete, NetworkRemove, NetworkEnsure
     DEF Network!Next

\* The first file that matches is one that matches.
LEMMA FirstMatch ==
    ASSUME Network!AddressesAssumption, NEW c,
           Network!GetIPAddress(c) # 0
    PROVE  /\ Network!GetIPAddress(c) \in Network!Address
           /\ Network!isCNIResultForPID(file[Network!GetIPAddress(c)], c)
           /\ task[c] # Network!None
<1> DEFINE M == Network!Matches(c)
<1>1. M # {} /\ task[c] # Network!None
  BY DEF Network!GetIPAddress
<1>2. M \subseteq Nat /\ M \subseteq Network!Address
  BY DEF Network!Matches, Network!Address, Network!AddressesAssumption
<1> HIDE DEF M
<1>3. PICK m \in M : \A b \in M : m <= b
  <2> DEFINE R == {ss \in Nat \X Nat : ss[1] < ss[2]}
  <2>1. IsWellFoundedOn(R, Nat)
    BY NatLessThanWellFounded DEF OpToRel
  <2>2. \A x, y \in Nat : y < x => <<y, x>> \in R
    OBVIOUS
  <2> HIDE DEF R
  <2>3. PICK m \in M : \A b \in M : ~ (<<b, m>> \in R)
    BY <1>1, <1>2, <2>1, WFMin
  <2>4. ASSUME NEW b \in M PROVE m <= b
    <3>1. m \in Nat /\ b \in Nat
      BY <1>2
    <3>2. ~ (b < m)
      BY <2>2, <2>3, <3>1
    <3> QED
      BY <3>1, <3>2
  <2> QED
    BY <2>4
<1>4. Network!GetIPAddress(c) \in M
  BY <1>1, <1>3 DEF Network!GetIPAddress, M
<1> QED
  BY <1>1, <1>2, <1>4 DEF Network!Matches, M

LEMMA NetworkInvariance ==
    ASSUME Network!AddressesAssumption
    PROVE  Network!Spec => []Network!IInv
<1>1. Network!Init => Network!IInv
  BY NetworkInit
<1>2. Network!IInv /\ [Network!Next]_(Network!vars) => Network!IInv'
  BY NetworkNext
<1> QED
  BY <1>1, <1>2, PTL DEF Network!Spec

\* The characters of a line.
LEMMA LineAt ==
    ASSUME NEW S, NEW n \in Seq(S), NEW p \in Seq(S), NEW u \in S
    PROVE  /\ n \o <<u>> \o p \in Seq(S)
           /\ Len(n \o <<u>> \o p) = Len(n) + 1 + Len(p)
           /\ \A i \in 1 .. Len(n) : (n \o <<u>> \o p)[i] = n[i]
           /\ (n \o <<u>> \o p)[Len(n) + 1] = u
           /\ \A i \in 1 .. Len(p) : (n \o <<u>> \o p)[Len(n) + 1 + i] = p[i]
<1>1. PICK d \in Seq(S) : d = <<u>> /\ Len(d) = 1 /\ d[1] = u
  <2>1. <<u>> \in Seq(S) /\ Len(<<u>>) = 1 /\ <<u>>[1] = u
    OBVIOUS
  <2> QED
    BY <2>1
<1>2. PICK h \in Seq(S) : h = n \o d
  BY ConcatProperties
<1>3. /\ Len(h) = Len(n) + 1
      /\ \A i \in 1 .. Len(n) + 1 : h[i] = IF i <= Len(n) THEN n[i] ELSE d[i - Len(n)]
  BY <1>1, <1>2, ConcatProperties
<1>4. PICK l \in Seq(S) : l = h \o p
  BY ConcatProperties
<1>5. /\ Len(l) = Len(h) + Len(p)
      /\ \A i \in 1 .. Len(h) + Len(p) : l[i] = IF i <= Len(h) THEN h[i] ELSE p[i - Len(h)]
  BY <1>4, ConcatProperties
<1>6. Len(n) \in Nat /\ Len(p) \in Nat
  OBVIOUS
<1>7. Len(l) = Len(n) + 1 + Len(p)
  BY <1>3, <1>5, <1>6
<1>8. \A i \in 1 .. Len(n) : l[i] = n[i]
  BY <1>3, <1>5, <1>6
<1>9. l[Len(n) + 1] = u
  BY <1>1, <1>3, <1>5, <1>6
<1>10. \A i \in 1 .. Len(p) : l[Len(n) + 1 + i] = p[i]
  BY <1>3, <1>5, <1>6
<1> QED
  BY <1>1, <1>2, <1>4, <1>7, <1>8, <1>9, <1>10

\* The library's prefixes and suffixes, character by character.
LEMMA PrefixAt ==
    ASSUME NEW S, NEW s \in Seq(S), NEW t \in Seq(S), Len(s) <= Len(t),
           \A j \in 1 .. Len(s) : t[j] = s[j]
    PROVE  Network!IsPrefix(s, t)
<1>1. Len(s) \in Nat /\ Len(t) \in Nat
  OBVIOUS
<1>2. SubSeq(s, 1, Len(s)) = [j \in 1 .. Len(s) |-> s[j]]
  BY <1>1
<1>3. SubSeq(t, 1, Len(s)) = [j \in 1 .. Len(s) |-> t[j]]
  BY <1>1
<1> QED
  BY <1>2, <1>3 DEF Network!IsPrefix

LEMMA SuffixAt ==
    ASSUME NEW S, NEW s \in Seq(S), NEW t \in Seq(S), NEW i \in Nat,
           i + Len(s) = Len(t), \A j \in 1 .. Len(s) : t[i + j] = s[j]
    PROVE  Network!IsSuffix(s, t)
<1> DEFINE a == Network!Reverse(s)
           b == Network!Reverse(t)
<1>1. Len(s) \in Nat /\ Len(t) \in Nat
  OBVIOUS
<1>2. /\ a = [j \in 1 .. Len(s) |-> s[(Len(s) - j) + 1]]
      /\ b = [j \in 1 .. Len(t) |-> t[(Len(t) - j) + 1]]
  BY DEF Network!Reverse
<1>3. a \in Seq(S) /\ Len(a) = Len(s)
  <2>1. \A j \in 1 .. Len(s) : s[(Len(s) - j) + 1] \in S
    BY <1>1
  <2> QED
    BY <1>1, <1>2, <2>1
<1>4. b \in Seq(S) /\ Len(b) = Len(t)
  <2>1. \A j \in 1 .. Len(t) : t[(Len(t) - j) + 1] \in S
    BY <1>1
  <2> QED
    BY <1>1, <1>2, <2>1
<1>5. ASSUME NEW j \in 1 .. Len(a) PROVE b[j] = a[j]
  <2>1. PICK k \in 1 .. Len(s) : k = (Len(s) - j) + 1
    <3>1. j \in 1 .. Len(s)
      BY <1>3
    <3>2. (Len(s) - j) + 1 \in 1 .. Len(s)
      BY <1>1, <3>1
    <3> QED
      BY <3>2
  <2>2. i + k = (Len(t) - j) + 1 /\ j \in 1 .. Len(t) /\ j \in 1 .. Len(s)
    BY <1>1, <1>3, <2>1
  <2>3. t[i + k] = s[k]
    OBVIOUS
  <2> QED
    BY <1>2, <2>1, <2>2, <2>3
<1>6. Len(a) <= Len(b)
  BY <1>1, <1>3, <1>4
<1> HIDE DEF a, b
<1>7. Network!IsPrefix(a, b)
  BY <1>3, <1>4, <1>5, <1>6, PrefixAt
<1> QED
  BY <1>7 DEF Network!IsSuffix, a, b

\* A line that has "<n>-<p>" in it is that of a name that ends with n and a PID
\* that begins with p, unless its name has n in it with "-" and a digit.
LEMMA LineOf ==
    ASSUME NEW n \in Seq(STRING), NEW m \in Seq(STRING),
           NEW p \in Seq(Network!Digit), NEW q \in Seq(Network!Digit), p # <<>>,
           Network!Contained(Network!Line(n, p), Network!Line(m, q)),
           \A g \in Network!Digit : ~ Network!Contained(n \o <<Network!Dash, g>>, m)
    PROVE  Network!IsSuffix(n, m) /\ Network!IsPrefix(p, q)
<1>1. PICK u : u = Network!Dash
  OBVIOUS
<1>2. PICK D : D = Network!Digit
  OBVIOUS
<1>3. u \notin D
  BY <1>1, <1>2 DEF Network!Digit, Network!Dash
<1> DEFINE S == STRING \cup D \cup {u}
           s == n \o <<u>> \o p
           t == m \o <<u>> \o q
<1>4. n \in Seq(S) /\ m \in Seq(S) /\ D \in SUBSET S /\ u \in S \ D
  BY <1>3
<1>5. p \in Seq(D) /\ q \in Seq(D) /\ p \in Seq(S) /\ q \in Seq(S)
  BY <1>2
<1>6. s = Network!Line(n, p) /\ t = Network!Line(m, q)
  BY <1>1, Zenon DEF Network!Line
<1>7. PICK i \in 0 .. Len(t) :
          i + Len(s) <= Len(t) /\ \A j \in 1 .. Len(s) : t[i + j] = s[j]
  <2>1. Network!Contained(s, t)
    BY <1>6
  <2> HIDE DEF s, t
  <2> QED
    BY <2>1 DEF Network!Contained
<1>8. i \in Nat
  OBVIOUS
<1> HIDE DEF S
\* The separators meet, or that of the first meets a "-" of the name, with a
\* digit after it.
<1>9. /\ \A j \in 1 .. Len(n) : t[i + j] = n[j]
      /\ t[i + Len(n) + 1] = u
      /\ \A j \in 1 .. Len(p) : t[i + Len(n) + 1 + j] = p[j]
      /\ \/ i + Len(n) = Len(m) /\ Len(p) <= Len(q)
         \/ i + Len(n) + 2 <= Len(m)
  <2>1. /\ Len(n) \in Nat /\ Len(m) \in Nat /\ Len(p) \in Nat /\ Len(q) \in Nat
        /\ Len(p) # 0
    OBVIOUS
  <2>2. /\ Len(s) = Len(n) + 1 + Len(p)
        /\ \A j \in 1 .. Len(n) : s[j] = n[j]
        /\ s[Len(n) + 1] = u
        /\ \A j \in 1 .. Len(p) : s[Len(n) + 1 + j] = p[j]
    BY <1>4, <1>5, LineAt
  <2>3. /\ Len(t) = Len(m) + 1 + Len(q)
        /\ \A j \in 1 .. Len(m) : t[j] = m[j]
        /\ t[Len(m) + 1] = u
        /\ \A j \in 1 .. Len(q) : t[Len(m) + 1 + j] = q[j]
    BY <1>4, <1>5, LineAt
  <2> HIDE DEF s, t
  <2>4. ASSUME NEW j \in 1 .. Len(n) PROVE t[i + j] = n[j]
    <3>1. j \in 1 .. Len(s)
      BY <2>1, <2>2
    <3> QED
      BY <1>7, <2>2, <3>1
  <2>5. t[i + Len(n) + 1] = u
    <3>1. Len(n) + 1 \in 1 .. Len(s)
      BY <2>1, <2>2
    <3>2. t[i + (Len(n) + 1)] = s[Len(n) + 1]
      BY <1>7, <3>1
    <3>3. i + (Len(n) + 1) = i + Len(n) + 1
      BY <1>8, <2>1
    <3> QED
      BY <2>2, <3>2, <3>3
  <2>6. ASSUME NEW j \in 1 .. Len(p) PROVE t[i + Len(n) + 1 + j] = p[j]
    <3>1. Len(n) + 1 + j \in 1 .. Len(s)
      BY <2>1, <2>2
    <3>2. t[i + (Len(n) + 1 + j)] = s[Len(n) + 1 + j]
      BY <1>7, <3>1
    <3>3. i + (Len(n) + 1 + j) = i + Len(n) + 1 + j
      BY <1>8, <2>1
    <3> QED
      BY <2>2, <3>2, <3>3
  <2>7. ~ (i + Len(n) > Len(m))
    <3> SUFFICES ASSUME i + Len(n) > Len(m) PROVE FALSE
      OBVIOUS
    <3>1. PICK j \in Nat : j = i + Len(n) - Len(m)
      <4>1. i + Len(n) - Len(m) \in Nat
        BY <1>8, <2>1
      <4> QED
        BY <4>1
    <3>2. j \in 1 .. Len(q) /\ Len(m) + 1 + j = i + Len(n) + 1
      BY <1>7, <1>8, <2>1, <2>2, <2>3, <3>1
    <3>3. t[i + Len(n) + 1] = q[j] /\ q[j] \in D
      BY <1>5, <2>3, <3>2
    <3> QED
      BY <1>3, <2>5, <3>3
  <2>8. i + Len(n) + 1 # Len(m)
    <3> SUFFICES ASSUME i + Len(n) + 1 = Len(m) PROVE FALSE
      OBVIOUS
    <3>1. 1 \in 1 .. Len(p)
      <4>1. PICK k \in Nat : k = Len(p) /\ k # 0
        BY <2>1
      <4>2. 1 \in 1 .. k
        BY <4>1
      <4> QED
        BY <4>1, <4>2
    <3>2. i + Len(n) + 1 + 1 = Len(m) + 1
      BY <1>8, <2>1
    <3>3. t[Len(m) + 1] = p[1] /\ p[1] \in D
      BY <1>5, <2>6, <3>1, <3>2
    <3> QED
      BY <1>3, <2>3, <3>3
  <2>9. i + Len(n) = Len(m) => Len(p) <= Len(q)
    BY <1>7, <1>8, <2>1, <2>2, <2>3
  <2>10. i + Len(n) = Len(m) \/ i + Len(n) + 2 <= Len(m)
    BY <1>8, <2>1, <2>7, <2>8
  <2> QED
    BY <2>4, <2>5, <2>6, <2>9, <2>10
<1>10. /\ \A j \in 1 .. Len(m) : t[j] = m[j]
       /\ \A j \in 1 .. Len(q) : t[Len(m) + 1 + j] = q[j]
  BY <1>4, <1>5, LineAt
<1>11. Len(n) \in Nat /\ Len(m) \in Nat /\ Len(p) \in Nat /\ Len(p) # 0 /\ Len(q) \in Nat
  OBVIOUS
<1> HIDE DEF s, t
<1>12. ~ (i + Len(n) + 2 <= Len(m))
  <2> SUFFICES ASSUME i + Len(n) + 2 <= Len(m) PROVE FALSE
    OBVIOUS
  <2>1. PICK g \in D : g = p[1]
    BY <1>5, <1>11
  <2> DEFINE w == n \o <<u, g>>
  <2>2. /\ Len(w) = Len(n) + 2
        /\ \A j \in 1 .. Len(n) : w[j] = n[j]
        /\ w[Len(n) + 1] = u /\ w[Len(n) + 2] = g
    <3>1. PICK d \in Seq(S) : d = <<u, g>> /\ Len(d) = 2 /\ d[1] = u /\ d[2] = g
      <4>1. u \in S /\ g \in S
        BY <1>4
      <4>2. <<u, g>> \in Seq(S) /\ Len(<<u, g>>) = 2 /\ <<u, g>>[1] = u /\ <<u, g>>[2] = g
        BY <4>1
      <4> QED
        BY <4>2
    <3>2. /\ Len(n \o d) = Len(n) + 2
          /\ \A j \in 1 .. Len(n) + 2 :
                 (n \o d)[j] = IF j <= Len(n) THEN n[j] ELSE d[j - Len(n)]
      BY <1>4, <3>1, ConcatProperties
    <3> QED
      BY <1>11, <3>1, <3>2
  <2>3. t[i + Len(n) + 1 + 1] = g
    <3>1. 1 \in 1 .. Len(p)
      <4>1. PICK k \in Nat : k = Len(p) /\ k # 0
        BY <1>11
      <4>2. 1 \in 1 .. k
        BY <4>1
      <4> QED
        BY <4>1, <4>2
    <3> QED
      BY <1>9, <2>1, <3>1
  <2>4. ASSUME NEW j \in 1 .. Len(w) PROVE m[i + j] = w[j]
    <3> HIDE DEF w
    <3>1. i + j \in 1 .. Len(m)
      BY <1>8, <1>11, <2>2
    <3>2. t[i + j] = m[i + j]
      BY <1>10, <3>1
    <3>3. CASE j <= Len(n)
      <4>1. j \in 1 .. Len(n)
        BY <1>11, <3>3
      <4> QED
        BY <1>9, <2>2, <3>2, <4>1
    <3>4. CASE j = Len(n) + 1
      <4>1. i + j = i + Len(n) + 1
        BY <1>8, <1>11, <3>4
      <4> QED
        BY <1>9, <2>2, <3>2, <3>4, <4>1
    <3>5. CASE j = Len(n) + 2
      <4>1. i + j = i + Len(n) + 1 + 1
        BY <1>8, <1>11, <3>5
      <4> QED
        BY <2>2, <2>3, <3>2, <3>5, <4>1
    <3>6. j <= Len(n) \/ j = Len(n) + 1 \/ j = Len(n) + 2
      <4>1. PICK k \in Nat : k = Len(n) /\ j \in 1 .. k + 2
        BY <1>11, <2>2
      <4>2. j <= k \/ j = k + 1 \/ j = k + 2
        BY <4>1
      <4> QED
        BY <4>1, <4>2
    <3> QED
      BY <3>3, <3>4, <3>5, <3>6
  <2>5. i + Len(w) <= Len(m) /\ i \in 0 .. Len(m)
    BY <1>8, <1>11, <2>2
  <2> HIDE DEF w
  <2>6. Network!Contained(w, m)
    BY <2>4, <2>5 DEF Network!Contained
  <2>7. w = n \o <<Network!Dash, g>> /\ g \in Network!Digit
    BY <1>1, <1>2, Zenon DEF w
  <2> QED
    BY <2>6, <2>7
<1>13. i + Len(n) = Len(m) /\ Len(p) <= Len(q)
  BY <1>9, <1>12
<1>14. \A j \in 1 .. Len(n) : m[i + j] = n[j]
  BY <1>8, <1>9, <1>10, <1>11, <1>13
<1>15. ASSUME NEW j \in 1 .. Len(p) PROVE q[j] = p[j]
  <2>1. j \in 1 .. Len(q)
    BY <1>11, <1>13
  <2>2. i + Len(n) + 1 + j = Len(m) + 1 + j
    BY <1>13
  <2>3. t[i + Len(n) + 1 + j] = p[j] /\ t[Len(m) + 1 + j] = q[j]
    BY <1>9, <1>10, <2>1
  <2> QED
    BY <2>2, <2>3
<1> QED
  BY <1>4, <1>5, <1>8, <1>13, <1>14, <1>15, PrefixAt, SuffixAt

\* cni_network.go:150 searches the files of the CNI plugin for a name, "-" and
\* a PID: with any containers, PIDs and addresses, PIDs that come again,
\* removals in two steps and boots, the address it finds for a task is held by
\* that task, as long as no name has this one in it with "-" and a digit and at
\* most one of three things makes lines alike; and without the paths that forget
\* it every address in use is that of a task.
THEOREM AddressIsRight ==
    ASSUME Network!AddressesAssumption
    PROVE  Network!Spec => []Network!AddressRight
<1>1. ASSUME Network!IInv, NEW c \in Container,
             Network!GetIPAddress(c) # 0, Network!NotNumbered(c),
             \/ Network!PrefixFree /\ (~ leaks \/ Network!OwnEnding(c) \/ ~ wrapped)
             \/ ~ leaks /\ Network!OwnEnding(c)
      PROVE  /\ Network!GetIPAddress(c) \in Network!Address
             /\ file[Network!GetIPAddress(c)] = Network!netID(c)
  <2> DEFINE a == Network!GetIPAddress(c)
  <2>1. /\ a \in Network!Address /\ Network!isCNIResultForPID(file[a], c)
        /\ task[c] # Network!None
    BY <1>1, FirstMatch
  <2> HIDE DEF a
  <2>2. /\ file[a] \in Network!NetId /\ file[a] # Network!None
        /\ Network!Contained(Network!Line(c.name, task[c]),
                             Network!Line(file[a].owner.name, file[a].pid))
    BY <1>1, <2>1 DEF Network!isCNIResultForPID, Network!IInv, Network!TypeOK
  <2>3. file[a].owner \in Container /\ file[a].pid \in used /\ task[c] \in used
    BY <1>1, <2>1, <2>2 DEF Network!IInv, Network!PidsOwned, Network!NetId
  <2>4. /\ c.name \in Seq(STRING) /\ file[a].owner.name \in Seq(STRING)
        /\ task[c] \in Seq(Network!Digit) /\ task[c] # <<>>
        /\ file[a].pid \in Seq(Network!Digit)
    BY <1>1, <2>2, <2>3 DEF Network!AddressesAssumption, Network!IInv, Network!TypeOK
  <2>5. /\ Network!IsSuffix(c.name, file[a].owner.name)
        /\ Network!IsPrefix(task[c], file[a].pid)
    <3>1. \A g \in Network!Digit :
              ~ Network!Contained(c.name \o <<Network!Dash, g>>, file[a].owner.name)
      BY <1>1, <2>3 DEF Network!NotNumbered
    <3>2. PICK n \in Seq(STRING) : n = c.name
      BY <2>4
    <3>3. PICK m \in Seq(STRING) : m = file[a].owner.name
      BY <2>4
    <3>4. PICK p \in Seq(Network!Digit) : p = task[c] /\ p # <<>>
      BY <2>4
    <3>5. PICK q \in Seq(Network!Digit) : q = file[a].pid
      BY <2>4
    <3>6. Network!IsSuffix(n, m) /\ Network!IsPrefix(p, q)
      BY <2>2, <3>1, <3>2, <3>3, <3>4, <3>5, LineOf
    <3> QED
      BY <3>2, <3>3, <3>4, <3>5, <3>6
  <2>6. Network!PrefixFree => task[c] = file[a].pid
    BY <2>3, <2>5 DEF Network!PrefixFree
  <2>7. Network!OwnEnding(c) => file[a].owner = c
    BY <2>3, <2>5 DEF Network!OwnEnding
  <2>8. ~ leaks => task[file[a].owner] = file[a].pid
    BY <1>1, <2>1, <2>2 DEF Network!IInv, Network!FilesLive
  <2>9. file[a].owner = c /\ file[a].pid = task[c]
    <3>1. CASE Network!PrefixFree /\ ~ wrapped
      BY <1>1, <2>1, <2>2, <2>6, <3>1 DEF Network!IInv, Network!PidsOwned
    <3>2. CASE Network!PrefixFree /\ Network!OwnEnding(c)
      BY <2>6, <2>7, <3>2
    <3>3. CASE Network!PrefixFree /\ ~ leaks
      <4>1. task[file[a].owner] = task[c]
        BY <2>6, <2>8, <3>3
      <4> QED
        BY <1>1, <2>1, <2>3, <2>6, <3>3, <4>1 DEF Network!IInv, Network!TypeOK
    <3>4. CASE ~ leaks /\ Network!OwnEnding(c)
      BY <2>7, <2>8, <3>4
    <3> QED
      BY <1>1, <3>1, <3>2, <3>3, <3>4
  <2>10. file[a] = Network!netID(c)
    BY <2>2, <2>9 DEF Network!NetId, Network!netID
  <2> QED
    BY <2>1, <2>10 DEF a
<1>2. ASSUME Network!IInv, ~ leaks, NEW a \in Network!Address, file[a] # Network!None
      PROVE  \E c \in Container : file[a] = Network!netID(c)
  <2>1. file[a] \in Network!NetId /\ task[file[a].owner] = file[a].pid
    BY <1>2 DEF Network!IInv, Network!TypeOK, Network!FilesLive
  <2>2. file[a] = Network!netID(file[a].owner) /\ file[a].owner \in Container
    BY <2>1 DEF Network!NetId, Network!netID
  <2> QED
    BY <2>2
<1>3. Network!IInv => Network!AddressRight
  BY <1>1, <1>2 DEF Network!AddressRight
<1> QED
  BY <1>3, NetworkInvariance, PTL

-----------------------------------------------------------------------------
(* The methods of the catalog, statement by statement.                     *)

RaceState ==
    [op : Race!Operations \cup {"none"}, node : Node, msg : {-1, 0, 1},
     pc : {"idle", "write", "list", "range", "sum", "store", "drop", "done",
           "panicked"},
     due : SUBSET Node, sum : 0 .. Cardinality(Node), listed : BOOLEAN]

Running(S) == {m \in S : avail[m] = 1}

\* CatalogRace counts as this module does.
LEMMA SameCount ==
    \A S : Race!Cardinality(S) = Cardinality(S) /\ (Race!IsFiniteSet(S) <=> IsFiniteSet(S))
BY DEF Race!Cardinality, Cardinality, Race!IsFiniteSet, IsFiniteSet

\* Counting nodes.
LEMMA NodesFinite ==
    ASSUME Race!CatalogRaceAssumption, NEW S \in SUBSET Node
    PROVE  /\ IsFiniteSet(S) /\ Cardinality(S) \in Nat
           /\ IsFiniteSet(Running(S)) /\ Cardinality(Running(S)) \in Nat
           /\ Cardinality(S) <= Cardinality(Node)
           /\ Cardinality(Node) \in Nat
<1>1. IsFiniteSet(Node) /\ Running(S) \subseteq Node
  BY SameCount DEF Race!CatalogRaceAssumption, Running
<1> QED
  BY <1>1, FS_Subset, FS_CardinalityType

\* A node whose turn has come is counted once.
LEMMA MetNode ==
    ASSUME Race!CatalogRaceAssumption, Race!TypeOK,
           NEW S \in SUBSET Node, NEW m \in S
    PROVE  /\ Cardinality(S \ {m}) = Cardinality(S) - 1
           /\ Cardinality(Running(Node \ (S \ {m}))) =
                  Cardinality(Running(Node \ S)) + Race!Count(m)
           /\ Race!Count(m) \in 0 .. 1
<1>1. Cardinality(S \ {m}) = Cardinality(S) - 1
  BY NodesFinite, FS_RemoveElement
<1>2. Race!Count(m) = IF avail[m] = 1 THEN 1 ELSE 0
  BY DEF Race!Count, Race!NoEntry, Race!TypeOK
<1>3. /\ Running(Node \ (S \ {m})) = Running(Node \ S) \cup Running({m})
      /\ m \notin Running(Node \ S)
  BY DEF Running
<1>4. Node \ S \in SUBSET Node
  OBVIOUS
<1>5. CASE avail[m] = 1
  <2>1. Running({m}) = {m}
    BY <1>5 DEF Running
  <2>2. /\ IsFiniteSet(Running(Node \ S)) /\ Cardinality(Running(Node \ S)) \in Nat
    BY <1>4, NodesFinite
  <2>3. Cardinality(Running(Node \ S) \cup {m}) = Cardinality(Running(Node \ S)) + 1
    BY <1>3, <2>2, FS_AddElement
  <2> QED
    BY <1>1, <1>2, <1>3, <1>5, <2>1, <2>3
<1>6. CASE avail[m] # 1
  <2>1. Running({m}) = {}
    BY <1>6 DEF Running
  <2>2. Running(Node \ (S \ {m})) = Running(Node \ S)
    BY <1>3, <2>1
  <2>3. Cardinality(Running(Node \ S)) \in Nat
    BY <1>4, NodesFinite
  <2> QED
    BY <1>1, <1>2, <1>6, <2>2, <2>3
<1> QED
  BY <1>5, <1>6

LEMMA RaceParts ==
    /\ Race!TypeOK <=>
           /\ avail \in [Node -> {-1, 0, 1}]
           /\ total \in {-1} \cup 0 .. Cardinality(Node)
           /\ call \in [Goroutine -> RaceState]
           /\ fresh \in SUBSET Goroutine /\ last \in SUBSET Goroutine
    /\ Race!TypeOK' <=>
           /\ avail' \in [Node -> {-1, 0, 1}]
           /\ total' \in {-1} \cup 0 .. Cardinality(Node)
           /\ call' \in [Goroutine -> RaceState]
           /\ fresh' \in SUBSET Goroutine /\ last' \in SUBSET Goroutine
BY SameCount DEF Race!TypeOK, RaceState, Race!NoEntry

LEMMA RaceInit ==
    ASSUME Race!CatalogRaceAssumption, Race!Init
    PROVE  Race!IInv
<1> USE DEF Race!Init, Race!NoEntry
<1>1. Cardinality(Node) \in Nat
  BY NodesFinite
<1>2. Race!TypeOK
  <2>1. Race!Sum \in 0 .. Cardinality(Node)
    <3>1. Race!Sum = Cardinality(Running(Node))
      BY SameCount DEF Race!Sum, Running
    <3>2. Running(Node) \subseteq Node
      BY DEF Running
    <3> QED
      BY <3>1, <3>2, NodesFinite
  <2>2. call \in [Goroutine -> RaceState]
    BY <1>1 DEF RaceState, Race!CatalogRaceAssumption
  <2> QED
    BY <2>1, <2>2, RaceParts
<1>3. Race!CallInv /\ Race!DroppedInv /\ Race!PanicNeedsDelete
  BY DEF Race!CallInv, Race!DroppedInv, Race!NeedsEntry, Race!PanicNeedsDelete
<1>4. Race!FreshInv /\ Race!LastInv
  BY DEF Race!FreshInv, Race!LastInv
<1> QED
  BY <1>2, <1>3, <1>4 DEF Race!IInv

\* A step of call g, that leaves it in state c.
LEMMA RaceStep ==
    ASSUME Race!CatalogRaceAssumption, Race!IInv,
           NEW g \in Goroutine, NEW c \in RaceState,
           call[g].pc \notin {"done", "panicked"},
           call' = [call EXCEPT ![g] = c],
           total' \in {-1} \cup 0 .. Cardinality(Node),
           last' \in SUBSET Goroutine,
           c.op \in Race!Operations,
           c.op = "add" => c.msg = 1,
           c.listed \/ c.op = "delete",
           c.pc = "list" => c.op \in {"add", "message"},
           c.pc = "drop" => c.op = "delete",
           c.pc = "store" => c.sum + Cardinality(c.due) <= Cardinality(Node),
           total' = -1 => total = -1 \/ (c.op = "delete" /\ c.pc = "done"),
           Race!NeedsEntry(g)' /\ total' = -1 => Race!NeedsEntry(g) /\ total = -1,
           c.pc = "panicked" /\ c.listed => Race!NeedsEntry(g) /\ total = -1,
           \/ /\ avail' \in [Node -> {-1, 0, 1}]
              /\ fresh' = {}
           \/ /\ avail' = avail
              /\ fresh' \in SUBSET (fresh \cup {g})
              /\ g \in fresh' /\ c.pc = "store"
                     => c.sum = Cardinality(Running(Node \ c.due)),
           Race!LastInv'
    PROVE  Race!IInv'
<1>0. /\ call \in [Goroutine -> RaceState]
      /\ fresh \in SUBSET Goroutine
      /\ avail \in [Node -> {-1, 0, 1}]
  BY RaceParts DEF Race!IInv
<1>1. \A k \in Goroutine : call'[k] = IF k = g THEN c ELSE call[k]
  BY <1>0
<1>2. Race!TypeOK'
  BY <1>0, RaceParts
<1>3. Race!CallInv'
  BY <1>1, SameCount DEF Race!IInv, Race!CallInv
<1>4. ASSUME NEW k \in Goroutine, NEW d \in Goroutine \ {k},
             call[d].op = "delete" /\ call[d].pc = "done"
      PROVE  \E e \in Goroutine \ {k} : call'[e].op = "delete" /\ call'[e].pc = "done"
  BY <1>1, <1>4
<1>5. ASSUME NEW k \in Goroutine, Race!NeedsEntry(k), total = -1
      PROVE  \E e \in Goroutine \ {k} : call'[e].op = "delete" /\ call'[e].pc = "done"
  BY <1>4, <1>5 DEF Race!IInv, Race!DroppedInv, Race!NoEntry
<1>6. Race!DroppedInv'
  <2> SUFFICES ASSUME NEW k \in Goroutine, Race!NeedsEntry(k)', total' = -1
               PROVE  \E e \in Goroutine \ {k} :
                          call'[e].op = "delete" /\ call'[e].pc = "done"
    BY DEF Race!DroppedInv, Race!NoEntry
  <2>1. CASE k = g
    BY <1>5, <2>1
  <2>2. CASE k # g
    <3>1. Race!NeedsEntry(k)
      BY <1>1, <2>2 DEF Race!NeedsEntry
    <3>2. CASE total = -1
      BY <1>5, <3>1, <3>2
    <3>3. CASE c.op = "delete" /\ c.pc = "done"
      BY <1>1, <2>2, <3>3
    <3> QED
      BY <3>2, <3>3
  <2> QED
    BY <2>1, <2>2
<1>7. Race!PanicNeedsDelete'
  <2> SUFFICES ASSUME NEW k \in Goroutine, call'[k].pc = "panicked",
                      call'[k].listed \/ call'[k].op # "delete"
               PROVE  \E e \in Goroutine \ {k} :
                          call'[e].op = "delete" /\ call'[e].pc = "done"
    BY DEF Race!PanicNeedsDelete
  <2>1. CASE k = g
    <3>1. c.pc = "panicked" /\ c.listed
      BY <1>1, <2>1
    <3> QED
      BY <1>5, <2>1, <3>1
  <2>2. CASE k # g
    <3>1. call[k].pc = "panicked" /\ (call[k].listed \/ call[k].op # "delete")
      BY <1>1, <2>2
    <3>2. PICK d \in Goroutine \ {k} : call[d].op = "delete" /\ call[d].pc = "done"
      BY <3>1 DEF Race!IInv, Race!PanicNeedsDelete
    <3> QED
      BY <1>4, <3>2
  <2> QED
    BY <2>1, <2>2
<1>8. Race!FreshInv'
  <2>1. CASE fresh' = {}
    BY <2>1 DEF Race!FreshInv
  <2>2. CASE avail' = avail /\ fresh' # {}
    <3> SUFFICES ASSUME NEW k \in fresh', call'[k].pc = "store"
                 PROVE  call'[k].sum =
                            Cardinality({m \in Node \ call'[k].due : avail[m] = 1})
      BY <2>2, SameCount DEF Race!FreshInv
    <3>1. CASE k = g
      BY <1>1, <2>2, <3>1 DEF Running
    <3>2. CASE k # g
      BY <1>0, <1>1, <2>2, <3>2, SameCount DEF Race!IInv, Race!FreshInv
    <3> QED
      BY <3>1, <3>2
  <2> QED
    BY <2>1, <2>2
<1> QED
  BY <1>2, <1>3, <1>6, <1>7, <1>8 DEF Race!IInv

\* When nothing was stored, a pending recount or a total that was right, or
\* missing, stays so.
LEMMA LastStays ==
    ASSUME Race!IInv, NEW g \in Goroutine, NEW c \in RaceState,
           call' = [call EXCEPT ![g] = c],
           UNCHANGED <<avail, fresh, last>>,
           \/ c.pc \in {"write", "range", "sum", "store"}
           \/ total' = -1
           \/ /\ total' = total
              /\ call[g].pc \notin {"write", "range", "sum", "store"}
    PROVE  Race!LastInv'
<1>0. call \in [Goroutine -> RaceState]
  BY RaceParts DEF Race!IInv
<1>1. \A k \in Goroutine : call'[k] = IF k = g THEN c ELSE call[k]
  BY <1>0
<1>2. CASE c.pc \in {"write", "range", "sum", "store"}
  BY <1>1, <1>2 DEF Race!LastInv
<1>3. CASE total' = -1
  BY <1>3 DEF Race!LastInv, Race!TotalRight, Race!NoEntry
<1>4. CASE /\ total' = total
           /\ call[g].pc \notin {"write", "range", "sum", "store"}
  <2>1. Race!TotalRight' <=> Race!TotalRight
    BY <1>4 DEF Race!TotalRight, Race!Sum
  <2> QED
    BY <1>1, <1>4, <2>1 DEF Race!IInv, Race!LastInv
<1> QED
  BY <1>2, <1>3, <1>4

LEMMA RaceCall ==
    ASSUME Race!CatalogRaceAssumption, Race!IInv, NEW g \in Goroutine,
           NEW op \in CatalogOperation, NEW m \in Node, NEW v \in {-1, 0, 1},
           Race!Call(g, op, m, v)
    PROVE  Race!IInv'
<1> DEFINE c == [call[g] EXCEPT !.op = op, !.node = m, !.msg = v,
                     !.listed = (op = "delete" => total # -1),
                     !.pc = IF op = "message" THEN "list" ELSE "write"]
<1>0. /\ call[g] \in RaceState /\ call[g].pc = "idle"
      /\ op \in Race!Operations
      /\ op = "update" => total # -1
      /\ op = "add" => v = 1
      /\ UNCHANGED <<avail, total, fresh, last>>
  BY RaceParts DEF Race!IInv, Race!Call, Race!CatalogRaceAssumption, Race!NoEntry
<1>1. /\ c \in RaceState /\ c.op = op /\ c.msg = v
      /\ c.listed <=> (op = "delete" => total # -1)
      /\ c.pc = IF op = "message" THEN "list" ELSE "write"
  BY <1>0 DEF RaceState
<1>2. call' = [call EXCEPT ![g] = c]
  BY DEF Race!Call, Race!NoEntry
<1> HIDE DEF c
<1>3. Race!LastInv'
  BY <1>0, <1>1, <1>2, LastStays
<1>4. call'[g] = c
  BY <1>2, RaceParts DEF Race!IInv
<1>5. Race!NeedsEntry(g)' => total # -1
  BY <1>0, <1>1, <1>4 DEF Race!NeedsEntry
<1>6. /\ total \in {-1} \cup 0 .. Cardinality(Node)
      /\ last \in SUBSET Goroutine /\ fresh \in SUBSET (fresh \cup {g})
  BY RaceParts DEF Race!IInv
<1> QED
  BY <1>0, <1>1, <1>2, <1>3, <1>5, <1>6, RaceStep

\* The replicas change: no sum is fresh any more.
LEMMA RaceWrite ==
    ASSUME Race!CatalogRaceAssumption, Race!IInv, NEW g \in Goroutine, Race!Write(g)
    PROVE  Race!IInv'
<1> DEFINE l == CASE call[g].op = "add" -> "list"
                  [] call[g].op = "message" -> "range"
                  [] OTHER -> "sum"
           c == [call[g] EXCEPT !.pc = l]
<1>0. /\ call[g] \in RaceState /\ call[g].pc = "write"
      /\ call[g].op \in Race!Operations
      /\ call[g].op = "add" => call[g].msg = 1
      /\ call[g].listed \/ call[g].op = "delete"
      /\ fresh' = {} /\ UNCHANGED <<total, last>>
  BY RaceParts DEF Race!IInv, Race!Write, Race!CallInv
<1>1. l = IF call[g].op = "add" THEN "list"
          ELSE IF call[g].op = "message" THEN "range" ELSE "sum"
  BY <1>0 DEF Race!Operations
<1>2. call' = [call EXCEPT ![g] = c]
  BY DEF Race!Write, Race!Goto
<1> HIDE DEF l
<1>3. c \in RaceState /\ c.op = call[g].op /\ c.msg = call[g].msg
      /\ c.listed = call[g].listed /\ c.pc = l
  BY <1>0, <1>1 DEF RaceState
<1> HIDE DEF c
<1>4. avail' \in [Node -> {-1, 0, 1}]
  <2>1. avail' = [avail EXCEPT ![call[g].node] = call[g].msg]
    BY DEF Race!Write
  <2> QED
    BY <1>0, <2>1, RaceParts DEF Race!IInv, RaceState
<1>5. Race!LastInv'
  BY <1>0 DEF Race!LastInv
<1>6. call'[g] = c
  BY <1>2, RaceParts DEF Race!IInv
<1>7. Race!NeedsEntry(g)' => Race!NeedsEntry(g)
  BY <1>0, <1>1, <1>3, <1>6 DEF Race!NeedsEntry, Race!Operations
<1>8. total \in {-1} \cup 0 .. Cardinality(Node) /\ last \in SUBSET Goroutine
  BY RaceParts DEF Race!IInv
<1> QED
  BY <1>0, <1>1, <1>2, <1>3, <1>4, <1>5, <1>7, <1>8, RaceStep

LEMMA RaceList ==
    ASSUME Race!CatalogRaceAssumption, Race!IInv, NEW g \in Goroutine, Race!List(g)
    PROVE  Race!IInv'
<1> DEFINE c == [call[g] EXCEPT !.pc = IF call[g].op = "add" THEN "sum" ELSE "write"]
<1>0. /\ call[g] \in RaceState /\ call[g].pc = "list"
      /\ call[g].op \in Race!Operations \cap {"add", "message"}
      /\ call[g].op = "add" => call[g].msg = 1
      /\ call[g].listed \/ call[g].op = "delete"
      /\ total' = IF total = -1 /\ call[g].msg # -1 THEN 0 ELSE total
      /\ UNCHANGED <<avail, fresh, last>>
  BY RaceParts DEF Race!IInv, Race!List, Race!CallInv, Race!NoEntry
<1>1. /\ c \in RaceState /\ c.op = call[g].op /\ c.msg = call[g].msg
      /\ c.listed = call[g].listed
      /\ c.pc = IF call[g].op = "add" THEN "sum" ELSE "write"
  BY <1>0 DEF RaceState
<1>2. call' = [call EXCEPT ![g] = c]
  BY DEF Race!List, Race!Goto
<1> HIDE DEF c
<1>3. Race!LastInv'
  BY <1>0, <1>1, <1>2, LastStays
<1>4. call'[g] = c
  BY <1>2, RaceParts DEF Race!IInv
<1>5. Race!NeedsEntry(g)' => total' # -1
  BY <1>0, <1>1, <1>4 DEF Race!NeedsEntry
<1>6. /\ total' \in {-1} \cup 0 .. Cardinality(Node)
      /\ last \in SUBSET Goroutine /\ fresh \in SUBSET (fresh \cup {g})
  BY <1>0, RaceParts, NodesFinite DEF Race!IInv
<1> QED
  BY <1>0, <1>1, <1>2, <1>3, <1>5, <1>6, RaceStep

LEMMA RaceRange ==
    ASSUME Race!CatalogRaceAssumption, Race!IInv, NEW g \in Goroutine,
           Race!RangeFunctions(g)
    PROVE  Race!IInv'
<1> DEFINE c == [call[g] EXCEPT !.pc = IF total = -1 THEN "done" ELSE "sum"]
<1>0. /\ call[g] \in RaceState /\ call[g].pc = "range"
      /\ call[g].op \in Race!Operations
      /\ call[g].op = "add" => call[g].msg = 1
      /\ call[g].listed \/ call[g].op = "delete"
      /\ UNCHANGED <<avail, total, fresh, last>>
  BY RaceParts DEF Race!IInv, Race!RangeFunctions, Race!CallInv
<1>1. /\ c \in RaceState /\ c.op = call[g].op /\ c.msg = call[g].msg
      /\ c.listed = call[g].listed
      /\ c.pc = IF total = -1 THEN "done" ELSE "sum"
  BY <1>0 DEF RaceState
<1>2. call' = [call EXCEPT ![g] = c]
  BY DEF Race!RangeFunctions, Race!Goto, Race!NoEntry
<1> HIDE DEF c
<1>3. Race!LastInv'
  BY <1>0, <1>1, <1>2, LastStays
<1>4. call'[g] = c
  BY <1>2, RaceParts DEF Race!IInv
<1>5. Race!NeedsEntry(g)' => total # -1
  BY <1>0, <1>1, <1>4 DEF Race!NeedsEntry
<1>6. /\ total \in {-1} \cup 0 .. Cardinality(Node)
      /\ last \in SUBSET Goroutine /\ fresh \in SUBSET (fresh \cup {g})
  BY RaceParts DEF Race!IInv
<1> QED
  BY <1>0, <1>1, <1>2, <1>3, <1>5, <1>6, RaceStep

LEMMA RaceSumStarts ==
    ASSUME Race!CatalogRaceAssumption, Race!IInv, NEW g \in Goroutine,
           Race!SumStarts(g)
    PROVE  Race!IInv'
<1> DEFINE c == [call[g] EXCEPT !.pc = "store", !.due = Node, !.sum = 0]
<1>0. /\ call \in [Goroutine -> RaceState] /\ call[g].pc = "sum"
      /\ call[g].op \in Race!Operations
      /\ call[g].op = "add" => call[g].msg = 1
      /\ call[g].listed \/ call[g].op = "delete"
      /\ Cardinality(Node) \in Nat
      /\ fresh' = fresh \cup {g} /\ UNCHANGED <<avail, total, last>>
  BY RaceParts, NodesFinite DEF Race!IInv, Race!SumStarts, Race!CallInv
<1>1. /\ c \in RaceState /\ c.op = call[g].op /\ c.msg = call[g].msg
      /\ c.listed = call[g].listed
      /\ c.pc = "store" /\ c.due = Node /\ c.sum = 0
  <2>1. call[g] \in RaceState
    BY <1>0
  <2>2. Node \in SUBSET Node /\ 0 \in 0 .. Cardinality(Node)
    BY <1>0
  <2>3. c \in RaceState
    BY <2>1, <2>2 DEF RaceState
  <2>4. /\ c.op = call[g].op /\ c.msg = call[g].msg
      /\ c.listed = call[g].listed
        /\ c.pc = "store" /\ c.due = Node /\ c.sum = 0
    BY <2>1 DEF RaceState
  <2> QED
    BY <2>3, <2>4
<1>2. call' = [call EXCEPT ![g] = c]
  BY DEF Race!SumStarts
<1> HIDE DEF c
<1>3. call'[g] = c
  BY <1>0, <1>2
<1>4. Race!LastInv'
  BY <1>1, <1>3 DEF Race!LastInv
<1>5. c.sum = Cardinality(Running(Node \ c.due))
  <2>1. Running(Node \ c.due) = {}
    BY <1>1 DEF Running
  <2> QED
    BY <1>1, <2>1, FS_EmptySet
<1>6. /\ c.listed => Race!NeedsEntry(g)
      /\ Race!NeedsEntry(g)' => c.listed
  BY <1>0, <1>1, <1>3 DEF Race!NeedsEntry
<1>7. /\ total \in {-1} \cup 0 .. Cardinality(Node)
      /\ last \in SUBSET Goroutine /\ fresh' \in SUBSET (fresh \cup {g})
  BY <1>0, RaceParts DEF Race!IInv
<1>8. c.sum + Cardinality(c.due) <= Cardinality(Node)
  BY <1>0, <1>1
<1> QED
  BY <1>0, <1>1, <1>2, <1>4, <1>5, <1>6, <1>7, <1>8, RaceStep

LEMMA RaceSumNode ==
    ASSUME Race!CatalogRaceAssumption, Race!IInv, NEW g \in Goroutine,
           NEW m \in Node, Race!SumNode(g, m)
    PROVE  Race!IInv'
<1> DEFINE c == [call[g] EXCEPT !.due = @ \ {m}, !.sum = @ + Race!Count(m)]
           d == call[g].due
           s == call[g].sum
<1>0. /\ call \in [Goroutine -> RaceState] /\ call[g].pc = "store"
      /\ d \in SUBSET Node /\ m \in d /\ s \in Nat
      /\ s + Cardinality(d) <= Cardinality(Node)
      /\ call[g].op \in Race!Operations
      /\ call[g].op = "add" => call[g].msg = 1
      /\ call[g].listed \/ call[g].op = "delete"
      /\ UNCHANGED <<avail, total, fresh, last>>
  BY RaceParts, NodesFinite, SameCount
     DEF Race!IInv, Race!SumNode, Race!CallInv, RaceState
<1>1. /\ Cardinality(d) \in Nat /\ Cardinality(Node) \in Nat
      /\ Cardinality(d \ {m}) = Cardinality(d) - 1
      /\ Cardinality(d \ {m}) \in Nat
      /\ Race!Count(m) \in 0 .. 1
      /\ Cardinality(Running(Node \ (d \ {m}))) =
             Cardinality(Running(Node \ d)) + Race!Count(m)
  BY <1>0, NodesFinite, MetNode DEF Race!IInv
<1>2. /\ s + Race!Count(m) \in 0 .. Cardinality(Node)
      /\ (s + Race!Count(m)) + Cardinality(d \ {m}) <= Cardinality(Node)
  BY <1>0, <1>1
<1>3. /\ c \in RaceState /\ c.op = call[g].op /\ c.msg = call[g].msg
      /\ c.listed = call[g].listed
      /\ c.pc = "store" /\ c.due = d \ {m} /\ c.sum = s + Race!Count(m)
  BY <1>0, <1>2 DEF RaceState
<1>4. call' = [call EXCEPT ![g] = c]
  BY DEF Race!SumNode
<1> HIDE DEF c
<1>5. Race!LastInv'
  BY <1>0, <1>3, <1>4, LastStays
<1>6. g \in fresh => c.sum = Cardinality(Running(Node \ c.due))
  <2> SUFFICES ASSUME g \in fresh PROVE c.sum = Cardinality(Running(Node \ c.due))
    OBVIOUS
  <2>1. s = Cardinality(Running(Node \ d))
    BY <1>0, SameCount DEF Race!IInv, Race!FreshInv, Running
  <2> QED
    BY <1>1, <1>3, <2>1
<1>7. /\ c.listed => Race!NeedsEntry(g)
      /\ Race!NeedsEntry(g)' => c.listed
  <2>1. call'[g] = c
    BY <1>0, <1>4
  <2> QED
    BY <1>0, <1>3, <2>1 DEF Race!NeedsEntry
<1>8. /\ total \in {-1} \cup 0 .. Cardinality(Node)
      /\ last \in SUBSET Goroutine /\ fresh \in SUBSET (fresh \cup {g})
  BY RaceParts DEF Race!IInv
<1>9. c.sum + Cardinality(c.due) <= Cardinality(Node)
  BY <1>2, <1>3
<1> QED
  BY <1>0, <1>3, <1>4, <1>5, <1>6, <1>7, <1>8, <1>9, RaceStep

\* The total is stored, or the entry is gone.
LEMMA RaceStore ==
    ASSUME Race!CatalogRaceAssumption, Race!IInv, NEW g \in Goroutine, Race!Store(g)
    PROVE  Race!IInv'
<1> DEFINE l == IF total = -1 THEN "panicked"
                ELSE IF call[g].op = "delete" THEN "drop" ELSE "done"
           c == [call[g] EXCEPT !.pc = l]
<1>0. /\ call \in [Goroutine -> RaceState] /\ call[g].pc = "store"
      /\ call[g].due = {}
      /\ call[g].op \in Race!Operations
      /\ call[g].op = "add" => call[g].msg = 1
      /\ call[g].listed \/ call[g].op = "delete"
      /\ total \in {-1} \cup 0 .. Cardinality(Node)
      /\ UNCHANGED <<avail, fresh>>
  BY RaceParts DEF Race!IInv, Race!Store, Race!CallInv
<1>1. /\ c \in RaceState /\ c.op = call[g].op /\ c.msg = call[g].msg
      /\ c.listed = call[g].listed /\ c.pc = l
  BY <1>0 DEF RaceState
<1>2. call' = [call EXCEPT ![g] = c]
  BY DEF Race!Store, Race!Goto, Race!NoEntry
<1> HIDE DEF c
<1>3. call'[g] = c
  BY <1>0, <1>2
<1>4. /\ c.listed => Race!NeedsEntry(g)
      /\ Race!NeedsEntry(g)' => c.listed
  BY <1>0, <1>1, <1>3 DEF Race!NeedsEntry
<1>5. CASE total = -1
  <2>1. UNCHANGED <<total, last>>
    BY <1>5 DEF Race!Store, Race!NoEntry
  <2>2. Race!LastInv'
    BY <1>0, <1>1, <1>2, <1>5, <2>1, LastStays
  <2>3. last' \in SUBSET Goroutine /\ fresh' \in SUBSET (fresh \cup {g})
    BY <1>0, <2>1, RaceParts DEF Race!IInv
  <2> QED
    BY <1>0, <1>1, <1>2, <1>4, <1>5, <2>1, <2>2, <2>3, RaceStep
<1>6. CASE total # -1
  <2>1. total' = call[g].sum /\ last' = {g}
    BY <1>6 DEF Race!Store, Race!NoEntry
  <2>2. total' \in 0 .. Cardinality(Node)
    BY <1>0, <2>1 DEF RaceState
  <2>3. Race!LastInv'
    <3> SUFFICES ASSUME g \in fresh PROVE Race!TotalRight'
      BY <1>0, <2>1 DEF Race!LastInv
    <3>1. call[g].sum = Cardinality({m \in Node \ {} : avail[m] = 1})
      BY <1>0, SameCount DEF Race!IInv, Race!FreshInv
    <3>2. Node \ {} = Node
      OBVIOUS
    <3> QED
      BY <1>0, <2>1, <3>1, <3>2, SameCount DEF Race!TotalRight, Race!Sum
  <2>4. total' # -1 /\ l # "panicked" /\ l # "store" /\ l # "list"
    BY <1>6, <2>2, NodesFinite
  <2>5. last' \in SUBSET Goroutine /\ fresh' \in SUBSET (fresh \cup {g})
    BY <1>0, <2>1
  <2>6. c.pc = "drop" => c.op = "delete"
    BY <1>1
  <2> HIDE DEF l
  <2> QED
    BY <1>0, <1>1, <1>2, <1>4, <1>6, <2>2, <2>3, <2>4, <2>5, <2>6, RaceStep
<1> QED
  BY <1>5, <1>6

LEMMA RaceDrop ==
    ASSUME Race!CatalogRaceAssumption, Race!IInv, NEW g \in Goroutine, Race!Drop(g)
    PROVE  Race!IInv'
<1> DEFINE l == IF total = -1 THEN "panicked" ELSE "done"
           c == [call[g] EXCEPT !.pc = l]
<1>0. /\ call \in [Goroutine -> RaceState] /\ call[g].pc = "drop"
      /\ call[g].op \in Race!Operations /\ call[g].op = "delete"
      /\ total \in {-1} \cup 0 .. Cardinality(Node)
      /\ total' = IF total = 0 THEN -1 ELSE total
      /\ UNCHANGED <<avail, fresh, last>>
  BY RaceParts DEF Race!IInv, Race!Drop, Race!CallInv, Race!NoEntry
<1>1. /\ c \in RaceState /\ c.op = call[g].op /\ c.msg = call[g].msg
      /\ c.listed = call[g].listed /\ c.pc = l
  BY <1>0 DEF RaceState
<1>2. call' = [call EXCEPT ![g] = c]
  BY DEF Race!Drop, Race!Goto, Race!NoEntry
<1> HIDE DEF c
<1>3. call'[g] = c
  BY <1>0, <1>2
<1>4. c.listed => Race!NeedsEntry(g)
  BY <1>0, <1>1 DEF Race!NeedsEntry
<1>5. Race!LastInv'
  BY <1>0, <1>1, <1>2, LastStays
<1>6. /\ last' \in SUBSET Goroutine /\ fresh' \in SUBSET (fresh \cup {g})
      /\ total' \in {-1} \cup 0 .. Cardinality(Node)
  BY <1>0, RaceParts DEF Race!IInv
<1>7. ~ Race!NeedsEntry(g)'
  BY <1>1, <1>3 DEF Race!NeedsEntry
<1> QED
  BY <1>0, <1>1, <1>2, <1>4, <1>5, <1>6, <1>7, RaceStep

LEMMA RaceNext ==
    ASSUME Race!CatalogRaceAssumption, Race!IInv, [Race!Next]_(Race!vars)
    PROVE  Race!IInv'
<1>1. CASE UNCHANGED Race!vars
  <2>1. Race!TypeOK' /\ Race!CallInv' /\ Race!PanicNeedsDelete'
    BY <1>1 DEF Race!vars, Race!IInv, Race!TypeOK, Race!CallInv, Race!PanicNeedsDelete
  <2>2. Race!DroppedInv'
    BY <1>1 DEF Race!vars, Race!IInv, Race!DroppedInv, Race!NeedsEntry
  <2>3. Race!FreshInv' /\ Race!LastInv'
    BY <1>1 DEF Race!vars, Race!IInv, Race!FreshInv, Race!LastInv, Race!TotalRight,
                Race!Sum
  <2> QED
    BY <2>1, <2>2, <2>3 DEF Race!IInv
<1> QED
  BY <1>1, RaceCall, RaceWrite, RaceList, RaceRange, RaceSumStarts, RaceSumNode,
     RaceStore, RaceDrop DEF Race!Next, Race!NoEntry

\* The catalog's invariant holds in every interleaving of its methods.
THEOREM RaceInvariance ==
    ASSUME Race!CatalogRaceAssumption
    PROVE  Race!Spec => []Race!IInv
<1>1. Race!Init => Race!IInv
  BY RaceInit
<1>2. Race!IInv /\ [Race!Next]_(Race!vars) => Race!IInv'
  BY RaceNext
<1> QED
  BY <1>1, <1>2, PTL DEF Race!Spec

\* catalog_cluster_level.go:115 sums replicas up without a lock: with any number
\* of nodes and calls, whatever totals were lost in between, a sum that began
\* after the last change and was stored last leaves the right total.
THEOREM RecountsRepair ==
    ASSUME Race!CatalogRaceAssumption
    PROVE  Race!Spec => []Race!RecountRepairs
<1>1. Race!IInv => Race!RecountRepairs
  BY DEF Race!IInv, Race!LastInv, Race!RecountRepairs, Race!AtRest
<1> QED
  BY <1>1, RaceInvariance, PTL

\* catalog_cluster_level.go:89 and :120 dereference an entry they do not hold:
\* with any number of calls, one that panics there was overtaken by the delete
\* of another call, or is a delete of a function that was not listed.
THEOREM PanicsNeedDelete ==
    ASSUME Race!CatalogRaceAssumption
    PROVE  Race!Spec => []Race!PanicNeedsDelete
<1>1. Race!IInv => Race!PanicNeedsDelete
  BY DEF Race!IInv
<1> QED
  BY <1>1, RaceInvariance, PTL

-----------------------------------------------------------------------------
(* Secrets.                                                                *)

WriterState ==
    [file : Namespace, data : Value \cup {"none"}, linked : BOOLEAN]

FileState == Value \cup {"absent", "empty", "mixed"}

\* What the assumption says of the names.
LEMMA SecretNames ==
    ASSUME Secret!SecretsAssumption
    PROVE  /\ Default \in Namespace
           /\ Secret!Legacy \in Secret!File \ Namespace
           /\ Secret!Auth \in Secret!File \ Namespace
           /\ Secret!Legacy # Secret!Auth
           /\ Namespace \subseteq Secret!File
           /\ \A v \in Value : v \notin {"absent", "empty", "mixed", "none",
                                         "nothing", "unsure"}
  BY DEF Secret!SecretsAssumption, Secret!Legacy, Secret!Auth, Secret!File

LEMMA SecretTypes ==
    ASSUME Secret!TypeOK
    PROVE  /\ content \in [Secret!File -> FileState]
           /\ writer \in [Writer -> WriterState]
           /\ want \in [Namespace -> Value \cup {"nothing", "absent", "unsure"}]
           /\ requests \in 0 .. MaxRequests /\ crashes \in 0 .. MaxCrashes
           /\ provider \in {"start", "copy", "serve"}
           /\ up \in {"start", "write", "up"}
           /\ \A w \in Writer : writer[w].linked => content[writer[w].file] # "absent"
  BY DEF Secret!TypeOK, FileState, WriterState

LEMMA SecretInit ==
    ASSUME Secret!SecretsAssumption, Secret!Init
    PROVE  Secret!IInv
<1> USE SecretNames DEF Secret!Init
<1>1. \A w \in Writer : writer[w] = Secret!Idle
  OBVIOUS
<1>2. \A ns \in Namespace : Secret!Writers(ns) = {}
  BY <1>1 DEF Secret!Writers, Secret!Idle
<1>3. Secret!TypeOK
  <2>1. \A f \in Secret!File : content[f] \in Value \cup {"absent", "empty", "mixed"}
    OBVIOUS
  <2>2. content \in [Secret!File -> Value \cup {"absent", "empty", "mixed"}]
    BY <2>1
  <2> QED
    BY <2>2, <1>1 DEF Secret!TypeOK, Secret!Idle, Secret!SecretsAssumption
<1>4. Secret!WriterInv
  BY <1>1 DEF Secret!WriterInv, Secret!Idle
<1>5. \A ns \in Namespace : Secret!WantInv(ns)
  BY <1>2 DEF Secret!WantInv
<1>6. Secret!CopyInv
  BY DEF Secret!CopyInv
<1>7. Secret!AuthInv
  BY DEF Secret!AuthInv
<1> QED
  BY <1>3, <1>4, <1>5, <1>6, <1>7 DEF Secret!IInv

\* What is wanted in a namespace, its file and the requests for it stay.
LEMMA SecretKept ==
    ASSUME NEW ns \in Namespace, Secret!WantInv(ns),
           Secret!Writers(ns)' = Secret!Writers(ns),
           want'[ns] = want[ns], content'[ns] = content[ns],
           \A w \in Secret!Writers(ns) : writer'[w] = writer[w]
    PROVE  Secret!WantInv(ns)'
  BY DEF Secret!WantInv

LEMMA SecretCreate ==
    ASSUME Secret!SecretsAssumption, Secret!IInv, NEW w \in Writer,
           NEW ns \in Namespace, NEW v \in Value, Secret!CreateSecret(w, ns, v)
    PROVE  Secret!IInv'
<1> USE SecretNames
<1> DEFINE q == [file |-> ns, data |-> v, linked |-> TRUE]
<1>0. /\ Secret!TypeOK /\ Secret!WriterInv /\ Secret!CopyInv /\ Secret!AuthInv
      /\ \A n \in Namespace : Secret!WantInv(n)
  BY DEF Secret!IInv
<1>1. /\ provider = "serve" /\ requests < MaxRequests
      /\ requests' = requests + 1
      /\ writer[w].data = "none"
      /\ content' = [content EXCEPT ![ns] = "empty"]
      /\ writer' = [writer EXCEPT ![w] = q]
      /\ want' = [want EXCEPT ![ns] = IF Secret!Writers(ns) = {} THEN v ELSE "unsure"]
      /\ UNCHANGED <<provider, up, crashes>>
  BY DEF Secret!CreateSecret, Secret!Request
<1>2. q \in WriterState /\ q.file = ns /\ q.data = v /\ q.linked
  BY DEF WriterState
<1> HIDE DEF q
<1>3. \A k \in Writer : writer'[k] = IF k = w THEN q ELSE writer[k]
  BY <1>0, <1>1, SecretTypes
<1>4. \A f \in Secret!File : content'[f] = IF f = ns THEN "empty" ELSE content[f]
  BY <1>0, <1>1, SecretTypes
<1>5. \A n \in Namespace :
          want'[n] = IF n = ns
                     THEN IF Secret!Writers(ns) = {} THEN v ELSE "unsure"
                     ELSE want[n]
  BY <1>0, <1>1, SecretTypes
<1>6. \A n \in Namespace :
          Secret!Writers(n)' = IF n = ns THEN Secret!Writers(n) \cup {w}
                               ELSE Secret!Writers(n)
  BY <1>1, <1>2, <1>3 DEF Secret!Writers
<1>7. Secret!TypeOK'
  <2>1. content' \in [Secret!File -> FileState]
    BY <1>0, <1>1, SecretTypes DEF FileState
  <2>2. writer' \in [Writer -> WriterState]
    BY <1>0, <1>1, <1>2, SecretTypes
  <2>3. want' \in [Namespace -> Value \cup {"nothing", "absent", "unsure"}]
    BY <1>0, <1>1, SecretTypes
  <2>4. \A k \in Writer : writer'[k].linked => content'[writer'[k].file] # "absent"
    <3> SUFFICES ASSUME NEW k \in Writer, writer'[k].linked
                 PROVE  content'[writer'[k].file] # "absent"
      OBVIOUS
    <3>1. writer'[k].file \in Namespace
      BY <2>2 DEF WriterState
    <3> QED
      BY <3>1, <1>0, <1>2, <1>3, <1>4, SecretTypes
  <2>5. requests' \in 0 .. MaxRequests
    BY <1>0, <1>1, SecretTypes DEF Secret!SecretsAssumption
  <2> QED
    BY <1>0, <1>1, <2>1, <2>2, <2>3, <2>4, <2>5
    DEF Secret!TypeOK, FileState, WriterState
<1>8. Secret!WriterInv'
  BY <1>0, <1>1, <1>2, <1>3 DEF Secret!WriterInv
<1>9. \A n \in Namespace : Secret!WantInv(n)'
  <2> SUFFICES ASSUME NEW n \in Namespace PROVE Secret!WantInv(n)'
    OBVIOUS
  <2>1. CASE n # ns
    <3>1. \A k \in Secret!Writers(n) : writer'[k] = writer[k]
      BY <1>1, <1>3 DEF Secret!Writers
    <3>2. content'[n] = content[n] /\ want'[n] = want[n]
      BY <2>1, <1>4, <1>5
    <3>3. Secret!Writers(n)' = Secret!Writers(n)
      BY <2>1, <1>6
    <3> QED
      BY <1>0, <3>1, <3>2, <3>3, SecretKept
  <2>2. CASE n = ns /\ Secret!Writers(ns) = {}
    <3>1. Secret!Writers(n)' = {w} /\ content'[n] = "empty" /\ want'[n] = v
      BY <2>2, <1>4, <1>5, <1>6
    <3>2. writer'[w].data = v /\ writer'[w].linked
      BY <1>2, <1>3
    <3> QED
      BY <3>1, <3>2 DEF Secret!WantInv
  <2>3. CASE n = ns /\ Secret!Writers(ns) # {}
    <3>1. want'[n] = "unsure"
      BY <2>3, <1>5
    <3> QED
      BY <3>1 DEF Secret!WantInv
  <2> QED
    BY <2>1, <2>2, <2>3
<1>10. Secret!CopyInv'
  BY <1>0, <1>1, <1>4, <1>5 DEF Secret!CopyInv
<1>11. Secret!AuthInv'
  BY <1>0, <1>1, <1>4 DEF Secret!AuthInv
<1> QED
  BY <1>7, <1>8, <1>9, <1>10, <1>11 DEF Secret!IInv

\* A request that has the file to itself writes the empty file: the file holds
\* its data, and not a mixture.
LEMMA SecretWrite ==
    ASSUME Secret!SecretsAssumption, Secret!IInv, NEW w \in Writer,
           Secret!WriteSecret(w)
    PROVE  Secret!IInv'
<1> USE SecretNames
<1> DEFINE f == writer[w].file
           d == writer[w].data
<1>0. /\ Secret!TypeOK /\ Secret!WriterInv /\ Secret!CopyInv /\ Secret!AuthInv
      /\ \A n \in Namespace : Secret!WantInv(n)
  BY DEF Secret!IInv
<1>1. f \in Namespace /\ d \in Value /\ w \in Secret!Writers(f)
  BY <1>0, SecretTypes DEF Secret!WriteSecret, WriterState, Secret!Writers
<1>2. /\ content' = IF writer[w].linked
                    THEN [content EXCEPT ![f] = Secret!Over(d, content[f])]
                    ELSE content
      /\ writer' = [writer EXCEPT ![w] = Secret!Idle]
      /\ UNCHANGED <<provider, up, want, requests, crashes>>
  BY DEF Secret!WriteSecret
<1>3. /\ Secret!Idle \in WriterState /\ Secret!Idle.data = "none"
      /\ Secret!Idle.linked = FALSE
  BY DEF Secret!Idle, WriterState
<1>4. \A k \in Writer : writer'[k] = IF k = w THEN Secret!Idle ELSE writer[k]
  BY <1>0, <1>2, SecretTypes
<1>5. \A g \in Secret!File : g # f => content'[g] = content[g]
  BY <1>0, <1>2, SecretTypes
<1>6. \A n \in Namespace : Secret!Writers(n)' = Secret!Writers(n) \ {w}
  BY <1>3, <1>4 DEF Secret!Writers
<1>7. /\ Secret!Over(d, content[f]) \in FileState \ {"absent"}
      /\ content[f] = "empty" => Secret!Over(d, content[f]) = d
  BY <1>1 DEF Secret!Over, FileState
<1>8. content'[f] = IF writer[w].linked THEN Secret!Over(d, content[f]) ELSE content[f]
  BY <1>0, <1>1, <1>2, SecretTypes
<1> HIDE DEF f, d
<1>9. Secret!TypeOK'
  <2>1. content' \in [Secret!File -> FileState]
    BY <1>0, <1>2, <1>7, SecretTypes
  <2>2. writer' \in [Writer -> WriterState]
    BY <1>0, <1>2, <1>3, SecretTypes
  <2>3. \A k \in Writer : writer'[k].linked => content'[writer'[k].file] # "absent"
    <3> SUFFICES ASSUME NEW k \in Writer, writer'[k].linked
                 PROVE  content'[writer'[k].file] # "absent"
      OBVIOUS
    <3>1. k # w /\ writer'[k] = writer[k] /\ writer[k].linked
      BY <1>3, <1>4
    <3>2. writer[k].file \in Namespace /\ content[writer[k].file] # "absent"
      BY <3>1, <1>0, SecretTypes DEF WriterState
    <3> QED
      BY <3>1, <3>2, <1>5, <1>7, <1>8
  <2> QED
    BY <1>0, <1>2, <2>1, <2>2, <2>3 DEF Secret!TypeOK, FileState, WriterState
<1>10. Secret!WriterInv'
  BY <1>0, <1>2, <1>3, <1>4 DEF Secret!WriterInv
<1>11. \A n \in Namespace : Secret!WantInv(n)'
  <2> SUFFICES ASSUME NEW n \in Namespace PROVE Secret!WantInv(n)'
    OBVIOUS
  <2>0. want' = want
    BY <1>2
  <2>1. CASE n # f
    <3>1. w \notin Secret!Writers(n)
      BY <2>1 DEF Secret!Writers, f
    <3>2. \A k \in Secret!Writers(n) : writer'[k] = writer[k]
      BY <3>1, <1>4 DEF Secret!Writers
    <3>3. Secret!Writers(n)' = Secret!Writers(n)
      BY <3>1, <1>6
    <3>4. content'[n] = content[n]
      BY <2>1, <1>5
    <3> QED
      BY <1>0, <2>0, <3>2, <3>3, <3>4, SecretKept
  <2>2. CASE n = f /\ want[n] \in Value
    <3>1. /\ Secret!Writers(n) = {w} /\ d = want[n] /\ writer[w].linked
          /\ content[n] = "empty"
      BY <2>2, <1>0, <1>1 DEF Secret!WantInv, d
    <3>2. Secret!Writers(n)' = {} /\ content'[n] = want[n]
      BY <2>2, <3>1, <1>6, <1>7, <1>8
    <3> QED
      BY <2>0, <2>2, <3>2 DEF Secret!WantInv
  <2>3. CASE n = f /\ want[n] \notin Value
    <3>1. want[n] # "absent" /\ want[n] # "nothing"
      BY <2>3, <1>0, <1>1 DEF Secret!WantInv
    <3> QED
      BY <2>0, <2>3, <3>1 DEF Secret!WantInv
  <2> QED
    BY <2>1, <2>2, <2>3
<1>12. Secret!CopyInv'
  <2>1. content'[Secret!Legacy] = content[Secret!Legacy]
    BY <1>1, <1>5
  <2>2. want[Default] = "nothing" => f # Default
    BY <1>0, <1>1 DEF Secret!WantInv
  <2>3. provider = "serve"
    BY <1>0, <1>1 DEF Secret!WriterInv, d
  <2> QED
    BY <1>0, <1>2, <1>5, <2>1, <2>2, <2>3 DEF Secret!CopyInv
<1>13. Secret!AuthInv'
  BY <1>0, <1>1, <1>2, <1>5 DEF Secret!AuthInv
<1> QED
  BY <1>9, <1>10, <1>11, <1>12, <1>13 DEF Secret!IInv

\* A delete of the wrong namespace's file leaves both unsure.
LEMMA SecretDelete ==
    ASSUME Secret!SecretsAssumption, Secret!IInv, NEW ns \in Namespace,
           NEW place \in {"query", "body"}, Secret!DeleteSecret(ns, place)
    PROVE  Secret!IInv'
<1> USE SecretNames
<1> DEFINE f == IF place = "query" THEN ns ELSE Default
           q(w) == IF w \in Secret!Writers(f)
                   THEN [writer[w] EXCEPT !.linked = FALSE] ELSE writer[w]
<1>0. /\ Secret!TypeOK /\ Secret!WriterInv /\ Secret!CopyInv /\ Secret!AuthInv
      /\ \A n \in Namespace : Secret!WantInv(n)
  BY DEF Secret!IInv
<1>1. /\ provider = "serve" /\ requests < MaxRequests
      /\ requests' = requests + 1
      /\ content' = [content EXCEPT ![f] = "absent"]
      /\ writer' = [w \in Writer |-> q(w)]
      /\ want' = [n \in Namespace |->
             IF n \notin {ns, f} THEN want[n]
             ELSE IF f = ns /\ Secret!Writers(ns) = {} THEN "absent" ELSE "unsure"]
      /\ UNCHANGED <<provider, up, crashes>>
  BY DEF Secret!DeleteSecret, Secret!Request, Secret!WantAbsent
<1>2. f \in Namespace
  OBVIOUS
<1>3. \A w \in Writer :
          /\ q(w) \in WriterState
          /\ q(w).file = writer[w].file /\ q(w).data = writer[w].data
          /\ q(w).linked => writer[w].linked /\ w \notin Secret!Writers(f)
          /\ w \notin Secret!Writers(f) => q(w) = writer[w]
  <2> SUFFICES ASSUME NEW w \in Writer
               PROVE  /\ q(w) \in WriterState
                      /\ q(w).file = writer[w].file /\ q(w).data = writer[w].data
                      /\ q(w).linked => writer[w].linked /\ w \notin Secret!Writers(f)
                      /\ w \notin Secret!Writers(f) => q(w) = writer[w]
    OBVIOUS
  <2>1. writer[w] \in WriterState
    BY <1>0, SecretTypes
  <2> QED
    BY <2>1 DEF WriterState
<1>4. \A w \in Writer : writer'[w] = q(w)
  BY <1>1
<1>5. \A g \in Secret!File : content'[g] = IF g = f THEN "absent" ELSE content[g]
  BY <1>0, <1>1, SecretTypes
<1>6. \A n \in Namespace : Secret!Writers(n)' = Secret!Writers(n)
  BY <1>3, <1>4 DEF Secret!Writers
<1>7. \A n \in Namespace :
          want'[n] = IF n \notin {ns, f} THEN want[n]
                     ELSE IF f = ns /\ Secret!Writers(ns) = {} THEN "absent"
                     ELSE "unsure"
  BY <1>1
<1>8. Secret!TypeOK'
  <2>1. content' \in [Secret!File -> FileState]
    BY <1>0, <1>1, SecretTypes DEF FileState
  <2>2. writer' \in [Writer -> WriterState]
    BY <1>1, <1>3
  <2>3. want' \in [Namespace -> Value \cup {"nothing", "absent", "unsure"}]
    BY <1>0, <1>1, SecretTypes
  <2>4. \A w \in Writer : writer'[w].linked => content'[writer'[w].file] # "absent"
    <3> SUFFICES ASSUME NEW w \in Writer, writer'[w].linked
                 PROVE  content'[writer'[w].file] # "absent"
      OBVIOUS
    <3>1. /\ writer[w].linked /\ w \notin Secret!Writers(f)
          /\ writer'[w].file = writer[w].file
      BY <1>3, <1>4
    <3>2. writer[w].file \in Namespace /\ content[writer[w].file] # "absent"
      BY <3>1, <1>0, SecretTypes DEF WriterState
    <3>3. writer[w].file # f
      BY <3>1, <1>0 DEF Secret!WriterInv, Secret!Writers
    <3> QED
      BY <3>1, <3>2, <3>3, <1>5
  <2>5. requests' \in 0 .. MaxRequests
    BY <1>0, <1>1, SecretTypes DEF Secret!SecretsAssumption
  <2> QED
    BY <1>0, <1>1, <2>1, <2>2, <2>3, <2>4, <2>5
    DEF Secret!TypeOK, FileState, WriterState
<1>9. Secret!WriterInv'
  BY <1>0, <1>1, <1>3, <1>4 DEF Secret!WriterInv
<1> HIDE DEF q
<1>10. \A n \in Namespace : Secret!WantInv(n)'
  <2> SUFFICES ASSUME NEW n \in Namespace PROVE Secret!WantInv(n)'
    OBVIOUS
  <2>1. CASE n \notin {ns, f}
    <3>1. \A w \in Secret!Writers(n) : writer'[w] = writer[w]
      BY <2>1, <1>3, <1>4 DEF Secret!Writers
    <3>2. content'[n] = content[n] /\ want'[n] = want[n]
      BY <2>1, <1>5, <1>7
    <3> QED
      BY <1>0, <1>6, <3>1, <3>2, SecretKept
  <2>2. CASE n \in {ns, f} /\ f = ns /\ Secret!Writers(ns) = {}
    <3>1. want'[n] = "absent" /\ content'[n] = "absent" /\ Secret!Writers(n)' = {}
      BY <2>2, <1>5, <1>6, <1>7
    <3> QED
      BY <3>1 DEF Secret!WantInv
  <2>3. CASE n \in {ns, f} /\ ~ (f = ns /\ Secret!Writers(ns) = {})
    <3>1. want'[n] = "unsure"
      BY <2>3, <1>7
    <3> QED
      BY <3>1 DEF Secret!WantInv
  <2> QED
    BY <2>1, <2>2, <2>3
<1>11. Secret!CopyInv'
  <2>1. content'[Secret!Legacy] = content[Secret!Legacy]
    BY <1>2, <1>5
  <2>2. want'[Default] = "nothing" =>
            want[Default] = "nothing" /\ content'[Default] = content[Default]
    BY <1>5, <1>7
  <2> QED
    BY <1>0, <1>1, <2>1, <2>2 DEF Secret!CopyInv
<1>12. Secret!AuthInv'
  BY <1>0, <1>1, <1>2, <1>5 DEF Secret!AuthInv
<1> QED
  BY <1>8, <1>9, <1>10, <1>11, <1>12 DEF Secret!IInv

\* While the provider starts no request has a file open.
LEMMA SecretNoWriters ==
    ASSUME Secret!WriterInv, provider # "serve"
    PROVE  /\ \A w \in Writer : ~ writer[w].linked
           /\ \A ns \in Namespace : Secret!Writers(ns) = {}
  BY DEF Secret!WriterInv, Secret!Writers

\* The provider's start changes the file of the default namespace only.
LEMMA SecretStart ==
    ASSUME Secret!SecretsAssumption, Secret!IInv, NEW c \in FileState,
           provider # "serve", provider' \in {"copy", "serve"},
           content' = [content EXCEPT ![Default] = c],
           UNCHANGED <<up, writer, want, requests, crashes>>,
           want[Default] \notin Value \/ c = content[Default],
           provider' = "copy" => want[Default] \notin Value /\ c = "empty",
           provider' = "serve" /\ want[Default] = "nothing" =>
               c = content[Secret!Legacy] \/ (c = "empty" /\ crashes > 0)
    PROVE  Secret!IInv'
<1> USE SecretNames
<1>0. /\ Secret!TypeOK /\ Secret!WriterInv /\ Secret!CopyInv /\ Secret!AuthInv
      /\ \A n \in Namespace : Secret!WantInv(n)
  BY DEF Secret!IInv
<1>1. /\ \A w \in Writer : ~ writer[w].linked
      /\ \A ns \in Namespace : Secret!Writers(ns) = {}
  BY <1>0, SecretNoWriters
<1>2. \A f \in Secret!File : content'[f] = IF f = Default THEN c ELSE content[f]
  BY <1>0, SecretTypes
<1>3. Secret!TypeOK'
  <2>1. content' \in [Secret!File -> FileState]
    BY <1>0, SecretTypes
  <2> QED
    BY <1>0, <1>1, <2>1 DEF Secret!TypeOK, FileState
<1>4. Secret!WriterInv'
  BY <1>0 DEF Secret!WriterInv
<1>5. \A n \in Namespace : Secret!WantInv(n)'
  <2> SUFFICES ASSUME NEW n \in Namespace PROVE Secret!WantInv(n)'
    OBVIOUS
  <2>1. Secret!Writers(n)' = {}
    BY <1>1 DEF Secret!Writers
  <2> QED
    BY <2>1, <1>0, <1>1, <1>2 DEF Secret!WantInv
<1>6. Secret!CopyInv'
  BY <1>0, <1>2 DEF Secret!CopyInv
<1>7. Secret!AuthInv'
  BY <1>0, <1>2 DEF Secret!AuthInv
<1> QED
  BY <1>3, <1>4, <1>5, <1>6, <1>7 DEF Secret!IInv

LEMMA SecretMigrate ==
    ASSUME Secret!SecretsAssumption, Secret!IInv, Secret!Migrate
    PROVE  Secret!IInv'
<1> USE SecretNames
<1>0. /\ Secret!TypeOK /\ Secret!WriterInv /\ Secret!CopyInv
      /\ Secret!WantInv(Default) /\ provider = "start"
  BY DEF Secret!IInv, Secret!Migrate
<1>1. Secret!Writers(Default) = {}
  BY <1>0, SecretNoWriters
<1>2. CASE content[Secret!Legacy] # "absent" /\ content[Default] = "absent"
  <2>1. want[Default] \notin Value
    BY <1>0, <1>1, <1>2 DEF Secret!WantInv
  <2>2. "empty" \in FileState /\ provider' = "copy"
    BY <1>2 DEF FileState, Secret!Migrate
  <2> QED
    BY <1>0, <1>2, <2>1, <2>2, SecretStart DEF Secret!Migrate
<1>3. CASE ~ (content[Secret!Legacy] # "absent" /\ content[Default] = "absent")
  <2>1. content[Default] \in FileState
    BY <1>0, SecretTypes
  <2>2. content' = [content EXCEPT ![Default] = content[Default]]
    BY <1>0, <1>3, SecretTypes DEF Secret!Migrate
  <2>3. want[Default] = "nothing" =>
            \/ content[Default] = content[Secret!Legacy]
            \/ content[Default] = "empty" /\ crashes > 0
    BY <1>0, <1>3 DEF Secret!CopyInv
  <2>4. provider' = "serve"
    BY <1>3 DEF Secret!Migrate
  <2> QED
    BY <1>0, <2>1, <2>2, <2>3, <2>4, SecretStart DEF Secret!Migrate
<1> QED
  BY <1>2, <1>3

LEMMA SecretCopy ==
    ASSUME Secret!SecretsAssumption, Secret!IInv, Secret!CopyFile
    PROVE  Secret!IInv'
<1>1. /\ content[Secret!Legacy] \in FileState /\ want[Default] \notin Value
      /\ provider = "copy"
  BY SecretTypes, SecretNames DEF Secret!IInv, Secret!CopyInv, Secret!CopyFile
<1> QED
  BY <1>1, SecretStart DEF Secret!CopyFile

\* faasd up changes the password file only.
LEMMA SecretPassword ==
    ASSUME Secret!SecretsAssumption, Secret!IInv, NEW c \in FileState,
           content' = [content EXCEPT ![Secret!Auth] = c],
           UNCHANGED <<provider, writer, want, requests, crashes>>,
           up' \in {"write", "up"},
           up' = "write" => c = "empty",
           up' = "up" => c \in Value \/ (c = "empty" /\ crashes > 0)
    PROVE  Secret!IInv'
<1> USE SecretNames
<1>0. /\ Secret!TypeOK /\ Secret!WriterInv /\ Secret!CopyInv /\ Secret!AuthInv
      /\ \A n \in Namespace : Secret!WantInv(n)
  BY DEF Secret!IInv
<1>1. \A f \in Secret!File : content'[f] = IF f = Secret!Auth THEN c ELSE content[f]
  BY <1>0, SecretTypes
<1>2. Secret!TypeOK'
  <2>1. content' \in [Secret!File -> FileState]
    BY <1>0, SecretTypes
  <2>2. \A w \in Writer : writer[w].linked => content'[writer[w].file] # "absent"
    <3> SUFFICES ASSUME NEW w \in Writer, writer[w].linked
                 PROVE  content'[writer[w].file] # "absent"
      OBVIOUS
    <3>1. writer[w].file \in Namespace /\ content[writer[w].file] # "absent"
      BY <1>0, SecretTypes DEF WriterState
    <3> QED
      BY <1>1, <3>1
  <2> QED
    BY <1>0, <2>1, <2>2 DEF Secret!TypeOK, FileState
<1>3. Secret!WriterInv'
  BY <1>0 DEF Secret!WriterInv
<1>4. \A n \in Namespace : Secret!WantInv(n)'
  BY <1>0, <1>1, SecretKept DEF Secret!Writers
<1>5. Secret!CopyInv'
  BY <1>0, <1>1 DEF Secret!CopyInv
<1>6. Secret!AuthInv'
  BY <1>1 DEF Secret!AuthInv
<1> QED
  BY <1>2, <1>3, <1>4, <1>5, <1>6 DEF Secret!IInv

LEMMA SecretMakeFile ==
    ASSUME Secret!SecretsAssumption, Secret!IInv, Secret!MakeFile
    PROVE  Secret!IInv'
<1>1. CASE content[Secret!Auth] = "absent"
  <2>1. "empty" \in FileState /\ up' = "write"
    BY <1>1 DEF FileState, Secret!MakeFile
  <2> QED
    BY <1>1, <2>1, SecretPassword DEF Secret!MakeFile
<1>2. CASE content[Secret!Auth] # "absent"
  <2>1. content[Secret!Auth] \in FileState
    BY SecretTypes, SecretNames DEF Secret!IInv
  <2>2. content' = [content EXCEPT ![Secret!Auth] = content[Secret!Auth]]
    BY <1>2, SecretTypes DEF Secret!MakeFile, Secret!IInv
  <2>3. \/ content[Secret!Auth] \in Value
        \/ content[Secret!Auth] = "empty" /\ crashes > 0
    BY <1>2 DEF Secret!IInv, Secret!AuthInv, Secret!MakeFile
  <2>4. up' = "up"
    BY <1>2 DEF Secret!MakeFile
  <2> QED
    BY <2>1, <2>2, <2>3, <2>4, SecretPassword DEF Secret!MakeFile
<1> QED
  BY <1>1, <1>2

LEMMA SecretWriteFile ==
    ASSUME Secret!SecretsAssumption, Secret!IInv, Secret!WriteFile
    PROVE  Secret!IInv'
<1>1. PICK v \in Value : content' = [content EXCEPT ![Secret!Auth] = v]
  BY DEF Secret!WriteFile
<1>2. v \in FileState /\ up' = "up"
  BY DEF FileState, Secret!WriteFile
<1> QED
  BY <1>1, <1>2, SecretPassword DEF Secret!WriteFile

\* What a request had begun to write is no longer wanted for sure.
LEMMA SecretCrash ==
    ASSUME Secret!SecretsAssumption, Secret!IInv, Secret!Crash
    PROVE  Secret!IInv'
<1> USE SecretNames DEF Secret!Crash
<1>0. /\ Secret!TypeOK /\ Secret!WriterInv /\ Secret!CopyInv /\ Secret!AuthInv
      /\ \A n \in Namespace : Secret!WantInv(n)
  BY DEF Secret!IInv
<1>1. \A w \in Writer : writer'[w] = Secret!Idle
  OBVIOUS
<1>2. /\ Secret!Idle \in WriterState /\ Secret!Idle.data = "none"
      /\ Secret!Idle.linked = FALSE
  BY DEF Secret!Idle, WriterState
<1>3. \A n \in Namespace : Secret!Writers(n)' = {}
  BY <1>1, <1>2 DEF Secret!Writers
<1>4. \A n \in Namespace :
          want'[n] = IF Secret!Writers(n) = {} THEN want[n] ELSE "unsure"
  OBVIOUS
<1>5. crashes' \in 0 .. MaxCrashes /\ crashes' > 0
  BY <1>0, SecretTypes DEF Secret!SecretsAssumption
<1>6. Secret!TypeOK'
  <2>1. writer' \in [Writer -> WriterState]
    BY <1>2
  <2>2. want' \in [Namespace -> Value \cup {"nothing", "absent", "unsure"}]
    BY <1>0, SecretTypes
  <2> QED
    BY <1>0, <1>1, <1>2, <1>5, <2>1, <2>2 DEF Secret!TypeOK, WriterState
<1>7. Secret!WriterInv'
  BY <1>1, <1>2 DEF Secret!WriterInv
<1>8. \A n \in Namespace : Secret!WantInv(n)'
  BY <1>0, <1>3, <1>4 DEF Secret!WantInv
<1>9. Secret!CopyInv'
  <2>1. /\ content' = content /\ provider' = "start"
        /\ want'[Default] = "nothing" => want[Default] = "nothing"
    BY <1>4
  <2> QED
    BY <1>0, <1>5, <2>1, SecretTypes DEF Secret!CopyInv
<1>10. Secret!AuthInv'
  BY <1>0, <1>5 DEF Secret!AuthInv
<1> QED
  BY <1>6, <1>7, <1>8, <1>9, <1>10 DEF Secret!IInv

LEMMA SecretInvariance ==
    ASSUME Secret!SecretsAssumption
    PROVE  Secret!Spec => []Secret!IInv
<1>1. Secret!Init => Secret!IInv
  BY SecretInit
<1>2. Secret!IInv /\ [Secret!Next]_(Secret!vars) => Secret!IInv'
  <2> SUFFICES ASSUME Secret!IInv, [Secret!Next]_(Secret!vars) PROVE Secret!IInv'
    OBVIOUS
  <2>1. CASE Secret!Next
    BY <2>1, SecretCreate, SecretWrite, SecretDelete, SecretMigrate, SecretCopy,
       SecretMakeFile, SecretWriteFile, SecretCrash DEF Secret!Next
  <2>2. CASE UNCHANGED Secret!vars
    BY <2>2 DEF Secret!vars, Secret!IInv, Secret!TypeOK, Secret!WriterInv,
       Secret!WantInv, Secret!CopyInv, Secret!AuthInv, Secret!Writers
  <2> QED
    BY <2>1, <2>2
<1> QED
  BY <1>1, <1>2, PTL DEF Secret!Spec

\* A secret is what the last request asked for, or what the older release had,
\* for any number of namespaces, values, concurrent requests and crashes
\* (secret.go:119, secret.go:139, provider.go:227, up.go:167).
THEOREM SecretsStored ==
    ASSUME Secret!SecretsAssumption
    PROVE  Secret!Spec => []Secret!StoredAsAsked
<1>1. Secret!IInv => Secret!StoredAsAsked
  <2> SUFFICES ASSUME Secret!IInv PROVE Secret!StoredAsAsked
    OBVIOUS
  <2>1. ASSUME NEW ns \in Namespace, Secret!Settled(ns)
        PROVE  /\ want[ns] \in Value => content[ns] = want[ns]
               /\ want[ns] = "absent" /\ ns # Default => content[ns] = "absent"
    BY <2>1 DEF Secret!IInv, Secret!WantInv, Secret!Settled
  <2>2. provider = "serve" /\ want[Default] = "nothing"
            => \/ content[Default] = content[Secret!Legacy]
               \/ content[Default] = "empty" /\ crashes > 0
    BY DEF Secret!IInv, Secret!CopyInv
  <2>3. up = "up" => \/ content[Secret!Auth] \in Value
                     \/ content[Secret!Auth] = "empty" /\ crashes > 0
    BY DEF Secret!IInv, Secret!AuthInv
  <2> QED
    BY <2>1, <2>2, <2>3 DEF Secret!StoredAsAsked, Secret!Settled
<1> QED
  BY <1>1, SecretInvariance, PTL

-----------------------------------------------------------------------------
(* Definitions.                                                            *)

\* One part before a text.
LEMMA PartBefore ==
    ASSUME NEW S, NEW u, NEW t \in Seq(S)
    PROVE  /\ <<u>> \o t # <<>>
           /\ Len(<<u>> \o t) = 1 + Len(t)
           /\ (<<u>> \o t)[1] = u
           /\ Tail(<<u>> \o t) = t
<1> DEFINE U == S \cup {u}
<1>1. PICK f \in Seq(U) : f = <<u>> /\ Len(f) = 1 /\ f[1] = u /\ f # <<>>
  <2>1. u \in U
    OBVIOUS
  <2> HIDE DEF U
  <2>2. <<u>> \in Seq(U) /\ Len(<<u>>) = 1 /\ <<u>>[1] = u /\ <<u>> # <<>>
    BY <2>1
  <2> QED
    BY <2>2
<1>2. t \in Seq(U)
  OBVIOUS
<1> HIDE DEF U
<1>3. PICK s \in Seq(U) : s = f \o t
  BY <1>2, ConcatProperties
<1>4. /\ Len(s) = 1 + Len(t) /\ Len(t) \in Nat
      /\ \A i \in 1 .. 1 + Len(t) : s[i] = IF i <= 1 THEN f[i] ELSE t[i - 1]
  BY <1>1, <1>2, <1>3, ConcatProperties
<1>5. s # <<>>
  BY <1>1, <1>2, <1>3, ConcatEqualIffEmpty
<1>6. s[1] = u
  BY <1>1, <1>4
<1>7. /\ Tail(s) \in Seq(U) /\ Len(Tail(s)) = Len(t)
      /\ \A i \in 1 .. Len(t) : Tail(s)[i] = s[i + 1]
  BY <1>4, <1>5, HeadTailProperties
<1>8. \A i \in 1 .. Len(t) : Tail(s)[i] = t[i]
  BY <1>4, <1>7
<1>9. Tail(s) = t
  BY <1>2, <1>7, <1>8
<1> QED
  BY <1>1, <1>3, <1>4, <1>5, <1>6, <1>9

LEMMA FprocessBefore ==
    ASSUME NEW t \in Seq(STRING)
    PROVE  /\ <<"fprocess">> \o t # <<>>
           /\ Len(<<"fprocess">> \o t) = 1 + Len(t)
           /\ (<<"fprocess">> \o t)[1] = "fprocess"
           /\ Tail(<<"fprocess">> \o t) = t
<1>1. PICK u : u = "fprocess"
  OBVIOUS
<1>2. /\ <<u>> \o t # <<>>
      /\ Len(<<u>> \o t) = 1 + Len(t)
      /\ (<<u>> \o t)[1] = u
      /\ Tail(<<u>> \o t) = t
  BY PartBefore
<1> QED
  BY <1>1, <1>2, Zenon

LEMMA TailText ==
    ASSUME NEW t \in Copies!Text, Len(t) > 1
    PROVE  Tail(t) \in Copies!Text
<1>1. t \in Seq(STRING) /\ t # <<>>
  BY DEF Copies!Text, Copies!None
<1>2. Len(t) \in Nat /\ Len(t) # 0
  BY <1>1
<1>3. Tail(t) \in Seq(STRING) /\ Len(Tail(t)) = Len(t) - 1
  BY <1>1, <1>2
<1>4. Len(Tail(t)) # 0
  <2>1. PICK n \in Nat : n = Len(t) /\ n > 1
    BY <1>2
  <2>2. Len(Tail(t)) = n - 1
    BY <1>3, <2>1
  <2> QED
    BY <2>1, <2>2
<1> QED
  BY <1>3, <1>4 DEF Copies!Text, Copies!None

\* The first part of a text.
LEMMA FieldText ==
    ASSUME NEW t \in Copies!Text
    PROVE  /\ t[1] \in STRING
           /\ Copies!Field(t) \in Copies!Text
           /\ Len(Copies!Field(t)) = 1
           /\ Copies!Field(t) # Copies!None
           /\ Copies!Field(Copies!Field(t)) = Copies!Field(t)
           /\ Len(t) = 1 => Copies!Field(t) = t
<1>1. t \in Seq(STRING) /\ Len(t) \in Nat /\ Len(t) # 0
  BY DEF Copies!Text, Copies!None
<1>2. t[1] \in STRING
  BY <1>1
<1>3. <<t[1]>> \in Seq(STRING) /\ Len(<<t[1]>>) = 1 /\ <<t[1]>> # <<>>
  BY <1>2
<1>4. Len(t) = 1 => <<t[1]>> = t
  BY <1>1, <1>2
<1> QED
  BY <1>2, <1>3, <1>4 DEF Copies!Field, Copies!Text, Copies!None

\* An entry over an environment, key by key.
LEMMA WithEnvText ==
    ASSUME NEW env, NEW t,
           t # Copies!None /\ Len(t) > 1 => Tail(t) \in Copies!Text,
           \A k \in DOMAIN env : env[k] \in Copies!Text
    PROVE  \A k \in DOMAIN Copies!WithEnv(env, t) :
               Copies!WithEnv(env, t)[k] \in Copies!Text
<1>1. CASE t = Copies!None
  BY <1>1 DEF Copies!WithEnv
<1>2. CASE t # Copies!None /\ ~ (Len(t) > 1)
  <2>1. \/ Copies!WithEnv(env, t) = env
        \/ Copies!WithEnv(env, t) = Copies!Without(env, t[1])
    BY <1>2 DEF Copies!WithEnv
  <2> QED
    BY <2>1 DEF Copies!Without
<1>3. CASE t # Copies!None /\ Len(t) > 1
  <2>1. Tail(t) \in Copies!Text
    BY <1>3
  <2> QED
    BY <1>3, <2>1 DEF Copies!WithEnv, Copies!Extend
<1> QED
  BY <1>1, <1>2, <1>3

\* A request of users or of nodes makes a container, if it is not refused.
LEMMA DeployContainer ==
    ASSUME Copies!RedeployAssumption, NEW r, Copies!IsRequest(r),
           Copies!deploy(r) # Copies!Refused
    PROVE  Copies!IsContainer(Copies!deploy(r))
<1> DEFINE c == Copies!deploy(r)
<1>1. c = [env |-> Copies!prepareEnv(r), labels |-> Copies!buildLabels(r),
           secrets |-> r.secrets, memory |-> r.limits]
  BY DEF Copies!deploy
<1> HIDE DEF c
<1>2. c.env = Copies!prepareEnv(r) /\ c.labels = Copies!buildLabels(r)
      /\ c = [env |-> c.env, labels |-> c.labels, secrets |-> c.secrets,
              memory |-> c.memory]
  BY <1>1
<1>3. \A k \in DOMAIN c.env : c.env[k] \in Copies!Text
  <2> DEFINE e == Copies!Extend(Image, Copies!Without(r.envVars, "fprocess"))
             t == Copies!FprocessEntry(r)
  <2>1. \A k \in DOMAIN e : e[k] \in Copies!Text
    BY DEF Copies!Extend, Copies!Without, Copies!IsRequest, Copies!RedeployAssumption
  <2>2. t # Copies!None /\ Len(t) > 1 => Tail(t) \in Copies!Text
    <3>1. CASE "fprocess" \in DOMAIN r.envVars
      BY <3>1, TailText DEF Copies!FprocessEntry, Copies!IsRequest
    <3>2. CASE "fprocess" \notin DOMAIN r.envVars
      <4>1. r.envProcess \in Seq(STRING)
        BY DEF Copies!IsRequest
      <4>2. Tail(<<"fprocess">> \o r.envProcess) = r.envProcess
        BY <4>1, FprocessBefore
      <4> QED
        BY <3>2, <4>1, <4>2 DEF Copies!FprocessEntry, Copies!Text
    <3> QED
      BY <3>1, <3>2
  <2> HIDE DEF e, t
  <2>3. \A k \in DOMAIN Copies!WithEnv(e, t) : Copies!WithEnv(e, t)[k] \in Copies!Text
    BY <2>1, <2>2, WithEnvText
  <2> QED
    BY <1>2, <2>3 DEF Copies!prepareEnv, e, t
<1>4. c.labels = [k \in DOMAIN c.labels |-> c.labels[k]]
  BY <1>2 DEF Copies!buildLabels, Copies!Extend
<1>5. DOMAIN c.labels \subseteq Nat \X STRING
  <2>1. DOMAIN Copies!Annotated(r.annotations) \subseteq Nat \X STRING
    BY DEF Copies!IsRequest, Copies!Annotated
  <2> QED
    BY <1>2, <2>1 DEF Copies!IsRequest, Copies!buildLabels, Copies!Extend
<1> QED
  BY <1>2, <1>3, <1>4, <1>5 DEF Copies!IsContainer, c

\* What a container is read as.
LEMMA StatusOf ==
    ASSUME NEW c, Copies!IsContainer(c)
    PROVE  /\ Copies!IsStatus(Copies!GetFunctionStatus(c))
           /\ Copies!GetFunctionStatus(c) # Copies!None
<1> DEFINE s == Copies!GetFunctionStatus(c)
<1>1. /\ s.envProcess = Copies!readFprocess(c.env)
      /\ s.envVars = Copies!readEnvFromProcessEnv(c.env)
      /\ s.labels = Copies!PlainLabels(c.labels)
      /\ s.annotations = Copies!Annotations(c.labels)
  BY DEF Copies!GetFunctionStatus
<1>2. "limits" \in DOMAIN s
  BY DEF Copies!GetFunctionStatus
<1> HIDE DEF s
<1>3. \A k \in DOMAIN c.env : c.env[k] \in Copies!Text
  BY DEF Copies!IsContainer
<1>4. \A k \in DOMAIN s.envVars : s.envVars[k] \in Copies!Text /\ Len(s.envVars[k]) = 1
  BY <1>1, <1>3, FieldText DEF Copies!readEnvFromProcessEnv
<1>5. s.envProcess \in Seq(STRING) \ {Copies!EmptyText}
  <2>1. Copies!None \in Seq(STRING)
    BY DEF Copies!None
  <2>2. Copies!None # Copies!EmptyText
    <3>1. PICK u : u = ""
      OBVIOUS
    <3>2. <<>> # <<u>>
      OBVIOUS
    <3> QED
      BY <3>1, <3>2, Zenon DEF Copies!None, Copies!EmptyText
  <2>3. CASE Copies!ReadsFprocess(c.env)
    BY <1>1, <1>3, <2>3, FieldText
    DEF Copies!readFprocess, Copies!ReadsFprocess, Copies!Text
  <2>4. CASE ~ Copies!ReadsFprocess(c.env)
    BY <1>1, <2>1, <2>2, <2>4 DEF Copies!readFprocess
  <2> QED
    BY <2>3, <2>4
<1>6. /\ DOMAIN s.labels \subseteq Nat \X STRING
      /\ \A l \in DOMAIN s.labels : l[1] = 0
  BY <1>1 DEF Copies!PlainLabels, Copies!IsContainer
<1>7. DOMAIN s.annotations \subseteq Nat \X STRING
  BY <1>1 DEF Copies!Annotations, Copies!IsContainer
<1>8. s # Copies!None
  <2>1. DOMAIN Copies!None = {}
    BY DEF Copies!None
  <2> QED
    BY <1>2, <2>1
<1> QED
  BY <1>4, <1>5, <1>6, <1>7, <1>8 DEF Copies!IsStatus, Copies!IsRequest, s

\* Plain labels and annotations do not meet: a status can be deployed.
LEMMA StatusDeploys ==
    ASSUME NEW s, Copies!IsStatus(s)
    PROVE  Copies!deploy(s) # Copies!Refused
<1>1. ~ Copies!Conflict(s)
  <2> SUFFICES ASSUME NEW l \in DOMAIN s.labels,
                      l \in DOMAIN Copies!Annotated(s.annotations)
               PROVE  FALSE
    BY DEF Copies!Conflict
  <2>1. PICK a \in DOMAIN s.annotations : l = <<a[1] + 1, a[2]>>
    BY DEF Copies!Annotated
  <2>2. a[1] \in Nat /\ l[1] = 0
    BY DEF Copies!IsStatus, Copies!IsRequest
  <2> QED
    BY <2>1, <2>2
<1>2. "env" \in DOMAIN Copies!deploy(s) /\ "env" \notin DOMAIN Copies!Refused
  BY <1>1 DEF Copies!deploy, Copies!Refused
<1> QED
  BY <1>2

\* A copy is a container.
LEMMA CopyContainer ==
    ASSUME Copies!RedeployAssumption, NEW c, Copies!IsContainer(c)
    PROVE  Copies!IsContainer(Copies!Copy(c)) /\ Copies!Copy(c) # Copies!Refused
<1>1. Copies!IsStatus(Copies!GetFunctionStatus(c))
  BY StatusOf
<1>2. Copies!IsRequest(Copies!GetFunctionStatus(c))
  BY <1>1 DEF Copies!IsStatus
<1>3. Copies!deploy(Copies!GetFunctionStatus(c)) # Copies!Refused
  BY <1>1, StatusDeploys
<1> QED
  BY <1>2, <1>3, DeployContainer DEF Copies!Copy

\* The fields of a copy.  Its environment: the image's, and over it the first
\* part of each value that is read back.
ReadBack(env) ==
    {k \in DOMAIN env \ {"PATH"} : k = "fprocess" => Copies!ReadsFprocess(env)}

CopyEnv(env) ==
    [k \in DOMAIN Image \cup ReadBack(env) |->
        IF k \in ReadBack(env) THEN Copies!Field(env[k]) ELSE Image[k]]

LEMMA CopyFields ==
    ASSUME NEW c, Copies!IsContainer(c)
    PROVE  /\ Copies!Copy(c) = [env |-> CopyEnv(c.env), labels |-> c.labels,
                                secrets |-> c.secrets, memory |-> 0]
           /\ Copies!Copy(c).env = CopyEnv(c.env)
<1> DEFINE s == Copies!GetFunctionStatus(c)
<1>0. Copies!IsStatus(s)
  BY StatusOf
<1>1. /\ s.envProcess = Copies!readFprocess(c.env)
      /\ s.envVars = Copies!readEnvFromProcessEnv(c.env)
      /\ s.labels = Copies!PlainLabels(c.labels)
      /\ s.annotations = Copies!Annotations(c.labels)
      /\ s.secrets = c.secrets
      /\ s.limits = 0
  BY DEF Copies!GetFunctionStatus
<1>2. Copies!Copy(c) = Copies!deploy(s)
  BY DEF Copies!Copy
<1> HIDE DEF s
<1>3. Copies!deploy(s) # Copies!Refused
  BY <1>0, StatusDeploys
<1>4. Copies!deploy(s) = [env |-> Copies!prepareEnv(s), labels |-> Copies!buildLabels(s),
                          secrets |-> c.secrets, memory |-> 0]
  BY <1>1, <1>3 DEF Copies!deploy
<1>5. Copies!buildLabels(s) = c.labels
  <2> DEFINE L == c.labels
             P == Copies!PlainLabels(L)
             A == Copies!Annotated(Copies!Annotations(L))
  <2>1. L = [k \in DOMAIN L |-> L[k]] /\ DOMAIN L \subseteq Nat \X STRING
    BY DEF Copies!IsContainer
  <2>2. P = [k \in {l \in DOMAIN L : l[1] = 0} |-> L[k]]
    BY DEF Copies!PlainLabels
  <2>3. A = [k \in {l \in DOMAIN L : l[1] > 0} |-> L[k]]
    <3> DEFINE N == Copies!Annotations(L)
    <3>1. DOMAIN N = {<<l[1] - 1, l[2]>> : l \in {k \in DOMAIN L : k[1] > 0}}
      BY DEF Copies!Annotations
    <3>2. \A a \in DOMAIN N : N[a] = L[<<a[1] + 1, a[2]>>]
      BY DEF Copies!Annotations
    <3>3. A = [k \in {<<a[1] + 1, a[2]>> : a \in DOMAIN N} |-> N[<<k[1] - 1, k[2]>>]]
      BY DEF Copies!Annotated
    <3> HIDE DEF N, L, A
    <3>4. ASSUME NEW k \in DOMAIN L, k[1] > 0
          PROVE  /\ <<k[1] - 1, k[2]>> \in DOMAIN N
                 /\ N[<<k[1] - 1, k[2]>>] = L[k]
                 /\ k = <<(k[1] - 1) + 1, k[2]>>
      <4>1. k[1] \in Nat /\ k = <<k[1], k[2]>>
        BY <2>1
      <4>2. (k[1] - 1) + 1 = k[1]
        BY <4>1
      <4>3. <<k[1] - 1, k[2]>> \in DOMAIN N
        BY <3>1, <3>4
      <4>4. N[<<k[1] - 1, k[2]>>] = L[<<(k[1] - 1) + 1, k[2]>>]
        BY <3>2, <4>3
      <4> QED
        BY <4>1, <4>2, <4>3, <4>4
    <3>5. ASSUME NEW a \in DOMAIN N
          PROVE  <<a[1] + 1, a[2]>> \in DOMAIN L /\ a[1] + 1 > 0
      <4>1. PICK l \in DOMAIN L : l[1] > 0 /\ a = <<l[1] - 1, l[2]>>
        BY <3>1
      <4>2. l[1] \in Nat /\ l = <<l[1], l[2]>>
        BY <2>1
      <4>3. a[1] + 1 = l[1] /\ a[2] = l[2]
        BY <4>1, <4>2
      <4> QED
        BY <4>1, <4>2, <4>3
    <3>6. {<<a[1] + 1, a[2]>> : a \in DOMAIN N} = {l \in DOMAIN L : l[1] > 0}
      <4>1. ASSUME NEW k \in {<<a[1] + 1, a[2]>> : a \in DOMAIN N}
            PROVE  k \in {l \in DOMAIN L : l[1] > 0}
        BY <3>5
      <4>2. ASSUME NEW k \in DOMAIN L, k[1] > 0
            PROVE  k \in {<<a[1] + 1, a[2]>> : a \in DOMAIN N}
        <5> DEFINE b == <<k[1] - 1, k[2]>>
        <5>1. b \in DOMAIN N /\ k = <<b[1] + 1, b[2]>>
          BY <3>4, <4>2
        <5> HIDE DEF b
        <5> QED
          BY <5>1
      <4> QED
        BY <4>1, <4>2
    <3>7. \A k \in {l \in DOMAIN L : l[1] > 0} : N[<<k[1] - 1, k[2]>>] = L[k]
      BY <3>4
    <3> QED
      BY <3>3, <3>6, <3>7
  <2>4. DOMAIN P \cup DOMAIN A = DOMAIN L
    <3>1. \A k \in DOMAIN L : k[1] \in Nat
      BY <2>1
    <3>2. \A k \in DOMAIN L : k[1] = 0 \/ k[1] > 0
      BY <3>1
    <3> QED
      BY <2>2, <2>3, <3>2
  <2>5. Copies!buildLabels(s) = Copies!Extend(P, A)
    BY <1>1 DEF Copies!buildLabels
  <2> HIDE DEF L, P, A
  <2>6. Copies!Extend(P, A) = [k \in DOMAIN L |-> L[k]]
    BY <2>2, <2>3, <2>4 DEF Copies!Extend
  <2> QED
    BY <2>1, <2>5, <2>6 DEF L
<1>6. Copies!prepareEnv(s) = CopyEnv(c.env)
  <2> DEFINE V == s.envVars
             e == Copies!Extend(Image, Copies!Without(V, "fprocess"))
  <2>0. "PATH" # "fprocess"
    OBVIOUS
  <2>1. V = [k \in DOMAIN c.env \ {"PATH", "fprocess"} |-> Copies!Field(c.env[k])]
    BY <1>1 DEF Copies!readEnvFromProcessEnv
  <2>2. Copies!Without(V, "fprocess") = V
    BY <2>1 DEF Copies!Without
  <2>3. e = [k \in DOMAIN Image \cup (DOMAIN c.env \ {"PATH", "fprocess"}) |->
                IF k \in DOMAIN c.env \ {"PATH", "fprocess"}
                THEN Copies!Field(c.env[k]) ELSE Image[k]]
    BY <2>1, <2>2 DEF Copies!Extend
  <2>4. "fprocess" \notin DOMAIN V
    BY <2>1
  <2> HIDE DEF V, e
  <2>5. CASE ~ Copies!ReadsFprocess(c.env)
    <3>1. Copies!FprocessEntry(s) = Copies!None
      BY <1>1, <2>4, <2>5 DEF Copies!FprocessEntry, Copies!readFprocess, V
    <3>2. Copies!prepareEnv(s) = e
      BY <3>1 DEF Copies!prepareEnv, Copies!WithEnv, e, V
    <3>3. ReadBack(c.env) = DOMAIN c.env \ {"PATH", "fprocess"}
      BY <2>5 DEF ReadBack
    <3> QED
      BY <2>3, <3>2, <3>3 DEF CopyEnv
  <2>6. CASE Copies!ReadsFprocess(c.env)
    <3> DEFINE w == Copies!Field(c.env["fprocess"])
               t == <<"fprocess">> \o w
    <3>0. "fprocess" \in DOMAIN c.env
      BY <2>6 DEF Copies!ReadsFprocess
    <3>1. c.env["fprocess"] \in Copies!Text
      BY <3>0 DEF Copies!IsContainer
    <3>2. w \in Seq(STRING) /\ w # Copies!None /\ Len(w) = 1
      BY <3>1, FieldText DEF Copies!Text
    <3>3. Copies!FprocessEntry(s) = t
      BY <1>1, <2>4, <2>6, <3>2 DEF Copies!FprocessEntry, Copies!readFprocess, V
    <3> HIDE DEF w
    <3>4. Len(t) = 1 + Len(w) /\ t[1] = "fprocess" /\ Tail(t) = w /\ t # Copies!None
      BY <3>2, FprocessBefore DEF Copies!None
    <3> HIDE DEF t
    <3>5. Copies!prepareEnv(s) = Copies!WithEnv(e, t)
      BY <3>3 DEF Copies!prepareEnv, e, V
    <3>6. Copies!WithEnv(e, t) = Copies!Extend(e, [k \in {"fprocess"} |-> w])
      <4>1. Len(t) > 1
        BY <3>2, <3>4
      <4>2. Copies!WithEnv(e, t) = Copies!Extend(e, [k \in {t[1]} |-> Tail(t)])
        BY <3>4, <4>1 DEF Copies!WithEnv
      <4> QED
        BY <3>4, <4>2, Zenon
    <3>7. Copies!Extend(e, [k \in {"fprocess"} |-> w])
          = [k \in DOMAIN e \cup {"fprocess"} |->
                IF k = "fprocess" THEN Copies!Field(c.env["fprocess"]) ELSE e[k]]
      BY DEF Copies!Extend, w
    <3>R. ReadBack(c.env) = DOMAIN c.env \ {"PATH"}
      BY <2>6 DEF ReadBack
    <3>8. DOMAIN e \cup {"fprocess"} = DOMAIN Image \cup (DOMAIN c.env \ {"PATH"})
      BY <2>0, <2>3, <3>0
    <3>9. ASSUME NEW k \in DOMAIN Image \cup (DOMAIN c.env \ {"PATH"})
          PROVE  (IF k = "fprocess" THEN Copies!Field(c.env["fprocess"]) ELSE e[k])
                 = CopyEnv(c.env)[k]
      BY <2>0, <2>3, <3>0, <3>R DEF CopyEnv
    <3> QED
      BY <3>5, <3>6, <3>7, <3>8, <3>9, <3>R DEF CopyEnv
  <2> QED
    BY <2>5, <2>6
<1> QED
  BY <1>2, <1>4, <1>5, <1>6

\* What a second copy loses, a third has not.
LEMMA ThirdCopy ==
    ASSUME Copies!RedeployAssumption, NEW c, Copies!IsContainer(c)
    PROVE  Copies!Copy(Copies!Copy(Copies!Copy(c))) = Copies!Copy(Copies!Copy(c))
<1> DEFINE c1 == Copies!Copy(c)
           c2 == Copies!Copy(c1)
           c3 == Copies!Copy(c2)
<1>1. Copies!IsContainer(c1)
  BY CopyContainer
<1>2. Copies!IsContainer(c2)
  <2> HIDE DEF c1
  <2> QED
    BY <1>1, CopyContainer
<1>3. c1.env = CopyEnv(c.env)
  BY CopyFields
<1> HIDE DEF c1
<1>4. /\ c2 = [env |-> CopyEnv(c1.env), labels |-> c1.labels,
               secrets |-> c1.secrets, memory |-> 0]
      /\ c2.env = CopyEnv(c1.env)
  BY <1>1, CopyFields
<1> HIDE DEF c2
<1>5. c3 = [env |-> CopyEnv(c2.env), labels |-> c2.labels,
            secrets |-> c2.secrets, memory |-> 0]
  BY <1>2, CopyFields
<1> HIDE DEF c3
<1>6. CopyEnv(c2.env) = CopyEnv(c1.env)
  <2>1. \A k \in DOMAIN c1.env : c1.env[k] \in Copies!Text
    BY <1>1 DEF Copies!IsContainer
  <2>2. /\ DOMAIN c1.env = DOMAIN Image \cup ReadBack(c.env)
        /\ DOMAIN c2.env = DOMAIN Image \cup ReadBack(c1.env)
    BY <1>3, <1>4 DEF CopyEnv
  <2>3. \A k \in ReadBack(c1.env) : /\ c2.env[k] = Copies!Field(c1.env[k])
                                    /\ Copies!Field(c2.env[k]) = Copies!Field(c1.env[k])
    <3>1. \A k \in ReadBack(c1.env) : k \in DOMAIN c1.env
      BY DEF ReadBack
    <3>2. \A k \in ReadBack(c1.env) : c2.env[k] = Copies!Field(c1.env[k])
      BY <1>4 DEF CopyEnv
    <3> QED
      BY <2>1, <3>1, <3>2, FieldText
  <2>4. \A k \in ReadBack(c.env) : k \in ReadBack(c1.env)
    <3>1. \A k \in DOMAIN c.env : c.env[k] \in Copies!Text
      BY DEF Copies!IsContainer
    <3>2. \A k \in ReadBack(c.env) : /\ k \in DOMAIN c1.env /\ k # "PATH"
                                     /\ c1.env[k] = Copies!Field(c.env[k])
                                     /\ Copies!Field(c1.env[k]) = Copies!Field(c.env[k])
      BY <1>3, <2>2, <3>1, FieldText DEF CopyEnv, ReadBack
    <3>3. "fprocess" \in ReadBack(c.env) =>
              Copies!ReadsFprocess(c.env) /\ Copies!ReadsFprocess(c1.env)
      BY <3>2 DEF ReadBack, Copies!ReadsFprocess
    <3> QED
      BY <3>2, <3>3 DEF ReadBack
  <2>5. \A k \in DOMAIN c1.env \ ReadBack(c1.env) :
            k \in DOMAIN Image /\ c1.env[k] = Image[k] /\ c2.env[k] = Image[k]
    BY <1>3, <1>4, <2>2, <2>4 DEF CopyEnv
  <2>6. DOMAIN c2.env = DOMAIN c1.env
    <3>1. ReadBack(c1.env) \subseteq DOMAIN c1.env
      BY DEF ReadBack
    <3> QED
      BY <2>2, <2>4, <3>1
  <2>7. Copies!ReadsFprocess(c2.env) <=> Copies!ReadsFprocess(c1.env)
    <3>1. CASE "fprocess" \in ReadBack(c1.env)
      BY <2>3, <2>6, <3>1 DEF ReadBack, Copies!ReadsFprocess
    <3>2. CASE "fprocess" \in DOMAIN c1.env \ ReadBack(c1.env)
      BY <2>5, <2>6, <3>2 DEF Copies!ReadsFprocess
    <3>3. CASE "fprocess" \notin DOMAIN c1.env
      BY <2>6, <3>3 DEF Copies!ReadsFprocess
    <3> QED
      BY <3>1, <3>2, <3>3
  <2>8. ReadBack(c2.env) = ReadBack(c1.env)
    BY <2>6, <2>7 DEF ReadBack
  <2> QED
    BY <2>3, <2>8 DEF CopyEnv
<1> QED
  BY <1>4, <1>5, <1>6 DEF c1, c2, c3

\* The second copy is like the first, unless the request revives a variable.
LEMMA SecondCopy ==
    ASSUME Copies!RedeployAssumption, NEW r, Copies!IsRequest(r),
           Copies!deploy(r) # Copies!Refused, ~ Copies!Revives(r)
    PROVE  Copies!Copy(Copies!Copy(Copies!deploy(r))) = Copies!Copy(Copies!deploy(r))
<1> DEFINE c == Copies!deploy(r)
           c1 == Copies!Copy(c)
           c2 == Copies!Copy(c1)
<1>0. Copies!IsContainer(c)
  BY DeployContainer
<1>1. \A k \in DOMAIN Image \ {"PATH"} : k \notin ReadBack(c.env) => ~ (Len(Image[k]) > 1)
  BY DEF Copies!Revives, ReadBack
<1> HIDE DEF c
<1>2. Copies!IsContainer(c1)
  BY <1>0, CopyContainer
<1>3. /\ c1 = [env |-> CopyEnv(c.env), labels |-> c.labels,
               secrets |-> c.secrets, memory |-> 0]
      /\ c1.env = CopyEnv(c.env)
  BY <1>0, CopyFields
<1> HIDE DEF c1
<1>4. c2 = [env |-> CopyEnv(c1.env), labels |-> c1.labels,
            secrets |-> c1.secrets, memory |-> 0]
  BY <1>2, CopyFields
<1> HIDE DEF c2
<1>5. CopyEnv(c1.env) = CopyEnv(c.env)
  <2>1. \A k \in DOMAIN c.env : c.env[k] \in Copies!Text
    BY <1>0 DEF Copies!IsContainer
  <2>2. DOMAIN c1.env = DOMAIN Image \cup ReadBack(c.env)
    BY <1>3 DEF CopyEnv
  <2>3. \A k \in ReadBack(c.env) : /\ Copies!Field(c1.env[k]) = c1.env[k]
                                   /\ Copies!Field(c1.env[k]) = Copies!Field(c.env[k])
    <3>1. \A k \in ReadBack(c.env) : k \in DOMAIN c.env
      BY DEF ReadBack
    <3> QED
      BY <1>3, <2>1, <3>1, FieldText DEF CopyEnv
  <2>4. ASSUME NEW k \in DOMAIN Image \ {"PATH"}, k \notin ReadBack(c.env)
        PROVE  Copies!Field(c1.env[k]) = c1.env[k] /\ c1.env[k] = Image[k]
    <3>1. c1.env[k] = Image[k]
      BY <1>3, <2>4 DEF CopyEnv
    <3>2. Image[k] \in Copies!Text /\ ~ (Len(Image[k]) > 1)
      BY <1>1, <2>4 DEF Copies!RedeployAssumption
    <3>3. Len(Image[k]) = 1
      <4>1. Image[k] \in Seq(STRING) /\ Image[k] # <<>>
        BY <3>2 DEF Copies!Text, Copies!None
      <4>2. PICK n \in Nat : n = Len(Image[k]) /\ n # 0
        BY <4>1
      <4>3. ~ (n > 1)
        BY <3>2, <4>2
      <4>4. n = 1
        BY <4>2, <4>3
      <4> QED
        BY <4>2, <4>4
    <3> QED
      BY <3>1, <3>2, <3>3, FieldText
  <2>5. \A k \in ReadBack(c1.env) : Copies!Field(c1.env[k]) = c1.env[k]
    BY <2>2, <2>3, <2>4 DEF ReadBack
  <2>6. ReadBack(c1.env) \subseteq DOMAIN c1.env
    BY DEF ReadBack
  <2>7. \A k \in ReadBack(c.env) : k \in ReadBack(c1.env)
    <3>1. \A k \in ReadBack(c.env) : k \in DOMAIN c1.env /\ k # "PATH"
      BY <2>2 DEF ReadBack
    <3>2. "fprocess" \in ReadBack(c.env) => Copies!ReadsFprocess(c1.env)
      BY <2>3, <3>1 DEF ReadBack, Copies!ReadsFprocess
    <3> QED
      BY <3>1, <3>2 DEF ReadBack
  <2>8. \A k \in DOMAIN c1.env \ ReadBack(c1.env) :
            k \in DOMAIN Image /\ c1.env[k] = Image[k]
    BY <1>3, <2>2, <2>7 DEF CopyEnv
  <2>9. DOMAIN Image \cup ReadBack(c1.env) = DOMAIN c1.env
    BY <2>2, <2>6, <2>7
  <2>10. CopyEnv(c1.env) = [k \in DOMAIN c1.env |-> c1.env[k]]
    BY <2>5, <2>8, <2>9 DEF CopyEnv
  <2>11. CopyEnv(c.env) = [k \in DOMAIN c1.env |-> c1.env[k]]
    BY <1>3 DEF CopyEnv
  <2> QED
    BY <2>10, <2>11
<1> QED
  BY <1>3, <1>4, <1>5 DEF c, c1, c2

\* Copies of what was asked for, with its labels and secrets.
LEMMA GenerationFacts ==
    ASSUME Copies!RedeployAssumption, NEW r \in CopyRequest,
           Copies!deploy(r) # Copies!Refused,
           NEW c \in Copies!Generations(r)
    PROVE  /\ Copies!IsContainer(c)
           /\ c.labels = Copies!deploy(r).labels
           /\ c.secrets = Copies!deploy(r).secrets
           /\ Copies!Copy(c) \in Copies!Generations(r)
<1> DEFINE c0 == Copies!deploy(r)
           c1 == Copies!Copy(c0)
           c2 == Copies!Copy(c1)
<1>1. Copies!IsContainer(c0)
  BY DeployContainer DEF Copies!RedeployAssumption
<1>2. c = c0 \/ c = c1 \/ c = c2
  BY DEF Copies!Generations
<1>3. Copies!Generations(r) = {c0, c1, c2}
  BY DEF Copies!Generations
<1> HIDE DEF c0
<1>4. Copies!IsContainer(c1)
  BY <1>1, CopyContainer
<1>5. c1.labels = c0.labels /\ c1.secrets = c0.secrets
  BY <1>1, CopyFields
<1>6. Copies!Copy(c2) = c2
  BY <1>1, ThirdCopy
<1> HIDE DEF c1
<1>7. Copies!IsContainer(c2)
  BY <1>4, CopyContainer
<1>8. c2.labels = c1.labels /\ c2.secrets = c1.secrets
  BY <1>4, CopyFields
<1>9. Copies!Copy(c) \in {c0, c1, c2}
  BY <1>2, <1>6 DEF c1, c2
<1> QED
  BY <1>1, <1>2, <1>3, <1>4, <1>5, <1>7, <1>8, <1>9 DEF c0

LEMMA CopiesInit == Copies!RedeployAssumption /\ Copies!Init => Copies!IInv
<1> SUFFICES ASSUME Copies!RedeployAssumption, Copies!Init PROVE Copies!IInv
  OBVIOUS
<1>1. \A n \in CopyNode : ~ Copies!Runs(n) /\ known[n] = Copies!None
  BY DEF Copies!Init, Copies!Runs
<1>2. Copies!TypeOK
  BY <1>1 DEF Copies!Init, Copies!TypeOK, Copies!RedeployAssumption
<1> QED
  BY <1>1, <1>2 DEF Copies!Init, Copies!IInv

\* What containers and entries of the catalog have to be for the invariant to
\* hold again.
LEMMA CopiesStep ==
    ASSUME asked' \in CopyRequest \cup {Copies!None},
           updates' \in 0 .. MaxUpdates,
           DOMAIN container' = CopyNode, DOMAIN known' = CopyNode,
           started' \subseteq {n \in CopyNode : container'[n] # Copies!None},
           files' \in [CopyNode -> SUBSET Copies!SecretNames],
           reports' \subseteq {n \in CopyNode : known'[n] # Copies!None},
           \A n \in CopyNode : container'[n] # Copies!None =>
               /\ asked' # Copies!None
               /\ Copies!IsContainer(container'[n]),
           \A n \in CopyNode : known'[n] # Copies!None =>
               /\ asked' # Copies!None
               /\ Copies!IsStatus(known'[n]),
           asked' # Copies!None /\ updates' = 0 =>
               /\ Copies!deploy(asked') # Copies!Refused
               /\ \A n \in CopyNode :
                      /\ container'[n] # Copies!None =>
                             container'[n] \in Copies!Generations(asked')
                      /\ known'[n] # Copies!None =>
                             known'[n] \in {Copies!GetFunctionStatus(c) :
                                               c \in Copies!Generations(asked')}
    PROVE  Copies!IInv'
<1>1. ASSUME NEW n \in CopyNode, container'[n] # Copies!None
      PROVE  /\ DOMAIN container'[n] = {"env", "labels", "secrets", "memory"}
             /\ \A k \in DOMAIN container'[n].env : container'[n].env[k] # Copies!None
  <2>1. PICK c : c = container'[n] /\ Copies!IsContainer(c)
    BY <1>1
  <2>2. \A k \in DOMAIN c.env : c.env[k] # Copies!None
    BY <2>1 DEF Copies!IsContainer, Copies!Text
  <2>3. DOMAIN c = {"env", "labels", "secrets", "memory"}
    BY <2>1 DEF Copies!IsContainer
  <2> QED
    BY <2>1, <2>2, <2>3
<1>2. ASSUME NEW n \in CopyNode, known'[n] # Copies!None
      PROVE  \A k \in DOMAIN known'[n].envVars : Len(known'[n].envVars[k]) = 1
  BY <1>2 DEF Copies!IsStatus
<1>3. Copies!TypeOK'
  BY <1>1, <1>2 DEF Copies!TypeOK, Copies!Runs
<1> QED
  BY <1>3 DEF Copies!IInv, Copies!Runs

\* The invariant, in the same form.
LEMMA CopiesParts ==
    ASSUME Copies!IInv
    PROVE  /\ asked \in CopyRequest \cup {Copies!None}
           /\ updates \in 0 .. MaxUpdates
           /\ DOMAIN container = CopyNode /\ DOMAIN known = CopyNode
           /\ started \subseteq {n \in CopyNode : container[n] # Copies!None}
           /\ files \in [CopyNode -> SUBSET Copies!SecretNames]
           /\ reports \subseteq {n \in CopyNode : known[n] # Copies!None}
           /\ \A n \in CopyNode : container[n] # Copies!None =>
                  asked # Copies!None /\ Copies!IsContainer(container[n])
           /\ \A n \in CopyNode : known[n] # Copies!None =>
                  asked # Copies!None /\ Copies!IsStatus(known[n])
           /\ asked # Copies!None /\ updates = 0 =>
                  /\ Copies!deploy(asked) # Copies!Refused
                  /\ \A n \in CopyNode :
                         /\ container[n] # Copies!None =>
                                container[n] \in Copies!Generations(asked)
                         /\ known[n] # Copies!None =>
                                known[n] \in {Copies!GetFunctionStatus(c) :
                                                 c \in Copies!Generations(asked)}
  BY DEF Copies!IInv, Copies!TypeOK, Copies!Runs

\* What Make leaves on a node.
LEMMA MakeContainer ==
    ASSUME Copies!RedeployAssumption, NEW r, Copies!IsRequest(r),
           NEW n \in CopyNode, DOMAIN container = CopyNode, Copies!Make(n, r),
           started \subseteq {m \in CopyNode : container[m] # Copies!None}
    PROVE  /\ DOMAIN container' = CopyNode
           /\ started' \subseteq {m \in CopyNode : container'[m] # Copies!None}
           /\ \A m \in CopyNode \ {n} : container'[m] = container[m]
           /\ container'[n] # Copies!None =>
                  /\ Copies!deploy(r) # Copies!Refused
                  /\ container'[n] = Copies!deploy(r)
                  /\ Copies!IsContainer(container'[n])
<1> DEFINE d == Copies!deploy(r)
           c == IF d = Copies!Refused THEN Copies!None ELSE d
<1>1. container' = [container EXCEPT ![n] = c]
  BY DEF Copies!Make
<1>2. d # Copies!Refused => Copies!IsContainer(d)
  BY DeployContainer
<1> HIDE DEF d
<1>3. /\ DOMAIN container' = CopyNode /\ container'[n] = c
      /\ \A m \in CopyNode \ {n} : container'[m] = container[m]
  BY <1>1
<1>4. c # Copies!None => d # Copies!Refused /\ c = d
  OBVIOUS
<1> HIDE DEF c
<1>5. container'[n] # Copies!None => /\ d # Copies!Refused
                                     /\ container'[n] = d
                                     /\ Copies!IsContainer(container'[n])
  BY <1>2, <1>3, <1>4
<1>6. d # Copies!Refused => c # Copies!None
  <2>1. "env" \notin DOMAIN Copies!None
    BY DEF Copies!None
  <2>2. d # Copies!Refused => "env" \in DOMAIN d
    BY <1>2 DEF Copies!IsContainer
  <2> QED
    BY <2>1, <2>2 DEF c
<1>7. started' \subseteq started \cup {n} /\ (n \in started' => d # Copies!Refused)
  BY DEF Copies!Make, Copies!Refuses, d
<1>8. started' \subseteq {m \in CopyNode : container'[m] # Copies!None}
  BY <1>3, <1>6, <1>7
<1> QED
  BY <1>3, <1>5, <1>8 DEF d

LEMMA CopiesDeploy ==
    ASSUME Copies!RedeployAssumption, Copies!IInv, NEW n \in CopyNode,
           NEW r \in CopyRequest, Copies!Deploy(n, r)
    PROVE  Copies!IInv'
<1>1. /\ asked = Copies!None /\ asked' = r /\ r # Copies!None
      /\ Copies!deploy(r) # Copies!Refused
      /\ known' = known /\ reports' = reports /\ updates' = updates
      /\ files' = files
      /\ Copies!Make(n, r) /\ Copies!IsRequest(r)
  BY DEF Copies!Deploy, Copies!Refuses, Copies!RedeployAssumption
<1>2. \A m \in CopyNode : container[m] = Copies!None /\ known[m] = Copies!None
  BY <1>1, CopiesParts
<1>3. /\ DOMAIN container' = CopyNode
      /\ started' \subseteq {m \in CopyNode : container'[m] # Copies!None}
      /\ \A m \in CopyNode : container'[m] # Copies!None =>
             /\ container'[m] = Copies!deploy(r)
             /\ Copies!IsContainer(container'[m])
  BY <1>1, <1>2, CopiesParts, MakeContainer
<1>4. Copies!deploy(r) \in Copies!Generations(r)
  BY DEF Copies!Generations
<1> QED
  BY <1>1, <1>2, <1>3, <1>4, CopiesParts, CopiesStep

LEMMA CopiesUpdate ==
    ASSUME Copies!RedeployAssumption, Copies!IInv, NEW n \in CopyNode,
           NEW r \in CopyRequest, Copies!Update(n, r)
    PROVE  Copies!IInv'
<1>1. /\ asked' = r /\ r # Copies!None
      /\ known' = known /\ reports' = reports /\ files' = files
      /\ updates < MaxUpdates /\ updates' = updates + 1
      /\ Copies!Make(n, r) /\ Copies!IsRequest(r)
  BY DEF Copies!Update, Copies!RedeployAssumption
<1>2. updates' \in 0 .. MaxUpdates /\ updates' # 0
  <2>1. updates \in 0 .. MaxUpdates /\ MaxUpdates \in Nat
    BY CopiesParts DEF Copies!RedeployAssumption
  <2> QED
    BY <1>1, <2>1
<1>3. /\ DOMAIN container' = CopyNode
      /\ started' \subseteq {m \in CopyNode : container'[m] # Copies!None}
      /\ \A m \in CopyNode : container'[m] # Copies!None =>
             Copies!IsContainer(container'[m])
  BY <1>1, CopiesParts, MakeContainer
<1> QED
  BY <1>1, <1>2, <1>3, CopiesParts, CopiesStep

\* A node reads its own container back.
LEMMA StatusKnown ==
    ASSUME Copies!RedeployAssumption, Copies!IInv, NEW n \in CopyNode,
           container[n] # Copies!None
    PROVE  /\ asked # Copies!None
           /\ Copies!IsStatus(Copies!GetFunctionStatus(container[n]))
           /\ Copies!GetFunctionStatus(container[n]) # Copies!None
           /\ updates = 0 => Copies!GetFunctionStatus(container[n]) \in
                  {Copies!GetFunctionStatus(c) : c \in Copies!Generations(asked)}
<1>1. asked # Copies!None /\ Copies!IsContainer(container[n])
  BY CopiesParts
<1>2. updates = 0 => container[n] \in Copies!Generations(asked)
  BY <1>1, CopiesParts
<1> QED
  BY <1>1, <1>2, StatusOf

\* An entry of the catalog changes to one like those there.
LEMMA CopiesLearnt ==
    ASSUME Copies!IInv, NEW n \in CopyNode, NEW s,
           asked # Copies!None, Copies!IsStatus(s),
           updates = 0 => s \in {Copies!GetFunctionStatus(c) :
                                     c \in Copies!Generations(asked)},
           known' = [known EXCEPT ![n] = s],
           reports' \subseteq {m \in CopyNode : known'[m] # Copies!None},
           UNCHANGED <<asked, container, started, files, updates>>
    PROVE  Copies!IInv'
<1>1. DOMAIN known' = CopyNode
      /\ \A m \in CopyNode : known'[m] = IF m = n THEN s ELSE known[m]
  BY CopiesParts
<1> QED
  BY <1>1, CopiesParts, CopiesStep

LEMMA CopiesReport ==
    ASSUME Copies!RedeployAssumption, Copies!IInv, NEW n \in CopyNode, Copies!Report(n)
    PROVE  Copies!IInv'
<1>1. /\ container[n] # Copies!None /\ reports' = reports \cup {n}
      /\ UNCHANGED <<asked, container, started, files, updates>>
  BY CopiesParts DEF Copies!Report
<1>2. CASE known[n] # Copies!None
  <2>1. known' = known
    BY <1>2 DEF Copies!Report
  <2> QED
    BY <1>1, <1>2, <2>1, CopiesParts, CopiesStep
<1>3. CASE known[n] = Copies!None
  <2> DEFINE s == Copies!GetFunctionStatus(container[n])
  <2>1. known' = [known EXCEPT ![n] = s]
    BY <1>3 DEF Copies!Report
  <2>2. /\ asked # Copies!None /\ Copies!IsStatus(s) /\ s # Copies!None
        /\ updates = 0 => s \in {Copies!GetFunctionStatus(c) :
                                     c \in Copies!Generations(asked)}
    BY <1>1, StatusKnown
  <2> HIDE DEF s
  <2>3. reports' \subseteq {m \in CopyNode : known'[m] # Copies!None}
    BY <1>1, <2>1, <2>2, CopiesParts
  <2> QED
    BY <1>1, <2>1, <2>2, <2>3, CopiesLearnt
<1> QED
  BY <1>2, <1>3

LEMMA CopiesLearn ==
    ASSUME Copies!IInv, NEW n \in CopyNode, NEW m \in CopyNode, Copies!Learn(n, m)
    PROVE  Copies!IInv'
<1>1. /\ m \in reports /\ known' = [known EXCEPT ![n] = known[m]]
      /\ reports' = reports
      /\ UNCHANGED <<asked, container, started, files, updates>>
  BY DEF Copies!Learn
<1>2. known[m] # Copies!None
  BY <1>1, CopiesParts
<1>3. /\ asked # Copies!None /\ Copies!IsStatus(known[m])
      /\ updates = 0 => known[m] \in {Copies!GetFunctionStatus(c) :
                                          c \in Copies!Generations(asked)}
  BY <1>2, CopiesParts
<1>4. reports' \subseteq {k \in CopyNode : known'[k] # Copies!None}
  BY <1>1, <1>2, CopiesParts
<1> QED
  BY <1>1, <1>3, <1>4, CopiesLearnt

LEMMA CopiesScaleUp ==
    ASSUME Copies!RedeployAssumption, Copies!IInv,
           NEW n \in CopyNode, NEW m \in CopyNode, Copies!ScaleUp(n, m)
    PROVE  Copies!IInv'
<1>1. /\ known[n] # Copies!None /\ Copies!Make(m, known[n])
      /\ UNCHANGED <<asked, files, known, reports, updates>>
  BY DEF Copies!ScaleUp
<1>2. asked # Copies!None /\ Copies!IsStatus(known[n]) /\ Copies!IsRequest(known[n])
  BY <1>1, CopiesParts DEF Copies!IsStatus
<1>3. /\ DOMAIN container' = CopyNode
      /\ started' \subseteq {k \in CopyNode : container'[k] # Copies!None}
      /\ \A k \in CopyNode \ {m} : container'[k] = container[k]
      /\ container'[m] # Copies!None =>
             /\ container'[m] = Copies!deploy(known[n])
             /\ Copies!IsContainer(container'[m])
  BY <1>1, <1>2, CopiesParts, MakeContainer
<1>4. updates = 0 => Copies!deploy(known[n]) \in Copies!Generations(asked)
  <2> SUFFICES ASSUME updates = 0
               PROVE  Copies!deploy(known[n]) \in Copies!Generations(asked)
    OBVIOUS
  <2>1. PICK c \in Copies!Generations(asked) : known[n] = Copies!GetFunctionStatus(c)
    BY <1>1, <1>2, CopiesParts
  <2>2. asked \in CopyRequest /\ Copies!deploy(asked) # Copies!Refused
    BY <1>2, CopiesParts
  <2>3. Copies!Copy(c) \in Copies!Generations(asked)
    BY <2>2, GenerationFacts
  <2> QED
    BY <2>1, <2>3 DEF Copies!Copy
<1> QED
  BY <1>1, <1>2, <1>3, <1>4, CopiesParts, CopiesStep

LEMMA CopiesScaleDown ==
    ASSUME Copies!IInv, NEW n \in CopyNode, Copies!ScaleDown(n)
    PROVE  Copies!IInv'
<1>1. /\ container' = [container EXCEPT ![n] = Copies!None]
      /\ started' = started \ {n}
      /\ UNCHANGED <<asked, files, known, reports, updates>>
  BY DEF Copies!ScaleDown
<1>2. DOMAIN container' = CopyNode
      /\ \A m \in CopyNode : container'[m] = IF m = n THEN Copies!None ELSE container[m]
  BY <1>1, CopiesParts
<1> QED
  BY <1>1, <1>2, CopiesParts, CopiesStep

LEMMA CopiesRestart ==
    ASSUME Copies!RedeployAssumption, Copies!IInv, NEW n \in CopyNode, Copies!Restart(n)
    PROVE  Copies!IInv'
<1>1. UNCHANGED <<asked, container, started, files, updates>>
  BY DEF Copies!Restart
<1>2. CASE container[n] # Copies!None
  <2> DEFINE s == Copies!GetFunctionStatus(container[n])
  <2>1. known' = [known EXCEPT ![n] = s] /\ reports' = reports \cup {n}
    BY <1>2 DEF Copies!Restart, Copies!Runs
  <2>2. /\ asked # Copies!None /\ Copies!IsStatus(s) /\ s # Copies!None
        /\ updates = 0 => s \in {Copies!GetFunctionStatus(c) :
                                     c \in Copies!Generations(asked)}
    BY <1>2, StatusKnown
  <2> HIDE DEF s
  <2>3. reports' \subseteq {m \in CopyNode : known'[m] # Copies!None}
    BY <2>1, <2>2, CopiesParts
  <2> QED
    BY <1>1, <2>1, <2>2, <2>3, CopiesLearnt
<1>3. CASE container[n] = Copies!None
  <2>1. known' = [known EXCEPT ![n] = Copies!None] /\ reports' = reports \ {n}
    BY <1>3 DEF Copies!Restart, Copies!Runs
  <2>2. DOMAIN known' = CopyNode
        /\ \A m \in CopyNode : known'[m] = IF m = n THEN Copies!None ELSE known[m]
    BY <2>1, CopiesParts
  <2>3. reports' \subseteq {m \in CopyNode : known'[m] # Copies!None}
    BY <2>1, <2>2, CopiesParts
  <2> QED
    BY <1>1, <2>2, <2>3, CopiesParts, CopiesStep
<1> QED
  BY <1>2, <1>3

LEMMA CopiesSecret ==
    ASSUME Copies!IInv, NEW n \in CopyNode, NEW s \in Copies!SecretNames,
           Copies!MakeSecretHandler(n, s)
    PROVE  Copies!IInv'
<1>1. /\ files' = [files EXCEPT ![n] =
                        IF s \in files[n] THEN files[n] \ {s} ELSE files[n] \cup {s}]
      /\ UNCHANGED <<asked, container, started, known, reports, updates>>
  BY DEF Copies!MakeSecretHandler
<1>2. files' \in [CopyNode -> SUBSET Copies!SecretNames]
  <2>1. files \in [CopyNode -> SUBSET Copies!SecretNames]
    BY CopiesParts
  <2> QED
    BY <1>1, <2>1
<1> QED
  BY <1>1, <1>2, CopiesParts, CopiesStep

LEMMA CopiesNext ==
    ASSUME Copies!RedeployAssumption, Copies!IInv, [Copies!Next]_(Copies!vars)
    PROVE  Copies!IInv'
<1>1. CASE UNCHANGED Copies!vars
  BY <1>1, CopiesParts, CopiesStep DEF Copies!vars
<1> QED
  BY <1>1, CopiesDeploy, CopiesUpdate, CopiesReport, CopiesLearn, CopiesScaleUp,
     CopiesScaleDown, CopiesRestart, CopiesSecret DEF Copies!Next

LEMMA CopiesInvariance ==
    ASSUME Copies!RedeployAssumption
    PROVE  Copies!Spec => []Copies!IInv
<1>1. Copies!Init => Copies!IInv
  BY CopiesInit
<1>2. Copies!IInv /\ [Copies!Next]_(Copies!vars) => Copies!IInv'
  BY CopiesNext
<1> QED
  BY <1>1, <1>2, PTL DEF Copies!Spec

\* functions.go:342 reads a definition back from a container and scale.go:212
\* deploys what was read: for any requests, image and nodes, however often the
\* definition is copied, secrets come and go and nodes restart, a node refuses a
\* status only for a secret it has not, labels and secrets are those asked for,
\* and replicas are like the first or like its first copy; a variable that the
\* copy revives is the one exception.
THEOREM CopiesAreAlike ==
    ASSUME Copies!RedeployAssumption
    PROVE  Copies!Spec => []Copies!CopiesAlike
<1>1. Copies!Spec => []Copies!IInv
  BY CopiesInvariance
<1>2. Copies!IInv => Copies!CopiesAlike
  <2> SUFFICES ASSUME Copies!IInv PROVE Copies!CopiesAlike
    OBVIOUS
  <2>1. \A n, m \in CopyNode :
            known[n] # Copies!None /\ Copies!Refuses(m, known[n]) =>
                ~ Copies!validateSecrets(m, known[n])
    BY CopiesParts, StatusDeploys DEF Copies!Refuses
  <2>2. ASSUME updates = 0, NEW n \in CopyNode, Copies!Runs(n)
        PROVE  /\ container[n].labels = Copies!deploy(asked).labels
               /\ container[n].secrets = Copies!deploy(asked).secrets
               /\ \/ container[n] \in {Copies!deploy(asked),
                                       Copies!Copy(Copies!deploy(asked))}
                  \/ /\ Copies!Revives(asked)
                     /\ container[n] = Copies!Copy(Copies!Copy(Copies!deploy(asked)))
    <3>1. asked \in CopyRequest /\ asked # Copies!None
      BY <2>2, CopiesParts DEF Copies!Runs
    <3>2. /\ Copies!deploy(asked) # Copies!Refused
          /\ container[n] \in Copies!Generations(asked)
      BY <2>2, <3>1, CopiesParts DEF Copies!Runs
    <3>3. /\ container[n].labels = Copies!deploy(asked).labels
          /\ container[n].secrets = Copies!deploy(asked).secrets
      BY <3>1, <3>2, GenerationFacts
    <3>4. ~ Copies!Revives(asked) =>
              Copies!Copy(Copies!Copy(Copies!deploy(asked)))
              = Copies!Copy(Copies!deploy(asked))
      BY <3>1, <3>2, SecondCopy DEF Copies!RedeployAssumption
    <3> QED
      BY <3>2, <3>3, <3>4 DEF Copies!Generations
  <2> QED
    BY <2>1, <2>2 DEF Copies!CopiesAlike
<1> QED
  BY <1>1, <1>2, PTL

-----------------------------------------------------------------------------
(* The components together.                                                *)

\* A behaviour of all components is one of each.
LEMMA EachComponent ==
    Spec => Race!Spec /\ Secret!Spec /\ Space!Spec /\ Copies!Spec /\ Network!Spec
<1>1. Init => Race!Init /\ Secret!Init /\ Space!Init /\ Copies!Init /\ Network!Init
  BY DEF Init
<1>2. [Next]_vars => [Race!Next]_(Race!vars)
  BY DEF Next, CatalogMoves, SecretMoves, SpaceMoves, CopiesMove, NetworkMoves, vars,
     catalog, Race!vars
<1>3. [Next]_vars => [Secret!Next]_(Secret!vars)
  BY DEF Next, CatalogMoves, SecretMoves, SpaceMoves, CopiesMove, NetworkMoves, vars,
     secrets, Secret!vars
<1>4. [Next]_vars => [Space!Next]_(Space!vars)
  BY DEF Next, CatalogMoves, SecretMoves, SpaceMoves, CopiesMove, NetworkMoves, vars,
     spaces, Space!vars
<1>5. [Next]_vars => [Network!Next]_(Network!vars)
  BY DEF Next, CatalogMoves, SecretMoves, SpaceMoves, CopiesMove, NetworkMoves, vars,
     network, Network!vars
<1>6. [Next]_vars => [Copies!Next]_(Copies!vars)
  BY DEF Next, CatalogMoves, SecretMoves, SpaceMoves, CopiesMove, NetworkMoves, vars,
     copies, Copies!vars
<1> QED
  BY <1>1, <1>2, <1>3, <1>4, <1>5, <1>6, PTL
  DEF Spec, Race!Spec, Secret!Spec, Space!Spec, Copies!Spec, Network!Spec

\* Each component keeps its types: no interleaving of requests, calls, crashes,
\* copies and boots leaves a value that the code's types do not allow, for any
\* value of the constants.
THEOREM TypeCorrect == Spec => []TypeOK
<1> USE StoresAssumption
<1>1. Race!Spec => []Race!IInv
  BY RaceInvariance
<1>2. Secret!Spec => []Secret!IInv
  BY SecretInvariance
<1>3. Space!Spec => []Space!IInv
  BY SpaceInvariance
<1>4. Copies!Spec => []Copies!IInv
  BY CopiesInvariance
<1>5. Network!Spec => []Network!IInv
  BY NetworkInvariance
<1>6. Race!IInv /\ Secret!IInv /\ Space!IInv /\ Copies!IInv /\ Network!IInv => TypeOK
  BY DEF TypeOK, Race!IInv, Secret!IInv, Space!IInv, Copies!IInv, Network!IInv
<1> QED
  BY <1>1, <1>2, <1>3, <1>4, <1>5, <1>6, EachComponent, PTL

\* The openfaas label and the labels of the last update stay
\* (mutate_namespaces.go:63, :71).
THEOREM LabelsKeptHolds == Spec => []LabelsKept
<1>1. Space!NamespacesAssumption
  BY StoresAssumption
<1>2. Space!Spec => []Space!LabelsKept
  BY <1>1, LabelsStay
<1> QED
  BY <1>2, EachComponent, PTL DEF LabelsKept

\* Replicas are like the first or like a copy of it, with the labels and
\* secrets asked for, and only a missing secret stops one (deploy.go:245, functions.go:342, scale.go:212).
THEOREM CopiesAlikeHolds == Spec => []CopiesAlike
<1>1. Copies!RedeployAssumption
  BY StoresAssumption
<1>2. Copies!Spec => []Copies!CopiesAlike
  BY <1>1, CopiesAreAlike
<1> QED
  BY <1>2, EachComponent, PTL DEF CopiesAlike

\* The address found for a task is held by that task (cni_network.go:150).
THEOREM AddressRightHolds == Spec => []AddressRight
<1>1. Network!AddressesAssumption
  BY StoresAssumption
<1>2. Network!Spec => []Network!AddressRight
  BY <1>1, AddressIsRight
<1> QED
  BY <1>2, EachComponent, PTL DEF AddressRight

\* A recount that nothing overtakes leaves the right total
\* (catalog_cluster_level.go:115).
THEOREM RecountRepairsHolds == Spec => []RecountRepairs
<1>1. Race!CatalogRaceAssumption
  BY StoresAssumption
<1>2. Race!Spec => []Race!RecountRepairs
  BY <1>1, RecountsRepair
<1> QED
  BY <1>2, EachComponent, PTL DEF RecountRepairs

\* A method that meets a missing entry was overtaken by a delete
\* (catalog_cluster_level.go:89).
THEOREM PanicNeedsDeleteHolds == Spec => []PanicNeedsDelete
<1>1. Race!CatalogRaceAssumption
  BY StoresAssumption
<1>2. Race!Spec => []Race!PanicNeedsDelete
  BY <1>1, PanicsNeedDelete
<1> QED
  BY <1>2, EachComponent, PTL DEF PanicNeedsDelete

\* Secret files hold what was asked for last (secret.go:119, provider.go:227).
THEOREM StoredAsAskedHolds == Spec => []StoredAsAsked
<1>1. Secret!SecretsAssumption
  BY StoresAssumption
<1>2. Secret!Spec => []Secret!StoredAsAsked
  BY <1>1, SecretsStored
<1> QED
  BY <1>2, EachComponent, PTL DEF StoredAsAsked
=============================================================================
