--------------------------- MODULE TriggerProofs ---------------------------
(***************************************************************************)
(* The safety properties of Trigger hold for any number of nodes and of    *)
(* invocations, any ranking of the nodes and any execution times.          *)
(***************************************************************************)
EXTENDS Trigger, CallStacks, SequenceTheorems, WellFoundedInduction, TLAPS

-----------------------------------------------------------------------------
(* What a step may do to the stack of one request.                         *)

\* The handler that runs is a frame, and what StackInv says of it.
LEMMA TopInv ==
    ASSUME NEW s \in Seq(Frame), StackInv(s), s # <<>>
    PROVE  /\ Len(s) \in 1 .. 2
           /\ Last(s) \in Frame
           /\ Last(s).offload <=> Len(s) = 2
           /\ Last(s).offload => Last(s).target = Last(s).node
           /\ Last(s).target \in Node \/ Last(s).pc = "invoke"
<1>1. Last(s) \in Frame /\ Last(s) = s[Len(s)] /\ Len(s) \in Nat \ {0}
  BY TopType
<1>2. Len(s) \in 1 .. Len(s)
  BY <1>1
<1>3. Len(s) \in 1 .. 2
  <2>1. Len(s) <= 2
    BY DEF StackInv
  <2>2. \A k \in Nat : k # 0 /\ k <= 2 => k \in 1 .. 2
    OBVIOUS
  <2> QED
    BY <2>1, <2>2, <1>1
<1>4. /\ s[Len(s)].offload <=> Len(s) = 2
      /\ s[Len(s)].offload => s[Len(s)].target = s[Len(s)].node
      /\ s[Len(s)].target \in Node \/ s[Len(s)].pc = "invoke"
  BY <1>2 DEF StackInv
<1> QED
  BY <1>1, <1>3, <1>4

\* A handler returns.
LEMMA PopInv ==
    ASSUME NEW s \in Seq(Frame), StackInv(s), s # <<>>
    PROVE  Front(s) \in Seq(Frame) /\ StackInv(Front(s))
<1>1. /\ Front(s) \in Seq(Frame)
      /\ Len(Front(s)) = Len(s) - 1
      /\ \A i \in 1 .. Len(s) - 1 : Front(s)[i] = s[i]
  BY PopType
<1>2. Len(s) \in Nat \ {0}
  BY TopType
<1> QED
  BY <1>1, <1>2 DEF StackInv

\* A handler goes on: it stays marked or not.
LEMMA ReplaceInv ==
    ASSUME NEW s \in Seq(Frame), StackInv(s), s # <<>>,
           NEW x \in Frame,
           x.offload <=> Last(s).offload,
           x.offload => x.target = x.node,
           x.target \in Node \/ x.pc = "invoke"
    PROVE  Front(s) \o <<x>> \in Seq(Frame) /\ StackInv(Front(s) \o <<x>>)
<1> DEFINE t == Front(s) \o <<x>>
<1>1. /\ t \in Seq(Frame)
      /\ Len(t) = Len(s)
      /\ \A i \in 1 .. Len(s) - 1 : t[i] = s[i]
      /\ t[Len(s)] = x
  BY ReplaceType
<1>2. Len(s) \in 1 .. 2 /\ (Last(s).offload <=> Len(s) = 2)
  BY TopInv
<1> HIDE DEF t
<1>3. StackInv(t)
  <2>1. Len(t) <= 2
    BY <1>1, <1>2
  <2>2. ASSUME NEW i \in 1 .. Len(t)
        PROVE  /\ t[i].offload <=> i = 2
               /\ t[i].offload => t[i].target = t[i].node
               /\ t[i].target \in Node \/ t[i].pc = "invoke"
    <3>1. CASE i = Len(s)
      BY <3>1, <1>1, <1>2
    <3>2. CASE i # Len(s)
      <4>1. i \in 1 .. Len(s) - 1 /\ i \in 1 .. Len(s)
        BY <3>2, <1>1, <1>2
      <4> QED
        BY <4>1, <1>1 DEF StackInv
    <3> QED
      BY <3>1, <3>2
  <2> QED
    BY <2>1, <2>2 DEF StackInv
<1> QED
  BY <1>1, <1>3 DEF t

\* A handler of a client's request calls a peer's.
LEMMA CallInv ==
    ASSUME NEW s \in Seq(Frame), StackInv(s), s # <<>>,
           NEW x \in Frame, NEW y \in Frame,
           ~Last(s).offload, ~x.offload, x.target \in Node,
           y.offload, y.target = y.node, y.target \in Node
    PROVE  Front(s) \o <<x, y>> \in Seq(Frame) /\ StackInv(Front(s) \o <<x, y>>)
<1> DEFINE t == Front(s) \o <<x, y>>
<1>1. /\ t \in Seq(Frame)
      /\ Len(t) = Len(s) + 1
      /\ t[Len(s)] = x
      /\ t[Len(s) + 1] = y
  BY CallType
<1>2. Len(s) = 1
  BY TopInv
<1> HIDE DEF t
<1>3. StackInv(t)
  <2>1. Len(t) = 2 /\ t[1] = x /\ t[2] = y
    BY <1>1, <1>2
  <2>2. \A i \in 1 .. Len(t) : i = 1 \/ i = 2
    BY <2>1
  <2> QED
    BY <2>1, <2>2 DEF StackInv
<1> QED
  BY <1>1, <1>3 DEF t

-----------------------------------------------------------------------------
(* What an action may do to the stacks.                                    *)

\* The part of the inductive invariant about the stacks, and the rest.
StacksOK ==
    /\ stack \in [Request -> Seq(Frame)]
    /\ \A r \in Request : StackInv(stack[r])

ViewsOK ==
    /\ listed \in SUBSET Node
    /\ known \in [Node -> SUBSET Node]
    /\ overload \in [Node -> SUBSET Node]
    /\ execTime \in [Node -> [Node -> Nat \cup {Absent}]]

DeploysOK ==
    /\ container \in SUBSET Node
    /\ awaited \in SUBSET Node
    /\ ordered \in SUBSET (Node \X Node)

AnswersOK == answer \in [Request -> Status]

CountOK == count \in [removals : 0 .. MaxRemovals, flips : 0 .. MaxFlips]

LEMMA Parts ==
    /\ IInv <=> StacksOK /\ ViewsOK /\ DeploysOK /\ AnswersOK /\ CountOK
    /\ IInv' <=> StacksOK' /\ ViewsOK' /\ DeploysOK' /\ AnswersOK' /\ CountOK'
BY DEF IInv, TypeOK, StacksOK, ViewsOK, DeploysOK, AnswersOK, CountOK

\* One stack is replaced by another that is well formed.
LEMMA OneStack ==
    ASSUME StacksOK, NEW r \in Request, NEW t \in Seq(Frame), StackInv(t),
           stack' = [stack EXCEPT ![r] = t]
    PROVE  StacksOK'
<1>1. stack' \in [Request -> Seq(Frame)]
  BY DEF StacksOK
<1>2. ASSUME NEW q \in Request
      PROVE  StackInv(stack'[q])
  <2>1. stack'[q] = IF q = r THEN t ELSE stack[q]
    BY DEF StacksOK
  <2>2. CASE q = r
    BY <2>1, <2>2
  <2>3. CASE q # r
    BY <2>1, <2>3 DEF StacksOK
  <2> QED
    BY <2>2, <2>3
<1> QED
  BY <1>1, <1>2 DEF StacksOK, StackInv

\* The handler that runs, as StacksOK has it.
LEMMA ActiveTop ==
    ASSUME StacksOK, NEW r \in Request, NEW pc, Active(r, pc)
    PROVE  /\ stack[r] \in Seq(Frame) /\ StackInv(stack[r]) /\ stack[r] # <<>>
           /\ Top(r) = Last(stack[r])
           /\ Top(r) \in Frame
           /\ Top(r).node \in Node
           /\ Top(r).pc = pc
           /\ Top(r).offload => Top(r).target = Top(r).node
           /\ pc # "invoke" => Top(r).target \in Node
<1>1. /\ stack[r] \in Seq(Frame) /\ StackInv(stack[r]) /\ stack[r] # <<>>
      /\ Top(r) = Last(stack[r]) /\ Top(r).pc = pc
  BY DEF StacksOK, Active, Top
<1>2. /\ Last(stack[r]) \in Frame
      /\ Last(stack[r]).offload => Last(stack[r]).target = Last(stack[r]).node
      /\ Last(stack[r]).target \in Node \/ Last(stack[r]).pc = "invoke"
  BY <1>1, TopInv
<1>3. Last(stack[r]).node \in Node
  BY <1>2 DEF Frame
<1> QED
  BY <1>1, <1>2, <1>3

Step == {"receive", "deploy", "wait", "health", "invoke", "stream", "call",
         "record", "explore"}

LEMMA GotoStacks ==
    ASSUME StacksOK, NEW r \in Request, NEW old, Active(r, old),
           NEW pc \in Step, Top(r).target \in Node \/ pc = "invoke",
           Goto(r, pc)
    PROVE  StacksOK'
<1> DEFINE x == [Top(r) EXCEPT !.pc = pc]
<1>1. /\ stack[r] \in Seq(Frame) /\ StackInv(stack[r]) /\ stack[r] # <<>>
      /\ Top(r) = Last(stack[r])
      /\ Top(r) \in Frame
      /\ Top(r).offload => Top(r).target = Top(r).node
  BY ActiveTop
<1>2. /\ x \in Frame
      /\ x.offload = Top(r).offload
      /\ x.target = Top(r).target
      /\ x.node = Top(r).node
      /\ x.pc = pc
  BY <1>1 DEF Frame, Step
<1>3. /\ x.offload <=> Last(stack[r]).offload
      /\ x.offload => x.target = x.node
      /\ x.target \in Node \/ x.pc = "invoke"
  BY <1>1, <1>2
<1>4. stack' = [stack EXCEPT ![r] = Front(stack[r]) \o <<x>>]
  BY DEF Goto, StacksOK
<1> HIDE DEF x
<1>5. Front(stack[r]) \o <<x>> \in Seq(Frame) /\ StackInv(Front(stack[r]) \o <<x>>)
  BY <1>1, <1>2, <1>3, ReplaceInv
<1> QED
  BY <1>4, <1>5, OneStack

LEMMA AnswerStacks ==
    ASSUME StacksOK, AnswersOK, NEW r \in Request, NEW old, Active(r, old),
           NEW status \in Status, Answer(r, status)
    PROVE  StacksOK' /\ AnswersOK'
<1>1. stack[r] \in Seq(Frame) /\ StackInv(stack[r]) /\ stack[r] # <<>>
  BY ActiveTop
<1>2. Front(stack[r]) \in Seq(Frame) /\ StackInv(Front(stack[r]))
  BY <1>1, PopInv
<1>3. stack' = [stack EXCEPT ![r] = Front(stack[r])]
  BY DEF Answer, StacksOK
<1>4. StacksOK'
  BY <1>2, <1>3, OneStack
<1>5. AnswersOK'
  BY DEF Answer, AnswersOK, Status
<1> QED
  BY <1>4, <1>5

LEMMA RespondStacks ==
    ASSUME StacksOK, AnswersOK, NEW r \in Request, NEW old, Active(r, old),
           Top(r).target \in Node,
           NEW status \in Status, Respond(r, status)
    PROVE  StacksOK' /\ AnswersOK'
<1>1. CASE Top(r).offload
  BY <1>1, AnswerStacks DEF Respond
<1>2. CASE ~Top(r).offload
  <2>1. Goto(r, "explore") /\ answer' = [answer EXCEPT ![r] = "given"]
    BY <1>2 DEF Respond
  <2>2. StacksOK'
    BY <2>1, GotoStacks DEF Step
  <2>3. AnswersOK'
    BY <2>1 DEF AnswersOK, Status
  <2> QED
    BY <2>2, <2>3
<1> QED
  BY <1>1, <1>2

-----------------------------------------------------------------------------
(* The scheduler's choices.                                                *)

\* A set of natural numbers has its least element.
LEMMA MinIn ==
    ASSUME NEW T \in SUBSET Nat, T # {}
    PROVE  Min(T) \in T
<1> DEFINE R == {ss \in Nat \X Nat : ss[1] < ss[2]}
<1>1. IsWellFoundedOn(R, Nat)
  BY NatLessThanWellFounded DEF OpToRel
<1>2. \A x, y \in Nat : y < x => <<y, x>> \in R
  OBVIOUS
<1> HIDE DEF R
<1>3. PICK x \in T : \A y \in T : ~(<<y, x>> \in R)
  BY <1>1, WFMin
<1>4. ASSUME NEW y \in T
      PROVE  x <= y
  <2>1. x \in Nat /\ y \in Nat
    OBVIOUS
  <2>2. ~(y < x)
    BY <2>1, <1>2, <1>3
  <2> QED
    BY <2>1, <2>2
<1>5. \E z \in T : \A y \in T : z <= y
  BY <1>4
<1> QED
  BY <1>5 DEF Min

LEMMA NearestType ==
    ASSUME NEW n \in Node, NEW S \in SUBSET Node
    PROVE  NearestOf(n, S) \in S \cup {NoNode}
<1> DEFINE at == {i \in 1 .. Len(SortedP2PID[n]) : SortedP2PID[n][i] \in S}
<1>1. SortedP2PID[n] \in Seq(Node)
  BY TriggerAssumption
<1>2. at \in SUBSET Nat /\ \A i \in at : SortedP2PID[n][i] \in S
  BY <1>1
<1>3. NearestOf(n, S) = IF at = {} THEN NoNode ELSE SortedP2PID[n][Min(at)]
  BY DEF NearestOf
<1> HIDE DEF at
<1>4. CASE at = {}
  BY <1>3, <1>4
<1>5. CASE at # {}
  <2>1. Min(at) \in at
    BY <1>2, <1>5, MinIn
  <2> QED
    BY <2>1, <1>2, <1>3, <1>5
<1> QED
  BY <1>4, <1>5

\* The scheduler answers a node; it forgets no execution time, it resets them.
LEMMA SchedulerType ==
    ASSUME ViewsOK, NEW n \in Node, NEW choice \in weightExecTimeScheduler(n)
    PROVE  /\ choice[1] \in Node
           /\ choice[2] \in [Node -> Nat \cup {Absent}]
           /\ \A m \in Node : execTime[n][m] # Absent => choice[2][m] # Absent
<1> DEFINE times == execTime[n]
           reset == [m \in Node |-> IF m \in known[n] THEN 1 ELSE times[m]]
<1>1. times \in [Node -> Nat \cup {Absent}] /\ known[n] \in SUBSET Node
  BY DEF ViewsOK
<1>2. /\ reset \in [Node -> Nat \cup {Absent}]
      /\ \A m \in Node : times[m] # Absent => reset[m] # Absent
  BY <1>1 DEF Absent
<1>3. \E m \in Node : choice = <<m, times>> \/ choice = <<m, reset>>
  <2>1. Fresh(n) \subseteq Node
    BY <1>1 DEF Fresh
  <2> HIDE DEF reset
  <2> QED
    BY <2>1, <1>1 DEF weightExecTimeScheduler, reset
<1> HIDE DEF reset, times
<1> QED
  BY <1>1, <1>2, <1>3 DEF times

\* A node that is found for a request; when it is deployed there it is a node.
LEMMA FoundType ==
    ASSUME ViewsOK, NEW n \in Node, NEW found \in findSuitableNode(n)
    PROVE  /\ found[1] \in Node \cup {NoNode}
           /\ found[2] \in [Node -> Nat \cup {Absent}]
           /\ found[3] \in BOOLEAN
           /\ found[3] => found[1] \in Node
           /\ \A m \in Node : execTime[n][m] # Absent => found[2][m] # Absent
<1>1. CASE known[n] = {}
  <2> DEFINE nearest == NearestOf(n, Node \ overload[n])
  <2>1. nearest \in Node \cup {NoNode}
    BY NearestType
  <2>2. found = <<nearest, execTime[n], nearest # NoNode>>
    BY <1>1 DEF findSuitableNode
  <2> HIDE DEF nearest
  <2>3. /\ found[1] = nearest
        /\ found[2] = execTime[n]
        /\ found[3] = (nearest # NoNode)
    BY <2>2
  <2> QED
    BY <2>1, <2>3 DEF ViewsOK
<1>2. CASE known[n] # {}
  <2>1. PICK choice \in weightExecTimeScheduler(n) :
            found = <<choice[1], choice[2], FALSE>>
    BY <1>2 DEF findSuitableNode
  <2> QED
    BY <2>1, SchedulerType
<1> QED
  BY <1>1, <1>2

LEMMA ExploreType ==
    ASSUME ViewsOK, NEW n \in Node, NEW target \in Node
    PROVE  explorePotentialNode(n, target) \in Node \cup {NoNode}
<1> DEFINE idle   == Node \ known[n]
           faster == {m \in idle : /\ execTime[n][m] # Absent
                                   /\ execTime[n][m] < execTime[n][target]}
           unused == {m \in idle : execTime[n][m] = Absent}
           S      == IF faster # {} THEN faster ELSE unused
<1>1. S \in SUBSET Node
  OBVIOUS
<1>2. explorePotentialNode(n, target) = NearestOf(n, S)
  BY DEF explorePotentialNode
<1> HIDE DEF S
<1> QED
  BY <1>1, <1>2, NearestType

\* A new execution time is a time.
LEMMA AverageType ==
    ASSUME NEW old \in Nat, NEW e \in Nat
    PROVE  Average(old, e) \in Nat
BY DEF Average

-----------------------------------------------------------------------------
(* Every action preserves the inductive invariant.                         *)

LEMMA InitIInv == Init => IInv
<1> SUFFICES ASSUME Init PROVE IInv
  OBVIOUS
<1>1. StacksOK
  BY DEF Init, StacksOK, StackInv
<1>2. ViewsOK
  <2>1. container \in SUBSET Node
    BY DEF Init
  <2>2. /\ execTime \in [Node -> [Node -> Nat \cup {Absent}]]
        /\ known \in [Node -> SUBSET Node]
    BY <2>1 DEF Init, Absent
  <2> QED
    BY <2>1, <2>2 DEF Init, ViewsOK
<1>3. DeploysOK /\ AnswersOK /\ CountOK
  BY TriggerAssumption DEF Init, DeploysOK, AnswersOK, CountOK, Status
<1> QED
  BY <1>1, <1>2, <1>3, Parts

LEMMA InvokeIInv ==
    ASSUME IInv, NEW r \in Request, NEW n \in Node, Invoke(r, n)
    PROVE  IInv'
<1>1. <<NewFrame(n, FALSE)>> \in Seq(Frame) /\ StackInv(<<NewFrame(n, FALSE)>>)
  BY DEF NewFrame, Frame, StackInv
<1>2. StacksOK'
  BY <1>1, OneStack, Parts DEF Invoke
<1> QED
  BY <1>2, Parts DEF Invoke, ViewsOK, DeploysOK, AnswersOK, CountOK,
                     deployVars, catalogVars

LEMMA ReceiveIInv ==
    ASSUME IInv, NEW r \in Request, Receive(r)
    PROVE  IInv'
<1> DEFINE n == Top(r).node
<1>1. Active(r, "receive")
  BY DEF Receive
<1>2. StacksOK /\ ViewsOK /\ DeploysOK /\ AnswersOK /\ CountOK
  BY Parts
<1>3. /\ stack[r] \in Seq(Frame) /\ StackInv(stack[r]) /\ stack[r] # <<>>
      /\ Top(r) = Last(stack[r])
      /\ Top(r) \in Frame /\ n \in Node /\ Top(r).target \in Node
  BY <1>1, <1>2, ActiveTop
<1>4. DeploysOK' /\ CountOK'
  BY <1>2 DEF Receive, DeploysOK, CountOK, deployVars
<1>5. CASE Answer(r, "error") /\ UNCHANGED execTime
  <2>1. StacksOK' /\ AnswersOK'
    BY <1>1, <1>2, <1>5, AnswerStacks DEF Status
  <2>2. ViewsOK'
    BY <1>2, <1>5 DEF Receive, ViewsOK
  <2> QED
    BY <1>4, <2>1, <2>2, Parts
<1>6. CASE Goto(r, "invoke") /\ UNCHANGED <<execTime, answer>>
  <2>1. StacksOK'
    BY <1>1, <1>2, <1>6, GotoStacks DEF Step
  <2>2. ViewsOK' /\ AnswersOK'
    BY <1>2, <1>6 DEF Receive, ViewsOK, AnswersOK
  <2> QED
    BY <1>4, <2>1, <2>2, Parts
<1>7. CASE /\ ~Top(r).offload
           /\ UNCHANGED answer
           /\ \E found \in findSuitableNode(n) :
                /\ stack' = [stack EXCEPT ![r] = Front(@) \o
                      <<[Top(r) EXCEPT
                            !.target = found[1],
                            !.pc = IF found[3] THEN "deploy"
                                               ELSE "invoke"]>>]
                /\ execTime' = [execTime EXCEPT ![n] = found[2]]
  <2>1. PICK found \in findSuitableNode(n) :
                /\ stack' = [stack EXCEPT ![r] = Front(@) \o
                      <<[Top(r) EXCEPT
                            !.target = found[1],
                            !.pc = IF found[3] THEN "deploy"
                                               ELSE "invoke"]>>]
                /\ execTime' = [execTime EXCEPT ![n] = found[2]]
    BY <1>7
  <2>2. /\ found[1] \in Node \cup {NoNode}
        /\ found[2] \in [Node -> Nat \cup {Absent}]
        /\ found[3] => found[1] \in Node
    BY <1>2, <1>3, FoundType
  <2> DEFINE x == [Top(r) EXCEPT
                     !.target = found[1],
                     !.pc = IF found[3] THEN "deploy" ELSE "invoke"]
  <2>3. /\ x \in Frame
        /\ x.offload = Top(r).offload
        /\ x.target = found[1]
        /\ x.pc = IF found[3] THEN "deploy" ELSE "invoke"
    BY <1>3, <2>2 DEF Frame
  <2>4. stack' = [stack EXCEPT ![r] = Front(stack[r]) \o <<x>>]
    BY <2>1, <1>2 DEF StacksOK
  <2> HIDE DEF x
  <2>5. /\ x.offload <=> Last(stack[r]).offload
        /\ x.offload => x.target = x.node
        /\ x.target \in Node \/ x.pc = "invoke"
    BY <1>3, <1>7, <2>2, <2>3
  <2>6. /\ Front(stack[r]) \o <<x>> \in Seq(Frame)
        /\ StackInv(Front(stack[r]) \o <<x>>)
    BY <1>3, <2>3, <2>5, ReplaceInv
  <2>7. StacksOK'
    BY <1>2, <2>4, <2>6, OneStack
  <2>8. ViewsOK' /\ AnswersOK'
    BY <1>2, <1>3, <1>7, <2>1, <2>2 DEF Receive, ViewsOK, AnswersOK
  <2> QED
    BY <1>4, <2>7, <2>8, Parts
<1> QED
  BY <1>5, <1>6, <1>7 DEF Receive

LEMMA DeployTargetIInv ==
    ASSUME IInv, NEW r \in Request, DeployTarget(r)
    PROVE  IInv'
<1>1. Active(r, "deploy") /\ Goto(r, "wait")
  BY DEF DeployTarget
<1>2. StacksOK /\ ViewsOK /\ DeploysOK /\ AnswersOK /\ CountOK
  BY Parts
<1>3. Top(r).target \in Node
  BY <1>1, <1>2, ActiveTop
<1>4. StacksOK'
  BY <1>1, <1>2, <1>3, GotoStacks DEF Step
<1>5. DeploysOK'
  BY <1>2, <1>3 DEF DeployTarget, DeploysOK
<1>6. ViewsOK' /\ AnswersOK' /\ CountOK'
  BY <1>2 DEF DeployTarget, ViewsOK, AnswersOK, CountOK, catalogVars
<1> QED
  BY <1>4, <1>5, <1>6, Parts

\* A report makes the views no less well formed.
LEMMA ReportViews ==
    ASSUME ViewsOK, NEW m \in Node, Report(m), UNCHANGED overload
    PROVE  ViewsOK'
BY DEF Report, ViewsOK

LEMMA WaitReadyIInv ==
    ASSUME IInv, NEW r \in Request, WaitReady(r)
    PROVE  IInv'
<1> DEFINE n == Top(r).node
<1>1. Active(r, "wait")
  BY DEF WaitReady
<1>2. StacksOK /\ ViewsOK /\ DeploysOK /\ AnswersOK /\ CountOK
  BY Parts
<1>3. n \in Node /\ Top(r).target \in Node
  BY <1>1, <1>2, ActiveTop
<1>4. DeploysOK' /\ CountOK' /\ UNCHANGED overload
  BY <1>2 DEF WaitReady, DeploysOK, CountOK, deployVars
<1>5. CASE Report(n) /\ Goto(r, "invoke") /\ UNCHANGED answer
  <2>1. StacksOK'
    BY <1>1, <1>2, <1>5, GotoStacks DEF Step
  <2>2. ViewsOK'
    BY <1>2, <1>3, <1>4, <1>5, ReportViews
  <2>3. AnswersOK'
    BY <1>2, <1>5 DEF AnswersOK
  <2> QED
    BY <1>4, <2>1, <2>2, <2>3, Parts
<1>6. CASE Goto(r, "invoke") /\ UNCHANGED <<known, execTime, listed, answer>>
  <2>1. StacksOK'
    BY <1>1, <1>2, <1>6, GotoStacks DEF Step
  <2>2. ViewsOK' /\ AnswersOK'
    BY <1>2, <1>4, <1>6 DEF ViewsOK, AnswersOK
  <2> QED
    BY <1>4, <2>1, <2>2, Parts
<1>7. CASE Answer(r, "error") /\ UNCHANGED <<known, execTime, listed>>
  <2>1. StacksOK' /\ AnswersOK'
    BY <1>1, <1>2, <1>7, AnswerStacks DEF Status
  <2>2. ViewsOK'
    BY <1>2, <1>4, <1>7 DEF ViewsOK
  <2> QED
    BY <1>4, <2>1, <2>2, Parts
<1>8. CASE Goto(r, "health") /\ UNCHANGED <<known, execTime, listed, answer>>
  <2>1. StacksOK'
    BY <1>1, <1>2, <1>3, <1>8, GotoStacks DEF Step
  <2>2. ViewsOK' /\ AnswersOK'
    BY <1>2, <1>4, <1>8 DEF ViewsOK, AnswersOK
  <2> QED
    BY <1>4, <2>1, <2>2, Parts
<1> QED
  BY <1>5, <1>6, <1>7, <1>8 DEF WaitReady

LEMMA HealthReturnsIInv ==
    ASSUME IInv, NEW r \in Request, HealthReturns(r)
    PROVE  IInv'
<1> DEFINE n == Top(r).node
<1>1. Active(r, "health")
  BY DEF HealthReturns
<1>2. StacksOK /\ ViewsOK /\ DeploysOK /\ AnswersOK /\ CountOK
  BY Parts
<1>3. n \in Node
  BY <1>1, <1>2, ActiveTop
<1>4. DeploysOK' /\ CountOK' /\ UNCHANGED overload
  BY <1>2 DEF HealthReturns, DeploysOK, CountOK, deployVars
<1>5. CASE Report(n) /\ Goto(r, "invoke") /\ UNCHANGED answer
  <2>1. StacksOK'
    BY <1>1, <1>2, <1>5, GotoStacks DEF Step
  <2>2. ViewsOK' /\ AnswersOK'
    BY <1>2, <1>3, <1>4, <1>5, ReportViews DEF AnswersOK
  <2> QED
    BY <1>4, <2>1, <2>2, Parts
<1>6. CASE Answer(r, "error") /\ UNCHANGED <<known, execTime, listed>>
  <2>1. StacksOK' /\ AnswersOK'
    BY <1>1, <1>2, <1>6, AnswerStacks DEF Status
  <2>2. ViewsOK'
    BY <1>2, <1>4, <1>6 DEF ViewsOK
  <2> QED
    BY <1>4, <2>1, <2>2, Parts
<1> QED
  BY <1>5, <1>6 DEF HealthReturns

\* Steps that answer and leave the views alone.
LEMMA RespondIInv ==
    ASSUME IInv, NEW r \in Request, NEW old, Active(r, old),
           Top(r).target \in Node, NEW status \in Status, Respond(r, status),
           UNCHANGED <<deployVars, catalogVars, count>>
    PROVE  IInv'
<1>1. StacksOK' /\ AnswersOK'
  BY RespondStacks, Parts
<1>2. ViewsOK' /\ DeploysOK' /\ CountOK'
  BY Parts DEF ViewsOK, DeploysOK, CountOK, deployVars, catalogVars
<1> QED
  BY <1>1, <1>2, Parts

LEMMA NotAllowedIInv ==
    ASSUME IInv, NEW r \in Request, NotAllowed(r)
    PROVE  IInv'
<1>1. Active(r, "invoke") /\ Top(r).target # NoNode
  BY DEF NotAllowed
<1>2. Top(r) \in Frame
  BY <1>1, ActiveTop, Parts
<1>3. Top(r).target \in Node /\ "unavailable" \in Status
  BY <1>1, <1>2 DEF Frame, Status
<1> QED
  BY <1>1, <1>3, RespondIInv DEF NotAllowed

LEMMA StreamEndsIInv ==
    ASSUME IInv, NEW r \in Request, StreamEnds(r)
    PROVE  IInv'
<1>1. Active(r, "stream")
  BY DEF StreamEnds
<1>2. Top(r).target \in Node /\ "ok" \in Status
  BY <1>1, ActiveTop, Parts DEF Status
<1> QED
  BY <1>1, <1>2, RespondIInv DEF StreamEnds

LEMMA InvokeLocalIInv ==
    ASSUME IInv, NEW r \in Request, InvokeLocal(r)
    PROVE  IInv'
<1>1. Active(r, "invoke")
  BY DEF InvokeLocal
<1>2. StacksOK /\ ViewsOK /\ DeploysOK /\ AnswersOK /\ CountOK
  BY Parts
<1>3. Top(r).target \in Node
  BY <1>1, <1>2, ActiveTop DEF InvokeLocal
<1>4. ViewsOK' /\ DeploysOK' /\ CountOK'
  BY <1>2 DEF InvokeLocal, ViewsOK, DeploysOK, CountOK, deployVars, catalogVars
<1>5. CASE Goto(r, "record") /\ answer' = [answer EXCEPT ![r] = "ok"]
  <2>1. StacksOK'
    BY <1>1, <1>2, <1>3, <1>5, GotoStacks DEF Step
  <2>2. AnswersOK'
    BY <1>2, <1>5 DEF AnswersOK, Status
  <2> QED
    BY <1>4, <2>1, <2>2, Parts
<1>6. CASE Goto(r, "stream") /\ UNCHANGED answer
  <2>1. StacksOK'
    BY <1>1, <1>2, <1>3, <1>6, GotoStacks DEF Step
  <2>2. AnswersOK'
    BY <1>2, <1>6 DEF AnswersOK
  <2> QED
    BY <1>4, <2>1, <2>2, Parts
<1>7. ASSUME NEW status \in Status, Respond(r, status)
      PROVE  IInv'
  <2>1. StacksOK' /\ AnswersOK'
    BY <1>1, <1>2, <1>3, <1>7, RespondStacks
  <2> QED
    BY <1>4, <2>1, Parts
<1>8. "error" \in Status /\ "unavailable" \in Status
  BY DEF Status
<1> QED
  BY <1>5, <1>6, <1>7, <1>8 DEF InvokeLocal

LEMMA InvokePeerIInv ==
    ASSUME IInv, NEW r \in Request, InvokePeer(r)
    PROVE  IInv'
<1> DEFINE n == Top(r).node
           m == Top(r).target
<1>1. Active(r, "invoke") /\ m # n
  BY DEF InvokePeer
<1>2. StacksOK /\ ViewsOK /\ DeploysOK /\ AnswersOK /\ CountOK
  BY Parts
<1>3. /\ stack[r] \in Seq(Frame) /\ StackInv(stack[r]) /\ stack[r] # <<>>
      /\ Top(r) = Last(stack[r])
      /\ Top(r) \in Frame
      /\ ~Top(r).offload
  BY <1>1, <1>2, ActiveTop
<1>4. ViewsOK' /\ DeploysOK' /\ CountOK'
  BY <1>2 DEF InvokePeer, ViewsOK, DeploysOK, CountOK, deployVars, catalogVars
<1>5. CASE Answer(r, "error")
  <2>1. StacksOK' /\ AnswersOK'
    BY <1>1, <1>2, <1>5, AnswerStacks DEF Status
  <2> QED
    BY <1>4, <2>1, Parts
<1>6. CASE /\ m # NoNode
           /\ stack' = [stack EXCEPT ![r] =
                  Front(@) \o <<[Top(r) EXCEPT !.pc = "call"], NewFrame(m, TRUE)>>]
           /\ UNCHANGED answer
  <2> DEFINE x == [Top(r) EXCEPT !.pc = "call"]
             y == NewFrame(m, TRUE)
  <2>1. m \in Node
    BY <1>3, <1>6 DEF Frame
  <2>2. x \in Frame /\ x.offload = Top(r).offload /\ x.target = m
    BY <1>3 DEF Frame
  <2>3. y \in Frame /\ y.offload /\ y.target = m /\ y.node = m
    BY <2>1 DEF Frame, NewFrame
  <2>4. stack' = [stack EXCEPT ![r] = Front(stack[r]) \o <<x, y>>]
    BY <1>6, <1>2 DEF StacksOK
  <2> HIDE DEF x, y
  <2>5. /\ Front(stack[r]) \o <<x, y>> \in Seq(Frame)
        /\ StackInv(Front(stack[r]) \o <<x, y>>)
    BY <1>3, <2>1, <2>2, <2>3, CallInv
  <2>6. StacksOK'
    BY <1>2, <2>4, <2>5, OneStack
  <2>7. AnswersOK'
    BY <1>2, <1>6 DEF AnswersOK
  <2> QED
    BY <1>4, <2>6, <2>7, Parts
<1> QED
  BY <1>5, <1>6 DEF InvokePeer

LEMMA PeerAnswersIInv ==
    ASSUME IInv, NEW r \in Request, PeerAnswers(r)
    PROVE  IInv'
<1>1. Active(r, "call")
  BY DEF PeerAnswers
<1>2. StacksOK /\ ViewsOK /\ DeploysOK /\ AnswersOK /\ CountOK
  BY Parts
<1>3. Top(r).target \in Node
  BY <1>1, <1>2, ActiveTop
<1>4. ViewsOK' /\ DeploysOK' /\ CountOK'
  BY <1>2 DEF PeerAnswers, ViewsOK, DeploysOK, CountOK, deployVars, catalogVars
<1>5. CASE Goto(r, "record") /\ UNCHANGED answer
  <2>1. StacksOK'
    BY <1>1, <1>2, <1>3, <1>5, GotoStacks DEF Step
  <2>2. AnswersOK'
    BY <1>2, <1>5 DEF AnswersOK
  <2> QED
    BY <1>4, <2>1, <2>2, Parts
<1>6. CASE Respond(r, answer[r])
  <2>1. answer[r] \in Status
    BY <1>2 DEF AnswersOK
  <2>2. StacksOK' /\ AnswersOK'
    BY <1>1, <1>2, <1>3, <1>6, <2>1, RespondStacks
  <2> QED
    BY <1>4, <2>2, Parts
<1> QED
  BY <1>5, <1>6 DEF PeerAnswers

LEMMA RecordIInv ==
    ASSUME IInv, NEW r \in Request, Record(r)
    PROVE  IInv'
<1> DEFINE n == Top(r).node
           m == Top(r).target
<1>1. Active(r, "record")
  BY DEF Record
<1>2. StacksOK /\ ViewsOK /\ DeploysOK /\ AnswersOK /\ CountOK
  BY Parts
<1>3. n \in Node /\ m \in Node
  BY <1>1, <1>2, ActiveTop
<1>4. DeploysOK' /\ CountOK' /\ UNCHANGED <<listed, known, overload>>
  BY <1>2 DEF Record, DeploysOK, CountOK, deployVars
<1>5. CASE Answer(r, "error") /\ UNCHANGED execTime
  <2>1. StacksOK' /\ AnswersOK'
    BY <1>1, <1>2, <1>5, AnswerStacks DEF Status
  <2>2. ViewsOK'
    BY <1>2, <1>4, <1>5 DEF ViewsOK
  <2> QED
    BY <1>4, <2>1, <2>2, Parts
<1>6. CASE /\ execTime[n][m] # Absent
           /\ \E e \in Elapsed :
                 execTime' = [execTime EXCEPT ![n][m] = Average(@, e)]
           /\ Respond(r, answer[r])
  <2>1. StacksOK' /\ AnswersOK'
    <3>1. answer[r] \in Status
      BY <1>2 DEF AnswersOK
    <3> QED
      BY <3>1, <1>1, <1>2, <1>3, <1>6, RespondStacks
  <2>2. ViewsOK'
    <3>1. PICK e \in Elapsed :
              execTime' = [execTime EXCEPT ![n][m] = Average(@, e)]
      BY <1>6
    <3>2. execTime[n][m] \in Nat /\ e \in Nat
      BY <1>2, <1>3, <1>6, TriggerAssumption DEF ViewsOK
    <3>3. Average(execTime[n][m], e) \in Nat
      BY <3>2, AverageType
    <3>4. execTime' = [execTime EXCEPT ![n] =
                          [execTime[n] EXCEPT ![m] = Average(execTime[n][m], e)]]
      BY <3>1, <1>2, <1>3 DEF ViewsOK
    <3>5. execTime' \in [Node -> [Node -> Nat \cup {Absent}]]
      BY <3>3, <3>4, <1>2 DEF ViewsOK
    <3> QED
      BY <3>5, <1>2, <1>4 DEF ViewsOK
  <2> QED
    BY <1>4, <2>1, <2>2, Parts
<1> QED
  BY <1>5, <1>6 DEF Record

LEMMA ExploreIInv ==
    ASSUME IInv, NEW r \in Request, Explore(r)
    PROVE  IInv'
<1> DEFINE n == Top(r).node
           m == Top(r).target
           p == explorePotentialNode(n, m)
<1>1. Active(r, "explore")
  BY DEF Explore
<1>2. StacksOK /\ ViewsOK /\ DeploysOK /\ AnswersOK /\ CountOK
  BY Parts
<1>3. n \in Node /\ m \in Node
  BY <1>1, <1>2, ActiveTop
<1>4. p \in Node \cup {NoNode}
  BY <1>2, <1>3, ExploreType
<1>5. ViewsOK' /\ CountOK'
  BY <1>2 DEF Explore, ViewsOK, CountOK, catalogVars
<1>6. StacksOK' /\ AnswersOK'
  <2>1. answer[r] \in Status /\ "error" \in Status
    BY <1>2 DEF AnswersOK, Status
  <2>2. Answer(r, answer[r]) \/ Answer(r, "error")
    BY DEF Explore
  <2> QED
    BY <2>1, <2>2, <1>1, <1>2, AnswerStacks
<1>7. DeploysOK'
  <2>1. UNCHANGED <<container, awaited>>
    BY DEF Explore
  <2>2. ordered' = ordered \/ (p # NoNode /\ ordered' = ordered \cup {<<n, p>>})
    BY DEF Explore
  <2> HIDE DEF p
  <2> QED
    BY <2>1, <2>2, <1>2, <1>3, <1>4 DEF DeploysOK
<1> QED
  BY <1>5, <1>6, <1>7, Parts

LEMMA HandleIInv ==
    ASSUME IInv, NEW r \in Request, Handle(r)
    PROVE  IInv'
BY ReceiveIInv, DeployTargetIInv, WaitReadyIInv, NotAllowedIInv, InvokeLocalIInv,
   InvokePeerIInv, PeerAnswersIInv, RecordIInv, ExploreIInv DEF Handle

\* The actions of the other providers leave the stacks alone.
LEMMA OtherIInv ==
    ASSUME IInv, UNCHANGED <<stack, answer>>, ViewsOK', DeploysOK', CountOK'
    PROVE  IInv'
<1>1. StacksOK' /\ AnswersOK'
  BY Parts DEF StacksOK, AnswersOK, StackInv
<1> QED
  BY <1>1, Parts

LEMMA DeployPotentialIInv ==
    ASSUME IInv, NEW n \in Node, NEW m \in Node, DeployPotential(n, m)
    PROVE  IInv'
<1>1. DeploysOK'
  BY Parts DEF DeployPotential, DeploysOK
<1>2. ViewsOK' /\ CountOK' /\ UNCHANGED <<stack, answer>>
  BY Parts DEF DeployPotential, ViewsOK, CountOK, catalogVars
<1> QED
  BY <1>1, <1>2, OtherIInv

LEMMA ReportDeployedIInv ==
    ASSUME IInv, NEW m \in Node, ReportDeployed(m)
    PROVE  IInv'
<1>1. ViewsOK'
  <2>1. CASE Report(m)
    BY <2>1, ReportViews, Parts DEF ReportDeployed
  <2>2. CASE UNCHANGED <<known, execTime, listed>>
    BY <2>2, Parts DEF ReportDeployed, ViewsOK
  <2> QED
    BY <2>1, <2>2 DEF ReportDeployed
<1>2. DeploysOK' /\ CountOK' /\ UNCHANGED <<stack, answer>>
  BY Parts DEF ReportDeployed, DeploysOK, CountOK
<1> QED
  BY <1>1, <1>2, OtherIInv

LEMMA LearnIInv ==
    ASSUME IInv, NEW n \in Node, NEW m \in Node, Learn(n, m)
    PROVE  IInv'
<1>1. ViewsOK
  BY Parts
<1>2. overload' \in [Node -> SUBSET Node]
  BY <1>1 DEF Learn, ViewsOK
<1>3. known' \in [Node -> SUBSET Node] /\ listed' \in SUBSET Node
  BY <1>1 DEF Learn, ViewsOK
<1>4. execTime' \in [Node -> [Node -> Nat \cup {Absent}]]
  BY <1>1 DEF Learn, ViewsOK
<1>5. DeploysOK' /\ CountOK' /\ UNCHANGED <<stack, answer>>
  BY Parts DEF Learn, DeploysOK, CountOK, deployVars
<1> QED
  BY <1>2, <1>3, <1>4, <1>5, OtherIInv DEF ViewsOK

LEMMA TakeReplicaIInv ==
    ASSUME IInv, NEW m \in Node, TakeReplica(m), UNCHANGED execTime,
           listed' \in {listed, listed \ {m}}
    PROVE  IInv'
<1>1. ViewsOK'
  BY Parts DEF TakeReplica, ViewsOK
<1>2. DeploysOK' /\ UNCHANGED <<stack, answer>>
  BY Parts DEF TakeReplica, DeploysOK
<1>3. CountOK'
  <2>1. /\ count \in [removals : 0 .. MaxRemovals, flips : 0 .. MaxFlips]
        /\ count.removals < MaxRemovals
        /\ count' = [count EXCEPT !.removals = @ + 1]
    BY Parts DEF TakeReplica, CountOK
  <2>2. count.removals + 1 \in 0 .. MaxRemovals
    BY <2>1, TriggerAssumption
  <2> QED
    BY <2>1, <2>2 DEF CountOK
<1> QED
  BY <1>1, <1>2, <1>3, OtherIInv

LEMMA DeleteIInv ==
    ASSUME IInv, NEW m \in Node, Delete(m) \/ scaleDown(m)
    PROVE  IInv'
<1>1. /\ TakeReplica(m) /\ UNCHANGED execTime
      /\ listed' \in {listed, listed \ {m}}
  BY DEF Delete, scaleDown
<1> QED
  BY <1>1, TakeReplicaIInv

LEMMA FlipIInv ==
    ASSUME IInv, NEW m \in Node, Flip(m)
    PROVE  IInv'
<1>1. ViewsOK'
  BY Parts DEF Flip, ViewsOK
<1>2. DeploysOK' /\ UNCHANGED <<stack, answer>>
  BY Parts DEF Flip, DeploysOK, deployVars
<1>3. CountOK'
  <2>1. /\ count \in [removals : 0 .. MaxRemovals, flips : 0 .. MaxFlips]
        /\ count.flips < MaxFlips
        /\ count' = [count EXCEPT !.flips = @ + 1]
    BY Parts DEF Flip, CountOK
  <2>2. count.flips + 1 \in 0 .. MaxFlips
    BY <2>1, TriggerAssumption
  <2> QED
    BY <2>1, <2>2 DEF CountOK
<1> QED
  BY <1>1, <1>2, <1>3, OtherIInv

LEMMA NextIInv == IInv /\ [Next]_vars => IInv'
<1> SUFFICES ASSUME IInv, [Next]_vars PROVE IInv'
  OBVIOUS
<1>1. CASE UNCHANGED vars
  <2>1. ViewsOK' /\ DeploysOK' /\ CountOK' /\ UNCHANGED <<stack, answer>>
    BY <1>1, Parts DEF vars, deployVars, catalogVars, ViewsOK, DeploysOK, CountOK
  <2> QED
    BY <2>1, OtherIInv
<1>2. CASE Next
  BY <1>2, HandleIInv, HealthReturnsIInv, StreamEndsIInv, InvokeIInv,
     ReportDeployedIInv, DeleteIInv, FlipIInv, DeployPotentialIInv, LearnIInv DEF Next
<1> QED
  BY <1>1, <1>2

-----------------------------------------------------------------------------
(* The theorems.                                                           *)

\* The stacks of handlers stay well formed, whatever nodes believe.
THEOREM Invariance == Spec => []IInv
<1>1. Init => IInv
  BY InitIInv
<1>2. IInv /\ [Next]_vars => IInv'
  BY NextIInv
<1> QED
  BY <1>1, <1>2, PTL DEF Spec

\* Every variable keeps its type: no handler ever turns to a node that there
\* is not, but for the empty peer ID it is about to invoke (trigger.go:47).
THEOREM TypeCorrect == Spec => []TypeOK
<1>1. IInv => TypeOK
  BY DEF IInv
<1> QED
  BY <1>1, Invariance, PTL

\* A request is forwarded at most once, for any number of nodes and any views
\* they have of each other: the mark of an offloaded request keeps the node
\* that receives it from turning to another (trigger.go:47, trigger.go:97).
THEOREM ForwardedOnceHolds == Spec => []ForwardedOnce
<1>1. IInv => ForwardedOnce
  BY DEF IInv, StackInv, ForwardedOnce
<1> QED
  BY <1>1, Invariance, PTL

\* An entry that is there stays there.
TimesStay ==
    \A n, m \in Node : execTime[n][m] # Absent => execTime'[n][m] # Absent

LEMMA ReportStay ==
    ASSUME ViewsOK, NEW m \in Node, Report(m)
    PROVE  TimesStay
BY DEF Report, ViewsOK, TimesStay, Absent

LEMMA HandleStay ==
    ASSUME IInv, NEW r \in Request, Handle(r)
    PROVE  TimesStay
<1> DEFINE n == Top(r).node
           m == Top(r).target
<1>1. StacksOK /\ ViewsOK
  BY Parts
<1>2. CASE UNCHANGED execTime
  BY <1>2 DEF TimesStay
<1>3. CASE Receive(r)
  <2>1. n \in Node
    BY <1>1, <1>3, ActiveTop DEF Receive
  <2>2. CASE UNCHANGED execTime
    BY <2>2 DEF TimesStay
  <2>3. CASE \E found \in findSuitableNode(n) :
                execTime' = [execTime EXCEPT ![n] = found[2]]
    <3>1. PICK found \in findSuitableNode(n) :
                execTime' = [execTime EXCEPT ![n] = found[2]]
      BY <2>3
    <3>2. \A k \in Node : execTime[n][k] # Absent => found[2][k] # Absent
      BY <1>1, <2>1, FoundType
    <3>3. \A i \in Node : execTime'[i] = IF i = n THEN found[2] ELSE execTime[i]
      BY <3>1, <1>1 DEF ViewsOK
    <3> QED
      BY <3>2, <3>3 DEF TimesStay
  <2> QED
    BY <1>3, <2>2, <2>3 DEF Receive
<1>4. CASE WaitReady(r)
  <2>1. n \in Node
    BY <1>1, <1>4, ActiveTop DEF WaitReady
  <2>2. Report(n) \/ UNCHANGED execTime
    BY <1>4 DEF WaitReady
  <2> QED
    BY <1>1, <1>2, <2>1, <2>2, ReportStay
<1>5. CASE Record(r)
  <2>1. n \in Node /\ m \in Node
    BY <1>1, <1>5, ActiveTop DEF Record
  <2>2. CASE /\ execTime[n][m] # Absent
             /\ \E e \in Elapsed :
                   execTime' = [execTime EXCEPT ![n][m] = Average(@, e)]
    <3>1. PICK e \in Elapsed :
              execTime' = [execTime EXCEPT ![n][m] = Average(@, e)]
      BY <2>2
    <3>2. execTime[n][m] \in Nat /\ e \in Nat
      BY <1>1, <2>1, <2>2, TriggerAssumption DEF ViewsOK
    <3>3. Average(execTime[n][m], e) \in Nat
      BY <3>2, AverageType
    <3>4. Average(execTime[n][m], e) # Absent
      BY <3>3 DEF Absent
    <3>5. \A i, k \in Node :
              execTime'[i][k] = IF i = n /\ k = m THEN Average(execTime[n][m], e)
                                                 ELSE execTime[i][k]
      BY <3>1, <2>1, <1>1 DEF ViewsOK
    <3> QED
      BY <3>4, <3>5 DEF TimesStay
  <2> QED
    BY <1>2, <1>5, <2>2 DEF Record
<1>6. CASE \/ DeployTarget(r) \/ NotAllowed(r) \/ InvokeLocal(r)
           \/ InvokePeer(r) \/ PeerAnswers(r) \/ Explore(r)
  BY <1>2, <1>6 DEF DeployTarget, NotAllowed, InvokeLocal, InvokePeer, PeerAnswers,
                    Explore, catalogVars
<1> QED
  BY <1>3, <1>4, <1>5, <1>6 DEF Handle

LEMMA NextStay == IInv /\ [Next]_vars => TimesStay
<1> SUFFICES ASSUME IInv, [Next]_vars PROVE TimesStay
  OBVIOUS
<1>1. ViewsOK
  BY Parts
<1>2. CASE UNCHANGED execTime
  BY <1>2 DEF TimesStay
<1>3. ASSUME NEW r \in Request, Handle(r)
      PROVE  TimesStay
  BY <1>3, HandleStay
<1>4. ASSUME NEW r \in Request, NEW n \in Node, Invoke(r, n)
      PROVE  TimesStay
  BY <1>2, <1>4 DEF Invoke, catalogVars
<1>5. ASSUME NEW m \in Node,
             ReportDeployed(m) \/ Delete(m) \/ scaleDown(m) \/ Flip(m)
      PROVE  TimesStay
  <2>1. Report(m) \/ UNCHANGED execTime
    BY <1>5 DEF ReportDeployed, Delete, scaleDown, Flip
  <2> QED
    BY <2>1, <1>1, <1>2, ReportStay
<1>8. ASSUME NEW r \in Request, HealthReturns(r) \/ StreamEnds(r)
      PROVE  TimesStay
  <2>1. CASE HealthReturns(r)
    <3>1. Top(r).node \in Node
      BY <2>1, ActiveTop, Parts DEF HealthReturns
    <3>2. Report(Top(r).node) \/ UNCHANGED execTime
      BY <2>1 DEF HealthReturns
    <3> QED
      BY <3>1, <3>2, <1>1, <1>2, ReportStay
  <2>2. CASE StreamEnds(r)
    BY <1>2, <2>2 DEF StreamEnds, catalogVars
  <2> QED
    BY <1>8, <2>1, <2>2
<1>6. ASSUME NEW n \in Node, NEW m \in Node, DeployPotential(n, m) \/ Learn(n, m)
      PROVE  TimesStay
  <2>1. execTime' = execTime \/ execTime' = [execTime EXCEPT ![n][m] = 1]
    BY <1>6 DEF DeployPotential, Learn, catalogVars
  <2>2. CASE execTime' = [execTime EXCEPT ![n][m] = 1]
    BY <2>2, <1>1 DEF ViewsOK, TimesStay, Absent
  <2> QED
    BY <2>1, <2>2, <1>2
<1>7. CASE UNCHANGED vars
  BY <1>2, <1>7 DEF vars, catalogVars
<1> QED
  BY <1>3, <1>4, <1>5, <1>6, <1>7, <1>8 DEF Next

\* An execution time that a handler may still dereference is never taken away:
\* a request that finds the entry of its target when it is forwarded finds it
\* when it comes back (trigger.go:314, trigger.go:106).
THEOREM TimeStays == Spec => TimeStaysForTarget
<1> DEFINE Kept ==
        \A r \in Request : \A i \in 1 .. Len(stack[r]) :
           LET n == stack[r][i].node
               m == stack[r][i].target
           IN  m # NoNode /\ execTime[n][m] # Absent
                   => execTime'[n][m] # Absent
<1>1. ASSUME IInv, [Next]_vars
      PROVE  Kept
  <2>1. TimesStay
    BY <1>1, NextStay
  <2>2. ASSUME NEW r \in Request, NEW i \in 1 .. Len(stack[r])
        PROVE  stack[r][i].node \in Node /\ stack[r][i].target \in Node \cup {NoNode}
    <3>1. stack[r] \in Seq(Frame)
      BY <1>1 DEF IInv, TypeOK
    <3>2. stack[r][i] \in Frame
      BY <3>1, ElementOfSeq
    <3> QED
      BY <3>2 DEF Frame
  <2> QED
    BY <2>1, <2>2 DEF TimesStay
<1>2. IInv /\ [Next]_vars => [Kept]_vars
  BY <1>1
<1> QED
  BY <1>2, Invariance, PTL DEF Spec, TimeStaysForTarget
=============================================================================
