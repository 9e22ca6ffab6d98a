-------------------------- MODULE SupervisorProofs --------------------------
(***************************************************************************)
(* The safety properties of Supervisor hold for any number of services,    *)
(* every dependency graph over them, any order in which dependencies are   *)
(* visited, and any number of failures and crashes.                        *)
(***************************************************************************)
EXTENDS Supervisor, CallStacks, FiniteSetTheorems, TLAPS

-----------------------------------------------------------------------------
(* Lists of services.                                                      *)

\* The names of the list are the services.
LEMMA ListedServices ==
    /\ Services \in Seq(Service)
    /\ Len(Services) \in Nat \ {0}
    /\ \A s \in Service : \E j \in 1 .. Len(Services) : Services[j] = s
    /\ \A j \in 1 .. Len(Services) : Services[j] \in Service
BY SupervisorAssumption DEF Range

LEMMA RangeContains ==
    ASSUME NEW s \in Seq(Service)
    PROVE  Range(s) = Service <=> \A e \in Service : Contains(s, e)
BY DEF Range, Contains

\* What an order contains when a name is appended.
LEMMA AppendContains ==
    ASSUME NEW s \in Seq(Service), NEW x \in Service
    PROVE  /\ Append(s, x) \in Seq(Service)
           /\ Contains(Append(s, x), x)
           /\ \A e : Contains(s, e) => Contains(Append(s, x), e)
<1>1. /\ Append(s, x) \in Seq(Service)
      /\ Len(Append(s, x)) = Len(s) + 1
      /\ \A i \in 1 .. Len(s) : Append(s, x)[i] = s[i]
      /\ Append(s, x)[Len(s) + 1] = x
      /\ Len(s) \in Nat
  OBVIOUS
<1>2. Contains(Append(s, x), x)
  <2>1. Len(s) + 1 \in 1 .. Len(Append(s, x))
    BY <1>1
  <2> QED
    BY <1>1, <2>1 DEF Contains
<1>3. ASSUME NEW e, Contains(s, e)
      PROVE  Contains(Append(s, x), e)
  <2>1. PICK i \in 1 .. Len(s) : s[i] = e
    BY <1>3 DEF Contains
  <2>2. i \in 1 .. Len(Append(s, x)) /\ Append(s, x)[i] = e
    BY <1>1, <2>1
  <2> QED
    BY <2>2 DEF Contains
<1> QED
  BY <1>1, <1>2, <1>3

\* An order that has every service, each once, is as long as there are
\* services, and no longer than the list.
LEMMA OrderLength ==
    ASSUME NEW s \in Seq(Service), Range(s) = Service,
           \A i, j \in 1 .. Len(s) : s[i] = s[j] => i = j
    PROVE  /\ Len(s) = Cardinality(Service)
           /\ Len(s) <= Len(Services)
<1>1. Len(s) \in Nat /\ s \in [1 .. Len(s) -> Service]
  OBVIOUS
<1>2. \A e \in Service : \E i \in 1 .. Len(s) : s[i] = e
  BY <1>1 DEF Range
<1>3. s \in Bijection(1 .. Len(s), Service)
  BY <1>1, <1>2 DEF Bijection, Injection, Surjection, IsInjective
<1>4. Cardinality(Service) = Len(s)
  BY <1>1, <1>3, FS_CountingElements DEF ExistsBijection
<1>5. Services \in Surjection(1 .. Len(Services), Service)
  BY ListedServices DEF Surjection
<1>6. Cardinality(Service) <= Len(Services)
  BY <1>5, ListedServices, FS_SurjCardinalityBound DEF ExistsSurjection
<1> QED
  BY <1>4, <1>6

-----------------------------------------------------------------------------
(* The resolution.                                                         *)

LEMMA NewCallType ==
    ASSUME TypeOK, NEW s \in Service
    PROVE  /\ NewCall(s) \in Call
           /\ NewCall(s).node = s
           /\ NewCall(s).due = depends[s]
BY DEF TypeOK, NewCall, Edges, Call

\* The call that runs.
LEMMA TopCall ==
    ASSUME TypeOK, CallsInv, stack # <<>>
    PROVE  /\ Last(stack) \in Call
           /\ Last(stack) = stack[Len(stack)]
           /\ Len(stack) \in Nat \ {0}
           /\ Len(stack) \in 1 .. Len(stack)
           /\ Last(stack).node \in Service
           /\ Last(stack).due \subseteq depends[Last(stack).node]
           /\ \A d \in depends[Last(stack).node] \ Last(stack).due :
                 Contains(resolved, d)
<1>1. /\ Last(stack) \in Call /\ Last(stack) = stack[Len(stack)]
      /\ Len(stack) \in Nat \ {0}
  BY TopType DEF TypeOK
<1>2. Len(stack) \in 1 .. Len(stack) /\ ~(Len(stack) < Len(stack))
  BY <1>1
<1>3. Last(stack).node \in Service
  BY <1>1 DEF Call
<1>4. Last(stack).due \subseteq depends[Last(stack).node]
  BY <1>1, <1>2 DEF CallsInv
<1>5. \A d \in depends[Last(stack).node] \ Last(stack).due : Contains(resolved, d)
  BY <1>1, <1>2 DEF CallsInv
<1> QED
  BY <1>1, <1>2, <1>3, <1>4, <1>5

\* A step that leaves the resolution alone.
LEMMA ResolutionKept ==
    ASSUME OrderInv, CallsInv, UNCHANGED <<depends, resolveVars>>
    PROVE  OrderInv' /\ CallsInv'
BY DEF OrderInv, CallsInv, resolveVars

\* A call of resolve for a node of the graph.
LEMMA ResolveNodeIInv ==
    ASSUME IInv, ResolveNode
    PROVE  IInv'
<1> DEFINE s == Services[next]
           c == NewCall(s)
<1>0. next \in 1 .. Len(Services)
  BY ListedServices DEF IInv, TypeOK, ResolveNode
<1>1. /\ TypeOK /\ OrderInv /\ CallsInv /\ PhaseInv
      /\ next \in 1 .. Len(Services)
      /\ stack = <<>>
      /\ stack' = <<c>>
      /\ unresolved' = unresolved \cup {s}
      /\ next' = next + 1
      /\ pc = "resolve"
      /\ UNCHANGED <<depends, pc, resolved, container, running, failures>>
  BY <1>0 DEF IInv, ResolveNode
<1>2. s \in Service
  BY <1>1, ListedServices
<1>3. c \in Call /\ c.node = s /\ c.due = depends[s]
  BY <1>1, <1>2, NewCallType
<1> HIDE DEF c, s
<1>4. TypeOK'
  BY <1>1, <1>2, <1>3 DEF TypeOK
<1>5. Len(stack') = 1 /\ stack'[1] = c /\ \A k \in 1 .. Len(stack') : k = 1
  BY <1>1
<1>6. OrderInv' /\ CallsInv'
  <2>1. OrderInv'
    BY <1>1 DEF OrderInv
  <2>2. \A k \in 1 .. Len(stack') : stack'[k].due = depends'[stack'[k].node]
    BY <1>1, <1>3, <1>5
  <2>3. \A k \in 1 .. Len(stack') - 1 : FALSE
    BY <1>5
  <2>4. \A e \in unresolved' :
           Contains(resolved', e) \/ \E k \in 1 .. Len(stack') : e = stack'[k].node
    <3>1. \A e \in unresolved : Contains(resolved, e)
      BY <1>1 DEF CallsInv
    <3>2. 1 \in 1 .. Len(stack') /\ s = stack'[1].node
      BY <1>3, <1>5
    <3> QED
      BY <1>1, <3>1, <3>2
  <2> QED
    BY <2>1, <2>2, <2>3, <2>4 DEF CallsInv
<1>7. PhaseInv'
  <2>1. container' = {} /\ pc' = "resolve"
    BY <1>1 DEF PhaseInv
  <2>2. ASSUME NEW j \in 1 .. next' - 1
        PROVE  \/ Contains(resolved', Services[j])
               \/ \E k \in 1 .. Len(stack') : Services[j] = stack'[k].node
    <3>1. CASE j = next
      <4>1. 1 \in 1 .. Len(stack') /\ s = stack'[1].node
        BY <1>3, <1>5
      <4> QED
        BY <3>1, <4>1 DEF s
    <3>2. CASE j # next
      <4>1. j \in 1 .. next - 1
        BY <1>1, <3>2
      <4> QED
        BY <4>1, <1>1 DEF PhaseInv
    <3> QED
      BY <3>1, <3>2
  <2> QED
    BY <2>1, <2>2 DEF PhaseInv
<1>8. PanicJustified'
  BY <1>1 DEF PanicJustified
<1> QED
  BY <1>4, <1>6, <1>7, <1>8 DEF IInv

\* A call for a dependency.
LEMMA ResolveDeeper ==
    ASSUME IInv, stack # <<>>, pc = "resolve",
           NEW e \in Last(stack).due, e \in Service,
           stack' = Front(stack) \o
                        <<[Last(stack) EXCEPT !.due = @ \ {e}], NewCall(e)>>,
           unresolved' = unresolved \cup {e},
           UNCHANGED <<depends, pc, next, resolved, container, running, failures>>
    PROVE  IInv'
<1> DEFINE call == Last(stack)
           x == [call EXCEPT !.due = @ \ {e}]
           y == NewCall(e)
           L == Len(stack)
<1>1. TypeOK /\ OrderInv /\ CallsInv /\ PhaseInv
  BY DEF IInv
<1>2. /\ call \in Call /\ call = stack[L] /\ L \in Nat \ {0} /\ L \in 1 .. L
      /\ call.node \in Service
      /\ call.due \subseteq depends[call.node]
      /\ \A d \in depends[call.node] \ call.due : Contains(resolved, d)
  BY <1>1, TopCall
<1>3. e \in Service /\ e \in depends[call.node]
  BY <1>2 DEF Call
<1>4. x \in Call /\ x.node = call.node /\ x.due = call.due \ {e}
  BY <1>2 DEF Call
<1>5. y \in Call /\ y.node = e /\ y.due = depends[e]
  BY <1>1, <1>3, NewCallType
<1> HIDE DEF x, y
<1>6. /\ stack' \in Seq(Call)
      /\ Len(stack') = L + 1
      /\ \A i \in 1 .. L - 1 : stack'[i] = stack[i]
      /\ stack'[L] = x
      /\ stack'[L + 1] = y
  <2>1. stack' = Front(stack) \o <<x, y>> /\ stack \in Seq(Call)
    BY <1>1 DEF x, y, TypeOK
  <2>2. /\ Front(stack) \o <<x, y>> \in Seq(Call)
        /\ Len(Front(stack) \o <<x, y>>) = L + 1
        /\ \A i \in 1 .. L - 1 : (Front(stack) \o <<x, y>>)[i] = stack[i]
        /\ (Front(stack) \o <<x, y>>)[L] = x
        /\ (Front(stack) \o <<x, y>>)[L + 1] = y
    <3> SUFFICES ASSUME NEW s \in Seq(Call), s # <<>>, NEW v \in Call, NEW w \in Call
                 PROVE  /\ Front(s) \o <<v, w>> \in Seq(Call)
                        /\ Len(Front(s) \o <<v, w>>) = Len(s) + 1
                        /\ \A i \in 1 .. Len(s) - 1 : (Front(s) \o <<v, w>>)[i] = s[i]
                        /\ (Front(s) \o <<v, w>>)[Len(s)] = v
                        /\ (Front(s) \o <<v, w>>)[Len(s) + 1] = w
      BY <1>4, <1>5, <2>1
    <3> QED
      BY CallType
  <2> QED
    BY <2>1, <2>2
<1>7. \A k \in 1 .. L : stack'[k].node = stack[k].node
  <2>1. ASSUME NEW k \in 1 .. L
        PROVE  stack'[k].node = stack[k].node
    <3>1. CASE k = L
      BY <3>1, <1>2, <1>4, <1>6
    <3>2. CASE k # L
      <4>1. k \in 1 .. L - 1
        BY <3>2, <1>2
      <4> QED
        BY <4>1, <1>6
    <3> QED
      BY <3>1, <3>2
  <2> QED
    BY <2>1
<1>8. TypeOK'
  BY <1>1, <1>3, <1>6 DEF TypeOK
<1>9. OrderInv' /\ CallsInv'
  <2>1. OrderInv'
    BY <1>1 DEF OrderInv
  <2>2. ASSUME NEW k \in 1 .. Len(stack')
        PROVE  /\ stack'[k].due \subseteq depends[stack'[k].node]
               /\ \A d \in depends[stack'[k].node] \ stack'[k].due :
                     \/ Contains(resolved, d)
                     \/ k < Len(stack') /\ d = stack'[k + 1].node
               /\ k # Len(stack') => stack'[k + 1].node \in depends[stack'[k].node]
    <3>1. CASE k = L + 1
      BY <3>1, <1>5, <1>6
    <3>2. CASE k = L
      <4>1. k < Len(stack') /\ stack'[k + 1].node = e
        BY <3>2, <1>2, <1>5, <1>6
      <4>2. stack'[k].node = call.node /\ stack'[k].due = call.due \ {e}
        BY <3>2, <1>4, <1>6
      <4> QED
        BY <4>1, <4>2, <1>2, <1>3
    <3>3. CASE k \in 1 .. L - 1
      <4>1. /\ k \in 1 .. L /\ k + 1 \in 1 .. L /\ k < L /\ k < Len(stack')
            /\ k \in 1 .. Len(stack) - 1
        BY <3>3, <1>2, <1>6
      <4>2. /\ stack'[k].node = stack[k].node /\ stack'[k].due = stack[k].due
            /\ stack'[k + 1].node = stack[k + 1].node
        BY <3>3, <4>1, <1>6, <1>7
      <4>3. /\ stack[k].due \subseteq depends[stack[k].node]
            /\ \A d \in depends[stack[k].node] \ stack[k].due :
                  Contains(resolved, d) \/ d = stack[k + 1].node
            /\ stack[k + 1].node \in depends[stack[k].node]
        BY <4>1, <1>1 DEF CallsInv
      <4> QED
        BY <4>1, <4>2, <4>3
    <3>4. k = L + 1 \/ k = L \/ k \in 1 .. L - 1
      BY <1>2, <1>6
    <3> QED
      BY <3>1, <3>2, <3>3, <3>4
  <2>3. \A k \in 1 .. Len(stack') - 1 : stack'[k + 1].node \in depends[stack'[k].node]
    <3>1. \A k \in 1 .. Len(stack') - 1 : k \in 1 .. Len(stack') /\ k # Len(stack')
      BY <1>2, <1>6
    <3> QED
      BY <2>2, <3>1
  <2>4. ASSUME NEW s \in unresolved'
        PROVE  \/ Contains(resolved, s)
               \/ \E k \in 1 .. Len(stack') : s = stack'[k].node
    <3>1. CASE s = e
      <4>1. L + 1 \in 1 .. Len(stack') /\ stack'[L + 1].node = e
        BY <1>2, <1>5, <1>6
      <4> QED
        BY <3>1, <4>1
    <3>2. CASE s # e
      <4>1. Contains(resolved, s) \/ \E k \in 1 .. L : s = stack[k].node
        BY <3>2, <1>1 DEF CallsInv
      <4>2. \A k \in 1 .. L : k \in 1 .. Len(stack')
        BY <1>2, <1>6
      <4> QED
        BY <4>1, <4>2, <1>7
    <3> QED
      BY <3>1, <3>2
  <2> QED
    BY <2>1, <2>2, <2>3, <2>4 DEF CallsInv
<1>10. PhaseInv'
  <2>1. container' = {} /\ pc' = "resolve"
    BY <1>1 DEF PhaseInv
  <2>2. ASSUME NEW j \in 1 .. next' - 1
        PROVE  \/ Contains(resolved', Services[j])
               \/ \E k \in 1 .. Len(stack') : Services[j] = stack'[k].node
    <3>1. \/ Contains(resolved, Services[j])
          \/ \E k \in 1 .. L : Services[j] = stack[k].node
      BY <1>1 DEF PhaseInv
    <3>2. \A k \in 1 .. L : k \in 1 .. Len(stack')
      BY <1>2, <1>6
    <3> QED
      BY <3>1, <3>2, <1>7
  <2> QED
    BY <2>1, <2>2 DEF PhaseInv
<1>11. PanicJustified'
  BY DEF PanicJustified
<1> QED
  BY <1>8, <1>9, <1>10, <1>11 DEF IInv

\* An edge without a node is met: the node on top of the stack depends on it.
LEMMA ResolveDereferences ==
    ASSUME IInv, stack # <<>>, pc = "resolve",
           NEW e \in Last(stack).due, e \in Unknown,
           Goto("panicked"),
           UNCHANGED <<depends, stack, resolved, unresolved, container, running,
                       failures>>
    PROVE  IInv'
<1>1. TypeOK /\ OrderInv /\ CallsInv
  BY DEF IInv
<1>2. /\ Last(stack).node \in Service
      /\ Last(stack).due \subseteq depends[Last(stack).node]
  BY <1>1, TopCall
<1>3. Dangling'
  BY <1>2 DEF Dangling
<1>4. TypeOK' /\ PhaseInv' /\ PanicJustified'
  BY <1>1, <1>3, ListedServices DEF TypeOK, PhaseInv, PanicJustified, Goto
<1>5. OrderInv' /\ CallsInv'
  BY <1>1, ResolutionKept DEF resolveVars
<1> QED
  BY <1>4, <1>5 DEF IInv

\* A node under resolution is met again: it and the nodes above it on the
\* stack wait for each other.
LEMMA ResolvePanics ==
    ASSUME IInv, stack # <<>>, pc = "resolve",
           NEW e \in Last(stack).due, e \in unresolved, ~Contains(resolved, e),
           Goto("panicked"),
           UNCHANGED <<depends, stack, resolved, unresolved, container, running,
                       failures>>
    PROVE  IInv'
<1> DEFINE L == Len(stack)
<1>1. TypeOK /\ OrderInv /\ CallsInv /\ PhaseInv
  BY DEF IInv
<1>2. /\ Last(stack) = stack[L] /\ L \in Nat \ {0} /\ L \in 1 .. L
      /\ Last(stack).due \subseteq depends[Last(stack).node]
  BY <1>1, TopCall
<1>3. PICK b \in 1 .. L : e = stack[b].node
  BY <1>1 DEF CallsInv
<1> DEFINE S == {stack[j].node : j \in b .. L}
<1>4. \A j \in b .. L : j \in 1 .. L /\ stack[j].node \in Service
  <2>1. \A j \in b .. L : j \in 1 .. L
    BY <1>2, <1>3
  <2>2. \A j \in 1 .. L : stack[j] \in Call
    BY <1>1 DEF TypeOK
  <2> QED
    BY <2>1, <2>2 DEF Call
<1>5. e \in S
  <2>1. b \in b .. L
    BY <1>2, <1>3
  <2> QED
    BY <1>3, <2>1
<1>6. ASSUME NEW s \in S
      PROVE  depends[s] \cap S # {}
  <2>1. PICK j \in b .. L : s = stack[j].node
    OBVIOUS
  <2>2. CASE j = L
    <3>1. e \in depends[s]
      BY <1>2, <2>1, <2>2
    <3> QED
      BY <3>1, <1>5
  <2>3. CASE j # L
    <3>1. j \in 1 .. Len(stack) - 1 /\ j + 1 \in b .. L
      BY <1>2, <1>3, <2>3
    <3>2. stack[j + 1].node \in depends[s]
      BY <3>1, <2>1, <1>1 DEF CallsInv
    <3>3. stack[j + 1].node \in S
      BY <3>1
    <3> QED
      BY <3>2, <3>3
  <2> QED
    BY <2>2, <2>3
<1>7. S \in SUBSET Service
  BY <1>4
<1> HIDE DEF S
<1>8. Cyclic'
  BY <1>5, <1>6, <1>7 DEF Cyclic
<1>9. TypeOK' /\ PhaseInv' /\ PanicJustified'
  BY <1>1, <1>8, ListedServices DEF TypeOK, PhaseInv, PanicJustified, Goto
<1>10. OrderInv' /\ CallsInv'
  BY <1>1, ResolutionKept DEF resolveVars
<1> QED
  BY <1>9, <1>10 DEF IInv

LEMMA ResolveEdgeIInv ==
    ASSUME IInv, ResolveEdge
    PROVE  IInv'
BY ResolveDeeper, ResolveDereferences, ResolvePanics DEF ResolveEdge

\* A call returns, and its node is in the order.
LEMMA ResolveShallower ==
    ASSUME IInv, stack # <<>>, pc = "resolve",
           stack' = Front(stack),
           resolved' \in Seq(Service),
           OrderInv',
           Contains(resolved', Last(stack).node),
           \A e : Contains(resolved, e) => Contains(resolved', e),
           unresolved' \subseteq unresolved,
           UNCHANGED <<depends, pc, next, container, running, failures>>
    PROVE  IInv'
<1> DEFINE L == Len(stack)
<1>1. TypeOK /\ OrderInv /\ CallsInv /\ PhaseInv
  BY DEF IInv
<1>2. Last(stack) = stack[L] /\ L \in Nat \ {0}
  BY <1>1, TopCall
<1>3. /\ stack' \in Seq(Call)
      /\ Len(stack') = L - 1
      /\ \A i \in 1 .. L - 1 : stack'[i] = stack[i]
  BY <1>1, PopType DEF TypeOK
<1>4. TypeOK'
  BY <1>1, <1>3 DEF TypeOK
<1>5. \A e : (Contains(resolved, e) \/ \E k \in 1 .. L : e = stack[k].node)
          => (Contains(resolved', e) \/ \E k \in 1 .. Len(stack') : e = stack'[k].node)
  <2>1. ASSUME NEW e, NEW k \in 1 .. L, e = stack[k].node
        PROVE  Contains(resolved', e) \/ \E i \in 1 .. Len(stack') : e = stack'[i].node
    <3>1. CASE k = L
      BY <1>2, <2>1, <3>1
    <3>2. CASE k # L
      <4>1. k \in 1 .. Len(stack') /\ stack'[k] = stack[k]
        BY <1>2, <1>3, <3>2
      <4> QED
        BY <2>1, <4>1
    <3> QED
      BY <3>1, <3>2
  <2> QED
    BY <2>1
<1>6. CallsInv'
  <2>1. ASSUME NEW k \in 1 .. Len(stack')
        PROVE  /\ stack'[k].due \subseteq depends[stack'[k].node]
               /\ \A d \in depends[stack'[k].node] \ stack'[k].due :
                     \/ Contains(resolved', d)
                     \/ k < Len(stack') /\ d = stack'[k + 1].node
    <3>1. /\ k \in 1 .. Len(stack) /\ k + 1 \in 1 .. L
          /\ stack'[k] = stack[k]
          /\ k + 1 = L \/ (k < Len(stack') /\ stack'[k + 1] = stack[k + 1])
      BY <1>2, <1>3
    <3>2. stack[k].due \subseteq depends[stack[k].node]
      BY <3>1, <1>1 DEF CallsInv
    <3>3. \A d \in depends[stack[k].node] \ stack[k].due :
             Contains(resolved, d) \/ d = stack[k + 1].node
      BY <3>1, <1>1 DEF CallsInv
    <3> QED
      BY <3>1, <3>2, <3>3, <1>2
  <2>2. \A k \in 1 .. Len(stack') - 1 : stack'[k + 1].node \in depends[stack'[k].node]
    <3>1. ASSUME NEW k \in 1 .. Len(stack') - 1
          PROVE  /\ k \in 1 .. Len(stack) - 1
                 /\ stack'[k] = stack[k] /\ stack'[k + 1] = stack[k + 1]
      BY <1>2, <1>3
    <3> QED
      BY <3>1, <1>1 DEF CallsInv
  <2>3. \A s \in unresolved' :
           Contains(resolved', s) \/ \E k \in 1 .. Len(stack') : s = stack'[k].node
    BY <1>1, <1>5 DEF CallsInv
  <2> QED
    BY <2>1, <2>2, <2>3 DEF CallsInv
<1>7. PhaseInv'
  <2>1. container' = {} /\ pc' = "resolve"
    BY <1>1 DEF PhaseInv
  <2>2. \A j \in 1 .. next' - 1 :
           \/ Contains(resolved', Services[j])
           \/ \E k \in 1 .. Len(stack') : Services[j] = stack'[k].node
    BY <1>1, <1>5 DEF PhaseInv
  <2> QED
    BY <2>1, <2>2 DEF PhaseInv
<1>8. PanicJustified'
  BY DEF PanicJustified
<1> QED
  BY <1>4, <1>6, <1>7, <1>8 DEF IInv

LEMMA ResolveReturnIInv ==
    ASSUME IInv, ResolveReturn
    PROVE  IInv'
<1> DEFINE n == Last(stack).node
<1>1. TypeOK /\ OrderInv /\ CallsInv
  BY DEF IInv
<1>2. /\ pc = "resolve" /\ stack # <<>> /\ Last(stack).due = {}
      /\ stack' = Front(stack)
      /\ UNCHANGED <<depends, pc, next, container, running, failures>>
  BY DEF ResolveReturn
<1>3. n \in Service /\ \A d \in depends[n] : Contains(resolved, d)
  BY <1>1, <1>2, TopCall
<1>4. resolved \in Seq(Service)
  BY <1>1 DEF TypeOK
<1>5. CASE Contains(resolved, n) /\ UNCHANGED <<resolved, unresolved>>
  <2>1. OrderInv'
    BY <1>1, <1>2, <1>5 DEF OrderInv
  <2> QED
    BY <1>2, <1>4, <1>5, <2>1, ResolveShallower
<1>6. CASE /\ ~Contains(resolved, n)
           /\ resolved' = Append(resolved, n)
           /\ unresolved' = unresolved \ {n}
  <2> DEFINE N == Len(resolved)
  <2>1. /\ N \in Nat
        /\ Len(resolved') = N + 1
        /\ \A i \in 1 .. N : resolved'[i] = resolved[i]
        /\ resolved'[N + 1] = n
    BY <1>3, <1>4, <1>6
  <2>2. /\ resolved' \in Seq(Service)
        /\ Contains(resolved', n)
        /\ \A e : Contains(resolved, e) => Contains(resolved', e)
    BY <1>3, <1>4, <1>6, AppendContains
  <2>3. \A i \in 1 .. N + 1 : i = N + 1 \/ i \in 1 .. N
    BY <2>1
  <2>4. \A i \in 1 .. N : resolved[i] # n
    BY <1>6 DEF Contains
  <2>5. \A i, j \in 1 .. Len(resolved') : resolved'[i] = resolved'[j] => i = j
    <3>1. \A i, j \in 1 .. N : resolved[i] = resolved[j] => i = j
      BY <1>1 DEF OrderInv
    <3> QED
      BY <2>1, <2>3, <2>4, <3>1
  <2>6. ASSUME NEW i \in 1 .. Len(resolved'), NEW d \in depends'[resolved'[i]]
        PROVE  \E j \in 1 .. i - 1 : d = resolved'[j]
    <3>1. CASE i = N + 1
      <4>1. PICK j \in 1 .. N : resolved[j] = d
        BY <1>2, <1>3, <2>1, <3>1 DEF Contains
      <4>2. j \in 1 .. i - 1 /\ d = resolved'[j]
        BY <2>1, <3>1, <4>1
      <4> QED
        BY <4>2
    <3>2. CASE i \in 1 .. N
      <4>1. PICK j \in 1 .. i - 1 : d = resolved[j]
        BY <1>1, <1>2, <2>1, <3>2 DEF OrderInv
      <4>2. j \in 1 .. N
        BY <2>1, <3>2
      <4> QED
        BY <2>1, <4>1, <4>2
    <3> QED
      BY <2>1, <2>3, <3>1, <3>2
  <2>7. OrderInv'
    BY <2>5, <2>6 DEF OrderInv
  <2> QED
    BY <1>2, <1>6, <2>2, <2>7, ResolveShallower
<1> QED
  BY <1>5, <1>6 DEF ResolveReturn

LEMMA ResolveDoneIInv ==
    ASSUME IInv, ResolveDone
    PROVE  IInv'
<1>1. TypeOK /\ OrderInv /\ CallsInv /\ PhaseInv
  BY DEF IInv
<1>2. /\ pc = "resolve" /\ stack = <<>> /\ next > Len(Services)
      /\ pc' = "start" /\ next' = 1
      /\ UNCHANGED <<depends, resolveVars, container, running, failures>>
  BY DEF ResolveDone, Goto
<1>3. \A e \in Service : Contains(resolved, e)
  <2>1. \A j \in 1 .. Len(Services) : Contains(resolved, Services[j])
    <3>1. \A j \in 1 .. Len(Services) : j \in 1 .. next - 1
      BY <1>1, <1>2, ListedServices DEF TypeOK
    <3>2. Len(stack) = 0
      BY <1>2
    <3> QED
      BY <1>1, <1>2, <3>1, <3>2 DEF PhaseInv
  <2> QED
    BY <2>1, ListedServices
<1>4. Range(resolved) = Service
  BY <1>1, <1>3, RangeContains DEF TypeOK
<1>5. 1 <= Len(resolved)
  <2>1. Contains(resolved, Services[1])
    BY <1>3, ListedServices
  <2>2. Len(resolved) \in Nat
    BY <1>1 DEF TypeOK
  <2> QED
    BY <2>1, <2>2 DEF Contains
<1>6. container = {} /\ running = {}
  BY <1>1, <1>2 DEF PhaseInv, TypeOK
<1>7. PhaseInv'
  BY <1>2, <1>4, <1>5, <1>6 DEF PhaseInv, resolveVars
<1>8. TypeOK' /\ PanicJustified'
  <2>1. next' \in 1 .. Len(Services) + 1
    BY <1>2, ListedServices
  <2>2. TypeOK'
    BY <1>1, <1>2, <2>1 DEF TypeOK, resolveVars
  <2> QED
    BY <1>2, <2>2 DEF PanicJustified
<1>9. OrderInv' /\ CallsInv'
  BY <1>1, <1>2, ResolutionKept
<1> QED
  BY <1>7, <1>8, <1>9 DEF IInv

-----------------------------------------------------------------------------
(* The other phases.                                                       *)

LEMMA InitIInv == Init => IInv
<1> SUFFICES ASSUME Init PROVE IInv
  OBVIOUS
<1>1. TypeOK
  BY ListedServices, SupervisorAssumption DEF Init, TypeOK
<1>2. OrderInv /\ CallsInv
  BY DEF Init, OrderInv, CallsInv
<1>3. PhaseInv /\ PanicJustified
  BY DEF Init, PhaseInv, PanicJustified
<1> QED
  BY <1>1, <1>2, <1>3 DEF IInv

\* A step of another phase has to keep the types and the phases.
LEMMA OtherIInv ==
    ASSUME IInv, UNCHANGED <<depends, resolveVars>>, TypeOK', PhaseInv',
           pc' # "panicked" \/ UNCHANGED pc
    PROVE  IInv'
<1>1. OrderInv' /\ CallsInv'
  BY ResolutionKept DEF IInv
<1>2. PanicJustified'
  BY DEF IInv, PanicJustified, Cyclic, Dangling
<1> QED
  BY <1>1, <1>2 DEF IInv

LEMMA FailureType ==
    ASSUME TypeOK, Failure \/ UNCHANGED failures
    PROVE  failures' \in 0 .. MaxFailures
BY SupervisorAssumption DEF TypeOK, Failure

LEMMA PrepareImagesIInv ==
    ASSUME IInv, PrepareImages
    PROVE  IInv'
<1>1. failures' \in 0 .. MaxFailures
  BY FailureType DEF IInv, PrepareImages
<1>2. TypeOK'
  <2>1. next' = 1 /\ pc' \in {"remove", "failed"}
    BY DEF PrepareImages, Goto
  <2>2. next' \in 1 .. Len(Services) + 1
    BY <2>1, ListedServices
  <2> QED
    BY <1>1, <2>1, <2>2 DEF IInv, PrepareImages, TypeOK, resolveVars
<1>3. PhaseInv'
  BY ListedServices DEF IInv, PrepareImages, Goto, PhaseInv, resolveVars
<1> QED
  BY <1>2, <1>3, OtherIInv DEF PrepareImages, Goto

LEMMA RemoveOldIInv ==
    ASSUME IInv, RemoveOld
    PROVE  IInv'
<1> DEFINE s == Services[next]
<1>1. TypeOK /\ PhaseInv /\ pc = "remove" /\ UNCHANGED <<depends, resolveVars>>
  BY DEF IInv, RemoveOld
<1>2. next \in 1 .. Len(Services) /\ Len(Services) \in Nat \ {0}
  BY <1>1, ListedServices DEF TypeOK, PhaseInv
<1>3. failures' \in 0 .. MaxFailures
  BY <1>1, FailureType DEF RemoveOld
<1>4. CASE /\ container' = container \ {s}
           /\ running' = running \ {s}
           /\ Advance(Services, "resolve")
  <2>1. \A j \in 1 .. next : Services[j] \notin container'
    <3>1. \A j \in 1 .. next : j = next \/ j \in 1 .. next - 1
      BY <1>2
    <3> QED
      BY <1>1, <1>4, <3>1 DEF PhaseInv
  <2>2. CASE next < Len(Services) /\ next' = next + 1 /\ UNCHANGED pc
    <3>1. next' \in 1 .. Len(Services) /\ next' - 1 = next
      BY <1>2, <2>2
    <3>2. TypeOK'
      BY <1>1, <1>2, <1>3, <1>4, <2>2, <3>1 DEF TypeOK, resolveVars
    <3>3. PhaseInv'
      BY <1>1, <1>2, <2>1, <2>2, <3>1 DEF PhaseInv, resolveVars
    <3> QED
      BY <1>1, <2>2, <3>2, <3>3, OtherIInv
  <2>3. CASE ~(next < Len(Services)) /\ pc' = "resolve" /\ next' = 1
    <3>1. container' = {}
      <4>1. next = Len(Services)
        BY <1>2, <2>3
      <4>2. \A e \in Service : e \notin container'
        BY <2>1, <4>1, ListedServices
      <4> QED
        BY <1>1, <1>4, <4>2 DEF TypeOK
    <3>2. TypeOK'
      BY <1>1, <1>2, <1>3, <1>4, <2>3 DEF TypeOK, resolveVars
    <3>3. PhaseInv'
      BY <1>1, <2>3, <3>1 DEF PhaseInv, resolveVars
    <3> QED
      BY <1>1, <2>3, <3>2, <3>3, OtherIInv
  <2> QED
    BY <1>4, <2>2, <2>3 DEF Advance, Goto
<1>5. CASE /\ Goto("failed")
           /\ running' \in {running, running \ {s}}
           /\ UNCHANGED container
  <2>1. TypeOK'
    BY <1>1, <1>2, <1>3, <1>5 DEF TypeOK, Goto, resolveVars
  <2>2. PhaseInv'
    BY <1>5 DEF PhaseInv, Goto
  <2> QED
    BY <1>1, <1>5, <2>1, <2>2, OtherIInv DEF Goto
<1> QED
  BY <1>4, <1>5 DEF RemoveOld

\* Where the start is.
LEMMA StartPhase ==
    ASSUME TypeOK, PhaseInv, pc = "start"
    PROVE  /\ resolved \in Seq(Service) /\ Len(resolved) \in Nat
           /\ next \in 1 .. Len(resolved)
           /\ Range(resolved) = Service
           /\ container = {resolved[i] : i \in 1 .. next - 1}
           /\ running = container
<1>1. resolved \in Seq(Service) /\ Len(resolved) \in Nat
  BY DEF TypeOK
<1>2. next \in Nat \ {0}
  BY ListedServices DEF TypeOK
<1>3. next <= Len(resolved)
  BY DEF PhaseInv
<1>4. next \in 1 .. Len(resolved)
  BY <1>1, <1>2, <1>3
<1>5. /\ Range(resolved) = Service
      /\ container = {resolved[i] : i \in 1 .. next - 1}
      /\ running = container
  BY DEF PhaseInv
<1> QED
  BY <1>1, <1>4, <1>5

LEMMA StartServiceIInv ==
    ASSUME IInv, StartService
    PROVE  IInv'
<1> DEFINE s == resolved[next]
<1>1. /\ TypeOK /\ OrderInv /\ PhaseInv /\ pc = "start"
      /\ UNCHANGED <<depends, resolveVars>>
  BY DEF IInv, StartService
<1>2. /\ resolved \in Seq(Service) /\ Len(resolved) \in Nat
      /\ next \in 1 .. Len(resolved)
      /\ Range(resolved) = Service
      /\ container = {resolved[i] : i \in 1 .. next - 1}
      /\ running = container
  BY <1>1, StartPhase
<1>3. Len(resolved) <= Len(Services) /\ Len(Services) \in Nat
  BY <1>1, <1>2, OrderLength, ListedServices DEF OrderInv
<1>4. failures' \in 0 .. MaxFailures
  BY <1>1, FailureType DEF StartService
<1>5. s \in Service
  BY <1>2
<1>6. CASE /\ container' = container \cup {s}
           /\ running' = running \cup {s}
           /\ Advance(resolved, "up")
  <2>1. container' = {resolved[i] : i \in 1 .. next}
    <3>1. 1 .. next = (1 .. next - 1) \cup {next}
      BY <1>2
    <3>2. {resolved[i] : i \in 1 .. next} =
              {resolved[i] : i \in 1 .. next - 1} \cup {resolved[next]}
      BY <3>1
    <3> QED
      BY <1>2, <1>6, <3>2
  <2>2. CASE next < Len(resolved) /\ next' = next + 1 /\ UNCHANGED pc
    <3>1. /\ next' \in 1 .. Len(Services) + 1 /\ next' <= Len(resolved)
          /\ next' - 1 = next
      BY <1>2, <1>3, <2>2
    <3>2. TypeOK'
      BY <1>1, <1>4, <1>5, <1>6, <2>2, <3>1 DEF TypeOK, resolveVars
    <3>3. PhaseInv'
      <4>1. container' = {resolved[i] : i \in 1 .. next' - 1}
        BY <2>1, <3>1
      <4>2. resolved' = resolved /\ running' = container' /\ pc' = "start"
        BY <1>1, <1>2, <1>6, <2>2 DEF resolveVars
      <4> QED
        BY <1>2, <3>1, <4>1, <4>2 DEF PhaseInv
    <3> QED
      BY <1>1, <2>2, <3>2, <3>3, OtherIInv
  <2>3. CASE ~(next < Len(resolved)) /\ pc' = "up" /\ next' = 1
    <3>1. next = Len(resolved)
      BY <1>2, <2>3
    <3>2. running' = Service
      <4>1. running' = {resolved[i] : i \in 1 .. Len(resolved)}
        BY <1>2, <1>6, <2>1, <3>1
      <4>2. Range(resolved) = {resolved[i] : i \in 1 .. Len(resolved)}
        BY <1>2 DEF Range
      <4> QED
        BY <1>2, <4>1, <4>2
    <3>3. TypeOK'
      BY <1>1, <1>3, <1>4, <1>5, <1>6, <2>3 DEF TypeOK, resolveVars
    <3>4. PhaseInv'
      BY <1>1, <1>2, <2>3, <3>2 DEF PhaseInv, resolveVars
    <3> QED
      BY <1>1, <2>3, <3>3, <3>4, OtherIInv
  <2> QED
    BY <1>6, <2>2, <2>3 DEF Advance, Goto
<1>7. CASE /\ Goto("failed")
           /\ container' \in {container, container \cup {s}}
           /\ UNCHANGED running
  <2>1. TypeOK'
    BY <1>1, <1>3, <1>4, <1>5, <1>7 DEF TypeOK, Goto, resolveVars
  <2>2. PhaseInv'
    BY <1>7 DEF PhaseInv, Goto
  <2> QED
    BY <1>1, <1>7, <2>1, <2>2, OtherIInv DEF Goto
<1> QED
  BY <1>6, <1>7 DEF StartService

LEMMA RemoveServiceIInv ==
    ASSUME IInv, RemoveService
    PROVE  IInv'
<1> DEFINE s == Services[next]
<1>1. TypeOK /\ PhaseInv /\ pc = "stop" /\ UNCHANGED <<depends, resolveVars>>
  BY DEF IInv, RemoveService
<1>2. next \in 1 .. Len(Services) /\ Len(Services) \in Nat \ {0}
  BY <1>1, ListedServices DEF TypeOK, PhaseInv
<1>3. failures' \in 0 .. MaxFailures
  BY <1>1, FailureType DEF RemoveService
<1>4. /\ container' \in SUBSET Service
      /\ running' \in SUBSET container'
  BY <1>1 DEF RemoveService, TypeOK
<1>5. \/ next < Len(Services) /\ next' = next + 1 /\ pc' = "stop"
      \/ pc' = "terminated" /\ next' = 1
  BY <1>1 DEF RemoveService, Advance, Goto
<1>6. next' \in 1 .. Len(Services) /\ next' <= Len(Services)
  BY <1>2, <1>5
<1>7. TypeOK'
  BY <1>1, <1>2, <1>3, <1>4, <1>5, <1>6 DEF TypeOK, resolveVars
<1>8. PhaseInv'
  <2>1. pc' \in {"stop", "terminated"}
    BY <1>5
  <2> QED
    BY <1>6, <2>1 DEF PhaseInv
<1> QED
  BY <1>1, <1>5, <1>7, <1>8, OtherIInv

\* The steps that only end a phase.
LEMMA SignalCrashIInv ==
    ASSUME IInv, Signal \/ Crash
    PROVE  IInv'
<1>1. /\ TypeOK /\ next' = 1 /\ pc' \in {"stop", "failed"}
      /\ UNCHANGED <<depends, resolveVars, container, running>>
  BY DEF IInv, Signal, Crash, Goto
<1>2. failures' \in 0 .. MaxFailures
  BY <1>1, FailureType DEF Signal, Crash
<1>3. next' \in 1 .. Len(Services) + 1 /\ next' <= Len(Services)
  BY <1>1, ListedServices
<1>4. TypeOK'
  BY <1>1, <1>2, <1>3 DEF TypeOK, resolveVars
<1>5. PhaseInv'
  BY <1>1, <1>3 DEF PhaseInv
<1> QED
  BY <1>1, <1>4, <1>5, OtherIInv

LEMMA RestartIInv ==
    ASSUME IInv, Restart
    PROVE  IInv'
<1>1. /\ TypeOK /\ next' = 1 /\ pc' = "prepare"
      /\ stack' = <<>> /\ resolved' = <<>> /\ unresolved' = {}
      /\ UNCHANGED <<depends, container, running, failures>>
  BY DEF IInv, Restart, Goto
<1>2. next' \in 1 .. Len(Services) + 1
  BY <1>1, ListedServices
<1>3. TypeOK'
  BY <1>1, <1>2 DEF TypeOK
<1>4. OrderInv' /\ CallsInv'
  BY <1>1 DEF OrderInv, CallsInv
<1>5. PhaseInv' /\ PanicJustified'
  BY <1>1 DEF PhaseInv, PanicJustified
<1> QED
  BY <1>3, <1>4, <1>5 DEF IInv

LEMMA NextIInv == IInv /\ [Next]_vars => IInv'
<1> SUFFICES ASSUME IInv, [Next]_vars PROVE IInv'
  OBVIOUS
<1>1. CASE UNCHANGED vars
  <2>1. TypeOK' /\ PhaseInv'
    BY <1>1 DEF IInv, TypeOK, PhaseInv, vars, resolveVars
  <2> QED
    BY <1>1, <2>1, OtherIInv DEF vars
<1>2. CASE Next
  BY <1>2, PrepareImagesIInv, RemoveOldIInv, ResolveNodeIInv, ResolveEdgeIInv,
     ResolveReturnIInv, ResolveDoneIInv, StartServiceIInv, RemoveServiceIInv,
     SignalCrashIInv, RestartIInv DEF Next, Step
<1> QED
  BY <1>1, <1>2

-----------------------------------------------------------------------------
(* The theorems.                                                           *)

\* What resolve and each phase keep true, whatever fails.
THEOREM Invariance == Spec => []IInv
<1>1. Init => IInv
  BY InitIInv
<1>2. IInv /\ [Next]_vars => IInv'
  BY NextIInv
<1> QED
  BY <1>1, <1>2, PTL DEF Spec

\* Every variable keeps its type: no task runs without its container, and no
\* phase runs past the end of its list.
THEOREM TypeCorrect == Spec => []TypeOK
<1>1. IInv => TypeOK
  BY DEF IInv
<1> QED
  BY <1>1, Invariance, PTL

\* Every service that this process has started came after all it depends on
\* (depgraph.go:61), for every dependency graph.
THEOREM StartedInOrder == Spec => []DependenciesFirst
<1>1. IInv => DependenciesFirst
  <2> SUFFICES ASSUME IInv, pc \in {"start", "up"},
                      NEW s \in running, NEW d \in depends[s]
               PROVE  d \in running
    BY DEF DependenciesFirst
  <2>1. TypeOK /\ OrderInv /\ PhaseInv
    BY DEF IInv
  <2>2. s \in Service /\ resolved \in Seq(Service)
    BY <2>1 DEF TypeOK
  <2>3. CASE pc = "up"
    <3>1. Range(resolved) = Service /\ running = Service
      BY <2>1, <2>3 DEF PhaseInv
    <3>2. PICK i \in 1 .. Len(resolved) : s = resolved[i]
      BY <2>2, <3>1 DEF Range
    <3>3. PICK j \in 1 .. i - 1 : d = resolved[j]
      BY <2>1, <3>2 DEF OrderInv
    <3>4. j \in 1 .. Len(resolved)
      BY <2>2
    <3> QED
      BY <2>2, <3>1, <3>3, <3>4
  <2>4. CASE pc = "start"
    <3>1. /\ Len(resolved) \in Nat /\ next \in 1 .. Len(resolved)
          /\ running = {resolved[i] : i \in 1 .. next - 1}
      BY <2>1, <2>4, StartPhase
    <3>2. PICK i \in 1 .. next - 1 : s = resolved[i]
      BY <3>1
    <3>3. i \in 1 .. Len(resolved)
      BY <3>1
    <3>4. PICK j \in 1 .. i - 1 : d = resolved[j]
      BY <2>1, <3>2, <3>3 DEF OrderInv
    <3>5. j \in 1 .. next - 1
      BY <3>1
    <3> QED
      BY <3>1, <3>4, <3>5
  <2> QED
    BY <2>3, <2>4
<1> QED
  BY <1>1, Invariance, PTL

\* resolve panics only for a cycle or for a name that is not a service
\* (deployment_order.go:36, depgraph.go:32): it never stops a start whose
\* dependencies can be ordered, although nodes that are met again stay in
\* unresolved (depgraph.go:92, depgraph.go:98).
THEOREM PanicIsRight == Spec => []PanicJustified
<1>1. IInv => PanicJustified
  BY DEF IInv
<1> QED
  BY <1>1, Invariance, PTL

\* The order of a start is a permutation of the services (depgraph.go:66).
THEOREM OrderIsComplete == Spec => []OrderComplete
<1>1. IInv => OrderComplete
  <2> SUFFICES ASSUME IInv, pc \in {"start", "up"}
               PROVE  Len(resolved) = Cardinality(Service) /\ Range(resolved) = Service
    BY DEF OrderComplete
  <2>1. resolved \in Seq(Service) /\ Range(resolved) = Service
    BY DEF IInv, TypeOK, PhaseInv
  <2>2. \A i, j \in 1 .. Len(resolved) : resolved[i] = resolved[j] => i = j
    BY DEF IInv, OrderInv
  <2> QED
    BY <2>1, <2>2, OrderLength
<1> QED
  BY <1>1, Invariance, PTL

\* A start finds the names of all services free, whatever an earlier process
\* left behind (supervisor.go:133, supervisor.go:216).
THEOREM NamesAreFree == Spec => []NameFree
<1>1. IInv => NameFree
  <2> SUFFICES ASSUME IInv, pc = "start", NEW i \in next .. Len(resolved),
                      resolved[i] \in container
               PROVE  FALSE
    BY DEF NameFree
  <2>1. TypeOK /\ OrderInv /\ PhaseInv
    BY DEF IInv
  <2>2. /\ Len(resolved) \in Nat /\ next \in 1 .. Len(resolved)
        /\ container = {resolved[j] : j \in 1 .. next - 1}
    BY <2>1, StartPhase
  <2>3. PICK j \in 1 .. next - 1 : resolved[i] = resolved[j]
    BY <2>2
  <2>4. i \in 1 .. Len(resolved) /\ j \in 1 .. Len(resolved) /\ i # j
    BY <2>2
  <2> QED
    BY <2>1, <2>3, <2>4 DEF OrderInv
<1> QED
  BY <1>1, Invariance, PTL
=============================================================================
