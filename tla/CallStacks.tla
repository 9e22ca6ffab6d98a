----------------------------- MODULE CallStacks -----------------------------
(***************************************************************************)
(* Facts about a sequence that is used as a stack of calls, the last of    *)
(* which runs: the handlers of a request in Trigger, the recursive calls   *)
(* of resolve in Supervisor.                                               *)
(***************************************************************************)
EXTENDS Integers, Sequences, SequencesExt, TLAPS

\* The call that runs is on the stack.
LEMMA TopType ==
    ASSUME NEW S, NEW s \in Seq(S), s # <<>>
    PROVE  Last(s) \in S /\ Last(s) = s[Len(s)] /\ Len(s) \in Nat \ {0}
BY DEF Last

\* What is left when it returns.
LEMMA PopType ==
    ASSUME NEW S, NEW s \in Seq(S), s # <<>>
    PROVE  /\ Front(s) \in Seq(S)
           /\ Len(Front(s)) = Len(s) - 1
           /\ \A i \in 1 .. Len(s) - 1 : Front(s)[i] = s[i]
<1>1. PICK k \in Nat : Len(s) = k + 1
  <2>1. Len(s) \in Nat \ {0}
    BY TopType
  <2>2. Len(s) - 1 \in Nat /\ Len(s) = (Len(s) - 1) + 1
    BY <2>1
  <2> QED
    BY <2>2
<1>2. Front(s) = SubSeq(s, 1, k)
  BY <1>1 DEF Front
<1>3. /\ SubSeq(s, 1, k) \in Seq(S)
      /\ Len(SubSeq(s, 1, k)) = k
      /\ \A i \in 1 .. k : SubSeq(s, 1, k)[i] = s[i]
  BY <1>1
<1> QED
  BY <1>1, <1>2, <1>3

\* The call on top goes on.
LEMMA ReplaceType ==
    ASSUME NEW S, NEW s \in Seq(S), s # <<>>, NEW x \in S
    PROVE  /\ Front(s) \o <<x>> \in Seq(S)
           /\ Len(Front(s) \o <<x>>) = Len(s)
           /\ \A i \in 1 .. Len(s) - 1 : (Front(s) \o <<x>>)[i] = s[i]
           /\ (Front(s) \o <<x>>)[Len(s)] = x
<1>1. /\ Front(s) \in Seq(S)
      /\ Len(Front(s)) = Len(s) - 1
      /\ \A i \in 1 .. Len(s) - 1 : Front(s)[i] = s[i]
  BY PopType
<1>2. Len(s) \in Nat \ {0}
  BY TopType
<1> HIDE DEF Front
<1> QED
  BY <1>1, <1>2

\* The call on top goes on and makes another.
LEMMA CallType ==
    ASSUME NEW S, NEW s \in Seq(S), s # <<>>, NEW x \in S, NEW y \in S
    PROVE  /\ Front(s) \o <<x, y>> \in Seq(S)
           /\ Len(Front(s) \o <<x, y>>) = Len(s) + 1
           /\ \A i \in 1 .. Len(s) - 1 : (Front(s) \o <<x, y>>)[i] = s[i]
           /\ (Front(s) \o <<x, y>>)[Len(s)] = x
           /\ (Front(s) \o <<x, y>>)[Len(s) + 1] = y
<1>1. /\ Front(s) \in Seq(S)
      /\ Len(Front(s)) = Len(s) - 1
      /\ \A i \in 1 .. Len(s) - 1 : Front(s)[i] = s[i]
  BY PopType
<1>2. Len(s) \in Nat \ {0}
  BY TopType
<1> HIDE DEF Front
<1> QED
  BY <1>1, <1>2
=============================================================================
