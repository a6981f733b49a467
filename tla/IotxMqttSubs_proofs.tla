------------------------- MODULE IotxMqttSubs_proofs -------------------------
(***************************************************************************)
(* Theorems about the subscriptions of the MQTT client, for every set of   *)
(* topics and handles and every number of requests and of calls that nest. *)
(***************************************************************************)
EXTENDS IotxMqttSubs, FiniteSetTheorems, SequenceTheorems, TLAPS

-----------------------------------------------------------------------------
(* Lists. *)

(* The places where the nodes that are left have been: those that stay,    *)
(* each once and in their order.                                           *)
LeftAt(list, left, at, places) ==
    /\ at \in [DOMAIN left -> places]
    /\ \A i \in places : \E k \in DOMAIN left : at[k] = i
    /\ \A j, k \in DOMAIN left : j < k <=> at[j] < at[k]
    /\ \A k \in DOMAIN left : left[k] = list[at[k]]

LEMMA LeftInOrder ==
    ASSUME NEW S, NEW list \in Seq(S), NEW places \in SUBSET (DOMAIN list),
           NEW left \in Sublist(list, places)
    PROVE  left \in Seq(S) /\ \E at : LeftAt(list, left, at, places)
<1>1. PICK at \in InOrder(places) : left = [k \in DOMAIN at |-> list[at[k]]]
  BY DEF Sublist
<1> DEFINE n == Cardinality(places)
<1>2. n \in Nat /\ DOMAIN list = 1..Len(list)
  <2>1. DOMAIN list = 1..Len(list) /\ Len(list) \in Nat
    OBVIOUS
  <2>2. IsFiniteSet(1..Len(list))
    BY <2>1, FS_Interval
  <2> QED
    BY <2>1, <2>2, FS_Subset, FS_CardinalityType
<1> HIDE DEF n
<1>3. /\ at \in [1..n -> places]
      /\ \A i \in places : \E k \in 1..n : at[k] = i
      /\ \A j, k \in 1..n : at[j] = at[k] => j = k
      /\ \A j, k \in 1..n : j < k => at[j] < at[k]
  BY DEF InOrder, Bijection, Injection, Surjection, IsInjective, n
<1>4. DOMAIN left = 1..n /\ \A k \in 1..n : left[k] = list[at[k]]
  BY <1>1, <1>3
<1>5. ASSUME NEW j \in 1..n, NEW k \in 1..n, at[j] < at[k] PROVE j < k
  <2>1. at[j] \in 1..Len(list) /\ at[k] \in 1..Len(list)
    BY <1>2, <1>3
  <2>2. ~(k < j) /\ j # k
    BY <1>3, <1>5, <2>1
  <2> QED
    BY <1>2, <2>2
<1>6. LeftAt(list, left, at, places)
  BY <1>3, <1>4, <1>5 DEF LeftAt
<1>7. left \in Seq(S)
  <2>1. left = [k \in 1..n |-> left[k]]
    BY <1>1, <1>3
  <2>2. \A k \in 1..n : left[k] \in S
    BY <1>2, <1>3, <1>4
  <2> QED
    BY <1>2, <2>1, <2>2, IsASeq
<1> QED
  BY <1>6, <1>7

(* A set of numbers that is not empty has its least. *)
LEMMA LeastOf ==
    ASSUME NEW S \in SUBSET Nat, S # {}
    PROVE  Min(S) \in S /\ \A k \in S : Min(S) =< k
<1>1. \E x \in S : \A y \in S : ~ (<<y, x>> \in OpToRel(<, Nat))
  BY NatLessThanWellFounded, WFMin
<1>2. \E x \in S : \A y \in S : x =< y
  <2>1. \A x, y \in S : ~ (<<y, x>> \in OpToRel(<, Nat)) => x =< y
    BY DEF OpToRel
  <2> QED
    BY <1>1, <2>1
<1> QED
  BY <1>2 DEF Min

(* The front and the last of a sequence. *)
LEMMA FrontAndLast ==
    ASSUME NEW S, NEW s \in Seq(S), s # <<>>
    PROVE  /\ Len(s) \in Nat \ {0} /\ Last(s) = s[Len(s)] /\ Last(s) \in S
           /\ Front(s) \in Seq(S) /\ Len(Front(s)) = Len(s) - 1
           /\ \A i \in 1..(Len(s) - 1) : Front(s)[i] = s[i]
<1>1. Len(s) \in Nat \ {0}
  BY EmptySeq
<1>2. \A i \in 1..Len(s) : s[i] \in S
  BY ElementOfSeq
<1> DEFINE n == Len(s) - 1
<1>3. n \in Int /\ 1 \in Int /\ n = Len(s) - 1 /\ n \in Nat /\ \A i \in 1..n : s[i] \in S
  BY <1>1, <1>2
<1> HIDE DEF n
<1>4. /\ SubSeq(s, 1, n) \in Seq(S)
      /\ Len(SubSeq(s, 1, n)) = IF 1 =< n THEN n - 1 + 1 ELSE 0
      /\ \A i \in 1..(n - 1 + 1) : SubSeq(s, 1, n)[i] = s[1 + i - 1]
  <2>1. \A m \in Int : (\A i \in m..n : s[i] \in S) =>
          /\ SubSeq(s, m, n) \in Seq(S)
          /\ Len(SubSeq(s, m, n)) = IF m =< n THEN n - m + 1 ELSE 0
          /\ \A i \in 1..(n - m + 1) : SubSeq(s, m, n)[i] = s[m + i - 1]
    BY <1>3, SubSeqProperties
  <2> QED
    BY <1>3, <2>1
<1>5. Last(s) = s[Len(s)] /\ s[Len(s)] \in S
  BY <1>1, <1>2 DEF Last
<1> HIDE DEF Front
<1>6. Front(s) = SubSeq(s, 1, n)
  BY <1>3 DEF Front
<1>7. ASSUME NEW i \in 1..(Len(s) - 1) PROVE Front(s)[i] = s[i]
  <2>1. i \in 1..(n - 1 + 1) /\ 1 + i - 1 = i
    BY <1>3
  <2> QED
    BY <1>4, <1>6, <2>1
<1>8. Len(Front(s)) = Len(s) - 1
  BY <1>3, <1>4, <1>6
<1> QED
  BY <1>1, <1>4, <1>5, <1>6, <1>7, <1>8

(* A node is linked at the end, unless it is linked already. *)
LEMMA Linked ==
    ASSUME NEW S, NEW s \in Seq(S), IsInjective(s), NEW e \in S, NEW t,
           t = IF e \in ToSet(s) THEN s ELSE Append(s, e)
    PROVE  /\ t \in Seq(S) /\ IsInjective(t)
           /\ \A i \in DOMAIN s : i \in DOMAIN t /\ t[i] = s[i]
<1>1. CASE e \in ToSet(s)
  BY <1>1
<1>2. CASE e \notin ToSet(s)
  <2>1. t = Append(s, e)
    BY <1>2
  <2>2. /\ t \in Seq(S) /\ Len(t) = Len(s) + 1 /\ t[Len(s) + 1] = e
        /\ \A i \in 1..Len(s) : t[i] = s[i]
    BY <2>1, AppendProperties
  <2>3. DOMAIN s = 1..Len(s) /\ DOMAIN t = 1..(Len(s) + 1) /\ Len(s) \in Nat
    BY <2>2
  <2>4. \A i \in DOMAIN s : s[i] # e
    BY <1>2 DEF ToSet
  <2>5. ASSUME NEW i \in DOMAIN t, NEW j \in DOMAIN t, t[i] = t[j] PROVE i = j
    <3>1. i = Len(s) + 1 \/ i \in DOMAIN s
      BY <2>3
    <3>2. j = Len(s) + 1 \/ j \in DOMAIN s
      BY <2>3
    <3>3. \A x, y \in DOMAIN s : s[x] = s[y] => x = y
      BY DEF IsInjective
    <3> QED
      BY <2>2, <2>3, <2>4, <2>5, <3>1, <3>2, <3>3
  <2>6. IsInjective(t)
    BY <2>5 DEF IsInjective
  <2>7. \A i \in DOMAIN s : i \in DOMAIN t /\ t[i] = s[i]
    BY <2>2, <2>3
  <2> QED
    BY <2>2, <2>6, <2>7
<1> QED
  BY <1>1, <1>2

(* What is left of a list without repetition has none. *)
LEMMA LeftInjective ==
    ASSUME NEW S, NEW list \in Seq(S), IsInjective(list),
           NEW places \in SUBSET (DOMAIN list), NEW left \in Sublist(list, places)
    PROVE  left \in Seq(S) /\ IsInjective(left)
<1>1. left \in Seq(S) /\ \E at : LeftAt(list, left, at, places)
  BY LeftInOrder
<1>2. PICK at : LeftAt(list, left, at, places)
  BY <1>1
<1>3. ASSUME NEW j \in DOMAIN left, NEW k \in DOMAIN left, left[j] = left[k]
      PROVE  j = k
  <2>1. at[j] \in DOMAIN list /\ at[k] \in DOMAIN list /\ list[at[j]] = list[at[k]]
    BY <1>2, <1>3 DEF LeftAt
  <2>2. at[j] = at[k]
    BY <2>1 DEF IsInjective
  <2>3. ~(j < k) /\ ~(k < j) /\ j \in Nat /\ k \in Nat
    <3>1. DOMAIN left = 1..Len(left) /\ DOMAIN list = 1..Len(list)
      BY <1>1
    <3>2. j \in Nat /\ k \in Nat /\ at[j] \in Nat
      BY <2>1, <3>1
    <3>3. ~(at[j] < at[k]) /\ ~(at[k] < at[j])
      BY <2>2, <3>2
    <3> QED
      BY <1>2, <3>2, <3>3 DEF LeftAt
  <2> QED
    BY <2>3
<1> QED
  BY <1>1, <1>3 DEF IsInjective

-----------------------------------------------------------------------------
(* The stack of calls and callbacks. *)

(* A callback is made from a yield of the application or of a call, and a  *)
(* call from the application or from a callback.                           *)
Alternates(s) ==
    /\ s \in Seq(Frame)
    /\ \A i \in 2..Len(s) : s[i] \in Callback <=> s[i - 1] \notin Callback

LEMMA Frames ==
    /\ Callback \subseteq Frame
    /\ \A h, id, b : Call(h, id, b) \notin Callback
    /\ \A h \in Handle : Call(h, 0, 0) \in Frame
    /\ \A h \in Handle, id \in Id, b \in 0..1 : Call(h, id, b) \in Frame
    /\ \A h, id, b : Call(h, id, b)[2] = h /\ Call(h, id, b)[3] = id /\ Call(h, id, b)[4] = b
    /\ \A e \in Frame : e \notin Callback =>
          /\ e[2] \in Handle /\ (e[3] = 0 \/ e[3] \in Id) /\ e[4] \in 0..1
          /\ e[4] = 1 => e[3] \in Id
          /\ e = Call(e[2], e[3], e[4])
<1>1. \A h, id, b : Call(h, id, b) \notin Callback
  <2>1. \A h, id, b : Len(Call(h, id, b)) = 4
    BY DEF Call
  <2>2. \A e \in Callback : Len(e) = 1
    BY DEF Callback, Lost, Back
  <2> QED
    BY <2>1, <2>2
<1>2. \A h, id, b : Call(h, id, b)[2] = h /\ Call(h, id, b)[3] = id /\ Call(h, id, b)[4] = b
  BY DEF Call
<1>3. ASSUME NEW e \in Frame, e \notin Callback
      PROVE  /\ e[2] \in Handle /\ (e[3] = 0 \/ e[3] \in Id) /\ e[4] \in 0..1
             /\ e[4] = 1 => e[3] \in Id
             /\ e = Call(e[2], e[3], e[4])
  <2>1. ASSUME NEW h \in Handle, NEW id, NEW b \in 0..1, e = Call(h, id, b)
        PROVE  e[2] = h /\ e[3] = id /\ e[4] = b /\ e = Call(e[2], e[3], e[4])
    <3>1. e[2] = h /\ e[3] = id /\ e[4] = b
      BY <1>2, <2>1
    <3>2. e = Call(e[2], e[3], e[4])
      BY <2>1, <3>1
    <3> QED
      BY <3>1, <3>2
  <2>2. \/ \E h \in Handle : e = Call(h, 0, 0)
        \/ \E h \in Handle, id \in Id, b \in 0..1 : e = Call(h, id, b)
    BY <1>3 DEF Frame
  <2>3. CASE \E h \in Handle : e = Call(h, 0, 0)
    <3>1. PICK h \in Handle : e = Call(h, 0, 0)
      BY <2>3
    <3>2. e[2] = h /\ e[3] = 0 /\ e[4] = 0 /\ e = Call(e[2], e[3], e[4])
      BY <2>1, <3>1
    <3> QED
      BY <3>2
  <2>4. CASE \E h \in Handle, id \in Id, b \in 0..1 : e = Call(h, id, b)
    <3>1. PICK h \in Handle, id \in Id, b \in 0..1 : e = Call(h, id, b)
      BY <2>4
    <3>2. e[2] = h /\ e[3] = id /\ e[4] = b /\ e = Call(e[2], e[3], e[4])
      BY <2>1, <3>1
    <3> QED
      BY <3>2
  <2> QED
    BY <2>2, <2>3, <2>4
<1>4. \A h \in Handle : Call(h, 0, 0) \in Frame
  BY DEF Frame
<1>5. \A h \in Handle, id \in Id, b \in 0..1 : Call(h, id, b) \in Frame
  BY DEF Frame
<1>6. Callback \subseteq Frame
  BY DEF Frame
<1> QED
  BY <1>1, <1>2, <1>3, <1>4, <1>5, <1>6

LEMMA Pushed ==
    ASSUME NEW s, Alternates(s), NEW e \in Frame,
           s = <<>> \/ (e \in Callback <=> Last(s) \notin Callback)
    PROVE  /\ Alternates(Append(s, e)) /\ Last(Append(s, e)) = e
           /\ Append(s, e) # <<>> /\ Len(Append(s, e)) = Len(s) + 1
           /\ \A i \in 1..Len(s) : Append(s, e)[i] = s[i]
<1> DEFINE t == Append(s, e)
<1>1. s \in Seq(Frame) /\ Len(s) \in Nat /\ (s = <<>> => Len(s) = 0)
  BY DEF Alternates
<1>2. /\ t \in Seq(Frame) /\ t # <<>> /\ Len(t) = Len(s) + 1
      /\ \A i \in 1..Len(s) : t[i] = s[i]
      /\ t[Len(s) + 1] = e
  BY <1>1, AppendProperties
<1>3. Last(t) = e
  BY <1>2 DEF Last
<1>4. ASSUME NEW i \in 2..Len(t) PROVE t[i] \in Callback <=> t[i - 1] \notin Callback
  <2>1. CASE i \in 2..Len(s)
    BY <1>1, <1>2, <2>1 DEF Alternates
  <2>2. CASE i = Len(s) + 1
    <3>1. s # <<>> /\ Last(s) = s[Len(s)] /\ Len(s) \in 1..Len(s)
      BY <1>1, <1>2, <1>4, <2>2 DEF Last
    <3>2. t[i] = e /\ t[i - 1] = Last(s)
      BY <1>1, <1>2, <2>2, <3>1
    <3> QED
      BY <3>1, <3>2
  <2> QED
    BY <1>1, <1>2, <1>4, <2>1, <2>2
<1> QED
  BY <1>2, <1>3, <1>4 DEF Alternates

LEMMA Popped ==
    ASSUME NEW s, Alternates(s), s # <<>>
    PROVE  /\ Alternates(Front(s)) /\ Last(s) \in Frame /\ Last(s) = s[Len(s)]
           /\ Len(s) \in Nat \ {0} /\ Len(Front(s)) = Len(s) - 1
           /\ \A i \in 1..(Len(s) - 1) : Front(s)[i] = s[i]
           /\ Front(s) = <<>> <=> Len(s) = 1
           /\ Front(s) # <<>> => (Last(s) \in Callback <=> Last(Front(s)) \notin Callback)
<1> DEFINE t == Front(s)
<1>1. /\ Len(s) \in Nat \ {0} /\ Last(s) = s[Len(s)] /\ Last(s) \in Frame
      /\ t \in Seq(Frame) /\ Len(t) = Len(s) - 1
      /\ \A i \in 1..(Len(s) - 1) : t[i] = s[i]
  BY FrontAndLast DEF Alternates
<1> HIDE DEF t
<1>2. t = <<>> <=> Len(s) = 1
  BY <1>1, EmptySeq
<1>3. Alternates(t)
  <2>1. ASSUME NEW i \in 2..Len(t) PROVE t[i] \in Callback <=> t[i - 1] \notin Callback
    <3>1. i \in 2..Len(s) /\ i \in 1..(Len(s) - 1) /\ i - 1 \in 1..(Len(s) - 1)
      BY <1>1
    <3> QED
      BY <1>1, <3>1 DEF Alternates
  <2> QED
    BY <1>1, <2>1 DEF Alternates
<1>4. ASSUME t # <<>> PROVE Last(s) \in Callback <=> Last(t) \notin Callback
  <2>1. Last(t) = t[Len(t)]
    BY DEF Last
  <2>2. Len(s) \in 2..Len(s) /\ Len(t) = Len(s) - 1 /\ Len(t) \in 1..(Len(s) - 1)
    BY <1>1, <1>2, <1>4
  <2>3. s[Len(s)] \in Callback <=> s[Len(s) - 1] \notin Callback
    BY <2>2 DEF Alternates
  <2> QED
    BY <1>1, <2>1, <2>2, <2>3
<1> QED
  BY <1>1, <1>2, <1>3, <1>4 DEF t

(* The call on top is put back with its request. *)
LEMMA Replaced ==
    ASSUME NEW s, Alternates(s), s # <<>>, Last(s) \notin Callback, NEW e \in Frame, e \notin Callback
    PROVE  LET t == Append(Front(s), e)
           IN  /\ Alternates(t) /\ t # <<>> /\ Last(t) = e
               /\ Len(t) = Len(s)
               /\ \A i \in 1..(Len(s) - 1) : t[i] = s[i]
<1>1. /\ Alternates(Front(s)) /\ Len(s) \in Nat \ {0} /\ Len(Front(s)) = Len(s) - 1
      /\ \A i \in 1..(Len(s) - 1) : Front(s)[i] = s[i]
      /\ Front(s) # <<>> => Last(Front(s)) \in Callback
  BY Popped
<1>2. Front(s) = <<>> \/ (e \in Callback <=> Last(Front(s)) \notin Callback)
  BY <1>1
<1>3. /\ Alternates(Append(Front(s), e)) /\ Last(Append(Front(s), e)) = e
      /\ Append(Front(s), e) # <<>> /\ Len(Append(Front(s), e)) = Len(Front(s)) + 1
      /\ \A i \in 1..Len(Front(s)) : Append(Front(s), e)[i] = Front(s)[i]
  BY <1>1, <1>2, Pushed
<1> QED
  BY <1>1, <1>3

-----------------------------------------------------------------------------
(* Types.  A callback has its frame on top while it runs, and the          *)
(* application runs when nothing waits.                                    *)
StackOK ==
    /\ Alternates(stack) /\ phase \in Phase
    /\ phase = "app" => stack = <<>>
    /\ phase = "callback" => stack # <<>> /\ Top \in Callback
    /\ phase # "callback" => stack = <<>> \/ Top \notin Callback
    /\ phase \in {"sync", "check"} => stack # <<>>

(* What TypeOK says of the rest. *)
RestOK ==
    /\ conn \in {"up", "down", "retry"}
    /\ packet_id \in 0..MaxRequests
    /\ subs \in Seq(Handle) /\ IsInjective(subs)
    /\ waits \in Seq([id : Id, ack : {"none", "yes", "no"}])
    /\ acks \subseteq Id \X {"yes", "no"}
    /\ topic \in Topic \cup {NULL} /\ cursor \in Handle \cup {NULL}
    /\ freed \in BOOLEAN /\ due \subseteq Handle
    /\ result \in 0..MaxRequests /\ granted \subseteq Id /\ forged \subseteq Id

LEMMA TypeParts == StackOK /\ RestOK => TypeOK
  BY DEF StackOK, RestOK, TypeOK, Alternates

(* What a call on top is. *)
LEMMA CallOnTop ==
    ASSUME StackOK, phase \in {"sync", "check"}
    PROVE  /\ stack # <<>> /\ Top \notin Callback /\ Top = stack[Len(stack)]
           /\ Len(stack) \in Nat \ {0} /\ Alternates(stack) /\ Last(stack) \notin Callback
           /\ Top[2] \in Handle /\ (Top[3] = 0 \/ Top[3] \in Id) /\ Top[4] \in 0..1
           /\ Top[4] = 1 => Top[3] \in Id
           /\ Top = Call(Top[2], Top[3], Top[4])
<1>1. stack # <<>> /\ Top \notin Callback /\ Alternates(stack)
  BY DEF StackOK
<1>2. Top \in Frame /\ Top = stack[Len(stack)] /\ Len(stack) \in Nat \ {0}
  BY <1>1, Popped DEF Top
<1> QED
  BY <1>1, <1>2, Frames DEF Top

(* A call that returns leaves the application or a callback running. *)
LEMMA StackReturns ==
    ASSUME StackOK, phase \in {"sync", "check"}, NEW id, Return(id)
    PROVE  StackOK'
<1>1. stack # <<>> /\ Top \notin Callback /\ Alternates(stack)
  BY DEF StackOK
<1>2. /\ Alternates(Front(stack))
      /\ Front(stack) = <<>> <=> Len(stack) = 1
      /\ Front(stack) # <<>> => Last(Front(stack)) \in Callback
  BY <1>1, Popped DEF Top
<1>3. stack' = Front(stack) /\ phase' = IF Len(stack) = 1 THEN "app" ELSE "callback"
  BY DEF Return
<1> QED
  BY <1>2, <1>3 DEF StackOK, Top, Phase

(* The call on top is put back: with a request, a node, or neither. *)
LEMMA CallPutBack ==
    ASSUME StackOK, phase \in {"sync", "check"},
           NEW e \in Frame, e \notin Callback, stack' = Append(Front(stack), e),
           phase' \in {"sync", "keep"}
    PROVE  StackOK'
<1>1. stack # <<>> /\ Last(stack) \notin Callback /\ Alternates(stack)
  BY CallOnTop
<1>2. Alternates(stack') /\ stack' # <<>> /\ Last(stack') = e
  BY <1>1, Replaced
<1> QED
  BY <1>2 DEF StackOK, Top, Phase

(* The call has a node for its request, or does without. *)
LEMMA Waiting ==
    ASSUME StackOK, phase = "sync", NEW id \in Id, WaitFor(id)
    PROVE  /\ \E b \in 0..1 : /\ Call(Top[2], id, b) \in Frame
                                 /\ stack' = Append(Front(stack), Call(Top[2], id, b))
           /\ waits' = waits \/ waits' = Append(waits, [id |-> id, ack |-> "none"])
<1>1. Top[2] \in Handle
  BY CallOnTop
<1>2. \A b \in 0..1 : Call(Top[2], id, b) \in Frame
  BY <1>1, Frames
<1> QED
  BY <1>2 DEF WaitFor

LEMMA StackStep ==
    ASSUME SubsAssumption, StackOK, RestOK, [Next]_vars
    PROVE  StackOK'
<1> USE DEF Phase
<1>1. ASSUME UNCHANGED <<stack, phase>> PROVE StackOK'
  BY <1>1 DEF StackOK, Top
<1>2. CASE UNCHANGED vars
  BY <1>1, <1>2 DEF vars
<1>3. ASSUME NEW h \in Handle, Subscribe(h) PROVE StackOK'
  BY <1>1, <1>3 DEF Subscribe
<1>4. ASSUME NEW h \in Handle, SyncCall(h) PROVE StackOK'
  <2> DEFINE c == Call(h, 0, 0)
  <2>1. phase \in {"app", "callback"} /\ stack' = Append(stack, c) /\ phase' = "sync"
    BY <1>4 DEF SyncCall
  <2>2. c \in Frame /\ c \notin Callback
    BY Frames
  <2> HIDE DEF c
  <2>3. Alternates(stack) /\ (stack = <<>> \/ Last(stack) \in Callback)
    BY <2>1 DEF StackOK, Top
  <2>4. Alternates(stack') /\ stack' # <<>> /\ Last(stack') = c
    BY <2>1, <2>2, <2>3, Pushed
  <2> QED
    BY <2>1, <2>2, <2>4 DEF StackOK, Top
<1>5. ASSUME NEW f \in Filter, UnsubscribeSent(f) PROVE StackOK'
  BY <1>1, <1>5 DEF UnsubscribeSent
<1>6. CASE UnsubscribeFails
  BY <1>1, <1>6 DEF UnsubscribeFails
<1>7. ASSUME phase = "sync", phase' = "keep", NEW id \in Id, WaitFor(id) PROVE StackOK'
  <2>1. PICK b \in 0..1 : /\ Call(Top[2], id, b) \in Frame
                             /\ stack' = Append(Front(stack), Call(Top[2], id, b))
    BY <1>7, Waiting
  <2>2. Call(Top[2], id, b) \notin Callback
    BY Frames
  <2> QED
    BY <1>7, <2>1, <2>2, CallPutBack
<1>8. CASE SyncSubscribe
  <2>1. /\ phase = "sync" /\ phase' = "keep" /\ TakeId
        /\ WaitFor(packet_id') \/ stack' = stack
    BY <1>8 DEF SyncSubscribe
  <2>2. CASE stack' = stack
    BY <2>1, <2>2 DEF StackOK, Top
  <2>3. packet_id' \in Id
    BY <2>1 DEF RestOK, TakeId, SubsAssumption, Id
  <2> QED
    BY <1>7, <2>1, <2>2, <2>3
<1>9. CASE SyncWaits
  <2>1. phase = "sync" /\ phase' = "keep" /\ Top[3] # 0 /\ WaitFor(Top[3])
    BY <1>9 DEF SyncWaits
  <2>2. Top[3] \in Id
    BY <2>1, CallOnTop
  <2> QED
    BY <1>7, <2>1, <2>2
<1>10. CASE SyncYields
  BY <1>10 DEF SyncYields, StackOK, Top
<1>11. CASE CheckGranted
  BY <1>11, StackReturns DEF CheckGranted
<1>12. CASE CheckRefused
  <2> DEFINE c == Call(Top[2], 0, 0)
  <2>1. phase = "check"
    BY <1>12 DEF CheckRefused
  <2>2. CASE Return(0)
    BY <2>1, <2>2, StackReturns
  <2>3. c \in Frame /\ c \notin Callback
    BY <2>1, CallOnTop, Frames
  <2>4. CASE stack' = Append(Front(stack), c) /\ phase' = "sync"
    <3> HIDE DEF c
    <3> QED
      BY <2>1, <2>3, <2>4, CallPutBack
  <2> QED
    BY <1>12, <2>2, <2>4 DEF CheckRefused
<1>13. CASE CheckOpen
  <2>1. phase = "check" /\ (TimeOut \/ (phase' = "sync" /\ stack' = stack))
    BY <1>13 DEF CheckOpen
  <2>2. CASE TimeOut
    BY <2>1, <2>2, StackReturns DEF TimeOut
  <2>3. CASE phase' = "sync" /\ stack' = stack
    BY <2>1, <2>3 DEF StackOK, Top
  <2> QED
    BY <2>1, <2>2, <2>3
<1>14. CASE Yield
  BY <1>14 DEF Yield, StackOK, Top
<1>15. CASE KeepAlive
  BY <1>15 DEF KeepAlive, StackOK, Top
<1>16. CASE KeepLoses \/ KeepReconnects
  <2>1. phase = "keep" /\ phase' = "callback"
        /\ \E e \in Callback : stack' = Append(stack, e)
    BY <1>16 DEF KeepLoses, KeepReconnects, Callback
  <2>2. PICK e \in Callback : stack' = Append(stack, e)
    BY <2>1
  <2>3. Alternates(stack) /\ (stack = <<>> \/ Last(stack) \notin Callback)
    BY <2>1 DEF StackOK, Top
  <2>4. Alternates(stack') /\ stack' # <<>> /\ Last(stack') = e
    BY <2>2, <2>3, Frames, Pushed
  <2> QED
    BY <2>1, <2>4 DEF StackOK, Top
<1>17. CASE LostReturns \/ BackReturns
  <2>1. phase = "callback" /\ stack' = Front(stack) /\ phase' = "cycle"
    BY <1>17 DEF LostReturns, BackReturns
  <2>2. Alternates(stack) /\ stack # <<>> /\ Last(stack) \in Callback
    BY <2>1 DEF StackOK, Top
  <2>3. Alternates(Front(stack)) /\ (Front(stack) # <<>> => Last(Front(stack)) \notin Callback)
    BY <2>2, Popped
  <2> QED
    BY <2>1, <2>3 DEF StackOK, Top
<1>18. ASSUME Ended, stack' = stack, phase \in {"cycle", "handler"} PROVE StackOK'
  <2>1. phase' \in {"cycle", IF stack = <<>> THEN "app" ELSE "check"}
    BY <1>18 DEF Ended
  <2> QED
    BY <1>18, <2>1 DEF StackOK, Top
<1>19. CASE CycleNothing \/ CyclePartial
  BY <1>18, <1>19 DEF CycleNothing, CyclePartial
<1>20. CASE CycleSuback \/ CycleGarbage
  BY <1>20 DEF CycleSuback, CycleGarbage, StackOK, Top
<1>21. CASE HandlerReturns
  <2>1. phase = "handler" /\ stack' = stack
    BY <1>21 DEF HandlerReturns
  <2>2. Ended \/ phase' = "undefined" \/ phase' = phase
    BY <1>21 DEF HandlerReturns
  <2> QED
    BY <1>18, <2>1, <2>2 DEF StackOK, Top
<1>22. ASSUME NEW t \in Topic, CycleMessage(t) PROVE StackOK'
  BY <1>22 DEF CycleMessage, StackOK, Top
<1> QED
  BY <1>2, <1>3, <1>4, <1>5, <1>6, <1>8, <1>9, <1>10, <1>11, <1>12, <1>13, <1>14,
     <1>15, <1>16, <1>17, <1>19, <1>20, <1>21, <1>22 DEF Next

(* A request that is sent, or is not. *)
LEMMA SentTypes ==
    ASSUME SubsAssumption, RestOK, TakeId, NEW h \in Handle, Sent(h) \/ NotSent
    PROVE  /\ packet_id' \in Id /\ packet_id' = packet_id + 1
           /\ conn' \in {"up", "down", "retry"}
           /\ subs' \in Seq(Handle) /\ IsInjective(subs)'
           /\ \A i \in DOMAIN subs : i \in DOMAIN subs' /\ subs'[i] = subs[i]
           /\ acks' \subseteq Id \X {"yes", "no"} /\ granted' \subseteq Id
<1>1. packet_id' \in Id /\ packet_id' = packet_id + 1
  BY DEF RestOK, TakeId, SubsAssumption, Id
<1>2. CASE Sent(h)
  <2>1. conn' = "up"
    BY <1>2 DEF Sent
  <2>2. subs' = IF h \in ToSet(subs) THEN subs ELSE Append(subs, h)
    BY <1>2 DEF Sent, Link
  <2>3. subs \in Seq(Handle) /\ IsInjective(subs)
    BY DEF RestOK
  <2>4. /\ subs' \in Seq(Handle) /\ IsInjective(subs')
        /\ \A i \in DOMAIN subs : i \in DOMAIN subs' /\ subs'[i] = subs[i]
    <3>1. \A t : t = (IF h \in ToSet(subs) THEN subs ELSE Append(subs, h)) =>
            /\ t \in Seq(Handle) /\ IsInjective(t)
            /\ \A i \in DOMAIN subs : i \in DOMAIN t /\ t[i] = subs[i]
      BY <2>3, Linked
    <3> QED
      BY <2>2, <3>1
  <2>5. /\ acks' \in {acks \cup {<<packet_id', "yes">>}, acks \cup {<<packet_id', "no">>}, acks}
        /\ granted' \in {granted \cup {packet_id'}, granted}
    BY <1>2 DEF Sent
  <2>6. acks' \subseteq Id \X {"yes", "no"} /\ granted' \subseteq Id
    BY <1>1, <2>5 DEF RestOK
  <2> QED
    BY <1>1, <2>1, <2>4, <2>6 DEF RestOK, IsInjective
<1>3. CASE NotSent
  <2>1. /\ conn' \in {"down", conn} /\ subs' = subs /\ acks' = acks
        /\ granted' = granted
    BY <1>3 DEF NotSent, MayGoDown
  <2> QED
    BY <1>1, <2>1 DEF RestOK, IsInjective
<1> QED
  BY <1>2, <1>3

(* A node that waits, marked or not. *)
Node == [id : Id, ack : {"none", "yes", "no"}]

LEMMA Marked ==
    ASSUME waits \in Seq(Node), NEW id, NEW a \in {"yes", "no"}, Mark(id, a)
    PROVE  /\ waits' \in Seq(Node) /\ DOMAIN waits' = DOMAIN waits
           /\ \A i \in DOMAIN waits :
                 /\ waits'[i].id = waits[i].id
                 /\ waits'[i].ack = IF waits[i].id = id THEN a ELSE waits[i].ack
<1>1. waits' = [i \in DOMAIN waits |-> IF waits[i].id = id
                                       THEN [waits[i] EXCEPT !.ack = a]
                                       ELSE waits[i]]
  BY DEF Mark
<1>2. DOMAIN waits = 1..Len(waits) /\ Len(waits) \in Nat
      /\ \A i \in DOMAIN waits : waits[i] \in Node
  OBVIOUS
<1>3. \A i \in DOMAIN waits :
        /\ waits'[i] \in Node /\ waits'[i].id = waits[i].id
        /\ waits'[i].ack = IF waits[i].id = id THEN a ELSE waits[i].ack
  BY <1>1, <1>2 DEF Node
<1>4. DOMAIN waits' = DOMAIN waits
  BY <1>1
<1>5. waits' \in Seq(Node)
  <2>1. waits' = [i \in 1..Len(waits) |-> waits'[i]]
    BY <1>1, <1>2
  <2> QED
    BY <1>2, <1>3, <2>1, IsASeq
<1> QED
  BY <1>3, <1>4, <1>5

(* The first match, from a place on. *)
LEMMA FirstMatch ==
    ASSUME subs \in Seq(Handle), NEW i \in Nat \ {0}, NEW t
    PROVE  \/ /\ Match(i, t) = NULL
              /\ \A k \in i..Len(subs) : ~Matches(subs[k][1], t)
           \/ \E m \in i..Len(subs) :
                 /\ Match(i, t) = subs[m] /\ Match(i, t) \in Handle
                 /\ Matches(subs[m][1], t) /\ m \in DOMAIN subs
                 /\ \A k \in i..Len(subs) : Matches(subs[k][1], t) => m =< k
<1> DEFINE hits == {k \in i..Len(subs) : Matches(subs[k][1], t)}
<1>1. Match(i, t) = IF hits = {} THEN NULL ELSE subs[Min(hits)]
  BY DEF Match
<1>2. CASE hits = {}
  BY <1>1, <1>2
<1>3. CASE hits # {}
  <2>1. hits \in SUBSET Nat
    OBVIOUS
  <2> DEFINE m == Min(hits)
  <2>2. m \in hits /\ \A k \in hits : m =< k
    BY <1>3, <2>1, LeastOf
  <2>3. m \in i..Len(subs) /\ m \in DOMAIN subs /\ subs[m] \in Handle
    BY <2>2
  <2>4. Match(i, t) = subs[m]
    BY <1>1, <1>3
  <2> QED
    BY <2>2, <2>3, <2>4
<1> QED
  BY <1>2, <1>3

(* A handle of a list, with others behind it that match.                   *)
Ahead(list, h, others, t) ==
    \E p \in DOMAIN list :
       /\ list[p] = h
       /\ \A o \in others : /\ Matches(o[1], t)
                            /\ \E q \in DOMAIN list : q > p /\ list[q] = o

(* The walk.  While its handle is linked, what is due sits behind it.      *)
DueIsAhead ==
    /\ phase \notin {"handler", "undefined"} => cursor = NULL
    /\ cursor = NULL => due = {}
    /\ phase = "handler" /\ cursor # NULL /\ ~freed => Ahead(subs, cursor, due, topic)

LEMMA PlaceOf ==
    ASSUME RestOK, NEW p \in DOMAIN subs
    PROVE  Place(subs[p]) = p
<1>1. \A i \in DOMAIN subs : subs[i] = subs[p] => i = p
  BY DEF RestOK, IsInjective
<1> QED
  BY <1>1 DEF Place

(* The next handle of the walk, or none. *)
LEMMA NextMatch ==
    ASSUME RestOK, NEW p \in DOMAIN subs, cursor = subs[p]
    PROVE  LET h == Match(Place(cursor) + 1, topic)
           IN  \/ /\ h = NULL
                  /\ \A k \in DOMAIN subs : k > p => ~Matches(subs[k][1], topic)
               \/ \E m \in DOMAIN subs :
                     /\ m > p /\ h = subs[m] /\ h \in Handle
                     /\ \A k \in DOMAIN subs :
                           k > p /\ Matches(subs[k][1], topic) => m =< k
<1>1. Place(cursor) = p
  BY PlaceOf
<1>2. subs \in Seq(Handle) /\ p + 1 \in Nat \ {0} /\ p \in Nat /\ Len(subs) \in Nat
      /\ DOMAIN subs = 1..Len(subs)
  BY DEF RestOK
<1>3. \/ /\ Match(p + 1, topic) = NULL
         /\ \A k \in (p + 1)..Len(subs) : ~Matches(subs[k][1], topic)
      \/ \E m \in (p + 1)..Len(subs) :
            /\ Match(p + 1, topic) = subs[m] /\ Match(p + 1, topic) \in Handle
            /\ Matches(subs[m][1], topic) /\ m \in DOMAIN subs
            /\ \A k \in (p + 1)..Len(subs) : Matches(subs[k][1], topic) => m =< k
  BY <1>2, FirstMatch
<1>4. \A k \in DOMAIN subs : k > p => k \in (p + 1)..Len(subs)
  BY <1>2
<1>5. \A m \in (p + 1)..Len(subs) : m > p
  BY <1>2
<1> QED
  BY <1>1, <1>3, <1>4, <1>5

LEMMA RestStep ==
    ASSUME SubsAssumption, StackOK, RestOK, DueIsAhead, [Next]_vars
    PROVE  RestOK'
<1> USE DEF Node
<1>t. waits \in Seq(Node) /\ subs \in Seq(Handle)
  BY DEF RestOK
<1>1. ASSUME UNCHANGED <<packet_id, subs, walk, told>>,
             conn' \in {"up", "down", "retry"}, acks' \subseteq acks,
             waits' \in Seq(Node), result' \in 0..MaxRequests
      PROVE  RestOK'
  BY <1>1 DEF RestOK, walk, told, IsInjective
<1>2. CASE UNCHANGED vars
  BY <1>1, <1>2, <1>t DEF vars, RestOK
<1>3. ASSUME NEW h \in Handle, Subscribe(h) PROVE RestOK'
  <2>1. TakeId /\ (Sent(h) \/ NotSent) /\ UNCHANGED <<waits, walk, result, forged>>
    BY <1>3 DEF Subscribe
  <2>2. /\ packet_id' \in Id /\ conn' \in {"up", "down", "retry"}
        /\ subs' \in Seq(Handle) /\ IsInjective(subs)'
        /\ acks' \subseteq Id \X {"yes", "no"} /\ granted' \subseteq Id
    BY <2>1, SentTypes
  <2> QED
    BY <2>1, <2>2 DEF RestOK, walk, Id
<1>4. ASSUME NEW h \in Handle, SyncCall(h) PROVE RestOK'
  BY <1>1, <1>4, <1>t, SubsAssumption DEF SyncCall, SubsAssumption, RestOK
<1>5. ASSUME NEW f \in Filter, UnsubscribeSent(f) PROVE RestOK'
  <2> DEFINE stay == {i \in DOMAIN subs : ~MatchesPadded(subs[i][1], f)}
  <2>1. /\ packet_id' \in 0..MaxRequests
        /\ UNCHANGED <<conn, waits, acks, topic, cursor, result, granted, forged>>
    BY <1>5, SubsAssumption
       DEF UnsubscribeSent, told, TakeId, RestOK, SubsAssumption
  <2>2. subs' \in Sublist(subs, stay)
    BY <1>5 DEF UnsubscribeSent
  <2>3. stay \in SUBSET (DOMAIN subs)
    OBVIOUS
  <2> HIDE DEF stay
  <2>4. IsInjective(subs)
    BY DEF RestOK
  <2>5. subs' \in Seq(Handle) /\ IsInjective(subs')
    BY <1>t, <2>2, <2>3, <2>4, LeftInjective
  <2>6. due' \subseteq Handle /\ freed' \in BOOLEAN
    <3>1. due' = due \cap ToSet(subs')
      BY <1>5 DEF UnsubscribeSent
    <3>2. freed' = (freed \/ (cursor # NULL /\ MatchesPadded(cursor[1], f)))
      BY <1>5 DEF UnsubscribeSent
    <3>3. freed' \in BOOLEAN
      BY <3>2
    <3> QED
      BY <3>1, <3>3 DEF RestOK
  <2> QED
    BY <2>1, <2>5, <2>6 DEF RestOK, IsInjective
<1>6. CASE UnsubscribeFails
  <2>1. TakeId /\ NotSent /\ UNCHANGED <<waits, walk, result, forged>>
    BY <1>6 DEF UnsubscribeFails
  <2>2. /\ packet_id' \in 0..MaxRequests /\ conn' \in {"down", conn} /\ subs' = subs
        /\ acks' = acks /\ granted' = granted
    BY <2>1, SubsAssumption DEF TakeId, NotSent, MayGoDown, RestOK, SubsAssumption
  <2> QED
    BY <2>1, <2>2 DEF RestOK, walk, IsInjective
<1>7. ASSUME phase = "sync", NEW id \in Id, WaitFor(id) PROVE waits' \in Seq(Node)
  <2>1. waits' = waits \/ waits' = Append(waits, [id |-> id, ack |-> "none"])
    BY <1>7, Waiting
  <2>2. [id |-> id, ack |-> "none"] \in Node
    OBVIOUS
  <2>3. Append(waits, [id |-> id, ack |-> "none"]) \in Seq(Node)
    BY <1>t, <2>2, AppendProperties
  <2> QED
    BY <1>t, <2>1, <2>3
<1>8. CASE SyncSubscribe
  <2>1. /\ phase = "sync" /\ Top[2] \in Handle /\ TakeId /\ UNCHANGED <<walk, result, forged>>
        /\ Sent(Top[2]) \/ NotSent
        /\ WaitFor(packet_id') \/ waits' = waits
    BY <1>8, CallOnTop DEF SyncSubscribe
  <2>2. /\ packet_id' \in Id /\ conn' \in {"up", "down", "retry"}
        /\ subs' \in Seq(Handle) /\ IsInjective(subs)'
        /\ acks' \subseteq Id \X {"yes", "no"} /\ granted' \subseteq Id
    BY <2>1, SentTypes
  <2>3. waits' \in Seq(Node)
    BY <1>7, <1>t, <2>1, <2>2
  <2> QED
    BY <2>1, <2>2, <2>3 DEF RestOK, walk, Id
<1>w. CASE SyncWaits
  <2>1. /\ phase = "sync" /\ Top[3] # 0 /\ WaitFor(Top[3])
        /\ UNCHANGED <<conn, packet_id, subs, acks, walk, result, told>>
    BY <1>w DEF SyncWaits
  <2>2. Top[3] \in Id
    BY <2>1, CallOnTop
  <2>3. waits' \in Seq(Node)
    BY <1>7, <2>1, <2>2
  <2> QED
    BY <1>1, <2>1, <2>3 DEF RestOK
<1>y. CASE SyncYields
  BY <1>1, <1>y, <1>t DEF SyncYields, RestOK
<1>9. ASSUME phase = "check" PROVE Top[3] \in 0..MaxRequests /\ 0 \in 0..MaxRequests
  BY <1>9, CallOnTop, SubsAssumption DEF SubsAssumption, Id
<1>10. CASE CheckGranted
  <2>1. /\ waits' = Tail(waits) /\ waits # <<>> /\ result' = Top[3] /\ phase = "check"
        /\ UNCHANGED <<conn, packet_id, subs, acks, walk, told>>
    BY <1>10 DEF CheckGranted, Return, Answer
  <2>2. Tail(waits) \in Seq(Node)
    BY <1>t, <2>1
  <2> QED
    BY <1>1, <1>9, <2>1, <2>2 DEF RestOK
<1>11. CASE CheckRefused
  <2>1. /\ waits' = Tail(waits) /\ waits # <<>> /\ phase = "check"
        /\ result' \in {0, result}
        /\ UNCHANGED <<conn, packet_id, subs, acks, walk, told>>
    BY <1>11 DEF CheckRefused, Return, Answer
  <2>2. Tail(waits) \in Seq(Node)
    BY <1>t, <2>1
  <2> QED
    BY <1>1, <1>9, <2>1, <2>2 DEF RestOK
<1>12. CASE CheckOpen
  <2>1. /\ phase = "check"
        /\ UNCHANGED <<conn, packet_id, subs, acks, walk, told>>
        /\ TimeOut \/ (waits' = waits /\ result' = result)
    BY <1>12 DEF CheckOpen
  <2>2. CASE TimeOut
    <3> DEFINE others == {i \in DOMAIN waits : waits[i].id # Top[3]}
    <3>1. waits' \in Sublist(waits, others) /\ result' = 0
      BY <2>2 DEF TimeOut, Return
    <3>2. others \in SUBSET (DOMAIN waits)
      OBVIOUS
    <3> HIDE DEF others
    <3>3. waits' \in Seq(Node)
      BY <1>t, <3>1, <3>2, LeftInOrder
    <3> QED
      BY <1>1, <1>9, <2>1, <3>1, <3>3 DEF RestOK
  <2> QED
    BY <1>1, <1>t, <2>1, <2>2 DEF RestOK
<1>13. CASE Yield
  BY <1>1, <1>13, <1>t DEF Yield, RestOK
<1>14. CASE KeepAlive \/ KeepLoses
  BY <1>1, <1>14, <1>t DEF KeepAlive, KeepLoses, RestOK
<1>15. CASE KeepReconnects \/ LostReturns
  BY <1>1, <1>15, <1>t DEF KeepReconnects, LostReturns, RestOK
<1>16. CASE BackReturns
  BY <1>1, <1>16, <1>t DEF BackReturns, RestOK
<1>17. CASE CycleNothing \/ CyclePartial
  <2>1. /\ conn' \in {conn, "down"} /\ acks' \subseteq acks
        /\ topic' = NULL /\ cursor' = NULL /\ freed' = FALSE /\ due' = {}
        /\ UNCHANGED <<packet_id, subs, waits, result, granted, forged>>
    BY <1>17 DEF CycleNothing, CyclePartial, MayGoDown, Ended, told
  <2> QED
    BY <2>1 DEF RestOK, IsInjective
<1>m. ASSUME NEW id \in Id, NEW a \in {"yes", "no"}, Mark(id, a),
             acks' \subseteq acks, forged' \subseteq Id, MayGoDown,
             UNCHANGED <<packet_id, subs, walk, result, granted>>
      PROVE  RestOK'
  <2>1. waits' \in Seq(Node)
    BY <1>t, <1>m, Marked
  <2>2. conn' \in {conn, "down"}
    BY <1>m DEF MayGoDown
  <2> QED
    BY <1>m, <2>1, <2>2 DEF RestOK, walk, IsInjective
<1>18. CASE CycleSuback
  <2>1. MayGoDown /\ UNCHANGED <<packet_id, subs, walk, result, granted>>
    BY <1>18 DEF CycleSuback
  <2>2. PICK a \in acks :
          acks' = acks \ {a} /\ Mark(a[1], a[2]) /\ forged' = forged \ {a[1]}
    BY <1>18 DEF CycleSuback
  <2>3. a[1] \in Id /\ a[2] \in {"yes", "no"} /\ acks' \subseteq acks /\ forged' \subseteq Id
    BY <2>2 DEF RestOK
  <2> QED
    BY <1>m, <2>1, <2>2, <2>3
<1>g. CASE CycleGarbage
  <2>1. MayGoDown /\ UNCHANGED <<packet_id, subs, acks, walk, result, granted>>
    BY <1>g DEF CycleGarbage
  <2>2. PICK id \in Id, a \in {"yes", "no"} :
          Mark(id, a) /\ forged' = forged \cup {waits[i].id : i \in NodesOf(id)}
    BY <1>g DEF CycleGarbage
  <2>3. forged' \subseteq Id
    BY <2>2 DEF NodesOf, RestOK
  <2> QED
    BY <1>m, <2>1, <2>2, <2>3
<1>19. CASE HandlerReturns
  <2>1. UNCHANGED <<conn, packet_id, subs, waits, acks, result, granted, forged>>
    BY <1>19 DEF HandlerReturns, told
  <2>2. \/ Ended
        \/ UNCHANGED walk
        \/ \E h : /\ phase = "handler" /\ cursor # NULL /\ ~freed
                  /\ h = Match(Place(cursor) + 1, topic) /\ h # NULL
                  /\ cursor' = h /\ due' = due \ {h} /\ UNCHANGED <<topic, freed>>
    BY <1>19 DEF HandlerReturns
  <2>3. CASE Ended
    BY <2>1, <2>3 DEF Ended, RestOK, IsInjective
  <2>4. CASE UNCHANGED walk
    BY <1>1, <1>t, <2>1, <2>4 DEF RestOK, told
  <2>5. ASSUME phase = "handler", cursor # NULL, ~freed,
               NEW h, h = Match(Place(cursor) + 1, topic), h # NULL,
               cursor' = h, due' = due \ {h}, UNCHANGED <<topic, freed>>
        PROVE  RestOK'
    <3>1. PICK p \in DOMAIN subs : subs[p] = cursor
      BY <2>5 DEF DueIsAhead, Ahead
    <3>2. h \in Handle
      BY <2>5, <3>1, NextMatch
    <3> QED
      BY <2>1, <2>5, <3>2 DEF RestOK, IsInjective
  <2> QED
    BY <2>2, <2>3, <2>4, <2>5
<1>20. ASSUME NEW t \in Topic, CycleMessage(t) PROVE RestOK'
  <2>1. /\ topic' = t /\ cursor' = Match(1, t) /\ freed' = FALSE
        /\ due' = {h \in ToSet(subs) \ {cursor'} : Matches(h[1], t)}
        /\ UNCHANGED <<packet_id, subs, waits, acks, result, granted, forged>>
        /\ conn' \in {conn, "down"}
    BY <1>20 DEF CycleMessage, MayGoDown, told
  <2>2. ToSet(subs) \subseteq Handle
    BY <1>t DEF ToSet
  <2>3. cursor' \in Handle \cup {NULL}
    BY <1>t, <2>1, FirstMatch
  <2>4. due' \subseteq Handle
    BY <2>1, <2>2
  <2> QED
    BY <2>1, <2>3, <2>4 DEF RestOK, IsInjective
<1> QED
  BY <1>2, <1>3, <1>4, <1>5, <1>6, <1>8, <1>w, <1>y, <1>10, <1>11, <1>12, <1>13,
     <1>14, <1>15, <1>16, <1>17, <1>18, <1>g, <1>19, <1>20 DEF Next

-----------------------------------------------------------------------------
(* The walk over the handlers. *)

(* Handles linked meanwhile change nothing, *)
LEMMA AheadAfterLink ==
    ASSUME NEW list, NEW longer, NEW h, NEW others, NEW t, Ahead(list, h, others, t),
           \A i \in DOMAIN list : i \in DOMAIN longer /\ longer[i] = list[i]
    PROVE  Ahead(longer, h, others, t)
  BY DEF Ahead

(* nor do those unlinked, as long as the handle itself stays. *)
LEMMA AheadAfterUnlink ==
    ASSUME NEW list \in Seq(Handle), IsInjective(list), NEW h, NEW others, NEW t,
           Ahead(list, h, others, t),
           NEW places \in SUBSET (DOMAIN list), NEW left \in Sublist(list, places),
           \A i \in DOMAIN list : list[i] = h => i \in places
    PROVE  Ahead(left, h, others \cap ToSet(left), t)
<1>1. \E at : LeftAt(list, left, at, places)
  BY LeftInOrder
<1>2. PICK at : LeftAt(list, left, at, places)
  BY <1>1
<1>3. PICK p \in DOMAIN list :
        /\ list[p] = h
        /\ \A o \in others : /\ Matches(o[1], t)
                             /\ \E q \in DOMAIN list : q > p /\ list[q] = o
  BY DEF Ahead
<1>4. PICK j \in DOMAIN left : at[j] = p
  BY <1>2, <1>3 DEF LeftAt
<1>5. left[j] = h
  BY <1>2, <1>3, <1>4 DEF LeftAt
<1>6. ASSUME NEW o \in others \cap ToSet(left)
      PROVE  Matches(o[1], t) /\ \E k \in DOMAIN left : k > j /\ left[k] = o
  <2>1. PICK k \in DOMAIN left : left[k] = o
    BY DEF ToSet
  <2>2. PICK q \in DOMAIN list : q > p /\ list[q] = o
    BY <1>3, <1>6
  <2>3. at[k] \in DOMAIN list /\ list[at[k]] = o
    BY <1>2, <2>1 DEF LeftAt
  <2>4. at[k] = q
    BY <2>2, <2>3 DEF IsInjective
  <2>5. at[j] < at[k]
    BY <1>4, <2>2, <2>4
  <2>6. j < k
    BY <1>2, <2>5 DEF LeftAt
  <2>7. k > j
    BY <2>6
  <2> QED
    BY <1>3, <1>6, <2>1, <2>7
<1> QED
  BY <1>5, <1>6 DEF Ahead

LEMMA DueStep ==
    ASSUME SubsAssumption, StackOK, RestOK, DueIsAhead, [Next]_vars
    PROVE  DueIsAhead'
<1>0. subs \in Seq(Handle) /\ IsInjective(subs)
  BY DEF RestOK
<1>1. CASE UNCHANGED vars
  BY <1>1 DEF vars, walk, DueIsAhead
<1>2. ASSUME phase \notin {"handler", "undefined"}, phase' # "handler", phase' # "undefined",
             UNCHANGED walk
      PROVE  DueIsAhead'
  BY <1>2 DEF walk, DueIsAhead
<1>3. ASSUME Ended PROVE DueIsAhead'
  BY <1>3 DEF Ended, DueIsAhead
<1>4. ASSUME TakeId, NEW h \in Handle, Sent(h) \/ NotSent, UNCHANGED <<phase, walk>>
      PROVE  DueIsAhead'
  <2>1. \A i \in DOMAIN subs : i \in DOMAIN subs' /\ subs'[i] = subs[i]
    BY <1>4, SentTypes
  <2>2. /\ phase' = phase /\ cursor' = cursor /\ freed' = freed /\ due' = due
        /\ topic' = topic
    BY <1>4 DEF walk
  <2>3. phase = "handler" /\ cursor # NULL /\ ~freed => Ahead(subs', cursor, due, topic)
    BY <2>1, AheadAfterLink DEF DueIsAhead
  <2> QED
    BY <2>2, <2>3 DEF DueIsAhead
<1>5. ASSUME NEW h \in Handle, Subscribe(h) PROVE DueIsAhead'
  BY <1>4, <1>5 DEF Subscribe
<1>6. ASSUME NEW h \in Handle, SyncCall(h) PROVE DueIsAhead'
  BY <1>2, <1>6 DEF SyncCall
<1>7. ASSUME NEW f \in Filter, UnsubscribeSent(f) PROVE DueIsAhead'
  <2> DEFINE stay == {i \in DOMAIN subs : ~MatchesPadded(subs[i][1], f)}
  <2>1. /\ subs' \in Sublist(subs, stay)
        /\ due' = due \cap ToSet(subs')
        /\ freed' = (freed \/ (cursor # NULL /\ MatchesPadded(cursor[1], f)))
        /\ UNCHANGED <<phase, topic, cursor>>
    BY <1>7 DEF UnsubscribeSent
  <2>2. ASSUME phase = "handler", cursor # NULL, ~freed'
        PROVE  Ahead(subs', cursor, due', topic)
    <3>1. ~freed /\ ~MatchesPadded(cursor[1], f)
      BY <2>1, <2>2
    <3>2. Ahead(subs, cursor, due, topic)
      BY <2>2, <3>1 DEF DueIsAhead
    <3>3. /\ stay \in SUBSET (DOMAIN subs)
          /\ \A i \in DOMAIN subs : subs[i] = cursor => i \in stay
      BY <3>1
    <3> HIDE DEF stay
    <3>4. Ahead(subs', cursor, due \cap ToSet(subs'), topic)
      BY <1>0, <2>1, <3>2, <3>3, AheadAfterUnlink
    <3> QED
      BY <2>1, <3>4
  <2> HIDE DEF stay
  <2>3. due = {} => due' = {}
    BY <2>1
  <2> QED
    BY <2>1, <2>2, <2>3 DEF DueIsAhead
<1>8. CASE UnsubscribeFails
  <2>1. subs' = subs /\ UNCHANGED <<phase, walk>>
    BY <1>8 DEF UnsubscribeFails, NotSent
  <2> QED
    BY <2>1 DEF DueIsAhead, walk
<1>9. CASE SyncSubscribe
  BY <1>2, <1>9 DEF SyncSubscribe
<1>10. CASE SyncWaits \/ SyncYields
  BY <1>2, <1>10 DEF SyncWaits, SyncYields
<1>11. CASE CheckGranted \/ CheckRefused \/ CheckOpen
  <2>1. phase = "check" /\ UNCHANGED walk
    BY <1>11 DEF CheckGranted, CheckRefused, CheckOpen
  <2>2. phase' \in {"app", "callback", "sync"}
    BY <1>11 DEF CheckGranted, CheckRefused, CheckOpen, Return, TimeOut
  <2> QED
    BY <1>2, <2>1, <2>2
<1>12. CASE Yield \/ KeepAlive \/ KeepLoses \/ KeepReconnects \/ LostReturns \/ BackReturns
  BY <1>2, <1>12 DEF Yield, KeepAlive, KeepLoses, KeepReconnects, LostReturns, BackReturns
<1>13. CASE CycleNothing \/ CyclePartial
  BY <1>3, <1>13 DEF CycleNothing, CyclePartial
<1>14. CASE CycleSuback \/ CycleGarbage
  <2>1. phase = "cycle" /\ UNCHANGED walk
    BY <1>14 DEF CycleSuback, CycleGarbage
  <2> QED
    BY <2>1 DEF DueIsAhead, walk
<1>15. CASE HandlerReturns
  <2>1. phase = "handler" /\ subs' = subs
    BY <1>15 DEF HandlerReturns
  <2>2. \/ Ended
        \/ phase' = "undefined" /\ UNCHANGED walk /\ cursor # NULL
        \/ \E h : /\ cursor # NULL /\ ~freed
                  /\ h = Match(Place(cursor) + 1, topic) /\ h # NULL
                  /\ cursor' = h /\ due' = due \ {h} /\ UNCHANGED <<phase, topic, freed>>
    BY <1>15 DEF HandlerReturns
  <2>3. CASE phase' = "undefined" /\ UNCHANGED walk /\ cursor # NULL
    BY <2>3 DEF DueIsAhead, walk
  <2>4. ASSUME cursor # NULL, ~freed,
               NEW h, h = Match(Place(cursor) + 1, topic), h # NULL,
               cursor' = h, due' = due \ {h}, UNCHANGED <<phase, topic, freed>>
        PROVE  DueIsAhead'
    <3>1. PICK p \in DOMAIN subs :
            /\ subs[p] = cursor
            /\ \A o \in due : /\ Matches(o[1], topic)
                              /\ \E q \in DOMAIN subs : q > p /\ subs[q] = o
      BY <2>1, <2>4 DEF DueIsAhead, Ahead
    <3>2. PICK m \in DOMAIN subs :
            /\ m > p /\ h = subs[m]
            /\ \A k \in DOMAIN subs : k > p /\ Matches(subs[k][1], topic) => m =< k
      BY <2>4, <3>1, NextMatch
    <3>3. ASSUME NEW o \in due \ {h}
          PROVE  Matches(o[1], topic) /\ \E q \in DOMAIN subs : q > m /\ subs[q] = o
      <4>1. PICK q \in DOMAIN subs : q > p /\ subs[q] = o
        BY <3>1, <3>3
      <4>2. Matches(o[1], topic)
        BY <3>1, <3>3
      <4>3. m =< q /\ m # q
        BY <3>2, <3>3, <4>1, <4>2
      <4>4. m \in Nat /\ q \in Nat
        BY <1>0
      <4>5. q > m
        BY <4>3, <4>4
      <4> QED
        BY <4>1, <4>2, <4>5
    <3>4. Ahead(subs, h, due \ {h}, topic)
      BY <3>2, <3>3 DEF Ahead
    <3>5. phase' = "handler" /\ cursor' # NULL /\ topic' = topic
      BY <2>1, <2>4
    <3> QED
      BY <2>1, <2>4, <3>4, <3>5 DEF DueIsAhead
  <2> QED
    BY <1>3, <2>2, <2>3, <2>4
<1>16. ASSUME NEW t \in Topic, CycleMessage(t) PROVE DueIsAhead'
  <2>1. /\ topic' = t /\ cursor' = Match(1, t) /\ phase' = "handler" /\ subs' = subs
        /\ due' = {h \in ToSet(subs) \ {cursor'} : Matches(h[1], t)}
    BY <1>16 DEF CycleMessage
  <2>2. \A h \in ToSet(subs) : \E k \in 1..Len(subs) : subs[k] = h
    BY <1>0 DEF ToSet
  <2>3. CASE cursor' = NULL
    <3>1. \A k \in 1..Len(subs) : ~Matches(subs[k][1], t)
      <4>1. \A k \in 1..Len(subs) : subs[k] # NULL
        BY <1>0, SubsAssumption DEF SubsAssumption
      <4>2. \/ \A k \in 1..Len(subs) : ~Matches(subs[k][1], t)
            \/ \E m \in 1..Len(subs) : Match(1, t) = subs[m]
        BY <1>0, FirstMatch
      <4> QED
        BY <2>1, <2>3, <4>1, <4>2
    <3>2. due' = {}
      BY <2>1, <2>2, <3>1
    <3> QED
      BY <2>1, <2>3, <3>2 DEF DueIsAhead
  <2>4. CASE cursor' # NULL
    <3>1. PICK m \in 1..Len(subs) :
            /\ Match(1, t) = subs[m] /\ m \in DOMAIN subs
            /\ \A k \in 1..Len(subs) : Matches(subs[k][1], t) => m =< k
      BY <1>0, <2>1, <2>4, FirstMatch
    <3>2. ASSUME NEW o \in due'
          PROVE  Matches(o[1], t) /\ \E q \in DOMAIN subs : q > m /\ subs[q] = o
      <4>1. o \in ToSet(subs) /\ o # subs[m] /\ Matches(o[1], t)
        BY <2>1, <3>1, <3>2
      <4>2. PICK q \in 1..Len(subs) : subs[q] = o
        BY <2>2, <4>1
      <4>3. q \in DOMAIN subs /\ m =< q /\ m # q
        BY <1>0, <3>1, <4>1, <4>2
      <4>4. q > m
        BY <4>3
      <4> QED
        BY <4>1, <4>2, <4>3, <4>4
    <3>3. Ahead(subs, cursor', due', t)
      BY <2>1, <3>1, <3>2 DEF Ahead
    <3> QED
      BY <2>1, <2>4, <3>3 DEF DueIsAhead
  <2> QED
    BY <2>3, <2>4
<1> QED
  BY <1>1, <1>5, <1>6, <1>7, <1>8, <1>9, <1>10, <1>11, <1>12, <1>13, <1>14, <1>15,
     <1>16 DEF Next

-----------------------------------------------------------------------------
LEMMA InitOK == SubsAssumption /\ Init => StackOK /\ RestOK /\ DueIsAhead
<1> SUFFICES ASSUME SubsAssumption, Init PROVE StackOK /\ RestOK /\ DueIsAhead
  OBVIOUS
<1>1. StackOK
  <2>1. stack = <<>> /\ phase = "app"
    BY DEF Init
  <2>2. <<>> \in Seq(Frame) /\ Len(<<>>) = 0
    BY EmptySeq
  <2>3. Alternates(<<>>)
    BY <2>2 DEF Alternates
  <2> QED
    BY <2>1, <2>3 DEF StackOK, Phase
<1>2. RestOK
  <2>1. subs = <<>> /\ waits = <<>>
    BY DEF Init
  <2>2. <<>> \in Seq(Handle) /\ <<>> \in Seq(Node) /\ DOMAIN <<>> = {}
    <3>1. \A S : <<>> \in Seq(S) /\ Len(<<>>) = 0
      BY EmptySeq
    <3>2. DOMAIN <<>> = 1..0
      OBVIOUS
    <3> QED
      BY <3>1, <3>2
  <2>3. IsInjective(subs)
    BY <2>1, <2>2 DEF IsInjective
  <2>4. 0 \in 0..MaxRequests
    BY DEF SubsAssumption
  <2>5. /\ conn = "up" /\ packet_id = 0 /\ acks = {} /\ topic = NULL /\ cursor = NULL
        /\ freed = FALSE /\ due = {} /\ result = 0 /\ granted = {} /\ forged = {}
    BY DEF Init
  <2>6. /\ subs \in Seq(Handle)
        /\ waits \in Seq([id : Id, ack : {"none", "yes", "no"}])
    BY <2>1, <2>2 DEF Node
  <2> QED
    BY <2>3, <2>4, <2>5, <2>6 DEF RestOK
<1>3. DueIsAhead
  BY DEF Init, DueIsAhead
<1> QED
  BY <1>1, <1>2, <1>3

LEMMA WellFormed == SubsAssumption /\ Spec => [](StackOK /\ RestOK /\ DueIsAhead)
<1>1. SubsAssumption /\ StackOK /\ RestOK /\ DueIsAhead /\ [Next]_vars
        => (StackOK /\ RestOK /\ DueIsAhead)'
  BY StackStep, RestStep, DueStep
<1> QED
  BY InitOK, SubsAssumption, <1>1, PTL DEF Spec

(* Every state has its type: no handle is linked twice, a callback that    *)
(* tells of the connection waits for a yield and a call for a callback or  *)
(* the application, and a call that looks for its answer is on top.        *)
THEOREM TypeCorrect == Spec => []TypeOK
  BY WellFormed, TypeParts, SubsAssumption, PTL

(* A walk that ends has called every handle that was linked when the       *)
(* message came, matches it and was not unsubscribed meanwhile, whatever   *)
(* the handlers linked and unlinked: iotx_mc_deliver_message() finds the   *)
(* rest behind the handle whose handler returns.                           *)
THEOREM WalksToTheEnd == Spec => CallsAllThatStayed
<1>1. ASSUME RestOK, DueIsAhead, [Next]_vars,
             phase = "handler", cursor # NULL, phase' \notin {"handler", "undefined"}
      PROVE  due = {}
  <2>1. HandlerReturns
    BY <1>1 DEF Next, vars, Subscribe, SyncCall, UnsubscribeSent, UnsubscribeFails,
            SyncSubscribe, SyncWaits, SyncYields, CheckGranted, CheckRefused, CheckOpen,
            Yield, KeepAlive, KeepLoses, KeepReconnects, LostReturns, BackReturns,
            CycleNothing, CyclePartial, CycleSuback, CycleGarbage, CycleMessage
  <2>2. ~freed /\ Match(Place(cursor) + 1, topic) = NULL
    BY <1>1, <2>1 DEF HandlerReturns
  <2>3. PICK p \in DOMAIN subs :
          /\ subs[p] = cursor
          /\ \A o \in due : /\ Matches(o[1], topic)
                            /\ \E q \in DOMAIN subs : q > p /\ subs[q] = o
    BY <1>1, <2>2 DEF DueIsAhead, Ahead
  <2>4. \A k \in DOMAIN subs : k > p => ~Matches(subs[k][1], topic)
    <3>1. NULL \notin Handle
      BY SubsAssumption DEF SubsAssumption
    <3> QED
      BY <1>1, <2>2, <2>3, <3>1, NextMatch
  <2> QED
    BY <2>3, <2>4
<1>2. StackOK /\ RestOK /\ DueIsAhead /\ [Next]_vars
        => [phase = "handler" /\ cursor # NULL /\ phase' \notin {"handler", "undefined"}
              => due = {}]_vars
  BY <1>1
<1>3. Spec => [](StackOK /\ RestOK /\ DueIsAhead) /\ [][Next]_vars
  BY WellFormed, SubsAssumption, PTL DEF Spec
<1> QED
  BY <1>2, <1>3, PTL DEF CallsAllThatStayed

-----------------------------------------------------------------------------
(* What a call is told. *)

(* No SUBACK on its way says yes to a request that was not granted, nor is *)
(* one taken down for the call that waits, unless what was read last for   *)
(* it was no SUBACK.                                                       *)
YesMeansGranted ==
    /\ \A id \in Id : <<id, "yes">> \in acks => id \in granted
    /\ \A i \in DOMAIN waits : waits[i].ack = "yes" => waits[i].id \in granted \cup forged

(* The nodes after the first. *)
LEMMA TailOf ==
    ASSUME NEW S, NEW s \in Seq(S), s # <<>>
    PROVE  /\ Tail(s) \in Seq(S) /\ Len(s) \in Nat \ {0} /\ Len(Tail(s)) = Len(s) - 1
           /\ DOMAIN s = 1..Len(s) /\ DOMAIN Tail(s) = 1..(Len(s) - 1)
           /\ \A i \in DOMAIN Tail(s) : i + 1 \in DOMAIN s /\ Tail(s)[i] = s[i + 1]
           /\ Head(s) = s[1] /\ 1 \in DOMAIN s
<1>1. /\ Tail(s) \in Seq(S) /\ Len(Tail(s)) = Len(s) - 1
      /\ \A i \in 1..Len(Tail(s)) : Tail(s)[i] = s[i + 1]
  BY HeadTailProperties
<1>2. Len(s) \in Nat \ {0}
  BY EmptySeq
<1>3. DOMAIN s = 1..Len(s) /\ DOMAIN Tail(s) = 1..(Len(s) - 1)
  <2>1. DOMAIN Tail(s) = 1..Len(Tail(s))
    BY <1>1
  <2> QED
    BY <1>1, <2>1
<1>4. Head(s) = s[1]
  OBVIOUS
<1> QED
  BY <1>1, <1>2, <1>3, <1>4

LEMMA GrantStep ==
    ASSUME SubsAssumption, StackOK, RestOK, YesMeansGranted, [Next]_vars
    PROVE  YesMeansGranted'
<1>t. waits \in Seq(Node) /\ acks \subseteq Id \X {"yes", "no"}
  BY DEF RestOK, Node
<1>1. ASSUME UNCHANGED told, acks' \subseteq acks,
             \A i \in DOMAIN waits' : \E j \in DOMAIN waits : waits'[i] = waits[j]
      PROVE  YesMeansGranted'
  BY <1>1 DEF YesMeansGranted, told
<1>2. ASSUME UNCHANGED <<waits, told>>, acks' \subseteq acks PROVE YesMeansGranted'
  BY <1>2 DEF YesMeansGranted, told
<1>3. CASE UNCHANGED vars
  BY <1>2, <1>3 DEF vars
<1>4. ASSUME TakeId, NEW h \in Handle, Sent(h) \/ NotSent
      PROVE  /\ granted \subseteq granted'
             /\ \A id \in Id : <<id, "yes">> \in acks' => id \in granted'
  <2>1. CASE Sent(h)
    <3>1. \/ acks' = acks \cup {<<packet_id', "yes">>} /\ granted' = granted \cup {packet_id'}
          \/ acks' = acks \cup {<<packet_id', "no">>} /\ granted' = granted
          \/ acks' = acks /\ granted' = granted
      BY <2>1 DEF Sent
    <3>2. CASE acks' = acks \cup {<<packet_id', "yes">>} /\ granted' = granted \cup {packet_id'}
      BY <3>2 DEF YesMeansGranted
    <3>3. CASE acks' = acks \cup {<<packet_id', "no">>} /\ granted' = granted
      <4>1. \A id : <<id, "yes">> # <<packet_id', "no">>
        OBVIOUS
      <4> QED
        BY <3>3, <4>1 DEF YesMeansGranted
    <3>4. CASE acks' = acks /\ granted' = granted
      BY <3>4 DEF YesMeansGranted
    <3> QED
      BY <3>1, <3>2, <3>3, <3>4
  <2>2. CASE NotSent
    BY <2>2 DEF NotSent, YesMeansGranted
  <2> QED
    BY <1>4, <2>1, <2>2
<1>5. ASSUME NEW h \in Handle, Subscribe(h) PROVE YesMeansGranted'
  <2>1. TakeId /\ (Sent(h) \/ NotSent) /\ waits' = waits /\ forged' = forged
    BY <1>5 DEF Subscribe
  <2>2. /\ granted \subseteq granted'
        /\ \A id \in Id : <<id, "yes">> \in acks' => id \in granted'
    BY <1>4, <2>1
  <2> QED
    BY <2>1, <2>2 DEF YesMeansGranted
<1>6. ASSUME NEW h \in Handle, SyncCall(h) PROVE YesMeansGranted'
  BY <1>2, <1>6 DEF SyncCall
<1>7. ASSUME NEW f \in Filter, UnsubscribeSent(f) PROVE YesMeansGranted'
  BY <1>2, <1>7 DEF UnsubscribeSent
<1>8. CASE UnsubscribeFails
  BY <1>2, <1>8 DEF UnsubscribeFails, NotSent, told
<1>9. ASSUME phase = "sync", NEW id \in Id, WaitFor(id)
      PROVE  \A i \in DOMAIN waits' : waits'[i].ack = "yes" =>
                                         i \in DOMAIN waits /\ waits'[i] = waits[i]
  <2> DEFINE e == [id |-> id, ack |-> "none"]
  <2>1. waits' = waits \/ waits' = Append(waits, e)
    BY <1>9, Waiting
  <2>2. e \in Node /\ e.ack # "yes"
    BY DEF Node
  <2> HIDE DEF e
  <2>3. CASE waits' = Append(waits, e)
    <3>1. /\ waits' \in Seq(Node) /\ Len(waits') = Len(waits) + 1
          /\ \A i \in 1..Len(waits) : waits'[i] = waits[i]
          /\ waits'[Len(waits) + 1] = e
      BY <1>t, <2>2, <2>3, AppendProperties
    <3>2. DOMAIN waits = 1..Len(waits) /\ DOMAIN waits' = 1..(Len(waits) + 1)
          /\ Len(waits) \in Nat
      BY <1>t, <3>1
    <3>3. \A i \in DOMAIN waits' : i \in DOMAIN waits \/ i = Len(waits) + 1
      BY <3>2
    <3> QED
      BY <2>2, <3>1, <3>2, <3>3
  <2> QED
    BY <2>1, <2>3
<1>10. CASE SyncSubscribe
  <2>1. /\ phase = "sync" /\ Top[2] \in Handle /\ TakeId /\ (Sent(Top[2]) \/ NotSent)
        /\ WaitFor(packet_id') \/ waits' = waits
        /\ forged' = forged
    BY <1>10, CallOnTop DEF SyncSubscribe
  <2>2. /\ granted \subseteq granted'
        /\ \A id \in Id : <<id, "yes">> \in acks' => id \in granted'
    BY <1>4, <2>1
  <2>3. packet_id' \in Id
    BY <2>1, SentTypes
  <2>4. \A i \in DOMAIN waits' : waits'[i].ack = "yes" =>
                                    i \in DOMAIN waits /\ waits'[i] = waits[i]
    BY <1>9, <2>1, <2>3
  <2> QED
    BY <2>1, <2>2, <2>4 DEF YesMeansGranted
<1>w. CASE SyncWaits
  <2>1. phase = "sync" /\ Top[3] # 0 /\ WaitFor(Top[3]) /\ UNCHANGED <<acks, told>>
    BY <1>w DEF SyncWaits
  <2>2. Top[3] \in Id
    BY <2>1, CallOnTop
  <2>3. \A i \in DOMAIN waits' : waits'[i].ack = "yes" =>
                                    i \in DOMAIN waits /\ waits'[i] = waits[i]
    BY <1>9, <2>1, <2>2
  <2> QED
    BY <2>1, <2>3 DEF YesMeansGranted, told
<1>y. CASE SyncYields
  BY <1>2, <1>y DEF SyncYields
<1>11. CASE CheckGranted \/ CheckRefused
  <2>1. waits # <<>> /\ waits' = Tail(waits) /\ UNCHANGED <<acks, told>>
    BY <1>11 DEF CheckGranted, CheckRefused, Answer
  <2>2. \A i \in DOMAIN waits' : \E j \in DOMAIN waits : waits'[i] = waits[j]
    BY <1>t, <2>1, TailOf
  <2> QED
    BY <1>1, <2>1, <2>2
<1>12. CASE CheckOpen
  <2>1. UNCHANGED <<acks, told>> /\ (TimeOut \/ waits' = waits)
    BY <1>12 DEF CheckOpen
  <2>2. CASE TimeOut
    <3> DEFINE others == {i \in DOMAIN waits : waits[i].id # Top[3]}
    <3>1. waits' \in Sublist(waits, others)
      BY <2>2 DEF TimeOut
    <3>2. others \in SUBSET (DOMAIN waits)
      OBVIOUS
    <3> HIDE DEF others
    <3>3. \E at : LeftAt(waits, waits', at, others)
      BY <1>t, <3>1, <3>2, LeftInOrder
    <3>4. \A i \in DOMAIN waits' : \E j \in DOMAIN waits : waits'[i] = waits[j]
      BY <3>2, <3>3 DEF LeftAt
    <3> QED
      BY <1>1, <2>1, <3>4
  <2> QED
    BY <1>2, <2>1, <2>2
<1>13. CASE Yield
  BY <1>2, <1>13 DEF Yield
<1>14. CASE KeepAlive \/ KeepLoses
  BY <1>2, <1>14 DEF KeepAlive, KeepLoses
<1>15. CASE KeepReconnects \/ LostReturns
  BY <1>2, <1>15 DEF KeepReconnects, LostReturns
<1>16. CASE BackReturns
  BY <1>2, <1>16 DEF BackReturns
<1>17. CASE CycleNothing \/ CyclePartial \/ HandlerReturns \/ \E t \in Topic : CycleMessage(t)
  BY <1>2, <1>17 DEF CycleNothing, CyclePartial, HandlerReturns, CycleMessage, told
<1>18. CASE CycleSuback
  <2>1. PICK a \in acks :
          acks' = acks \ {a} /\ Mark(a[1], a[2]) /\ forged' = forged \ {a[1]}
    BY <1>18 DEF CycleSuback
  <2>2. granted' = granted
    BY <1>18 DEF CycleSuback
  <2>3. a[1] \in Id /\ a[2] \in {"yes", "no"} /\ a = <<a[1], a[2]>>
    BY <1>t, <2>1
  <2>4. /\ DOMAIN waits' = DOMAIN waits
        /\ \A i \in DOMAIN waits :
              /\ waits'[i].id = waits[i].id
              /\ waits'[i].ack = IF waits[i].id = a[1] THEN a[2] ELSE waits[i].ack
    BY <1>t, <2>1, <2>3, Marked
  <2>5. a[2] = "yes" => a[1] \in granted
    BY <2>1, <2>3 DEF YesMeansGranted
  <2>6. ASSUME NEW i \in DOMAIN waits', waits'[i].ack = "yes"
        PROVE  waits'[i].id \in granted' \cup forged'
    <3>1. CASE waits[i].id = a[1]
      BY <2>2, <2>4, <2>5, <2>6, <3>1
    <3>2. CASE waits[i].id # a[1]
      BY <2>1, <2>2, <2>4, <2>6, <3>2 DEF YesMeansGranted
    <3> QED
      BY <3>1, <3>2
  <2> QED
    BY <2>1, <2>2, <2>6 DEF YesMeansGranted
<1>g. CASE CycleGarbage
  <2>1. PICK id \in Id, a \in {"yes", "no"} :
          Mark(id, a) /\ forged' = forged \cup {waits[i].id : i \in NodesOf(id)}
    BY <1>g DEF CycleGarbage
  <2>2. UNCHANGED <<granted, acks>>
    BY <1>g DEF CycleGarbage
  <2>3. /\ DOMAIN waits' = DOMAIN waits
        /\ \A i \in DOMAIN waits :
              /\ waits'[i].id = waits[i].id
              /\ waits'[i].ack = IF waits[i].id = id THEN a ELSE waits[i].ack
    BY <1>t, <2>1, Marked
  <2>4. ASSUME NEW i \in DOMAIN waits', waits'[i].ack = "yes"
        PROVE  waits'[i].id \in granted' \cup forged'
    <3>1. CASE waits[i].id = id
      BY <2>1, <2>3, <3>1 DEF NodesOf
    <3>2. CASE waits[i].id # id
      BY <2>1, <2>2, <2>3, <2>4, <3>2 DEF YesMeansGranted
    <3> QED
      BY <3>1, <3>2
  <2> QED
    BY <2>2, <2>4 DEF YesMeansGranted
<1> QED
  BY <1>3, <1>5, <1>6, <1>7, <1>8, <1>10, <1>w, <1>y, <1>11, <1>12, <1>13, <1>14, <1>15,
     <1>16, <1>17, <1>18, <1>g DEF Next

LEMMA OnlyGranted == SubsAssumption /\ Spec => []YesMeansGranted
<1>1. Init => YesMeansGranted
  <2>1. waits = <<>> => DOMAIN waits = {}
    OBVIOUS
  <2> QED
    BY <2>1 DEF Init, YesMeansGranted
<1>2. SubsAssumption /\ StackOK /\ RestOK /\ YesMeansGranted /\ [Next]_vars
        => YesMeansGranted'
  BY GrantStep
<1> QED
  BY <1>1, <1>2, SubsAssumption, WellFormed, PTL DEF Spec

(* A call that succeeds was granted by the broker, it and no other, or the *)
(* last that was read for it was no SUBACK; one that fails had no grant at *)
(* the head of the list to look at: wrapper_mqtt_subscribe_sync() takes no *)
(* SUBACK of another call for its own, however calls nest.                 *)
THEOREM CallsAreToldTruth == Spec => SyncTellsTruth
<1> DEFINE Truth == IF result' # 0 THEN result' = Top[3] /\ result' \in granted \cup forged
                    ELSE \A i \in DOMAIN waits :
                            waits[i].id = Top[3] /\ waits[i].ack = "yes" => i > 1
<1>1. ASSUME StackOK, RestOK, YesMeansGranted, [Next]_vars, Returning
      PROVE  Truth
  <2>0. /\ Alternates(stack) /\ stack \in Seq(Frame) /\ Len(stack) \in Nat
        /\ Len(stack') < Len(stack) /\ Top \notin Callback
    BY <1>1 DEF StackOK, Alternates, Returning
  <2>t. waits \in Seq(Node)
    BY <1>1 DEF RestOK, Node
  <2>1. stack' # stack
    BY <2>0
  <2>2. ~BackReturns /\ ~LostReturns
    BY <2>0 DEF BackReturns, LostReturns, Callback
  <2>3. ASSUME NEW e \in Frame PROVE stack' # Append(stack, e)
    <3>1. Len(Append(stack, e)) = Len(stack) + 1
      BY <2>0, AppendProperties
    <3> QED
      BY <2>0, <3>1
  <2>4. ASSUME phase \in {"sync", "check"}, NEW e \in Frame
        PROVE  stack' # Append(Front(stack), e)
    <3>1. stack # <<>>
      BY <1>1, <2>4 DEF StackOK
    <3>2. /\ Front(stack) \in Seq(Frame) /\ Len(Front(stack)) = Len(stack) - 1
      BY <2>0, <3>1, FrontAndLast
    <3>3. Len(Append(Front(stack), e)) = Len(Front(stack)) + 1
      BY <3>2, AppendProperties
    <3> QED
      BY <2>0, <3>2, <3>3
  <2>5. \A h \in Handle : ~SyncCall(h)
    BY <2>3, Frames DEF SyncCall
  <2>6. ~KeepReconnects /\ ~KeepLoses
    <3>1. Lost \in Frame /\ Back \in Frame
      BY Frames DEF Callback
    <3> QED
      BY <2>3, <3>1 DEF KeepReconnects, KeepLoses
  <2>7. ASSUME phase = "sync", NEW id \in Id PROVE ~WaitFor(id)
    BY <1>1, <2>4, <2>7, Waiting
  <2>8. ~SyncSubscribe /\ ~SyncWaits
    <3>1. ASSUME SyncSubscribe PROVE FALSE
      <4>1. phase = "sync" /\ TakeId /\ WaitFor(packet_id')
        BY <2>1, <3>1 DEF SyncSubscribe
      <4>2. packet_id' \in Id
        BY <1>1, <4>1, SubsAssumption DEF TakeId, RestOK, SubsAssumption, Id
      <4> QED
        BY <2>7, <4>1, <4>2
    <3>2. ASSUME SyncWaits PROVE FALSE
      <4>1. phase = "sync" /\ Top[3] # 0 /\ WaitFor(Top[3])
        BY <3>2 DEF SyncWaits
      <4>2. Top[3] \in Id
        BY <1>1, <4>1, CallOnTop
      <4> QED
        BY <2>7, <4>1, <4>2
    <3> QED
      BY <3>1, <3>2
  <2>9. CheckGranted \/ CheckRefused \/ CheckOpen
    BY <1>1, <2>1, <2>2, <2>5, <2>6, <2>8
       DEF Next, vars, Subscribe, UnsubscribeSent, UnsubscribeFails, SyncYields, Yield,
           KeepAlive, CycleNothing, CyclePartial, CycleSuback, CycleGarbage,
           HandlerReturns, CycleMessage
  <2>10. waits # <<>> => Head(waits) = waits[1] /\ 1 \in DOMAIN waits
    BY <2>t, TailOf
  <2>11. \A i \in DOMAIN waits : i > 1 \/ i = 1
    BY <2>t
  <2>12. waits = <<>> => DOMAIN waits = {}
    OBVIOUS
  <2>13. CASE CheckGranted
    <3>1. Answer("yes") /\ result' = Top[3] /\ phase = "check"
      BY <2>13 DEF CheckGranted, Return
    <3>2. waits[1].id = Top[3] /\ waits[1].ack = "yes" /\ 1 \in DOMAIN waits
      BY <2>10, <3>1 DEF Answer
    <3>3. Top[3] \in granted \cup forged /\ waits[1] \in Node
      BY <1>1, <2>t, <3>2 DEF YesMeansGranted
    <3>4. Top[3] # 0
      BY <3>2, <3>3 DEF Node, Id
    <3> QED
      BY <3>1, <3>3, <3>4
  <2>14. ASSUME ~Answer("yes"), result' = 0 PROVE Truth
    BY <2>10, <2>11, <2>12, <2>14 DEF Answer
  <2>15. CASE CheckRefused
    <3>1. Answer("no") /\ phase = "check"
          /\ (result' = 0 \/ stack' = Append(Front(stack), Call(Top[2], 0, 0)))
      BY <2>15 DEF CheckRefused, Return
    <3>2. ~Answer("yes")
      BY <3>1 DEF Answer
    <3>3. Call(Top[2], 0, 0) \in Frame
      BY <1>1, <3>1, CallOnTop, Frames
    <3> QED
      BY <2>4, <2>14, <3>1, <3>2, <3>3
  <2>16. CASE CheckOpen
    BY <2>1, <2>14, <2>16 DEF CheckOpen, TimeOut, Return
  <2> QED
    BY <2>9, <2>13, <2>15, <2>16
<1>2. StackOK /\ RestOK /\ YesMeansGranted /\ [Next]_vars => [Returning => Truth]_vars
  BY <1>1
<1>3. Spec => [](StackOK /\ RestOK /\ YesMeansGranted) /\ [][Next]_vars
  BY WellFormed, OnlyGranted, SubsAssumption, PTL DEF Spec
<1>4. Spec => [][Returning => Truth]_vars
  BY <1>2, <1>3, PTL
<1> QED
  BY <1>4 DEF SyncTellsTruth

-----------------------------------------------------------------------------
(* The nodes of the list and the calls on the stack. *)

(* The calls that made a request, and those that have their node. *)
Started(s) == {i \in DOMAIN s : s[i] \notin Callback /\ s[i][3] # 0}
OpenIn(s) == {i \in Started(s) : s[i][4] = 1}

(* The nodes of w are those of the open calls of s, both in the order of   *)
(* their identifiers; so are the requests of all calls, and none is past   *)
(* the last identifier taken.                                              *)
Paired(s, w, last) ==
    /\ \A i \in DOMAIN w : \E j \in OpenIn(s) : w[i].id = s[j][3]
    /\ \A j \in OpenIn(s) : \E i \in DOMAIN w : w[i].id = s[j][3]
    /\ \A i, j \in DOMAIN w : i < j => w[i].id < w[j].id
    /\ \A i, j \in Started(s) : i < j => s[i][3] < s[j][3]
    /\ \A j \in Started(s) : s[j][3] =< last

(* The calls with a request may change their places only together. *)
LEMMA OpenSame ==
    ASSUME NEW s, NEW t, Started(t) = Started(s), \A i \in Started(s) : t[i] = s[i]
    PROVE  OpenIn(t) = OpenIn(s)
  BY DEF OpenIn

(* Calls that have no request, and callbacks, come and go. *)
LEMMA PairedSame ==
    ASSUME NEW s, NEW w, NEW last \in Nat, NEW t, NEW later \in Nat,
           Paired(s, w, last), last =< later,
           \A i \in Started(s) : s[i][3] \in Nat,
           Started(t) = Started(s), \A i \in Started(s) : t[i] = s[i]
    PROVE  Paired(t, w, later)
<1>1. \A j \in Started(s) : s[j][3] =< later
  <2>1. \A j \in Started(s) : s[j][3] =< last /\ s[j][3] \in Nat
    BY DEF Paired
  <2> QED
    BY <2>1
<1>2. OpenIn(t) = OpenIn(s) /\ \A i \in OpenIn(s) : t[i] = s[i]
  BY OpenSame DEF OpenIn
<1> QED
  BY <1>1, <1>2 DEF Paired

(* The call on top is answered, or gives up. *)
LEMMA PairedClosed ==
    ASSUME NEW s, NEW w, NEW last, NEW t, NEW v, NEW top,
           Paired(s, w, last),
           top \in Started(s) \/ s[top][3] = 0,
           \A i, j \in Started(s) : i \in Nat /\ s[i][3] \in Nat /\ (i # j => i < j \/ j < i),
           Started(t) = Started(s) \ {top}, \A i \in Started(t) : t[i] = s[i],
           \A i \in DOMAIN v : \E j \in DOMAIN w : v[i] = w[j],
           \A i \in DOMAIN v : v[i].id # s[top][3],
           \A j \in DOMAIN w : w[j].id # s[top][3] => \E i \in DOMAIN v : v[i] = w[j],
           \A i, j \in DOMAIN v : i < j => v[i].id < v[j].id
    PROVE  Paired(t, v, last)
<1>0. OpenIn(t) = OpenIn(s) \ {top} /\ \A i \in OpenIn(t) : t[i] = s[i]
  BY DEF OpenIn
<1>1. ASSUME NEW i \in DOMAIN v PROVE \E j \in OpenIn(t) : v[i].id = t[j][3]
  <2>1. PICK k \in DOMAIN w : v[i] = w[k]
    OBVIOUS
  <2>2. PICK j \in OpenIn(s) : w[k].id = s[j][3]
    BY DEF Paired
  <2>3. j # top
    BY <2>1, <2>2
  <2> QED
    BY <1>0, <2>1, <2>2, <2>3
<1>2. ASSUME NEW j \in OpenIn(t) PROVE \E i \in DOMAIN v : v[i].id = t[j][3]
  <2>1. j \in OpenIn(s) /\ j \in Started(s) /\ j # top /\ t[j] = s[j]
    BY <1>0 DEF OpenIn
  <2>2. PICK k \in DOMAIN w : w[k].id = s[j][3]
    BY <2>1 DEF Paired
  <2>3. s[j][3] # s[top][3]
    <3>1. CASE top \in Started(s)
      <4>1. s[j][3] < s[top][3] \/ s[top][3] < s[j][3]
        BY <2>1, <3>1 DEF Paired
      <4> QED
        BY <2>1, <3>1, <4>1
    <3>2. CASE s[top][3] = 0
      BY <2>1, <3>2 DEF Started
    <3> QED
      BY <3>1, <3>2
  <2> QED
    BY <2>1, <2>2, <2>3
<1>3. \A i, j \in Started(t) : i < j => t[i][3] < t[j][3]
  BY DEF Paired
<1>4. \A j \in Started(t) : t[j][3] =< last
  BY DEF Paired
<1> QED
  BY <1>1, <1>2, <1>3, <1>4 DEF Paired

(* The call on top makes its request, *)
LEMMA PairedStarted ==
    ASSUME NEW s, NEW w, NEW last \in Nat, NEW t, NEW top \in Nat,
           Paired(s, w, last),
           Started(t) = Started(s) \cup {top}, t[top][3] = last + 1, t[top][4] = 0,
           \A i \in Started(s) : /\ i \in Nat /\ i < top /\ s[i][3] \in Nat /\ t[i] = s[i]
    PROVE  Paired(t, w, last + 1)
<1>1. OpenIn(t) = OpenIn(s) /\ \A i \in OpenIn(s) : t[i] = s[i]
  <2>1. top \notin OpenIn(t) /\ top \notin OpenIn(s)
    BY DEF OpenIn
  <2> QED
    BY <2>1 DEF OpenIn
<1>2. \A i \in Started(s) : s[i][3] =< last /\ s[i][3] < last + 1
  BY DEF Paired
<1>3. ASSUME NEW i \in Started(t), NEW j \in Started(t), i < j PROVE t[i][3] < t[j][3]
  <2>1. CASE i \in Started(s) /\ j \in Started(s)
    BY <1>3, <2>1 DEF Paired
  <2>2. CASE i \in Started(s) /\ j = top
    BY <1>2, <2>2
  <2>3. i # top
    <3>1. j = top \/ (j \in Started(s) /\ j < top /\ j \in Nat)
      OBVIOUS
    <3> QED
      BY <1>3, <3>1
  <2> QED
    BY <2>1, <2>2, <2>3
<1>4. ASSUME NEW j \in Started(t) PROVE t[j][3] =< last + 1
  <2>1. CASE j = top
    BY <2>1
  <2>2. CASE j \in Started(s)
    BY <1>2, <2>2
  <2> QED
    BY <2>1, <2>2
<1> QED
  BY <1>1, <1>3, <1>4 DEF Paired

(* and gets its node. *)
LEMMA PairedOpened ==
    ASSUME NEW s, NEW w \in Seq(Node), NEW last \in Nat, NEW t, NEW top \in Nat, NEW e \in Node,
           Paired(s, w, last),
           top \in Started(s), s[top][4] = 0, e.id = s[top][3],
           Started(t) = Started(s), t[top][3] = s[top][3], t[top][4] = 1,
           \A i \in Started(s) : i # top => t[i] = s[i],
           \A i \in Started(s) : i \in Nat /\ s[i][3] \in Nat /\ (i # top => i < top)
    PROVE  Paired(t, Append(w, e), last)
<1> DEFINE v == Append(w, e)
<1>1. /\ Len(v) = Len(w) + 1 /\ v[Len(w) + 1] = e /\ v \in Seq(Node)
      /\ \A i \in 1..Len(w) : v[i] = w[i]
  BY AppendProperties
<1> HIDE DEF v
<1>2. DOMAIN w = 1..Len(w) /\ DOMAIN v = 1..(Len(w) + 1) /\ Len(w) \in Nat
  BY <1>1
<1>3. \A i \in DOMAIN v : i \in DOMAIN w \/ i = Len(w) + 1
  BY <1>2
<1>4. Len(w) + 1 \in DOMAIN v
  BY <1>2
<1>5. \A i \in DOMAIN w : i \in DOMAIN v /\ v[i] = w[i] /\ i < Len(w) + 1 /\ i \in Nat
  BY <1>1, <1>2
<1>6. /\ OpenIn(t) = OpenIn(s) \cup {top} /\ top \notin OpenIn(s)
      /\ \A i \in OpenIn(s) : i \in Started(s) /\ i # top /\ i < top /\ t[i] = s[i]
  <2>1. top \notin OpenIn(s) /\ top \in OpenIn(t)
    BY DEF OpenIn
  <2>2. \A i : i # top => (i \in OpenIn(t) <=> i \in OpenIn(s))
    BY DEF OpenIn
  <2>3. \A i \in OpenIn(s) : i \in Started(s) /\ i # top
    BY <2>1 DEF OpenIn
  <2> QED
    BY <2>1, <2>2, <2>3
<1>7. \A i \in DOMAIN w : w[i].id < e.id
  <2>1. \A j \in OpenIn(s) : s[j][3] < s[top][3]
    BY <1>6 DEF Paired
  <2> QED
    BY <2>1 DEF Paired
<1>8. ASSUME NEW i \in DOMAIN v PROVE \E j \in OpenIn(t) : v[i].id = t[j][3]
  <2>1. CASE i = Len(w) + 1
    BY <1>1, <1>6, <2>1
  <2>2. CASE i \in DOMAIN w
    <3>1. v[i] = w[i]
      BY <1>5, <2>2
    <3>2. PICK j \in OpenIn(s) : w[i].id = s[j][3]
      BY <2>2 DEF Paired
    <3>3. j \in OpenIn(t) /\ t[j] = s[j]
      BY <1>6, <3>2
    <3> QED
      BY <3>1, <3>2, <3>3
  <2> QED
    BY <1>3, <2>1, <2>2
<1>9. ASSUME NEW j \in OpenIn(t) PROVE \E i \in DOMAIN v : v[i].id = t[j][3]
  <2>1. CASE j = top
    BY <1>1, <1>4, <2>1
  <2>2. CASE j \in OpenIn(s)
    <3>1. t[j] = s[j]
      BY <1>6, <2>2
    <3>2. PICK i \in DOMAIN w : w[i].id = s[j][3]
      BY <2>2 DEF Paired
    <3> QED
      BY <1>5, <3>1, <3>2
  <2> QED
    BY <1>6, <2>1, <2>2
<1>10. ASSUME NEW i \in DOMAIN v, NEW j \in DOMAIN v, i < j PROVE v[i].id < v[j].id
  <2>1. CASE i \in DOMAIN w /\ j \in DOMAIN w
    BY <1>5, <1>10, <2>1 DEF Paired
  <2>2. CASE i \in DOMAIN w /\ j = Len(w) + 1
    BY <1>1, <1>5, <1>7, <2>2
  <2>3. i # Len(w) + 1
    BY <1>2, <1>10
  <2> QED
    BY <1>3, <2>1, <2>2, <2>3
<1>11. \A i \in Started(s) : t[i][3] = s[i][3]
  OBVIOUS
<1> QED
  BY <1>8, <1>9, <1>10, <1>11 DEF Paired, v

LEMMA StartedNumbers ==
    ASSUME SubsAssumption, NEW s, Alternates(s)
    PROVE  /\ \A i \in Started(s) : i \in 1..Len(s) /\ i \in Nat /\ s[i][3] \in Nat
           /\ \A i, j \in Started(s) : i # j => i < j \/ j < i
<1>1. DOMAIN s = 1..Len(s) /\ Len(s) \in Nat /\ \A i \in DOMAIN s : s[i] \in Frame
  BY DEF Alternates
<1>2. \A i \in Started(s) : s[i][3] \in Id
  BY <1>1, Frames DEF Started
<1>3. \A i \in Started(s) : i \in 1..Len(s) /\ i \in Nat /\ s[i][3] \in Nat
  BY <1>1, <1>2 DEF Started, SubsAssumption, Id
<1> QED
  BY <1>3

(* A frame put on top that has no request. *)
LEMMA StartedPushed ==
    ASSUME NEW s, Alternates(s), NEW e \in Frame, e \in Callback \/ e[3] = 0,
           s = <<>> \/ (e \in Callback <=> Last(s) \notin Callback)
    PROVE  /\ Started(Append(s, e)) = Started(s)
           /\ \A i \in Started(s) : Append(s, e)[i] = s[i]
<1> DEFINE t == Append(s, e)
<1>1. s \in Seq(Frame)
  BY DEF Alternates
<1>2. /\ t \in Seq(Frame) /\ Len(t) = Len(s) + 1 /\ t[Len(s) + 1] = e
      /\ \A i \in 1..Len(s) : t[i] = s[i]
  BY <1>1, AppendProperties
<1> HIDE DEF t
<1>3. /\ DOMAIN s = 1..Len(s) /\ DOMAIN t = 1..(Len(s) + 1) /\ Len(s) \in Nat
  BY <1>1, <1>2
<1>4. \A i \in DOMAIN t : i \in DOMAIN s \/ i = Len(s) + 1
  BY <1>3
<1>5. \A i \in DOMAIN s : i \in DOMAIN t /\ t[i] = s[i]
  BY <1>2, <1>3
<1> QED
  BY <1>2, <1>4, <1>5 DEF Started, t

(* The frame on top is taken off, *)
LEMMA StartedPopped ==
    ASSUME NEW s, Alternates(s), s # <<>>
    PROVE  /\ Started(Front(s)) = Started(s) \ {Len(s)}
           /\ \A i \in Started(Front(s)) : Front(s)[i] = s[i]
<1> DEFINE t == Front(s)
<1>1. /\ t \in Seq(Frame) /\ s \in Seq(Frame)
      /\ Len(s) \in Nat \ {0} /\ Len(t) = Len(s) - 1
      /\ \A i \in 1..(Len(s) - 1) : t[i] = s[i]
  BY Popped DEF Alternates
<1> HIDE DEF t
<1>2. DOMAIN s = 1..Len(s) /\ DOMAIN t = 1..(Len(s) - 1)
  BY <1>1
<1>3. \A i : i \in DOMAIN t <=> i \in DOMAIN s /\ i # Len(s)
  BY <1>1, <1>2
<1>4. \A i \in DOMAIN t : t[i] = s[i]
  BY <1>1, <1>2
<1> QED
  BY <1>3, <1>4 DEF Started, t

(* or is put back with another request or none. *)
PutBack(s, e) == Append(Front(s), e)

LEMMA StartedReplaced ==
    ASSUME NEW s, Alternates(s), s # <<>>, Last(s) \notin Callback,
           NEW e \in Frame, e \notin Callback, NEW t, t = PutBack(s, e)
    PROVE  /\ e[3] = 0 => Started(t) = Started(s) \ {Len(s)}
           /\ e[3] # 0 => Started(t) = Started(s) \cup {Len(s)}
           /\ t[Len(s)] = e
           /\ \A i \in Started(s) : i # Len(s) => t[i] = s[i]
<1>1. /\ Alternates(t) /\ t # <<>> /\ Last(t) = e /\ Len(t) = Len(s)
      /\ \A i \in 1..(Len(s) - 1) : t[i] = s[i]
  BY Replaced DEF PutBack
<1>2. s \in Seq(Frame) /\ t \in Seq(Frame) /\ Len(s) \in Nat \ {0}
  BY <1>1, Popped DEF Alternates
<1>3. DOMAIN s = 1..Len(s) /\ DOMAIN t = 1..Len(s)
  BY <1>1, <1>2
<1>4. t[Len(s)] = e /\ Len(s) \in DOMAIN t
  BY <1>1, <1>2, <1>3 DEF Last
<1>5. \A i \in DOMAIN s : i # Len(s) => t[i] = s[i]
  <2>1. \A i \in DOMAIN s : i # Len(s) => i \in 1..(Len(s) - 1)
    BY <1>2, <1>3
  <2> QED
    BY <1>1, <2>1
<1>6. DOMAIN t = DOMAIN s
  BY <1>3
<1>7. \A i : i # Len(s) => (i \in Started(t) <=> i \in Started(s))
  BY <1>5, <1>6 DEF Started
<1>8. Len(s) \in Started(t) <=> e[3] # 0
  BY <1>4 DEF Started
<1>9. \A i \in Started(s) : i \in DOMAIN s
  BY DEF Started
<1> QED
  BY <1>4, <1>5, <1>7, <1>8, <1>9

-----------------------------------------------------------------------------
PairedNow == Paired(stack, waits, packet_id)

(* The call on top ends or forgets its request, and its node goes. *)
LEMMA NodeGoes ==
    ASSUME SubsAssumption, StackOK, RestOK, PairedNow, phase = "check",
           packet_id' = packet_id,
           stack' = Front(stack) \/ stack' = Append(Front(stack), Call(Top[2], 0, 0)),
           \A i \in DOMAIN waits' : \E j \in DOMAIN waits : waits'[i] = waits[j],
           \A i \in DOMAIN waits' : waits'[i].id # Top[3],
           \A j \in DOMAIN waits :
              waits[j].id # Top[3] => \E i \in DOMAIN waits' : waits'[i] = waits[j],
           \A i, j \in DOMAIN waits' : i < j => waits'[i].id < waits'[j].id
    PROVE  PairedNow'
<1>1. /\ stack # <<>> /\ Top \notin Callback /\ Top = stack[Len(stack)]
      /\ Len(stack) \in Nat \ {0} /\ Top[2] \in Handle
      /\ Alternates(stack) /\ Last(stack) \notin Callback
  BY CallOnTop
<1>2. /\ Started(stack') = Started(stack) \ {Len(stack)}
      /\ \A i \in Started(stack') : stack'[i] = stack[i]
  <2>1. CASE stack' = Front(stack)
    BY <1>1, <2>1, StartedPopped
  <2>2. CASE stack' = Append(Front(stack), Call(Top[2], 0, 0))
    <3> DEFINE c == Call(Top[2], 0, 0)
    <3>1. c \in Frame /\ c \notin Callback /\ c[3] = 0
      BY <1>1, Frames
    <3>0. stack' = PutBack(stack, c)
      BY <2>2 DEF PutBack
    <3> HIDE DEF c
    <3>2. /\ Started(stack') = Started(stack) \ {Len(stack)}
          /\ \A i \in Started(stack) : i # Len(stack) => stack'[i] = stack[i]
      BY <1>1, <3>0, <3>1, StartedReplaced
    <3> QED
      BY <3>1, <3>2
  <2> QED
    BY <2>1, <2>2
<1>3. Len(stack) \in Started(stack) \/ stack[Len(stack)][3] = 0
  <2>1. Len(stack) \in DOMAIN stack
    <3>1. stack \in Seq(Frame)
      BY <1>1 DEF Alternates
    <3> QED
      BY <1>1, <3>1
  <2> QED
    BY <1>1, <2>1 DEF Started
<1>4. \A i, j \in Started(stack) :
         i \in Nat /\ stack[i][3] \in Nat /\ (i # j => i < j \/ j < i)
  BY <1>1, StartedNumbers, SubsAssumption
<1>5. Paired(stack', waits', packet_id)
  BY <1>1, <1>2, <1>3, <1>4, PairedClosed DEF PairedNow
<1> QED
  BY <1>5 DEF PairedNow

(* The first node is that of the call on top. *)
LEMMA FirstGoes ==
    ASSUME SubsAssumption, StackOK, RestOK, PairedNow, phase = "check",
           packet_id' = packet_id,
           stack' = Front(stack) \/ stack' = Append(Front(stack), Call(Top[2], 0, 0)),
           waits # <<>>, Head(waits).id = Top[3], waits' = Tail(waits)
    PROVE  PairedNow'
<1>1. waits \in Seq(Node)
  BY DEF RestOK, Node
<1>2. /\ Len(waits) \in Nat \ {0} /\ 1 \in DOMAIN waits /\ Head(waits) = waits[1]
      /\ DOMAIN waits = 1..Len(waits) /\ DOMAIN waits' = 1..(Len(waits) - 1)
      /\ \A i \in DOMAIN waits' : i + 1 \in DOMAIN waits /\ waits'[i] = waits[i + 1]
  BY <1>1, TailOf
<1>3. \A i, j \in DOMAIN waits : i < j => waits[i].id < waits[j].id
  BY DEF PairedNow, Paired
<1>4. \A i \in DOMAIN waits : waits[i].id \in Nat
  <2>1. \A i \in DOMAIN waits : waits[i] \in Node
    BY <1>1
  <2> QED
    BY <2>1 DEF Node, Id
<1>5. \A i \in DOMAIN waits' : waits'[i].id # Top[3]
  <2>1. ASSUME NEW i \in DOMAIN waits' PROVE waits[1].id < waits'[i].id
    <3>1. 1 < i + 1
      BY <1>2
    <3> QED
      BY <1>2, <1>3, <3>1
  <2> QED
    BY <1>2, <1>4, <2>1
<1>6. ASSUME NEW j \in DOMAIN waits, waits[j].id # Top[3]
      PROVE  \E i \in DOMAIN waits' : waits'[i] = waits[j]
  <2>1. j # 1
    BY <1>2, <1>6
  <2>2. j - 1 \in DOMAIN waits' /\ (j - 1) + 1 = j
    BY <1>2, <2>1
  <2>3. waits'[j - 1] = waits[(j - 1) + 1]
    BY <1>2, <2>2
  <2> QED
    BY <2>2, <2>3
<1>7. ASSUME NEW i \in DOMAIN waits', NEW j \in DOMAIN waits', i < j
      PROVE  waits'[i].id < waits'[j].id
  <2>1. i + 1 < j + 1
    BY <1>2, <1>7
  <2> QED
    BY <1>2, <1>3, <2>1
<1> QED
  BY <1>2, <1>5, <1>6, <1>7, NodeGoes

(* The call on top gives up: every node but its own stays. *)
LEMMA OthersStay ==
    ASSUME SubsAssumption, StackOK, RestOK, PairedNow, phase = "check",
           packet_id' = packet_id, TimeOut
    PROVE  PairedNow'
<1> DEFINE others == {i \in DOMAIN waits : waits[i].id # Top[3]}
<1>1. waits' \in Sublist(waits, others) /\ stack' = Front(stack)
  BY DEF TimeOut, Return
<1>2. waits \in Seq(Node)
  BY DEF RestOK, Node
<1>3. others \in SUBSET (DOMAIN waits)
  OBVIOUS
<1>4. \A i \in DOMAIN waits : i \in others <=> waits[i].id # Top[3]
  OBVIOUS
<1> HIDE DEF others
<1>5. waits' \in Seq(Node) /\ \E at : LeftAt(waits, waits', at, others)
  BY <1>1, <1>2, <1>3, LeftInOrder
<1>6. PICK at : LeftAt(waits, waits', at, others)
  BY <1>5
<1>7. \A i \in DOMAIN waits' : at[i] \in others /\ at[i] \in DOMAIN waits /\ waits'[i] = waits[at[i]]
  BY <1>3, <1>6 DEF LeftAt
<1>8. \A i \in DOMAIN waits' : waits'[i].id # Top[3]
  BY <1>4, <1>7
<1>9. ASSUME NEW j \in DOMAIN waits, waits[j].id # Top[3]
      PROVE  \E i \in DOMAIN waits' : waits'[i] = waits[j]
  <2>1. j \in others
    BY <1>4, <1>9
  <2>2. PICK i \in DOMAIN waits' : at[i] = j
    BY <1>6, <2>1 DEF LeftAt
  <2> QED
    BY <1>7, <2>2
<1>10. ASSUME NEW i \in DOMAIN waits', NEW j \in DOMAIN waits', i < j
       PROVE  waits'[i].id < waits'[j].id
  <2>1. at[i] < at[j]
    BY <1>6, <1>10 DEF LeftAt
  <2> QED
    BY <1>7, <2>1 DEF PairedNow, Paired
<1> QED
  BY <1>1, <1>7, <1>8, <1>9, <1>10, NodeGoes

LEMMA PairedStep ==
    ASSUME SubsAssumption, StackOK, RestOK, PairedNow, [Next]_vars
    PROVE  PairedNow'
<1>0. /\ packet_id \in Nat /\ Alternates(stack) /\ waits \in Seq(Node)
      /\ \A i \in Started(stack) : i \in 1..Len(stack) /\ i \in Nat /\ stack[i][3] \in Nat
  BY SubsAssumption, StartedNumbers DEF RestOK, StackOK, SubsAssumption, Node
<1>1. ASSUME UNCHANGED <<waits, stack>>, packet_id' = packet_id \/ TakeId PROVE PairedNow'
  <2>1. packet_id' \in Nat /\ packet_id =< packet_id'
    BY <1>0, <1>1 DEF TakeId
  <2>2. Paired(stack, waits, packet_id')
    BY <1>0, <2>1, PairedSame DEF PairedNow
  <2> QED
    BY <1>1, <2>2 DEF PairedNow
<1>2. ASSUME UNCHANGED <<waits, packet_id>>, Started(stack') = Started(stack),
             \A i \in Started(stack) : stack'[i] = stack[i]
      PROVE  PairedNow'
  <2>1. packet_id =< packet_id
    BY <1>0
  <2>2. Paired(stack', waits, packet_id)
    BY <1>0, <1>2, <2>1, PairedSame DEF PairedNow
  <2> QED
    BY <1>2, <2>2 DEF PairedNow
<1>3. CASE UNCHANGED vars
  BY <1>1, <1>3 DEF vars
<1>4. ASSUME NEW h \in Handle, Subscribe(h) PROVE PairedNow'
  BY <1>1, <1>4 DEF Subscribe
<1>5. ASSUME NEW h \in Handle, SyncCall(h) PROVE PairedNow'
  <2> DEFINE e == Call(h, 0, 0)
  <2>1. /\ phase \in {"app", "callback"} /\ stack' = Append(stack, e)
        /\ UNCHANGED <<waits, packet_id>>
    BY <1>5 DEF SyncCall
  <2>2. e \in Frame /\ e \notin Callback /\ e[3] = 0
    BY Frames
  <2> HIDE DEF e
  <2>3. stack = <<>> \/ Last(stack) \in Callback
    BY <2>1 DEF StackOK, Top
  <2>4. /\ Started(stack') = Started(stack)
        /\ \A i \in Started(stack) : stack'[i] = stack[i]
    BY <1>0, <2>1, <2>2, <2>3, StartedPushed
  <2> QED
    BY <1>2, <2>1, <2>4
<1>6. ASSUME NEW f \in Filter, UnsubscribeSent(f) PROVE PairedNow'
  BY <1>1, <1>6 DEF UnsubscribeSent
<1>7. CASE UnsubscribeFails
  BY <1>1, <1>7 DEF UnsubscribeFails
<1>r. ASSUME phase = "sync", NEW id \in Id, NEW b \in 0..1,
             NEW t, t = PutBack(stack, Call(Top[2], id, b))
      PROVE  /\ Started(t) = Started(stack) \cup {Len(stack)}
             /\ t[Len(stack)] = Call(Top[2], id, b)
             /\ t[Len(stack)][3] = id /\ t[Len(stack)][4] = b
             /\ \A i \in Started(stack) : i # Len(stack) => t[i] = stack[i]
  <2> DEFINE c == Call(Top[2], id, b)
  <2>1. /\ stack # <<>> /\ Last(stack) \notin Callback /\ Top[2] \in Handle
        /\ Alternates(stack)
    BY <1>r, CallOnTop
  <2>2. c \in Frame /\ c \notin Callback /\ c[3] = id /\ c[4] = b /\ id # 0
    BY <2>1, Frames DEF Id
  <2>3. t = PutBack(stack, c)
    BY <1>r
  <2> HIDE DEF c
  <2>4. /\ Started(t) = Started(stack) \cup {Len(stack)}
        /\ t[Len(stack)] = c
        /\ \A i \in Started(stack) : i # Len(stack) => t[i] = stack[i]
    BY <2>1, <2>2, <2>3, StartedReplaced
  <2> QED
    BY <2>2, <2>4 DEF c
<1>n. ASSUME phase = "sync", NEW id \in Id, NEW last \in Nat,
             NEW s, s = PutBack(stack, Call(Top[2], id, 0)),
             NEW t, t = PutBack(stack, Call(Top[2], id, 1)),
             Paired(s, waits, last)
      PROVE  Paired(t, Append(waits, [id |-> id, ack |-> "none"]), last)
  <2> DEFINE e == [id |-> id, ack |-> "none"]
             top == Len(stack)
  <2>1. /\ Started(s) = Started(stack) \cup {top} /\ s[top][3] = id /\ s[top][4] = 0
        /\ \A i \in Started(stack) : i # top => s[i] = stack[i]
    BY <1>n, <1>r
  <2>2. /\ Started(t) = Started(stack) \cup {top} /\ t[top][3] = id /\ t[top][4] = 1
        /\ \A i \in Started(stack) : i # top => t[i] = stack[i]
    BY <1>n, <1>r
  <2>3. top \in Nat \ {0} /\ id \in Nat /\ e \in Node /\ e.id = id
    BY <1>n, CallOnTop DEF Node, Id
  <2>4. \A i \in Started(stack) : i \in 1..top
    BY <1>0
  <2> HIDE DEF e, top
  <2>5. \A i \in Started(s) : i \in Nat /\ s[i][3] \in Nat /\ (i # top => i < top)
    <3>1. ASSUME NEW i \in Started(s), i # top PROVE i \in Nat /\ s[i][3] \in Nat /\ i < top
      <4>1. i \in Started(stack) /\ s[i] = stack[i] /\ i \in 1..top
        BY <2>1, <2>4, <3>1
      <4> QED
        BY <1>0, <2>3, <3>1, <4>1
    <3> QED
      BY <2>1, <2>3, <3>1
  <2>6. Started(t) = Started(s) /\ top \in Started(s)
        /\ \A i \in Started(s) : i # top => t[i] = s[i]
    BY <2>1, <2>2
  <2>7. /\ s[top][4] = 0 /\ e.id = s[top][3] /\ t[top][3] = s[top][3] /\ t[top][4] = 1
        /\ waits \in Seq(Node) /\ Paired(s, waits, last)
    BY <1>0, <1>n, <2>1, <2>2, <2>3
  <2>8. Paired(t, Append(waits, e), last)
    BY <2>3, <2>5, <2>6, <2>7, PairedOpened
  <2> QED
    BY <2>8 DEF e
<1>8. CASE SyncSubscribe
  <2>1. /\ phase = "sync" /\ Top[3] = 0 /\ TakeId
        /\ WaitFor(packet_id') \/ UNCHANGED <<waits, stack>>
    BY <1>8 DEF SyncSubscribe
  <2>2. CASE UNCHANGED <<waits, stack>>
    BY <1>1, <2>1, <2>2
  <2>3. CASE WaitFor(packet_id')
    <3> DEFINE s == PutBack(stack, Call(Top[2], packet_id', 0))
               top == Len(stack)
    <3>1. packet_id' \in Id /\ packet_id' = packet_id + 1 /\ packet_id' \in Nat
      BY <2>1, SubsAssumption DEF TakeId, RestOK, SubsAssumption, Id
    <3>2. stack[top][3] = 0 /\ top \in Nat \ {0}
      BY <2>1, CallOnTop
    <3>3. /\ Started(s) = Started(stack) \cup {top}
          /\ s[top][3] = packet_id' /\ s[top][4] = 0
          /\ \A i \in Started(stack) : i # top => s[i] = stack[i]
      BY <1>r, <2>1, <3>1
    <3>4. s[top][3] = packet_id + 1 /\ s[top][4] = 0
      BY <3>1, <3>3
    <3>5. top \notin Started(stack)
      BY <3>2 DEF Started
    <3>6. \A i \in Started(stack) : /\ i \in Nat /\ i < top /\ stack[i][3] \in Nat
                                   /\ s[i] = stack[i]
      <4>1. \A i \in Started(stack) : i < top /\ i # top
        BY <1>0, <3>2, <3>5
      <4> QED
        BY <1>0, <3>3, <4>1
    <3> HIDE DEF s, top
    <3>7. Paired(s, waits, packet_id + 1)
      BY <1>0, <3>2, <3>3, <3>4, <3>6, PairedStarted DEF PairedNow
    <3>8. Paired(PutBack(stack, Call(Top[2], packet_id', 0)), waits, packet_id')
      BY <3>1, <3>7 DEF s
    <3>9. Paired(PutBack(stack, Call(Top[2], packet_id', 1)),
                 Append(waits, [id |-> packet_id', ack |-> "none"]), packet_id')
      BY <1>n, <2>1, <3>1, <3>8
    <3> QED
      BY <2>3, <3>8, <3>9 DEF WaitFor, PairedNow, PutBack
  <2> QED
    BY <2>1, <2>2, <2>3
<1>w. CASE SyncWaits
  <2>1. /\ phase = "sync" /\ Top[3] # 0 /\ Top[4] = 0 /\ WaitFor(Top[3])
        /\ packet_id' = packet_id
    BY <1>w DEF SyncWaits
  <2> DEFINE s == PutBack(stack, Call(Top[2], Top[3], 0))
  <2>2. /\ Top[3] \in Id /\ Top = stack[Len(stack)] /\ Top[4] = 0
        /\ Top = Call(Top[2], Top[3], Top[4])
        /\ Len(stack) \in Nat \ {0} /\ Top \notin Callback
    BY <2>1, CallOnTop
  <2>3. Len(stack) \in Started(stack)
    <3>1. stack \in Seq(Frame)
      BY <1>0 DEF Alternates
    <3>2. Len(stack) \in DOMAIN stack
      BY <2>2, <3>1
    <3> QED
      BY <2>1, <2>2, <3>2 DEF Started
  <2>4. /\ Started(s) = Started(stack) /\ \A i \in Started(stack) : s[i] = stack[i]
    <3>1. /\ Started(s) = Started(stack) \cup {Len(stack)}
          /\ s[Len(stack)] = Call(Top[2], Top[3], 0)
          /\ \A i \in Started(stack) : i # Len(stack) => s[i] = stack[i]
      BY <1>r, <2>1, <2>2
    <3> QED
      BY <2>2, <2>3, <3>1
  <2> HIDE DEF s
  <2>5. packet_id =< packet_id
    BY <1>0
  <2>6. Paired(s, waits, packet_id)
    BY <1>0, <2>4, <2>5, PairedSame DEF PairedNow
  <2>7. Paired(PutBack(stack, Call(Top[2], Top[3], 1)),
               Append(waits, [id |-> Top[3], ack |-> "none"]), packet_id)
    BY <1>0, <1>n, <2>1, <2>2, <2>6 DEF s
  <2> QED
    BY <2>1, <2>6, <2>7 DEF WaitFor, PairedNow, PutBack, s
<1>9. CASE SyncYields
  BY <1>1, <1>9 DEF SyncYields
<1>10. CASE CheckGranted
  BY <1>10, FirstGoes DEF CheckGranted, Answer, Return
<1>11. CASE CheckRefused
  BY <1>11, FirstGoes DEF CheckRefused, Answer, Return
<1>12. CASE CheckOpen
  <2>1. phase = "check" /\ packet_id' = packet_id /\ (TimeOut \/ UNCHANGED <<waits, stack>>)
    BY <1>12 DEF CheckOpen
  <2> QED
    BY <1>1, <2>1, OthersStay
<1>13. CASE Yield
  BY <1>1, <1>13 DEF Yield
<1>14. CASE KeepAlive
  BY <1>1, <1>14 DEF KeepAlive
<1>15. CASE KeepLoses \/ KeepReconnects
  <2>1. /\ phase = "keep" /\ UNCHANGED <<waits, packet_id>>
        /\ \E e \in Callback : stack' = Append(stack, e)
    BY <1>15 DEF KeepLoses, KeepReconnects, Callback
  <2>2. PICK e \in Callback : stack' = Append(stack, e)
    BY <2>1
  <2>3. stack = <<>> \/ Last(stack) \notin Callback
    BY <2>1 DEF StackOK, Top
  <2>4. /\ Started(stack') = Started(stack)
        /\ \A i \in Started(stack) : stack'[i] = stack[i]
    BY <1>0, <2>2, <2>3, Frames, StartedPushed
  <2> QED
    BY <1>2, <2>1, <2>4
<1>16. CASE LostReturns \/ BackReturns
  <2>1. /\ phase = "callback" /\ stack' = Front(stack)
        /\ UNCHANGED <<waits, packet_id>>
    BY <1>16 DEF LostReturns, BackReturns
  <2>2. stack # <<>> /\ stack[Len(stack)] \in Callback
    BY <2>1 DEF StackOK, Top, Last
  <2>3. Len(stack) \notin Started(stack)
    BY <2>2 DEF Started
  <2>4. /\ Started(stack') = Started(stack) \ {Len(stack)}
        /\ \A i \in Started(stack') : stack'[i] = stack[i]
    BY <1>0, <2>1, <2>2, StartedPopped
  <2> QED
    BY <1>2, <2>1, <2>3, <2>4
<1>17. CASE CycleNothing \/ CyclePartial
  BY <1>1, <1>17 DEF CycleNothing, CyclePartial
<1>m. ASSUME NEW id \in Id, NEW a \in {"yes", "no"}, Mark(id, a), UNCHANGED <<stack, packet_id>>
      PROVE  PairedNow'
  <2>1. /\ DOMAIN waits' = DOMAIN waits
        /\ \A i \in DOMAIN waits : waits'[i].id = waits[i].id
    BY <1>0, <1>m, Marked
  <2> QED
    BY <1>m, <2>1 DEF PairedNow, Paired
<1>18. CASE CycleSuback
  <2>1. PICK a \in acks : Mark(a[1], a[2])
    BY <1>18 DEF CycleSuback
  <2>2. UNCHANGED <<stack, packet_id>> /\ a[1] \in Id /\ a[2] \in {"yes", "no"}
    BY <1>18, <2>1 DEF CycleSuback, RestOK
  <2> QED
    BY <1>m, <2>1, <2>2
<1>g. CASE CycleGarbage
  BY <1>m, <1>g DEF CycleGarbage
<1>19. CASE HandlerReturns
  BY <1>1, <1>19 DEF HandlerReturns
<1>20. ASSUME NEW t \in Topic, CycleMessage(t) PROVE PairedNow'
  BY <1>1, <1>20 DEF CycleMessage
<1> QED
  BY <1>3, <1>4, <1>5, <1>6, <1>7, <1>8, <1>w, <1>9, <1>10, <1>11, <1>12, <1>13, <1>14,
     <1>15, <1>16, <1>17, <1>18, <1>g, <1>19, <1>20 DEF Next

(* list_sub_sync_ack holds a node for each call whose request is under     *)
(* way and for no other, in the order of the calls: no call that ended,    *)
(* answered or not, leaves one behind, whatever SUBACKs were lost or came  *)
(* late, so none keeps a later call from its answer.                       *)
THEOREM NodesAreCalls == Spec => []WaitsMatchCalls
<1>1. Init => PairedNow
  <2>1. waits = <<>> /\ stack = <<>> =>
          DOMAIN waits = {} /\ Started(stack) = {} /\ OpenIn(stack) = {}
    BY DEF OpenIn, Started
  <2> QED
    BY <2>1 DEF Init, PairedNow, Paired
<1>2. SubsAssumption /\ StackOK /\ RestOK /\ PairedNow /\ [Next]_vars => PairedNow'
  BY PairedStep
<1>3. StackOK /\ PairedNow => WaitsMatchCalls
  <2> SUFFICES ASSUME StackOK, PairedNow PROVE WaitsMatchCalls
    OBVIOUS
  <2>1. \A i \in DOMAIN stack : stack[i] \in Frame
    BY DEF StackOK, Alternates
  <2>2. \A i \in DOMAIN stack : stack[i] \notin Callback /\ stack[i][4] = 1 => stack[i][3] # 0
    BY <2>1, Frames DEF Id
  <2>3. Open = OpenIn(stack) /\ OpenIn(stack) \subseteq Started(stack)
    BY <2>2 DEF Open, OpenIn, Started, Calls
  <2> QED
    BY <2>3 DEF PairedNow, Paired, WaitsMatchCalls
<1> QED
  BY <1>1, <1>2, <1>3, SubsAssumption, WellFormed, PTL DEF Spec

=============================================================================
