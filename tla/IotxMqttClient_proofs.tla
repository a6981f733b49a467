------------------------ MODULE IotxMqttClient_proofs ------------------------
(***************************************************************************)
(* Theorems about the MQTT client over a socket, for every range of the    *)
(* identifiers, every length of the list and all limits of the keepalive   *)
(* and the reconnect.                                                      *)
(***************************************************************************)
EXTENDS IotxMqttClient, FiniteSetTheorems, SequenceTheorems, TLAPS

(* The places where the messages that are kept have been: each message at  *)
(* these places is kept, once, and changed only in that it may have        *)
(* reached the broker now.                                                 *)
KeptAt(at, places, late) ==
    /\ at \in [DOMAIN pubs' -> places]
    /\ \A i \in places : \E k \in DOMAIN pubs' : at[k] = i
    /\ \A j, k \in DOMAIN pubs' : at[j] = at[k] => j = k
    /\ \A k \in DOMAIN pubs' :
          pubs'[k] = [pubs[at[k]] EXCEPT !.got = @ \/ (at[k] \in late /\ ~broken)]

LEMMA KeptList ==
    ASSUME pubs \in Seq(Node), broken \in BOOLEAN,
           NEW places \in SUBSET (DOMAIN pubs), NEW late, Keep(places, late)
    PROVE  /\ pubs' \in Seq(Node) /\ Len(pubs') =< Len(pubs)
           /\ \E at : KeptAt(at, places, late)
<1>1. PICK at \in InOrder(places) :
         pubs' = [k \in DOMAIN at |->
                    [pubs[at[k]] EXCEPT !.got = @ \/ (at[k] \in late /\ ~broken)]]
  BY DEF Keep
<1> DEFINE n == Cardinality(places)
<1>2. IsFiniteSet(places) /\ n \in Nat /\ n =< Len(pubs)
  <2>1. DOMAIN pubs = 1..Len(pubs) /\ Len(pubs) \in Nat
    OBVIOUS
  <2>2. IsFiniteSet(1..Len(pubs)) /\ Cardinality(1..Len(pubs)) = Len(pubs)
    BY <2>1, FS_Interval
  <2> QED
    BY <2>1, <2>2, FS_Subset, FS_CardinalityType
<1> HIDE DEF n
<1>3. /\ at \in [1..n -> places]
      /\ \A i \in places : \E k \in 1..n : at[k] = i
      /\ \A j, k \in 1..n : at[j] = at[k] => j = k
  BY DEF InOrder, Bijection, Injection, Surjection, IsInjective, n
<1>4. /\ DOMAIN pubs' = 1..n
      /\ \A k \in 1..n :
            pubs'[k] = [pubs[at[k]] EXCEPT !.got = @ \/ (at[k] \in late /\ ~broken)]
  BY <1>1, <1>3
<1>5. ASSUME NEW k \in 1..n PROVE pubs'[k] \in Node
  <2>1. at[k] \in DOMAIN pubs /\ pubs[at[k]] \in Node
    BY <1>3
  <2>2. pubs[at[k]].got \in BOOLEAN
    BY <2>1 DEF Node
  <2> QED
    BY <1>4, <2>1, <2>2 DEF Node
<1>6. pubs' \in Seq(Node) /\ Len(pubs') = n
  <2>1. pubs' = [k \in 1..n |-> pubs'[k]]
    BY <1>1, <1>3
  <2> QED
    BY <1>2, <1>5, <2>1, IsASeq
<1>7. KeptAt(at, places, late)
  BY <1>3, <1>4 DEF KeptAt
<1> QED
  BY <1>2, <1>6, <1>7

-----------------------------------------------------------------------------
(* Type correctness. *)

(* The probes pass the maximum only between a ping and the read after it,  *)
(* which gives the connection up.                                          *)
ProbesWithin ==
    /\ pc # "cycle" => probes =< ProbeMax
    /\ probes > ProbeMax => state = "CONNECTED"

TypeInv == TypeOK /\ ProbesWithin

(* The place and the callbacks that run agree. *)
PlaceOK ==
    /\ pc \in Place
    /\ stack \in Seq({"lost", "back"}) /\ Len(stack) =< MaxNest
    /\ pc \in {"app", "lost", "back"} => pc = Home

LEMMA TypeInit == Init => TypeInv
<1> SUFFICES ASSUME Init PROVE TypeInv
  OBVIOUS
<1>1. NoAcks \in [Id -> 0..MaxAcks]
  BY IotxAssumption DEF NoAcks
<1>2. <<>> \in Seq(Node) /\ Len(<<>>) =< RepubNumMax
  BY IotxAssumption
<1>3. /\ IntervalMin \in Nat
      /\ 0 \in 0..PacketIdMax /\ 0 \in 0..(ProbeMax + 1) /\ 0 =< ProbeMax
  BY IotxAssumption
<1>4. TypeOK
  <2>1. <<>> \in Seq({"lost", "back"}) /\ Len(<<>>) =< MaxNest
    BY IotxAssumption
  <2> QED
    BY <1>1, <1>2, <1>3, <2>1 DEF Init, TypeOK, Place, Home
<1> QED
  BY <1>3, <1>4, IotxAssumption DEF Init, TypeInv, ProbesWithin

LEMMA TransmitType ==
    ASSUME TypeOK, NEW ids, Transmit(ids)
    PROVE  acks' \in [Id -> 0..MaxAcks]
BY IotxAssumption DEF TypeOK, Transmit

LEMMA TakenType ==
    ASSUME TypeOK, NEW id \in Id, acks[id] > 0
    PROVE  Taken(id) \in [Id -> 0..MaxAcks]
BY IotxAssumption DEF TypeOK, Taken

LEMMA NextIdType == TypeOK => NextPacketId \in Id /\ Id \subseteq 0..PacketIdMax
BY IotxAssumption DEF TypeOK, NextPacketId, Id

LEMMA ProbedType == TypeOK => Probed \in 0..ProbeMax /\ Probed =< probes
BY IotxAssumption DEF TypeOK, Probed

(* An acknowledgement marks the messages with its identifier. *)
LEMMA Masked ==
    ASSUME pubs \in Seq(Node), NEW id, NEW doubt \in BOOLEAN, Mask(id, doubt)
    PROVE  /\ pubs' \in Seq(Node) /\ Len(pubs') = Len(pubs)
           /\ \A i \in DOMAIN pubs :
                 /\ pubs'[i].id = pubs[i].id /\ pubs'[i].got = pubs[i].got
                 /\ pubs[i].id = id =>
                       /\ pubs'[i].acked
                       /\ pubs'[i].doubtful = (pubs[i].doubtful \/ doubt)
                 /\ pubs[i].id # id => pubs'[i] = pubs[i]
<1>1. /\ DOMAIN pubs = 1..Len(pubs) /\ Len(pubs) \in Nat
      /\ \A i \in DOMAIN pubs : pubs[i] \in Node
  OBVIOUS
<1>2. /\ DOMAIN pubs' = DOMAIN pubs
      /\ \A i \in DOMAIN pubs :
            pubs'[i] = IF pubs[i].id = id
                       THEN [pubs[i] EXCEPT !.acked = TRUE, !.doubtful = @ \/ doubt]
                       ELSE pubs[i]
  BY DEF Mask
<1>3. ASSUME NEW i \in DOMAIN pubs
      PROVE  /\ pubs'[i] \in Node
             /\ pubs'[i].id = pubs[i].id /\ pubs'[i].got = pubs[i].got
             /\ pubs[i].id = id =>
                   /\ pubs'[i].acked
                   /\ pubs'[i].doubtful = (pubs[i].doubtful \/ doubt)
  BY <1>1, <1>2 DEF Node
<1>4. pubs' = [i \in 1..Len(pubs) |-> pubs'[i]]
  BY <1>1 DEF Mask
<1>5. pubs' \in Seq(Node) /\ Len(pubs') = Len(pubs)
  BY <1>1, <1>3, <1>4, IsASeq
<1> QED
  BY <1>2, <1>3, <1>5

(* A message that is published is the last of the list, and casts doubt on *)
(* those with the same identifier.                                         *)
LEMMA Published ==
    ASSUME TypeOK, Publish, ~UNCHANGED <<pubs, acks>>
    PROVE  /\ pubs' \in Seq(Node) /\ Len(pubs') = Len(pubs) + 1
           /\ Len(pubs) < RepubNumMax
           /\ Transmit({NextPacketId})
           /\ \A i \in DOMAIN pubs :
                 /\ pubs'[i] \in Node
                 /\ pubs'[i].id = pubs[i].id /\ pubs'[i].got = pubs[i].got
                 /\ pubs'[i].acked = pubs[i].acked
                 /\ pubs[i].doubtful \/ pubs[i].id = NextPacketId => pubs'[i].doubtful
           /\ LET new == pubs'[Len(pubs) + 1] IN
                 /\ new.id = NextPacketId /\ ~new.acked
                 /\ new.got = ~broken
                 /\ (\E i \in DOMAIN pubs : pubs[i].id = new.id) => new.doubtful
                 /\ acks[new.id] > 0 => new.doubtful
<1> DEFINE id == NextPacketId
           same == {i \in DOMAIN pubs : pubs[i].id = id}
           twice == same # {} \/ acks[id] > 0
           old == [i \in DOMAIN pubs |-> [pubs[i] EXCEPT !.doubtful = @ \/ i \in same]]
           new == [id |-> id, acked |-> FALSE, got |-> ~broken, doubtful |-> twice]
<1>1. Len(pubs) < RepubNumMax /\ pubs' = Append(old, new) /\ Transmit({id})
  BY DEF Publish
<1>2. /\ DOMAIN pubs = 1..Len(pubs) /\ Len(pubs) \in Nat
      /\ \A i \in DOMAIN pubs : pubs[i] \in Node
      /\ id \in Id /\ broken \in BOOLEAN /\ twice \in BOOLEAN
  BY NextIdType DEF TypeOK
<1>3. ASSUME NEW i \in DOMAIN pubs
      PROVE  /\ old[i] \in Node /\ old[i].id = pubs[i].id /\ old[i].got = pubs[i].got
             /\ old[i].acked = pubs[i].acked
             /\ pubs[i].doubtful \/ pubs[i].id = id => old[i].doubtful
  BY <1>2 DEF Node
<1>4. new \in Node
  BY <1>2 DEF Node
<1>5. old \in Seq(Node) /\ Len(old) = Len(pubs)
  <2>1. old = [i \in 1..Len(pubs) |-> old[i]]
    BY <1>2
  <2> HIDE DEF old
  <2> QED
    BY <1>2, <1>3, <2>1, IsASeq
<1>8. /\ (\E i \in DOMAIN pubs : pubs[i].id = id) => twice
      /\ acks[id] > 0 => twice
      /\ new.id = id /\ ~new.acked /\ new.got = ~broken /\ new.doubtful = twice
  OBVIOUS
<1> HIDE DEF old, new, twice
<1>6. /\ pubs' \in Seq(Node) /\ Len(pubs') = Len(pubs) + 1
      /\ \A i \in 1..Len(pubs) : pubs'[i] = old[i]
      /\ pubs'[Len(pubs) + 1] = new
  <2>1. /\ Append(old, new) \in Seq(Node) /\ Len(Append(old, new)) = Len(old) + 1
        /\ \A i \in 1..Len(old) : Append(old, new)[i] = old[i]
        /\ Append(old, new)[Len(old) + 1] = new
    BY <1>4, <1>5, AppendProperties
  <2> QED
    BY <1>1, <1>5, <2>1
<1>7. LET last == pubs'[Len(pubs) + 1] IN
      /\ last.id = id /\ ~last.acked /\ last.got = ~broken
      /\ (\E i \in DOMAIN pubs : pubs[i].id = last.id) => last.doubtful
      /\ acks[last.id] > 0 => last.doubtful
  BY <1>6, <1>8
<1> QED
  BY <1>1, <1>2, <1>3, <1>6, <1>7

(* The list is walked. *)
LEMMA Walked ==
    ASSUME TypeOK, PubInfoProc
    PROVE  /\ pc = "proc" /\ pc' = Home
           /\ state' = state \/ (state = "CONNECTED" /\ state' = "DISCONNECTED")
           /\ UNCHANGED <<stack, packet_id, probes, retry, broken, torn, silent, told>>
           /\ \E places \in SUBSET (DOMAIN pubs), late \in SUBSET (DOMAIN pubs) :
                 /\ Keep(places, late)
                 /\ \A i \in DOMAIN pubs : ~pubs[i].acked => i \in places
<1> DEFINE open == {i \in DOMAIN pubs : ~pubs[i].acked}
           places(stop) == {i \in DOMAIN pubs : i >= stop \/ ~pubs[i].acked}
<1>1. ASSUME NEW late \in SUBSET open, NEW stop, Proc(late, stop)
      PROVE  /\ pc = "proc" /\ pc' = Home /\ Keep(places(stop), late)
             /\ UNCHANGED <<stack, packet_id, probes, retry, broken, torn, silent, told>>
  BY <1>1 DEF Proc
<1>2. PICK late \in SUBSET open : \E stop :
         /\ Proc(late, stop)
         /\ state' = state \/ (state = "CONNECTED" /\ state' = "DISCONNECTED")
  <2>1. {} \in SUBSET open
    OBVIOUS
  <2>2. ASSUME NEW stop \in open PROVE SUBSET {i \in open : i < stop} \subseteq SUBSET open
    OBVIOUS
  <2> QED
    BY <2>1, <2>2 DEF PubInfoProc
<1>3. PICK stop : Proc(late, stop)
  BY <1>2
<1> QED
  BY <1>1, <1>2, <1>3

(* A yield begins outside of the others, or in a callback. *)
LEMMA YieldPlace == TypeOK /\ CanYield => pc \in {"app", "lost", "back"}
BY DEF TypeOK, CanYield, Home

(* The callbacks that run change only when one begins or returns. *)
LEMMA PlaceNext ==
    ASSUME TypeOK, [Next]_vars
    PROVE  PlaceOK'
<1>1. /\ PlaceOK /\ MaxNest \in Nat \ {0}
      /\ stack # <<>> => Head(stack) \in {"lost", "back"}
      /\ Home \in {"app", "lost", "back"}
      /\ Home = "app" => stack = <<>>
  BY IotxAssumption DEF TypeOK, PlaceOK, Home
<1>2. ASSUME UNCHANGED stack,
             pc' \in {"cycle", "event", "acked", "proc"} \/ pc' = Home \/ pc' = pc
      PROVE  PlaceOK'
  BY <1>1, <1>2 DEF PlaceOK, Place, Home
<1>3. ASSUME NEW callback \in {"lost", "back"}, CanYield, Enter(callback)
      PROVE  PlaceOK'
  <2>1. stack' \in Seq({"lost", "back"}) /\ Len(stack') = Len(stack) + 1
        /\ stack' # <<>> /\ Head(stack') = callback
    BY <1>1, <1>3 DEF Enter, PlaceOK
  <2> QED
    BY <1>1, <1>3, <2>1 DEF CanYield, Enter, PlaceOK, Place, Home
<1>4. ASSUME NEW callback \in {"lost", "back"}, Leave(callback)
      PROVE  PlaceOK'
  <2>1. stack # <<>>
    BY <1>1, <1>4 DEF Leave, PlaceOK, Home
  <2>2. stack' \in Seq({"lost", "back"}) /\ Len(stack') = Len(stack) - 1
    BY <1>1, <1>4, <2>1 DEF Leave, PlaceOK
  <2> QED
    BY <1>1, <1>4, <2>2 DEF Leave, PlaceOK, Place
<1>5. CASE Construct \/ Release \/ Publish \/ Request \/ LinkBreaks
  BY <1>2, <1>5 DEF Construct, Release, Publish, Request, LinkBreaks, place
<1>6. CASE YieldQuiet \/ YieldPing \/ YieldWaits \/ ReconnectFails
  BY <1>2, <1>6 DEF YieldQuiet, YieldPing, YieldWaits, ReconnectFails
<1>7. CASE YieldLost \/ Reconnects
  BY <1>3, <1>7 DEF YieldLost, Reconnects
<1>8. CASE LostReturns \/ BackReturns
  BY <1>4, <1>8 DEF LostReturns, BackReturns
<1>9. CASE CycleDown \/ CycleTimeout \/ CycleError \/ CyclePartial \/ EventReturns
  BY <1>2, <1>9 DEF CycleDown, CycleTimeout, CycleError, CyclePartial, EventReturns
<1>10. CASE (\E id \in Id : CycleAck(id)) \/ CyclePacket \/ CycleGarbage
  BY <1>2, <1>10 DEF CycleAck, CyclePacket, CycleGarbage
<1>11. CASE PubInfoProc
  BY <1>2, <1>11, Walked
<1>12. CASE UNCHANGED vars
  BY <1>2, <1>12 DEF vars, place
<1> QED
  BY <1>5, <1>6, <1>7, <1>8, <1>9, <1>10, <1>11, <1>12 DEF Next, Yield

LEMMA TypeNext == TypeInv /\ [Next]_vars => TypeInv'
<1> SUFFICES ASSUME TypeInv, [Next]_vars PROVE TypeInv'
  OBVIOUS
<1>b. PlaceOK'
  BY PlaceNext DEF TypeInv
<1> USE <1>b DEF TypeInv, TypeOK, ProbesWithin, PlaceOK, retry, link
<1>a. /\ NoAcks \in [Id -> 0..MaxAcks]
      /\ <<>> \in Seq(Node) /\ Len(<<>>) =< RepubNumMax
      /\ IntervalMin \in Nat /\ IntervalMax \in Nat
      /\ ProbeMax \in Nat /\ PacketIdMax \in Nat
      /\ 0 \in 0..PacketIdMax /\ 0 \in 0..(ProbeMax + 1) /\ 0 =< ProbeMax
  BY IotxAssumption DEF NoAcks
<1>1. CASE Construct
  BY <1>a, <1>1 DEF Construct, NewLink, place
<1>2. CASE Release
  <2>1. /\ state' = "none" /\ pubs' = <<>> /\ packet_id' = 0 /\ probes' = 0
        /\ interval' = IntervalMin /\ wait' = 0 /\ reset' = FALSE
        /\ silent' = 0 /\ told' = "up"
        /\ broken' = FALSE /\ torn' = FALSE /\ acks' = NoAcks /\ pc' = "app"
    BY <1>2 DEF Release, NewLink, place
  <2>2. pubs' \in Seq(Node) /\ Len(pubs') =< RepubNumMax
    BY <1>a, <2>1
  <2>3. TypeOK'
    BY <1>a, <2>1, <2>2
  <2>4. ProbesWithin'
    BY <1>a, <2>1
  <2> QED
    BY <2>3, <2>4
<1>3. CASE Publish
  <2>1. /\ UNCHANGED <<probes, interval, wait, reset, pc, broken, torn, silent, told>>
        /\ packet_id' = NextPacketId /\ state = "CONNECTED"
        /\ state' = "CONNECTED" \/ (state' = "DISCONNECTED" /\ pubs' = pubs)
        /\ acks' = acks \/ Transmit({NextPacketId})
        /\ pc # "cycle"
    BY <1>3 DEF Publish, Calling, place
  <2>2. acks' \in [Id -> 0..MaxAcks]
    BY <2>1, TransmitType
  <2>3. packet_id' \in 0..PacketIdMax
    BY <2>1, NextIdType
  <2>4. pubs' \in Seq(Node) /\ Len(pubs') =< RepubNumMax
    <3>1. CASE pubs' = pubs
      BY <3>1
    <3>2. CASE pubs' # pubs
      BY <1>3, <3>2, Published, IotxAssumption
    <3> QED
      BY <3>1, <3>2
  <2> QED
    BY <1>a, <2>1, <2>2, <2>3, <2>4
<1>4. CASE Request
  <2>1. packet_id' \in 0..PacketIdMax
    BY <1>4, NextIdType DEF Request
  <2>2. /\ UNCHANGED <<probes, interval, wait, reset, pubs, pc, broken, torn, acks, silent, told>>
        /\ state # "none" /\ state' \in {state, "DISCONNECTED"} /\ pc # "cycle"
    BY <1>4 DEF Request, Calling, place
  <2> QED
    BY <1>a, <2>1, <2>2
<1>5. CASE LinkBreaks
  BY <1>a, <1>5 DEF LinkBreaks, place
<1>6. CASE YieldQuiet
  BY <1>a, <1>6 DEF YieldQuiet
<1>7. CASE YieldPing
  BY <1>a, <1>7, YieldPlace DEF YieldPing
<1>8. CASE YieldLost
  BY <1>a, <1>8, YieldPlace DEF YieldLost, Enter
<1>9. CASE LostReturns
  <2>1. /\ state' = "RECONNECTING" /\ pc = "lost" /\ pc' = "cycle"
        /\ interval' = IntervalMin /\ wait' = IntervalMin /\ reset' = FALSE
        /\ broken' = FALSE /\ torn' = FALSE /\ acks' = NoAcks
        /\ UNCHANGED <<packet_id, probes, pubs, silent, told>>
    BY <1>9 DEF LostReturns, Leave, NewLink
  <2>2. TypeOK'
    BY <1>a, <2>1
  <2>3. ProbesWithin'
    BY <1>a, <2>1
  <2> QED
    BY <2>2, <2>3
<1>10. CASE YieldWaits
  BY <1>a, <1>10 DEF YieldWaits
<1>11. CASE ReconnectFails
  <2>1. interval' \in Nat /\ wait' \in Nat
    BY <1>a, <1>11 DEF ReconnectFails
  <2> QED
    BY <1>a, <1>11, <2>1 DEF ReconnectFails
<1>12. CASE Reconnects
  BY <1>a, <1>12, YieldPlace DEF Reconnects, Enter, NewLink
<1>13. CASE BackReturns
  BY <1>a, <1>13 DEF BackReturns, Leave
<1>14. CASE CycleDown
  BY <1>a, <1>14 DEF CycleDown
<1>15. CASE CycleTimeout
  BY <1>a, <1>15, ProbedType DEF CycleTimeout, GiveUp
<1>16. CASE CycleError
  BY <1>a, <1>16, ProbedType DEF CycleError
<1>17. CASE CyclePartial
  <2>1. acks' \in [Id -> 0..MaxAcks]
    BY <1>17, TakenType DEF CyclePartial
  <2> QED
    BY <1>a, <1>17, <2>1, ProbedType DEF CyclePartial, GiveUp
<1>18. ASSUME NEW id \in Id, CycleAck(id) PROVE TypeInv'
  <2>1. acks' \in [Id -> 0..MaxAcks]
    BY <1>18, TakenType DEF CycleAck
  <2>2. pubs' \in Seq(Node) /\ Len(pubs') = Len(pubs)
    BY <1>18, Masked DEF CycleAck
  <2> QED
    BY <1>a, <1>18, <2>1, <2>2 DEF CycleAck, GiveUp, Alive
<1>19. CASE CyclePacket
  BY <1>a, <1>19 DEF CyclePacket, GiveUp, Alive
<1>20. CASE CycleGarbage
  <2>1. pubs' \in Seq(Node) /\ Len(pubs') = Len(pubs)
    BY <1>20, Masked DEF CycleGarbage
  <2>2. probes' \in 0..ProbeMax /\ silent' \in 0..(ProbeMax + 1)
    <3>1. (probes' = 0 /\ silent' = 0) \/ (probes' = Probed /\ silent' = silent)
      BY <1>20 DEF CycleGarbage, Alive
    <3>2. Probed \in 0..ProbeMax
      BY ProbedType
    <3> QED
      BY <1>a, <3>1, <3>2
  <2>3. /\ state' \in {state, "DISCONNECTED"} /\ state = "CONNECTED" /\ pc' = "event"
        /\ UNCHANGED <<packet_id, interval, wait, reset, broken, torn, acks, told>>
    BY <1>20 DEF CycleGarbage, GiveUp
  <2> QED
    BY <1>a, <2>1, <2>2, <2>3
<1>21. CASE EventReturns
  BY <1>a, <1>21 DEF EventReturns
<1>22. CASE PubInfoProc
  <2>1. acks' \in [Id -> 0..MaxAcks]
    BY <1>22, Walked, TransmitType DEF Keep
  <2>2. pubs' \in Seq(Node) /\ Len(pubs') =< Len(pubs)
    BY <1>22, Walked, KeptList
  <2>3. Len(pubs') =< RepubNumMax
    BY <2>2, IotxAssumption
  <2> QED
    BY <1>a, <1>22, Walked, <2>1, <2>2, <2>3
<1>23. CASE UNCHANGED vars
  BY <1>23 DEF vars, place
<1> QED
  BY <1>1, <1>2, <1>3, <1>4, <1>5, <1>6, <1>7, <1>8, <1>9, <1>10, <1>11, <1>12,
     <1>13, <1>14, <1>15, <1>16, <1>17, <1>18, <1>19, <1>20, <1>21, <1>22, <1>23
  DEF Next, Yield

(* The client keeps its types: above all, the list of the messages that    *)
(* wait stays within its length, and the probes within their limit.        *)
THEOREM TypeCorrect == Spec => []TypeOK
<1>1. TypeInv => TypeOK
  BY DEF TypeInv
<1> QED
  BY <1>1, TypeInit, TypeNext, PTL DEF Spec

LEMMA AlwaysTypeInv == Spec => []TypeInv
BY TypeInit, TypeNext, PTL DEF Spec

-----------------------------------------------------------------------------
(* The keepalive gives a connection up only after its pings were not       *)
(* answered.                                                               *)
LEMMA SilenceNext ==
    ASSUME TypeInv, ProbesCountSilence, [Next]_vars
    PROVE  ProbesCountSilence'
<1> USE DEF ProbesCountSilence
<1>1. /\ probes \in Nat /\ silent \in Nat /\ ProbeMax \in Nat
      /\ silent =< ProbeMax + 1 /\ Probed \in 0..ProbeMax /\ Probed =< probes
      /\ pc # "cycle" => probes =< ProbeMax
  BY ProbedType, IotxAssumption DEF TypeInv, TypeOK, ProbesWithin
<1>2. CASE UNCHANGED <<probes, silent>>
  BY <1>2
<1>3. CASE probes' = 0 /\ silent' = 0
  BY <1>1, <1>3
<1>4. CASE probes' = Probed /\ silent' = silent
  BY <1>1, <1>4
<1>5. CASE Construct \/ Release
  BY <1>3, <1>5 DEF Construct, Release
<1>6. CASE Publish \/ Request \/ LinkBreaks \/ YieldQuiet \/ YieldLost \/ LostReturns
           \/ YieldWaits \/ ReconnectFails \/ BackReturns \/ CycleDown \/ EventReturns
  BY <1>2, <1>6 DEF Publish, Request, LinkBreaks, YieldQuiet, YieldLost, LostReturns,
                    YieldWaits, ReconnectFails, BackReturns, CycleDown, EventReturns
<1>7. CASE YieldPing
  BY <1>1, <1>7, YieldPlace DEF YieldPing, TypeInv
<1>8. CASE Reconnects
  BY <1>1, <1>8, YieldPlace DEF Reconnects, TypeInv
<1>9. CASE CycleTimeout \/ CycleError \/ CyclePartial
  BY <1>4, <1>9 DEF CycleTimeout, CycleError, CyclePartial
<1>10. CASE (\E id \in Id : CycleAck(id)) \/ CyclePacket
  BY <1>3, <1>10 DEF CycleAck, CyclePacket, Alive
<1>11. CASE CycleGarbage
  BY <1>3, <1>4, <1>11 DEF CycleGarbage, Alive
<1>12. CASE PubInfoProc
  BY <1>2, <1>12, Walked DEF TypeInv
<1>13. CASE UNCHANGED vars
  BY <1>2, <1>13 DEF vars
<1> QED
  BY <1>5, <1>6, <1>7, <1>8, <1>9, <1>10, <1>11, <1>12, <1>13 DEF Next, Yield

(* The probes are pings without an answer on this connection, and at most  *)
(* as many as are allowed from the one before.                             *)
THEOREM ProbesAreSilence == Spec => []ProbesCountSilence
<1>1. Init => ProbesCountSilence
  BY IotxAssumption DEF Init, ProbesCountSilence
<1> QED
  BY <1>1, SilenceNext, AlwaysTypeInv, PTL DEF Spec

-----------------------------------------------------------------------------
(* The waits between the attempts of an outage: while no callback that     *)
(* told of a connection returned after it was set, the wait is the         *)
(* interval cut at the maximum.                                            *)
Cut == IF IntervalMax < interval THEN IntervalMax ELSE interval
WaitIsCut ==
    /\ interval >= IntervalMin
    /\ state = "RECONNECTING" =>
          wait \in IntervalMin..IntervalMax /\ (reset \/ wait = Cut)

(* An outage starts when the callback that tells of it returns; the wait   *)
(* changes with an attempt that fails, and another callback that returns   *)
(* sets back the interval alone.                                           *)
LEMMA OutageSteps ==
    ASSUME TypeInv, Next, state' = "RECONNECTING"
    PROVE  \/ LostReturns
           \/ /\ state = "RECONNECTING"
              /\ BackReturns \/ ReconnectFails \/ UNCHANGED retry
<1>1. ~Construct /\ ~Release /\ ~YieldPing /\ ~YieldQuiet /\ ~YieldLost /\ ~Reconnects
  BY DEF Construct, Release, YieldPing, YieldQuiet, YieldLost, Reconnects
<1>2. ~CycleTimeout /\ ~CycleError /\ ~CyclePartial /\ ~CyclePacket /\ ~CycleGarbage
      /\ (\A id \in Id : ~CycleAck(id))
  BY DEF CycleTimeout, CycleError, CyclePartial, CyclePacket, CycleGarbage, CycleAck, GiveUp
<1>3. CASE Publish \/ Request \/ LinkBreaks \/ YieldWaits \/ CycleDown \/ EventReturns
  BY <1>3 DEF Publish, Request, LinkBreaks, YieldWaits, CycleDown, EventReturns
<1>4. CASE ReconnectFails \/ BackReturns
  BY <1>4 DEF ReconnectFails, BackReturns
<1>5. CASE PubInfoProc
  BY <1>5, Walked DEF TypeInv
<1> QED
  BY <1>1, <1>2, <1>3, <1>4, <1>5 DEF Next, Yield

(* Outside of an outage the interval is kept, or set to the minimum. *)
LEMMA OtherSteps ==
    ASSUME TypeInv, Next
    PROVE  interval' = interval \/ interval' = IntervalMin \/ ReconnectFails
<1>1. CASE Construct \/ Release \/ LostReturns \/ BackReturns
  BY <1>1 DEF Construct, Release, LostReturns, BackReturns
<1>2. CASE Publish \/ Request \/ LinkBreaks \/ YieldQuiet \/ YieldPing \/ YieldLost
           \/ YieldWaits \/ Reconnects \/ CycleDown \/ EventReturns
  BY <1>2 DEF Publish, Request, LinkBreaks, YieldQuiet, YieldPing, YieldLost, YieldWaits,
              Reconnects, CycleDown, EventReturns, retry
<1>3. CASE CycleTimeout \/ CycleError \/ CyclePartial \/ (\E id \in Id : CycleAck(id))
           \/ CyclePacket \/ CycleGarbage
  BY <1>3 DEF CycleTimeout, CycleError, CyclePartial, CycleAck, CyclePacket, CycleGarbage,
              retry
<1>4. CASE PubInfoProc
  BY <1>4, Walked DEF TypeInv, retry
<1> QED
  BY <1>1, <1>2, <1>3, <1>4 DEF Next, Yield

LEMMA WaitNext ==
    ASSUME TypeInv, WaitIsCut, [Next]_vars
    PROVE  WaitIsCut'
<1>1. IntervalMin \in Nat /\ IntervalMax \in Nat /\ IntervalMin =< IntervalMax
      /\ interval \in Nat /\ interval >= IntervalMin
  BY IotxAssumption DEF TypeInv, TypeOK, WaitIsCut
<1>2. CASE UNCHANGED vars
  BY <1>2 DEF vars, retry, WaitIsCut, Cut
<1>3. CASE Next
  <2>1. interval' >= IntervalMin
    <3>1. CASE ReconnectFails
      BY <1>1, <3>1 DEF ReconnectFails
    <3> QED
      BY <1>1, <1>3, <3>1, OtherSteps
  <2>2. ASSUME state' = "RECONNECTING"
        PROVE  wait' \in IntervalMin..IntervalMax /\ (reset' \/ wait' = Cut')
    <3>1. CASE LostReturns
      BY <1>1, <3>1 DEF LostReturns, Cut
    <3>2. CASE state = "RECONNECTING" /\ BackReturns
      BY <3>2 DEF BackReturns, WaitIsCut
    <3>3. CASE state = "RECONNECTING" /\ ReconnectFails
      BY <1>1, <3>3 DEF ReconnectFails, Cut
    <3>4. CASE state = "RECONNECTING" /\ UNCHANGED retry
      BY <3>4 DEF retry, WaitIsCut, Cut
    <3> QED
      BY <1>3, <2>2, <3>1, <3>2, <3>3, <3>4, OutageSteps
  <2> QED
    BY <2>1, <2>2 DEF WaitIsCut
<1> QED
  BY <1>2, <1>3

(* During an outage the wait stays within its limits and gets no shorter,  *)
(* unless a callback returned that told of another connection: the loss of *)
(* one, which sets the wait back at once, or its return, which lets the    *)
(* next failure do so.                                                     *)
THEOREM WaitsGrowBetweenCallbacks == Spec => WaitsGrow
<1>1. Init => WaitIsCut
  BY IotxAssumption DEF Init, WaitIsCut
<1>2. TypeInv /\ WaitIsCut /\ WaitIsCut' /\ [Next]_vars =>
        [Outage => /\ wait' \in IntervalMin..IntervalMax
                   /\ wait' >= wait \/ reset \/ stack' = Tail(stack)]_vars
  <2> SUFFICES ASSUME TypeInv, WaitIsCut, WaitIsCut', Next, Outage
               PROVE  /\ wait' \in IntervalMin..IntervalMax
                      /\ wait' >= wait \/ reset \/ stack' = Tail(stack)
    OBVIOUS
  <2>1. /\ IntervalMin \in Nat /\ IntervalMax \in Nat /\ IntervalMin =< IntervalMax
        /\ interval \in Nat /\ interval >= IntervalMin
        /\ wait \in Nat
    BY IotxAssumption DEF TypeInv, TypeOK, WaitIsCut
  <2>2. wait' \in IntervalMin..IntervalMax
    BY DEF Outage, WaitIsCut
  <2>3. CASE LostReturns \/ BackReturns
    BY <2>2, <2>3 DEF LostReturns, BackReturns, Leave
  <2>4. CASE ReconnectFails
    BY <2>1, <2>2, <2>4 DEF ReconnectFails, Outage, WaitIsCut, Cut
  <2>5. CASE UNCHANGED retry
    BY <2>1, <2>2, <2>5 DEF retry
  <2> QED
    BY <2>3, <2>4, <2>5, OutageSteps DEF Outage
<1> QED
  BY <1>1, <1>2, WaitNext, AlwaysTypeInv, PTL DEF Spec, WaitsGrow

-----------------------------------------------------------------------------
(* Which messages are acknowledged. *)

(* An acknowledgement, be it on its way or noted, is that of a message     *)
(* that reached the broker, or of one whose identifier is in doubt.        *)
AcksAreEarned ==
    /\ \A i \in DOMAIN pubs : pubs[i].acked => pubs[i].got \/ pubs[i].doubtful
    /\ \A i, j \in DOMAIN pubs :
          i # j /\ pubs[i].id = pubs[j].id => pubs[i].doubtful
    /\ ~torn => \A i \in DOMAIN pubs :
                   acks[pubs[i].id] > 0 => pubs[i].got \/ pubs[i].doubtful

LEMMA WaitingNodes ==
    ASSUME TypeOK
    PROVE  /\ DOMAIN pubs = 1..Len(pubs) /\ Len(pubs) \in Nat
           /\ \A i \in DOMAIN pubs : pubs[i] \in Node /\ pubs[i].id \in Id
<1>1. pubs \in Seq(Node)
  BY DEF TypeOK
<1>2. /\ DOMAIN pubs = 1..Len(pubs) /\ Len(pubs) \in Nat
      /\ \A i \in DOMAIN pubs : pubs[i] \in Node
  BY <1>1
<1> QED
  BY <1>2 DEF Node

LEMMA EarnedFrame ==
    ASSUME TypeOK, AcksAreEarned, UNCHANGED pubs,
           \/ torn'
           \/ acks' = NoAcks
           \/ torn' = torn /\ (acks' = acks \/ \E id \in Id : acks' = Taken(id))
    PROVE  AcksAreEarned'
<1>1. \A i \in DOMAIN pubs : pubs[i].id \in Id
  BY WaitingNodes
<1>2. acks \in [Id -> 0..MaxAcks] /\ MaxAcks \in Nat
  BY IotxAssumption DEF TypeOK
<1>3. CASE acks' = NoAcks
  BY <1>1, <1>3 DEF AcksAreEarned, NoAcks
<1>4. CASE torn'
  BY <1>4 DEF AcksAreEarned
<1>5. CASE torn' = torn /\ (acks' = acks \/ \E id \in Id : acks' = Taken(id))
  <2>1. \A id \in Id : acks'[id] > 0 => acks[id] > 0
    BY <1>2, <1>5 DEF Taken
  <2> QED
    BY <1>1, <1>5, <2>1 DEF AcksAreEarned
<1> QED
  BY <1>3, <1>4, <1>5

LEMMA EarnedPublish ==
    ASSUME TypeOK, AcksAreEarned, Publish, ~UNCHANGED <<pubs, acks>>
    PROVE  AcksAreEarned'
<1> DEFINE n == Len(pubs) + 1
           id == NextPacketId
<1>1. /\ DOMAIN pubs = 1..Len(pubs) /\ Len(pubs) \in Nat
      /\ DOMAIN pubs' = 1..n
      /\ \A i \in DOMAIN pubs : pubs[i] \in Node
  BY Published DEF TypeOK
<1>2. /\ \A i \in DOMAIN pubs :
            /\ pubs'[i].id = pubs[i].id /\ pubs'[i].got = pubs[i].got
            /\ pubs'[i].acked = pubs[i].acked
            /\ pubs[i].doubtful \/ pubs[i].id = id => pubs'[i].doubtful
      /\ pubs'[n].id = id /\ ~pubs'[n].acked /\ pubs'[n].got = ~broken
      /\ (\E i \in DOMAIN pubs : pubs[i].id = id) => pubs'[n].doubtful
      /\ acks[id] > 0 => pubs'[n].doubtful
  BY Published
<1>3. torn' = torn
  BY DEF Publish
<1>4. ASSUME NEW i \in DOMAIN pubs', pubs'[i].acked
      PROVE  pubs'[i].got \/ pubs'[i].doubtful
  BY <1>1, <1>2, <1>4 DEF AcksAreEarned
<1>5. ASSUME NEW i \in DOMAIN pubs', NEW j \in DOMAIN pubs',
             i # j, pubs'[i].id = pubs'[j].id
      PROVE  pubs'[i].doubtful
  BY <1>1, <1>2, <1>5 DEF AcksAreEarned
<1>6. ASSUME ~torn', NEW i \in DOMAIN pubs', acks'[pubs'[i].id] > 0
      PROVE  pubs'[i].got \/ pubs'[i].doubtful
  <2>1. pubs'[i].id \in Id
    BY <1>1, <1>2, NextIdType DEF Node
  <2>2. acks'[pubs'[i].id] > 0 => acks[pubs'[i].id] > 0 \/ (pubs'[i].id = id /\ ~broken)
    BY <2>1, Published DEF Transmit
  <2>3. CASE i = n
    BY <1>2, <1>6, <2>2, <2>3
  <2>4. CASE i \in DOMAIN pubs
    BY <1>2, <1>3, <1>6, <2>2, <2>4 DEF AcksAreEarned
  <2> QED
    BY <1>1, <2>3, <2>4
<1> QED
  BY <1>4, <1>5, <1>6 DEF AcksAreEarned

LEMMA EarnedMask ==
    ASSUME TypeOK, AcksAreEarned, NEW id \in Id, NEW doubt \in BOOLEAN, Mask(id, doubt),
           torn' = torn, acks' = acks \/ acks' = Taken(id),
           doubt \/ (~torn /\ acks[id] > 0)
    PROVE  AcksAreEarned'
<1>1. /\ DOMAIN pubs' = DOMAIN pubs
      /\ \A i \in DOMAIN pubs : pubs[i].id \in Id
  BY WaitingNodes DEF Mask
<1>2. \A i \in DOMAIN pubs :
         /\ pubs'[i].id = pubs[i].id /\ pubs'[i].got = pubs[i].got
         /\ pubs[i].id = id => pubs'[i].doubtful = (pubs[i].doubtful \/ doubt)
         /\ pubs[i].id # id => pubs'[i] = pubs[i]
  BY Masked DEF TypeOK
<1>3. \A i \in DOMAIN pubs : pubs[i].doubtful => pubs'[i].doubtful
  BY <1>2
<1>4. \A i \in DOMAIN pubs : pubs[i].id = id => pubs'[i].got \/ pubs'[i].doubtful
  BY <1>2 DEF AcksAreEarned
<1>5. \A k \in Id : acks'[k] > 0 => acks[k] > 0
  BY IotxAssumption DEF TypeOK, Taken
<1>6. \A i \in DOMAIN pubs' : pubs'[i].acked => pubs'[i].got \/ pubs'[i].doubtful
  BY <1>1, <1>2, <1>4 DEF AcksAreEarned
<1>7. \A i, j \in DOMAIN pubs' : i # j /\ pubs'[i].id = pubs'[j].id => pubs'[i].doubtful
  BY <1>1, <1>2, <1>3 DEF AcksAreEarned
<1>8. ~torn' => \A i \in DOMAIN pubs' :
                  acks'[pubs'[i].id] > 0 => pubs'[i].got \/ pubs'[i].doubtful
  BY <1>1, <1>2, <1>3, <1>5 DEF AcksAreEarned
<1> QED
  BY <1>6, <1>7, <1>8 DEF AcksAreEarned

LEMMA EarnedWalk ==
    ASSUME TypeOK, AcksAreEarned, PubInfoProc
    PROVE  AcksAreEarned'
<1>1. PICK places \in SUBSET (DOMAIN pubs), late \in SUBSET (DOMAIN pubs) :
         Keep(places, late)
  BY Walked
<1>2. torn' = torn
  BY Walked
<1>3. /\ DOMAIN pubs = 1..Len(pubs)
      /\ \A i \in DOMAIN pubs : pubs[i] \in Node /\ pubs[i].id \in Id
  BY WaitingNodes
<1>4. PICK at : KeptAt(at, places, late)
  <2>1. pubs \in Seq(Node) /\ broken \in BOOLEAN
    BY DEF TypeOK
  <2> QED
    BY <1>1, <2>1, KeptList
<1>5. ASSUME NEW k \in DOMAIN pubs'
      PROVE  /\ at[k] \in DOMAIN pubs
             /\ pubs'[k].id = pubs[at[k]].id /\ pubs'[k].acked = pubs[at[k]].acked
             /\ pubs'[k].doubtful = pubs[at[k]].doubtful
             /\ pubs'[k].got = (pubs[at[k]].got \/ (at[k] \in late /\ ~broken))
  <2>1. at[k] \in DOMAIN pubs /\ pubs[at[k]] \in Node
    BY <1>3, <1>4 DEF KeptAt
  <2> QED
    BY <1>4, <2>1 DEF KeptAt, Node
<1>6. ASSUME NEW k \in DOMAIN pubs', pubs'[k].acked
      PROVE  pubs'[k].got \/ pubs'[k].doubtful
  BY <1>5, <1>6 DEF AcksAreEarned
<1>7. ASSUME NEW j \in DOMAIN pubs', NEW k \in DOMAIN pubs',
             j # k, pubs'[j].id = pubs'[k].id
      PROVE  pubs'[j].doubtful
  BY <1>4, <1>5, <1>7 DEF AcksAreEarned, KeptAt
<1>8. ASSUME ~torn', NEW k \in DOMAIN pubs', acks'[pubs'[k].id] > 0
      PROVE  pubs'[k].got \/ pubs'[k].doubtful
  <2>1. pubs'[k].id \in Id /\ at[k] \in DOMAIN pubs
    BY <1>3, <1>5
  <2>2. \/ acks[pubs'[k].id] > 0
        \/ ~broken /\ \E l \in late : pubs[l].id = pubs'[k].id
    BY <1>1, <1>8, <2>1 DEF Keep, Transmit
  <2>3. CASE acks[pubs'[k].id] > 0
    BY <1>2, <1>5, <1>8, <2>3 DEF AcksAreEarned
  <2>4. ASSUME ~broken, NEW l \in late, pubs[l].id = pubs'[k].id
        PROVE  pubs'[k].got \/ pubs'[k].doubtful
    <3>1. CASE l = at[k]
      BY <1>5, <2>4, <3>1
    <3>2. CASE l # at[k]
      BY <1>5, <2>4, <3>2 DEF AcksAreEarned
    <3> QED
      BY <3>1, <3>2
  <2> QED
    BY <2>2, <2>3, <2>4
<1> QED
  BY <1>6, <1>7, <1>8 DEF AcksAreEarned

LEMMA EarnedNext ==
    ASSUME TypeInv, AcksAreEarned, [Next]_vars
    PROVE  AcksAreEarned'
<1>0. TypeOK
  BY DEF TypeInv
<1>1. CASE Construct \/ LostReturns \/ Reconnects
  BY <1>0, <1>1, EarnedFrame DEF Construct, LostReturns, Reconnects, NewLink
<1>2. CASE Release
  BY <1>2 DEF Release, AcksAreEarned
<1>3. CASE Publish
  <2>1. CASE UNCHANGED <<pubs, acks>>
    BY <1>0, <1>3, <2>1, EarnedFrame DEF Publish
  <2> QED
    BY <1>0, <1>3, <2>1, EarnedPublish
<1>4. CASE Request \/ YieldQuiet \/ YieldPing \/ YieldLost \/ YieldWaits \/ ReconnectFails
           \/ BackReturns \/ CycleDown \/ CycleTimeout \/ CycleError \/ CyclePacket
           \/ EventReturns
  <2>1. UNCHANGED <<pubs, torn, acks>>
    BY <1>4 DEF Request, YieldQuiet, YieldPing, YieldLost, YieldWaits, ReconnectFails,
                BackReturns, CycleDown, CycleTimeout, CycleError, CyclePacket,
                EventReturns, link
  <2> QED
    BY <1>0, <2>1, EarnedFrame
<1>5. CASE LinkBreaks
  BY <1>0, <1>5, EarnedFrame DEF LinkBreaks
<1>6. CASE CyclePartial
  BY <1>0, <1>6, EarnedFrame DEF CyclePartial
<1>7. ASSUME NEW id \in Id, CycleAck(id) PROVE AcksAreEarned'
  <2>1. torn \in BOOLEAN
    BY <1>0 DEF TypeOK
  <2> QED
    BY <1>0, <1>7, <2>1, EarnedMask DEF CycleAck
<1>8. CASE CycleGarbage
  <2>1. torn' = torn /\ acks' = acks
    BY <1>8 DEF CycleGarbage, link
  <2>2. (\E id \in Id : Mask(id, TRUE)) \/ UNCHANGED pubs
    BY <1>8 DEF CycleGarbage
  <2> QED
    BY <1>0, <2>1, <2>2, EarnedMask, EarnedFrame
<1>9. CASE PubInfoProc
  BY <1>0, <1>9, EarnedWalk
<1>10. CASE UNCHANGED vars
  BY <1>0, <1>10, EarnedFrame DEF vars, link
<1> QED
  BY <1>1, <1>2, <1>3, <1>4, <1>5, <1>6, <1>7, <1>8, <1>9, <1>10 DEF Next, Yield

(* The walk drops no message but one that the broker has, or whose         *)
(* identifier is in doubt.                                                 *)
THEOREM OnlyDeliveredGo == Spec => GoneMeansDelivered
<1>1. Init => AcksAreEarned
  BY DEF Init, AcksAreEarned
<1>2. TypeInv /\ AcksAreEarned /\ [Next]_vars =>
        [pc = "proc" =>
           \A i \in DOMAIN pubs :
              \/ pubs[i].got \/ pubs[i].doubtful
              \/ \E k \in DOMAIN pubs' : pubs'[k].id = pubs[i].id]_vars
  <2> SUFFICES ASSUME TypeInv, AcksAreEarned, Next, pc = "proc", NEW i \in DOMAIN pubs
               PROVE  \/ pubs[i].got \/ pubs[i].doubtful
                      \/ \E k \in DOMAIN pubs' : pubs'[k].id = pubs[i].id
    OBVIOUS
  <2>1. CASE UNCHANGED pubs
    BY <2>1
  <2>2. CASE PubInfoProc
    <3>1. CASE pubs[i].acked
      BY <3>1 DEF AcksAreEarned
    <3>2. CASE ~pubs[i].acked
      <4>1. PICK places \in SUBSET (DOMAIN pubs), late \in SUBSET (DOMAIN pubs) :
               Keep(places, late) /\ i \in places
        BY <2>2, <3>2, Walked DEF TypeInv
      <4>2. pubs \in Seq(Node) /\ broken \in BOOLEAN
        BY DEF TypeInv, TypeOK
      <4>3. PICK at : KeptAt(at, places, late)
        BY <4>1, <4>2, KeptList
      <4>4. PICK k \in DOMAIN pubs' : at[k] = i
        BY <4>1, <4>3 DEF KeptAt
      <4>5. pubs'[k].id = pubs[i].id
        BY <4>3, <4>4, WaitingNodes DEF TypeInv, Node, KeptAt
      <4> QED
        BY <4>5
    <3> QED
      BY <3>1, <3>2
  <2>3. ~Construct /\ ~Release /\ ~Publish
    BY DEF Construct, Release, Publish, Calling, TypeInv, TypeOK
  <2>4. /\ ~CycleGarbage /\ \A id \in Id : ~CycleAck(id)
    BY DEF CycleGarbage, CycleAck, GiveUp
  <2>5. CASE Request \/ LinkBreaks \/ YieldQuiet \/ YieldPing \/ YieldLost \/ LostReturns
             \/ YieldWaits \/ ReconnectFails \/ Reconnects \/ BackReturns \/ CycleDown
             \/ CycleTimeout \/ CycleError \/ CyclePartial \/ CyclePacket \/ EventReturns
    BY <2>1, <2>5 DEF Request, LinkBreaks, YieldQuiet, YieldPing, YieldLost, LostReturns,
          YieldWaits, ReconnectFails, Reconnects, BackReturns, CycleDown, CycleTimeout,
          CycleError, CyclePartial, CyclePacket, EventReturns
  <2> QED
    BY <2>2, <2>3, <2>4, <2>5 DEF Next, Yield
<1> QED
  BY <1>1, <1>2, EarnedNext, AlwaysTypeInv, PTL DEF Spec, GoneMeansDelivered
=============================================================================
