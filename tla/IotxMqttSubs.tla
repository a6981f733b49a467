---------------------------- MODULE IotxMqttSubs ----------------------------
(***************************************************************************)
(* The subscriptions of eng/mqtt/iotx_mqtt_client.c: the list of handlers  *)
(* and its walk for each message, subscribing with and without waiting for *)
(* the SUBACK, and unsubscribing.                                          *)
(*                                                                         *)
(* wrapper_mqtt_subscribe_sync() yields while it waits, the yield may lose *)
(* the connection or get it back, and the callbacks that tell of it may    *)
(* subscribe again: only handlers of packets are marked by _in_yield_cb.   *)
(* So calls nest, each with its node in the one list of those that wait.   *)
(* Keepalive and publishing are in IotxMqttClient; here a connection is    *)
(* lost at any read, ping or request, and a read may be out of step.       *)
(***************************************************************************)
EXTENDS Naturals, Sequences, FiniteSets, SequencesExt, Sublists

CONSTANTS
    Topic,      \* topics of messages, each a filter too
    Wildcard,   \* a filter that ends in a wildcard and matches every topic
    Handle,     \* pairs of a filter and a handler function with its context
    NULL,
    MaxRequests,\* bound: requests that take an identifier; the identifiers
                \* do not come round (for that see IotxMqttClient)
    MaxCalls    \* bound: calls of wrapper_mqtt_subscribe_sync() at a time

ASSUME SubsAssumption ==
    /\ Wildcard \notin Topic
    /\ \A h \in Handle : h[1] \in Topic \cup {Wildcard}
    /\ NULL \notin Handle \cup Topic
    /\ MaxRequests \in Nat /\ MaxCalls \in Nat

VARIABLES
    conn,       \* client_state: "up", "down", or in "retry" of the connection
    packet_id,
    subs,       \* list_sub_handle
    waits,      \* list_sub_sync_ack
    stack,      \* the calls that wait, and the callbacks they were made from
    phase,      \* see Phase
    acks,       \* SUBACKs on their way
    topic,      \* the topic of the message being handled
    cursor,     \* the handle whose handler runs
    freed,      \* that handle was freed meanwhile
    due,        \* the handles linked since the message came that match
                \* and were not called yet
    result,     \* of the last call: its identifier, or 0 for -1
    granted,    \* the requests the broker granted
    forged      \* the requests last answered by what was no SUBACK

walk == <<topic, cursor, freed, due>>
told == <<granted, forged>>
vars == <<conn, packet_id, subs, waits, stack, phase, acks, walk, result, told>>

(* "app" outside of the yield; at the head of the loop of a call ("sync"); *)
(* in a yield, before the keepalive ("keep"), in a "callback" that tells   *)
(* of the connection, before a read ("cycle"), in a "handler"; after it,   *)
(* where the call looks for its answer ("check").  "undefined" after a     *)
(* read of freed memory.                                                   *)
Phase == {"app", "sync", "keep", "callback", "cycle", "handler", "check", "undefined"}

Id == 1..MaxRequests
Filter == Topic \cup {Wildcard}

(* What stack holds: the callback of a connection that is lost or back, or *)
(* a call: the handle it is for, the identifier of its request, 0 while it *)
(* has none, and whether it has its node (subed).                          *)
Lost == <<"lost">>
Back == <<"back">>
Callback == {Lost, Back}
Call(h, id, subed) == <<"call", h, id, subed>>
Frame == Callback \cup {Call(h, 0, 0) : h \in Handle}
                  \cup {Call(h, id, b) : h \in Handle, id \in Id, b \in 0..1}
Calls == {i \in DOMAIN stack : stack[i] \notin Callback}
Top == Last(stack)

TypeOK ==
    /\ conn \in {"up", "down", "retry"}
    /\ packet_id \in 0..MaxRequests
    /\ subs \in Seq(Handle) /\ IsInjective(subs)
    /\ waits \in Seq([id : Id, ack : {"none", "yes", "no"}])
    /\ stack \in Seq(Frame)
    /\ \A i \in 2..Len(stack) : stack[i] \in Callback <=> stack[i - 1] \notin Callback
    /\ phase \in Phase
    /\ acks \subseteq Id \X {"yes", "no"}
    /\ topic \in Topic \cup {NULL} /\ cursor \in Handle \cup {NULL}
    /\ freed \in BOOLEAN /\ due \subseteq Handle
    /\ result \in 0..MaxRequests /\ granted \subseteq Id /\ forged \subseteq Id
    /\ phase = "callback" => stack # <<>> /\ Top \in Callback
    /\ phase \in {"sync", "check"} => stack # <<>> /\ Top \notin Callback

Init ==
    /\ conn = "up" /\ packet_id = 0
    /\ subs = <<>> /\ waits = <<>> /\ stack = <<>>
    /\ phase = "app" /\ acks = {}
    /\ topic = NULL /\ cursor = NULL /\ freed = FALSE /\ due = {}
    /\ result = 0 /\ granted = {} /\ forged = {}

-----------------------------------------------------------------------------
(* A filter and a topic, as iotx_mc_deliver_message() compares them. *)
Matches(f, t) == f = t \/ f = Wildcard

(* A filter and the filter to unsubscribe, as MQTTUnsubscribe() compares   *)
(* them: the latter is taken with its terminating zero, which only a final *)
(* wildcard matches.                                                       *)
MatchesPadded(f, g) == f = Wildcard

(* Seeded fault: a handle is linked again. *)
LinkAgain(h) == subs' = Append(subs, h)

(* MQTTSubscribe() drops a handle that is linked already. *)
Link(h) == subs' = IF h \in ToSet(subs) THEN subs ELSE Append(subs, h)

(* A request or a read may find the connection lost. *)
MayGoDown == conn' \in {conn} \cup (IF conn = "up" THEN {"down"} ELSE {})

TakeId == packet_id < MaxRequests /\ packet_id' = packet_id + 1

(* wrapper_mqtt_subscribe(): once it is sent the handle is linked, and the *)
(* broker answers, or does not.                                            *)
Sent(h) ==
    /\ conn = "up" /\ conn' = conn
    /\ Link(h)
    /\ \/ acks' = acks \cup {<<packet_id', "yes">>} /\ granted' = granted \cup {packet_id'}
       \/ acks' = acks \cup {<<packet_id', "no">>} /\ granted' = granted
       \/ acks' = acks /\ granted' = granted

(* It cannot be sent, or memory runs out, or the filter is not one: only   *)
(* the first ends the connection.                                          *)
NotSent ==
    /\ MayGoDown
    /\ UNCHANGED <<subs, acks, granted>>

(* A subscription that does not wait, by the application, by a callback,   *)
(* or by a handler, there also with wrapper_mqtt_subscribe_sync().         *)
Subscribe(h) ==
    /\ phase \in {"app", "callback", "handler"}
    /\ TakeId
    /\ Sent(h) \/ NotSent
    /\ UNCHANGED <<waits, stack, phase, walk, result, forged>>

(* wrapper_mqtt_unsubscribe() frees the handles that match. *)
UnsubscribeSent(f) ==
    /\ phase \in {"app", "callback", "handler"}
    /\ TakeId
    /\ conn = "up"
    /\ subs' \in Sublist(subs, {i \in DOMAIN subs : ~MatchesPadded(subs[i][1], f)})
    /\ due' = due \cap ToSet(subs')
    /\ freed' = (freed \/ (cursor # NULL /\ MatchesPadded(cursor[1], f)))
    /\ UNCHANGED <<conn, waits, stack, phase, acks, topic, cursor, result, told>>
UnsubscribeFails ==
    /\ phase \in {"app", "callback", "handler"}
    /\ TakeId /\ NotSent
    /\ UNCHANGED <<waits, stack, phase, walk, result, forged>>

-----------------------------------------------------------------------------
(* wrapper_mqtt_subscribe_sync() *)
SyncCall(h) ==
    /\ phase \in {"app", "callback"}
    /\ Cardinality(Calls) < MaxCalls
    /\ stack' = Append(stack, Call(h, 0, 0))
    /\ phase' = "sync" /\ result' = 0
    /\ UNCHANGED <<conn, packet_id, subs, waits, acks, walk, told>>

(* The head of its loop: a request, unless one is under way; a node for    *)
(* its answer, unless it has one or there is no memory; then a yield.      *)
WaitFor(id) ==
    \/ /\ waits' = Append(waits, [id |-> id, ack |-> "none"])
       /\ stack' = Append(Front(stack), Call(Top[2], id, 1))
    \/ /\ UNCHANGED waits
       /\ stack' = Append(Front(stack), Call(Top[2], id, 0))
SyncSubscribe ==
    /\ phase = "sync" /\ Top[3] = 0
    /\ TakeId
    /\ \/ Sent(Top[2]) /\ WaitFor(packet_id')
       \/ NotSent /\ UNCHANGED <<waits, stack>>
    /\ phase' = "keep"
    /\ UNCHANGED <<walk, result, forged>>
SyncWaits ==
    /\ phase = "sync" /\ Top[3] # 0 /\ Top[4] = 0
    /\ WaitFor(Top[3])
    /\ phase' = "keep"
    /\ UNCHANGED <<conn, packet_id, subs, acks, walk, result, told>>
SyncYields ==
    /\ phase = "sync" /\ Top[3] # 0 /\ Top[4] = 1
    /\ phase' = "keep"
    /\ UNCHANGED <<conn, packet_id, subs, waits, stack, acks, walk, result, told>>

(* A call ends with an identifier or 0. *)
Return(id) ==
    /\ stack' = Front(stack)
    /\ phase' = IF Len(stack) = 1 THEN "app" ELSE "callback"
    /\ result' = id

(* Seeded fault: when its time is over a call leaves its node behind. *)
TimeOutLeavesNode == Return(0) /\ UNCHANGED waits

TimeOut ==
    /\ waits' \in Sublist(waits, {i \in DOMAIN waits : waits[i].id # Top[3]})
    /\ Return(0)

(* After the yield only the first node of the list is looked at; a refused *)
(* request is made again; then the time may be over.                       *)
Answer(a) == waits # <<>> /\ Head(waits).id = Top[3] /\ Head(waits).ack = a
CheckGranted ==
    /\ phase = "check" /\ Answer("yes")
    /\ waits' = Tail(waits)
    /\ Return(Top[3])
    /\ UNCHANGED <<conn, packet_id, subs, acks, walk, told>>
CheckRefused ==
    /\ phase = "check" /\ Answer("no")
    /\ waits' = Tail(waits)
    /\ \/ Return(0)
       \/ /\ stack' = Append(Front(stack), Call(Top[2], 0, 0))
          /\ phase' = "sync" /\ result' = result
    /\ UNCHANGED <<conn, packet_id, subs, acks, walk, told>>
CheckOpen ==
    /\ phase = "check" /\ ~Answer("yes") /\ ~Answer("no")
    /\ \/ TimeOut
       \/ phase' = "sync" /\ UNCHANGED <<waits, stack, result>>
    /\ UNCHANGED <<conn, packet_id, subs, acks, walk, told>>

-----------------------------------------------------------------------------
(* wrapper_mqtt_yield(), by the application.  It begins with the keepalive *)
Yield ==
    /\ phase = "app"
    /\ phase' = "keep"
    /\ UNCHANGED <<conn, packet_id, subs, waits, stack, acks, walk, result, told>>

(* which may find the connection well, or still waiting to be tried again  *)
(* ...                                                                     *)
KeepAlive ==
    /\ phase = "keep" /\ conn \in {"up", "retry"}
    /\ phase' = "cycle"
    /\ UNCHANGED <<conn, packet_id, subs, waits, stack, acks, walk, result, told>>

(* ... or lost (or lose it by a ping), or get it back: the application is  *)
(* told, without _in_yield_cb.                                             *)
KeepLoses ==
    /\ phase = "keep" /\ conn \in {"up", "down"}
    /\ conn' = "down"
    /\ stack' = Append(stack, Lost) /\ phase' = "callback"
    /\ UNCHANGED <<packet_id, subs, waits, acks, walk, result, told>>
KeepReconnects ==
    /\ phase = "keep" /\ conn = "retry"
    /\ conn' = "up" /\ acks' = {}
    /\ stack' = Append(stack, Back) /\ phase' = "callback"
    /\ UNCHANGED <<packet_id, subs, waits, walk, result, told>>

(* Whatever became of the connection meanwhile, the first closes it.       *)
LostReturns ==
    /\ phase = "callback" /\ Top = Lost
    /\ conn' = "retry" /\ acks' = {}
    /\ stack' = Front(stack) /\ phase' = "cycle"
    /\ UNCHANGED <<packet_id, subs, waits, walk, result, told>>
BackReturns ==
    /\ phase = "callback" /\ Top = Back
    /\ stack' = Front(stack) /\ phase' = "cycle"
    /\ UNCHANGED <<conn, packet_id, subs, waits, acks, walk, result, told>>

(* A yield goes on until its time is over. *)
Ended ==
    /\ phase' \in {"cycle", IF stack = <<>> THEN "app" ELSE "check"}
    /\ topic' = NULL /\ cursor' = NULL /\ freed' = FALSE /\ due' = {}

(* iotx_mc_cycle(): nothing to read, or an error ...                       *)
CycleNothing ==
    /\ phase = "cycle"
    /\ MayGoDown /\ Ended
    /\ UNCHANGED <<packet_id, subs, waits, stack, acks, result, told>>

(* ... part of a packet, perhaps of a SUBACK: the connection stays, and    *)
(* the next read starts amid the packet ...                                *)
CyclePartial ==
    /\ phase = "cycle" /\ conn = "up"
    /\ \E a \in acks : acks' = acks \ {a}
    /\ MayGoDown /\ Ended
    /\ UNCHANGED <<packet_id, subs, waits, stack, result, told>>

NodesOf(id) == {i \in DOMAIN waits : waits[i].id = id}

(* Seeded fault: a SUBACK is taken for the call that waits longest. *)
MarkFirst(id, a) ==
    waits' = [i \in DOMAIN waits |-> IF i = 1 THEN [waits[i] EXCEPT !.ack = a]
                                              ELSE waits[i]]

(* _iotx_mqtt_event_handle_sub() *)
Mark(id, a) ==
    waits' = [i \in DOMAIN waits |-> IF waits[i].id = id
                                     THEN [waits[i] EXCEPT !.ack = a]
                                     ELSE waits[i]]

(* ... a SUBACK, whose event may subscribe and unsubscribe, too ...        *)
CycleSuback ==
    /\ phase = "cycle" /\ conn = "up"
    /\ \E a \in acks :
          acks' = acks \ {a} /\ Mark(a[1], a[2]) /\ forged' = forged \ {a[1]}
    /\ MayGoDown
    /\ phase' = "handler"
    /\ UNCHANGED <<packet_id, subs, stack, walk, result, granted>>

(* ... what a read amid a packet takes for one; a packet too long for the  *)
(* buffer, which leaves the type unset; or a SUBACK too short to hold an   *)
(* identifier, for which MQTTDeserialize_suback() does not fail.  Any      *)
(* identifier may be answered ...                                          *)
CycleGarbage ==
    /\ phase = "cycle" /\ conn = "up"
    /\ \E id \in Id, a \in {"yes", "no"} :
          Mark(id, a) /\ forged' = forged \cup {waits[i].id : i \in NodesOf(id)}
    /\ MayGoDown
    /\ phase' = "handler"
    /\ UNCHANGED <<packet_id, subs, stack, acks, walk, result, granted>>

(* Seeded fault: the walk ends before the last handle. *)
MatchButLast(i, t) ==
    LET hits == {k \in i..(Len(subs) - 1) : Matches(subs[k][1], t)}
    IN  IF hits = {} THEN NULL ELSE subs[Min(hits)]

(* The first handle from place i on whose filter matches t. *)
Match(i, t) ==
    LET hits == {k \in i..Len(subs) : Matches(subs[k][1], t)}
    IN  IF hits = {} THEN NULL ELSE subs[Min(hits)]

(* ... or a message: iotx_mc_deliver_message() calls the first handler, or *)
(* the default one when none matches ...                                   *)
CycleMessage(t) ==
    /\ phase = "cycle" /\ conn = "up"
    /\ MayGoDown
    /\ topic' = t /\ cursor' = Match(1, t) /\ freed' = FALSE
    /\ due' = {h \in ToSet(subs) \ {cursor'} : Matches(h[1], t)}
    /\ phase' = "handler"
    /\ UNCHANGED <<packet_id, subs, waits, stack, acks, result, told>>

Place(h) == CHOOSE i \in DOMAIN subs : subs[i] = h

(* ... and goes on from the handle whose handler returns, in the list as   *)
(* it is then.  A handle that was freed leads nowhere.                     *)
HandlerReturns ==
    /\ phase = "handler"
    /\ IF cursor = NULL THEN Ended
       ELSE IF freed THEN phase' = "undefined" /\ UNCHANGED walk
       ELSE LET h == Match(Place(cursor) + 1, topic) IN
            IF h = NULL THEN Ended
            ELSE /\ cursor' = h /\ due' = due \ {h}
                 /\ UNCHANGED <<phase, topic, freed>>
    /\ UNCHANGED <<conn, packet_id, subs, waits, stack, acks, result, told>>

-----------------------------------------------------------------------------
Next ==
    \/ \E h \in Handle : Subscribe(h) \/ SyncCall(h)
    \/ \E f \in Filter : UnsubscribeSent(f)
    \/ UnsubscribeFails
    \/ SyncSubscribe \/ SyncWaits \/ SyncYields
    \/ CheckGranted \/ CheckRefused \/ CheckOpen
    \/ Yield \/ KeepAlive \/ KeepLoses \/ KeepReconnects \/ LostReturns \/ BackReturns
    \/ CycleNothing \/ CyclePartial \/ CycleSuback \/ CycleGarbage \/ HandlerReturns
    \/ \E t \in Topic : CycleMessage(t)

Spec == Init /\ [][Next]_vars
-----------------------------------------------------------------------------
(* The calls that have their node. *)
Open == {i \in Calls : stack[i][4] = 1}

(* The nodes of list_sub_sync_ack are those of the calls that wait, in     *)
(* their order, which is that of their identifiers: none is left behind by *)
(* a call that ended, whatever answers came, were lost or refused.  One at *)
(* the head of the list would keep every later call from its answer.       *)
WaitsMatchCalls ==
    /\ {waits[i].id : i \in DOMAIN waits} = {stack[i][3] : i \in Open}
    /\ \A i, j \in DOMAIN waits : i < j => waits[i].id < waits[j].id
    /\ \A i, j \in Open : i < j => stack[i][3] < stack[j][3]

(* A call that succeeds was granted by the broker, it and no other, or the *)
(* last that was read for it was no SUBACK.  One that fails had no grant   *)
(* to look at, except a call made from a callback while another waits: its *)
(* node is not the first, and is not looked at.                            *)
Returning == Len(stack') < Len(stack) /\ Top \notin Callback
SyncTellsTruth ==
    [][ Returning =>
          IF result' # 0 THEN result' = Top[3] /\ result' \in granted \cup forged
          ELSE \A i \in DOMAIN waits :
                  waits[i].id = Top[3] /\ waits[i].ack = "yes" => i > 1 ]_vars

(* mqtt_api.h says of IOT_MQTT_Subscribe_Sync() "wait suback", ">=0 :      *)
(* Subscribe successful": the broker granted what returns a success.       *)
SuccessIsGranted == [][ Returning /\ result' # 0 => result' \in granted ]_vars

(* Every handle that was linked when a message came and stayed, and whose  *)
(* filter matches, is called by the end of the walk, whatever the handlers *)
(* subscribe and unsubscribe meanwhile (iotx_mc_deliver_message() reads    *)
(* the next pointer after the handler).  A handler whose own handle is     *)
(* freed ends the walk in freed memory.                                    *)
CallsAllThatStayed ==
    [][ phase = "handler" /\ cursor # NULL /\ phase' \notin {"handler", "undefined"}
          => due = {} ]_vars
=============================================================================
