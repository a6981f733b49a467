--------------------------- MODULE IotxMqttClient ---------------------------
(***************************************************************************)
(* The MQTT client over a socket, eng/mqtt/iotx_mqtt_client.c: keepalive,  *)
(* the life of the connection, the list of QoS 1 messages that wait for    *)
(* their PUBACK, and the loop of wrapper_mqtt_yield() that drives them.    *)
(*                                                                         *)
(* The client has no thread: pings, reconnects and repetitions happen only *)
(* while the application yields, and its callbacks run inside of the yield *)
(* and publish from there.  The two that tell of the connection may also   *)
(* wait for a subscription, which yields again: an outage and its end can  *)
(* lie within the callback for another.  The peer is a broker that         *)
(* acknowledges what reaches it, over a link that may die without a sign.  *)
(* Subscriptions and the delivery of messages are in IotxMqttSubs.         *)
(***************************************************************************)
EXTENDS Naturals, Sequences, FiniteSets, Sublists

CONSTANTS
    PacketIdMax,    \* IOTX_MC_PACKET_ID_MAX
    RepubNumMax,    \* IOTX_MC_REPUB_NUM_MAX
    ProbeMax,       \* IOTX_MC_KEEPALIVE_PROBE_MAX
    IntervalMin,    \* IOTX_MC_RECONNECT_INTERVAL_MIN_MS
    IntervalMax,    \* IOTX_MC_RECONNECT_INTERVAL_MAX_MS
    MaxAcks,        \* bound: PUBACKs on their way that are told apart
    MaxNest         \* bound: callbacks that run at a time

ASSUME IotxAssumption ==
    /\ PacketIdMax \in Nat \ {0} /\ RepubNumMax \in Nat \ {0}
    /\ ProbeMax \in Nat /\ MaxAcks \in Nat \ {0} /\ MaxNest \in Nat \ {0}
    /\ IntervalMin \in Nat \ {0} /\ IntervalMax \in Nat
    /\ IntervalMin =< IntervalMax

VARIABLES
    state,          \* client_state; "none" while there is no client
    packet_id,
    probes,         \* keepalive_probes
    interval,       \* reconnect_time_interval_ms
    wait,           \* what reconnect_next_time counts down, 0 when connected
    reset,          \* in an outage: the interval was set back after the wait
    pubs,           \* list_pub_wait_ack
    pc,             \* where the client is: see Place
    stack,          \* the callbacks of the connection that run, newest first
    broken,         \* the link is dead, and nobody noticed
    torn,           \* part of a packet was read: the next read starts amid it
    acks,           \* how many PUBACKs are on their way, by identifier
    silent,         \* pings on this connection since the last packet on it,
                    \* counted up to ProbeMax + 1
    told            \* the last event of the connection: "up" or "down"

link == <<broken, torn, acks>>
retry == <<interval, wait, reset>>
place == <<pc, stack>>
vars == <<state, packet_id, probes, retry, pubs, place, link, silent, told>>

(* "app" outside of the yield; in it, in the callback that tells of a      *)
(* "lost" connection or of one that is "back", before a read ("cycle"), in *)
(* a handler of a packet ("event") or of a PUBACK ("acked"), and before    *)
(* the list of messages is looked at ("proc").                             *)
Place == {"app", "lost", "back", "cycle", "event", "acked", "proc"}
Id == 1..PacketIdMax

(* Where a yield returns to, and where it may begin: both callbacks may    *)
(* call wrapper_mqtt_subscribe_sync(), which yields unless _in_yield_cb    *)
(* says that a handler of a packet runs.                                   *)
Home == IF stack = <<>> THEN "app" ELSE Head(stack)
CanYield == pc = Home /\ Len(stack) < MaxNest

(* A message that waits: acked once a PUBACK with its identifier came;     *)
(* got once it reached the broker; doubtful once its identifier was also   *)
(* another's, or was read from a stream that was out of step.              *)
Node == [id : Id, acked : BOOLEAN, got : BOOLEAN, doubtful : BOOLEAN]

NoAcks == [id \in Id |-> 0]

TypeOK ==
    /\ state \in {"none", "CONNECTED", "DISCONNECTED", "RECONNECTING"}
    /\ packet_id \in 0..PacketIdMax
    /\ probes \in 0..(ProbeMax + 1)
    /\ interval \in Nat /\ wait \in Nat /\ reset \in BOOLEAN
    /\ pubs \in Seq(Node) /\ Len(pubs) =< RepubNumMax
    /\ pc \in Place
    /\ stack \in Seq({"lost", "back"}) /\ Len(stack) =< MaxNest
    /\ pc \in {"app", "lost", "back"} => pc = Home
    /\ broken \in BOOLEAN /\ torn \in BOOLEAN
    /\ acks \in [Id -> 0..MaxAcks]
    /\ silent \in 0..(ProbeMax + 1)
    /\ told \in {"up", "down"}
    /\ state = "none" => pc = "app" /\ pubs = <<>>

Init ==
    /\ state = "none" /\ packet_id = 0 /\ probes = 0
    /\ interval = IntervalMin /\ wait = 0 /\ reset = FALSE
    /\ pubs = <<>> /\ pc = "app" /\ stack = <<>>
    /\ broken = FALSE /\ torn = FALSE /\ acks = NoAcks
    /\ silent = 0 /\ told = "up"

NewLink == broken' = FALSE /\ torn' = FALSE /\ acks' = NoAcks

(* wrapper_mqtt_init() and a first wrapper_mqtt_connect() that succeeds; a *)
(* client that does not get its connection is released again.              *)
Construct ==
    /\ state = "none"
    /\ state' = "CONNECTED" /\ packet_id' = 0 /\ probes' = 0
    /\ interval' = IntervalMin /\ wait' = 0 /\ reset' = FALSE
    /\ NewLink /\ silent' = 0 /\ told' = "up"
    /\ UNCHANGED <<pubs, place>>

(* Seeded fault: the messages that wait outlive the client. *)
ReleaseKeepsList ==
    /\ state # "none" /\ pc = "app"
    /\ state' = "none"
    /\ packet_id' = 0 /\ probes' = 0
    /\ interval' = IntervalMin /\ wait' = 0 /\ reset' = FALSE
    /\ NewLink /\ silent' = 0 /\ told' = "up"
    /\ UNCHANGED <<place, pubs>>

(* wrapper_mqtt_release(): the messages that wait are dropped. *)
Release ==
    /\ state # "none" /\ pc = "app"
    /\ state' = "none" /\ pubs' = <<>>
    /\ packet_id' = 0 /\ probes' = 0
    /\ interval' = IntervalMin /\ wait' = 0 /\ reset' = FALSE
    /\ NewLink /\ silent' = 0 /\ told' = "up"
    /\ UNCHANGED place

-----------------------------------------------------------------------------
(* The application calls between yields and from its callbacks. *)
Calling == state # "none" /\ pc \in {"app", "lost", "back", "event", "acked"}

(* iotx_mc_get_next_packetid() *)
NextPacketId == IF packet_id = PacketIdMax THEN 1 ELSE packet_id + 1

(* The messages with these identifiers are sent: lost on a dead link,      *)
(* otherwise answered.                                                     *)
Transmit(ids) ==
    acks' = [id \in Id |-> IF id \in ids /\ ~broken /\ acks[id] < MaxAcks
                            THEN acks[id] + 1 ELSE acks[id]]

(* wrapper_mqtt_publish() with QoS 1: pushed, then sent; when it cannot be *)
(* sent it is taken from the list again.  A full list costs an identifier. *)
Publish ==
    /\ Calling /\ state = "CONNECTED"
    /\ packet_id' = NextPacketId
    /\ \/ Len(pubs) >= RepubNumMax /\ UNCHANGED <<state, pubs, acks>>
       \/ /\ Len(pubs) < RepubNumMax
          /\ LET id == NextPacketId
                 same == {i \in DOMAIN pubs : pubs[i].id = id}
                 twice == same # {} \/ acks[id] > 0
             IN  pubs' = Append(
                     [i \in DOMAIN pubs |->
                        [pubs[i] EXCEPT !.doubtful = @ \/ i \in same]],
                     [id |-> id, acked |-> FALSE, got |-> ~broken,
                      doubtful |-> twice])
          /\ Transmit({NextPacketId})
          /\ UNCHANGED state
       \/ /\ Len(pubs) < RepubNumMax
          /\ state' = "DISCONNECTED"
          /\ UNCHANGED <<pubs, acks>>
    /\ UNCHANGED <<probes, retry, place, broken, torn, silent, told>>

(* The other requests: a subscription, its end and a message of QoS 2 take *)
(* an identifier, connected or not; one of QoS 0 takes none.  Of these a   *)
(* request that cannot be sent ends the connection.                        *)
Request ==
    /\ Calling
    /\ packet_id' \in {packet_id, NextPacketId}
    /\ state' \in {state} \cup (IF state = "CONNECTED" THEN {"DISCONNECTED"} ELSE {})
    /\ UNCHANGED <<probes, retry, pubs, place, link, silent, told>>

(* The link dies.  What already arrived can still be read. *)
LinkBreaks ==
    /\ state = "CONNECTED" /\ ~broken
    /\ broken' = TRUE
    /\ acks' \in {acks, NoAcks}
    /\ UNCHANGED <<state, packet_id, probes, retry, pubs, place, torn, silent,
                   told>>

-----------------------------------------------------------------------------
(* wrapper_mqtt_yield() starts with iotx_mc_keepalive().  No ping is due,  *)
(* or none can be made ...                                                 *)
YieldQuiet ==
    /\ CanYield /\ state = "CONNECTED"
    /\ pc' = "cycle"
    /\ UNCHANGED <<state, stack, packet_id, probes, retry, pubs, link, silent, told>>

(* ... or one is due, and sent ... *)
YieldPing ==
    /\ CanYield /\ state = "CONNECTED"
    /\ probes' = probes + 1
    /\ silent' = IF silent > ProbeMax THEN silent ELSE silent + 1
    /\ pc' = "cycle"
    /\ UNCHANGED <<state, stack, packet_id, retry, pubs, link, told>>

Enter(callback) == pc' = callback /\ stack' = <<callback>> \o stack
Leave(callback) == pc = callback /\ pc' = "cycle" /\ stack' = Tail(stack)

(* ... or cannot be sent, or the connection was lost before: the           *)
(* application is told.                                                    *)
YieldLost ==
    /\ CanYield /\ state \in {"CONNECTED", "DISCONNECTED"}
    /\ state' = "DISCONNECTED"
    /\ Enter("lost") /\ told' = "down"
    /\ UNCHANGED <<packet_id, probes, retry, pubs, link, silent>>

(* Whatever the callback made of the connection, it is closed now.         *)
LostReturns ==
    /\ Leave("lost")
    /\ state' = "RECONNECTING"
    /\ interval' = IntervalMin /\ wait' = IntervalMin /\ reset' = FALSE
    /\ NewLink
    /\ UNCHANGED <<packet_id, probes, pubs, silent, told>>

(* iotx_mc_handle_reconnect() before its time ... *)
YieldWaits ==
    /\ CanYield /\ state = "RECONNECTING"
    /\ pc' = "cycle"
    /\ UNCHANGED <<state, stack, packet_id, probes, retry, pubs, link, silent, told>>

(* Seeded fault: the interval doubles, and the wait with it. *)
ReconnectFailsUncapped ==
    /\ CanYield /\ state = "RECONNECTING"
    /\ interval' = IF interval >= IntervalMax THEN IntervalMin ELSE 2 * interval
    /\ wait' = interval' /\ reset' = FALSE
    /\ pc' = "cycle"
    /\ UNCHANGED <<state, stack, packet_id, probes, pubs, link, silent, told>>

(* ... when the attempt fails, at the socket or at the CONNACK: the        *)
(* interval doubles until it is past the maximum, the wait is capped ...   *)
ReconnectFails ==
    /\ CanYield /\ state = "RECONNECTING"
    /\ interval' = IF IntervalMax > interval THEN 2 * interval ELSE IntervalMax
    /\ wait' = IF IntervalMax < interval' THEN IntervalMax ELSE interval'
    /\ reset' = FALSE
    /\ pc' = "cycle"
    /\ UNCHANGED <<state, stack, packet_id, probes, pubs, link, silent, told>>

(* ... and when it succeeds.  The probes go on from where they were.       *)
Reconnects ==
    /\ CanYield /\ state = "RECONNECTING"
    /\ state' = "CONNECTED" /\ Enter("back") /\ told' = "up"
    /\ NewLink /\ silent' = 0
    /\ wait' = 0 /\ reset' = FALSE
    /\ UNCHANGED <<packet_id, probes, interval, pubs>>

(* Whatever became of the connection during the callback.                  *)
BackReturns ==
    /\ Leave("back")
    /\ interval' = IntervalMin /\ reset' = (state = "RECONNECTING")
    /\ UNCHANGED <<state, packet_id, probes, wait, pubs, link, silent, told>>

-----------------------------------------------------------------------------
(* iotx_mc_cycle().  Further cycles of the same yield are those of yields  *)
(* whose keepalive finds nothing to do.  Without a connection there is     *)
(* nothing to read.                                                        *)
CycleDown ==
    /\ pc = "cycle" /\ state # "CONNECTED"
    /\ pc' = Home
    /\ UNCHANGED <<state, stack, packet_id, probes, retry, pubs, link, silent, told>>

(* Seeded fault: the probes of a connection that is given up stay. *)
ProbedKept == probes

(* Too many probes without an answer end the connection; one packet is     *)
(* still read.                                                             *)
Probed == IF probes > ProbeMax THEN 0 ELSE probes
GiveUp ==
    /\ pc = "cycle" /\ state = "CONNECTED"
    /\ state' = IF probes > ProbeMax THEN "DISCONNECTED" ELSE state

(* Seeded fault: a read that finds nothing clears the probes. *)
CycleTimeoutClears ==
    /\ GiveUp
    /\ probes' = 0 /\ pc' = "proc"
    /\ UNCHANGED <<stack, packet_id, retry, pubs, link, silent, told>>

(* Nothing came in time. *)
CycleTimeout ==
    /\ GiveUp
    /\ probes' = Probed /\ pc' = "proc"
    /\ UNCHANGED <<stack, packet_id, retry, pubs, link, silent, told>>

CycleError ==
    /\ pc = "cycle" /\ state = "CONNECTED"
    /\ state' = "DISCONNECTED" /\ probes' = Probed /\ pc' = Home
    /\ UNCHANGED <<stack, packet_id, retry, pubs, link, silent, told>>

Taken(id) == [acks EXCEPT ![id] = @ - 1]

(* Part of a packet came in time, perhaps of a PUBACK.  It is an error,    *)
(* but not one of the network: the connection stays.                       *)
CyclePartial ==
    /\ GiveUp /\ ~broken
    /\ torn' = TRUE
    /\ acks' \in {acks} \cup {Taken(id) : id \in {i \in Id : acks[i] > 0}}
    /\ probes' = Probed /\ pc' = Home
    /\ UNCHANGED <<stack, packet_id, retry, pubs, broken, silent, told>>

(* Any packet says that the peer lives. *)
Alive == probes' = 0 /\ silent' = 0

(* Seeded fault: only the newest message is looked at. *)
MaskNewest(id, doubt) ==
    pubs' = [i \in DOMAIN pubs |->
               IF i = Len(pubs) /\ pubs[i].id = id
               THEN [pubs[i] EXCEPT !.acked = TRUE, !.doubtful = @ \/ doubt]
               ELSE pubs[i]]

(* iotx_mc_mask_pubInfo_from() *)
Mask(id, doubt) ==
    pubs' = [i \in DOMAIN pubs |->
               IF pubs[i].id = id
               THEN [pubs[i] EXCEPT !.acked = TRUE, !.doubtful = @ \/ doubt]
               ELSE pubs[i]]

(* iotx_mc_handle_recv_PUBACK(), then the event IOTX_MQTT_EVENT_PUBLISH_SUCCESS. *)
CycleAck(id) ==
    /\ GiveUp
    /\ acks[id] > 0
    /\ acks' = Taken(id)
    /\ Mask(id, torn)
    /\ Alive /\ pc' = "acked"
    /\ UNCHANGED <<stack, packet_id, retry, broken, torn, told>>

(* Any other packet, and its handlers. *)
CyclePacket ==
    /\ GiveUp /\ ~broken
    /\ Alive /\ pc' = "event"
    /\ UNCHANGED <<stack, packet_id, retry, pubs, link, told>>

(* A read that starts amid a packet finds anything, a PUBACK too.  So does *)
(* one of a packet that is too long for the buffer: it leaves the type of  *)
(* the packet unset.                                                       *)
CycleGarbage ==
    /\ GiveUp /\ ~broken
    /\ \/ \E id \in Id : Mask(id, TRUE) /\ Alive
       \/ UNCHANGED pubs /\ Alive
       \/ UNCHANGED <<pubs, silent>> /\ probes' = Probed
    /\ pc' = "event"
    /\ UNCHANGED <<stack, packet_id, retry, link, told>>

(* A PUBACK is handled well; a packet of unknown type, a publish that      *)
(* cannot be acknowledged or parsed is not, and the list has to wait.      *)
EventReturns ==
    /\ \/ pc = "acked" /\ pc' = "proc"
       \/ pc = "event" /\ pc' \in {"proc", Home}
    /\ UNCHANGED <<state, stack, packet_id, probes, retry, pubs, link, silent, told>>

(* The list is cut down to these places; the late ones are sent again. *)
Keep(places, late) ==
    /\ \E at \in InOrder(places) :
          pubs' = [k \in DOMAIN at |->
                     [pubs[at[k]] EXCEPT !.got = @ \/ (at[k] \in late /\ ~broken)]]
    /\ Transmit({pubs[i].id : i \in late})

(* Seeded fault: a message that cannot be sent again is given up. *)
ProcDropsFailed(late, stop) ==
    /\ pc = "proc" /\ pc' = Home
    /\ Keep({i \in DOMAIN pubs : i > stop \/ (i < stop /\ ~pubs[i].acked)}, late)
    /\ UNCHANGED <<stack, packet_id, probes, retry, broken, torn, silent, told>>

(* MQTTPubInfoProc() walks the list: acknowledged messages go; while       *)
(* connected those that waited too long are sent again, up to the one that *)
(* cannot be sent (stop).                                                  *)
Proc(late, stop) ==
    /\ pc = "proc" /\ pc' = Home
    /\ Keep({i \in DOMAIN pubs : i >= stop \/ ~pubs[i].acked}, late)
    /\ UNCHANGED <<stack, packet_id, probes, retry, broken, torn, silent, told>>

PubInfoProc ==
    LET open == {i \in DOMAIN pubs : ~pubs[i].acked} IN
    \/ /\ state = "CONNECTED"
       /\ \E late \in SUBSET open : Proc(late, Len(pubs) + 1)
       /\ UNCHANGED state
    \/ /\ state = "CONNECTED"
       /\ \E stop \in open : \E late \in SUBSET {i \in open : i < stop} :
             Proc(late, stop)
       /\ state' = "DISCONNECTED"
    \/ /\ state # "CONNECTED"
       /\ Proc({}, Len(pubs) + 1)
       /\ UNCHANGED state

-----------------------------------------------------------------------------
Yield ==
    \/ YieldQuiet \/ YieldPing \/ YieldLost \/ LostReturns
    \/ YieldWaits \/ ReconnectFails \/ Reconnects \/ BackReturns
    \/ CycleDown \/ CycleTimeout \/ CycleError \/ CyclePartial
    \/ \E id \in Id : CycleAck(id)
    \/ CyclePacket \/ CycleGarbage \/ EventReturns \/ PubInfoProc

Next == Construct \/ Release \/ Publish \/ Request \/ LinkBreaks \/ Yield

Spec == Init /\ [][Next]_vars

(* The acknowledgement of the first message is read; it is sent again.     *)
HeadAck == pubs # <<>> /\ CycleAck(pubs[1].id)
HeadAgain ==
    /\ pubs # <<>> /\ ~pubs[1].acked /\ ~broken /\ state = "CONNECTED"
    /\ \E late \in SUBSET {i \in DOMAIN pubs : ~pubs[i].acked} :
          1 \in late /\ Proc(late, Len(pubs) + 1)
    /\ UNCHANGED state

(* The application keeps yielding and its handlers return (the client has  *)
(* no other thread).  A connection that stays has its ping timer expire;   *)
(* on it a PUBACK that arrives again and again is read some time, if the   *)
(* application yields often enough, some read finds nothing, and the timer *)
(* of a message expires.                                                   *)
FairSpec ==
    /\ Spec
    /\ WF_vars(Yield)
    /\ SF_vars(YieldPing)
    /\ SF_vars(HeadAck)
    /\ SF_vars(CycleTimeout)
    /\ SF_vars(HeadAgain)
-----------------------------------------------------------------------------
(* A message leaves the list of those that wait only when the broker has   *)
(* it: not by a lost connection, a failed repetition, a reconnect or an    *)
(* acknowledgement of another (iotx_mc_mask_pubInfo_from() goes by the     *)
(* identifier alone).  Excluded are the identifiers that came round while  *)
(* they were in use, and the acknowledgements read out of step.            *)
GoneMeansDelivered ==
    [][ pc = "proc" =>
          \A i \in DOMAIN pubs :
             \/ pubs[i].got \/ pubs[i].doubtful
             \/ \E k \in DOMAIN pubs' : pubs'[k].id = pubs[i].id ]_vars

(* The keepalive ends a connection only after more pings without an answer *)
(* than are allowed; to these it adds those that were not answered on the  *)
(* connection before (_mqtt_connect() does not reset keepalive_probes), at *)
(* most as many as are allowed.                                            *)
ProbesCountSilence == probes =< silent + ProbeMax

(* During an outage the wait stays within its limits, although the         *)
(* interval passes the maximum before it is cut, and from one failed       *)
(* attempt to the next it gets shorter only if a callback, of this outage  *)
(* or of one around it, returned in between (iotx_mc_handle_reconnect(),   *)
(* iotx_mc_keepalive()).                                                   *)
Outage == state = "RECONNECTING" /\ state' = "RECONNECTING"
WaitsGrow ==
    [][ Outage => /\ wait' \in IntervalMin..IntervalMax
                  /\ wait' >= wait \/ reset \/ stack' = Tail(stack) ]_vars

(* A link that died without a sign is noticed, and the application is told *)
(* (iotx_mc_keepalive_sub(), iotx_mc_cycle(), iotx_mc_keepalive()), unless *)
(* the client closes it first, at the end of a callback that told of the   *)
(* loss of an earlier one: it does not stay dead and untold.               *)
Untold == broken /\ told = "up" /\ state \in {"CONNECTED", "DISCONNECTED"}
DeadLinkReported == []<>~Untold

(* On a connection that stays up and in step the first message of the list *)
(* is repeated until it is acknowledged and gone: the list does not stay   *)
(* as it is (MQTTPubInfoProc(), iotx_mc_handle_recv_PUBACK()).             *)
Stable == state = "CONNECTED" /\ ~broken /\ ~torn
HeadGoes ==
    /\ pubs # <<>> /\ pc = "proc"
    /\ \/ pubs' = <<>>
       \/ Len(pubs') < Len(pubs) /\ pubs[1].acked
RepeatedUntilAcked ==
    <>[]Stable => []<>(pubs = <<>>) \/ []<><<HeadGoes>>_vars
=============================================================================
