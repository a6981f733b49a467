--------------------------- MODULE AtMqttClient ---------------------------
(***************************************************************************)
(* The AT MQTT client, eng/atm/at_mqtt.c: the state of the client, its     *)
(* list of topic handles, and the loop of wrapper_mqtt_yield() that gives  *)
(* each message to the handlers of its topic.                              *)
(*                                                                         *)
(* The firmware has one task, so calls come one at a time; but a handler   *)
(* runs in the middle of mal_mc_cycle() and may subscribe and unsubscribe, *)
(* which rewires the list the loop is walking.  The handles are kept as    *)
(* the code keeps them: memory cells with a next pointer.  The driver is   *)
(* here the values its calls return (MqttSim800), the message ring the     *)
(* next message it holds (AtMqttBuffer).                                   *)
(***************************************************************************)
EXTENDS Integers, Chains

CONSTANTS
    Handle,      \* cells malloc has for iotx_mc_topic_handle_t
    NULL,
    Topic,       \* topics messages come with, each a filter too
    Wildcard,    \* a filter that matches every topic
    PacketIdMax, \* MAL_MC_PACKET_ID_MAX
    Word         \* 2^32, the words the clock counts in

ASSUME ClientAssumption ==
    /\ NULL \notin Handle
    /\ Wildcard \notin Topic
    /\ PacketIdMax \in Nat \ {0}
    /\ Word \in Nat /\ Word > 4

VARIABLES
    client,      \* client_state; "none" while there is no client
    first, next, \* first_sub_handle; the next pointers
    filter,      \* topic_filter of the allocated handles
    packet_id,
    phase,       \* in wrapper_mqtt_yield(): see Phase
    deadline,    \* the timer of the yield
    topic,       \* topic of the message being handled
    cursor,      \* the handle whose handler runs
    start, kept, called  \* since the message was taken: the handles linked
                 \* then, those linked ever since, and those called

list == <<first, next, filter>>
walk == <<topic, cursor, start, called>>
vars == <<client, list, packet_id, phase, deadline, walk, kept>>

Filter == Topic \cup {Wildcard}
Pointer == Handle \cup {NULL}
alloc == DOMAIN filter

(* "out" of the yield; "ready" for the next cycle; in a "handler"; in the  *)
(* "default" handler of the client.                                        *)
Phase == {"out", "ready", "handler", "default"}

(* The handles that can be reached from p. *)
From(p) == Run(next, p, Handle)
Linked == From(first)

TypeOK ==
    /\ client \in {"none", "INITIALIZED", "CONNECTED", "DISCONNECTED"}
    /\ first \in Pointer /\ next \in [Handle -> Pointer]
    /\ alloc \subseteq Handle /\ \A h \in alloc : filter[h] \in Filter
    /\ packet_id \in 0..PacketIdMax
    /\ phase \in Phase /\ deadline \in 0..(Word - 1)
    /\ topic \in Topic \cup {NULL} /\ cursor \in Pointer
    /\ start \subseteq Handle /\ kept \subseteq Handle /\ called \subseteq Handle
    /\ (client = "none") => (phase = "out" /\ first = NULL)
    /\ (phase = "handler") <=> (cursor # NULL)

Init ==
    /\ client = "none"
    /\ first = NULL /\ next = [h \in Handle |-> NULL] /\ filter = <<>>
    /\ packet_id = 0 /\ phase = "out" /\ deadline = 0
    /\ topic = NULL /\ cursor = NULL
    /\ start = {} /\ kept = {} /\ called = {}

-----------------------------------------------------------------------------
(* A filter and a topic, or a filter and another taken for a topic, as     *)
(* iotx_mc_handle_recv_PUBLISH() and MALMQTTUnsubscribe() compare them.    *)
Matches(f, t) == f = t \/ f = Wildcard

(* Seeded fault: the identifier starts anew after its last value. *)
NextPacketIdLate == IF packet_id > PacketIdMax THEN 1 ELSE packet_id + 1

(* mal_mc_get_next_packetid() *)
NextPacketId == IF packet_id = PacketIdMax THEN 1 ELSE packet_id + 1

(* wrapper_mqtt_init(); a driver that does not start leaves no client.     *)
MqttInit ==
    /\ client = "none"
    /\ client' = "INITIALIZED" /\ packet_id' = 0
    /\ UNCHANGED <<list, phase, deadline, walk, kept>>

(* wrapper_mqtt_connect(): the driver may refuse, or poll disconnected.    *)
MqttConnect ==
    /\ client # "none" /\ phase = "out"
    /\ client' = "CONNECTED"
    /\ UNCHANGED <<list, packet_id, phase, deadline, walk, kept>>

(* wrapper_mqtt_release() frees the handles that are linked.  What is left *)
(* in free memory means nothing.                                           *)
MqttRelease ==
    /\ client # "none" /\ phase = "out"
    /\ client' = "none" /\ packet_id' = 0
    /\ first' = NULL
    /\ filter' = [h \in alloc \ Linked |-> filter[h]]
    /\ next' = [h \in Handle |-> IF h \in Linked THEN NULL ELSE next[h]]
    /\ UNCHANGED <<phase, deadline, walk, kept>>

(* The program calls the client between yields and from the handlers.      *)
Calling == client # "none" /\ phase # "ready"

Link(h) == first' = h /\ next' = [next EXCEPT ![h] = first]

(* wrapper_mqtt_subscribe_sync(): the handle is linked before the driver   *)
(* is asked, and stays if the driver says no.  Without a connection, or    *)
(* without memory for the handle and its filter, none is.                  *)
Subscribe(f) ==
    /\ Calling
    /\ packet_id' = NextPacketId
    /\ \/ /\ client = "CONNECTED"
          /\ \E h \in Handle \ alloc :
                /\ Link(h)
                /\ filter' = [g \in alloc \cup {h} |-> IF g = h THEN f ELSE filter[g]]
       \/ UNCHANGED list
    /\ UNCHANGED <<client, phase, deadline, walk, kept>>

(* Seeded fault: a handle that goes points nowhere. *)
UnlinkClearing(gone) ==
    /\ first' = First(next, first, gone)
    /\ next' = [h \in Handle |->
                  CASE h \in gone -> NULL
                    [] h \in Linked \ gone -> First(next, next[h], gone)
                    [] OTHER -> next[h]]

(* remove_handle_from_list() for every handle of gone, from the first on:  *)
(* the handles that stay are linked past those that go; one that goes      *)
(* keeps its memory and its next pointer.                                  *)
Unlink(gone) ==
    /\ first' = First(next, first, gone)
    /\ next' = [h \in Handle |->
                  IF h \in Linked \ gone THEN First(next, next[h], gone) ELSE next[h]]

(* Seeded fault: a handle that goes is freed. *)
UnsubscribeFreeing(f) ==
    /\ Calling /\ client = "CONNECTED"
    /\ packet_id' = NextPacketId
    /\ LET gone == {h \in Linked : Matches(filter[h], f)} IN
          /\ Unlink(gone)
          /\ filter' = [h \in alloc \ gone |-> filter[h]]
          /\ kept' = kept \ gone
    /\ UNCHANGED <<client, phase, deadline, walk>>

(* wrapper_mqtt_unsubscribe(); nothing goes if the client is not connected *)
(* or the driver fails.                                                    *)
Unsubscribe(f) ==
    /\ Calling
    /\ packet_id' = NextPacketId
    /\ \/ /\ client = "CONNECTED"
          /\ LET gone == {h \in Linked : Matches(filter[h], f)} IN
                /\ Unlink(gone)
                /\ kept' = kept \ gone
          /\ UNCHANGED filter
       \/ UNCHANGED <<list, kept>>
    /\ UNCHANGED <<client, phase, deadline, walk>>

(* wrapper_mqtt_publish(), which numbers a message of QoS 1 or 2. *)
Publish ==
    /\ Calling /\ client = "CONNECTED"
    /\ packet_id' = NextPacketId
    /\ UNCHANGED <<client, list, phase, deadline, walk, kept>>

-----------------------------------------------------------------------------
(* HAL_UptimeMs() returns 1. *)
UptimeMs == 1

(* mal_time_is_expired(), in words *)
Expired == (UptimeMs - deadline) % Word < (Word - 1) \div 2

(* wrapper_mqtt_yield(): the timer is set for a positive timeout, and      *)
(* after each cycle it is looked at.                                       *)
MqttYield ==
    /\ client # "none" /\ phase = "out"
    /\ \E timeout_ms \in 1..(Word \div 2 - 1) :
          deadline' = (UptimeMs + timeout_ms) % Word
    /\ phase' = "ready"
    /\ UNCHANGED <<client, list, packet_id, walk, kept>>

EndCycle ==
    /\ phase' = IF Expired THEN "out" ELSE "ready"
    /\ topic' = NULL /\ cursor' = NULL
    /\ start' = {} /\ called' = {} /\ kept' = {}

(* mal_mc_cycle() when the driver is, or is then, not connected ... *)
CycleDown ==
    /\ phase = "ready"
    /\ \/ client # "CONNECTED" /\ client' = client
       \/ client' = "DISCONNECTED"
    /\ EndCycle
    /\ UNCHANGED <<list, packet_id, deadline>>

(* ... when it is connected and the ring is empty ... *)
CycleEmpty ==
    /\ phase = "ready"
    /\ client' = "CONNECTED"
    /\ EndCycle
    /\ UNCHANGED <<list, packet_id, deadline>>

(* The first handle from p on whose filter matches t. *)
Match(p, t) == First(next, p, {h \in alloc : ~Matches(filter[h], t)})

(* ... and when it holds a message of topic t: iotx_mc_handle_recv_PUBLISH *)
(* calls the handlers from the first handle on ...                         *)
CycleMessage(t) ==
    /\ phase = "ready"
    /\ client' = "CONNECTED"
    /\ topic' = t
    /\ cursor' = Match(first, t)
    /\ phase' = IF cursor' = NULL THEN "default" ELSE "handler"
    /\ start' = Linked /\ kept' = Linked /\ called' = {cursor'} \ {NULL}
    /\ UNCHANGED <<list, packet_id, deadline>>

(* Seeded fault: after a handler the list is searched from its head. *)
HandlerReturnsToHead ==
    /\ phase = "handler"
    /\ LET h == Match(first, topic) IN
          IF h = NULL THEN EndCycle
          ELSE /\ cursor' = h /\ called' = called \cup {h}
               /\ UNCHANGED <<phase, topic, start, kept>>
    /\ UNCHANGED <<client, list, packet_id, deadline>>

(* ... to the last, along the next pointers as each handler leaves them.   *)
HandlerReturns ==
    /\ phase = "handler"
    /\ LET h == Match(next[cursor], topic) IN
          IF h = NULL THEN EndCycle
          ELSE /\ cursor' = h /\ called' = called \cup {h}
               /\ UNCHANGED <<phase, topic, start, kept>>
    /\ UNCHANGED <<client, list, packet_id, deadline>>

DefaultReturns ==
    /\ phase = "default"
    /\ EndCycle
    /\ UNCHANGED <<client, list, packet_id, deadline>>

Cycle ==
    \/ CycleDown \/ CycleEmpty \/ (\E t \in Topic : CycleMessage(t))
    \/ HandlerReturns \/ DefaultReturns

Next ==
    \/ MqttInit \/ MqttConnect \/ MqttRelease \/ MqttYield
    \/ \E f \in Filter : Subscribe(f) \/ Unsubscribe(f)
    \/ Publish
    \/ Cycle

Spec == Init /\ [][Next]_vars

(* The loop runs on, and handlers return. *)
FairSpec == Spec /\ WF_vars(Cycle)

-----------------------------------------------------------------------------
(* No pointer leads to freed memory: neither the list, nor the handle      *)
(* whose handler runs, nor anything the walk may follow from it, although  *)
(* that handle may have been unsubscribed by its own handler.              *)
NoDanglingPointer == Linked \cup From(cursor) \subseteq alloc

(* Whatever the handlers subscribe and unsubscribe, a walk of              *)
(* iotx_mc_handle_recv_PUBLISH() calls each handle at most once and only   *)
(* those linked when it took the message, so that a new one waits for the  *)
(* next; and when it ends, every handle that matches and stayed linked all *)
(* along was called.                                                       *)
CallsEachOnce ==
    [][ phase = "handler" =>
          /\ cursor' \notin {cursor, NULL} => cursor' \in start \ called
          /\ phase' # "handler" =>
                \A h \in kept : Matches(filter[h], topic) => h \in called ]_vars

(* A walk comes to an end: the cycle gets to release the ring's slot.      *)
WalkEnds == phase = "handler" ~> phase # "handler"
=============================================================================
