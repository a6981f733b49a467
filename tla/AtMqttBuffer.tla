---------------------------- MODULE AtMqttBuffer ----------------------------
(***************************************************************************)
(* The receive buffer of the AT MQTT client: g_at_mqtt_buff_mgr and the    *)
(* functions of eng/atm/at_mqtt.c that touch it.                           *)
(*                                                                         *)
(* The producer is at_mqtt_input(), called by the AT parser for every      *)
(* received-publish report of the modem.  The consumer is mal_mc_cycle(),  *)
(* called by IOT_MQTT_Yield().  There is one thread and every HAL mutex is *)
(* an empty function, but the producer still runs between any two steps of *)
(* the consumer that reach at_yield(): in particular INSIDE a message      *)
(* handler that publishes, while the slot it was given is still marked     *)
(* valid.  So mal_mc_cycle() is two actions, one on each side of the       *)
(* handler.  A message that falls under the flow control reaches no        *)
(* handler and is one action.  The ring is read only while the driver says *)
(* that it is connected.                                                   *)
(*                                                                         *)
(* The buffer starts with DefaultBufferNum static slots and grows by one   *)
(* heap slot at a time, up to MaxBufferNum, whenever the slot to write is  *)
(* still occupied.                                                         *)
(***************************************************************************)
EXTENDS Integers, FiniteSets

CONSTANTS
    DefaultBufferNum,   \* MAL_MC_DEFAULT_BUFFER_NUM (1 in the firmware)
    MaxBufferNum,       \* MAL_MC_MAX_BUFFER_NUM (14 in the firmware)
    Filtered,           \* the messages under flow control: those that begin
                        \* with {"method":"thing.service.property.set"
    MaxInputs           \* bound: calls of at_mqtt_input() considered

ASSUME BufferAssumption ==
    /\ DefaultBufferNum \in Nat \ {0}
    /\ MaxBufferNum \in Nat
    /\ DefaultBufferNum =< MaxBufferNum
    /\ MaxInputs \in Nat
    /\ Filtered \subseteq 1..MaxInputs

Slots == 0..(MaxBufferNum - 1)
Id == 1..MaxInputs          \* the n-th call of at_mqtt_input() carries n
NoMsg == 0                  \* a zeroed slot
NoRead == -1                \* mal_mc_cycle() is not in a handler

VARIABLES
    write_index, read_index, last_write_index,
    buffer_num,     \* slots in use
    valid_flag,     \* [Slots -> {0, 1}]
    slot,           \* the message in topic[i] and msg_data[i]
    allocated,      \* the slots whose topic and msg_data are not NULL
    unzeroed,       \* heap slots whose memory was never cleared: what is
                    \* copied there has no terminating zero
    ready,          \* mal_mc_recv_buf_init() has run, its deinit has not
    connected,      \* HAL_AT_MQTT_State() says IOTX_MC_STATE_CONNECTED
    reading,        \* local read_index of the mal_mc_cycle() in a handler
    halted,         \* a fault stopped the processor: only reset remains
    inputs,         \* calls of at_mqtt_input() so far
    accepted,       \* the messages for which it returned 0
    delivered,      \* the messages given to the handlers
    dropped,        \* the messages the flow control kept from them
    grown,          \* the messages stored by adding a slot
    lost            \* accepted and destroyed before they were looked at

indices == <<write_index, read_index, last_write_index, buffer_num>>
memory == <<valid_flag, slot, allocated, unzeroed>>
history == <<inputs, accepted, delivered, dropped, grown, lost>>
vars == <<indices, memory, ready, connected, reading, halted, history>>

Valid == {i \in Slots : valid_flag[i] = 1}
Waiting == {slot[i] : i \in Valid} \ delivered

TypeOK ==
    /\ write_index \in Slots
    /\ read_index \in Slots
    /\ last_write_index \in Slots
    /\ buffer_num \in 0..MaxBufferNum
    /\ valid_flag \in [Slots -> {0, 1}]
    /\ slot \in [Slots -> Id \cup {NoMsg}]
    /\ allocated \subseteq Slots
    /\ unzeroed \subseteq Slots
    /\ ready \in BOOLEAN
    /\ connected \in BOOLEAN
    /\ reading \in Slots \cup {NoRead}
    /\ halted \in BOOLEAN
    /\ inputs \in 0..MaxInputs
    /\ accepted \subseteq Id
    /\ delivered \subseteq Id
    /\ dropped \subseteq Id
    /\ grown \subseteq Id
    /\ lost \subseteq Id

-----------------------------------------------------------------------------
(* Seeded fault: one slot too many before the wrap. *)
WrapLate(i, n) == IF i + 1 > n THEN 0 ELSE i + 1

(* The next slot after i, as both sides compute it. *)
Wrap(i, n) == IF i + 1 >= n THEN 0 ELSE i + 1

(* Reset: the manager is a static variable, so all of it is zero. *)
Init ==
    /\ write_index = 0 /\ read_index = 0 /\ last_write_index = 0
    /\ buffer_num = 0
    /\ valid_flag = [i \in Slots |-> 0]
    /\ slot = [i \in Slots |-> NoMsg]
    /\ allocated = {} /\ unzeroed = {}
    /\ ready = FALSE /\ connected = FALSE
    /\ reading = NoRead /\ halted = FALSE
    /\ inputs = 0
    /\ accepted = {} /\ delivered = {} /\ dropped = {}
    /\ grown = {} /\ lost = {}

Restart ==
    /\ write_index' = 0 /\ read_index' = 0 /\ last_write_index' = 0
    /\ buffer_num' = 0
    /\ valid_flag' = [i \in Slots |-> 0]
    /\ slot' = [i \in Slots |-> NoMsg]
    /\ allocated' = {} /\ unzeroed' = {}
    /\ ready' = FALSE /\ connected' = FALSE
    /\ reading' = NoRead /\ halted' = FALSE
    /\ lost' = lost \cup Waiting
    /\ UNCHANGED <<inputs, accepted, delivered, dropped, grown>>

(* The driver learns that the connection is there or gone, from a report   *)
(* of the modem: at any time, also during a handler.                       *)
StateChanges ==
    /\ ~halted
    /\ connected' = ~connected
    /\ UNCHANGED <<indices, memory, ready, reading, halted, history>>

-----------------------------------------------------------------------------
(* Emptying the buffer, in mal_mc_recv_buf_init() and its deinit. *)
ClearAll ==
    /\ write_index' = 0 /\ read_index' = 0 /\ last_write_index' = 0
    /\ valid_flag' = [i \in Slots |-> 0]
    /\ slot' = [i \in Slots |-> NoMsg]
    /\ unzeroed' = {}
    /\ lost' = lost \cup Waiting

(* Seeded fault: the slots in use are not reset with the rest. *)
RecvBufInitKeepsNum ==
    /\ ~halted /\ ~ready
    /\ ClearAll
    /\ allocated' = 0..(DefaultBufferNum - 1)
    /\ ready' = TRUE
    /\ UNCHANGED <<buffer_num, connected, reading, halted,
                   inputs, accepted, delivered, dropped, grown>>

(* mal_mc_init() reaches this only after HAL_AT_MQTT_Init(), which already *)
(* registered the received-publish callback and then talks to the modem.   *)
RecvBufInit ==
    /\ ~halted /\ ~ready
    /\ ClearAll
    /\ buffer_num' = DefaultBufferNum
    /\ allocated' = 0..(DefaultBufferNum - 1)
    /\ ready' = TRUE
    /\ UNCHANGED <<connected, reading, halted,
                   inputs, accepted, delivered, dropped, grown>>

(* Heap slots are freed and set to NULL; buffer_num keeps its old value.   *)
(* The client is not released from inside one of its own handlers.         *)
RecvBufDeinit ==
    /\ ~halted /\ ready /\ reading = NoRead
    /\ ClearAll
    /\ allocated' = allocated \ (DefaultBufferNum..(buffer_num - 1))
    /\ ready' = FALSE
    /\ UNCHANGED <<buffer_num, connected, reading, halted,
                   inputs, accepted, delivered, dropped, grown>>

-----------------------------------------------------------------------------
(* at_mqtt_input(): one call, whatever it finds. *)
Call ==
    /\ ~halted
    /\ inputs < MaxInputs
    /\ inputs' = inputs + 1

(* The message goes to slot t.  A NULL slot is written through address 0: *)
(* the processor faults or the bytes disappear.                           *)
StoreAt(t) ==
    /\ slot' = [slot EXCEPT ![t] = inputs + 1]
    /\ valid_flag' = [valid_flag EXCEPT ![t] = 1]
    /\ lost' = lost \cup ({slot[t]} \cap Waiting)
    /\ accepted' = accepted \cup {inputs + 1}
    /\ halted' \in {FALSE, t \notin allocated'}

(* NULL or empty topic or message, or one longer than a slot. *)
InputRejected ==
    /\ Call
    /\ UNCHANGED <<indices, memory, ready, connected, reading, halted,
                   accepted, delivered, dropped, grown, lost>>

InputFull ==
    /\ Call
    /\ valid_flag[write_index] = 1
    /\ buffer_num = MaxBufferNum
    /\ UNCHANGED <<indices, memory, ready, connected, reading, halted,
                   accepted, delivered, dropped, grown, lost>>

(* Seeded fault: the flag of the slot to write is not looked at. *)
InputStoreUnchecked ==
    /\ Call
    /\ last_write_index' = 0
    /\ UNCHANGED allocated
    /\ StoreAt(write_index)
    /\ write_index' = Wrap(write_index, buffer_num)
    /\ UNCHANGED <<read_index, buffer_num, unzeroed, ready, connected, reading,
                   delivered, dropped, grown>>

InputStore ==
    /\ Call
    /\ valid_flag[write_index] = 0
    /\ last_write_index' = 0
    /\ UNCHANGED allocated
    /\ StoreAt(write_index)
    /\ write_index' = Wrap(write_index, buffer_num)
    /\ UNCHANGED <<read_index, buffer_num, unzeroed, ready, connected, reading,
                   delivered, dropped, grown>>

(* Seeded fault: after a growth writing goes on behind the new slot. *)
InputGrowLosesPlace ==
    /\ Call
    /\ valid_flag[write_index] = 1
    /\ buffer_num < MaxBufferNum
    /\ last_write_index' = write_index
    /\ allocated' = allocated \cup {buffer_num}
    /\ unzeroed' = unzeroed \cup {buffer_num}
    /\ buffer_num' = buffer_num + 1
    /\ StoreAt(buffer_num)
    /\ write_index' = Wrap(buffer_num, buffer_num + 1)
    /\ grown' = grown \cup {inputs + 1}
    /\ UNCHANGED <<read_index, ready, connected, reading, delivered, dropped>>

(* The slot to write is occupied: the message goes to a new last slot and  *)
(* writing goes on at the occupied one (at the wrapped index when that is  *)
(* slot 0, whose number cannot be told from "no growth").                  *)
InputGrow ==
    /\ Call
    /\ valid_flag[write_index] = 1
    /\ buffer_num < MaxBufferNum
    /\ last_write_index' = write_index
    /\ allocated' = allocated \cup {buffer_num}
    /\ unzeroed' = unzeroed \cup {buffer_num}
    /\ buffer_num' = buffer_num + 1
    /\ StoreAt(buffer_num)
    /\ write_index' = IF write_index # 0
                      THEN write_index
                      ELSE Wrap(buffer_num, buffer_num + 1)
    /\ grown' = grown \cup {inputs + 1}
    /\ UNCHANGED <<read_index, ready, connected, reading, delivered, dropped>>

(* One of the two allocations of a growth fails: whatever was allocated is *)
(* freed, both pointers are NULL, and only last_write_index has changed.   *)
InputNoMemory ==
    /\ Call
    /\ valid_flag[write_index] = 1
    /\ buffer_num < MaxBufferNum
    /\ last_write_index' = write_index
    /\ allocated' = allocated \ {buffer_num}
    /\ UNCHANGED <<write_index, read_index, buffer_num, valid_flag, slot,
                   unzeroed, ready, connected, reading, halted,
                   accepted, delivered, dropped, grown, lost>>

-----------------------------------------------------------------------------
(* mal_mc_cycle() gets to the ring, and finds a message there. *)
CanRead ==
    /\ ~halted /\ ready /\ connected /\ reading = NoRead
    /\ valid_flag[read_index] = 1

(* Clearing slot i and going on at next. *)
Free(i, next, zeroed) ==
    /\ slot' = [slot EXCEPT ![i] = NoMsg]
    /\ unzeroed' = unzeroed \ zeroed
    /\ valid_flag' = [valid_flag EXCEPT ![i] = 0]
    /\ read_index' = next
    /\ reading' = NoRead
    /\ UNCHANGED <<write_index, last_write_index, buffer_num, allocated,
                   ready, connected, inputs, accepted, grown, lost>>

(* Seeded fault: the flag is cleared before the handlers run. *)
BeginReadFreesFirst ==
    /\ CanRead
    /\ reading' = read_index
    /\ delivered' = delivered \cup {slot[read_index]}
    /\ valid_flag' = [valid_flag EXCEPT ![read_index] = 0]
    /\ UNCHANGED <<indices, slot, allocated, unzeroed, ready, connected, halted,
                   inputs, accepted, dropped, grown, lost>>

(* mal_mc_cycle() up to the handlers: it remembers read_index in a local.  *)
(* A message under flow control is handed over as well, if the last one    *)
(* was long enough ago.                                                    *)
BeginRead ==
    /\ CanRead
    /\ reading' = read_index
    /\ delivered' = delivered \cup {slot[read_index]}
    /\ UNCHANGED <<indices, memory, ready, connected, halted,
                   inputs, accepted, dropped, grown, lost>>

(* Clearing slot i and going on at next, after the handlers. *)
EndReadOf(i, next, zeroed) ==
    /\ ~halted /\ reading # NoRead
    /\ Free(i, next, zeroed)
    /\ halted' \in {FALSE, reading \notin allocated}
    /\ UNCHANGED <<delivered, dropped>>

(* Seeded faults: reading wraps at the initial size; the index moves       *)
(* before the slot is cleared; the memory is not cleared.                  *)
EndReadWrapsEarly ==
    EndReadOf(reading, Wrap(reading, DefaultBufferNum), {reading})
EndReadClearsNext ==
    LET next == Wrap(reading, buffer_num) IN EndReadOf(next, next, {next})
EndReadNoClear == EndReadOf(reading, Wrap(reading, buffer_num), {})

(* ... and after them.  buffer_num is read again, the index is not. *)
EndRead == EndReadOf(reading, Wrap(reading, buffer_num), {reading})

(* The flow control returns before the handlers, and mal_mc_cycle() frees  *)
(* the slot all the same.                                                  *)
Drop ==
    /\ CanRead
    /\ slot[read_index] \in Filtered
    /\ Free(read_index, Wrap(read_index, buffer_num), {read_index})
    /\ dropped' = dropped \cup {slot[read_index]}
    /\ UNCHANGED <<halted, delivered>>

Read == BeginRead \/ Drop

Input ==
    \/ InputRejected \/ InputFull \/ InputStore \/ InputGrow \/ InputNoMemory

Next ==
    \/ RecvBufInit \/ RecvBufDeinit
    \/ Input
    \/ Read \/ EndRead
    \/ StateChanges
    \/ Restart

Spec == Init /\ [][Next]_vars

(* The application calls IOT_MQTT_Yield() in its main loop, which looks at *)
(* the ring whenever it finds the driver connected, and a handler returns. *)
(* Nothing forces a connection, messages, memory, releases or resets.      *)
FairSpec == Spec /\ WF_vars(Read) /\ WF_vars(EndRead)
-----------------------------------------------------------------------------
(* The occupied slots are the cyclic interval from read_index to           *)
(* write_index; equal indices mean that all the slots are occupied or none.*)
InInterval(i) ==
    \/ read_index < write_index /\ read_index =< i /\ i < write_index
    \/ write_index < read_index /\ (read_index =< i \/ i < write_index)

(* While a client is served the occupied slots are that interval of the    *)
(* slots in use.  Both indices move without looking at each other, and the *)
(* ring grows in between, also during a handler (at_mqtt_input,            *)
(* mal_mc_cycle).                                                          *)
OccupiedInterval ==
    ready =>
        /\ buffer_num \in DefaultBufferNum..MaxBufferNum
        /\ read_index < buffer_num
        /\ write_index < buffer_num
        /\ \A i \in Slots : buffer_num =< i => valid_flag[i] = 0
        /\ read_index # write_index =>
              \A i \in 0..(buffer_num - 1) : valid_flag[i] = 1 <=> InInterval(i)
        /\ read_index = write_index =>
              \/ \A i \in 0..(buffer_num - 1) : valid_flag[i] = 1
              \/ \A i \in 0..(buffer_num - 1) : valid_flag[i] = 0

(* mal_mc_cycle() gives up when its one slot is empty and does not search: *)
(* whenever anything waits, it is found at read_index.                     *)
ReaderFindsWork ==
    ready /\ Valid # {} => valid_flag[read_index] = 1

(* Every access of a served client goes to allocated memory: a fault can   *)
(* only come from a message that arrives before the buffer is initialised  *)
(* or after it was released.                                               *)
FaultsOnlyOutsideService ==
    /\ halted => ~ready
    /\ ready => allocated = 0..(buffer_num - 1)

(* The slot a handler is reading stays occupied, and stays the one both    *)
(* sides agree to be the oldest, until the handler returns: nothing the    *)
(* handler lets in may reuse it.                                           *)
HandlerOwnsItsSlot ==
    reading # NoRead =>
        /\ ready
        /\ reading = read_index
        /\ valid_flag[reading] = 1
        /\ slot[reading] \in delivered

(* Bookkeeping of the whole path: an accepted message is in exactly one    *)
(* place (delivered, kept back by the flow control, destroyed, or one      *)
(* slot), and the only slot that holds a delivered message is the one      *)
(* whose handler is running, so no yield hands it over again               *)
(* (at_mqtt_input, mal_mc_cycle).                                          *)
EachMessageOnce ==
    /\ accepted = delivered \cup dropped \cup lost \cup Waiting
    /\ dropped \subseteq Filtered
    /\ delivered \cap dropped = {}
    /\ lost \cap (delivered \cup dropped) = {}
    /\ Waiting \cap (lost \cup dropped) = {}
    /\ \A i, j \in Valid : slot[i] = slot[j] => i = j
    /\ \A i \in Valid : slot[i] \in delivered => i = reading

(* Messages are destroyed undelivered only by init, release and reset, or  *)
(* by a store outside of service; never by a store or a growth of a served *)
(* buffer (at_mqtt_input).                                                 *)
NoLossInService == [][ready /\ ready' => lost' = lost]_vars

(* i is read before j. *)
Before(i, j) ==
    \/ read_index =< i /\ i < j
    \/ i < j /\ j < read_index
    \/ j < read_index /\ read_index =< i

(* A message is handed over before an older one only if it was stored by a *)
(* growth: the new slot comes last in the array, which is not last in      *)
(* reading order once read_index has moved.  (at_mqtt_input)               *)
OvertakesByGrowthOnly ==
    ready =>
        \A i, j \in Valid :
            Before(i, j) /\ slot[i] > slot[j] => slot[i] \in grown

(* The memory of a new slot is not cleared, so its first message has no    *)
(* end: only messages stored by a growth suffer, each slot once.           *)
UnterminatedByGrowthOnly ==
    ready =>
        \A i \in unzeroed :
            /\ DefaultBufferNum =< i /\ i < buffer_num
            /\ valid_flag[i] = 1
            /\ slot[i] \in grown

(* If the connection is there for good, a message accepted for a served    *)
(* client reaches the handlers, or the flow control keeps it from them,    *)
(* unless the client is released or the processor reset: a ring that is    *)
(* never empty and keeps growing starves no slot (mal_mc_cycle).           *)
EventuallyDelivered ==
    <>[]connected =>
        \A m \in Id :
            (ready /\ m \in Waiting) ~> m \in delivered \cup dropped \cup lost

(* The buffer implements the message store.                                *)
Store == INSTANCE MessageStore WITH
            Message <- Id, Droppable <- Filtered, Capacity <- MaxBufferNum,
            open <- ready, online <- connected, held <- Waiting,
            delivered <- delivered, dropped <- dropped, lost <- lost

ImplementsStore == Store!FairSpec
=============================================================================
