# Verification of the SmartRTU firmware

The firmware (`src/STM32F4DISC_FR_AWS_OTA-BLE`, below `R/`) connects a metering
unit to a cloud over a SIM800 modem that it drives with AT commands. Its own
logic is the AT and OTA part of `R/eng`; the rest is the vendor's hardware
library, TLS, and trial programs. This project models that logic in TLA+,
checks it with TLC and proves its safety with TLAPS.

The build is a single task: no operating system (`PLATFORM_HAS_OS` undefined,
`AT_SINGLE_TASK` 1), dynamic memory (`PLATFORM_HAS_DYNMEM` in
`infra_config.h`), MQTT by AT commands (`AT_MQTT_ENABLED`), no AT sockets
(`AT_TCP_ENABLED` commented out). All mutexes of `R/eng/wrappers/wrapper.c` are
empty functions. Concurrency comes from callbacks: the parser, read while the
driver waits for an answer, hands reports and messages to the code that waits.
Nested yields rest on the empty mutexes: `wrapper_mqtt_yield` of the socket client
holds `lock_yield` over the keepalive and its callbacks (`iotx_mqtt_client.c:2802`),
and a callback that yields in turn would block for ever on a mutex that is real
and not recursive (`wrapper.c:259`).
`R/Src/main.c:118` loops for ever before it calls any of this, so what is
modelled is the library the firmware links and `R/Src/ota_example_mqtt.c` uses.
`eng/mqtt/iotx_mqtt_client.c`, a second implementation of the same wrapper over
a socket, is kept beside it and left out of the project file; it has the
keepalive, the repetitions and the reconnecting that the modem does in the other
one, and is modelled too.

## Inventory

| Component | State it keeps | Operations | What is hard |
|---|---|---|---|
| Receive buffer, `eng/atm/at_mqtt.c` | ring of message slots that grows from 1 to 14, indices, flags | init, release, `at_mqtt_input`, read in `mal_mc_cycle` | the producer runs inside the consumer's handler; the ring grows while it is read |
| MQTT client, `eng/atm/at_mqtt.c` | client state, linked list of topic handles, packet id | init, connect, subscribe, unsubscribe, publish, yield, release | handlers rewire the list that is being walked; the clock stands still |
| SIM800 MQTT driver, `eng/atm/mqtt_sim800.c` | connection as last reported, last result, poll counter | init, connect, state poll, reconnect, subscribe, ... | reports are late, lost or unsolicited and not tied to commands; connect and poll call each other |
| OTA client, `eng/ota/iotx_ota.c`, `ota_fetch.c`, `ota_lib.c` | four-state life, counters, hash contexts, parameters of the last notices | init, notice, fetch, check, reset | all of it belongs to the handle and survives from one download to the next |
| AT parser, `eng/atm/at_parser.c` | scan buffer, four callbacks with the length of their capture, one capture array | `at_yield`, `at_scan_for_callback`, send | a report spread over several yields; four captures in one array; bytes shared with an interrupt |
| AT mailbox, `eng/atm/at_conn_mbox.c` | ring of pointers | post, trypost, fetch | nothing: the only call that posts is commented out |
| AT sockets, `eng/atm/at_conn_mgmt.c`, `sim800.c`, ... | socket table | - | the bodies are commented out |
| OTA signalling, `eng/ota/ota_mqtt.c` | four topics, one context | init, deinit, notices, reports | handlers outlive their context |
| OTA application, `Src/ota_example_mqtt.c` | its place in the loop, the file | construct, wait, download, check | notices between and after the chunks; failed fetch, failed write |
| Socket client, `eng/mqtt/iotx_mqtt_client.c` | state, unanswered pings, back-off, messages that wait for an acknowledgement, handlers, calls that wait | yield, publish, subscribe with and without waiting, unsubscribe | the link dies silently, acknowledgements are lost; calls nest through callbacks |
| MQTT API, `eng/mqtt/mqtt_api.c` | client handle, offline subscriptions | construct, subscribe, ... | subscriptions made before there is a client |
| Direct commands, `Src/sim8001.c`, `usart.c` | receive buffer filled by interrupt | send with retry | late answers |
| Platform, `eng/wrappers/wrapper.c` | - | heap, UART, clock, mutexes | a clock that returns 1, mutexes that do nothing |
| Main program, drivers, middleware | - | - | hardware, or third-party |

The application constructs a client (`mqtt_api.c`), which initialises the
driver and the ring, connects, subscribes its handlers and then yields in a
loop. A yield polls the driver and reads the ring; both read the UART through
the parser, whose callbacks set the driver's results or put a message into the
ring. The OTA client is one such handler: a notice starts a download over
HTTP, which the application fetches chunk by chunk between yields.

What makes each part correct: an accepted message is handed over exactly once,
and no access leaves the ring (buffer); every handler that stayed subscribed
sees each message once, and nothing follows a freed handle (client); what an
operation returns is what the modem said, and operations return (driver); a
report is handed to its callback whole and once (parser); a firmware said to be
valid is the announced file, whole (OTA), and is what was written (application);
a message waits until the broker has it, and a call that waits is told the
truth (socket client). `PROJECT.json` lists the hazards line by line.

## Modules

`AtMqttBuffer` is `g_at_mqtt_buff_mgr` and its functions, one action per
branch of `at_mqtt_input` (`InputRejected`, `InputFull`, `InputStore`,
`InputGrow`, `InputNoMemory`), and `mal_mc_cycle` cut in two at the handler
(`BeginRead`, `EndRead`), because an arrival may come in between. It reads the
ring only while the driver is `connected`; `Drop` is the same function where the
flow control of `property.set` messages (those `Filtered`) returns before the
handlers and the slot is freed all the same. The variables
keep the code's names; `slot` stands for topic and data of a slot, `reading`
for the local copy of `read_index`, `unzeroed` for heap memory that was never
cleared, `halted` for a write through a NULL slot, which may or may not stop
the processor. `accepted`, `delivered`, `dropped`, `grown` and `lost` are history.

`MessageStore` is what the ring promises: accepted messages are held, then
delivered once, dropped by the flow control, or destroyed, with no order; on a
connection that stays all that is held is taken. `AtMqttBuffer` implements it
with `held` mapped to the messages in valid slots that were not delivered, `open`
to `ready` and `online` to `connected`.

`AtMqttClient` (`AtMqttClientMC` names its values) keeps the handles as memory
cells with `next` pointers; what a pointer reaches is an operator of `Chains`
(`Run`, the least set closed under `next`, and `First`, the first cell in it with a
property). A handler is a state of its own (`phase =
"handler"`), in which `Subscribe` and `Unsubscribe` are enabled as they are
between yields. The driver appears as what its calls may return, the ring as a
message of some topic. `HAL_UptimeMs` is the constant 1 it is in the code, the
timers are words of `Word` values.

`MqttSim800` has the driver's call stack as its state: a frame is the function,
its position and its retry counter. `AtSend` is `at_sim800_mqtt_atsend`: the
modem queues its reply behind what it has yet to say, some of the line, perhaps
none, arrives before the wait is over, and the parser's callbacks note it in
`result` and `connect_state`: of what is heard, the last report that has a say
(`Latest`) decides. `at_send_wait_reply` leaves the parser out, so
reports that come while it is used are lost (`Overlook`). `last` and
`confirmed` are history.

`OtaClient` (`OtaClientMC`) has one action per call of the interface and per
kind of notice. A file is a sequence of units; `hashed` is what both hash
contexts were fed, `finished` the contexts already finalised, `missing` those for
which there was no memory when a configuration came (nothing checks them, `Scarce`
names those it may happen to); a download or a check with such a context, or a
check without a signature, goes through NULL and may fault (`Faults`). `received`,
`hashed0`, `count0`, `reset`, `failed` and `verdict` are history.

`OtaApp` (`OtaAppMC`) composes that module with its two users: `_ota_mqtt_client`,
whose place is `pc`, and the subscriptions of `ota_mqtt.c` (`linked` topics, all
with the context `osc`). It EXTENDS `OtaClient` and uses its actions: where
`OtaClient` allows any call at any time, here the program makes them in its
order, and notices come only in its two yields. Its steps are those it `Runs` by
itself and the three calls it waits for (`Returns`): whether these return is the
clock's business. `written` and `said` are what it did with the data.

`AtParser` (`AtParserMC`) is the parser one character at a time. `line` is what
the modem still has to say; `GetChar` stores a character and runs
`at_scan_for_callback`: the callbacks are asked one after the other (`Scan`, `Ask`)
and capture into the one array `data`. `TimeOut` and `BufferFull` end a yield, `Lose` is a character that
came while nobody read, be it between two yields or while one looks at the
character before it (or that the interrupt took). `MqttSim800` stands on this
module's promise as reports that arrive or are lost.

`IotxMqttClient` is the socket client's connection: `wrapper_mqtt_yield` with its
keepalive, read, and repetition of unacknowledged messages, cut where a callback
of the application may run and publish. The link may be `broken` without a sign,
or `torn` by a read that got part of a packet; acknowledgements are counted by
identifier. The two callbacks that tell of the connection may wait for a
subscription, hence yield (`Enter`, `Leave`, `stack`): a whole outage may lie within
the callback of another, and what the code does after a callback meets whatever
state it left. `IotxMqttSubs` (`IotxMqttSubsMC`) has the other half, the handlers and
the subscriptions: `stack` is the nesting of calls that wait and of both
callbacks, `waits` is `list_sub_sync_ack`; a request may be sent, or fail with or
without the connection, a call may get no memory for its node (`WaitFor`), a read
may get part of a packet (`CyclePartial`) or a packet that only looks like a SUBACK
(`CycleGarbage`). The halves share only the connection, which each loses whenever
the other might. Lists that lose some of their members
at once are described by `Sublists` (the members left, in their order).

Modules without common state take their neighbours as the values they may
return. Operators named as seeded faults are never used by the models:
each is a plausible mistake in the definition that follows it, and replacing
the definition by it must break the property it is listed with.

## Runs

| Run | Bounds | Shows |
|---|---|---|
| `AtMqttBuffer` | 1 initial slot, 4 at most, 6 arrivals, 2 of them under flow control | the ring: six invariants beside its types, no loss, delivery, `MessageStore` implemented with its fairness |
| `AtMqttClient` | 3 handles, 2 topics and a wildcard, ids 0..1, words of 6 | the walk of the handles |
| `MqttSim800` | 1 configuration command, 2 bearer commands, 2 tries, poll every 2nd time, 5 frames, 1 report under way | connect tells the truth; nested loops unwind |
| `OtaClient` | 2 files of 2 and 1 units, chunks of 1, 3 notices, no memory for MD5 | counting, hashing, end and check of downloads |
| `OtaApp` | firmware of 3 units, configuration of 1 announced as 2, chunks of 2, 3 notices, no memory for MD5 | what the program says of what it wrote |
| `AtParser` | scan buffer of 9, 4 lines, 2 lost characters | reports are handed over whole and once |
| `IotxMqttClient` | 2 identifiers, 2 messages waiting, 1 ping unanswered, intervals 1..3, 1 acknowledgement under way per identifier, 2 callbacks deep | keepalive, repetition, back-off |
| `IotxMqttSubs` | 3 handles of a filter and a wildcard, 3 requests, 2 nested calls | calls that wait, walk of the handlers |
| `MqttSim800Returns`, `MqttSim800Suback`, `OtaFetchedEarly`, `IotxSuback` | as above, no reports under way or 2 notices | disagreements with the headers, see below |

Why the bounds are enough. Growth from one slot to four meets `write_index = 0`
(where "no growth" and "growth at 0" cannot be told apart), growth at a
non-zero index, growth during a handler, a full ring and a wrap of both
indices, and six arrivals are more than fill and empty that ring; the proofs
remove these bounds. Three handles let a handler remove itself, its successor
and subscribe anew; the wildcard lets one message reach several. With five
frames the driver is at connect, poll, reconnect, connect, poll: every function
above and below itself; the code has 80 tries, one more level per try. With two units and chunks of
one a download has a first, a last and no other chunk; a configuration whose
announced size is not its length covers disagreement of server and notice, and
three notices let a download follow one that failed and one that was checked.
`OtaApp` adds a last chunk that is short, and a notice in every gap of the loop.
The lines of `AtParser` are reports of two callbacks, text, a report too long,
and one that contains the other's prefix; four of them leave two in a row after
one that was spoilt, and the buffer of 9 is shorter than two of most of them. Two
identifiers come round while both are in use. Callbacks two deep have an
outage within the callback of another, told as lost or as back. Two nested calls
have a node that is not the first of the list, and three requests let either
of them be refused and ask again.

Safety of the ring: occupied slots are the cyclic interval of the indices
(`OccupiedInterval`), a served client touches allocated slots only
(`FaultsOnlyOutsideService`), the handler's slot is not reused
(`HandlerOwnsItsSlot`), each accepted message is in one place
(`EachMessageOnce`), nothing is lost in service (`NoLossInService`) and
on a connection that stays everything is delivered or dropped by the flow control,
unless a release or a reset destroys it (`EventuallyDelivered`). Two weaknesses of the code are
stated with their exact extent: a message overtakes an older one
(`OvertakesByGrowthOnly`), or has no terminating zero
(`UnterminatedByGrowthOnly`), only if it was stored by a growth.

Client: a walk calls every handle that stayed once, and no new one
(`CallsEachOnce`), follows no freed handle (`NoDanglingPointer`) and ends
(`WalkEnds`). This holds although a handler may unsubscribe itself, because
unlinked handles are never freed: the leak is what keeps the walk safe.

Driver: `ConnectTells`, `UnwindsOnceConnected`. Parser: `ReportedOnce` says
which reports are safe (those that find the parser at rest, name one callback
and are not damaged) and that nothing before them matters; `LineEndsCapture` says
what it takes to upset the parser beyond a line: a lost line end or two captures
at once.

OTA: a download in progress is not redirected (`BusyIsFrozen`), counter and
hashes agree with what was delivered (`CountedAndHashed`), it ends exactly when
the count reaches the size (`EndsAtTheSize`), and valid means whole
(`ValidMeansWhole`). Application: what is called valid is the end of what was
written (`ValidMeansWritten`), a first firmware that came whole is called valid
(`WholeIsValid`), if the calls that wait return every download is judged unless the
server has too little (`VerdictReached`), no handler meets a freed context (`LiveContexts`). The file
need not be exactly the firmware: a configuration downloaded before it leaves
its data in front, the program never truncates.

Socket client: `ProbesCountSilence` bounds by how much a connection is punished
for the silence of the one before; `GoneMeansDelivered` lets a message leave the
list only when the broker has it, and names the two exceptions, an identifier
that came round and a read out of step; `RepeatedUntilAcked`, `DeadLinkReported`.
`WaitsGrow` says when the wait between attempts may get shorter: when a callback
returned since the last one. `WaitsMatchCalls`, `SyncTellsTruth` and
`CallsAllThatStayed` speak of nested calls and of walks that handlers change;
`SyncTellsTruth` excepts the calls whose last answer was no SUBACK (`forged`), about
which `IotxSuback` shows what happens, and a walk from a freed handle goes to
"undefined".

### Fairness

The application yields in its main loop and handlers return (`Read`, `EndRead`;
`Cycle`). `Read` is enabled only while the driver is connected, so weak fairness
asks for a read only of a connection that stays: `mal_mc_cycle` returns before the
ring otherwise. A call of the driver that was made runs on, each of its waits being
bounded (`Step`). The program of `OtaApp` goes on between its calls (`Runs`); that
the calls which wait for a clock return is no fairness of the specification but the
premise `CallsReturn` of `VerdictReached`, because with the clock of `wrapper.c` they
do not (`Expired` of `AtMqttClient`). The user of the socket client yields (`Yield`, weak); its
timers expire again and again, and a read, a time-out and a repetition each get
their turn in a yield that is entered again and again (`YieldPing`, `HeadAck`,
`CycleTimeout`, `HeadAgain`, strong, as other branches of the same yield may disable
them). This too takes a clock that runs, which this build does not have, nor does
it have the socket client. Nothing is assumed of the modem, the broker, the web
server, resets or memory; `RepeatedUntilAcked` speaks of a connection that stays as
it is, and a link that is dead stays so until the client closes it.

### Disagreements with the documentation

* `MqttSim800Returns`: connect, poll and reconnect recurse until the stack of
  0x7800 bytes is full, if the modem accepts commands and reports no connection.
* `MqttSim800Suback`: the result of a command is whatever report came last, and
  a suback of 128 (failure) is a success.
* `OtaFetchedEarly`: a second firmware download starts with the old counter and
  is over with its first chunk. Its check fails, as `ValidMeansWhole` shows.
* `IotxSuback`: what is no SUBACK, but read as one, counts as a success, for an
  identifier that may be any: a call that waits returns it without a grant.

More are in the models without a run of their own.

* A handler of a wildcard filter that unsubscribes a filter of the same ending frees
  its own handle (`iotx_mqtt_client.c:2462`), and the walk goes on from it
  (`iotx_mqtt_client.c:1242`): it uses `list_for_each_entry`, where `infra_list.h:144`
  has a macro "safe against removal of list entry". In `IotxMqttSubs` this is
  `HandlerReturns` with `freed`, and leads to "undefined".
* The filter to unsubscribe is compared together with its terminating zero
  (`iotx_mqtt_client.c:2451`, `MatchesPadded`), so the handler of an equal filter stays
  linked after a success (`mqtt_api.h:283`).
* After the callback of a connection that is back the interval of the reconnects is
  set to its minimum (`iotx_mqtt_client.c:1847`, `BackReturns`), also when the callback
  has met another outage that lasts. The next attempt that fails may be followed by a
  shorter wait, where `iotx_mqtt_client.c:1768` has "2s..4s..8s". `WaitsGrow` has this
  exception (`reset`).
* With `HAL_UptimeMs()` 1 for ever (`wrapper.c:335`) no timeout is over, and the loop of
  `wrapper_mqtt_yield` is left only when the connection is (`Expired`), where
  `mqtt_api.h:212` speaks of a timeout in milliseconds.
* A subscription the driver refuses leaves its handle linked (`at_mqtt.c:425`,
  `Subscribe` of `AtMqttClient`), although `mqtt_api.h:240` calls it failed.
* The end of a configuration download may be told to the firmware callback
  (`iotx_ota.c:728`, `Finish`).
* Two captures at once damage each other (`at_parser.c:661`, `Scan`).

## Proofs

Each component has its theorems in a module of its own, named `..._proofs`. They
hold for every value of the constants that the named assumption of the
component allows; the assumptions ask for what the code's constants are (sizes
and limits are natural numbers, some of them positive, `NULL` is no handle).
`PROJECT.json` lists the theorems; every safety invariant of the passing runs
and every action property is among them. Where an invariant is not inductive,
its strengthening is named here with the reason it is needed.

**`AtMqttBuffer`** (`BufferAssumption`): type correctness, the seven safety
invariants of the ring, `NoLossInService` and `Spec => Store!Spec`. Of the
seven, `ReaderFindsWork` (a message that waits is found by the next read)
follows from `OccupiedInterval` and has no run of its own. The inductive
invariant has four parts. `TypeInv` adds to `TypeOK` that a slot holds a message
exactly if its flag is set. `RingInv` has the interval, the allocated slots and
the handler's slot: the growth of a full ring preserves the interval because
writing goes on at the occupied slot (or, at slot 0, at the wrapped index), which
keeps the new slot inside it; this needs that equal indices mean all or none.
`MessageInv` adds that accepted numbers are at most `inputs`, so an arrival is
new to the ring, and that the three places of a message exclude each other.
`OrderInv` is `OvertakesByGrowthOnly` and `UnterminatedByGrowthOnly`: a store that
is not a growth goes to the last place in reading order, because the occupied
slots are the interval that ends before `write_index`. The refinement maps each
action to `Accept`, `AcceptClosed`, `Deliver`, `Wipe` or a stutter; that at most
`MaxBufferNum` messages wait comes from a counting lemma on the slots.

**`AtParser`** (`ParserAssumption`: prefixes of two characters or more that share
none with the postfix, arrays shorter than the buffer, and lines that end with
the first postfix in them; the prefixes `+SM`, `+CME`, `OK`, `+SAPBR` and the
postfix `\r\n` are such). Types need `AllFit`: an open capture has its whole
prefix and keeps within its array. `LineEndsCapture` needs that what was read of
the postfix is the end of what the one capture holds, behind its prefix
(`EndIsCaptured`); a character of the postfix ends no prefix, so it is stored in
that capture only, and with the last one the capture is complete. `ReportedOnce`
needs `BufFollows` (the buffer ends with what was read of the line, and no prefix
is half read that began before it) and `CleanFollowed`: before the end of its
prefix the report is in the buffer and in no capture, after it is the content of
one capture, alone. A prefix found while the line is read is therefore in the
line; the capture is not complete before the end since the postfix is not in the
line before. The scan over the callbacks is a recursive function, about which
two lemmas are proved: what every callback keeps, the scan keeps (`ScanKeeps`), and
a callback that alone has something to do is all of it (`ScanOne`).

**`AtMqttClient`** (`ClientAssumption`): `LiveOK` says that the handles the list or
the walk can still reach are allocated and their chains end, that is, in every
set of them one has its successor outside, which excludes circles. From it
`NoDanglingPointer` follows, and an unlinking takes one handle out of a chain
without changing the rest. `CallsEachOnce` needs `AheadOK`: what the walk has still
to meet was linked when it began and was not called, and of the handles that
stayed and match none is missing from it. Chains are least closed sets
(`Run` of `Chains`), so that no recursion is in the way.

**`MqttSim800`** (`Sim800Assumption`): `StackOK` says that the bottom of the stack
is no function that only others call, and that a poll which asks again has tries
left. With it the return of 0 from the last frame is the return of a connect, and
`ConnectTells` follows for every number of tries and every depth.

**`OtaClient`** (`OtaAssumption`): `BusyIsFrozen` and `CountedAndHashed` need types
only. `EndsAtTheSize` needs `ShortOfTheSize`: a download in progress whose counter
is its own has less than the size. `ValidMeansWhole` needs `DeliveredInOrder`: the
units come in order and start with the first, so that a hash begun by an earlier
download is never that of a file, however the two are cut.

**`OtaApp`**: every behaviour of the program is one of the client (`AppSpec =>
Spec`), by `HandleIsLive`: whenever the program calls, it holds a live handle. The
client's theorems thus hold of the program, and its own are proved on top of
them. `LiveContexts` is part of the same invariant; `ValidMeansWritten` needs
`FileFollows` (while no call has failed the file, with the chunk that is about to
be written, ends with what this download delivered), `WholeIsValid` needs
`FirstOfAll` (before and during the first download nothing else was hashed).

**`IotxMqttClient`** (`IotxAssumption`): `ProbesWithin` lets the probes pass their
limit only between a ping and the read after it, which gives the connection up;
`ProbesCountSilence` is inductive with it. `WaitsGrow`
(`WaitsGrowBetweenCallbacks`, for every depth of callbacks) needs `WaitIsCut`: the
wait is the interval cut at the maximum for as long as the outage lasts and no
callback of a connection that was back has set the interval alone (`reset`).
`GoneMeansDelivered` needs `AcksAreEarned`: an acknowledgement, noted or on its
way, is that of a message that reached the broker or whose identifier is in
doubt. The list is rewritten as a whole, so that a lemma (`KeptList`) says where
each kept message has been.

**`IotxMqttSubs`** (`SubsAssumption`): `StackOK` says that calls and callbacks
alternate on the stack, which decides what can be on its top in each phase.
`CallsAllThatStayed` needs `DueIsAhead` (while the handler of the walk is linked, all
that are due sit behind it), `SyncTellsTruth` needs `YesMeansGranted` (no SUBACK on its
way says yes to what was not granted, nor is one taken down for a call, unless what
was read last for it was no SUBACK), `WaitsMatchCalls` needs `PairedNow`: nodes and
open calls have the same identifiers in the same order, none past the last one
taken. Since a call may go on without a node and get one later, this takes more than
the open calls: the requests of all calls increase along the stack, so that a node
that is late still goes behind those of the calls below it.

Model-checked only: all liveness (`EventuallyDelivered`, `WalkEnds`,
`UnwindsOnceConnected`, `VerdictReached`, `RepeatedUntilAcked`, `DeadLinkReported`) and
the fairness part of the two refinements, since TLAPS does not treat `ENABLED`;
and the four disagreements, which are counterexamples.

## Not modelled, and why

* Text: the parsing of reports and JSON, topic syntax, the bytes of packets. Reports, topics and files are
  values; the parser's lines are short sequences of a few characters.
* AT mailbox and AT sockets: the bodies of `at_conn_input`, `at_conn_start` and of
  the driver in `sim800.c` are commented out, so nothing is ever posted.
* MQTT API: sequential list code above the wrapper. It frees offline
  subscriptions whether or not the subscribe succeeds (`mqtt_api.c:236`).
* Direct commands (`sim8001.c`): a late answer satisfies the next command and the
  buffer is cleared while the interrupt writes it. No property of an answer would
  be true.
* `at_send_wait_reply` beyond its loss of reports, callbacks without a postfix
  (only `sim800.c` has them), the threaded `at_worker`.
* The reply of code 400 to a push that fails, `MQTT_CONNECT_BLOCK` of asynchronous
  network stacks, and the fixed lists of builds without dynamic memory.
* UART: `main.c:111` arms interrupt reception of USART2 and `usart.c:206`
  re-arms it, which makes the polling `HAL_UART_Receive` of the parser return
  busy. The parser's model lets any characters be lost, also during a yield, as
  many as its bound allows.
* `at_sim800_GPRS_TCP_init` in `mqtt_sim800.c`, a trial sequence of commands.
* Main program, Bluetooth trial, drivers and middleware: input and output, or
  third-party.

## Plan

Done: the ring with its abstract store, the client, the driver, the parser, the
OTA client and its application, the socket client; every safety and every action
property that is checked is proved. What is left:

1. An abstract specification of the message list of `IotxMqttClient` (a message is
   taken, reaches the broker, is let go) and the proof that the list implements it.
2. The parts of the liveness properties that need no `ENABLED`: that each chunk of a
   download brings `OtaApp` nearer to its end, each step of a walk nearer to its own.
3. The offline subscriptions of `mqtt_api.c`, composed with the client.

No module that has theorems, or is used by one, declares a `RECURSIVE` operator.
