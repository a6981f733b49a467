---------------------------- MODULE MqttSim800 ----------------------------
(***************************************************************************)
(* The SIM800 driver of the AT MQTT client, eng/atm/mqtt_sim800.c.         *)
(*                                                                         *)
(* Every operation is a series of AT commands.  at_sim800_mqtt_atsend()    *)
(* writes one, listens for a while, and returns g_at_response_result; what *)
(* the modem says meanwhile reaches the callback of the AT parser, which   *)
(* may set that result or g_mqtt_connect_state.  Nothing ties a report to  *)
(* the command it answers, and the result is not reset between commands.   *)
(*                                                                         *)
(* Connecting and polling the state call each other: the wait loop of      *)
(* client_conn() polls client_state(), which reconnects while the modem    *)
(* does not report a connection, and reconnecting is client_conn() again.  *)
(* The call stack is part of the state.                                    *)
(***************************************************************************)
EXTENDS Integers, Sequences, SequencesExt

CONSTANTS
    NConf,      \* AT+SMCONF commands of one connect (6 in the firmware)
    NIp,        \* AT+SAPBR commands of at_sim800_gprs_ip_init() (5)
    MaxRetry,   \* SIM800_RETRY_MAX (80)
    PollMode,   \* a connected client is polled every PollMode-th time (32)
    MaxDepth,   \* frames of nested calls the stack has room for
    MaxLine     \* bound: reports the modem has yet to deliver

ASSUME Sim800Assumption ==
    /\ NConf \in Nat /\ NIp \in Nat \ {0}
    /\ MaxRetry \in Nat \ {0}
    /\ PollMode \in Nat \ {0}
    /\ MaxDepth \in Nat \ {0} /\ MaxLine \in Nat

VARIABLES
    params_set,     \* g_isInitParamsSet
    connect_state,  \* g_mqtt_connect_state
    result,         \* g_at_response_result
    count,          \* g_mqtt_client_count, modulo PollMode
    stack,          \* the driver's frames, the running one last
    halted,         \* the stack is full
    line,           \* reports of the modem on their way, oldest first
    last,           \* the last call that returned, and what it returned
    confirmed       \* in its window the last command was confirmed by the
                    \* modem: a positive report, its own

vars == <<params_set, connect_state, result, count, stack, halted, line,
          last, confirmed>>

(* iotx_mc_state_t, as far as the driver uses it. *)
INVALID == 0
CONNECTED == 2
DISCONNECTED == 3
State == {INVALID, DISCONNECTED, CONNECTED}

(* What the modem may say that a callback is registered for; a plain ERROR *)
(* has none and is as good as silence.  "cme3" is +CME ERROR: 3, which the *)
(* driver takes for a success; "subfail" is a suback with status 128;      *)
(* "state2" is a state that is neither 0 nor 1.                            *)
Report == {"ok", "cme", "cme3", "sapbr", "sapbrx",
           "state0", "state1", "state2", "sub", "subfail", "unsub", "pub"}

(* The commands, by the kind atsend() gives them and what they ask.        *)
Kind == {"set", "query", "sapbr", "sub", "unsub", "pub"}

(* The replies the modem has for each kind; it may also say nothing.       *)
Refusal == {<<>>, <<"cme">>, <<"cme3">>}
Reply(kind) == Refusal \cup
    CASE kind = "set"   -> {<<"ok">>}
      [] kind = "query" -> {<<"state0", "ok">>, <<"state1", "ok">>,
                           <<"state2", "ok">>}
      [] kind = "sapbr" -> {<<"sapbr", "ok">>, <<"sapbrx", "ok">>, <<"ok">>}
      [] kind = "sub"   -> {<<"sub", "ok">>, <<"subfail", "ok">>, <<"ok">>}
      [] kind = "unsub" -> {<<"unsub", "ok">>, <<"ok">>}
      [] kind = "pub"   -> {<<"pub", "ok">>, <<"ok">>}

Positive(kind) ==
    CASE kind \in {"set", "query", "sapbr"} -> {"ok", "cme3"}
      [] OTHER -> {kind, "cme3"}

Frame == [fn : {"init", "ipinit", "conn", "state", "reconn",
                "sub", "unsub", "pub", "disc"},
          at : Nat, retry : 0..MaxRetry]

TypeOK ==
    /\ params_set \in BOOLEAN
    /\ connect_state \in State
    /\ result \in {0, -1}
    /\ count \in 0..(PollMode - 1)
    /\ stack \in Seq(Frame) /\ Len(stack) =< MaxDepth
    /\ halted \in BOOLEAN
    /\ line \in Seq(Report)
    /\ last.fn \in {"none", "init", "conn", "state", "sub", "unsub", "pub", "disc"}
    /\ last.ret \in {0, -1} \cup State
    /\ confirmed \in BOOLEAN

Init ==
    /\ params_set = FALSE /\ connect_state = INVALID /\ result = 0
    /\ count = 0 /\ stack = <<>> /\ halted = FALSE
    /\ line = <<>> /\ last = [fn |-> "none", ret |-> 0] /\ confirmed = FALSE

(* A reset of the processor.  The modem keeps its power and its line. *)
Restart ==
    /\ params_set' = FALSE /\ connect_state' = INVALID /\ result' = 0
    /\ count' = 0 /\ stack' = <<>> /\ halted' = FALSE
    /\ last' = [fn |-> "none", ret |-> 0] /\ confirmed' = FALSE
    /\ UNCHANGED line

-----------------------------------------------------------------------------
(* What of the reports the callback of the AT parser, while a command of   *)
(* this kind is out, takes for a success and what for a failure ...        *)
Succeeds(kind) == {"sapbr", "cme3"} \cup
    CASE kind \in {"set", "query", "sapbr"} -> {"ok"}
      [] kind = "sub"                       -> {"sub", "subfail"}
      [] kind \in {"unsub", "pub"}          -> {kind}
      [] OTHER                              -> {}

Fails == {"sapbrx", "cme"}

StateOf == [state0 |-> DISCONNECTED, state1 |-> CONNECTED, state2 |-> INVALID]

(* ... of which each overrides the one before: what counts in the end is   *)
(* the last report that has a say.                                         *)
Latest(reports, say) ==
    LET i == SelectLastInSeq(reports, LAMBDA report : report \in say)
    IN  IF i = 0 THEN "none" ELSE reports[i]

Hear(kind, reports) ==
    LET verdict == Latest(reports, Succeeds(kind) \cup Fails)
        said == Latest(reports, DOMAIN StateOf)
    IN  /\ result' = IF verdict \in Succeeds(kind) THEN 0
                     ELSE IF verdict \in Fails THEN -1 ELSE result
        /\ connect_state' = IF said \in DOMAIN StateOf THEN StateOf[said]
                            ELSE connect_state

(* at_sim800_mqtt_atsend(), which returns ret: the modem queues its reply  *)
(* behind what it has yet to say, and some of the line arrives before the  *)
(* wait is over.  A command the UART did not take fails at once.           *)
AtSend(kind, ret) ==
    \/ /\ \E reply \in Reply(kind) :
            LET full == line \o reply IN
            \E n \in 0..Len(full) :
                /\ line' = SubSeq(full, n + 1, Len(full))
                /\ Len(line') =< MaxLine
                /\ Hear(kind, SubSeq(full, 1, n))
                /\ confirmed' = \E i \in (Len(line) + 1)..n :
                                    full[i] \in Positive(kind)
       /\ ret = result'
    \/ /\ ret = -1
       /\ confirmed' = FALSE
       /\ UNCHANGED <<connect_state, result, line>>

(* The modem reports by itself how its connection stands. *)
Unsolicited ==
    /\ ~halted
    /\ Len(line) < MaxLine
    /\ \E report \in DOMAIN StateOf : line' = Append(line, report)
    /\ UNCHANGED <<params_set, connect_state, result, count, stack, halted,
                   last, confirmed>>

-----------------------------------------------------------------------------
Running(fn) == ~halted /\ stack # <<>> /\ Last(stack).fn = fn
Top == Last(stack)

Call(fn) == [fn |-> fn, at |-> 1, retry |-> 0]

(* The running frame becomes f; on top of it fn is called. *)
Goto(f) == stack' = Append(Front(stack), f) /\ UNCHANGED <<halted, last>>
Nest(f, fn) ==
    IF Len(stack) < MaxDepth
    THEN stack' = Front(stack) \o <<f, Call(fn)>> /\ UNCHANGED <<halted, last>>
    ELSE halted' = TRUE /\ UNCHANGED <<stack, last>>

(* The running frame returns v.  No caller inside the driver looks at it.  *)
Return(v) ==
    /\ stack' = Front(stack)
    /\ last' = IF Len(stack) = 1 THEN [fn |-> Top.fn, ret |-> v] ELSE last
    /\ UNCHANGED halted

NoSend == UNCHANGED <<connect_state, result, line, confirmed>>

(* The HAL_AT_MQTT_ functions, called by at_mqtt.c one at a time.          *)
Enter(fn) ==
    /\ ~halted /\ stack = <<>>
    /\ stack' = <<Call(fn)>>
    /\ UNCHANGED <<params_set, count, halted, last>>
    /\ NoSend

CallInit ==
    /\ ~halted /\ stack = <<>>
    /\ stack' = <<Call("init")>>
    /\ params_set' = TRUE /\ connect_state' = INVALID
    /\ UNCHANGED <<result, count, halted, line, last, confirmed>>

CallOther ==
    \E fn \in {"conn", "state", "sub", "unsub", "pub", "disc"} :
        (fn = "conn" \/ params_set) /\ Enter(fn)

(* at_sim800_mqtt_client_deinit() *)
CallDeinit ==
    /\ ~halted /\ stack = <<>> /\ params_set
    /\ params_set' = FALSE /\ connect_state' = INVALID
    /\ UNCHANGED <<result, count, stack, halted, line, last, confirmed>>

(* at_sim800_mqtt_client_init(): the bearer is set up and checked; nothing *)
(* of that makes it fail.                                                  *)
InitStep ==
    /\ Running("init")
    /\ \/ Top.at = 1 /\ Nest([Top EXCEPT !.at = 2], "ipinit") /\ NoSend
       \/ Top.at = 2 /\ (\E ret \in {0, -1} : AtSend("sapbr", ret)) /\ Return(0)
    /\ UNCHANGED <<params_set, count>>

(* at_sim800_gprs_ip_init(): only the first command may fail. *)
IpInitStep ==
    /\ Running("ipinit")
    /\ \E ret \in {0, -1} :
          /\ AtSend(IF Top.at \in {1, NIp} THEN "sapbr" ELSE "set", ret)
          /\ IF Top.at > 1 /\ ret # 0 THEN Return(-1)
             ELSE IF Top.at = NIp THEN Return(0)
             ELSE Goto([Top EXCEPT !.at = @ + 1])
    /\ UNCHANGED <<params_set, count>>

(* at_sim800_mqtt_client_conn(): the configuration and AT+SMCONN ... *)
ConnUnset ==
    /\ Running("conn") /\ ~params_set
    /\ Return(-1)
    /\ NoSend
    /\ UNCHANGED <<params_set, count>>

ConnCommand ==
    /\ Running("conn") /\ params_set
    /\ Top.at =< NConf + 1
    /\ \E ret \in {0, -1} :
          /\ AtSend("set", ret)
          /\ IF ret # 0 THEN Return(-1) ELSE Goto([Top EXCEPT !.at = @ + 1])
    /\ UNCHANGED <<params_set, count>>

(* Seeded fault: the wait for the connection does not give up. *)
ConnWaitForever ==
    /\ Running("conn") /\ params_set
    /\ Top.at = NConf + 2
    /\ connect_state # CONNECTED
    /\ Nest([Top EXCEPT !.retry = @ + 1], "state")
    /\ NoSend
    /\ UNCHANGED <<params_set, count>>

(* ... and the wait for the connection.  A connection seen on the last try *)
(* counts as none.                                                         *)
ConnWait ==
    /\ Running("conn") /\ params_set
    /\ Top.at = NConf + 2
    /\ connect_state # CONNECTED /\ Top.retry < MaxRetry
    /\ Nest([Top EXCEPT !.retry = @ + 1], "state")
    /\ NoSend
    /\ UNCHANGED <<params_set, count>>

(* Seeded fault: giving up is told from one try too many. *)
ConnDoneLate ==
    /\ Running("conn") /\ params_set
    /\ Top.at = NConf + 2
    /\ connect_state = CONNECTED \/ Top.retry = MaxRetry
    /\ Return(IF Top.retry > MaxRetry THEN -1 ELSE 0)
    /\ NoSend
    /\ UNCHANGED <<params_set, count>>

ConnDone ==
    /\ Running("conn") /\ params_set
    /\ Top.at = NConf + 2
    /\ connect_state = CONNECTED \/ Top.retry = MaxRetry
    /\ Return(IF Top.retry = MaxRetry THEN -1 ELSE 0)
    /\ NoSend
    /\ UNCHANGED <<params_set, count>>

(* at_sim800_mqtt_client_state(): a poll, unless a connected client was    *)
(* polled not long ago ...                                                 *)
StatePoll ==
    /\ Running("state") /\ Top.at = 1
    /\ count' = (count + 1) % PollMode
    /\ IF connect_state # CONNECTED \/ count' = 0
       THEN \E ret \in {0, -1} :
               /\ AtSend("query", ret)
               /\ IF ret # 0 THEN Return(-1) ELSE Goto([Top EXCEPT !.at = 2])
       ELSE NoSend /\ Goto([Top EXCEPT !.at = 2])
    /\ UNCHANGED params_set

(* ... then reconnecting, and polling again, as long as it takes. *)
StateReconnect ==
    /\ Running("state") /\ Top.at = 2
    /\ connect_state # CONNECTED /\ Top.retry < MaxRetry
    /\ Nest([Top EXCEPT !.at = 3], "reconn")
    /\ NoSend
    /\ UNCHANGED <<params_set, count>>

(* Seeded fault: the query is repeated until the modem answers it. *)
StateRequeryUntilDone ==
    /\ Running("state") /\ Top.at = 3
    /\ \E ret \in {0, -1} :
          /\ AtSend("query", ret)
          /\ IF ret # 0 THEN Goto(Top)
             ELSE Goto([Top EXCEPT !.at = 2, !.retry = @ + 1])
    /\ UNCHANGED <<params_set, count>>

StateRequery ==
    /\ Running("state") /\ Top.at = 3
    /\ \E ret \in {0, -1} : AtSend("query", ret)
    /\ Goto([Top EXCEPT !.at = 2, !.retry = @ + 1])
    /\ UNCHANGED <<params_set, count>>

StateDone ==
    /\ Running("state") /\ Top.at = 2
    /\ connect_state = CONNECTED \/ Top.retry = MaxRetry
    /\ Return(connect_state)
    /\ NoSend
    /\ UNCHANGED <<params_set, count>>

(* at_sim800_mqtt_client_reconn(): with a bearer the client connects;      *)
(* without one, if the SIM card and the network are there, it is set up.   *)
Reconn ==
    /\ Running("reconn") /\ Top.at = 1
    /\ \E ret \in {0, -1} :
          /\ AtSend("sapbr", ret)
          /\ IF ret = 0 THEN Nest([Top EXCEPT !.at = 2], "conn")
             ELSE Goto([Top EXCEPT !.at = 3])
    /\ UNCHANGED <<params_set, count>>

ReconnBearer ==
    /\ Running("reconn") /\ Top.at = 3
    /\ Return(0) \/ Nest([Top EXCEPT !.at = 2], "ipinit")
    /\ NoSend
    /\ UNCHANGED <<params_set, count>>

ReconnDone ==
    /\ Running("reconn") /\ Top.at = 2
    /\ Return(0)
    /\ NoSend
    /\ UNCHANGED <<params_set, count>>

(* The operations of one command. *)
OneCommand ==
    /\ \E fn \in {"sub", "unsub", "pub", "disc"}, ret \in {0, -1} :
          /\ Running(fn)
          /\ AtSend(IF fn = "disc" THEN "set" ELSE fn, ret)
          /\ Return(ret)
    /\ UNCHANGED <<params_set, count>>

(* While no operation runs, mal_mc_cycle() and the wait that follows a      *)
(* connect read the line as well.                                          *)
Listen ==
    /\ ~halted /\ stack = <<>> /\ params_set
    /\ line # <<>>
    /\ Hear("idle", <<Head(line)>>)
    /\ line' = Tail(line)
    /\ UNCHANGED <<params_set, count, stack, halted, last, confirmed>>

(* Where the driver turns the echo off or asks for the SIM card, the       *)
(* signal and the network it uses at_send_wait_reply(), which looks at raw *)
(* bytes for its own answer and leaves the parser out: what the modem      *)
(* reports meanwhile is lost.                                              *)
EchoOff == IF NConf > 1 THEN 3 ELSE NConf + 1

Overlook ==
    /\ \/ Running("init")
       \/ Running("conn") /\ params_set /\ Top.at = EchoOff
       \/ Running("reconn") /\ Top.at = 3
    /\ line # <<>>
    /\ line' = Tail(line)
    /\ UNCHANGED <<params_set, connect_state, result, count, stack, halted,
                   last, confirmed>>

Step ==
    \/ InitStep \/ IpInitStep
    \/ ConnUnset \/ ConnCommand \/ ConnWait \/ ConnDone
    \/ StatePoll \/ StateReconnect \/ StateRequery \/ StateDone
    \/ Reconn \/ ReconnBearer \/ ReconnDone
    \/ OneCommand

Next ==
    \/ CallInit \/ CallDeinit \/ CallOther
    \/ Step
    \/ Listen \/ Overlook \/ Unsolicited
    \/ Restart

Spec == Init /\ [][Next]_vars

(* A call that was made runs on. *)
FairSpec == Spec /\ WF_vars(Step)
-----------------------------------------------------------------------------
(* A connect that reports success leaves the client connected, as far as   *)
(* the modem said: the wait loop of client_conn() goes on through nested   *)
(* polls and reconnects, each with tries of its own, and the tries of the  *)
(* outermost loop alone decide what is returned.                           *)
ConnectTells ==
    [][ /\ Running("conn") /\ Len(stack) = 1 /\ stack' = <<>>
        /\ last'.fn = "conn" /\ last'.ret = 0
        => connect_state' = CONNECTED ]_vars

(* While the modem is taken to be connected the nested loops unwind,       *)
(* however deep they are, whatever the commands still out return.          *)
UnwindsOnceConnected ==
    connect_state = CONNECTED ~>
        stack = <<>> \/ halted \/ connect_state # CONNECTED

(* What mqtt_api.h promises of IOT_MQTT_Construct(), "NULL : Construct     *)
(* failed", asks of the connect below it: that it returns.                 *)
ConnectReturns ==
    (stack # <<>> /\ stack[1].fn = "conn") ~> stack = <<>>

(* What mqtt_api.h promises of IOT_MQTT_Subscribe_Sync(), "wait suback",   *)
(* and of a -1 it returns: success was confirmed.                          *)
SubscribeConfirmed ==
    last.fn = "sub" /\ last.ret = 0 => confirmed
=============================================================================
