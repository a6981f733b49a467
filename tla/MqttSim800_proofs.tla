------------------------- MODULE MqttSim800_proofs -------------------------
(***************************************************************************)
(* The types of the SIM800 driver and what a connect that reports success  *)
(* says of the connection, for every number of commands and of tries,      *)
(* every depth of the call stack and every delay of the modem's reports.   *)
(***************************************************************************)
EXTENDS MqttSim800, SequenceTheorems, TLAPS

(* No caller enters at_sim800_gprs_ip_init() or ..._reconn() by itself, and *)
(* the loop of client_state() asks again only while it has tries left.      *)
Sound(frames) ==
    \A i \in 1..Len(frames) :
        /\ i = 1 => frames[i].fn \notin {"ipinit", "reconn"}
        /\ frames[i].fn = "state" /\ frames[i].at = 3 => frames[i].retry < MaxRetry

FramesOK(frames) ==
    frames \in Seq(Frame) /\ Len(frames) =< MaxDepth /\ Sound(frames)

StackOK == Sound(stack)

(* A frame the running one may become. *)
Becomes(f) ==
    f \in Frame /\ f.fn = Top.fn /\ (f.fn = "state" /\ f.at = 3 => f.retry < MaxRetry)

-----------------------------------------------------------------------------
(* The running frame is the last of the stack. *)
LEMMA TopIsFrame ==
    ASSUME TypeOK, stack # <<>>
    PROVE  /\ Top \in Frame /\ Top = stack[Len(stack)] /\ Len(stack) \in Nat \ {0}
           /\ Front(stack) \in Seq(Frame) /\ Len(Front(stack)) = Len(stack) - 1
           /\ \A i \in 1..(Len(stack) - 1) : Front(stack)[i] = stack[i]
<1>1. Len(stack) \in Nat \ {0}
  BY DEF TypeOK
<1>2. Front(stack) \in Seq(Frame) /\ Len(Front(stack)) = Len(stack) - 1
        /\ \A i \in 1..(Len(stack) - 1) : Front(stack)[i] = stack[i]
  <2> DEFINE n == Len(stack) - 1
  <2>1. n \in Nat /\ \A i \in 1..n : stack[i] \in Frame
    BY <1>1 DEF TypeOK
  <2> HIDE DEF n
  <2>2. \A m, k \in Int : (\A i \in m..k : stack[i] \in Frame) =>
          /\ SubSeq(stack, m, k) \in Seq(Frame)
          /\ Len(SubSeq(stack, m, k)) = IF m =< k THEN k - m + 1 ELSE 0
          /\ \A i \in 1..(k - m + 1) : SubSeq(stack, m, k)[i] = stack[m + i - 1]
    BY SubSeqProperties
  <2>3. /\ SubSeq(stack, 1, n) \in Seq(Frame)
        /\ Len(SubSeq(stack, 1, n)) = IF 1 =< n THEN n - 1 + 1 ELSE 0
        /\ \A i \in 1..(n - 1 + 1) : SubSeq(stack, 1, n)[i] = stack[1 + i - 1]
    BY <2>1, <2>2
  <2>4. Front(stack) = SubSeq(stack, 1, n)
    BY DEF Front, n
  <2>5. Len(Front(stack)) = n /\ \A i \in 1..n : Front(stack)[i] = stack[i]
    BY <2>1, <2>3, <2>4
  <2> QED
    BY <2>3, <2>4, <2>5 DEF n
<1> QED
  BY <1>1, <1>2 DEF Top, Last, TypeOK

(* Leaving the stack as it is but for the running frame. *)
LEMMA GotoKeeps ==
    ASSUME Sim800Assumption, TypeOK, StackOK, stack # <<>>, NEW f, Becomes(f)
    PROVE  FramesOK(Append(Front(stack), f))
<1> DEFINE t == Append(Front(stack), f)
<1>1. t \in Seq(Frame) /\ Len(t) = Len(stack) /\ t[Len(stack)] = f
        /\ \A i \in 1..(Len(stack) - 1) : t[i] = stack[i]
  BY TopIsFrame DEF Becomes
<1>2. Sound(t)
  BY <1>1, TopIsFrame DEF StackOK, Sound, Becomes
<1> QED
  BY <1>1, <1>2 DEF FramesOK, TypeOK

(* A call puts a frame on the stack, which is never the first. *)
LEMMA NestKeeps ==
    ASSUME Sim800Assumption, TypeOK, StackOK, stack # <<>>, NEW f, Becomes(f),
           NEW fn \in {"ipinit", "conn", "state", "reconn"}, Len(stack) < MaxDepth
    PROVE  FramesOK(Front(stack) \o <<f, Call(fn)>>)
<1> DEFINE t == Front(stack) \o <<f, Call(fn)>>
           n == Len(stack)
<1>1. Call(fn) \in Frame /\ Call(fn).at = 1
  BY DEF Call, Frame, Sim800Assumption
<1>2. t \in Seq(Frame) /\ Len(t) = n + 1 /\ t[n] = f /\ t[n + 1] = Call(fn)
        /\ \A i \in 1..(n - 1) : t[i] = stack[i]
  BY <1>1, TopIsFrame DEF Becomes
<1>3. Sound(t)
  BY <1>1, <1>2, TopIsFrame DEF StackOK, Sound, Becomes
<1> QED
  BY <1>2, <1>3, TopIsFrame DEF FramesOK, Sim800Assumption

(* A return takes the running frame off the stack. *)
LEMMA ReturnKeeps ==
    ASSUME Sim800Assumption, TypeOK, StackOK, stack # <<>>
    PROVE  FramesOK(Front(stack))
<1>1. Front(stack) \in Seq(Frame) /\ Len(Front(stack)) =< MaxDepth
  BY TopIsFrame DEF TypeOK, Sim800Assumption
<1>2. Sound(Front(stack))
  BY TopIsFrame DEF StackOK, Sound
<1> QED
  BY <1>1, <1>2 DEF FramesOK

-----------------------------------------------------------------------------
(* What the callback of the parser sets has its type, whatever it hears.   *)
LEMMA HearIsTyped ==
    ASSUME TypeOK, NEW kind, NEW reports, Hear(kind, reports)
    PROVE  result' \in {0, -1} /\ connect_state' \in State
<1> DEFINE said == Latest(reports, DOMAIN StateOf)
<1>1. result' \in {0, -1}
  BY DEF Hear, TypeOK
<1>2. /\ DOMAIN StateOf = {"state0", "state1", "state2"}
      /\ \A report \in DOMAIN StateOf : StateOf[report] \in State
  BY DEF StateOf, State
<1>3. connect_state' \in State
  BY <1>2 DEF Hear, TypeOK
<1> QED
  BY <1>1, <1>3

(* What the modem replies to a command is a series of reports. *)
LEMMA RepliesAreReports ==
    ASSUME NEW kind \in Kind, NEW reply \in Reply(kind)
    PROVE  reply \in Seq(Report)
<1>1. reply \in {<<>>, <<"cme">>, <<"cme3">>, <<"ok">>, <<"state0", "ok">>, <<"state1", "ok">>,
                 <<"state2", "ok">>,
                 <<"sapbr", "ok">>, <<"sapbrx", "ok">>, <<"sub", "ok">>, <<"subfail", "ok">>,
                 <<"unsub", "ok">>, <<"pub", "ok">>}
  BY DEF Kind, Reply, Refusal
<1>2. \A a, b \in Report : <<>> \in Seq(Report) /\ <<a>> \in Seq(Report) /\ <<a, b>> \in Seq(Report)
  OBVIOUS
<1>3. {"ok", "cme", "cme3", "sapbr", "sapbrx", "state0", "state1", "state2", "sub", "subfail",
       "unsub", "pub"} \subseteq Report
  BY DEF Report
<1> QED
  BY <1>1, <1>2, <1>3

(* A command leaves what the callback sets, and the line, with their types, *)
(* whatever of the modem's reports arrives in its window.                   *)
LEMMA AtSendIsTyped ==
    ASSUME TypeOK, NEW kind \in Kind, NEW ret \in {0, -1}, AtSend(kind, ret)
    PROVE  /\ result' \in {0, -1} /\ connect_state' \in State
           /\ line' \in Seq(Report) /\ confirmed' \in BOOLEAN
<1>1. CASE UNCHANGED <<connect_state, result, line>> /\ confirmed' = FALSE
  BY <1>1 DEF TypeOK
<1>2. ASSUME NEW reply \in Reply(kind), NEW n \in 0..Len(line \o reply),
             line' = SubSeq(line \o reply, n + 1, Len(line \o reply)),
             Hear(kind, SubSeq(line \o reply, 1, n)),
             confirmed' = \E i \in (Len(line) + 1)..n : (line \o reply)[i] \in Positive(kind)
      PROVE  /\ result' \in {0, -1} /\ connect_state' \in State
             /\ line' \in Seq(Report) /\ confirmed' \in BOOLEAN
  <2>1. result' \in {0, -1} /\ connect_state' \in State
    BY <1>2, HearIsTyped
  <2> DEFINE full == line \o reply
  <2>2. full \in Seq(Report)
    BY RepliesAreReports DEF TypeOK
  <2> HIDE DEF full
  <2>3. Len(full) \in Nat /\ n + 1 \in Int /\ \A i \in (n + 1)..Len(full) : full[i] \in Report
    BY <1>2, <2>2 DEF full
  <2>4. \A m, k \in Int : (\A i \in m..k : full[i] \in Report) =>
          SubSeq(full, m, k) \in Seq(Report)
    BY SubSeqProperties
  <2>5. line' \in Seq(Report)
    BY <1>2, <2>3, <2>4 DEF full
  <2>6. confirmed' \in BOOLEAN
    BY <1>2
  <2> QED
    BY <2>1, <2>5, <2>6
<1> QED
  BY <1>1, <1>2 DEF AtSend

-----------------------------------------------------------------------------
(* What is left to say of a step that the running frame takes. *)
Typed ==
    /\ result' \in {0, -1} /\ connect_state' \in State
    /\ line' \in Seq(Report) /\ confirmed' \in BOOLEAN

Kept == FramesOK(stack') /\ halted' \in BOOLEAN
        /\ last'.fn \in {"none", "init", "conn", "state", "sub", "unsub", "pub", "disc"}
        /\ last'.ret \in {0, -1} \cup State

(* A step that sends nothing disturbs neither. *)
LEMMA NoSendIsTyped == TypeOK /\ NoSend => Typed
  BY DEF TypeOK, NoSend, Typed

(* The running frame goes on, ... *)
LEMMA GotoKept ==
    ASSUME Sim800Assumption, TypeOK, StackOK, stack # <<>>, NEW f, Becomes(f), Goto(f)
    PROVE  Kept
  BY GotoKeeps DEF Goto, Kept, TypeOK

(* ... calls, unless the stack has no room, ... *)
LEMMA NestKept ==
    ASSUME Sim800Assumption, TypeOK, StackOK, stack # <<>>, NEW f, Becomes(f),
           NEW fn \in {"ipinit", "conn", "state", "reconn"}, Nest(f, fn)
    PROVE  Kept
<1>1. CASE Len(stack) < MaxDepth
  BY <1>1, NestKeeps DEF Nest, Kept, TypeOK
<1>2. CASE ~(Len(stack) < MaxDepth)
  BY <1>2 DEF Nest, Kept, TypeOK, StackOK, FramesOK
<1> QED
  BY <1>1, <1>2

(* ... or returns. *)
LEMMA ReturnKept ==
    ASSUME Sim800Assumption, TypeOK, StackOK, stack # <<>>,
           NEW v \in {0, -1} \cup State, Return(v)
    PROVE  Kept
<1>1. FramesOK(stack') /\ halted' \in BOOLEAN
  BY ReturnKeeps DEF Return, TypeOK
<1>2. Len(stack) = 1 =>
        Top.fn \in {"none", "init", "conn", "state", "sub", "unsub", "pub", "disc"}
  BY TopIsFrame DEF StackOK, Sound, Frame
<1>3. CASE Len(stack) = 1
  BY <1>1, <1>2, <1>3 DEF Return, Kept
<1>4. CASE Len(stack) # 1
  BY <1>1, <1>4 DEF Return, Kept, TypeOK
<1> QED
  BY <1>3, <1>4

(* What a step may make of the running frame: it is elsewhere in its       *)
(* operation, has one more try behind it, or both.                         *)
LEMMA MovesOn ==
    ASSUME TypeOK, stack # <<>>, NEW a \in Nat,
           Top.fn = "state" /\ a = 3 => Top.retry < MaxRetry
    PROVE  Becomes([Top EXCEPT !.at = a])
  BY TopIsFrame DEF Becomes, Frame

LEMMA TriesAgain ==
    ASSUME TypeOK, stack # <<>>, NEW r \in 0..MaxRetry
    PROVE  /\ Becomes([Top EXCEPT !.at = 2, !.retry = r])
           /\ Top.fn # "state" => Becomes([Top EXCEPT !.retry = r])
<1> DEFINE f == [Top EXCEPT !.at = 2, !.retry = r]
           g == [Top EXCEPT !.retry = r]
<1>1. f \in Frame /\ f.fn = Top.fn /\ f.at = 2
  BY TopIsFrame DEF Frame
<1>2. g \in Frame /\ g.fn = Top.fn
  BY TopIsFrame DEF Frame
<1> HIDE DEF f, g
<1>3. Becomes(f) /\ (Top.fn # "state" => Becomes(g))
  BY <1>1, <1>2 DEF Becomes
<1> QED
  BY <1>3 DEF f, g

(* What is running is the last frame of the stack. *)
LEMMA RunningFrame ==
    ASSUME TypeOK, NEW fn, Running(fn)
    PROVE  /\ stack # <<>> /\ Top.fn = fn /\ Top.at \in Nat /\ Top.retry \in 0..MaxRetry
           /\ Top.retry \in Nat
<1>1. stack # <<>> /\ Top.fn = fn
  BY DEF Running, Top
<1> QED
  BY <1>1, TopIsFrame DEF Frame

-----------------------------------------------------------------------------
(* What a step of the running frame does to the types, operation by        *)
(* operation.                                                              *)
LEMMA InitTyped ==
    ASSUME Sim800Assumption, TypeOK, StackOK, InitStep \/ IpInitStep
    PROVE  Typed /\ Kept
<1>1. CASE InitStep
  <2>1. Running("init")
    BY <1>1 DEF InitStep
  <2>2. stack # <<>> /\ Top.fn = "init" /\ Top.at \in Nat
    BY <2>1, RunningFrame
  <2>3. CASE Nest([Top EXCEPT !.at = 2], "ipinit") /\ NoSend
    BY <2>2, <2>3, MovesOn, NestKept, NoSendIsTyped
  <2>4. CASE (\E ret \in {0, -1} : AtSend("sapbr", ret)) /\ Return(0)
    BY <2>2, <2>4, ReturnKept, AtSendIsTyped DEF Typed, Kind
  <2> QED
    BY <1>1, <2>3, <2>4 DEF InitStep
<1>2. CASE IpInitStep
  <2>1. Running("ipinit")
    BY <1>2 DEF IpInitStep
  <2>2. stack # <<>> /\ Top.fn = "ipinit" /\ Top.at \in Nat
    BY <2>1, RunningFrame
  <2>3. PICK ret \in {0, -1} :
          /\ AtSend(IF Top.at \in {1, NIp} THEN "sapbr" ELSE "set", ret)
          /\ IF Top.at > 1 /\ ret # 0 THEN Return(-1)
             ELSE IF Top.at = NIp THEN Return(0)
             ELSE Goto([Top EXCEPT !.at = @ + 1])
    BY <1>2 DEF IpInitStep
  <2>4. Typed
    BY <2>3, AtSendIsTyped DEF Typed, Kind
  <2>5. CASE Return(-1) \/ Return(0)
    BY <2>2, <2>4, <2>5, ReturnKept
  <2>6. CASE Goto([Top EXCEPT !.at = @ + 1])
    <3>1. Goto([Top EXCEPT !.at = Top.at + 1]) /\ Becomes([Top EXCEPT !.at = Top.at + 1])
      <4>1. Top.at + 1 \in Nat /\ [Top EXCEPT !.at = @ + 1] = [Top EXCEPT !.at = Top.at + 1]
        BY <2>2
      <4> QED
        BY <2>2, <2>6, <4>1, MovesOn
    <3> QED
      BY <2>2, <2>4, <3>1, GotoKept
  <2> QED
    BY <2>3, <2>5, <2>6
<1> QED
  BY <1>1, <1>2

LEMMA ConnTyped ==
    ASSUME Sim800Assumption, TypeOK, StackOK, ConnUnset \/ ConnCommand \/ ConnWait \/ ConnDone
    PROVE  Typed /\ Kept
<1>1. Running("conn")
  BY DEF ConnUnset, ConnCommand, ConnWait, ConnDone
<1>2. stack # <<>> /\ Top.fn = "conn" /\ Top.at \in Nat /\ Top.retry \in 0..MaxRetry /\ Top.retry \in Nat
  BY <1>1, RunningFrame
<1>3. CASE ConnUnset \/ ConnDone
  <2>1. Typed
    BY <1>3, NoSendIsTyped DEF ConnUnset, ConnDone
  <2>2. Return(0) \/ Return(-1)
    BY <1>3 DEF ConnUnset, ConnDone
  <2> QED
    BY <1>2, <2>1, <2>2, ReturnKept
<1>4. CASE ConnCommand
  <2>1. PICK ret \in {0, -1} :
          /\ AtSend("set", ret)
          /\ IF ret # 0 THEN Return(-1) ELSE Goto([Top EXCEPT !.at = @ + 1])
    BY <1>4 DEF ConnCommand
  <2>2. Typed
    BY <2>1, AtSendIsTyped DEF Typed, Kind
  <2>3. CASE Return(-1)
    BY <1>2, <2>2, <2>3, ReturnKept
  <2>4. CASE Goto([Top EXCEPT !.at = @ + 1])
    <3>1. Goto([Top EXCEPT !.at = Top.at + 1]) /\ Becomes([Top EXCEPT !.at = Top.at + 1])
      <4>1. Top.at + 1 \in Nat /\ [Top EXCEPT !.at = @ + 1] = [Top EXCEPT !.at = Top.at + 1]
        BY <1>2
      <4> QED
        BY <1>2, <2>4, <4>1, MovesOn
    <3> QED
      BY <1>2, <2>2, <3>1, GotoKept
  <2> QED
    BY <2>1, <2>3, <2>4
<1>5. CASE ConnWait
  <2>1. Typed
    BY <1>5, NoSendIsTyped DEF ConnWait
  <2>2. Nest([Top EXCEPT !.retry = @ + 1], "state") /\ Top.retry < MaxRetry
    BY <1>5 DEF ConnWait
  <2>3. Nest([Top EXCEPT !.retry = Top.retry + 1], "state")
    BY <1>2, <2>2, TopIsFrame DEF Frame
  <2>4. Top.retry + 1 \in 0..MaxRetry
    BY <1>2, <2>2 DEF Sim800Assumption
  <2>5. Becomes([Top EXCEPT !.retry = Top.retry + 1])
    BY <1>2, <2>4, TriesAgain
  <2> QED
    BY <1>2, <2>1, <2>3, <2>5, NestKept
<1> QED
  BY <1>3, <1>4, <1>5

LEMMA StateTyped ==
    ASSUME Sim800Assumption, TypeOK, StackOK,
           StatePoll \/ StateReconnect \/ StateRequery \/ StateDone
    PROVE  Typed /\ Kept
<1>1. Running("state")
  BY DEF StatePoll, StateReconnect, StateRequery, StateDone
<1>2. stack # <<>> /\ Top.fn = "state" /\ Top.at \in Nat /\ Top.retry \in 0..MaxRetry /\ Top.retry \in Nat
  BY <1>1, RunningFrame
<1>3. CASE StatePoll
  <2>1. Becomes([Top EXCEPT !.at = 2])
    <3>1. 2 \in Nat /\ ~(Top.fn = "state" /\ 2 = 3)
      OBVIOUS
    <3> QED
      BY <1>2, <3>1, MovesOn
  <2>2. CASE NoSend /\ Goto([Top EXCEPT !.at = 2])
    BY <1>2, <2>1, <2>2, GotoKept, NoSendIsTyped
  <2>3. ASSUME NEW ret \in {0, -1}, AtSend("query", ret),
               IF ret # 0 THEN Return(-1) ELSE Goto([Top EXCEPT !.at = 2])
        PROVE  Typed /\ Kept
    <3>1. Typed
      BY <2>3, AtSendIsTyped DEF Typed, Kind
    <3>2. Kept
      BY <1>2, <2>1, <2>3, GotoKept, ReturnKept
    <3> QED
      BY <3>1, <3>2
  <2> QED
    BY <1>3, <2>2, <2>3 DEF StatePoll
<1>4. CASE StateReconnect
  <2>1. Becomes([Top EXCEPT !.at = 3])
    BY <1>2, <1>4, MovesOn DEF StateReconnect
  <2> QED
    BY <1>2, <1>4, <2>1, NestKept, NoSendIsTyped DEF StateReconnect
<1>5. CASE StateRequery
  <2>1. Typed
    BY <1>5, AtSendIsTyped DEF StateRequery, Typed, Kind
  <2>2. Top.retry < MaxRetry
    BY <1>2, <1>5, TopIsFrame DEF StateRequery, StackOK, Sound
  <2>3. Top.retry + 1 \in 0..MaxRetry
    BY <1>2, <2>2 DEF Sim800Assumption
  <2>4. Goto([Top EXCEPT !.at = 2, !.retry = Top.retry + 1])
    BY <1>2, <1>5, TopIsFrame DEF StateRequery, Frame
  <2>5. Becomes([Top EXCEPT !.at = 2, !.retry = Top.retry + 1])
    BY <1>2, <2>3, TriesAgain
  <2> QED
    BY <1>2, <2>1, <2>4, <2>5, GotoKept
<1>6. CASE StateDone
  <2>1. connect_state \in {0, -1} \cup State
    BY DEF TypeOK
  <2> QED
    BY <1>2, <1>6, <2>1, ReturnKept, NoSendIsTyped DEF StateDone
<1> QED
  BY <1>3, <1>4, <1>5, <1>6

LEMMA ReconnTyped ==
    ASSUME Sim800Assumption, TypeOK, StackOK, Reconn \/ ReconnBearer \/ ReconnDone
    PROVE  Typed /\ Kept
<1>1. Running("reconn")
  BY DEF Reconn, ReconnBearer, ReconnDone
<1>2. stack # <<>> /\ Top.fn = "reconn"
  BY <1>1, RunningFrame
<1>3. Becomes([Top EXCEPT !.at = 2]) /\ Becomes([Top EXCEPT !.at = 3])
  BY <1>1, <1>2, RunningFrame, MovesOn
<1>4. CASE Reconn
  <2>1. PICK ret \in {0, -1} :
          /\ AtSend("sapbr", ret)
          /\ IF ret = 0 THEN Nest([Top EXCEPT !.at = 2], "conn")
             ELSE Goto([Top EXCEPT !.at = 3])
    BY <1>4 DEF Reconn
  <2>2. Typed
    BY <2>1, AtSendIsTyped DEF Typed, Kind
  <2>3. Kept
    BY <1>2, <1>3, <2>1, NestKept, GotoKept
  <2> QED
    BY <2>2, <2>3
<1>5. CASE ReconnBearer \/ ReconnDone
  <2>1. Typed
    BY <1>5, NoSendIsTyped DEF ReconnBearer, ReconnDone
  <2>2. Return(0) \/ Nest([Top EXCEPT !.at = 2], "ipinit")
    BY <1>5 DEF ReconnBearer, ReconnDone
  <2> QED
    BY <1>2, <1>3, <2>1, <2>2, NestKept, ReturnKept
<1> QED
  BY <1>4, <1>5

LEMMA OneCommandTyped ==
    ASSUME Sim800Assumption, TypeOK, StackOK, OneCommand
    PROVE  Typed /\ Kept
<1>1. PICK fn \in {"sub", "unsub", "pub", "disc"}, ret \in {0, -1} :
        Running(fn) /\ AtSend(IF fn = "disc" THEN "set" ELSE fn, ret) /\ Return(ret)
  BY DEF OneCommand
<1>2. Typed
  BY <1>1, AtSendIsTyped DEF Typed, Kind
<1>3. Kept
  BY <1>1, RunningFrame, ReturnKept
<1> QED
  BY <1>2, <1>3

-----------------------------------------------------------------------------
(* A step of the running operation. *)
LEMMA StepTyped ==
    ASSUME Sim800Assumption, TypeOK, StackOK, Step
    PROVE  TypeOK' /\ StackOK'
<1>1. Typed /\ Kept
  BY InitTyped, ConnTyped, StateTyped, ReconnTyped, OneCommandTyped DEF Step
<1>2. params_set' \in BOOLEAN
  BY DEF TypeOK, Step, InitStep, IpInitStep, ConnUnset, ConnCommand, ConnWait, ConnDone, StatePoll,
         StateReconnect, StateRequery, StateDone, Reconn, ReconnBearer, ReconnDone, OneCommand
<1>3. count' = count \/ count' = (count + 1) % PollMode
  BY DEF Step, InitStep, IpInitStep, ConnUnset, ConnCommand, ConnWait, ConnDone, StatePoll,
         StateReconnect, StateRequery, StateDone, Reconn, ReconnBearer, ReconnDone, OneCommand
<1>4. count' \in 0..(PollMode - 1)
  BY <1>3 DEF TypeOK, Sim800Assumption
<1> QED
  BY <1>1, <1>2, <1>4 DEF Typed, Kept, FramesOK, TypeOK, StackOK

(* A call comes in: its frame is the only one. *)
LEMMA CallTyped ==
    ASSUME Sim800Assumption, TypeOK, StackOK, CallInit \/ CallDeinit \/ CallOther
    PROVE  TypeOK' /\ StackOK'
<1>1. ASSUME NEW fn \in {"init", "conn", "state", "sub", "unsub", "pub", "disc"},
             stack' = <<Call(fn)>>
      PROVE  stack' \in Seq(Frame) /\ Len(stack') =< MaxDepth /\ StackOK'
  <2>1. Call(fn) \in Frame /\ Call(fn).fn = fn /\ Call(fn).at = 1
    BY DEF Call, Frame, Sim800Assumption
  <2>2. stack' \in Seq(Frame) /\ Len(stack') = 1 /\ stack'[1] = Call(fn)
    BY <1>1, <2>1
  <2>3. StackOK'
    BY <2>1, <2>2 DEF StackOK, Sound
  <2> QED
    BY <2>2, <2>3 DEF Sim800Assumption
<1>2. CASE CallInit
  <2>1. stack' \in Seq(Frame) /\ Len(stack') =< MaxDepth /\ StackOK'
    BY <1>1, <1>2 DEF CallInit
  <2> QED
    BY <1>2, <2>1 DEF CallInit, TypeOK, State
<1>3. CASE CallDeinit
  BY <1>3 DEF CallDeinit, TypeOK, StackOK, State
<1>4. CASE CallOther
  <2>1. PICK fn \in {"conn", "state", "sub", "unsub", "pub", "disc"} : Enter(fn)
    BY <1>4 DEF CallOther
  <2>2. stack' \in Seq(Frame) /\ Len(stack') =< MaxDepth /\ StackOK'
    BY <1>1, <2>1 DEF Enter
  <2> QED
    BY <2>1, <2>2 DEF Enter, NoSend, TypeOK
<1> QED
  BY <1>2, <1>3, <1>4

(* The modem reports something, which is heard or lost. *)
LEMMA LineTyped ==
    ASSUME TypeOK, StackOK, Listen \/ Overlook \/ Unsolicited
    PROVE  TypeOK' /\ StackOK'
<1>1. line # <<>> => Tail(line) \in Seq(Report)
  BY HeadTailProperties DEF TypeOK
<1>2. CASE Listen
  <2>1. result' \in {0, -1} /\ connect_state' \in State
    BY <1>2, HearIsTyped DEF Listen
  <2> QED
    BY <1>1, <1>2, <2>1 DEF Listen, TypeOK, StackOK
<1>3. CASE Overlook
  BY <1>1, <1>3 DEF Overlook, TypeOK, StackOK
<1>4. CASE Unsolicited
  <2>1. line' \in Seq(Report)
    BY <1>4 DEF Unsolicited, StateOf, TypeOK, Report
  <2> QED
    BY <1>4, <2>1 DEF Unsolicited, TypeOK, StackOK
<1> QED
  BY <1>2, <1>3, <1>4

LEMMA InvHolds == Sim800Assumption /\ Spec => [](TypeOK /\ StackOK)
<1>1. Sim800Assumption /\ Init => TypeOK /\ StackOK
  <2> SUFFICES ASSUME Sim800Assumption, Init PROVE TypeOK /\ StackOK
    OBVIOUS
  <2>1. stack \in Seq(Frame) /\ Len(stack) = 0 /\ line \in Seq(Report)
    BY DEF Init
  <2>2. count \in 0..(PollMode - 1) /\ Len(stack) =< MaxDepth
    BY <2>1 DEF Init, Sim800Assumption
  <2>3. last.fn = "none" /\ last.ret = 0
    BY DEF Init
  <2>4. StackOK
    BY <2>1 DEF StackOK, Sound
  <2> QED
    BY <2>1, <2>2, <2>3, <2>4 DEF Init, TypeOK, State
<1>2. Sim800Assumption /\ TypeOK /\ StackOK /\ [Next]_vars => (TypeOK /\ StackOK)'
  <2> SUFFICES ASSUME Sim800Assumption, TypeOK, StackOK, [Next]_vars PROVE TypeOK' /\ StackOK'
    OBVIOUS
  <2>1. CASE Restart
    <3>1. stack' \in Seq(Frame) /\ Len(stack') = 0
      BY <2>1 DEF Restart
    <3>2. count' \in 0..(PollMode - 1) /\ Len(stack') =< MaxDepth
      BY <2>1, <3>1 DEF Restart, Sim800Assumption
    <3>3. last'.fn = "none" /\ last'.ret = 0
      BY <2>1 DEF Restart
    <3>4. StackOK'
      BY <3>1 DEF StackOK, Sound
    <3> QED
      BY <2>1, <3>1, <3>2, <3>3, <3>4 DEF Restart, TypeOK, State
  <2>2. CASE UNCHANGED vars
    BY <2>2 DEF vars, TypeOK, StackOK
  <2> QED
    BY <2>1, <2>2, StepTyped, CallTyped, LineTyped DEF Next
<1> QED
  BY <1>1, <1>2, Sim800Assumption, PTL DEF Spec

(* Every state has its type: the stack holds frames of the operations,     *)
(* never more than it has room for, each with tries left or used up, and   *)
(* what a call returned is a code or a connection state.                   *)
THEOREM TypeCorrect == Spec => []TypeOK
  BY InvHolds, Sim800Assumption, PTL

(* at_sim800_mqtt_client_conn() that returns 0 to the layer above leaves   *)
(* the client connected, whatever the polls and the reconnects nested in   *)
(* its wait have done and returned.                                        *)
THEOREM SuccessIsConnection == Spec => ConnectTells
<1> DEFINE Tells ==
             /\ Running("conn") /\ Len(stack) = 1 /\ stack' = <<>>
             /\ last'.fn = "conn" /\ last'.ret = 0
             => connect_state' = CONNECTED
<1>1. ASSUME Sim800Assumption, TypeOK, StackOK, [Next]_vars PROVE Tells
  <2> SUFFICES ASSUME Running("conn"), Len(stack) = 1, stack' = <<>>,
                      last'.fn = "conn", last'.ret = 0
               PROVE  connect_state' = CONNECTED
    OBVIOUS
  <2>1. stack # <<>> /\ Top.fn = "conn" /\ \A fn : Running(fn) => fn = "conn"
    BY <1>1, RunningFrame
  <2>2. CASE ConnUnset
    BY <2>2 DEF ConnUnset, Return
  <2>3. CASE ConnCommand
    <3>1. \A f : stack' # Append(Front(stack), f)
      <4>1. \A f : Len(Append(Front(stack), f)) = Len(Front(stack)) + 1
        BY <1>1, <2>1, TopIsFrame
      <4> QED
        BY <1>1, <2>1, <4>1, TopIsFrame
    <3> QED
      BY <2>3, <3>1 DEF ConnCommand, Goto, Return
  <2>4. CASE ConnWait
    <3>1. \A f, g : stack' # Front(stack) \o <<f, g>>
      BY <1>1, <2>1, TopIsFrame
    <3> QED
      BY <2>1, <2>4, <3>1 DEF ConnWait, Nest
  <2>5. CASE ConnDone
    BY <2>5 DEF ConnDone, Return, NoSend
  <2>6. ~Restart
    BY DEF Restart
  <2>7. stack' # stack
    BY <2>1
  <2>8. CASE Step
    BY <2>1, <2>2, <2>3, <2>4, <2>5, <2>8
       DEF Step, InitStep, IpInitStep, StatePoll, StateReconnect, StateRequery, StateDone,
           Reconn, ReconnBearer, ReconnDone, OneCommand
  <2>9. ~UNCHANGED vars /\ ~Listen /\ ~Overlook /\ ~Unsolicited
    BY <2>7 DEF vars, Listen, Overlook, Unsolicited
  <2>10. ~CallInit /\ ~CallDeinit /\ ~CallOther
    BY <2>1 DEF CallInit, CallDeinit, CallOther, Enter
  <2> QED
    BY <1>1, <2>6, <2>8, <2>9, <2>10 DEF Next
<1>2. Sim800Assumption /\ TypeOK /\ StackOK /\ [Next]_vars => [Tells]_vars
  BY <1>1
<1>3. Spec => [](TypeOK /\ StackOK) /\ [][Next]_vars
  BY InvHolds, Sim800Assumption, PTL DEF Spec
<1>4. Spec => [][Tells]_vars
  BY <1>2, <1>3, Sim800Assumption, PTL
<1> QED
  BY <1>4 DEF ConnectTells

=============================================================================
