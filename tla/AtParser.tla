------------------------------ MODULE AtParser ------------------------------
(***************************************************************************)
(* How eng/atm/at_parser.c cuts the text of the modem into reports: the    *)
(* loop of at_yield(), which keeps what it read in one buffer, and         *)
(* at_scan_for_callback(), which lets every registered callback look for   *)
(* its prefix there and capture what follows up to its postfix.            *)
(*                                                                         *)
(* What is hard to see in the code is what outlives what: a capture        *)
(* belongs to its callback and goes on over the end of a yield; a prefix   *)
(* half read belongs to the buffer and does not; and the callbacks, each   *)
(* with a length of its own, all capture into one array.  MqttSim800 takes *)
(* the reports that leave here as given.                                   *)
(***************************************************************************)
EXTENDS Integers, FiniteSets, SequencesExt

CONSTANTS
    Oobs,       \* the registered callbacks in order: [prefix, maxlen]
    Postfix,    \* the postfix all of them have, the end of a line
    BufSize,    \* RECV_BUFFER_SIZE
    Frame,      \* the lines the modem may send, each with its Postfix
    Nul,        \* a byte that memset() cleared
    MaxFrames,  \* bound: lines sent
    MaxLost     \* bound: characters the UART has no room for

Callback == DOMAIN Oobs
Longest == CHOOSE n \in {Oobs[k].maxlen : k \in Callback} :
              \A k \in Callback : Oobs[k].maxlen =< n
Char == UNION {Range(f) : f \in Frame}

(* at_register_callback() takes no array as long as the buffer; the driver *)
(* registers some callbacks, whose prefixes have no character of the       *)
(* postfix.  A line of the modem is over with the first postfix in it.     *)
ASSUME ParserAssumption ==
    /\ Oobs \in Seq(Range(Oobs)) /\ Oobs # <<>>
    /\ \A k \in Callback :
          /\ Oobs[k].prefix \in Seq(Range(Oobs[k].prefix))
          /\ Oobs[k].maxlen \in Nat
          /\ Len(Oobs[k].prefix) >= 2
          /\ Len(Oobs[k].prefix) =< Oobs[k].maxlen
          /\ Oobs[k].maxlen < BufSize
          /\ Range(Oobs[k].prefix) \cap Range(Postfix) = {}
    /\ BufSize \in Nat
    /\ Postfix \in Seq(Range(Postfix)) /\ Postfix # <<>>
    /\ \A f \in Frame : /\ f \in Seq(Char)
                        /\ IsSuffix(Postfix, f)
                        /\ \A n \in 1..(Len(f) - 1) : ~IsSuffix(Postfix, SubSeq(f, 1, n))
    /\ Nul \notin Char
    /\ MaxFrames \in Nat /\ MaxLost \in Nat

VARIABLES
    yielding,   \* at_yield() runs
    buf,        \* at_rx_buf, up to offset
    data,       \* at_recv_rsp_buf, which all callbacks capture into
    reallen,    \* how much each callback has captured
    line,       \* what the modem has still to send of its line
    sent, lost, \* lines sent, characters lost so far
    frame,      \* the whole line
    out,        \* the callbacks made while it was read
    clean,      \* it began with the parser at rest and lost no part of its
                \* prefix, is not too long and names one callback only
    cut,        \* a character of its postfix was lost
    overlap     \* two captures ran at once since the parser was at rest

history == <<frame, out, clean, cut, overlap>>
vars == <<yielding, buf, data, reallen, line, sent, lost, history>>

Reported == [cb : Callback, text : Seq(Char \cup {Nul})]

TypeOK ==
    /\ yielding \in BOOLEAN
    /\ buf \in Seq(Char) /\ Len(buf) < BufSize
    /\ data \in [1..Longest -> Char \cup {Nul}]
    /\ reallen \in [Callback -> 0..Longest]
    /\ \A k \in Callback : reallen[k] =< Oobs[k].maxlen
    /\ line \in Seq(Char) /\ sent \in 0..MaxFrames /\ lost \in 0..MaxLost
    /\ frame \in Frame \cup {<<>>} /\ out \in Seq(Reported)
    /\ clean \in BOOLEAN /\ cut \in BOOLEAN /\ overlap \in BOOLEAN

Capturing == {k \in Callback : reallen[k] > 0}

(* No capture runs and no prefix is half read. *)
AtRest ==
    /\ Capturing = {}
    /\ yielding => \A k \in Callback, n \in 1..Len(buf) :
          ~IsStrictPrefix(SubSeq(buf, n, Len(buf)), Oobs[k].prefix)

(* Where the prefix of callback k is in text. *)
Places(k, text) ==
    {i \in 1..Len(text) : IsPrefix(Oobs[k].prefix, SubSeq(text, i, Len(text)))}

(* A line that is a report, or one that is none and looks like none. *)
IsReport(f, k) == /\ Places(k, f) = {1}
                  /\ \A j \in Callback \ {k} : Places(j, f) = {}
                  /\ Len(f) =< Oobs[k].maxlen
IsText(f) == \A k \in Callback : Places(k, f) = {}

Init ==
    /\ yielding = FALSE
    /\ buf = <<>> /\ data = [i \in 1..Longest |-> Nul]
    /\ reallen = [k \in Callback |-> 0]
    /\ line = <<>> /\ sent = 0 /\ lost = 0
    /\ frame = <<>> /\ out = <<>>
    /\ clean = FALSE /\ cut = FALSE /\ overlap = FALSE

-----------------------------------------------------------------------------
(* The modem begins a line. *)
Send(f) ==
    /\ line = <<>> /\ sent < MaxFrames
    /\ line' = f /\ frame' = f /\ sent' = sent + 1
    /\ out' = <<>>
    /\ clean' = (AtRest /\ (IsText(f) \/ \E k \in Callback : IsReport(f, k)))
    /\ cut' = FALSE
    /\ overlap' = (overlap /\ ~AtRest)
    /\ UNCHANGED <<yielding, buf, data, reallen, lost>>

(* A character is gone. *)
Drop ==
    /\ line # <<>>
    /\ line' = Tail(line)
    /\ clean' = FALSE
    /\ cut' = (cut \/ Len(line) =< Len(Postfix))
    /\ UNCHANGED <<data, reallen, sent, frame, out, overlap>>

(* It came while nobody read: between two yields, or while one prints or   *)
(* looks at the character before it.                                       *)
Lose ==
    /\ lost < MaxLost
    /\ lost' = lost + 1
    /\ Drop
    /\ UNCHANGED <<yielding, buf>>

(* at_yield() is entered: the buffer is cleared, the captures are not. *)
Enter ==
    /\ ~yielding
    /\ yielding' = TRUE
    /\ buf' = <<>>
    /\ UNCHANGED <<data, reallen, line, sent, lost, history>>

(* at_getc() gets nothing in time, or the UART reports an error. *)
TimeOut ==
    /\ yielding
    /\ yielding' = FALSE
    /\ clean' = (clean /\ \A k \in Callback :
          IsPrefix(Oobs[k].prefix, frame) =>
              Len(frame) - Len(line) \notin 1..(Len(Oobs[k].prefix) - 1))
    /\ UNCHANGED <<buf, data, reallen, line, sent, lost, frame, out, cut,
                   overlap>>

(* Seeded fault: the buffer may be filled to its last byte. *)
RoomLate == Len(buf) + 1 =< BufSize

(* The test of the offset after a character was read. *)
Room == Len(buf) + 1 < BufSize

(* The buffer is full of text no callback took: the yield is over, and the *)
(* character that was read for it is gone.                                 *)
BufferFull ==
    /\ yielding
    /\ ~Room
    /\ Drop
    /\ yielding' = FALSE
    /\ UNCHANGED <<buf, lost>>

-----------------------------------------------------------------------------
(* One round of the loop in at_scan_for_callback(), for callback k and the *)
(* character c that was put into the buffer.  The state p of the parser is *)
(* [buf, data, reallen, out].                                              *)
Wipe(d, n) == [i \in DOMAIN d |-> IF i =< n THEN Nul ELSE d[i]]

(* A prefix was read: its last character is still to be stored. *)
Open(p, k) ==
    LET n == Len(Oobs[k].prefix) - 1
        wiped == Wipe(p.data, Oobs[k].maxlen)
    IN  [p EXCEPT !.data = [i \in DOMAIN wiped |->
                               IF i =< n THEN Oobs[k].prefix[i] ELSE wiped[i]],
                  !.reallen[k] = n]

(* Seeded fault: the capture is not reset when it is over. *)
CloseKeepsLength(p, k) ==
    [p EXCEPT !.data = Wipe(@, p.reallen[k]), !.buf = <<>>]

Close(p, k) ==
    [p EXCEPT !.data = Wipe(@, p.reallen[k]), !.reallen[k] = 0, !.buf = <<>>]

(* What there is no room for ends the capture without a report. *)
Store(p, k, c) ==
    IF p.reallen[k] < Oobs[k].maxlen
    THEN [p EXCEPT !.data[p.reallen[k] + 1] = c, !.reallen[k] = @ + 1]
    ELSE Close(p, k)

Captured(p, k) == SubSeq([i \in 1..Longest |-> p.data[i]], 1, p.reallen[k])

Complete(p, k) ==
    /\ p.reallen[k] >= Len(Oobs[k].prefix) + Len(Postfix)
    /\ IsSuffix(Postfix, Captured(p, k))

Look(p, k, c) ==
    LET begun == IF p.reallen[k] > 0 THEN p ELSE Open(p, k)
        stored == Store(begun, k, c)
    IN  IF Complete(stored, k)
        THEN Close([stored EXCEPT
                      !.out = Append(@, [cb |-> k, text |-> Captured(stored, k)])], k)
        ELSE IF Len(stored.buf) > BufSize - 2 THEN [stored EXCEPT !.buf = <<>>]
        ELSE stored

(* Seeded fault: only the callbacks with a prefix in the buffer are asked. *)
AskPrefixesOnly(p, k, c) ==
    IF IsSuffix(Oobs[k].prefix, p.buf) THEN Look(p, k, c) ELSE p

Ask(p, k, c) ==
    IF p.reallen[k] > 0 \/ IsSuffix(Oobs[k].prefix, p.buf)
    THEN Look(p, k, c) ELSE p

(* at_scan_for_callback(): the callbacks are asked one after the other. *)
Scan(p, c) ==
    LET asked[n \in 0..Len(Oobs)] ==
            IF n = 0 THEN p ELSE Ask(asked[n - 1], n, c)
    IN  asked[Len(Oobs)]

(* at_yield() reads a character. *)
GetChar ==
    /\ yielding
    /\ line # <<>>
    /\ Room
    /\ LET c == Head(line)
           p == Scan([buf |-> Append(buf, c), data |-> data,
                      reallen |-> reallen, out |-> out], c)
       IN  /\ buf' = p.buf /\ data' = p.data
           /\ reallen' = p.reallen /\ out' = p.out
    /\ line' = Tail(line)
    /\ overlap' = (overlap \/ Cardinality(Capturing') > 1)
    /\ UNCHANGED <<yielding, sent, lost, frame, clean, cut>>

Next ==
    \/ \E f \in Frame : Send(f)
    \/ Lose \/ Enter \/ TimeOut \/ BufferFull \/ GetChar

Spec == Init /\ [][Next]_vars
-----------------------------------------------------------------------------
(* A report that finds the parser at rest and names one callback only is   *)
(* handed to that callback whole, once, and to no other, however many      *)
(* yields it is spread over and whatever was cut, dropped, too long or     *)
(* garbled before it; a line that is no report is handed to none.          *)
ReportedOnce ==
    line = <<>> /\ clean =>
        out = IF IsText(frame) THEN <<>>
              ELSE <<[cb |-> CHOOSE k \in Callback : IsReport(frame, k),
                      text |-> frame]>>

(* The end of a line ends every capture, also one that was left open by a  *)
(* line before it, unless that end is lost or two captures ran at once:    *)
(* then the first to complete wipes the end of the other out of the array  *)
(* they share.                                                             *)
LineEndsCapture == line = <<>> /\ ~cut /\ ~overlap => Capturing = {}
=============================================================================
