-------------------------- MODULE OtaClient_proofs --------------------------
(***************************************************************************)
(* Theorems about the OTA client for every set of files, whatever their    *)
(* announced and their real sizes, every chunk size and every number of    *)
(* notices.                                                                *)
(***************************************************************************)
EXTENDS OtaClient, SequenceTheorems, TLAPS

(* What a call of the HTTP client delivers: the next units of the file in  *)
(* their order, some perhaps damaged, never beyond its end; and at least   *)
(* one as long as some are left.                                           *)
LEMMA DeliveredUnits ==
    ASSUME TypeOK, state = "FETCHING", Fetched >= 0, NEW got \in Deliveries
    PROVE  /\ got \in Seq(Unit)
           /\ ch_fetch.pos + Len(got) =< Length[ch_fetch.file]
           /\ \A i \in 1..Len(got) : got[i] = Bad \/ got[i][2] = ch_fetch.pos + i
           /\ ch_fetch.pos = 0 => Len(got) > 0
<1> DEFINE f == ch_fetch.file
           pos == ch_fetch.pos
           n == Fetched
           good == [i \in 1..n |-> <<f, pos + i>>]
<1>1. f \in File /\ pos \in Nat /\ Length[f] \in Nat \ {0} /\ pos =< Length[f]
  BY OtaAssumption DEF TypeOK
<1>2. n \in Nat /\ pos + n =< Length[f] /\ (pos = 0 => n > 0)
  BY <1>1, OtaAssumption DEF Fetched, Left
<1> HIDE DEF n
<1>3. \A i \in 1..n : good[i] \in Unit /\ good[i] # Bad /\ good[i][2] = pos + i
  BY <1>1, <1>2, OtaAssumption DEF Unit, Bad
<1>4. good \in Seq(Unit) /\ Len(good) = n
  BY <1>2, <1>3
<1>5. CASE got = good
  BY <1>2, <1>3, <1>4, <1>5
<1>6. ASSUME NEW i \in DOMAIN good, got = [good EXCEPT ![i] = Bad]
      PROVE  /\ got \in Seq(Unit) /\ Len(got) = n
             /\ \A k \in 1..n : got[k] = Bad \/ got[k][2] = pos + k
  <2>1. Bad \in Unit /\ DOMAIN good = 1..n
    BY DEF Unit
  <2>2. got \in [1..n -> Unit]
    BY <1>3, <1>6, <2>1
  <2>3. got \in Seq(Unit) /\ Len(got) = n
    BY <1>2, <2>2
  <2> QED
    BY <1>3, <1>6, <2>1, <2>3
<1>7. got = good \/ \E i \in DOMAIN good : got = [good EXCEPT ![i] = Bad]
  BY DEF Deliveries, n
<1> QED
  BY <1>2, <1>5, <1>6, <1>7

-----------------------------------------------------------------------------
(* Type correctness. *)
LEMMA TypeInit == Init => TypeOK
<1> SUFFICES ASSUME Init PROVE TypeOK
  OBVIOUS
<1>1. <<>> \in Seq(Unit)
  OBVIOUS
<1>2. 0 \in 0..MaxNotices
  BY OtaAssumption
<1>3. finished \subseteq Contexts /\ missing \subseteq Scarce
  BY DEF Init
<1> QED
  BY <1>1, <1>2, <1>3 DEF Init, TypeOK

(* A chunk: the place in the file and the counters stay what they are. *)
LEMMA TypeDeliver ==
    ASSUME TypeOK, FetchYield
    PROVE  /\ ch_fetch' \in [file : File, pos : Nat, more : BOOLEAN]
           /\ ch_fetch'.file = ch_fetch.file
           /\ ch_fetch.pos =< ch_fetch'.pos
           /\ ch_fetch'.pos =< Length[ch_fetch'.file]
           /\ hashed' \in Seq(Unit) /\ received' \in Seq(Unit)
           /\ size_fetched' \in Nat
           /\ err' \in {"NONE", "GENERAL", "INVALID_STATE", "FETCH_FAILED"}
<1>1. PICK got \in Deliveries : Deliver(got) /\ hashed' = hashed \o got
  BY DEF FetchYield
<1>2. got \in Seq(Unit) /\ ch_fetch.pos + Len(got) =< Length[ch_fetch.file]
  BY DeliveredUnits DEF FetchYield
<1>3. Len(got) \in Nat
  BY <1>2, LenProperties
<1>4. ch_fetch \in [file : File, pos : Nat, more : BOOLEAN]
  BY DEF FetchYield, TypeOK
<1>5. PICK more \in BOOLEAN :
         ch_fetch' = [ch_fetch EXCEPT !.pos = @ + Len(got), !.more = more]
  <2>1. ch_fetch' = [ch_fetch EXCEPT !.pos = @ + Len(got), !.more = IsMore]
    BY <1>1 DEF Deliver
  <2>2. IsMore \in BOOLEAN
    <3>1. /\ (Left >= BufLen) \in BOOLEAN
          /\ (~ch_fetch.more /\ ch_fetch.pos >= BufLen) \in BOOLEAN
      OBVIOUS
    <3> QED
      BY <3>1, Zenon DEF IsMore
  <2> QED
    BY <2>1, <2>2
<1>6. hashed' \in Seq(Unit) /\ received' \in Seq(Unit)
  BY <1>1, <1>2, ConcatProperties DEF Deliver, TypeOK
<1>7. /\ ch_fetch' \in [file : File, pos : Nat, more : BOOLEAN]
      /\ ch_fetch'.file = ch_fetch.file
      /\ ch_fetch'.pos = ch_fetch.pos + Len(got)
  <2>1. ch_fetch.pos + Len(got) \in Nat
    BY <1>3, <1>4
  <2> DEFINE n == ch_fetch.pos + Len(got)
  <2> HIDE DEF n
  <2>2. ch_fetch' = [ch_fetch EXCEPT !.pos = n, !.more = more]
    BY <1>5 DEF n
  <2>3. n \in Nat
    BY <2>1 DEF n
  <2>4. /\ ch_fetch' \in [file : File, pos : Nat, more : BOOLEAN]
        /\ ch_fetch'.file = ch_fetch.file /\ ch_fetch'.pos = n
    BY <1>4, <2>2, <2>3
  <2> QED
    BY <2>4 DEF n
<1>8. size_fetched' \in Nat
  BY <1>1, <1>3 DEF Deliver, TypeOK
<1>9. err' \in {"NONE", "GENERAL", "INVALID_STATE", "FETCH_FAILED"}
  BY <1>1 DEF Deliver, TypeOK
<1> QED
  BY <1>2, <1>3, <1>4, <1>6, <1>7, <1>8, <1>9

LEMMA TypeFinish ==
    ASSUME TypeOK, NEW done \in BOOLEAN, FinishIf(done)
    PROVE  /\ state' = IF done THEN "FETCHED" ELSE state
           /\ type' = IF done THEN "NONE" ELSE type
           /\ purl' \in File \cup {None} /\ cota_url' \in File \cup {None}
           /\ ~done => purl' = purl /\ cota_url' = cota_url
BY DEF TypeOK, FinishIf, Finish, TellStop

(* A started download. *)
LEMMA TypeStart ==
    ASSUME TypeOK, NEW f \in File, NEW kind \in {"COTA", "FOTA"}, Start(kind, f),
           size_file' \in Nat, size_fetched' \in Nat, hashed' \in Seq(Unit),
           finished' \subseteq Contexts, missing' \subseteq Scarce,
           purl' \in File \cup {None}, md5sum' \in File \cup {None},
           cota_url' \in File \cup {None}, sign' \in File \cup {None},
           notices' \in 0..MaxNotices
    PROVE  TypeOK'
<1>1. /\ state' = "FETCHING" /\ type' = kind
      /\ ch_fetch' = [file |-> f, pos |-> 0, more |-> FALSE]
      /\ received' = <<>> /\ hashed0' = hashed' /\ count0' = size_fetched'
      /\ reset' = FALSE /\ failed' = FALSE /\ verdict' = "NONE"
      /\ err' = err /\ fetch_cb' = fetch_cb /\ fetch_cota_cb' = fetch_cota_cb
  BY DEF Start
<1>2. ch_fetch' \in [file : File, pos : Nat, more : BOOLEAN] /\ ch_fetch' # None
  <2>1. 0 \in Nat /\ FALSE \in BOOLEAN
    OBVIOUS
  <2>2. ch_fetch' \in [file : File, pos : Nat, more : BOOLEAN]
    BY <1>1, <2>1, Zenon
  <2> QED
    BY <2>2, OtaAssumption
<1>3. ch_fetch'.pos =< Length[ch_fetch'.file]
  BY <1>1, OtaAssumption
<1>4. received' \in Seq(Unit) /\ hashed0' \in Seq(Unit) /\ count0' \in Nat
  BY <1>1
<1>5. /\ err' \in {"NONE", "GENERAL", "INVALID_STATE", "FETCH_FAILED"}
      /\ fetch_cb' \in BOOLEAN /\ fetch_cota_cb' \in BOOLEAN
  BY <1>1 DEF TypeOK
<1>6. /\ state' \in {"UNINITED", "INITED", "FETCHING", "FETCHED"}
      /\ type' \in {"NONE", "COTA", "FOTA"}
      /\ state' = "FETCHING" /\ type' # "NONE"
      /\ reset' \in BOOLEAN /\ failed' \in BOOLEAN
      /\ verdict' \in {"NONE", "INVALID"} \cup File
  BY <1>1
<1> QED
  BY <1>2, <1>3, <1>4, <1>5, <1>6 DEF TypeOK

(* A notice that is considered. *)
LEMMA NoticeCounted ==
    ASSUME TypeOK, Notice
    PROVE  notices' \in 0..MaxNotices
<1>1. MaxNotices \in Nat /\ notices \in 0..MaxNotices
  BY OtaAssumption DEF TypeOK
<1> QED
  BY <1>1 DEF Notice

LEMMA TypeNotice ==
    ASSUME TypeOK, NEW f \in File,
           FotaNotice(f) \/ FotaNoticeFails(f) \/ CotaNotice(f) \/ CotaNoticeFails(f)
    PROVE  TypeOK'
<1>1. Size[f] \in Nat /\ <<>> \in Seq(Unit)
  BY OtaAssumption
<1>2. notices' \in 0..MaxNotices
  BY NoticeCounted DEF FotaNotice, FotaNoticeFails, CotaNotice, CotaNoticeFails
<1>3. CASE FotaNotice(f)
  <2>1. /\ size_file' \in Nat /\ size_fetched' \in Nat /\ hashed' \in Seq(Unit)
        /\ finished' \subseteq Contexts /\ missing' \subseteq Scarce
        /\ purl' \in File \cup {None} /\ md5sum' \in File \cup {None}
        /\ cota_url' \in File \cup {None} /\ sign' \in File \cup {None}
    BY <1>1, <1>3 DEF FotaNotice, hashes, TypeOK
  <2> QED
    BY <1>2, <1>3, <2>1, TypeStart DEF FotaNotice
<1>5. CASE CotaNotice(f)
  <2>1. /\ size_file' \in Nat /\ size_fetched' \in Nat /\ hashed' \in Seq(Unit)
        /\ finished' \subseteq Contexts /\ missing' \subseteq Scarce
        /\ purl' \in File \cup {None} /\ md5sum' \in File \cup {None}
        /\ cota_url' \in File \cup {None} /\ sign' \in File \cup {None}
    BY <1>1, <1>5 DEF CotaNotice, NewHashes, TypeOK
  <2> QED
    BY <1>2, <1>5, <2>1, TypeStart DEF CotaNotice
<1> USE DEF TypeOK, Notice
<1>4. CASE FotaNoticeFails(f)
  BY <1>1, <1>2, <1>4 DEF FotaNoticeFails, hashes, callbacks, history
<1>6. CASE CotaNoticeFails(f)
  <2>1. sign' \in File \cup {None} /\ cota_url' \in File \cup {None}
    BY <1>6 DEF CotaNoticeFails
  <2>2. UNCHANGED <<state, type, purl, md5sum, err, fetch_cb, fetch_cota_cb,
                    received, hashed0, count0, reset, failed, verdict>>
    BY <1>6 DEF CotaNoticeFails, callbacks, history
  <2>3. \/ UNCHANGED <<size_file, size_fetched, hashed, finished, missing,
                      ch_fetch>>
        \/ /\ size_file' = Size[f] /\ size_fetched' = 0
           /\ hashed' = <<>> /\ finished' = {} /\ missing' \subseteq Scarce
           /\ ch_fetch' = None
    BY <1>6 DEF CotaNoticeFails, NewHashes, hashes
  <2>4. state # "FETCHING" /\ state' # "FETCHING" /\ type' = "NONE"
    BY <1>6, <2>2 DEF CotaNoticeFails
  <2>5. CASE UNCHANGED <<size_file, size_fetched, hashed, finished, missing,
                      ch_fetch>>
    BY <1>2, <2>1, <2>2, <2>4, <2>5
  <2>6. CASE /\ size_file' = Size[f] /\ size_fetched' = 0
             /\ hashed' = <<>> /\ finished' = {} /\ missing' \subseteq Scarce
             /\ ch_fetch' = None
    BY <1>1, <1>2, <2>1, <2>2, <2>4, <2>6
  <2> QED
    BY <2>3, <2>5, <2>6
<1> QED
  BY <1>3, <1>4, <1>5, <1>6

LEMMA TypeNext == TypeOK /\ [Next]_vars => TypeOK'
<1> SUFFICES ASSUME TypeOK PROVE [Next]_vars => TypeOK'
  OBVIOUS
<1> USE DEF TypeOK
<1>1. CASE NoticeRefused
  <2>1. notices' \in 0..MaxNotices
    BY <1>1, NoticeCounted DEF NoticeRefused
  <2> QED
    BY <1>1, <2>1 DEF NoticeRefused, params, hashes, callbacks, history
<1>2. CASE \E f \in File : \/ FotaNotice(f) \/ FotaNoticeFails(f)
                           \/ CotaNotice(f) \/ CotaNoticeFails(f)
  BY <1>2, TypeNotice
<1>3. CASE FetchYield
  <2>1. (size_fetched' >= size_file) \in BOOLEAN
    OBVIOUS
  <2>2. PICK done \in BOOLEAN : FinishIf(done)
    BY <1>3, <2>1 DEF FetchYield
  <2>3. PICK got \in Deliveries : Deliver(got)
    BY <1>3 DEF FetchYield
  <2>4. ch_fetch' # None
    BY <1>3, TypeDeliver, OtaAssumption
  <2>5. UNCHANGED <<size_file, md5sum, sign, finished, missing, fetch_cb,
                    fetch_cota_cb, notices, hashed0, count0, reset, failed,
                    verdict>>
    BY <2>3 DEF Deliver
  <2>6. /\ state' = IF done THEN "FETCHED" ELSE "FETCHING"
        /\ type' = IF done THEN "NONE" ELSE type
        /\ purl' \in File \cup {None} /\ cota_url' \in File \cup {None}
    BY <1>3, <2>2, TypeFinish DEF FetchYield
  <2>7. state = "FETCHING" /\ type # "NONE"
    BY <1>3 DEF FetchYield
  <2> QED
    BY <1>3, <2>4, <2>5, <2>6, <2>7, TypeDeliver
<1>4. CASE FetchFails
  <2>1. FinishIf(TRUE)
    BY <1>4 DEF FetchFails, FinishIf
  <2> QED
    BY <1>4, <2>1, TypeFinish DEF FetchFails, hashes
<1>5. CASE OtaInit \/ OtaDeinit \/ Faults
  <2>1. <<>> \in Seq(Unit)
    OBVIOUS
  <2>2. /\ state' \in {"INITED", "UNINITED"} /\ Cleared
        /\ UNCHANGED notices
    BY <1>5 DEF OtaInit, OtaDeinit, Faults
  <2> QED
    BY <2>1, <2>2 DEF Cleared
<1>6. CASE SetFetchCallback
  BY <1>6 DEF SetFetchCallback, params, hashes, history
<1>7. ASSUME NEW algo \in Contexts, NEW f \in File \cup {None},
             Check(algo, f)
      PROVE  /\ finished' \subseteq Contexts
             /\ verdict' \in {"NONE", "INVALID"} \cup File
             /\ UNCHANGED <<state, type, size_file, size_fetched, purl, md5sum,
                   cota_url, sign, ch_fetch, hashed, missing, fetch_cb,
                   fetch_cota_cb, notices, received, hashed0, count0, reset,
                   failed>>
  BY <1>7 DEF Check, params, callbacks
<1>8. CASE CheckFirmware
  <2>1. "md5" \in Contexts
    BY DEF Contexts
  <2> QED
    BY <1>7, <1>8, <2>1 DEF CheckFirmware
<1>9. CASE CheckConfig
  BY <1>7, <1>9 DEF CheckConfig
<1>13. CASE CheckConfigUnset
  BY <1>13 DEF CheckConfigUnset, params, callbacks
<1>10. CASE ResetFetchedSize
  BY <1>10 DEF ResetFetchedSize, params, hashes, callbacks
<1>12. CASE CallFails
  BY <1>12 DEF CallFails, params, hashes, callbacks, history
<1>11. CASE UNCHANGED vars
  BY <1>11 DEF vars, params, hashes, callbacks, history
<1> QED
  BY <1>1, <1>2, <1>3, <1>4, <1>5, <1>6, <1>8, <1>9, <1>10, <1>11, <1>12, <1>13
  DEF Next, NextNotice, NextCall

(* The handle keeps its types: above all, a download in progress has a     *)
(* type and a fetch channel that stands within its file.                   *)
THEOREM TypeCorrect == Spec => []TypeOK
BY TypeInit, TypeNext, PTL DEF Spec

-----------------------------------------------------------------------------
(* A download in progress. *)

(* A step that finds a download in progress and leaves it so. *)
LEMMA FrozenNext ==
    ASSUME TypeOK, Next, state = "FETCHING", state' = "FETCHING"
    PROVE  /\ UNCHANGED <<type, size_file, purl, md5sum, cota_url, sign>>
           /\ ch_fetch'.file = ch_fetch.file
           /\ ch_fetch.pos =< ch_fetch'.pos
<1>1. ch_fetch \in [file : File, pos : Nat, more : BOOLEAN]
  BY DEF TypeOK
<1>2. CASE FetchYield
  <2>0. (size_fetched' >= size_file) \in BOOLEAN
    OBVIOUS
  <2>1. PICK done \in BOOLEAN : FinishIf(done)
    BY <1>2, <2>0 DEF FetchYield
  <2>2. ~done
    BY <2>1 DEF FinishIf, Finish
  <2>3. UNCHANGED <<type, purl, cota_url>>
    BY <2>1, <2>2, TypeFinish
  <2>4. UNCHANGED <<size_file, md5sum, sign>>
    BY <1>2 DEF FetchYield, Deliver
  <2>5. ch_fetch'.file = ch_fetch.file /\ ch_fetch.pos =< ch_fetch'.pos
    BY <1>2, TypeDeliver
  <2> QED
    BY <2>3, <2>4, <2>5
<1>3. CASE NoticeRefused
  BY <1>1, <1>3 DEF NoticeRefused, params
<1>4. CASE ResetFetchedSize
  BY <1>1, <1>4 DEF ResetFetchedSize, params
<1>5. CASE SetFetchCallback
  BY <1>1, <1>5 DEF SetFetchCallback, params
<1>6. CASE CallFails
  BY <1>1, <1>6 DEF CallFails, params
<1>7. /\ ~FetchFails /\ ~OtaInit /\ ~OtaDeinit /\ ~Faults
      /\ ~CheckFirmware /\ ~CheckConfig /\ ~CheckConfigUnset
  BY DEF FetchFails, Finish, OtaInit, OtaDeinit, Faults, CheckFirmware,
         CheckConfig, CheckConfigUnset, Check
<1>8. \A f \in File : /\ ~FotaNotice(f) /\ ~FotaNoticeFails(f)
                      /\ ~CotaNotice(f) /\ ~CotaNoticeFails(f)
  BY DEF FotaNotice, FotaNoticeFails, CotaNotice, CotaNoticeFails
<1> QED
  BY <1>2, <1>3, <1>4, <1>5, <1>6, <1>7, <1>8 DEF Next, NextNotice, NextCall

(* Whatever notice comes between two chunks, the download goes on with the *)
(* parameters and the file it started with, and never backwards.           *)
THEOREM FrozenWhileBusy == Spec => BusyIsFrozen
<1>1. TypeOK /\ [Next]_vars =>
        [state = "FETCHING" /\ state' = "FETCHING" =>
           /\ UNCHANGED <<type, size_file, purl, md5sum, cota_url, sign>>
           /\ ch_fetch'.file = ch_fetch.file
           /\ ch_fetch.pos =< ch_fetch'.pos]_vars
  BY FrozenNext
<1> QED
  BY <1>1, TypeCorrect, PTL DEF Spec, BusyIsFrozen

-----------------------------------------------------------------------------
(* What was counted and hashed. *)

(* One more chunk: the same units go to the application, to the counter    *)
(* and to the hashes.                                                      *)
LEMMA CountedChunk ==
    ASSUME TypeOK, CountedAndHashed, FetchYield
    PROVE  /\ hashed' = hashed0' \o received'
           /\ ~reset' => size_fetched' = count0' + Len(received')
           /\ state' \in {"FETCHING", "FETCHED"}
<1>1. PICK got \in Deliveries : Deliver(got) /\ hashed' = hashed \o got
  BY DEF FetchYield
<1>2. got \in Seq(Unit) /\ received \in Seq(Unit) /\ hashed0 \in Seq(Unit)
      /\ count0 \in Nat
  BY DeliveredUnits DEF FetchYield, TypeOK
<1>3. /\ hashed = hashed0 \o received
      /\ ~reset => size_fetched = count0 + Len(received)
  BY DEF CountedAndHashed, FetchYield
<1>4. /\ received' = received \o got /\ hashed0' = hashed0 /\ count0' = count0
      /\ reset' = reset /\ size_fetched' = size_fetched + Len(got)
  BY <1>1 DEF Deliver
<1>5. hashed' = hashed0' \o received'
  BY <1>1, <1>2, <1>3, <1>4, ConcatAssociative
<1>6. /\ Len(received') = Len(received) + Len(got)
      /\ Len(received) \in Nat /\ Len(got) \in Nat
  BY <1>2, <1>4, ConcatProperties, LenProperties
<1>7. ~reset' => size_fetched' = count0' + Len(received')
  BY <1>2, <1>3, <1>4, <1>6
<1>8. state' \in {"FETCHING", "FETCHED"}
  BY DEF FetchYield, FinishIf, Finish
<1> QED
  BY <1>5, <1>7, <1>8

LEMMA CountedNext ==
    TypeOK /\ TypeOK' /\ CountedAndHashed /\ [Next]_vars => CountedAndHashed'
<1> SUFFICES ASSUME TypeOK, TypeOK', CountedAndHashed
             PROVE  [Next]_vars => CountedAndHashed'
  OBVIOUS
<1>1. ASSUME UNCHANGED <<state, hashed, hashed0, received>>,
             reset' \/ UNCHANGED <<size_fetched, count0, reset>>
      PROVE  CountedAndHashed'
  BY <1>1 DEF CountedAndHashed
<1>2. ASSUME NEW f \in File, NEW kind \in {"COTA", "FOTA"}, Start(kind, f)
      PROVE  CountedAndHashed'
  <2>1. /\ state' = "FETCHING" /\ hashed0' = hashed' /\ received' = <<>>
        /\ count0' = size_fetched'
    BY <1>2 DEF Start
  <2>2. hashed' \in Seq(Unit) /\ size_fetched' \in Nat
    BY DEF TypeOK
  <2>3. hashed' = hashed0' \o received'
    BY <2>1, <2>2, ConcatEmptySeq
  <2>4. Len(received') \in Nat /\ Len(received') = 0
    BY <2>1
  <2>5. count0' \in Nat /\ size_fetched' = count0'
    BY <2>1, <2>2
  <2>6. \A c \in Nat, l \in Nat : l = 0 => c = c + l
    OBVIOUS
  <2>7. size_fetched' = count0' + Len(received')
    BY <2>4, <2>5, <2>6, Zenon
  <2> QED
    BY <2>1, <2>3, <2>7 DEF CountedAndHashed
<1>3. CASE NoticeRefused
  BY <1>1, <1>3 DEF NoticeRefused, hashes, history
<1>4. ASSUME NEW f \in File,
             FotaNotice(f) \/ FotaNoticeFails(f) \/ CotaNotice(f) \/ CotaNoticeFails(f)
      PROVE  CountedAndHashed'
  <2>1. CASE FotaNotice(f) \/ CotaNotice(f)
    BY <1>2, <2>1 DEF FotaNotice, CotaNotice
  <2>2. CASE FotaNoticeFails(f)
    BY <1>1, <2>2 DEF FotaNoticeFails, hashes, history
  <2>3. CASE CotaNoticeFails(f)
    <3>1. /\ state' = state /\ state # "FETCHING"
          /\ received' = received /\ hashed0' = hashed0
      BY <2>3 DEF CotaNoticeFails, history
    <3>2. hashed' \in {hashed, <<>>}
      BY <2>3 DEF CotaNoticeFails, NewHashes, hashes
    <3> QED
      BY <3>1, <3>2 DEF CountedAndHashed
  <2> QED
    BY <1>4, <2>1, <2>2, <2>3
<1>5. CASE FetchYield
  BY <1>5, CountedChunk DEF CountedAndHashed
<1>6. CASE FetchFails
  <2>1. /\ state = "FETCHING" /\ state' = "FETCHED"
        /\ hashed' = hashed /\ received' = received /\ hashed0' = hashed0
    BY <1>6 DEF FetchFails, Finish, hashes
  <2> QED
    BY <2>1 DEF CountedAndHashed
<1>7. CASE OtaInit \/ OtaDeinit \/ Faults
  BY <1>7 DEF OtaInit, OtaDeinit, Faults, CountedAndHashed
<1>8. CASE SetFetchCallback
  BY <1>1, <1>8 DEF SetFetchCallback, hashes, history
<1>9. CASE CheckFirmware \/ CheckConfig \/ CheckConfigUnset
  BY <1>1, <1>9 DEF CheckFirmware, CheckConfig, CheckConfigUnset, Check
<1>10. CASE ResetFetchedSize
  BY <1>1, <1>10 DEF ResetFetchedSize, hashes
<1>11. CASE CallFails
  BY <1>1, <1>11 DEF CallFails, hashes, history
<1>12. CASE UNCHANGED vars
  BY <1>1, <1>12 DEF vars, hashes, history
<1> QED
  BY <1>3, <1>4, <1>5, <1>6, <1>7, <1>8, <1>9, <1>10, <1>11, <1>12
  DEF Next, NextNotice, NextCall

(* The counter and the hashes tell what the application was given, on top  *)
(* of what the handle held when the download started.                      *)
THEOREM CountsAndHashesWhatIsGiven == Spec => []CountedAndHashed
<1>1. Init => CountedAndHashed
  BY DEF Init, CountedAndHashed
<1> QED
  BY <1>1, CountedNext, TypeCorrect, PTL DEF Spec

-----------------------------------------------------------------------------
(* The length of a download, and what a check may call valid. *)

(* Before its first chunk, or short of the announced size: what a download *)
(* in progress has delivered, if the count is its own.                     *)
ShortOfTheSize ==
    state = "FETCHING" /\ count0 = 0 /\ ~reset =>
        received = <<>> \/ Len(received) < size_file

(* The units come in their order from the first on, and nothing is checked *)
(* during a download; one that ended without an error delivered something. *)
(* A file's first unit is therefore never the continuation of a hash that  *)
(* began before.                                                           *)
DeliveredInOrder ==
    /\ state = "FETCHING" => /\ Len(received) = ch_fetch.pos
                             /\ verdict = "NONE" /\ ~failed
    /\ \A i \in 1..Len(received) : received[i] = Bad \/ received[i][2] = i
    /\ state = "FETCHED" /\ ~failed => received # <<>>

(* What a step does to a download in progress: a chunk, an error, the end  *)
(* of the handle, or nothing but perhaps the reset of its counter.         *)
LEMMA FetchingSteps ==
    ASSUME Next, state = "FETCHING"
    PROVE  \/ FetchYield
           \/ FetchFails
           \/ OtaDeinit \/ Faults
           \/ /\ state' = "FETCHING"
              /\ UNCHANGED <<size_file, ch_fetch, received, hashed, hashed0,
                             count0, failed, verdict>>
              /\ reset' \/ UNCHANGED <<reset, size_fetched>>
<1>1. CASE NoticeRefused
  BY <1>1 DEF NoticeRefused, hashes, history
<1>2. CASE SetFetchCallback
  BY <1>2 DEF SetFetchCallback, hashes, history
<1>3. CASE ResetFetchedSize
  BY <1>3 DEF ResetFetchedSize, hashes
<1>4. CASE CallFails
  BY <1>4 DEF CallFails, hashes, history
<1>5. ~OtaInit /\ ~CheckFirmware /\ ~CheckConfig /\ ~CheckConfigUnset
  BY DEF OtaInit, CheckFirmware, CheckConfig, CheckConfigUnset, Check
<1>6. \A f \in File : /\ ~FotaNotice(f) /\ ~FotaNoticeFails(f)
                      /\ ~CotaNotice(f) /\ ~CotaNoticeFails(f)
  BY DEF FotaNotice, FotaNoticeFails, CotaNotice, CotaNoticeFails
<1> QED
  BY <1>1, <1>2, <1>3, <1>4, <1>5, <1>6 DEF Next, NextNotice, NextCall

(* What a step does while no download is in progress: one starts with its  *)
(* history cleared; or the handle comes or goes; or a check is made; or    *)
(* nothing happens to what the last download left but that a configuration *)
(* notice may reset the hashes.                                            *)
LEMMA IdleSteps ==
    ASSUME Next, state # "FETCHING"
    PROVE  \/ \E f \in File, kind \in {"COTA", "FOTA"} : Start(kind, f)
           \/ OtaInit \/ OtaDeinit \/ Faults
           \/ CheckFirmware \/ CheckConfig \/ CheckConfigUnset
           \/ /\ state' = state
              /\ UNCHANGED <<received, hashed0, count0, failed, verdict>>
<1>1. CASE NoticeRefused
  BY <1>1 DEF NoticeRefused, history
<1>2. CASE SetFetchCallback
  BY <1>2 DEF SetFetchCallback, history
<1>3. CASE ResetFetchedSize
  BY <1>3 DEF ResetFetchedSize
<1>4. CASE CallFails
  BY <1>4 DEF CallFails, history
<1>5. ~FetchYield /\ ~FetchFails
  BY DEF FetchYield, FetchFails
<1>6. ASSUME NEW f \in File, FotaNotice(f) \/ CotaNotice(f)
      PROVE  \E g \in File, kind \in {"COTA", "FOTA"} : Start(kind, g)
  BY <1>6 DEF FotaNotice, CotaNotice
<1>7. ASSUME NEW f \in File, FotaNoticeFails(f) \/ CotaNoticeFails(f)
      PROVE  /\ state' = state
             /\ UNCHANGED <<received, hashed0, count0, failed, verdict>>
  BY <1>7 DEF FotaNoticeFails, CotaNoticeFails, history
<1> QED
  BY <1>1, <1>2, <1>3, <1>4, <1>5, <1>6, <1>7 DEF Next, NextNotice, NextCall

LEMMA ShortNext ==
    ASSUME TypeOK, TypeOK', CountedAndHashed, CountedAndHashed', ShortOfTheSize,
           Next
    PROVE  ShortOfTheSize'
<1> SUFFICES ASSUME state' = "FETCHING", count0' = 0, ~reset'
             PROVE  received' = <<>> \/ Len(received') < size_file'
  BY DEF ShortOfTheSize
<1>1. CASE state = "FETCHING"
  <2>1. CASE FetchYield
    <3>1. size_fetched' = count0' + Len(received')
      BY DEF CountedAndHashed
    <3>2. size_fetched' \in Nat /\ size_file \in Nat /\ Len(received') \in Nat
      BY LenProperties DEF TypeOK
    <3>3. ~(size_fetched' >= size_file)
      BY <2>1 DEF FetchYield, FinishIf, Finish
    <3>4. size_file' = size_file
      BY <2>1 DEF FetchYield, Deliver
    <3> QED
      BY <3>1, <3>2, <3>3, <3>4
  <2>2. ~FetchFails /\ ~OtaDeinit /\ ~Faults
    BY DEF FetchFails, Finish, OtaDeinit, Faults
  <2>3. CASE /\ UNCHANGED <<size_file, received, count0>>
             /\ reset' \/ UNCHANGED reset
    BY <1>1, <2>3 DEF ShortOfTheSize
  <2> QED
    BY <1>1, <2>1, <2>2, <2>3, FetchingSteps
<1>2. CASE state # "FETCHING"
  <2>1. /\ ~OtaInit /\ ~OtaDeinit /\ ~Faults
        /\ ~CheckFirmware /\ ~CheckConfig /\ ~CheckConfigUnset
    BY <1>2 DEF OtaInit, OtaDeinit, Faults, CheckFirmware, CheckConfig,
                CheckConfigUnset, Check
  <2> QED
    BY <1>2, <2>1, IdleSteps DEF Start
<1> QED
  BY <1>1, <1>2

(* A download whose counter is its own and that does not fail ends with    *)
(* the chunk that reaches the announced size, and no other.                *)
THEOREM DownloadEndsAtTheSize == Spec => EndsAtTheSize
<1>1. Init => ShortOfTheSize
  BY DEF Init, ShortOfTheSize
<1>2. TypeOK /\ TypeOK' /\ CountedAndHashed /\ CountedAndHashed' /\ ShortOfTheSize
      /\ [Next]_vars => ShortOfTheSize'
  <2>1. UNCHANGED vars /\ ShortOfTheSize => ShortOfTheSize'
    BY DEF vars, history, ShortOfTheSize
  <2> QED
    BY <2>1, ShortNext
<1>3. TypeOK /\ TypeOK' /\ CountedAndHashed /\ ShortOfTheSize /\ [Next]_vars =>
        [state = "FETCHING" /\ count0 = 0 /\ ~reset =>
           /\ received = <<>> \/ Len(received) < size_file
           /\ state' = "FETCHED" /\ ~failed' => Len(received') >= size_file]_vars
  <2> SUFFICES ASSUME TypeOK, TypeOK', CountedAndHashed, ShortOfTheSize, Next,
                      state = "FETCHING", count0 = 0, ~reset
               PROVE  /\ received = <<>> \/ Len(received) < size_file
                      /\ state' = "FETCHED" /\ ~failed' => Len(received') >= size_file
    OBVIOUS
  <2>1. received = <<>> \/ Len(received) < size_file
    BY DEF ShortOfTheSize
  <2>2. ASSUME state' = "FETCHED", ~failed' PROVE Len(received') >= size_file
    <3>1. ~FetchFails /\ ~OtaDeinit /\ ~Faults
      BY <2>2 DEF FetchFails, OtaDeinit, Faults
    <3>2. FetchYield
      BY <2>2, <3>1, FetchingSteps
    <3>3. size_fetched' >= size_file
      BY <2>2, <3>2 DEF FetchYield, FinishIf
    <3>4. count0' = 0 /\ ~reset'
      BY <3>2 DEF FetchYield, Deliver
    <3>5. size_fetched' = 0 + Len(received')
      BY <3>2, <3>4, CountedChunk
    <3>6. Len(received') \in Nat
      BY LenProperties DEF TypeOK
    <3> QED
      BY <3>3, <3>5, <3>6
  <2> QED
    BY <2>1, <2>2
<1> QED
  BY <1>1, <1>2, <1>3, TypeCorrect, CountsAndHashesWhatIsGiven, PTL
  DEF Spec, EndsAtTheSize

-----------------------------------------------------------------------------
(* A chunk: the units go on where the last one ended. *)
LEMMA OrderChunk ==
    ASSUME TypeOK, DeliveredInOrder, FetchYield
    PROVE  /\ Len(received') = ch_fetch'.pos
           /\ \A i \in 1..Len(received') : received'[i] = Bad \/ received'[i][2] = i
           /\ received' # <<>>
           /\ verdict' = "NONE" /\ ~failed'
<1>1. PICK got \in Deliveries : Deliver(got) /\ hashed' = hashed \o got
  BY DEF FetchYield
<1>2. state = "FETCHING"
  BY DEF FetchYield
<1>3. /\ received \in Seq(Unit) /\ got \in Seq(Unit)
      /\ ch_fetch \in [file : File, pos : Nat, more : BOOLEAN]
      /\ \A i \in 1..Len(got) : got[i] = Bad \/ got[i][2] = ch_fetch.pos + i
      /\ ch_fetch.pos = 0 => Len(got) > 0
  BY <1>2, DeliveredUnits DEF FetchYield, TypeOK
<1>4. /\ received' = received \o got
      /\ ch_fetch' = [ch_fetch EXCEPT !.pos = @ + Len(got), !.more = IsMore]
      /\ verdict' = verdict /\ failed' = failed
  BY <1>1 DEF Deliver
<1>5. /\ Len(received) = ch_fetch.pos
      /\ \A i \in 1..Len(received) : received[i] = Bad \/ received[i][2] = i
      /\ verdict = "NONE" /\ ~failed
  BY <1>2 DEF DeliveredInOrder
<1>6. Len(received) \in Nat /\ Len(got) \in Nat
  BY <1>3, LenProperties
<1>7. Len(received') = Len(received) + Len(got)
  BY <1>3, <1>4, ConcatProperties
<1>8. Len(received') = ch_fetch'.pos
  BY <1>3, <1>4, <1>5, <1>7
<1>9. ASSUME NEW i \in 1..Len(received')
      PROVE  received'[i] = Bad \/ received'[i][2] = i
  <2>1. CASE i =< Len(received)
    <3>1. i \in 1..Len(received) /\ received'[i] = received[i]
      BY <1>3, <1>4, <1>6, <2>1, ConcatProperties
    <3> QED
      BY <1>5, <3>1
  <2>2. CASE ~(i =< Len(received))
    <3>1. i - Len(received) \in 1..Len(got)
      BY <1>6, <1>7, <2>2
    <3>2. received'[i] = got[i - Len(received)]
      BY <1>3, <1>4, <1>6, <1>7, <2>2, ConcatProperties
    <3>3. ch_fetch.pos + (i - Len(received)) = i
      BY <1>5, <1>6
    <3> QED
      BY <1>3, <3>1, <3>2, <3>3
  <2> QED
    BY <2>1, <2>2
<1>10. received' # <<>>
  <2>1. Len(received') # 0
    BY <1>3, <1>5, <1>6, <1>7
  <2> QED
    BY <2>1
<1> QED
  BY <1>4, <1>5, <1>8, <1>9, <1>10

LEMMA OrderNext ==
    ASSUME TypeOK, DeliveredInOrder, Next
    PROVE  DeliveredInOrder'
<1>0. Bad' = Bad
  BY DEF Bad
<1>1. CASE FetchYield
  BY <1>0, <1>1, OrderChunk DEF DeliveredInOrder
<1>2. CASE FetchFails
  <2>1. state' = "FETCHED" /\ failed' /\ received' = received
    BY <1>2 DEF FetchFails, Finish
  <2> QED
    BY <1>0, <2>1 DEF DeliveredInOrder
<1>3. CASE OtaInit \/ OtaDeinit \/ Faults
  <2>1. state' \in {"INITED", "UNINITED"} /\ received' = <<>>
    BY <1>3 DEF OtaInit, OtaDeinit, Faults, Cleared
  <2> QED
    BY <2>1 DEF DeliveredInOrder
<1>4. CASE state = "FETCHING" /\ state' = "FETCHING"
           /\ UNCHANGED <<ch_fetch, received, failed, verdict>>
  BY <1>0, <1>4 DEF DeliveredInOrder
<1>5. ASSUME NEW f \in File, NEW kind \in {"COTA", "FOTA"}, Start(kind, f)
      PROVE  DeliveredInOrder'
  <2>1. /\ state' = "FETCHING" /\ received' = <<>>
        /\ ch_fetch' = [file |-> f, pos |-> 0, more |-> FALSE]
        /\ verdict' = "NONE" /\ ~failed'
    BY <1>5 DEF Start
  <2>2. Len(received') = 0 /\ ch_fetch'.pos = 0
    BY <2>1
  <2> QED
    BY <2>1, <2>2 DEF DeliveredInOrder
<1>6. CASE state # "FETCHING" /\ state' = state /\ UNCHANGED <<received, failed>>
  BY <1>0, <1>6 DEF DeliveredInOrder
<1>7. CASE CheckFirmware \/ CheckConfig \/ CheckConfigUnset
  BY <1>6, <1>7 DEF CheckFirmware, CheckConfig, CheckConfigUnset, Check
<1> QED
  BY <1>1, <1>2, <1>3, <1>4, <1>5, <1>6, <1>7, FetchingSteps, IdleSteps

(* The argument: had the hashes held something before this download, its   *)
(* first unit would have to be a later unit of the file.                   *)
LEMMA CheckIsWhole ==
    ASSUME TypeOK, CountedAndHashed, DeliveredInOrder,
           NEW algo, NEW f \in File \cup {None}, Check(algo, f),
           verdict' \in File, ~failed
    PROVE  received = Content(verdict')
<1>1. state = "FETCHED" /\ hashed = Content(f) /\ verdict' = f /\ f \in File
  BY OtaAssumption DEF Check
<1>2. /\ received \in Seq(Unit) /\ hashed0 \in Seq(Unit) /\ hashed \in Seq(Unit)
      /\ Len(received) \in Nat /\ Len(hashed0) \in Nat
  BY LenProperties DEF TypeOK
<1>3. Length[f] \in Nat \ {0} /\ f # None
  BY <1>1, OtaAssumption
<1>4. Len(hashed) = Length[f] /\ \A k \in 1..Length[f] : hashed[k] = <<f, k>>
  BY <1>1, <1>3 DEF Content
<1>5. hashed = hashed0 \o received
  <2>1. hashed # <<>>
    BY <1>3, <1>4
  <2> QED
    BY <1>1, <2>1 DEF CountedAndHashed
<1>6. received # <<>> /\ Len(received) > 0
  <2>1. received # <<>>
    BY <1>1 DEF DeliveredInOrder
  <2> QED
    BY <1>2, <2>1, EmptySeq
<1>7. Len(hashed0) = 0
  <2> SUFFICES ASSUME Len(hashed0) # 0 PROVE FALSE
    OBVIOUS
  <2> DEFINE k == Len(hashed0) + 1
  <2>1. Len(hashed) = Len(hashed0) + Len(received)
    BY <1>2, <1>5, ConcatProperties
  <2>2. k \in 1..Length[f] /\ k > Len(hashed0) /\ k - Len(hashed0) = 1
    BY <1>2, <1>4, <1>6, <2>1
  <2>3. hashed[k] = received[1]
    BY <1>2, <1>4, <1>5, <2>1, <2>2, ConcatProperties
  <2>4. received[1] = <<f, k>> /\ k # 1
    BY <1>2, <1>4, <2>2, <2>3
  <2>5. received[1] = Bad \/ received[1][2] = 1
    BY <1>2, <1>6 DEF DeliveredInOrder
  <2> QED
    BY <1>3, <2>4, <2>5 DEF Bad
<1>8. hashed0 = <<>>
  BY <1>2, <1>7, EmptySeq
<1>9. hashed = received
  BY <1>2, <1>5, <1>8, ConcatEmptySeq
<1> QED
  BY <1>1, <1>9

LEMMA WholeNext ==
    ASSUME TypeOK, TypeOK', CountedAndHashed, DeliveredInOrder, DeliveredInOrder',
           ValidMeansWhole, Next
    PROVE  ValidMeansWhole'
<1>1. ASSUME verdict' = "NONE" PROVE ValidMeansWhole'
  BY <1>1, OtaAssumption DEF ValidMeansWhole
<1>2. CASE UNCHANGED <<received, failed, verdict>>
  BY <1>2 DEF ValidMeansWhole, Content
<1>3. CASE FetchYield
  BY <1>1, <1>3, OrderChunk
<1>4. CASE FetchFails
  BY <1>4 DEF FetchFails, ValidMeansWhole
<1>5. CASE OtaInit \/ OtaDeinit \/ Faults
  BY <1>1, <1>5 DEF OtaInit, OtaDeinit, Faults, Cleared
<1>6. CASE \E f \in File, kind \in {"COTA", "FOTA"} : Start(kind, f)
  BY <1>1, <1>6 DEF Start
<1>7. ASSUME NEW algo, NEW f \in File \cup {None}, Check(algo, f)
      PROVE  ValidMeansWhole'
  <2>1. received' = received /\ failed' = failed
    BY <1>7 DEF Check
  <2> QED
    BY <1>7, <2>1, CheckIsWhole DEF ValidMeansWhole, Content
<1>8. CASE CheckFirmware
  BY <1>7, <1>8 DEF CheckFirmware, TypeOK
<1>9. CASE CheckConfig
  BY <1>7, <1>9 DEF CheckConfig, TypeOK
<1>10. CASE CheckConfigUnset
  <2>1. /\ received' = received /\ failed' = failed
        /\ verdict' \in {"INVALID", verdict}
    BY <1>10 DEF CheckConfigUnset
  <2> QED
    BY <2>1, OtaAssumption DEF ValidMeansWhole, Content
<1> QED
  BY <1>2, <1>3, <1>4, <1>5, <1>6, <1>8, <1>9, <1>10, FetchingSteps, IdleSteps

LEMMA AlwaysInOrder == Spec => []DeliveredInOrder
<1>1. Init => DeliveredInOrder
  BY DEF Init, DeliveredInOrder
<1>2. TypeOK /\ DeliveredInOrder /\ [Next]_vars => DeliveredInOrder'
  <2>1. UNCHANGED vars /\ DeliveredInOrder => DeliveredInOrder'
    BY DEF vars, history, DeliveredInOrder, Bad
  <2> QED
    BY <2>1, OrderNext
<1> QED
  BY <1>1, <1>2, TypeCorrect, PTL DEF Spec

(* "Valid" is said only of a file that the application was given whole and *)
(* undamaged, in this download.                                            *)
THEOREM ValidIsWhole == Spec => []ValidMeansWhole
<1>1. Init => ValidMeansWhole
  BY OtaAssumption DEF Init, ValidMeansWhole
<1>2. TypeOK /\ TypeOK' /\ CountedAndHashed /\ DeliveredInOrder /\ DeliveredInOrder'
      /\ ValidMeansWhole /\ [Next]_vars => ValidMeansWhole'
  <2>1. UNCHANGED vars /\ ValidMeansWhole => ValidMeansWhole'
    BY DEF vars, history, ValidMeansWhole, Content
  <2> QED
    BY <2>1, WholeNext
<1> QED
  BY <1>1, <1>2, TypeCorrect, CountsAndHashesWhatIsGiven, AlwaysInOrder, PTL
  DEF Spec
=============================================================================
