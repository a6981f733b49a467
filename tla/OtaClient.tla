----------------------------- MODULE OtaClient -----------------------------
(***************************************************************************)
(* The OTA client of eng/ota: the handle of iotx_ota.c, its four-state     *)
(* life, the notices that start a download (ota_callback, registered by    *)
(* ota_mqtt.c), the chunk-wise download (IOT_OTA_FetchYield over           *)
(* ota_fetch.c and the HTTP client) and the checks of IOT_OTA_Ioctl.       *)
(*                                                                         *)
(* Notices arrive only while the application yields to the MQTT client, so *)
(* each function of the interface is one action.  The hard part is what    *)
(* survives from one download to the next: the counters, the hash contexts *)
(* and the parsed parameters belong to the handle, not to a download.      *)
(***************************************************************************)
EXTENDS Integers, Sequences

CONSTANTS
    File,       \* the files the server can offer, firmware or configuration
    Size,       \* [File -> Nat]: the size a notice announces, in units
    Length,     \* [File -> Nat]: the Content-Length the web server sends
    BufLen,     \* units a caller of IOT_OTA_FetchYield() has room for
    MaxNotices, \* bound: notices considered
    Scarce,     \* bound: the hash contexts there may be no memory for
    None

ASSUME OtaAssumption ==
    /\ Size \in [File -> Nat]
    /\ Length \in [File -> Nat \ {0}]
    /\ BufLen \in Nat \ {0}
    /\ MaxNotices \in Nat
    /\ Scarce \subseteq {"md5", "sha256"}
    /\ None \notin File \cup [file : File, pos : Nat, more : BOOLEAN]
    /\ {"NONE", "INVALID"} \cap File = {}

VARIABLES
    state,          \* IOT_OTA_State_t; UNINITED while there is no handle
    type,           \* IOT_OTA_Type_t
    size_file, size_fetched,
    purl, md5sum,   \* the file of the last firmware notice, per field
    cota_url, sign, \* the file of the last configuration notice, per field
    ch_fetch,       \* None, or the file, how much of it was retrieved, and
                    \* is_more: the connection is kept for another call
    hashed,         \* what md5 and sha256 were both updated with
    finished,       \* the hash contexts finalised since they were set up:
                    \* the padding is now part of what they hash
    missing,        \* those that could not be allocated and are NULL
    err,            \* the last error code
    fetch_cb, fetch_cota_cb,    \* the callback is set
    notices,        \* notices so far
    received,       \* the units this download gave to the application
    hashed0, count0,\* hashed and size_fetched when this download started
    reset,          \* the application reset size_fetched during it
    failed,         \* it ended with an error
    verdict         \* the last check: "NONE", "INVALID" or the file it saw

params == <<purl, md5sum, cota_url, sign>>
hashes == <<hashed, finished, missing>>
callbacks == <<fetch_cb, fetch_cota_cb>>
history == <<received, hashed0, count0, reset, failed, verdict>>
vars == <<state, type, size_file, size_fetched, params, ch_fetch, hashes,
          err, callbacks, notices, history>>

Contexts == {"md5", "sha256"}
Bad == <<None, 0>>              \* a unit that was damaged on its way
Unit == (File \X (Nat \ {0})) \cup {Bad}
Content(f) == [k \in 1..Length[f] |-> <<f, k>>]

TypeOK ==
    /\ state \in {"UNINITED", "INITED", "FETCHING", "FETCHED"}
    /\ type \in {"NONE", "COTA", "FOTA"}
    /\ size_file \in Nat /\ size_fetched \in Nat
    /\ purl \in File \cup {None} /\ md5sum \in File \cup {None}
    /\ cota_url \in File \cup {None} /\ sign \in File \cup {None}
    /\ ch_fetch \in [file : File, pos : Nat, more : BOOLEAN] \cup {None}
    /\ hashed \in Seq(Unit)
    /\ finished \subseteq Contexts /\ missing \subseteq Scarce
    /\ err \in {"NONE", "GENERAL", "INVALID_STATE", "FETCH_FAILED"}
    /\ fetch_cb \in BOOLEAN /\ fetch_cota_cb \in BOOLEAN
    /\ notices \in 0..MaxNotices
    /\ received \in Seq(Unit) /\ hashed0 \in Seq(Unit) /\ count0 \in Nat
    /\ reset \in BOOLEAN /\ failed \in BOOLEAN
    /\ verdict \in {"NONE", "INVALID"} \cup File
    /\ state = "FETCHING" <=> type # "NONE"
    /\ state = "FETCHING" => /\ ch_fetch # None
                             /\ ch_fetch.pos =< Length[ch_fetch.file]

-----------------------------------------------------------------------------
Init ==
    /\ state = "UNINITED" /\ type = "NONE"
    /\ size_file = 0 /\ size_fetched = 0
    /\ purl = None /\ md5sum = None /\ cota_url = None /\ sign = None
    /\ ch_fetch = None
    /\ hashed = <<>> /\ finished = {} /\ missing = {}
    /\ err = "NONE"
    /\ fetch_cb = FALSE /\ fetch_cota_cb = FALSE
    /\ notices = 0
    /\ received = <<>> /\ hashed0 = <<>> /\ count0 = 0
    /\ reset = FALSE /\ failed = FALSE /\ verdict = "NONE"

(* A struct that was just cleared, or just freed. *)
Cleared ==
    /\ type' = "NONE"
    /\ size_file' = 0 /\ size_fetched' = 0
    /\ purl' = None /\ md5sum' = None /\ cota_url' = None /\ sign' = None
    /\ ch_fetch' = None
    /\ hashed' = <<>> /\ finished' = {} /\ missing' = {}
    /\ err' = "NONE"
    /\ fetch_cb' = FALSE /\ fetch_cota_cb' = FALSE
    /\ received' = <<>> /\ hashed0' = <<>> /\ count0' = 0
    /\ reset' = FALSE /\ failed' = FALSE /\ verdict' = "NONE"

(* IOT_OTA_Init(): one handle at a time.  Without memory, or when a        *)
(* subscription fails, the handle is freed again.                          *)
OtaInit ==
    /\ state = "UNINITED"
    /\ state' \in {"INITED", "UNINITED"}
    /\ Cleared
    /\ UNCHANGED notices

OtaDeinit ==
    /\ state # "UNINITED"
    /\ state' = "UNINITED"
    /\ Cleared
    /\ UNCHANGED notices

(* iotx_ota_set_fetch_callback(), iotx_ota_set_cota_fetch_callback(). *)
SetFetchCallback ==
    /\ state # "UNINITED"
    /\ \/ fetch_cb' = TRUE /\ UNCHANGED fetch_cota_cb
       \/ fetch_cota_cb' = TRUE /\ UNCHANGED fetch_cb
    /\ UNCHANGED <<state, type, size_file, size_fetched, params, ch_fetch,
                   hashes, err, notices, history>>

-----------------------------------------------------------------------------
(* ota_callback() of a live handle. *)
Notice ==
    /\ state # "UNINITED"
    /\ notices < MaxNotices
    /\ notices' = notices + 1

(* A notice during a download, or one that fails before its parameters are *)
(* taken, changes nothing.                                                 *)
NoticeRefused ==
    /\ Notice
    /\ UNCHANGED <<state, type, size_file, size_fetched, params, ch_fetch,
                   hashes, err, callbacks, history>>

(* A download of file f starts with whatever the handle holds. *)
Start(kind, f) ==
    /\ ch_fetch' = [file |-> f, pos |-> 0, more |-> FALSE]
    /\ type' = kind
    /\ state' = "FETCHING"
    /\ received' = <<>> /\ hashed0' = hashed' /\ count0' = size_fetched'
    /\ reset' = FALSE /\ failed' = FALSE /\ verdict' = "NONE"
    /\ UNCHANGED <<err, fetch_cb, fetch_cota_cb>>

(* Seeded fault: the busy check of ota_callback() is missing. *)
FotaNoticeWhenBusy(f) ==
    /\ Notice
    /\ purl' = f /\ md5sum' = f /\ size_file' = Size[f]
    /\ UNCHANGED <<size_fetched, hashes, cota_url, sign>>
    /\ Start("FOTA", f)

(* A firmware notice: the counter and the hashes go on from where the last *)
(* download left them.                                                     *)
FotaNotice(f) ==
    /\ Notice
    /\ state # "FETCHING"
    /\ purl' = f /\ md5sum' = f /\ size_file' = Size[f]
    /\ UNCHANGED <<size_fetched, hashes, cota_url, sign>>
    /\ Start("FOTA", f)

(* The fields are taken one by one (version, url, md5, size) and stay      *)
(* taken when a later one is missing; without memory the url is lost;      *)
(* without a fetch channel the old one is gone.                            *)
FotaNoticeFails(f) ==
    /\ Notice
    /\ state # "FETCHING"
    /\ \/ purl' \in {f, None} /\ UNCHANGED <<md5sum, size_file, ch_fetch>>
       \/ purl' = f /\ md5sum' = f /\ UNCHANGED <<size_file, ch_fetch>>
       \/ purl' = f /\ md5sum' = f /\ size_file' = Size[f] /\ ch_fetch' = None
    /\ UNCHANGED <<state, type, size_fetched, cota_url, sign, hashes, err,
                   callbacks, history>>

(* Both hashes are set up anew; nobody looks whether there was memory. *)
NewHashes ==
    /\ hashed' = <<>> /\ finished' = {}
    /\ missing' \in SUBSET Scarce

(* A configuration, asked for or pushed: counter and hashes start afresh. *)
CotaNotice(f) ==
    /\ Notice
    /\ state # "FETCHING"
    /\ cota_url' = f /\ sign' = f
    /\ size_file' = Size[f] /\ size_fetched' = 0
    /\ NewHashes
    /\ UNCHANGED <<purl, md5sum>>
    /\ Start("COTA", f)

(* The sign comes before the url.  Without a fetch channel the counter and *)
(* the hashes are already reset, also those of a download not yet checked. *)
CotaNoticeFails(f) ==
    /\ Notice
    /\ state # "FETCHING"
    /\ \/ /\ sign' \in {f, None}
          /\ cota_url' \in {cota_url} \cup (IF sign' = f THEN {f, None} ELSE {})
          /\ UNCHANGED <<size_file, size_fetched, hashes, ch_fetch>>
       \/ /\ sign' = f /\ cota_url' = f
          /\ size_file' = Size[f] /\ size_fetched' = 0
          /\ NewHashes
          /\ ch_fetch' = None
    /\ UNCHANGED <<state, type, purl, md5sum, err, callbacks, history>>

-----------------------------------------------------------------------------
(* The end of a download: of the callbacks whose url is still set the      *)
(* first is told to stop, and that url is forgotten.                       *)
TellStop ==
    LET fota == fetch_cb /\ purl # None
        cota == ~fota /\ fetch_cota_cb /\ cota_url # None
    IN  /\ purl' = IF fota THEN None ELSE purl
        /\ cota_url' = IF cota THEN None ELSE cota_url

(* Seeded fault: the type outlives the download. *)
FinishKeepsType == state' = "FETCHED" /\ type' = type /\ TellStop

Finish == state' = "FETCHED" /\ type' = "NONE" /\ TellStop

FinishIf(done) ==
    IF done THEN Finish ELSE UNCHANGED <<state, type, purl, cota_url>>

(* Seeded fault: a failed download starts over, with fresh hashes. *)
FetchRestarts ==
    /\ state = "FETCHING"
    /\ ch_fetch' = [ch_fetch EXCEPT !.pos = 0]
    /\ hashed' = <<>> /\ size_fetched' = 0
    /\ UNCHANGED <<state, type, size_file, params, finished, missing, err,
                   callbacks, notices, history>>

(* IOT_OTA_FetchYield() when the HTTP client reports an error. *)
FetchFails ==
    /\ state = "FETCHING"
    /\ Finish
    /\ err' = "FETCH_FAILED"
    /\ size_fetched' = 0
    /\ failed' = TRUE
    /\ UNCHANGED <<size_file, md5sum, sign, ch_fetch, hashes, fetch_cb,
                   fetch_cota_cb, notices, received, hashed0, count0, reset,
                   verdict>>

Left == Length[ch_fetch.file] - ch_fetch.pos    \* retrieve_len

(* ofc_Fetch(): the units that are new since the last call.  When the      *)
(* buffer is full the client expects more, even if that was the last unit, *)
(* and the next call gets nothing and closes the connection.  A call after *)
(* that requests the file again and compares its place in the new reply    *)
(* with the end of the old.                                                *)
Fetched ==
    LET Least(a, b) == IF a < b THEN a ELSE b
    IN  IF Left > 0 THEN Least(BufLen, Left)
        ELSE IF ch_fetch.more THEN 0
        ELSE Least(BufLen, ch_fetch.pos) - ch_fetch.pos

(* is_more after a call. *)
IsMore == IF Left > 0 THEN Left >= BufLen
                      ELSE ~ch_fetch.more /\ ch_fetch.pos >= BufLen

(* What a call can deliver: the next units, or those with a damaged one. *)
Deliveries ==
    LET good == [i \in 1..Fetched |-> <<ch_fetch.file, ch_fetch.pos + i>>]
    IN  {good} \cup {[good EXCEPT ![i] = Bad] : i \in DOMAIN good}

(* The chunk got is handed over and counted.  The report of progress that  *)
(* goes with a first chunk may fail.                                       *)
Deliver(got) ==
    /\ ch_fetch' = [ch_fetch EXCEPT !.pos = @ + Len(got), !.more = IsMore]
    /\ received' = received \o got
    /\ size_fetched' = size_fetched + Len(got)
    /\ err' \in {err} \cup (IF size_fetched = 0 THEN {"GENERAL"} ELSE {})
    /\ UNCHANGED <<size_file, md5sum, sign, finished, missing, fetch_cb,
                   fetch_cota_cb, notices, hashed0, count0, reset, failed,
                   verdict>>

(* Seeded faults: the chunk that ends the download is not hashed; the      *)
(* download ends only beyond the announced size.                           *)
FetchYieldSkipsLast ==
    /\ state = "FETCHING" /\ Fetched >= 0
    /\ \E got \in Deliveries :
          /\ Deliver(got)
          /\ hashed' = IF size_fetched' >= size_file THEN hashed
                                                    ELSE hashed \o got
    /\ FinishIf(size_fetched' >= size_file)
FetchYieldLate ==
    /\ state = "FETCHING" /\ Fetched >= 0
    /\ \E got \in Deliveries : Deliver(got) /\ hashed' = hashed \o got
    /\ FinishIf(size_fetched' > size_file)

(* IOT_OTA_FetchYield() when it gets data, or nothing new. *)
FetchYield ==
    /\ state = "FETCHING" /\ Fetched >= 0
    /\ \E got \in Deliveries : Deliver(got) /\ hashed' = hashed \o got
    /\ FinishIf(size_fetched' >= size_file)

-----------------------------------------------------------------------------
(* A NULL hash context is written through when data is hashed, and a NULL  *)
(* sign or signMethod is read by a check: the processor may stop, and is   *)
(* then reset, or go on with whatever memory there is at address 0.        *)
Faults ==
    /\ \/ state = "FETCHING" /\ missing # {} /\ Fetched # 0
       \/ state = "FETCHED" /\ (missing # {} \/ sign = None)
    /\ state' = "UNINITED"
    /\ Cleared
    /\ UNCHANGED notices

(* IOT_OTA_Ioctl().  The hash named algo, compared with that of file f;    *)
(* finalising pads the context it reads.                                   *)
Check(algo, f) ==
    /\ state = "FETCHED"
    /\ verdict' = IF /\ f # None /\ hashed = Content(f)
                     /\ algo \notin finished \cup missing
                  THEN f ELSE "INVALID"
    /\ finished' = finished \cup {algo}
    /\ UNCHANGED <<state, type, size_file, size_fetched, params, ch_fetch,
                   hashed, missing, callbacks, notices, received, hashed0,
                   count0, reset, failed>>

(* A bad verdict is reported, which may fail. *)
CheckFirmware ==
    /\ Check("md5", md5sum)
    /\ err' \in {err} \cup (IF verdict' = "INVALID" THEN {"GENERAL"} ELSE {})

(* The server chose the hash; with any other name there is no answer. *)
CheckConfig ==
    /\ sign # None
    /\ \E algo \in Contexts : Check(algo, sign)
    /\ UNCHANGED err

(* Without a sign, or its method, and without a fault: an empty string at  *)
(* address 0 passes for the name of either hash, any other for none.       *)
CheckConfigUnset ==
    /\ state = "FETCHED" /\ sign = None
    /\ \/ verdict' = "INVALID" /\ finished' = Contexts
       \/ UNCHANGED <<verdict, finished>>
    /\ UNCHANGED <<state, type, size_file, size_fetched, params, ch_fetch,
                   hashed, missing, err, callbacks, notices, received,
                   hashed0, count0, reset, failed>>

ResetFetchedSize ==
    /\ state \in {"FETCHING", "FETCHED"}
    /\ size_fetched' = 0
    /\ reset' = TRUE
    /\ UNCHANGED <<state, type, size_file, params, ch_fetch, hashes, err,
                   callbacks, notices, received, hashed0, count0, failed,
                   verdict>>

(* A call in the wrong state (a fetch outside of a download, a check or a  *)
(* query before its end, a request during it) and a message to the server  *)
(* that cannot be sent leave only their error code.                        *)
CallFails ==
    /\ state # "UNINITED"
    /\ err' \in {"INVALID_STATE", "GENERAL"}
    /\ UNCHANGED <<state, type, size_file, size_fetched, params, ch_fetch,
                   hashes, callbacks, notices, history>>

NextNotice ==
    \/ NoticeRefused
    \/ \E f \in File : \/ FotaNotice(f) \/ FotaNoticeFails(f)
                        \/ CotaNotice(f) \/ CotaNoticeFails(f)
NextCall ==
    \/ OtaInit \/ OtaDeinit \/ SetFetchCallback
    \/ CheckFirmware \/ CheckConfig \/ CheckConfigUnset
    \/ ResetFetchedSize \/ CallFails

Next == NextNotice \/ FetchYield \/ FetchFails \/ NextCall \/ Faults

Spec == Init /\ [][Next]_vars
-----------------------------------------------------------------------------
(* While a download runs no notice redirects it or changes what it is      *)
(* measured against: the handle has one set of parameters, and a notice    *)
(* may come between any two chunks (ota_callback).                         *)
BusyIsFrozen ==
    [][state = "FETCHING" /\ state' = "FETCHING" =>
          /\ UNCHANGED <<type, size_file, purl, md5sum, cota_url, sign>>
          /\ ch_fetch'.file = ch_fetch.file
          /\ ch_fetch.pos =< ch_fetch'.pos]_vars

(* What is counted and hashed is what the application was given, each unit *)
(* once and in order, on top of what the handle held when the download     *)
(* started (IOT_OTA_FetchYield); after the download the hashes are either  *)
(* still that or were reset by a configuration notice.                     *)
CountedAndHashed ==
    /\ state = "FETCHING" =>
          /\ hashed = hashed0 \o received
          /\ ~reset => size_fetched = count0 + Len(received)
    /\ state = "FETCHED" => hashed \in {hashed0 \o received, <<>>}

(* A download that started with a counter at 0, was not reset and does not *)
(* fail ends with the chunk that reaches the announced size, not before    *)
(* and not later (IOT_OTA_FetchYield).                                     *)
EndsAtTheSize ==
    [][state = "FETCHING" /\ count0 = 0 /\ ~reset =>
          /\ received = <<>> \/ Len(received) < size_file
          /\ state' = "FETCHED" /\ ~failed' => Len(received') >= size_file]_vars

(* A check says "valid" only if what this download gave to the application *)
(* is the announced file, whole and undamaged, whatever notices, resets,   *)
(* failures and checks came before it (IOT_OTA_Ioctl).  A download that    *)
(* failed is excluded: its check may answer for an earlier one.            *)
ValidMeansWhole ==
    verdict \in File /\ ~failed => received = Content(verdict)

(* The web server has no more data than was counted so far, so that every  *)
(* further call gets nothing (ofc_Fetch).                                  *)
Starved ==
    /\ state = "FETCHING"
    /\ ch_fetch.pos = Length[ch_fetch.file]
    /\ size_fetched < size_file

(* ota_api.h calls IOT_OTAS_FETCHED "Fetching firmware finish": a download *)
(* that ends without an error has delivered the announced size.            *)
FetchedIsFinished ==
    [][state = "FETCHING" /\ state' = "FETCHED" /\ ~failed' /\ ~reset
       => Len(received') >= size_file]_vars
=============================================================================
