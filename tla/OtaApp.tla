------------------------------- MODULE OtaApp -------------------------------
(***************************************************************************)
(* The firmware's upgrade program, _ota_mqtt_client() of                   *)
(* ota_example_mqtt.c, over the OTA client (OtaClient) and the             *)
(* subscriptions of ota_mqtt.c that bring it the notices.                  *)
(*                                                                         *)
(* OtaClient lets its functions be called in any order.  Here they are     *)
(* called as the program does: notices arrive in the two yields only, one  *)
(* before a download and one after every chunk, also after the last.  The  *)
(* program adds what only it knows: what it wrote to the file, and what it *)
(* says of it.  Whether a yield or a fetch returns is not its own doing:   *)
(* both look at a clock, which the stub of wrapper.c never moves.          *)
(***************************************************************************)
EXTENDS OtaClient, SequencesExt

VARIABLES
    pc,         \* where the program is
    linked,     \* the topics that have a handler, all with one context
    osc,        \* that context, the handle of ota_mqtt.c
    chunk,      \* the last chunk fetched; None for an error, whose value -1
                \* is a length of four gigabytes to the program
    written,    \* the units written to the file
    rc,         \* what the program will return
    said        \* what it said of the firmware: the file it took it for,
                \* "INVALID", or "GARBAGE": valid, from an unset variable

session == <<linked, osc>>
app == <<pc, session, chunk, written, rc, said>>
appVars == <<vars, app>>

Topics == 4     \* request, upgrade, config get_reply, config push

AppTypeOK ==
    /\ pc \in {"construct", "init", "wait", "fetch", "write", "report",
               "between", "check", "deinit", "destroy", "done", "fault"}
    /\ linked \in 0..Topics
    /\ osc \in {"NONE", "LIVE", "FREED"}
    /\ chunk = None \/ chunk \in Seq(Unit)
    /\ written \in Seq(Unit)
    /\ rc \in {0, -1}
    /\ said \in {"NONE", "INVALID", "GARBAGE"} \cup File
    /\ pc \in {"wait", "between"} => linked = Topics
    /\ pc = "fetch" => state = "FETCHING"
    /\ pc = "check" /\ rc = 0 => state = "FETCHED"

AppInit ==
    /\ Init
    /\ pc = "construct"
    /\ linked = 0 /\ osc = "NONE"
    /\ chunk = <<>> /\ written = <<>>
    /\ rc = 0 /\ said = "NONE"

-----------------------------------------------------------------------------
(* The buffers, the authentication and IOT_MQTT_Construct(). *)
Construct ==
    /\ pc = "construct"
    /\ \/ pc' = "init" /\ UNCHANGED rc
       \/ pc' = "done" /\ rc' = -1
    /\ UNCHANGED <<vars, session, chunk, written, said>>

(* Seeded fault: the failure of IOT_OTA_Init() is not looked at. *)
InitOtaUnchecked ==
    /\ pc = "init"
    /\ OtaInit
    /\ linked' = Topics
    /\ osc' = IF state' = "INITED" THEN "LIVE" ELSE "FREED"
    /\ pc' = "wait"
    /\ UNCHANGED <<chunk, written, rc, said>>

(* IOT_OTA_Init() over osc_Init(), which subscribes the topics one by one. *)
(* When it fails its context is freed; the handlers it has registered so   *)
(* far, even that of the topic that failed, stay with the MQTT client.     *)
InitOta ==
    /\ pc = "init"
    /\ OtaInit
    /\ \/ /\ state' = "INITED"
          /\ linked' = Topics /\ osc' = "LIVE"
          /\ pc' = "wait"
          /\ UNCHANGED rc
       \/ /\ state' = "UNINITED"
          /\ linked' \in 0..Topics /\ osc' = "FREED"
          /\ pc' = "destroy"
          /\ rc' = -1
    /\ UNCHANGED <<chunk, written, said>>

(* otamqtt_UpgrageCb() while the program yields. *)
Arrives ==
    /\ pc \in {"wait", "between"}
    /\ linked = Topics /\ osc = "LIVE"
    /\ NextNotice
    /\ UNCHANGED app

(* IOT_MQTT_Yield(200) of the outer loop returns. *)
WaitReturns ==
    /\ pc = "wait"
    /\ pc' = IF state = "FETCHING" THEN "fetch" ELSE "wait"
    /\ UNCHANGED <<vars, session, chunk, written, rc, said>>

-----------------------------------------------------------------------------
Fetch ==
    /\ pc = "fetch"
    /\ \/ /\ FetchYield
          /\ chunk' = SubSeq(received', Len(received) + 1, Len(received'))
          /\ pc' = IF chunk' = <<>> THEN "report" ELSE "write"
       \/ FetchFails /\ chunk' = None /\ pc' = "write"
    /\ UNCHANGED <<session, written, rc, said>>

WriteChunk ==
    /\ pc = "write"
    /\ chunk # None
    /\ written' = written \o chunk
    /\ pc' = "report"
    /\ UNCHANGED <<vars, session, chunk, rc, said>>

(* Seeded fault: a failed write does not end the download. *)
WriteGoesOn ==
    /\ pc = "write"
    /\ pc' = "report"
    /\ UNCHANGED <<vars, session, chunk, written, rc, said>>

(* The download is left as it is, finished or not.  What a failed write    *)
(* put into the file is left open: the program returns an error.           *)
WriteFails ==
    /\ pc = "write"
    /\ rc' = -1
    /\ pc' = "check"
    /\ UNCHANGED <<vars, session, chunk, written, said>>

(* fp is never opened, and an error reads far beyond the chunk's buffer. *)
WriteFaults ==
    /\ pc = "write"
    /\ pc' = "fault"
    /\ UNCHANGED <<vars, session, chunk, written, rc, said>>

(* A fetch or the check, through a NULL hash context. *)
CallFaults ==
    /\ pc = "fetch" \/ (pc = "check" /\ "md5" \in missing)
    /\ missing # {}
    /\ Faults
    /\ pc' = "fault"
    /\ UNCHANGED <<session, chunk, written, rc, said>>

(* The progress reports, which may fail, between the queries. *)
Report ==
    /\ pc = "report"
    /\ err' \in {err, "GENERAL"}
    /\ pc' = "between"
    /\ UNCHANGED <<state, type, size_file, size_fetched, params, ch_fetch,
                   hashes, callbacks, notices, history, session, chunk,
                   written, rc, said>>

(* Seeded faults: the loop runs once; it ends when the sizes agree. *)
BetweenLeavesAlways ==
    /\ pc = "between"
    /\ pc' = "check"
    /\ UNCHANGED <<vars, session, chunk, written, rc, said>>
BetweenComparesSizes ==
    /\ pc = "between"
    /\ pc' = IF size_fetched = size_file THEN "check" ELSE "fetch"
    /\ UNCHANGED <<vars, session, chunk, written, rc, said>>

(* IOT_MQTT_Yield(100) returns: was a notice during it the start of a new  *)
(* download, the loop goes on with that one.                               *)
BetweenReturns ==
    /\ pc = "between"
    /\ pc' = IF state = "FETCHED" THEN "check" ELSE "fetch"
    /\ UNCHANGED <<vars, session, chunk, written, rc, said>>

-----------------------------------------------------------------------------
(* The firmware is checked, whatever was downloaded.  During a download    *)
(* the check is refused and the program looks at a variable never set.     *)
CheckWritten ==
    /\ pc = "check"
    /\ \/ CheckFirmware /\ said' = verdict'
       \/ /\ state # "FETCHED"
          /\ err' = "INVALID_STATE"
          /\ said' \in {"INVALID", "GARBAGE"}
          /\ UNCHANGED <<state, type, size_file, size_fetched, params,
                         ch_fetch, hashes, callbacks, notices, history>>
    /\ pc' = "deinit"
    /\ UNCHANGED <<session, chunk, written, rc>>

(* IOT_OTA_Deinit(): the context of the handlers goes first ... *)
Deinit ==
    /\ pc = "deinit"
    /\ OtaDeinit
    /\ osc' = "FREED"
    /\ pc' = "destroy"
    /\ UNCHANGED <<linked, chunk, written, rc, said>>

(* ... IOT_MQTT_Destroy() then frees the handlers. *)
Destroy ==
    /\ pc = "destroy"
    /\ linked' = 0
    /\ pc' = "done"
    /\ UNCHANGED <<vars, osc, chunk, written, rc, said>>

(* What the program does between its calls that wait. *)
Runs ==
    \/ Construct \/ InitOta
    \/ WriteChunk \/ WriteFails \/ WriteFaults \/ Report
    \/ CheckWritten \/ Deinit \/ Destroy

(* The three calls that wait, for a clock and for the network. *)
Returns == WaitReturns \/ Fetch \/ CallFaults \/ BetweenReturns

AppStep == Runs \/ Returns

AppNext == Arrives \/ AppStep

(* The task runs.  Nothing makes a call return that waits. *)
AppSpec == AppInit /\ [][AppNext]_appVars /\ WF_appVars(Runs)
-----------------------------------------------------------------------------
(* The MQTT client calls a handler only with a context that is still       *)
(* allocated: osc_Init() that fails half way, and osc_Deinit(), free the   *)
(* context of handlers that stay registered, so the program must not yield *)
(* between that and IOT_MQTT_Destroy().                                    *)
LiveContexts == pc \in {"wait", "between"} /\ linked > 0 => osc = "LIVE"

(* When the program calls the firmware valid and returns success, the file *)
(* ends with the announced firmware, whole and undamaged, although the     *)
(* file, the hashes and the counter of the handle are each reset by        *)
(* something else, or never, and a notice after the last chunk starts      *)
(* another download before the check.                                      *)
ValidMeansWritten ==
    said \notin {"NONE", "INVALID"} /\ rc = 0 =>
        said \in File /\ IsSuffix(Content(said), written)

(* A firmware that arrived whole and undamaged by a first and only notice  *)
(* is called valid: nothing is hashed twice, left out or padded early.     *)
WholeIsValid ==
    [][pc = "check" /\ rc = 0 /\ notices = 1 /\ md5sum # None
       /\ written = Content(md5sum) => said' = md5sum]_appVars

(* What the program needs of the platform: its yields and its fetches      *)
(* return, as they do with a clock that runs.                              *)
CallsReturn ==
    /\ WF_appVars(WaitReturns)
    /\ WF_appVars(Fetch)
    /\ WF_appVars(BetweenReturns)

(* If the calls that wait return, a download that starts is in the end     *)
(* judged, unless the web server has less data than was announced: then    *)
(* the loop of the program goes on for ever without a chunk.               *)
VerdictReached ==
    CallsReturn =>
        (state = "FETCHING" ~> said # "NONE" \/ pc = "fault" \/ Starved)
=============================================================================
