--------------------------- MODULE OtaApp_proofs ---------------------------
(***************************************************************************)
(* Theorems about the upgrade program: that it uses the OTA client as the  *)
(* client allows, so that what holds of the client holds here, and what    *)
(* the program itself says of the file it wrote.                           *)
(***************************************************************************)
EXTENDS OtaApp, OtaClient_proofs

(* From the construction of the handle to its end the program holds one    *)
(* that is live, and so is the context of all its handlers.                *)
HandleIsLive ==
    pc \in {"wait", "fetch", "write", "report", "between", "check", "deinit"} =>
        state # "UNINITED" /\ linked = Topics /\ osc = "LIVE"

(* A step of the program is a step of the OTA client, or none of it. *)
LEMMA AppStepIsClientStep ==
    ASSUME HandleIsLive, [AppNext]_appVars
    PROVE  [Next]_vars
<1>1. CASE Arrives
  BY <1>1 DEF Arrives, Next
<1>2. CASE InitOta
  BY <1>2 DEF InitOta, Next, NextCall
<1>3. CASE Fetch
  BY <1>3 DEF Fetch, Next
<1>4. CASE Report
  <2>1. state # "UNINITED"
    BY <1>4 DEF Report, HandleIsLive
  <2>2. err' = "GENERAL" => CallFails
    BY <1>4, <2>1 DEF Report, CallFails
  <2>3. err' # "GENERAL" => UNCHANGED vars
    BY <1>4 DEF Report, vars, params, hashes, callbacks, history
  <2> QED
    BY <2>2, <2>3 DEF Next, NextCall
<1>5. CASE CheckWritten
  <2>1. state # "UNINITED"
    BY <1>5 DEF CheckWritten, HandleIsLive
  <2>2. CASE CheckFirmware
    BY <2>2 DEF Next, NextCall
  <2>3. CASE /\ err' = "INVALID_STATE"
             /\ UNCHANGED <<state, type, size_file, size_fetched, params,
                            ch_fetch, hashes, callbacks, notices, history>>
    BY <2>1, <2>3 DEF CallFails, Next, NextCall
  <2> QED
    BY <1>5, <2>2, <2>3 DEF CheckWritten
<1>6. CASE Deinit \/ CallFaults
  BY <1>6 DEF Deinit, CallFaults, Next, NextCall
<1>7. CASE Construct \/ WaitReturns \/ WriteChunk \/ WriteFails \/ WriteFaults
           \/ BetweenReturns \/ Destroy \/ UNCHANGED appVars
  BY <1>7 DEF Construct, WaitReturns, WriteChunk, WriteFails, WriteFaults,
              BetweenReturns, Destroy, appVars
<1> QED
  BY <1>1, <1>2, <1>3, <1>4, <1>5, <1>6, <1>7 DEF AppNext, AppStep, Runs, Returns

(* What a notice does: it is refused during a download; outside of one it  *)
(* starts one, or leaves what the last one delivered.                      *)
LEMMA NoticeSteps ==
    ASSUME NextNotice
    PROVE  /\ state # "UNINITED" /\ notices' = notices + 1
           /\ \/ /\ state' = state
                 /\ UNCHANGED <<received, failed>>
                 /\ state = "FETCHING" =>
                       UNCHANGED <<hashed, finished, missing, hashed0, md5sum>>
              \/ /\ state # "FETCHING" /\ state' = "FETCHING"
                 /\ received' = <<>> /\ ~failed'
                 /\ hashed0' = hashed'
                 /\ hashed' \in {hashed, <<>>} /\ finished' \in {finished, {}}
                 /\ missing' = missing \/ md5sum' = md5sum
<1>1. CASE NoticeRefused
  BY <1>1 DEF NoticeRefused, Notice, hashes, history, params
<1>2. ASSUME NEW f \in File, FotaNotice(f)
      PROVE  /\ state # "UNINITED" /\ notices' = notices + 1
             /\ state # "FETCHING" /\ state' = "FETCHING"
             /\ received' = <<>> /\ ~failed'
             /\ hashed0' = hashed' /\ hashed' = hashed /\ finished' = finished
             /\ missing' = missing
  BY <1>2 DEF FotaNotice, Notice, Start, hashes
<1>3. ASSUME NEW f \in File, CotaNotice(f)
      PROVE  /\ state # "UNINITED" /\ notices' = notices + 1
             /\ state # "FETCHING" /\ state' = "FETCHING"
             /\ received' = <<>> /\ ~failed'
             /\ hashed0' = hashed' /\ hashed' = <<>> /\ finished' = {}
             /\ md5sum' = md5sum
  BY <1>3 DEF CotaNotice, NewHashes, Notice, Start
<1>4. ASSUME NEW f \in File, FotaNoticeFails(f) \/ CotaNoticeFails(f)
      PROVE  /\ state # "UNINITED" /\ notices' = notices + 1
             /\ state' = state /\ state # "FETCHING"
             /\ UNCHANGED <<received, failed>>
  BY <1>4 DEF FotaNoticeFails, CotaNoticeFails, Notice, history
<1> QED
  BY <1>1, <1>2, <1>3, <1>4 DEF NextNotice

(* What a call that fetches does to the state. *)
LEMMA FetchSteps ==
    ASSUME FetchYield \/ FetchFails
    PROVE  /\ state = "FETCHING" /\ state' \in {"FETCHING", "FETCHED"}
           /\ notices' = notices /\ md5sum' = md5sum
           /\ finished' = finished /\ missing' = missing /\ hashed0' = hashed0
BY DEF FetchYield, Deliver, FinishIf, Finish, FetchFails, hashes

LEMMA LiveNext ==
    ASSUME HandleIsLive, [AppNext]_appVars
    PROVE  HandleIsLive'
<1>1. CASE InitOta
  BY <1>1 DEF InitOta, HandleIsLive
<1>2. CASE Deinit \/ Destroy \/ Construct \/ CallFaults
  BY <1>2 DEF Deinit, Destroy, Construct, CallFaults, HandleIsLive
<1>3. CASE Arrives
  BY <1>3, NoticeSteps DEF Arrives, app, session, HandleIsLive
<1>4. CASE Fetch
  BY <1>4, FetchSteps DEF Fetch, session, HandleIsLive
<1>5. CASE Report
  BY <1>5 DEF Report, session, HandleIsLive
<1>6. CASE CheckWritten
  BY <1>6 DEF CheckWritten, CheckFirmware, Check, session, HandleIsLive
<1>7. CASE WaitReturns \/ WriteChunk \/ WriteFails \/ WriteFaults \/ BetweenReturns
  BY <1>7 DEF WaitReturns, WriteChunk, WriteFails, WriteFaults, BetweenReturns,
              vars, session, HandleIsLive
<1>8. CASE UNCHANGED appVars
  BY <1>8 DEF appVars, app, vars, session, HandleIsLive
<1> QED
  BY <1>1, <1>2, <1>3, <1>4, <1>5, <1>6, <1>7, <1>8 DEF AppNext, AppStep, Runs, Returns

LEMMA AlwaysLive == AppSpec => []HandleIsLive
<1>1. AppInit => HandleIsLive
  BY DEF AppInit, HandleIsLive
<1> QED
  BY <1>1, LiveNext, PTL DEF AppSpec

(* The handlers of the notices are called only with a live context.        *)
THEOREM ContextsAreLive == AppSpec => []LiveContexts
<1>1. HandleIsLive => LiveContexts
  BY DEF HandleIsLive, LiveContexts
<1> QED
  BY <1>1, AlwaysLive, PTL

(* The program is a user of the OTA client: every behaviour of it, its     *)
(* fairness apart, is a behaviour of the client, whose theorems therefore  *)
(* hold of it.                                                             *)
THEOREM AppImplementsClient == AppSpec => Spec
<1>1. AppInit => Init
  BY DEF AppInit
<1> QED
  BY <1>1, AppStepIsClientStep, AlwaysLive, PTL DEF AppSpec, Spec

-----------------------------------------------------------------------------
(* Type correctness. *)

(* Until the loop is left the program returns success, and from its first  *)
(* chunk on there is a download, in progress or just finished.             *)
LoopTypeOK ==
    /\ AppTypeOK
    /\ pc \in {"construct", "init", "wait", "fetch", "write", "report",
               "between"} => rc = 0
    /\ pc \in {"write", "report", "between"} => state \in {"FETCHING", "FETCHED"}

(* What a successful call of IOT_OTA_FetchYield() adds to what the         *)
(* download delivered is the chunk that the program writes.                *)
LEMMA ChunkIsNew ==
    ASSUME TypeOK, FetchYield,
           chunk' = SubSeq(received', Len(received) + 1, Len(received'))
    PROVE  /\ chunk' \in Seq(Unit)
           /\ received' = received \o chunk'
           /\ hashed' = hashed \o chunk'
<1>1. PICK got \in Deliveries : Deliver(got) /\ hashed' = hashed \o got
  BY DEF FetchYield
<1>2. got \in Seq(Unit) /\ received \in Seq(Unit)
  BY DeliveredUnits DEF FetchYield, TypeOK
<1>3. received' = received \o got
  BY <1>1 DEF Deliver
<1>4. /\ Len(received') = Len(received) + Len(got)
      /\ Len(received) \in Nat /\ Len(got) \in Nat
  BY <1>2, <1>3, ConcatProperties, LenProperties
<1>5. chunk' = got
  <2>1. SubSeq(received \o got, Len(received) + 1, Len(received) + Len(got)) = got
    BY <1>2, ConcatSimplifications
  <2> QED
    BY <1>3, <1>4, <2>1
<1> QED
  BY <1>1, <1>2, <1>3, <1>5

LEMMA LoopTypeNext ==
    ASSUME TypeOK, TypeOK', HandleIsLive, LoopTypeOK, [AppNext]_appVars
    PROVE  LoopTypeOK'
<1>1. CASE Construct
  BY <1>1 DEF Construct, LoopTypeOK, AppTypeOK, session, vars
<1>2. CASE InitOta
  BY <1>2 DEF InitOta, LoopTypeOK, AppTypeOK, Topics
<1>3. CASE Arrives
  BY <1>3, NoticeSteps DEF Arrives, LoopTypeOK, AppTypeOK, app, session
<1>4. CASE Fetch
  <2>1. /\ chunk' = None \/ chunk' \in Seq(Unit)
        /\ state' \in {"FETCHING", "FETCHED"}
    BY <1>4, ChunkIsNew, FetchSteps DEF Fetch
  <2> QED
    BY <1>4, <2>1 DEF Fetch, LoopTypeOK, AppTypeOK, session
<1>5. CASE WriteChunk
  <2>1. written' \in Seq(Unit)
    BY <1>5, ConcatProperties DEF WriteChunk, LoopTypeOK, AppTypeOK
  <2> QED
    BY <1>5, <2>1 DEF WriteChunk, LoopTypeOK, AppTypeOK, session, vars
<1>6. CASE WriteFails \/ WriteFaults \/ CallFaults
  BY <1>6 DEF WriteFails, WriteFaults, CallFaults, LoopTypeOK, AppTypeOK,
              session, vars
<1>7. CASE Report
  BY <1>7 DEF Report, HandleIsLive, LoopTypeOK, AppTypeOK, session
<1>8. CASE WaitReturns \/ BetweenReturns
  BY <1>8 DEF WaitReturns, BetweenReturns, LoopTypeOK, AppTypeOK, session, vars
<1>9. CASE CheckWritten
  <2>1. said' \in {"NONE", "INVALID", "GARBAGE"} \cup File
    BY <1>9 DEF CheckWritten, TypeOK
  <2> QED
    BY <1>9, <2>1 DEF CheckWritten, LoopTypeOK, AppTypeOK, session
<1>10. CASE Deinit
  BY <1>10 DEF Deinit, LoopTypeOK, AppTypeOK
<1>11. CASE Destroy
  BY <1>11 DEF Destroy, LoopTypeOK, AppTypeOK, Topics, vars
<1>12. CASE UNCHANGED appVars
  BY <1>12 DEF appVars, app, vars, session, LoopTypeOK, AppTypeOK
<1> QED
  BY <1>1, <1>2, <1>3, <1>4, <1>5, <1>6, <1>7, <1>8, <1>9, <1>10, <1>11, <1>12
  DEF AppNext, AppStep, Runs, Returns

LEMMA AlwaysLoopTypeOK == AppSpec => []LoopTypeOK
<1>1. AppInit => LoopTypeOK
  BY DEF AppInit, Init, LoopTypeOK, AppTypeOK, Topics
<1> QED
  BY <1>1, LoopTypeNext, AlwaysLive, AppImplementsClient, TypeCorrect, PTL
  DEF AppSpec

(* The program keeps its types; above all, it fetches only during a        *)
(* download, and checks a download that is over unless a write failed.     *)
THEOREM AppTypeCorrect == AppSpec => []AppTypeOK
<1>1. LoopTypeOK => AppTypeOK
  BY DEF LoopTypeOK
<1> QED
  BY <1>1, AlwaysLoopTypeOK, PTL

-----------------------------------------------------------------------------
(* What is in the file. *)

(* The units written, and those of the chunk that is about to be. *)
Filed == IF pc = "write" THEN written \o chunk ELSE written

(* The program is in its loop, or checks what the loop has left, and no    *)
(* call of it has failed.                                                  *)
InLoop == \/ pc \in {"wait", "fetch", "report", "between", "check"} /\ rc = 0
          \/ pc = "write" /\ chunk # None

(* Whatever is in the file from earlier downloads, it ends with what this  *)
(* one delivered; and nothing was said of it so far.                       *)
FileFollows ==
    /\ InLoop => ~failed /\ \E w \in Seq(Unit) : Filed = w \o received
    /\ pc \notin {"deinit", "destroy", "done", "fault"} => said = "NONE"

(* A sequence is a suffix of what it was appended to. *)
LEMMA SuffixOfConcat ==
    ASSUME NEW S, NEW w \in Seq(S), NEW s \in Seq(S)
    PROVE  IsSuffix(s, w \o s)
<1> DEFINE t == w \o s
<1>1. /\ t \in Seq(S) /\ Len(t) = Len(w) + Len(s)
      /\ Len(w) \in Nat /\ Len(s) \in Nat /\ Len(t) \in Nat
  BY ConcatProperties, LenProperties
<1>2. \A i \in 1..Len(s) : t[Len(w) + i] = s[i]
  BY <1>1, ConcatProperties
<1> HIDE DEF t
<1>3. ASSUME NEW i \in 1..Len(s)
      PROVE  Reverse(s)[i] = Reverse(t)[i]
  <2>1. Reverse(s)[i] = s[Len(s) - i + 1] /\ Len(s) - i + 1 \in 1..Len(s)
    BY <1>1 DEF Reverse
  <2>2. Reverse(t)[i] = t[Len(t) - i + 1]
    BY <1>1 DEF Reverse
  <2>3. Len(t) - i + 1 = Len(w) + (Len(s) - i + 1)
    BY <1>1
  <2> QED
    BY <1>2, <2>1, <2>2, <2>3
<1>4. Len(Reverse(s)) = Len(s) /\ Len(Reverse(t)) = Len(t)
  BY <1>1 DEF Reverse
<1>5. SubSeq(Reverse(s), 1, Len(s)) = SubSeq(Reverse(t), 1, Len(s))
  BY <1>1, <1>3
<1> QED
  BY <1>1, <1>4, <1>5 DEF IsSuffix, IsPrefix, t

(* A chunk on its way to the file. *)
LEMMA FollowsFetch ==
    ASSUME TypeOK, TypeOK', DeliveredInOrder, LoopTypeOK, LoopTypeOK', FileFollows,
           Fetch
    PROVE  FileFollows'
<1>1. said' = "NONE" /\ pc' \in {"report", "write"}
  BY DEF Fetch, FileFollows
<1>2. CASE FetchFails /\ chunk' = None /\ pc' = "write"
  <2>1. ~InLoop'
    BY <1>2 DEF InLoop
  <2> QED
    BY <1>1, <2>1 DEF FileFollows
<1>3. CASE /\ FetchYield
           /\ chunk' = SubSeq(received', Len(received) + 1, Len(received'))
           /\ pc' = IF chunk' = <<>> THEN "report" ELSE "write"
  <2>1. received' = received \o chunk' /\ chunk' \in Seq(Unit)
    BY <1>3, ChunkIsNew
  <2>2. ~failed'
    BY <1>3, OrderChunk
  <2>3. PICK w \in Seq(Unit) : written = w \o received
    BY DEF Fetch, FileFollows, InLoop, Filed, LoopTypeOK
  <2>4. written \o chunk' = w \o received'
    <3>1. received \in Seq(Unit)
      BY DEF TypeOK
    <3>2. (w \o received) \o chunk' = w \o (received \o chunk')
      BY <2>1, <3>1, ConcatAssociative
    <3> QED
      BY <2>1, <2>3, <3>2
  <2>5. Filed' = w \o received'
    <3>1. written' = written
      BY DEF Fetch
    <3>2. CASE chunk' = <<>>
      BY <1>3, <2>1, <2>3, <2>4, <3>1, <3>2, ConcatEmptySeq
      DEF Fetch, Filed, LoopTypeOK, AppTypeOK
    <3>3. CASE chunk' # <<>>
      BY <2>4, <3>1, <3>3 DEF Fetch, Filed
    <3> QED
      BY <3>2, <3>3
  <2> QED
    BY <1>1, <2>2, <2>5 DEF FileFollows
<1> QED
  BY <1>2, <1>3 DEF Fetch

LEMMA FollowsNext ==
    ASSUME TypeOK, TypeOK', DeliveredInOrder, LoopTypeOK, LoopTypeOK', FileFollows,
           [AppNext]_appVars
    PROVE  FileFollows'
<1>1. CASE Construct
  BY <1>1 DEF Construct, FileFollows, InLoop
<1>2. CASE InitOta
  <2>1. received' = <<>> /\ ~failed' /\ written' = written /\ said' = said
    BY <1>2 DEF InitOta, OtaInit, Cleared
  <2>2. written \in Seq(Unit) /\ written = written \o <<>>
    BY ConcatEmptySeq DEF LoopTypeOK, AppTypeOK
  <2> QED
    BY <1>2, <2>1, <2>2 DEF InitOta, FileFollows, InLoop, Filed
<1>3. CASE Arrives
  <2>1. UNCHANGED <<pc, chunk, written, rc, said>> /\ pc \in {"wait", "between"}
    BY <1>3 DEF Arrives, app
  <2>2. CASE UNCHANGED <<received, failed>>
    BY <2>1, <2>2 DEF FileFollows, InLoop, Filed
  <2>3. CASE received' = <<>> /\ ~failed'
    <3>1. written \in Seq(Unit) /\ written = written \o <<>>
      BY ConcatEmptySeq DEF LoopTypeOK, AppTypeOK
    <3> QED
      BY <2>1, <2>3, <3>1 DEF FileFollows, InLoop, Filed
  <2> QED
    BY <1>3, <2>2, <2>3, NoticeSteps DEF Arrives
<1>4. CASE Fetch
  BY <1>4, FollowsFetch
<1>5. CASE WriteChunk
  BY <1>5 DEF WriteChunk, FileFollows, InLoop, Filed, vars, history
<1>6. CASE WriteFails \/ WriteFaults \/ CallFaults
  BY <1>6 DEF WriteFails, WriteFaults, CallFaults, FileFollows, InLoop
<1>7. CASE Report
  BY <1>7 DEF Report, FileFollows, InLoop, Filed, history
<1>8. CASE WaitReturns \/ BetweenReturns
  <2>1. UNCHANGED <<received, failed, chunk, written, rc, said>>
    BY <1>8 DEF WaitReturns, BetweenReturns, vars, history
  <2>2. /\ pc \in {"wait", "between"} /\ pc' \in {"wait", "fetch", "check"}
    BY <1>8 DEF WaitReturns, BetweenReturns
  <2>3. Filed' = Filed /\ (InLoop' => InLoop)
    BY <2>1, <2>2 DEF Filed, InLoop
  <2> QED
    BY <2>1, <2>2, <2>3 DEF FileFollows
<1>9. CASE CheckWritten \/ Deinit \/ Destroy
  BY <1>9 DEF CheckWritten, Deinit, Destroy, FileFollows, InLoop
<1>10. CASE UNCHANGED appVars
  BY <1>10 DEF appVars, app, vars, history, FileFollows, InLoop, Filed
<1> QED
  BY <1>1, <1>2, <1>3, <1>4, <1>5, <1>6, <1>7, <1>8, <1>9, <1>10
  DEF AppNext, AppStep, Runs, Returns

LEMMA WrittenNext ==
    ASSUME TypeOK, TypeOK', CountedAndHashed, DeliveredInOrder, LoopTypeOK,
           FileFollows, ValidMeansWritten, [AppNext]_appVars
    PROVE  ValidMeansWritten'
<1>1. CASE CheckWritten
  <2> SUFFICES ASSUME said' \notin {"NONE", "INVALID"}, rc' = 0
               PROVE  said' \in File /\ IsSuffix(Content(said'), written')
    BY DEF ValidMeansWritten
  <2>1. pc = "check" /\ rc = 0 /\ written' = written
    BY <1>1 DEF CheckWritten
  <2>2. CheckFirmware /\ said' = verdict'
    BY <1>1, <2>1 DEF CheckWritten, LoopTypeOK, AppTypeOK
  <2>3. said' \in File
    BY <2>2 DEF TypeOK
  <2>4. ~failed
    BY <2>1 DEF FileFollows, InLoop
  <2>5. received = Content(said')
    BY <2>2, <2>3, <2>4, CheckIsWhole DEF CheckFirmware, TypeOK
  <2>6. PICK w \in Seq(Unit) : written = w \o received
    BY <2>1 DEF FileFollows, InLoop, Filed
  <2>7. IsSuffix(received, written)
    BY <2>6, SuffixOfConcat DEF TypeOK
  <2> QED
    BY <2>1, <2>3, <2>5, <2>7
<1>2. CASE UNCHANGED <<said, written>> /\ (rc' = 0 => rc = 0)
  <2> SUFFICES ASSUME said' \notin {"NONE", "INVALID"}, rc' = 0
               PROVE  said' \in File /\ IsSuffix(Content(said'), written')
    BY DEF ValidMeansWritten
  <2>1. said' = said /\ written' = written /\ rc = 0
    BY <1>2
  <2>2. said \in File /\ IsSuffix(Content(said), written)
    BY <2>1 DEF ValidMeansWritten
  <2> QED
    BY <2>1, <2>2
<1>3. CASE said' = "NONE"
  BY <1>3 DEF ValidMeansWritten
<1>4. CASE Construct \/ InitOta \/ WaitReturns \/ Fetch \/ WriteChunk \/ Report
           \/ BetweenReturns
  BY <1>3, <1>4 DEF Construct, InitOta, WaitReturns, Fetch, WriteChunk, Report,
                    BetweenReturns, FileFollows
<1>5. CASE Arrives \/ WriteFails \/ WriteFaults \/ CallFaults \/ Deinit
           \/ Destroy \/ UNCHANGED appVars
  BY <1>2, <1>5 DEF Arrives, WriteFails, WriteFaults, CallFaults, Deinit, Destroy,
                    appVars, app
<1> QED
  BY <1>1, <1>4, <1>5 DEF AppNext, AppStep, Runs, Returns

(* When the program says "valid" and returns success, the file ends with   *)
(* that firmware.                                                          *)
THEOREM ValidIsWritten == AppSpec => []ValidMeansWritten
<1>1. AppInit => FileFollows /\ ValidMeansWritten
  BY DEF AppInit, FileFollows, InLoop, ValidMeansWritten
<1> QED
  BY <1>1, FollowsNext, WrittenNext, AlwaysLoopTypeOK, AppImplementsClient,
     TypeCorrect, CountsAndHashesWhatIsGiven, AlwaysInOrder, PTL
  DEF AppSpec

-----------------------------------------------------------------------------
(* The first download of all. *)

(* Before the first notice nothing was hashed or written; and if that one  *)
(* started a download, then what is hashed and what is on its way to the   *)
(* file is what this download delivered, and no hash was read so far; a    *)
(* firmware is hashed in the contexts that IOT_OTA_Init() left.            *)
FirstOfAll ==
    /\ notices = 0 => /\ state \in {"UNINITED", "INITED"}
                      /\ hashed = <<>> /\ finished = {} /\ written = <<>>
                      /\ missing = {} /\ md5sum = None
    /\ notices = 1 /\ InLoop /\ state \in {"FETCHING", "FETCHED"} =>
          /\ finished = {} /\ hashed = received /\ Filed = received
          /\ md5sum # None => missing = {}

LEMMA FirstFetch ==
    ASSUME TypeOK, TypeOK', LoopTypeOK, FirstOfAll, Fetch
    PROVE  FirstOfAll'
<1>1. /\ state = "FETCHING" /\ notices' = notices
      /\ UNCHANGED <<finished, missing, md5sum>>
  BY FetchSteps DEF Fetch
<1>2. notices' # 0
  BY <1>1 DEF FirstOfAll
<1>3. CASE /\ notices = 1 /\ FetchYield
           /\ chunk' = SubSeq(received', Len(received) + 1, Len(received'))
           /\ pc' = IF chunk' = <<>> THEN "report" ELSE "write"
  <2>1. /\ received' = received \o chunk' /\ chunk' \in Seq(Unit)
        /\ hashed' = hashed \o chunk'
    BY <1>3, ChunkIsNew
  <2>2. /\ finished = {} /\ hashed = received /\ written = received
        /\ md5sum # None => missing = {}
    BY <1>1, <1>3 DEF Fetch, FirstOfAll, InLoop, Filed, LoopTypeOK
  <2>3. Filed' = received'
    <3>1. written' = written /\ written \in Seq(Unit)
      BY DEF Fetch, LoopTypeOK, AppTypeOK
    <3>2. CASE chunk' = <<>>
      BY <1>3, <2>1, <2>2, <3>1, <3>2, ConcatEmptySeq DEF Filed
    <3>3. CASE chunk' # <<>>
      BY <1>3, <2>1, <2>2, <3>1, <3>3 DEF Filed
    <3> QED
      BY <3>2, <3>3
  <2> QED
    BY <1>1, <1>2, <2>1, <2>2, <2>3 DEF FirstOfAll
<1>4. CASE FetchFails /\ chunk' = None /\ pc' = "write"
  BY <1>2, <1>4 DEF FirstOfAll, InLoop
<1>5. CASE notices # 1
  BY <1>1, <1>2, <1>5 DEF FirstOfAll
<1> QED
  BY <1>3, <1>4, <1>5 DEF Fetch

LEMMA FirstArrives ==
    ASSUME TypeOK, TypeOK', LoopTypeOK, FirstOfAll, Arrives
    PROVE  FirstOfAll'
<1>1. UNCHANGED <<pc, chunk, written, rc>> /\ pc \in {"wait", "between"}
  BY DEF Arrives, app
<1>2. notices \in Nat /\ notices' = notices + 1
  BY NoticeSteps, OtaAssumption DEF Arrives, TypeOK
<1>3. CASE notices = 0
  <2>1. /\ state \in {"UNINITED", "INITED"}
        /\ hashed = <<>> /\ finished = {} /\ written = <<>>
        /\ missing = {} /\ md5sum = None
    BY <1>3 DEF FirstOfAll
  <2>2. CASE state' = state
    BY <1>2, <2>1, <2>2 DEF FirstOfAll
  <2>3. CASE /\ received' = <<>>
             /\ hashed' \in {hashed, <<>>} /\ finished' \in {finished, {}}
             /\ missing' = missing \/ md5sum' = md5sum
    BY <1>1, <1>2, <2>1, <2>3 DEF FirstOfAll, Filed
  <2> QED
    BY <2>2, <2>3, NoticeSteps DEF Arrives
<1>4. CASE notices # 0
  BY <1>2, <1>4 DEF FirstOfAll
<1> QED
  BY <1>3, <1>4

LEMMA FirstNext ==
    ASSUME TypeOK, TypeOK', LoopTypeOK, FirstOfAll, [AppNext]_appVars
    PROVE  FirstOfAll'
<1>1. CASE Arrives
  BY <1>1, FirstArrives
<1>2. CASE Fetch
  BY <1>2, FirstFetch
<1>3. CASE InitOta \/ Deinit
  BY <1>3 DEF InitOta, Deinit, OtaInit, OtaDeinit, Cleared, FirstOfAll
<1>9. CASE CallFaults
  BY <1>9 DEF CallFaults, Faults, Cleared, FirstOfAll
<1>4. CASE WriteChunk
  <2>1. UNCHANGED <<notices, state, hashed, finished, missing, md5sum, received>>
    BY <1>4 DEF WriteChunk, vars, hashes, params, history
  <2>2. InLoop /\ Filed' = Filed /\ state \in {"FETCHING", "FETCHED"}
    BY <1>4 DEF WriteChunk, InLoop, Filed, LoopTypeOK
  <2> QED
    BY <2>1, <2>2 DEF FirstOfAll
<1>5. CASE Report \/ WaitReturns \/ BetweenReturns
  <2>1. /\ UNCHANGED <<notices, state, hashed, finished, missing, md5sum,
                       received, written, chunk, rc>>
        /\ pc \in {"wait", "report", "between"}
        /\ pc' \in {"wait", "fetch", "between", "check"}
    BY <1>5 DEF Report, WaitReturns, BetweenReturns, vars, hashes, params, history
  <2>2. Filed' = Filed /\ (InLoop' => InLoop)
    BY <2>1 DEF Filed, InLoop
  <2> QED
    BY <2>1, <2>2 DEF FirstOfAll
<1>6. CASE Construct \/ WriteFails \/ WriteFaults \/ Destroy
  <2>1. /\ UNCHANGED <<notices, state, hashed, finished, missing, md5sum, written>>
        /\ ~InLoop'
    BY <1>6 DEF Construct, WriteFails, WriteFaults, Destroy, vars, hashes, params,
                InLoop
  <2> QED
    BY <2>1 DEF FirstOfAll
<1>7. CASE CheckWritten
  <2>1. /\ UNCHANGED <<notices, state, hashed, missing, md5sum, written>>
        /\ ~InLoop'
    BY <1>7 DEF CheckWritten, CheckFirmware, Check, hashes, params, InLoop
  <2>2. notices = 0 => finished' = finished
    BY <1>7 DEF CheckWritten, CheckFirmware, Check, hashes, FirstOfAll
  <2> QED
    BY <2>1, <2>2 DEF FirstOfAll
<1>8. CASE UNCHANGED appVars
  BY <1>8 DEF appVars, app, vars, hashes, params, history, FirstOfAll, InLoop, Filed
<1> QED
  BY <1>1, <1>2, <1>3, <1>4, <1>5, <1>6, <1>7, <1>8, <1>9 DEF AppNext, AppStep, Runs, Returns

(* The firmware of a first and only notice that arrived whole is called    *)
(* valid.                                                                  *)
THEOREM FirstWholeIsValid == AppSpec => WholeIsValid
<1>1. AppInit => FirstOfAll
  BY DEF AppInit, Init, FirstOfAll
<1>2. LoopTypeOK /\ FirstOfAll /\ [AppNext]_appVars =>
        [pc = "check" /\ rc = 0 /\ notices = 1 /\ md5sum # None
         /\ written = Content(md5sum) => said' = md5sum]_appVars
  <2> SUFFICES ASSUME LoopTypeOK, FirstOfAll, AppNext,
                      pc = "check", rc = 0, notices = 1, md5sum # None,
                      written = Content(md5sum)
               PROVE  said' = md5sum
    OBVIOUS
  <2>1. state = "FETCHED"
    BY DEF LoopTypeOK, AppTypeOK
  <2>2. finished = {} /\ missing = {} /\ hashed = Content(md5sum)
    BY <2>1 DEF FirstOfAll, InLoop, Filed
  <2>3. CheckWritten
    BY <2>2 DEF AppNext, AppStep, Runs, Returns, Arrives, Construct, InitOta, WaitReturns, Fetch, WriteChunk,
           WriteFails, WriteFaults, CallFaults, Report, BetweenReturns, Deinit,
           Destroy
  <2>4. CheckFirmware /\ said' = verdict'
    BY <2>1, <2>3 DEF CheckWritten
  <2> QED
    BY <2>2, <2>4 DEF CheckFirmware, Check
<1> QED
  BY <1>1, <1>2, FirstNext, AlwaysLoopTypeOK, AppImplementsClient, TypeCorrect, PTL
  DEF AppSpec, WholeIsValid
=============================================================================
