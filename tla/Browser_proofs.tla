--------------------------- MODULE Browser_proofs ---------------------------
(***************************************************************************)
(* What runs in the browser, for any number of calls and faults, and any   *)
(* accounts and roles: proofs of Softphone's type invariant, of            *)
(* ShowsWhatIsThere, of LogsAreTrue, of RedirectsEnd, and of what the bell *)
(* tells (BellIsTrue).                                                     *)
(*                                                                         *)
(* A call that is not spoiled is, at any time, in exactly one place: on    *)
(* the line, in a log on its way, in a preview disposition that will log   *)
(* it, or in the server's logs (OnePlace).  That a disposition is of its   *)
(* call follows from what may still be pending when the next call begins:  *)
(* whatever is left of an earlier call makes both of them odd (Related).   *)
(* The recordings have an invariant about the latest call alone, since     *)
(* nothing is written for an earlier one (LatestClean).                    *)
(***************************************************************************)
EXTENDS MCBrowser, RunRoster_proofs, FiniteSetTheorems

\* The connection: nothing is planned while the phone is up, and there is no call
\* once the page is left.
LinkInv ==
  /\ timer => ~up /\ ~stopped
  /\ reconnecting /\ ~stopped => ~up
  /\ step \in {"drop", "config", "transport"} /\ ~stopped => ~up
  /\ stopped => session = NoSession

\* The call on the line is the latest; what the console shows of it, and what a
\* disposition under way says about it.
CallInv ==
  /\ call = calls
  /\ session.is = "none" <=> session.id = 0
  /\ session # NoSession => session.id = call
  /\ phase \in OnCall => session.id = call \/ call \in spoiled
  /\ phase \in OnCall \/ wrapUp => call # 0
  /\ wrapUp => session = NoSession
  /\ disposing => submit.is = "sent" /\ submit.as # "adhoc"
  /\ disposing /\ session # NoSession => call \in spoiled
  /\ submit.is = "logs" <=> \E p \in posts : p.at = "submit"
  /\ \A p \in posts, q \in posts : p.at = "submit" /\ q.at = "submit" => p = q

Posted(c) == \E p \in posts : p.of = c

\* A preview disposition without a log, which makes one.
Due(c) == submit.is = "sent" /\ submit.to = 0 /\ submit.as = "preview" /\ submit.of = c

\* A call in wrap-up of a preview session has a log, or one on its way.
WrapUpLogged ==
  wrapUp /\ mode = "preview" /\ submit = NoSubmit /\ call \notin spoiled =>
    previewLogId # 0 \/ \E p \in posts : p.of = call /\ p.as = "preview"

\* Where a call that is not spoiled is.
PlaceOf(c) ==
  /\ session.id = c => ~Posted(c) /\ ~Due(c) /\ logs[c] = 0
  /\ Posted(c) => ~Due(c) /\ logs[c] = 0
  /\ Due(c) => logs[c] = 0
  /\ session.id # c /\ ~Posted(c) /\ ~Due(c) => logs[c] = 1
  /\ \A p \in posts, q \in posts : p.of = c /\ q.of = c => p = q

OnePlace ==
  \A c \in Calls :
    /\ c <= calls /\ c \notin spoiled => PlaceOf(c)
    /\ c > calls => logs[c] = 0 /\ ~Posted(c) /\ ~Due(c)

\* Two calls are the same, or both of those around one that began too early.
Related(c, d) == c = d \/ {c, d} \subseteq odd

\* Whatever is pending is of the latest call or of one related to it.
PendingRelated ==
  /\ chosen # 0 => Related(chosen, call)
  /\ lastLogId # 0 => Related(lastLogId, call)
  /\ previewLogId # 0 => Related(previewLogId, call)
  /\ \A p \in posts :
       /\ Related(p.of, call)
       /\ p.disp # 0 => Related(p.disp, p.of)
  /\ submit.is = "sent" =>
       /\ submit.to # 0 /\ chosen # 0 => Related(chosen, submit.to)
       /\ submit.to = 0 /\ submit.as = "preview" /\ chosen # 0 => Related(chosen, submit.of)

LogInv ==
  /\ SoftphoneTypeOK /\ ShowsWhatIsThere /\ LinkInv /\ CallInv
  /\ WrapUpLogged /\ OnePlace /\ PendingRelated /\ DispositionOfItsCall

-----------------------------------------------------------------------------
\* The recording: that of the latest call, unless it began too early.
LineInv ==
  /\ live \in {0, taped}
  /\ mixed \subseteq 1..taped
  /\ \A c \in Taped :
       /\ c > taped => asked[c] = NotMade /\ logged[c] = NoLog /\ c \notin answeredIn
       /\ asked[c].at = "none" => asked[c] = NotMade

LatestClean ==
  taped # 0 /\ taped \notin mixed =>
    /\ recordFile \in {0, taped}
    /\ \A c \in Taped : c # taped => asked[c] = NotMade
    /\ asked[taped].at \in {"record", "answer"} => asked[taped].found = taped
    /\ advancing => logged[taped].disposed
    /\ logged[taped].disposed => live = 0
    /\ taped \in answeredIn /\ ~logged[taped].disposed => recordFile = taped

RecInv == RecordingTypeOK /\ LineInv /\ LatestClean /\ RecordingOfItsCall

-----------------------------------------------------------------------------
\* Types, variable by variable.
Booleans ==
  /\ timer \in BOOLEAN /\ reconnecting \in BOOLEAN /\ up \in BOOLEAN /\ stopped \in BOOLEAN
  /\ answered \in BOOLEAN /\ wrapUp \in BOOLEAN /\ disposing \in BOOLEAN
LinkTypes ==
  /\ phase \in {"connecting", "registered"} \cup OnCall
  /\ step \in {"idle", "drop", "config", "transport", "status"}
  /\ faults \in 0..MaxFaults
SessionRec == [is : {"none", "ringing", "calling", "cancelled", "talking"}, id : Ids]
CallTypes ==
  /\ calls \in Ids /\ call \in Ids /\ chosen \in Ids /\ lastLogId \in Ids /\ previewLogId \in Ids
  /\ session \in SessionRec /\ mode \in {"adhoc", "preview", "auto"}
PostRec == [of : Calls, at : {"end", "submit"}, as : {"log", "preview"}, disp : Ids]
SubmitRec == [is : {"none", "sent", "logs"}, to : Ids, of : Ids, as : {"adhoc", "preview", "auto"}]
LogTypes ==
  /\ posts \subseteq PostRec /\ submit \in SubmitRec
  /\ logs \in [Calls -> 0..2] /\ disps \in [Calls -> SUBSET Calls]
  /\ spoiled \subseteq Calls /\ odd \subseteq Calls

LEMMA TypesSplit == SoftphoneTypeOK <=> Booleans /\ LinkTypes /\ CallTypes /\ LogTypes
BY DEF SoftphoneTypeOK, Booleans, LinkTypes, CallTypes, LogTypes, SessionRec, PostRec, SubmitRec

\* A call's log is of that call.
LEMMA LogPostType ==
  ASSUME CallTypes, call # 0, NEW at \in {"end", "submit"}, NEW disp \in Ids
  PROVE  LogPost(at, disp) \in PostRec
BY SoftphoneAssumption DEF CallTypes, LogPost, PostRec, Calls, Ids

LEMMA SoftphoneTypeStep ==
  ASSUME Booleans, LinkTypes, CallTypes, LogTypes, CallInv, SoftphoneNext
  PROVE  (Booleans /\ LinkTypes /\ CallTypes /\ LogTypes)'
<1>. USE SoftphoneAssumption DEF Calls, Ids, callVars, linkVars, logVars
<1>a. session # NoSession => call # 0
  <2>1. session.is = "none" /\ session.id = 0 => session = NoSession
    BY DEF CallTypes, SessionRec, NoSession
  <2>2. QED
    BY <2>1 DEF CallInv, CallTypes, SessionRec
<1>b. phase \in OnCall \/ wrapUp => call # 0
  BY DEF CallInv
<1>1. CASE TimerFires
  <2>1. Booleans'
    BY <1>1 DEF Booleans, isCurrent, TimerFires, connect
  <2>2. LinkTypes'
    BY <1>1 DEF LinkTypes, OnCall, TimerFires, connect
  <2>3. CallTypes'
    BY <1>1 DEF CallTypes, SessionRec, NoSession, TimerFires, connect
  <2>4. LogTypes'
    BY <1>1 DEF LogTypes, CallTypes, SessionRec, PostRec, SubmitRec, NoSubmit, TimerFires, connect
  <2>5. QED
    BY <2>1, <2>2, <2>3, <2>4
<1>2. CASE retryNow
  <2>1. Booleans'
    BY <1>2 DEF Booleans, isCurrent, retryNow, connect
  <2>2. LinkTypes'
    BY <1>2 DEF LinkTypes, OnCall, retryNow, connect
  <2>3. CallTypes'
    BY <1>2 DEF CallTypes, SessionRec, NoSession, retryNow, connect
  <2>4. LogTypes'
    BY <1>2 DEF LogTypes, CallTypes, SessionRec, PostRec, SubmitRec, NoSubmit, retryNow, connect
  <2>5. QED
    BY <2>1, <2>2, <2>3, <2>4
<1>3. CASE Disconnects
  <2>1. Booleans'
    BY <1>3 DEF Booleans, isCurrent, Disconnects, onCallHangup, LogsEnd
  <2>2. LinkTypes'
    BY <1>3 DEF LinkTypes, OnCall, Disconnects, onCallHangup, LogsEnd
  <2>3. CallTypes'
    BY <1>3 DEF CallTypes, SessionRec, NoSession, Disconnects, onCallHangup, LogsEnd
  <2>4. LogTypes'
    <3>1. {session.id} \ {0} \subseteq Calls
      BY DEF CallTypes, SessionRec
    <3>2. posts' \in {posts, posts \cup {LogPost("end", chosen)}}
      BY <1>3 DEF Disconnects, onCallHangup, LogsEnd
    <3>3. session = NoSession => posts' = posts
      BY <1>3 DEF Disconnects
    <3>4. posts' \subseteq PostRec
      BY <3>2, <3>3, <1>a, LogPostType DEF LogTypes, CallTypes
    <3>5. QED
      BY <1>3, <3>1, <3>4 DEF LogTypes, Disconnects
  <2>5. QED
    BY <2>1, <2>2, <2>3, <2>4
<1>4. CASE ConfigArrives
  <2>1. Booleans'
    BY <1>4 DEF Booleans, isCurrent, ConfigArrives
  <2>2. LinkTypes'
    BY <1>4 DEF LinkTypes, OnCall, ConfigArrives
  <2>3. CallTypes'
    BY <1>4 DEF CallTypes, SessionRec, NoSession, ConfigArrives
  <2>4. LogTypes'
    BY <1>4 DEF LogTypes, CallTypes, SessionRec, PostRec, SubmitRec, NoSubmit, ConfigArrives
  <2>5. QED
    BY <2>1, <2>2, <2>3, <2>4
<1>5. CASE AttemptFails
  <2>1. Booleans'
    BY <1>5 DEF Booleans, isCurrent, AttemptFails, scheduleReconnect, KeepsPlan
  <2>2. LinkTypes'
    <3>1. phase' \in {"connecting", phase}
      BY <1>5 DEF AttemptFails, scheduleReconnect, KeepsPlan
    <3>2. QED
      BY <1>5, <3>1 DEF LinkTypes, OnCall, AttemptFails
  <2>3. CallTypes'
    BY <1>5 DEF CallTypes, SessionRec, NoSession, AttemptFails, scheduleReconnect, KeepsPlan
  <2>4. LogTypes'
    BY <1>5 DEF LogTypes, CallTypes, SessionRec, PostRec, SubmitRec, NoSubmit, AttemptFails, scheduleReconnect, KeepsPlan
  <2>5. QED
    BY <2>1, <2>2, <2>3, <2>4
<1>6. CASE Registers
  <2>1. Booleans'
    BY <1>6 DEF Booleans, isCurrent, Registers, Registered
  <2>2. LinkTypes'
    BY <1>6 DEF LinkTypes, OnCall, Registers, Registered
  <2>3. CallTypes'
    BY <1>6 DEF CallTypes, SessionRec, NoSession, Registers, Registered
  <2>4. LogTypes'
    BY <1>6 DEF LogTypes, CallTypes, SessionRec, PostRec, SubmitRec, NoSubmit, Registers, Registered
  <2>5. QED
    BY <2>1, <2>2, <2>3, <2>4
<1>7. CASE StatusSet
  <2>1. Booleans'
    BY <1>7 DEF Booleans, isCurrent, StatusSet
  <2>2. LinkTypes'
    BY <1>7 DEF LinkTypes, OnCall, StatusSet
  <2>3. CallTypes'
    BY <1>7 DEF CallTypes, SessionRec, NoSession, StatusSet
  <2>4. LogTypes'
    BY <1>7 DEF LogTypes, CallTypes, SessionRec, PostRec, SubmitRec, NoSubmit, StatusSet
  <2>5. QED
    BY <2>1, <2>2, <2>3, <2>4
<1>8. CASE onServerDisconnect
  <2>1. Booleans'
    BY <1>8 DEF Booleans, isCurrent, onServerDisconnect, scheduleReconnect, KeepsPlan
  <2>2. LinkTypes'
    BY <1>8 DEF LinkTypes, OnCall, onServerDisconnect, scheduleReconnect, KeepsPlan
  <2>3. CallTypes'
    BY <1>8 DEF CallTypes, SessionRec, NoSession, onServerDisconnect, scheduleReconnect, KeepsPlan
  <2>4. LogTypes'
    BY <1>8 DEF LogTypes, CallTypes, SessionRec, PostRec, SubmitRec, NoSubmit, onServerDisconnect, scheduleReconnect, KeepsPlan
  <2>5. QED
    BY <2>1, <2>2, <2>3, <2>4
<1>9. CASE Unmounts
  <2>1. Booleans'
    BY <1>9 DEF Booleans, isCurrent, Unmounts
  <2>2. LinkTypes'
    BY <1>9 DEF LinkTypes, OnCall, Unmounts
  <2>3. CallTypes'
    BY <1>9 DEF CallTypes, SessionRec, NoSession, Unmounts
  <2>4. LogTypes'
    <3>1. {session.id} \ {0} \subseteq Calls
      BY DEF CallTypes, SessionRec
    <3>2. QED
      BY <1>9, <3>1 DEF LogTypes, Unmounts
  <2>5. QED
    BY <2>1, <2>2, <2>3, <2>4
<1>10. CASE placeCallTo
  <2>1. Booleans'
    BY <1>10 DEF Booleans, isCurrent, placeCallTo, Begins
  <2>2. LinkTypes'
    BY <1>10 DEF LinkTypes, OnCall, placeCallTo, Begins
  <2>3. CallTypes'
    BY <1>10 DEF CallTypes, SessionRec, NoSession, placeCallTo, Begins
  <2>4. LogTypes'
    BY <1>10 DEF LogTypes, CallTypes, SessionRec, PostRec, SubmitRec, NoSubmit, placeCallTo, Begins
  <2>5. QED
    BY <2>1, <2>2, <2>3, <2>4
<1>11. CASE onCallReceived
  <2>1. Booleans'
    BY <1>11 DEF Booleans, isCurrent, onCallReceived, Begins
  <2>2. LinkTypes'
    BY <1>11 DEF LinkTypes, OnCall, onCallReceived, Begins
  <2>3. CallTypes'
    BY <1>11 DEF CallTypes, SessionRec, NoSession, onCallReceived, Begins
  <2>4. LogTypes'
    BY <1>11 DEF LogTypes, CallTypes, SessionRec, PostRec, SubmitRec, NoSubmit, onCallReceived, Begins
  <2>5. QED
    BY <2>1, <2>2, <2>3, <2>4
<1>12. CASE onCallAnswered
  <2>1. Booleans'
    BY <1>12 DEF Booleans, isCurrent, onCallAnswered
  <2>2. LinkTypes'
    BY <1>12 DEF LinkTypes, OnCall, onCallAnswered
  <2>3. CallTypes'
    BY <1>12 DEF CallTypes, SessionRec, NoSession, onCallAnswered
  <2>4. LogTypes'
    BY <1>12 DEF LogTypes, CallTypes, SessionRec, PostRec, SubmitRec, NoSubmit, onCallAnswered
  <2>5. QED
    BY <2>1, <2>2, <2>3, <2>4
<1>13. CASE Ends
  <2>1. Booleans'
    BY <1>13 DEF Booleans, isCurrent, Ends, onCallHangup, LogsEnd
  <2>2. LinkTypes'
    BY <1>13 DEF LinkTypes, OnCall, Ends, onCallHangup, LogsEnd
  <2>3. CallTypes'
    BY <1>13 DEF CallTypes, SessionRec, NoSession, Ends, onCallHangup, LogsEnd
  <2>4. LogTypes'
    BY <1>13, LogPostType DEF LogTypes, CallTypes, SessionRec, NoSession, SubmitRec, CallInv, Ends, onCallHangup, LogsEnd
  <2>5. QED
    BY <2>1, <2>2, <2>3, <2>4
<1>14. CASE AgentHangsUp
  <2>1. Booleans'
    BY <1>14 DEF Booleans, isCurrent, AgentHangsUp, hangup, onCallHangup, LogsEnd
  <2>2. LinkTypes'
    BY <1>14 DEF LinkTypes, OnCall, AgentHangsUp, hangup, onCallHangup, LogsEnd
  <2>3. CallTypes'
    BY <1>14 DEF CallTypes, SessionRec, NoSession, AgentHangsUp, hangup, onCallHangup, LogsEnd
  <2>4. LogTypes'
    BY <1>14, LogPostType DEF LogTypes, CallTypes, SessionRec, NoSession, SubmitRec, CallInv, AgentHangsUp, hangup, onCallHangup, LogsEnd
  <2>5. QED
    BY <2>1, <2>2, <2>3, <2>4
<1>15. CASE Chooses
  <2>1. Booleans'
    BY <1>15 DEF Booleans, isCurrent, Chooses
  <2>2. LinkTypes'
    BY <1>15 DEF LinkTypes, OnCall, Chooses
  <2>3. CallTypes'
    BY <1>15 DEF CallTypes, SessionRec, NoSession, Chooses
  <2>4. LogTypes'
    BY <1>15 DEF LogTypes, CallTypes, SessionRec, PostRec, SubmitRec, NoSubmit, Chooses
  <2>5. QED
    BY <2>1, <2>2, <2>3, <2>4
<1>16. CASE clearWrapUp
  <2>1. Booleans'
    BY <1>16 DEF Booleans, isCurrent, clearWrapUp
  <2>2. LinkTypes'
    BY <1>16 DEF LinkTypes, OnCall, clearWrapUp
  <2>3. CallTypes'
    BY <1>16 DEF CallTypes, SessionRec, NoSession, clearWrapUp
  <2>4. LogTypes'
    BY <1>16 DEF LogTypes, CallTypes, SessionRec, PostRec, SubmitRec, NoSubmit, clearWrapUp
  <2>5. QED
    BY <2>1, <2>2, <2>3, <2>4
<1>17. ASSUME NEW m \in {"preview", "auto"}, Enters(m) PROVE (Booleans /\ LinkTypes /\ CallTypes /\ LogTypes)'
  <2>1. Booleans'
    BY <1>17 DEF Booleans, isCurrent, Enters
  <2>2. LinkTypes'
    BY <1>17 DEF LinkTypes, OnCall, Enters
  <2>3. CallTypes'
    BY <1>17 DEF CallTypes, SessionRec, NoSession, Enters
  <2>4. LogTypes'
    BY <1>17 DEF LogTypes, CallTypes, SessionRec, PostRec, SubmitRec, NoSubmit, Enters
  <2>5. QED
    BY <2>1, <2>2, <2>3, <2>4
<1>18. CASE Exits
  <2>1. Booleans'
    BY <1>18 DEF Booleans, isCurrent, Exits
  <2>2. LinkTypes'
    BY <1>18 DEF LinkTypes, OnCall, Exits
  <2>3. CallTypes'
    BY <1>18 DEF CallTypes, SessionRec, NoSession, Exits
  <2>4. LogTypes'
    BY <1>18 DEF LogTypes, CallTypes, SessionRec, PostRec, SubmitRec, NoSubmit, Exits
  <2>5. QED
    BY <2>1, <2>2, <2>3, <2>4
<1>19. ASSUME NEW p \in posts, PostReturns(p)
       PROVE  (Booleans /\ LinkTypes /\ CallTypes /\ LogTypes)'
  <2>0. p \in PostRec /\ p.of \in Calls /\ p.disp \in Ids
    BY DEF LogTypes, PostRec
  <2>1. Booleans'
    BY <1>19 DEF Booleans, PostReturns
  <2>2. LinkTypes'
    BY <1>19 DEF LinkTypes, PostReturns
  <2>3. CallTypes'
    BY <1>19, <2>0 DEF CallTypes, PostReturns
  <2>4. LogTypes'
    <3>1. logs' \in [Calls -> 0..2]
      BY <1>19, <2>0 DEF LogTypes, PostReturns
    <3>2. disps' \in [Calls -> SUBSET Calls]
      BY <1>19, <2>0 DEF LogTypes, PostReturns
    <3>3. submit' \in SubmitRec
      BY <1>19 DEF LogTypes, PostReturns, NoSubmit, SubmitRec
    <3>4. QED
      BY <1>19, <3>1, <3>2, <3>3 DEF LogTypes, PostReturns
  <2>5. QED
    BY <2>1, <2>2, <2>3, <2>4
<1>20. CASE SubmitsToCampaign
  <2>1. Booleans'
    BY <1>20 DEF Booleans, isCurrent, SubmitsToCampaign, hangup, onCallHangup, LogsEnd, SubmitIn, Submitting
  <2>2. LinkTypes'
    BY <1>20 DEF LinkTypes, OnCall, SubmitsToCampaign, hangup, onCallHangup, LogsEnd, SubmitIn, Submitting
  <2>3. CallTypes'
    BY <1>20 DEF CallTypes, SessionRec, NoSession, SubmitsToCampaign, hangup, onCallHangup, LogsEnd, SubmitIn, Submitting
  <2>4. LogTypes'
    <3>1. posts' = posts
      BY <1>20 DEF SubmitsToCampaign, hangup, onCallHangup, LogsEnd
    <3>2. submit' \in SubmitRec
      BY <1>20 DEF SubmitsToCampaign, SubmitIn, SubmitRec, CallTypes
    <3>3. call # 0
      BY <1>20, <1>b DEF SubmitsToCampaign, Submitting
    <3>4. QED
      BY <1>20, <3>1, <3>2, <3>3 DEF SubmitsToCampaign, LogTypes, CallTypes
  <2>5. QED
    BY <2>1, <2>2, <2>3, <2>4
<1>21. CASE SubmitsOnCall
  <2>1. Booleans'
    BY <1>21 DEF Booleans, isCurrent, SubmitsOnCall, hangup, onCallHangup, LogsEnd
  <2>2. LinkTypes'
    BY <1>21 DEF LinkTypes, OnCall, SubmitsOnCall, hangup, onCallHangup, LogsEnd
  <2>3. CallTypes'
    BY <1>21 DEF CallTypes, SessionRec, NoSession, SubmitsOnCall, hangup, onCallHangup, LogsEnd
  <2>4. LogTypes'
    <3>1. call # 0
      BY <1>21, <1>b DEF SubmitsOnCall
    <3>2. QED
      BY <1>21, <3>1, LogPostType DEF LogTypes, CallTypes, SubmitsOnCall, hangup, onCallHangup, LogsEnd
  <2>5. QED
    BY <2>1, <2>2, <2>3, <2>4
<1>22. CASE SubmitsToLog
  <2>1. Booleans'
    BY <1>22 DEF Booleans, isCurrent, SubmitsToLog, SubmitIn
  <2>2. LinkTypes'
    BY <1>22 DEF LinkTypes, OnCall, SubmitsToLog, SubmitIn
  <2>3. CallTypes'
    BY <1>22 DEF CallTypes, SessionRec, NoSession, SubmitsToLog, SubmitIn
  <2>4. LogTypes'
    BY <1>22 DEF LogTypes, CallTypes, SessionRec, PostRec, SubmitRec, NoSubmit, SubmitsToLog, SubmitIn
  <2>5. QED
    BY <2>1, <2>2, <2>3, <2>4
<1>23. CASE SubmitsNewLog
  <2>1. Booleans'
    BY <1>23 DEF Booleans, isCurrent, SubmitsNewLog, SubmitIn
  <2>2. LinkTypes'
    BY <1>23 DEF LinkTypes, OnCall, SubmitsNewLog, SubmitIn
  <2>3. CallTypes'
    BY <1>23 DEF CallTypes, SessionRec, NoSession, SubmitsNewLog, SubmitIn
  <2>4. LogTypes'
    <3>1. call # 0
      BY <1>23, <1>b DEF SubmitsNewLog, Submitting
    <3>2. submit' \in SubmitRec
      BY <1>23 DEF SubmitsNewLog, SubmitIn, SubmitRec, CallTypes
    <3>3. QED
      BY <1>23, <3>1, <3>2, LogPostType DEF LogTypes, CallTypes, SubmitsNewLog
  <2>5. QED
    BY <2>1, <2>2, <2>3, <2>4
<1>24. CASE Submitted
  <2>1. Booleans'
    BY <1>24 DEF Booleans, isCurrent, Submitted
  <2>2. LinkTypes'
    BY <1>24 DEF LinkTypes, OnCall, Submitted
  <2>3. CallTypes'
    BY <1>24 DEF CallTypes, SessionRec, NoSession, Submitted
  <2>4. LogTypes'
    <3>. DEFINE on == IF submit.to = 0 /\ submit.as = "preview" THEN submit.of ELSE submit.to
    <3>1. logs' \in [Calls -> 0..2]
      <4>1. logs' = IF submit.to = 0 /\ submit.as = "preview"
                      THEN [logs EXCEPT ![submit.of] = IF logs[submit.of] < 2 THEN logs[submit.of] + 1 ELSE 2]
                      ELSE logs
        BY <1>24 DEF Submitted
      <4>2. CASE submit.of \in Calls
        BY <4>1, <4>2 DEF LogTypes
      <4>3. CASE submit.of \notin Calls
        BY <4>1, <4>3 DEF LogTypes
      <4>4. QED
        BY <4>2, <4>3
    <3>2. disps' \in [Calls -> SUBSET Calls]
      <4>1. disps' = IF on = 0 \/ chosen = 0 THEN disps ELSE [disps EXCEPT ![on] = @ \cup {chosen}]
        BY <1>24 DEF Submitted
      <4>2. QED
        <5>1. chosen # 0 => chosen \in Calls
          BY DEF CallTypes
        <5>2. disps \in [Calls -> SUBSET Calls]
          BY DEF LogTypes
        <5>. HIDE DEF on
        <5>3. on \in Calls /\ chosen # 0 => disps' \in [Calls -> SUBSET Calls]
          BY <4>1, <5>1, <5>2
        <5>4. on \notin Calls /\ chosen # 0 => disps' \in [Calls -> SUBSET Calls]
          BY <4>1, <5>1, <5>2
        <5>5. QED
          BY <4>1, <5>2, <5>3, <5>4
    <3>3. submit' \in SubmitRec
      BY <1>24 DEF Submitted, NoSubmit, SubmitRec
    <3>4. QED
      BY <1>24, <3>1, <3>2, <3>3 DEF LogTypes, Submitted
  <2>5. QED
    BY <2>1, <2>2, <2>3, <2>4
<1>25. QED
  BY <1>1, <1>2, <1>3, <1>4, <1>5, <1>6, <1>7, <1>8, <1>9, <1>10, <1>11, <1>12, <1>13, <1>14, <1>15, <1>16, <1>17, <1>18, <1>19, <1>20, <1>21, <1>22, <1>23, <1>24 DEF SoftphoneNext
-----------------------------------------------------------------------------
\* The connection.
LEMMA OwnCall ==
  ASSUME Booleans, LinkTypes, CallTypes, LinkInv, ShowsWhatIsThere
  PROVE  /\ up /\ ~stopped => Latest
         /\ session # NoSession => ~stopped
         /\ phase \in OnCall /\ ~stopped => up /\ Latest /\ session # NoSession
BY DEF LinkInv, ShowsWhatIsThere, Latest, LinkTypes, OnCall

LEMMA NamedSession ==
  ASSUME CallTypes, session.is # "none"
  PROVE  session # NoSession
BY DEF NoSession

\* The end of a call on a phone that is up, and what hanging up does: a call that
\* rings out is cancelled, any other ends; on a page that was left there is none.
LogsUnless(off) == posts' = IF off THEN posts ELSE posts \cup {LogPost("end", chosen)}

Hung(off) ==
  /\ session # NoSession /\ ~stopped /\ up /\ Latest /\ session' = NoSession
  /\ phase' = "registered" /\ wrapUp' = TRUE /\ LogsUnless(off)

LEMMA EndShape ==
  ASSUME Booleans, LinkTypes, CallTypes, LinkInv, ShowsWhatIsThere, Ends
  PROVE  Hung(disposing)
<1>1. isCurrent(Latest) /\ ~stopped
  BY OwnCall DEF Ends, isCurrent
<1>2. QED
  BY <1>1 DEF Ends, Hung, LogsUnless, onCallHangup, LogsEnd, isCurrent

Cancelled ==
  /\ session.is = "calling" /\ session'.is = "cancelled" /\ session'.id = session.id
  /\ session # NoSession /\ session' # NoSession
  /\ UNCHANGED <<phase, wrapUp, posts>>

LEMMA HangupShape ==
  ASSUME Booleans, LinkTypes, CallTypes, LinkInv, ShowsWhatIsThere,
         NEW off \in BOOLEAN, hangup(off), phase \in OnCall
  PROVE  \/ Cancelled
         \/ session.is # "calling" /\ Hung(off)
         \/ stopped /\ session = NoSession /\ UNCHANGED <<session, phase, wrapUp, posts>>
<1>1. CASE session.is = "calling"
  <2>1. session' = [session EXCEPT !.is = "cancelled"] /\ UNCHANGED <<phase, wrapUp, posts>>
    BY <1>1 DEF hangup
  <2>2. session'.is = "cancelled" /\ session'.id = session.id
    BY <2>1 DEF CallTypes, SessionRec
  <2>3. session' # NoSession /\ session # NoSession
    BY <1>1, <2>2 DEF NoSession
  <2>4. QED
    BY <1>1, <2>1, <2>2, <2>3 DEF Cancelled
<1>2. CASE session.is # "calling" /\ stopped
  <2>1. session = NoSession /\ ~isCurrent(Latest)
    BY <1>2 DEF LinkInv, isCurrent
  <2>2. QED
    BY <1>2, <2>1 DEF hangup, onCallHangup
<1>3. CASE session.is # "calling" /\ ~stopped
  <2>1. isCurrent(Latest) /\ up /\ session # NoSession
    BY <1>3, OwnCall DEF isCurrent
  <2>2. QED
    BY <1>3, <2>1 DEF hangup, onCallHangup, LogsEnd, Hung, LogsUnless, isCurrent
<1>4. QED
  BY <1>1, <1>2, <1>3 DEF Booleans

LEMMA LinkStep ==
  ASSUME Booleans, LinkTypes, CallTypes, LinkInv, ShowsWhatIsThere, SoftphoneNext
  PROVE  LinkInv' /\ ShowsWhatIsThere'
<1>. USE DEF callVars, linkVars, logVars
<1>1. CASE TimerFires
  <2>1. LinkInv'
    BY <1>1, OwnCall DEF Booleans, LinkTypes, LinkInv, TimerFires, connect
  <2>2. ShowsWhatIsThere'
    BY <1>1, OwnCall, NamedSession DEF Booleans, LinkTypes, CallTypes, SessionRec, NoSession, OnCall, ShowsWhatIsThere, LinkInv, Latest, TimerFires, connect
  <2>3. QED
    BY <2>1, <2>2
<1>2. CASE retryNow
  <2>1. LinkInv'
    BY <1>2, OwnCall DEF Booleans, LinkTypes, LinkInv, retryNow, connect
  <2>2. ShowsWhatIsThere'
    BY <1>2, OwnCall, NamedSession DEF Booleans, LinkTypes, CallTypes, SessionRec, NoSession, OnCall, ShowsWhatIsThere, LinkInv, Latest, retryNow, connect
  <2>3. QED
    BY <2>1, <2>2
<1>3. CASE Disconnects
  <2>1. LinkInv'
    BY <1>3, OwnCall DEF Booleans, LinkTypes, LinkInv, Disconnects, onCallHangup, isCurrent
  <2>2. ShowsWhatIsThere'
    BY <1>3, OwnCall, NamedSession DEF Booleans, LinkTypes, CallTypes, SessionRec, NoSession, OnCall, ShowsWhatIsThere, LinkInv, Latest, Disconnects, onCallHangup, isCurrent
  <2>3. QED
    BY <2>1, <2>2
<1>4. CASE ConfigArrives
  <2>1. LinkInv'
    BY <1>4, OwnCall DEF Booleans, LinkTypes, LinkInv, ConfigArrives
  <2>2. ShowsWhatIsThere'
    BY <1>4, OwnCall, NamedSession DEF Booleans, LinkTypes, CallTypes, SessionRec, NoSession, OnCall, ShowsWhatIsThere, LinkInv, Latest, ConfigArrives
  <2>3. QED
    BY <2>1, <2>2
<1>5. CASE AttemptFails
  <2>1. LinkInv'
    BY <1>5, OwnCall DEF Booleans, LinkTypes, LinkInv, AttemptFails, scheduleReconnect, KeepsPlan, isCurrent
  <2>2. ShowsWhatIsThere'
    BY <1>5, OwnCall, NamedSession DEF Booleans, LinkTypes, CallTypes, SessionRec, NoSession, OnCall, ShowsWhatIsThere, LinkInv, Latest, AttemptFails, scheduleReconnect, KeepsPlan, isCurrent
  <2>3. QED
    BY <2>1, <2>2
<1>6. CASE Registers
  <2>1. LinkInv'
    BY <1>6, OwnCall DEF Booleans, LinkTypes, LinkInv, Registers, Registered, isCurrent
  <2>2. ShowsWhatIsThere'
    BY <1>6, OwnCall, NamedSession DEF Booleans, LinkTypes, CallTypes, SessionRec, NoSession, OnCall, ShowsWhatIsThere, LinkInv, Latest, Registers, Registered, isCurrent
  <2>3. QED
    BY <2>1, <2>2
<1>7. CASE StatusSet
  <2>1. LinkInv'
    BY <1>7, OwnCall DEF Booleans, LinkTypes, LinkInv, StatusSet
  <2>2. ShowsWhatIsThere'
    BY <1>7, OwnCall, NamedSession DEF Booleans, LinkTypes, CallTypes, SessionRec, NoSession, OnCall, ShowsWhatIsThere, LinkInv, Latest, StatusSet
  <2>3. QED
    BY <2>1, <2>2
<1>8. CASE onServerDisconnect
  <2>1. LinkInv'
    BY <1>8, OwnCall DEF Booleans, LinkTypes, LinkInv, onServerDisconnect, scheduleReconnect, KeepsPlan, isCurrent
  <2>2. ShowsWhatIsThere'
    BY <1>8, OwnCall, NamedSession DEF Booleans, LinkTypes, CallTypes, SessionRec, NoSession, OnCall, ShowsWhatIsThere, LinkInv, Latest, onServerDisconnect, scheduleReconnect, KeepsPlan, isCurrent
  <2>3. QED
    BY <2>1, <2>2
<1>9. CASE Unmounts
  <2>1. LinkInv'
    BY <1>9, OwnCall DEF Booleans, LinkTypes, LinkInv, Unmounts
  <2>2. ShowsWhatIsThere'
    BY <1>9, OwnCall, NamedSession DEF Booleans, LinkTypes, CallTypes, SessionRec, NoSession, OnCall, ShowsWhatIsThere, LinkInv, Latest, Unmounts
  <2>3. QED
    BY <2>1, <2>2
<1>10. CASE placeCallTo
  <2>1. LinkInv'
    BY <1>10, OwnCall DEF Booleans, LinkTypes, LinkInv, placeCallTo, Begins
  <2>2. ShowsWhatIsThere'
    BY <1>10, OwnCall, NamedSession DEF Booleans, LinkTypes, CallTypes, SessionRec, NoSession, OnCall, ShowsWhatIsThere, LinkInv, Latest, placeCallTo, Begins
  <2>3. QED
    BY <2>1, <2>2
<1>11. CASE onCallReceived
  <2>1. LinkInv'
    BY <1>11, OwnCall DEF Booleans, LinkTypes, LinkInv, onCallReceived, Begins
  <2>2. ShowsWhatIsThere'
    BY <1>11, OwnCall, NamedSession DEF Booleans, LinkTypes, CallTypes, SessionRec, NoSession, OnCall, ShowsWhatIsThere, LinkInv, Latest, onCallReceived, Begins
  <2>3. QED
    BY <2>1, <2>2
<1>12. CASE onCallAnswered
  <2>1. LinkInv'
    BY <1>12, OwnCall DEF Booleans, LinkTypes, LinkInv, onCallAnswered, isCurrent
  <2>2. ShowsWhatIsThere'
    BY <1>12, OwnCall, NamedSession DEF Booleans, LinkTypes, CallTypes, SessionRec, NoSession, OnCall, ShowsWhatIsThere, LinkInv, Latest, onCallAnswered, isCurrent
  <2>3. QED
    BY <2>1, <2>2
<1>13. CASE Ends
  <2>1. LinkInv'
    BY <1>13, OwnCall DEF Booleans, LinkTypes, LinkInv, Ends, onCallHangup, isCurrent
  <2>2. ShowsWhatIsThere'
    BY <1>13, OwnCall, NamedSession DEF Booleans, LinkTypes, CallTypes, SessionRec, NoSession, OnCall, ShowsWhatIsThere, LinkInv, Latest, Ends, onCallHangup, isCurrent
  <2>3. QED
    BY <2>1, <2>2
<1>14. CASE AgentHangsUp
  <2>1. UNCHANGED <<step, timer, reconnecting, up, stopped>>
    BY <1>14 DEF AgentHangsUp
  <2>2. Cancelled \/ Hung(disposing) \/ UNCHANGED <<session, phase>>
    BY <1>14, HangupShape DEF AgentHangsUp, Booleans
  <2>3. LinkInv'
    BY <2>1, <2>2 DEF LinkInv, Cancelled, Hung
  <2>4. ShowsWhatIsThere'
    BY <2>1, <2>2, OwnCall DEF ShowsWhatIsThere, Latest, Cancelled, Hung, OnCall
  <2>5. QED
    BY <2>3, <2>4
<1>15. CASE Chooses
  <2>1. LinkInv'
    BY <1>15, OwnCall DEF Booleans, LinkTypes, LinkInv, Chooses
  <2>2. ShowsWhatIsThere'
    BY <1>15, OwnCall, NamedSession DEF Booleans, LinkTypes, CallTypes, SessionRec, NoSession, OnCall, ShowsWhatIsThere, LinkInv, Latest, Chooses
  <2>3. QED
    BY <2>1, <2>2
<1>16. CASE clearWrapUp
  <2>1. LinkInv'
    BY <1>16, OwnCall DEF Booleans, LinkTypes, LinkInv, clearWrapUp
  <2>2. ShowsWhatIsThere'
    BY <1>16, OwnCall, NamedSession DEF Booleans, LinkTypes, CallTypes, SessionRec, NoSession, OnCall, ShowsWhatIsThere, LinkInv, Latest, clearWrapUp
  <2>3. QED
    BY <2>1, <2>2
<1>17. ASSUME NEW m \in {"preview", "auto"}, Enters(m) PROVE LinkInv' /\ ShowsWhatIsThere'
  <2>1. LinkInv'
    BY <1>17, OwnCall DEF Booleans, LinkTypes, LinkInv, Enters
  <2>2. ShowsWhatIsThere'
    BY <1>17, OwnCall, NamedSession DEF Booleans, LinkTypes, CallTypes, SessionRec, NoSession, OnCall, ShowsWhatIsThere, LinkInv, Latest, Enters
  <2>3. QED
    BY <2>1, <2>2
<1>18. CASE Exits
  <2>1. LinkInv'
    BY <1>18, OwnCall DEF Booleans, LinkTypes, LinkInv, Exits
  <2>2. ShowsWhatIsThere'
    BY <1>18, OwnCall, NamedSession DEF Booleans, LinkTypes, CallTypes, SessionRec, NoSession, OnCall, ShowsWhatIsThere, LinkInv, Latest, Exits
  <2>3. QED
    BY <2>1, <2>2
<1>19. ASSUME NEW p \in posts, PostReturns(p) PROVE LinkInv' /\ ShowsWhatIsThere'
  <2>1. LinkInv'
    BY <1>19, OwnCall DEF Booleans, LinkTypes, LinkInv, PostReturns
  <2>2. ShowsWhatIsThere'
    BY <1>19, OwnCall, NamedSession DEF Booleans, LinkTypes, CallTypes, SessionRec, NoSession, OnCall, ShowsWhatIsThere, LinkInv, Latest, PostReturns
  <2>3. QED
    BY <2>1, <2>2
<1>20. CASE SubmitsToCampaign
  <2>1. UNCHANGED <<step, timer, reconnecting, up, stopped>>
    BY <1>20 DEF SubmitsToCampaign
  <2>2. Cancelled \/ Hung(TRUE) \/ UNCHANGED <<session, phase>>
    BY <1>20, HangupShape DEF SubmitsToCampaign
  <2>3. LinkInv'
    BY <2>1, <2>2 DEF LinkInv, Cancelled, Hung
  <2>4. ShowsWhatIsThere'
    BY <2>1, <2>2, OwnCall DEF ShowsWhatIsThere, Latest, Cancelled, Hung, OnCall
  <2>5. QED
    BY <2>3, <2>4
<1>21. CASE SubmitsOnCall
  <2>1. UNCHANGED <<step, timer, reconnecting, up, stopped>>
    BY <1>21 DEF SubmitsOnCall
  <2>2. Cancelled \/ Hung(FALSE) \/ UNCHANGED <<session, phase>>
    BY <1>21, HangupShape DEF SubmitsOnCall
  <2>3. LinkInv'
    BY <2>1, <2>2 DEF LinkInv, Cancelled, Hung
  <2>4. ShowsWhatIsThere'
    BY <2>1, <2>2, OwnCall DEF ShowsWhatIsThere, Latest, Cancelled, Hung, OnCall
  <2>5. QED
    BY <2>3, <2>4
<1>22. CASE SubmitsToLog
  <2>1. LinkInv'
    BY <1>22, OwnCall DEF Booleans, LinkTypes, LinkInv, SubmitsToLog
  <2>2. ShowsWhatIsThere'
    BY <1>22, OwnCall, NamedSession DEF Booleans, LinkTypes, CallTypes, SessionRec, NoSession, OnCall, ShowsWhatIsThere, LinkInv, Latest, SubmitsToLog
  <2>3. QED
    BY <2>1, <2>2
<1>23. CASE SubmitsNewLog
  <2>1. LinkInv'
    BY <1>23, OwnCall DEF Booleans, LinkTypes, LinkInv, SubmitsNewLog
  <2>2. ShowsWhatIsThere'
    BY <1>23, OwnCall, NamedSession DEF Booleans, LinkTypes, CallTypes, SessionRec, NoSession, OnCall, ShowsWhatIsThere, LinkInv, Latest, SubmitsNewLog
  <2>3. QED
    BY <2>1, <2>2
<1>24. CASE Submitted
  <2>1. LinkInv'
    BY <1>24, OwnCall DEF Booleans, LinkTypes, LinkInv, Submitted
  <2>2. ShowsWhatIsThere'
    BY <1>24, OwnCall, NamedSession DEF Booleans, LinkTypes, CallTypes, SessionRec, NoSession, OnCall, ShowsWhatIsThere, LinkInv, Latest, Submitted
  <2>3. QED
    BY <2>1, <2>2
<1>25. QED
  BY <1>1, <1>2, <1>3, <1>4, <1>5, <1>6, <1>7, <1>8, <1>9, <1>10, <1>11, <1>12, <1>13, <1>14, <1>15, <1>16, <1>17, <1>18, <1>19, <1>20, <1>21, <1>22, <1>23, <1>24 DEF SoftphoneNext
-----------------------------------------------------------------------------
\* The call on the line and the disposition under way.
LEMMA BeginsCall ==
  ASSUME CallTypes, CallInv, NEW is \in {"calling", "ringing"}, NEW ph \in OnCall, NEW pending,
         Begins(is, ph, pending)
  PROVE  CallInv'
<1>1. /\ session'.is = is /\ session'.id = calls + 1 /\ call' = calls + 1 /\ calls' = calls + 1
      /\ phase' = ph /\ wrapUp' = FALSE
      /\ UNCHANGED <<submit, posts, disposing>>
  BY DEF Begins
<1>2. disposing => calls + 1 \in spoiled'
  BY DEF Begins
<1>3. calls + 1 # 0 /\ session'.is # "none"
  BY <1>1 DEF CallTypes, Ids
<1>4. QED
  BY <1>1, <1>2, <1>3 DEF CallInv

LEMMA CallStep ==
  ASSUME Booleans, LinkTypes, CallTypes, LogTypes, LinkInv, ShowsWhatIsThere, CallInv, SoftphoneNext
  PROVE  CallInv'
<1>. USE DEF callVars, linkVars, logVars
<1>1. CASE TimerFires
  BY <1>1 DEF Booleans, LinkTypes, CallTypes, SessionRec, NoSession, NoSubmit, OnCall, CallInv, LinkInv, TimerFires, connect
<1>2. CASE retryNow
  BY <1>2 DEF Booleans, LinkTypes, CallTypes, SessionRec, NoSession, NoSubmit, OnCall, CallInv, LinkInv, retryNow, connect
<1>3. CASE Disconnects
  BY <1>3 DEF Booleans, LinkTypes, CallTypes, SessionRec, NoSession, NoSubmit, OnCall, CallInv, LinkInv, Disconnects, onCallHangup, isCurrent, Latest
<1>4. CASE ConfigArrives
  BY <1>4 DEF Booleans, LinkTypes, CallTypes, SessionRec, NoSession, NoSubmit, OnCall, CallInv, LinkInv, ConfigArrives
<1>5. CASE AttemptFails
  BY <1>5 DEF Booleans, LinkTypes, CallTypes, SessionRec, NoSession, NoSubmit, OnCall, CallInv, LinkInv, AttemptFails, scheduleReconnect, KeepsPlan, isCurrent
<1>6. CASE Registers
  BY <1>6 DEF Booleans, LinkTypes, CallTypes, SessionRec, NoSession, NoSubmit, OnCall, CallInv, LinkInv, Registers, Registered, isCurrent
<1>7. CASE StatusSet
  BY <1>7 DEF Booleans, LinkTypes, CallTypes, SessionRec, NoSession, NoSubmit, OnCall, CallInv, LinkInv, StatusSet
<1>8. CASE onServerDisconnect
  BY <1>8 DEF Booleans, LinkTypes, CallTypes, SessionRec, NoSession, NoSubmit, OnCall, CallInv, LinkInv, onServerDisconnect, scheduleReconnect, KeepsPlan, isCurrent
<1>9. CASE Unmounts
  BY <1>9 DEF Booleans, LinkTypes, CallTypes, SessionRec, NoSession, NoSubmit, OnCall, CallInv, LinkInv, Unmounts
<1>10. CASE placeCallTo
  BY <1>10, BeginsCall DEF placeCallTo, OnCall
<1>11. CASE onCallReceived
  BY <1>11, BeginsCall DEF onCallReceived, OnCall
<1>12. CASE onCallAnswered
  BY <1>12 DEF Booleans, LinkTypes, CallTypes, SessionRec, NoSession, NoSubmit, OnCall, CallInv, LinkInv, onCallAnswered, isCurrent
<1>13. CASE Ends
  <2>1. Hung(disposing)
    BY <1>13, EndShape
  <2>2. QED
    <3>1. UNCHANGED <<call, calls, submit, disposing, spoiled>>
      BY <1>13 DEF Ends
    <3>2. session'.is = "none" /\ session'.id = 0 /\ session' = NoSession /\ phase' \notin OnCall
      BY <2>1 DEF Hung, NoSession, OnCall
    <3>3. \A p \in posts' : p.at = "submit" => p \in posts
      BY <2>1 DEF Hung, LogsUnless, LogPost
    <3>4. posts \subseteq posts'
      BY <2>1 DEF Hung, LogsUnless
    <3>5. call # 0
      BY <2>1 DEF Hung, CallInv, CallTypes, SessionRec, NoSession
    <3>6. QED
      BY <3>1, <3>2, <3>3, <3>4, <3>5 DEF CallInv
<1>14. CASE AgentHangsUp
  <2>1. Cancelled \/ Hung(disposing) \/ UNCHANGED <<session, phase, wrapUp, posts>>
    BY <1>14, HangupShape DEF AgentHangsUp, Booleans
  <2>2. CASE Cancelled
    BY <1>14, <2>2 DEF AgentHangsUp, CallInv, Cancelled, NoSession
  <2>3. CASE Hung(disposing)
    BY <1>14, <2>3 DEF AgentHangsUp, CallInv, Hung, LogsUnless, LogPost, NoSession, OnCall
  <2>4. CASE UNCHANGED <<session, phase, wrapUp, posts>>
    BY <1>14, <2>4 DEF AgentHangsUp, CallInv
  <2>5. QED
    BY <2>1, <2>2, <2>3, <2>4
<1>15. CASE Chooses
  BY <1>15 DEF Booleans, LinkTypes, CallTypes, SessionRec, NoSession, NoSubmit, OnCall, CallInv, LinkInv, Chooses
<1>16. CASE clearWrapUp
  BY <1>16 DEF Booleans, LinkTypes, CallTypes, SessionRec, NoSession, NoSubmit, OnCall, CallInv, LinkInv, clearWrapUp
<1>17. ASSUME NEW m \in {"preview", "auto"}, Enters(m) PROVE CallInv'
  BY <1>17 DEF Booleans, LinkTypes, CallTypes, SessionRec, NoSession, NoSubmit, OnCall, CallInv, LinkInv, Enters
<1>18. CASE Exits
  BY <1>18 DEF Booleans, LinkTypes, CallTypes, SessionRec, NoSession, NoSubmit, OnCall, CallInv, LinkInv, Exits
<1>19. ASSUME NEW p \in posts, PostReturns(p) PROVE CallInv'
  BY <1>19 DEF Booleans, LinkTypes, CallTypes, SessionRec, NoSession, NoSubmit, OnCall, CallInv, LinkInv, PostReturns
<1>20. CASE SubmitsToCampaign
  <2>1. /\ UNCHANGED <<call, calls>> /\ submit'.is = "sent" /\ submit'.as # "adhoc"
        /\ submit = NoSubmit /\ session.is # "cancelled" /\ ~disposing
    BY <1>20 DEF SubmitsToCampaign, SubmitIn, Submitting, CallInv, NoSubmit, Booleans
  <2>2. posts' = posts
    BY <1>20 DEF SubmitsToCampaign, hangup, onCallHangup, LogsEnd
  <2>3. ~\E p \in posts' : p.at = "submit"
    BY <2>1, <2>2 DEF CallInv, NoSubmit
  <2>4. spoiled \subseteq spoiled' /\ (Hurried => call \in spoiled')
    BY <1>20 DEF SubmitsToCampaign
  <2>5. CASE phase \in OnCall
    <3>1. Cancelled \/ Hung(TRUE) \/ (stopped /\ session = NoSession /\ UNCHANGED <<session, phase, wrapUp, posts>>)
      BY <1>20, <2>5, HangupShape DEF SubmitsToCampaign
    <3>2. CASE Cancelled
      BY <2>1, <2>3, <2>4, <2>5, <3>2 DEF CallInv, Cancelled, Hurried
    <3>3. CASE Hung(TRUE)
      <4>1. session'.is = "none" /\ session'.id = 0 /\ session' = NoSession /\ phase' \notin OnCall
        BY <3>3 DEF Hung, NoSession, OnCall
      <4>2. QED
        BY <2>1, <2>3, <2>4, <2>5, <4>1 DEF CallInv
    <3>4. CASE session = NoSession /\ UNCHANGED <<session, phase, wrapUp, posts>>
      BY <2>1, <2>3, <2>4, <2>5, <3>4 DEF CallInv
    <3>5. QED
      BY <3>1, <3>2, <3>3, <3>4
  <2>6. CASE phase \notin OnCall
    <3>1. UNCHANGED <<disposing, session, phase, wrapUp, posts>>
      BY <1>20, <2>6 DEF SubmitsToCampaign
    <3>2. QED
      BY <2>1, <2>3, <2>4, <3>1 DEF CallInv
  <2>7. QED
    BY <2>5, <2>6
<1>21. CASE SubmitsOnCall
  <2>1. Cancelled \/ Hung(FALSE) \/ UNCHANGED <<session, phase, wrapUp, posts>>
    BY <1>21, HangupShape DEF SubmitsOnCall, Booleans
  <2>2. CASE Cancelled
    BY <1>21, <2>2 DEF SubmitsOnCall, CallInv, Cancelled, NoSession
  <2>3. CASE Hung(FALSE)
    BY <1>21, <2>3 DEF SubmitsOnCall, CallInv, Hung, LogsUnless, LogPost, NoSession, OnCall
  <2>4. CASE UNCHANGED <<session, phase, wrapUp, posts>>
    BY <1>21, <2>4 DEF SubmitsOnCall, CallInv
  <2>5. QED
    BY <2>1, <2>2, <2>3, <2>4
<1>22. CASE SubmitsToLog
  BY <1>22 DEF Booleans, LinkTypes, CallTypes, SessionRec, NoSession, NoSubmit, OnCall, CallInv, LinkInv, SubmitsToLog, SubmitIn, Submitting
<1>23. CASE SubmitsNewLog
  <2>1. /\ UNCHANGED <<call, calls, session, phase, wrapUp, disposing>> /\ submit'.is = "logs"
        /\ submit = NoSubmit /\ ~disposing /\ spoiled \subseteq spoiled'
    BY <1>23 DEF SubmitsNewLog, SubmitIn, Submitting, CallInv, NoSubmit, Booleans
  <2>2. \A p \in posts : p.at # "submit"
    BY <2>1 DEF CallInv, NoSubmit
  <2>3. posts' = posts \cup {LogPost("submit", chosen)} /\ LogPost("submit", chosen).at = "submit"
    BY <1>23 DEF SubmitsNewLog, LogPost
  <2>4. QED
    BY <2>1, <2>2, <2>3 DEF CallInv
<1>24. CASE Submitted
  BY <1>24 DEF Booleans, LinkTypes, CallTypes, SessionRec, NoSession, NoSubmit, OnCall, CallInv, LinkInv, Submitted
<1>25. QED
  BY <1>1, <1>2, <1>3, <1>4, <1>5, <1>6, <1>7, <1>8, <1>9, <1>10, <1>11, <1>12, <1>13, <1>14, <1>15, <1>16, <1>17, <1>18, <1>19, <1>20, <1>21, <1>22, <1>23, <1>24 DEF SoftphoneNext
-----------------------------------------------------------------------------
\* The preview session's wrap-up.
\* Most of the connection's steps leave the calls and logs alone.
LEMMA QuietSteps ==
  ASSUME \/ TimerFires \/ retryNow \/ ConfigArrives \/ AttemptFails \/ Registers \/ StatusSet
         \/ onServerDisconnect
  PROVE  UNCHANGED <<callVars, mode, chosen, wrapUp, logVars, spoiled, odd>>
BY DEF TimerFires, retryNow, ConfigArrives, AttemptFails, Registers, StatusSet, onServerDisconnect

\* The end of a call that no disposition under way is about.
LEMMA HungInWrapUp ==
  ASSUME CallInv, Hung(disposing), UNCHANGED <<submit, disposing, mode, call>>, disposing \in BOOLEAN
  PROVE  WrapUpLogged'
<1>1. CASE disposing
  BY <1>1 DEF CallInv, WrapUpLogged, NoSubmit
<1>2. CASE ~disposing
  <2>1. LogPost("end", chosen) \in posts' /\ LogPost("end", chosen).of = call
        /\ (mode = "preview" => LogPost("end", chosen).as = "preview")
    BY <1>2 DEF Hung, LogsUnless, LogPost
  <2>2. QED
    BY <2>1 DEF WrapUpLogged
<1>3. QED
  BY <1>1, <1>2

LEMMA WrapUpStep ==
  ASSUME Booleans, LinkTypes, CallTypes, LogTypes, LinkInv, ShowsWhatIsThere, CallInv,
         WrapUpLogged, SoftphoneNext
  PROVE  WrapUpLogged'
<1>. USE DEF callVars, linkVars, logVars
<1>1. CASE \/ TimerFires \/ retryNow \/ ConfigArrives \/ AttemptFails \/ Registers \/ StatusSet
           \/ onServerDisconnect
  <2>1. UNCHANGED <<call, mode, wrapUp, submit, posts, previewLogId, spoiled>>
    BY <1>1, QuietSteps
  <2>2. QED
    BY <2>1 DEF WrapUpLogged
<1>2. CASE Disconnects
  BY <1>2 DEF LogTypes, PostRec, Calls, CallTypes, NoSubmit, CallInv, WrapUpLogged, Disconnects, onCallHangup, isCurrent, Latest
<1>3. CASE Unmounts
  BY <1>3 DEF LogTypes, PostRec, Calls, CallTypes, NoSubmit, CallInv, WrapUpLogged, Unmounts
<1>4. CASE placeCallTo
  BY <1>4 DEF LogTypes, PostRec, Calls, CallTypes, NoSubmit, CallInv, WrapUpLogged, placeCallTo, Begins
<1>5. CASE onCallReceived
  BY <1>5 DEF LogTypes, PostRec, Calls, CallTypes, NoSubmit, CallInv, WrapUpLogged, onCallReceived, Begins
<1>6. CASE onCallAnswered
  BY <1>6 DEF LogTypes, PostRec, Calls, CallTypes, NoSubmit, CallInv, WrapUpLogged, onCallAnswered, isCurrent
<1>7. CASE Ends
  <2>1. Hung(disposing)
    BY <1>7, EndShape
  <2>2. QED
    BY <1>7, <2>1, HungInWrapUp DEF Ends, Booleans
<1>8. CASE AgentHangsUp
  <2>1. Cancelled \/ Hung(disposing) \/ UNCHANGED <<session, phase, wrapUp, posts>>
    BY <1>8, HangupShape DEF AgentHangsUp, Booleans
  <2>2. CASE Hung(disposing)
    BY <1>8, <2>2, HungInWrapUp DEF AgentHangsUp, Booleans
  <2>3. CASE UNCHANGED <<wrapUp, posts>>
    BY <1>8, <2>3 DEF AgentHangsUp, WrapUpLogged
  <2>4. QED
    BY <2>1, <2>2, <2>3 DEF Cancelled
<1>9. CASE Chooses
  BY <1>9 DEF LogTypes, PostRec, Calls, CallTypes, NoSubmit, CallInv, WrapUpLogged, Chooses
<1>10. CASE clearWrapUp
  BY <1>10 DEF LogTypes, PostRec, Calls, CallTypes, NoSubmit, CallInv, WrapUpLogged, clearWrapUp
<1>11. ASSUME NEW m \in {"preview", "auto"}, Enters(m) PROVE WrapUpLogged'
  BY <1>11 DEF LogTypes, PostRec, Calls, CallTypes, NoSubmit, CallInv, WrapUpLogged, Enters
<1>12. CASE Exits
  BY <1>12 DEF LogTypes, PostRec, Calls, CallTypes, NoSubmit, CallInv, WrapUpLogged, Exits
<1>13. ASSUME NEW p \in posts, PostReturns(p) PROVE WrapUpLogged'
  <2>1. p.of # 0
    BY DEF LogTypes, PostRec, Calls
  <2>2. CASE p.at = "submit"
    BY <1>13, <2>2 DEF PostReturns, WrapUpLogged
  <2>3. CASE p.at # "submit" /\ p.as = "log"
    <3>1. /\ UNCHANGED <<wrapUp, mode, submit, call, spoiled, previewLogId>>
          /\ \A q \in posts : q.as = "preview" => q \in posts'
      BY <1>13, <2>3 DEF PostReturns
    <3>2. QED
      BY <3>1 DEF WrapUpLogged
  <2>4. CASE p.as # "log"
    BY <1>13, <2>1, <2>4 DEF PostReturns, WrapUpLogged
  <2>5. QED
    BY <2>2, <2>3, <2>4
<1>14. CASE SubmitsToCampaign
  <2>1. submit'.is = "sent"
    BY <1>14 DEF SubmitsToCampaign, SubmitIn
  <2>2. QED
    BY <2>1 DEF WrapUpLogged, NoSubmit
<1>15. CASE SubmitsOnCall
  BY <1>15 DEF LogTypes, PostRec, Calls, CallTypes, NoSubmit, CallInv, WrapUpLogged, SubmitsOnCall
<1>16. CASE SubmitsToLog
  BY <1>16 DEF LogTypes, PostRec, Calls, CallTypes, NoSubmit, CallInv, WrapUpLogged, SubmitsToLog, SubmitIn, Submitting
<1>17. CASE SubmitsNewLog
  BY <1>17 DEF LogTypes, PostRec, Calls, CallTypes, NoSubmit, CallInv, WrapUpLogged, SubmitsNewLog, SubmitIn, LogPost, Submitting
<1>18. CASE Submitted
  BY <1>18 DEF LogTypes, PostRec, Calls, CallTypes, NoSubmit, CallInv, WrapUpLogged, Submitted
<1>19. QED
  BY <1>1, <1>2, <1>3, <1>4, <1>5, <1>6, <1>7, <1>8, <1>9, <1>10, <1>11, <1>12, <1>13, <1>14, <1>15, <1>16, <1>17, <1>18 DEF SoftphoneNext
-----------------------------------------------------------------------------
\* Where each call is.

\* A step that writes no log and sends none.
LEMMA SamePlaces ==
  ASSUME OnePlace, UNCHANGED <<calls, posts, logs>>, spoiled \subseteq spoiled',
         \A c \in Calls \ spoiled' : (session'.id = c <=> session.id = c) /\ (Due(c)' <=> Due(c)),
         \A c \in Calls : c > calls => ~Due(c)'
  PROVE  OnePlace'
<1>1. ASSUME NEW c \in Calls
      PROVE  /\ c <= calls /\ c \notin spoiled' => PlaceOf(c)'
             /\ c > calls => logs[c] = 0 /\ ~Posted(c)' /\ ~Due(c)'
  BY DEF OnePlace, PlaceOf, Posted
<1>2. QED
  BY <1>1 DEF OnePlace

\* The call that ends has its log sent, unless it is spoiled.
LEMMA HungPlaces ==
  ASSUME CallTypes, CallInv, OnePlace, NEW off \in BOOLEAN, Hung(off), off => call \in spoiled,
         UNCHANGED <<calls, submit, logs, spoiled>>
  PROVE  OnePlace'
<1>. DEFINE new == LogPost("end", chosen)
<1>1. new.of = call /\ session.id = call /\ session'.id = 0 /\ call = calls
  BY DEF Hung, LogPost, CallInv, NoSession
<1>2. posts' = IF off THEN posts ELSE posts \cup {new}
  BY DEF Hung, LogsUnless
<1>. HIDE DEF new
<1>3. ASSUME NEW c \in Calls, c # call
      PROVE  /\ Posted(c)' <=> Posted(c)
             /\ PlaceOf(c) => PlaceOf(c)'
  <2>1. \A p : p.of = c => (p \in posts' <=> p \in posts)
    BY <1>1, <1>2, <1>3
  <2>2. session.id # c /\ session'.id # c
    BY <1>1, <1>3 DEF Calls
  <2>3. Posted(c)' <=> Posted(c)
    BY <2>1 DEF Posted
  <2>4. Due(c)' <=> Due(c)
    BY DEF Due
  <2>5. PlaceOf(c) => \A p \in posts', q \in posts' : p.of = c /\ q.of = c => p = q
    BY <2>1 DEF PlaceOf
  <2>6. QED
    BY <2>2, <2>3, <2>4, <2>5 DEF PlaceOf
<1>4. ASSUME NEW c \in Calls, c = call, c \notin spoiled
      PROVE  PlaceOf(c)'
  <2>1. PlaceOf(c) /\ posts' = posts \cup {new}
    BY <1>1, <1>2, <1>4 DEF OnePlace, CallTypes, Ids
  <2>2. ~Posted(c) /\ ~Due(c) /\ logs[c] = 0
    BY <2>1, <1>1, <1>4 DEF PlaceOf
  <2>3. \A p \in posts' : p.of = c => p = new
    BY <2>1, <2>2 DEF Posted
  <2>4. new \in posts' /\ new.of = c
    BY <2>1, <1>1, <1>4
  <2>5. ~Due(c)' /\ logs'[c] = 0 /\ session'.id # c
    BY <2>2, <1>1, <1>4 DEF Due, Calls
  <2>6. QED
    BY <2>3, <2>4, <2>5 DEF PlaceOf, Posted
<1>5. ASSUME NEW c \in Calls
      PROVE  /\ c <= calls /\ c \notin spoiled => PlaceOf(c)'
             /\ c > calls => logs[c] = 0 /\ ~Posted(c)' /\ ~Due(c)'
  <2>1. CASE c = call
    BY <2>1, <1>1, <1>4, SoftphoneAssumption DEF Calls
  <2>2. CASE c # call
    <3>1. Due(c)' <=> Due(c)
      BY DEF Due
    <3>2. QED
      BY <2>2, <3>1, <1>3 DEF OnePlace
  <2>3. QED
    BY <2>1, <2>2
<1>6. QED
  BY <1>5 DEF OnePlace

LEMMA BeginsPlaces ==
  ASSUME CallTypes, CallInv, OnePlace, NEW is, NEW ph, NEW pending, Begins(is, ph, pending)
  PROVE  OnePlace'
<1>1. /\ session.id = 0 /\ session'.id = calls + 1 /\ calls' = calls + 1
      /\ UNCHANGED <<posts, submit, logs>> /\ spoiled \subseteq spoiled'
  BY DEF Begins, NoSession
<1>2. ASSUME NEW c \in Calls
      PROVE  /\ c <= calls' /\ c \notin spoiled' => PlaceOf(c)'
             /\ c > calls' => logs[c] = 0 /\ ~Posted(c)' /\ ~Due(c)'
  <2>1. (Posted(c)' <=> Posted(c)) /\ (Due(c)' <=> Due(c))
    BY <1>1 DEF Posted, Due
  <2>2. calls \in Nat /\ c \in Nat /\ c # 0
    BY SoftphoneAssumption DEF CallTypes, Ids, Calls
  <2>3. CASE c <= calls
    BY <1>1, <2>1, <2>2, <2>3 DEF OnePlace, PlaceOf
  <2>4. CASE c = calls + 1
    <3>1. logs[c] = 0 /\ ~Posted(c) /\ ~Due(c)
      BY <2>2, <2>4 DEF OnePlace
    <3>2. QED
      BY <1>1, <2>1, <2>2, <2>4, <3>1 DEF PlaceOf, Posted
  <2>5. CASE c > calls + 1
    BY <1>1, <2>1, <2>2, <2>5 DEF OnePlace
  <2>6. QED
    BY <2>2, <2>3, <2>4, <2>5
<1>3. QED
  BY <1>1, <1>2 DEF OnePlace

\* A log arrives: that of its call, which has no other.
LEMMA PostPlaces ==
  ASSUME CallTypes, LogTypes, CallInv, OnePlace, NEW p \in posts, PostReturns(p)
  PROVE  OnePlace'
<1>. USE DEF callVars, linkVars
<1>1. /\ UNCHANGED <<session, calls, spoiled>> /\ posts' = posts \ {p} /\ p.of \in Calls
      /\ logs' = [logs EXCEPT ![p.of] = IF logs[p.of] < 2 THEN logs[p.of] + 1 ELSE 2]
  BY DEF PostReturns, LogTypes, PostRec
<1>2. ASSUME NEW c \in Calls PROVE Due(c)' <=> Due(c)
  <2>1. CASE p.at = "submit"
    BY <2>1 DEF CallInv, PostReturns, Due, NoSubmit
  <2>2. CASE p.at # "submit"
    BY <2>2 DEF PostReturns, Due
  <2>3. QED
    BY <2>1, <2>2
<1>3. ASSUME NEW c \in Calls
      PROVE  /\ c <= calls' /\ c \notin spoiled' => PlaceOf(c)'
             /\ c > calls' => logs'[c] = 0 /\ ~Posted(c)' /\ ~Due(c)'
  <2>1. CASE c # p.of
    <3>1. (Posted(c)' <=> Posted(c)) /\ logs'[c] = logs[c]
      BY <1>1, <2>1 DEF Posted, LogTypes
    <3>2. QED
      BY <1>1, <1>2, <3>1 DEF OnePlace, PlaceOf
  <2>2. CASE c = p.of
    <3>1. Posted(c)
      BY <2>2 DEF Posted
    <3>2. CASE c \notin spoiled /\ c <= calls
      <4>1. session.id # c /\ ~Due(c) /\ logs[c] = 0 /\ \A q \in posts : q.of = c => p = q
        BY <3>1, <3>2, <2>2 DEF OnePlace, PlaceOf
      <4>2. logs'[c] = 1
        BY <1>1, <2>2, <4>1 DEF LogTypes
      <4>3. ~Posted(c)'
        BY <1>1, <4>1 DEF Posted
      <4>4. QED
        BY <1>1, <1>2, <3>2, <4>1, <4>2, <4>3, SoftphoneAssumption DEF PlaceOf, Posted, CallTypes, Ids, Calls
    <3>3. QED
      BY <1>1, <3>1, <3>2 DEF OnePlace
  <2>3. QED
    BY <2>1, <2>2
<1>4. QED
  BY <1>3 DEF OnePlace

\* The answer to a disposition: that of a preview call without a log is its log.
LEMMA SubmittedPlaces ==
  ASSUME CallTypes, LogTypes, OnePlace, Submitted
  PROVE  OnePlace'
<1>. USE DEF callVars, linkVars
<1>1. UNCHANGED <<session, calls, spoiled, posts>> /\ submit.is = "sent" /\ submit' = NoSubmit
  BY DEF Submitted
<1>2. logs' = IF submit.to = 0 /\ submit.as = "preview"
                THEN [logs EXCEPT ![submit.of] = IF logs[submit.of] < 2 THEN logs[submit.of] + 1 ELSE 2]
                ELSE logs
  BY DEF Submitted
<1>3. ASSUME NEW c \in Calls
      PROVE  /\ c <= calls' /\ c \notin spoiled' => PlaceOf(c)'
             /\ c > calls' => logs'[c] = 0 /\ ~Posted(c)' /\ ~Due(c)'
  <2>1. ~Due(c)' /\ (Posted(c)' <=> Posted(c))
    BY <1>1 DEF Due, Posted, NoSubmit
  <2>2. CASE ~Due(c)
    <3>1. logs'[c] = logs[c]
      BY <1>1, <1>2, <2>2 DEF Due, LogTypes
    <3>2. QED
      BY <1>1, <2>1, <2>2, <3>1 DEF OnePlace, PlaceOf
  <2>3. CASE Due(c)
    <3>1. submit.of = c /\ submit.to = 0 /\ submit.as = "preview"
      BY <2>3 DEF Due
    <3>2. CASE c <= calls /\ c \notin spoiled
      <4>1. session.id # c /\ ~Posted(c) /\ logs[c] = 0
        BY <2>3, <3>2 DEF OnePlace, PlaceOf
      <4>2. logs'[c] = 1
        BY <1>2, <3>1, <4>1 DEF LogTypes
      <4>3. QED
        BY <1>1, <2>1, <3>2, <4>1, <4>2, SoftphoneAssumption DEF PlaceOf, Posted, CallTypes, Ids, Calls
    <3>3. QED
      BY <1>1, <2>3, <3>2 DEF OnePlace
  <2>4. QED
    BY <2>2, <2>3
<1>4. QED
  BY <1>3 DEF OnePlace

LEMMA PlaceStep ==
  ASSUME Booleans, LinkTypes, CallTypes, LogTypes, LinkInv, ShowsWhatIsThere, CallInv,
         WrapUpLogged, OnePlace, SoftphoneNext
  PROVE  OnePlace'
<1>. USE DEF callVars, linkVars, logVars
<1>0. /\ \A c \in Calls : c > calls => ~Due(c)
      /\ call \in Ids /\ calls \in Ids /\ call = calls
  BY DEF OnePlace, CallTypes, CallInv
<1>1. CASE \/ TimerFires \/ retryNow \/ ConfigArrives \/ AttemptFails \/ Registers \/ StatusSet
           \/ onServerDisconnect
  <2>1. UNCHANGED <<session, calls, submit, posts, logs, spoiled>>
    BY <1>1, QuietSteps
  <2>2. QED
    BY <1>0, <2>1, SamePlaces DEF Due
<1>2. CASE Disconnects \/ Unmounts
  <2>1. UNCHANGED <<calls, submit, posts, logs>> /\ session' = NoSession
        /\ spoiled' = spoiled \cup ({session.id} \ {0})
    BY <1>2 DEF Disconnects, Unmounts, onCallHangup, isCurrent, Latest
  <2>2. \A c \in Calls \ spoiled' : session'.id # c /\ session.id # c
    BY <2>1 DEF NoSession, Calls
  <2>3. QED
    BY <1>0, <2>1, <2>2, SamePlaces DEF Due
<1>3. CASE placeCallTo \/ onCallReceived
  BY <1>3, BeginsPlaces DEF placeCallTo, onCallReceived
<1>4. CASE \/ onCallAnswered \/ Chooses \/ clearWrapUp \/ Exits
           \/ \E m \in {"preview", "auto"} : Enters(m)
  <2>1. UNCHANGED <<calls, submit, posts, logs, spoiled>> /\ session'.id = session.id
    BY <1>4 DEF onCallAnswered, Chooses, clearWrapUp, Exits, Enters, CallTypes, SessionRec
  <2>2. QED
    BY <1>0, <2>1, SamePlaces DEF Due
<1>5. CASE Ends
  BY <1>5, EndShape, HungPlaces DEF Ends, Booleans, CallInv
<1>6. CASE AgentHangsUp
  <2>1. UNCHANGED <<calls, submit, logs, spoiled>>
    BY <1>6 DEF AgentHangsUp
  <2>2. Cancelled \/ Hung(disposing) \/ UNCHANGED <<session, posts>>
    BY <1>6, HangupShape DEF AgentHangsUp, Booleans
  <2>3. CASE Hung(disposing)
    BY <2>1, <2>3, HungPlaces DEF Booleans, CallInv, Hung
  <2>4. CASE session'.id = session.id /\ posts' = posts
    BY <1>0, <2>1, <2>4, SamePlaces DEF Due
  <2>5. QED
    BY <2>2, <2>3, <2>4 DEF Cancelled
<1>7. ASSUME NEW p \in posts, PostReturns(p)
      PROVE  OnePlace'
  BY <1>7, PostPlaces
<1>8. CASE SubmitsToCampaign
  <2>1. /\ UNCHANGED <<calls, call, logs>> /\ submit = NoSubmit
        /\ submit' = SubmitIn(mode, IF mode = "preview" THEN previewLogId ELSE lastLogId)
        /\ spoiled' = spoiled \cup (IF Hurried \/ Unlogged THEN {call} ELSE {})
        /\ session.is # "cancelled"
    BY <1>8 DEF SubmitsToCampaign, Submitting
  <2>2. posts' = posts
    BY <1>8 DEF SubmitsToCampaign, hangup, onCallHangup, LogsEnd
  <2>3. \A c \in Calls : ~Due(c)
    BY <2>1 DEF Due, NoSubmit
  <2>4. submit'.is = "sent" /\ submit'.of = call /\ submit'.as = mode
        /\ submit'.to = IF mode = "preview" THEN previewLogId ELSE lastLogId
    BY <2>1 DEF SubmitIn
  <2>5. \A c \in Calls : Due(c)' => c = call /\ mode = "preview" /\ previewLogId = 0
    BY <2>1, <2>4 DEF Due
  <2>6. \A c \in Calls : c > calls => ~Due(c)'
    BY <1>0, <2>5 DEF Calls
  <2>7. CASE call \in spoiled' \/ phase \notin OnCall
    <3>1. CASE call \in spoiled'
      <4>1. session'.id = session.id \/ (session.id \in {0, call} /\ session'.id = 0)
        <5>1. CASE phase \in OnCall
          <6>1. Cancelled \/ Hung(TRUE) \/ UNCHANGED <<session, phase, wrapUp, posts>>
            BY <1>8, <5>1, HangupShape DEF SubmitsToCampaign
          <6>2. Hung(TRUE) => session.id = call /\ session'.id = 0
            BY DEF Hung, NoSession, CallInv
          <6>3. QED
            BY <6>1, <6>2 DEF Cancelled
        <5>2. CASE phase \notin OnCall
          BY <1>8, <5>2 DEF SubmitsToCampaign
        <5>3. QED
          BY <5>1, <5>2
      <4>2. QED
        BY <2>1, <2>2, <2>3, <2>5, <2>6, <3>1, <4>1, SamePlaces DEF Calls
    <3>2. CASE phase \notin OnCall /\ call \notin spoiled'
      <4>1. wrapUp /\ ~Hurried /\ session' = session /\ call \notin spoiled
        BY <1>8, <2>1, <3>2 DEF SubmitsToCampaign, Submitting
      <4>2. mode = "preview" => previewLogId # 0
        BY <2>1, <4>1 DEF WrapUpLogged, Hurried
      <4>3. \A c \in Calls : ~Due(c)'
        BY <2>5, <4>2
      <4>4. QED
        BY <2>1, <2>2, <2>3, <2>6, <4>1, <4>3, SamePlaces
    <3>3. QED
      BY <2>7, <3>1, <3>2
  <2>8. CASE call \notin spoiled' /\ phase \in OnCall
    <3>1. call \notin spoiled /\ ~Hurried /\ ~Unlogged /\ spoiled' = spoiled
      BY <2>1, <2>8
    <3>2. mode = "preview" /\ previewLogId = 0
      BY <1>8, <2>8, <3>1 DEF Unlogged, SubmitsToCampaign, CallTypes
    <3>3. session.id = call /\ call # 0
      BY <2>8, <3>1 DEF CallInv
    <3>4. session' = NoSession
      BY <1>8, <2>8, <3>1, <3>3, HangupShape DEF SubmitsToCampaign, Hurried, Cancelled, Hung, NoSession
    <3>5. call \in Calls /\ call <= calls
      BY <1>0, <3>3, SoftphoneAssumption DEF Ids, Calls
    <3>6. PlaceOf(call)
      BY <1>0, <3>1, <3>5 DEF OnePlace
    <3>7. ~Posted(call) /\ logs[call] = 0
      BY <3>3, <3>6 DEF PlaceOf
    <3>8. ASSUME NEW c \in Calls
          PROVE  /\ c <= calls' /\ c \notin spoiled' => PlaceOf(c)'
                 /\ c > calls' => logs'[c] = 0 /\ ~Posted(c)' /\ ~Due(c)'
      <4>1. Posted(c)' <=> Posted(c)
        BY <2>2 DEF Posted
      <4>2. CASE c = call
        <5>1. Due(c)'
          BY <2>4, <3>2, <4>2 DEF Due
        <5>2. session'.id # c
          BY <3>3, <3>4, <4>2 DEF NoSession
        <5>3. QED
          BY <1>0, <2>1, <3>5, <3>7, <4>1, <4>2, <5>1, <5>2, SoftphoneAssumption DEF PlaceOf, Posted, Calls
      <4>3. CASE c # call
        <5>1. ~Due(c)' /\ ~Due(c) /\ session.id # c /\ session'.id # c
          BY <2>3, <2>5, <3>3, <3>4, <4>3 DEF NoSession, Calls
        <5>2. QED
          BY <2>1, <2>2, <3>1, <4>1, <5>1 DEF OnePlace, PlaceOf
      <4>4. QED
        BY <4>2, <4>3
    <3>9. QED
      BY <3>8 DEF OnePlace
  <2>9. QED
    BY <2>7, <2>8
<1>9. CASE SubmitsOnCall
  <2>1. UNCHANGED <<calls, submit, logs, spoiled>>
    BY <1>9 DEF SubmitsOnCall
  <2>2. Cancelled \/ Hung(FALSE) \/ UNCHANGED <<session, posts>>
    BY <1>9, HangupShape DEF SubmitsOnCall
  <2>3. CASE Hung(FALSE)
    BY <2>1, <2>3, HungPlaces
  <2>4. CASE session'.id = session.id /\ posts' = posts
    BY <1>0, <2>1, <2>4, SamePlaces DEF Due
  <2>5. QED
    BY <2>2, <2>3, <2>4 DEF Cancelled
<1>10. CASE SubmitsToLog
  <2>1. UNCHANGED <<session, calls, posts, logs, spoiled>>
    BY <1>10 DEF SubmitsToLog
  <2>2. submit = NoSubmit /\ submit'.as = "adhoc"
    BY <1>10 DEF SubmitsToLog, SubmitIn, Submitting
  <2>3. \A c \in Calls : ~Due(c) /\ ~Due(c)'
    BY <2>2 DEF Due, NoSubmit
  <2>4. QED
    BY <2>1, <2>3, SamePlaces
<1>11. CASE SubmitsNewLog
  <2>. DEFINE new == LogPost("submit", chosen)
  <2>1. /\ UNCHANGED <<session, calls, logs>> /\ spoiled' = spoiled \cup {call}
        /\ posts' = posts \cup {new} /\ new.of = call
    BY <1>11 DEF SubmitsNewLog, LogPost
  <2>. HIDE DEF new
  <2>2. submit = NoSubmit /\ submit'.is = "logs"
    BY <1>11 DEF SubmitsNewLog, SubmitIn, Submitting
  <2>3. \A c \in Calls : ~Due(c) /\ ~Due(c)'
    BY <2>2 DEF Due, NoSubmit
  <2>4. ASSUME NEW c \in Calls
        PROVE  /\ c <= calls' /\ c \notin spoiled' => PlaceOf(c)'
               /\ c > calls' => logs'[c] = 0 /\ ~Posted(c)' /\ ~Due(c)'
    <3>1. CASE c = call
      BY <1>0, <2>1, <3>1, SoftphoneAssumption DEF Calls
    <3>2. CASE c # call
      <4>1. \A p : p.of = c => (p \in posts' <=> p \in posts)
        BY <2>1, <3>2
      <4>2. QED
        BY <2>1, <2>3, <4>1 DEF OnePlace, PlaceOf, Posted
    <3>3. QED
      BY <3>1, <3>2
  <2>5. QED
    BY <2>4 DEF OnePlace
<1>12. CASE Submitted
  BY <1>12, SubmittedPlaces
<1>13. QED
  BY <1>1, <1>2, <1>3, <1>4, <1>5, <1>6, <1>7, <1>8, <1>9, <1>10, <1>11, <1>12 DEF SoftphoneNext
-----------------------------------------------------------------------------
\* What is pending, and the dispositions that have arrived.
LEMMA RelatedThrough ==
  ASSUME NEW a, NEW b, NEW c, Related(a, c), Related(b, c)
  PROVE  Related(a, b)
BY DEF Related

\* A step that adds nothing to what is pending.
LEMMA StillRelated ==
  ASSUME PendingRelated, UNCHANGED <<call, odd>>, posts' \subseteq posts,
         chosen' \in {0, chosen}, lastLogId' \in {0, lastLogId}, previewLogId' \in {0, previewLogId},
         submit' \in {NoSubmit, submit}
  PROVE  PendingRelated'
BY DEF PendingRelated, Related, NoSubmit

\* The end of a call adds its log.
LEMMA HungRelated ==
  ASSUME PendingRelated, NEW off \in BOOLEAN, Hung(off), UNCHANGED <<call, odd, lastLogId, previewLogId>>,
         chosen' \in {0, chosen},
         submit' = submit
  PROVE  PendingRelated'
<1>1. ASSUME NEW p \in posts'
      PROVE  Related(p.of, call) /\ (p.disp # 0 => Related(p.disp, p.of))
  <2>1. CASE p \in posts
    BY <2>1 DEF PendingRelated
  <2>2. CASE p \notin posts
    <3>1. p = LogPost("end", chosen)
      BY <2>2 DEF Hung, LogsUnless
    <3>2. p.of = call /\ p.disp \in {0, chosen}
      BY <3>1 DEF LogPost
    <3>3. QED
      BY <3>2 DEF PendingRelated, Related
  <2>3. QED
    BY <2>1, <2>2
<1>2. QED
  BY <1>1 DEF PendingRelated, Related

\* What is left when a call begins makes it and the call before odd.
LEMMA BeginsRelated ==
  ASSUME CallTypes, LogTypes, CallInv, PendingRelated, DispositionOfItsCall,
         UNCHANGED <<chosen, posts, submit, disps>>, odd \subseteq odd', call' = calls + 1,
         Pending \/ previewLogId' # 0 => {calls + 1} \cup ({call} \ {0}) \subseteq odd',
         lastLogId' = 0, previewLogId' \in {0, previewLogId}
  PROVE  PendingRelated' /\ DispositionOfItsCall'
<1>. DEFINE pending == Pending \/ previewLogId' # 0
<1>1. /\ UNCHANGED <<chosen, posts, submit, disps>> /\ odd \subseteq odd'
      /\ call' = calls + 1 /\ call = calls
      /\ pending => call' \in odd' /\ (call # 0 => call \in odd')
  BY DEF CallInv
<1>2. ASSUME NEW c, c # 0, Related(c, call), pending
      PROVE  Related(c, call)'
  BY <1>1, <1>2 DEF Related
<1>3. \A c, d : Related(c, d) => Related(c, d)'
  BY <1>1 DEF Related
<1>4. \A p \in posts : pending /\ p.of # 0
  BY DEF Pending, LogTypes, PostRec, Calls
<1>5. chosen # 0 => Related(chosen, call)'
  <2>1. chosen # 0 => pending /\ Related(chosen, call)
    BY DEF Pending, PendingRelated
  <2>2. QED
    BY <1>1, <2>1 DEF Related
<1>6. previewLogId' # 0 => Related(previewLogId, call)'
  <2>1. previewLogId' # 0 => previewLogId' = previewLogId /\ pending /\ Related(previewLogId, call)
    BY DEF PendingRelated
  <2>2. QED
    BY <1>1, <2>1 DEF Related
<1>7. ASSUME NEW p \in posts'
      PROVE  Related(p.of, call)' /\ (p.disp # 0 => Related(p.disp, p.of)')
  <2>1. p \in posts /\ p.of # 0 /\ pending
    BY <1>1, <1>4, <1>7
  <2>2. Related(p.of, call) /\ (p.disp # 0 => Related(p.disp, p.of))
    BY <2>1 DEF PendingRelated
  <2>3. QED
    BY <1>2, <1>3, <2>1, <2>2
<1>8. PendingRelated'
  BY <1>1, <1>3, <1>5, <1>6, <1>7 DEF PendingRelated, Related
<1>9. DispositionOfItsCall'
  BY <1>1 DEF DispositionOfItsCall
<1>10. QED
  BY <1>8, <1>9

\* A log arrives, with its disposition.
LEMMA PostRelated ==
  ASSUME LogTypes, PendingRelated, DispositionOfItsCall, NEW p \in posts, PostReturns(p)
  PROVE  PendingRelated' /\ DispositionOfItsCall'
<1>. USE DEF callVars, linkVars
<1>1. /\ UNCHANGED <<call, odd>> /\ posts' \subseteq posts
      /\ lastLogId' \in {lastLogId, p.of} /\ previewLogId' \in {previewLogId, p.of}
  BY DEF PostReturns
<1>2. (submit' = submit /\ chosen' = chosen) \/ (submit' = NoSubmit /\ chosen' = 0)
  BY DEF PostReturns
<1>3. Related(p.of, call) /\ (p.disp # 0 => Related(p.disp, p.of))
  BY DEF PendingRelated
<1>4. PendingRelated'
  BY <1>1, <1>2, <1>3 DEF PendingRelated, Related, NoSubmit
<1>5. disps' = IF p.disp = 0 THEN disps ELSE [disps EXCEPT ![p.of] = disps[p.of] \cup {p.disp}]
  BY DEF PostReturns
<1>6. \A c \in Calls, d \in Calls : d \in disps'[c] => d \in disps[c] \/ (c = p.of /\ d = p.disp /\ d # 0)
  BY <1>5 DEF LogTypes, Calls
<1>7. DispositionOfItsCall'
  BY <1>1, <1>3, <1>6 DEF DispositionOfItsCall, Related
<1>8. QED
  BY <1>4, <1>7

\* The answer to a disposition: it lands on a related call.
LEMMA SubmittedRelated ==
  ASSUME LogTypes, PendingRelated, DispositionOfItsCall, Submitted
  PROVE  PendingRelated' /\ DispositionOfItsCall'
<1>. USE DEF callVars, linkVars
<1>. DEFINE on == IF submit.to = 0 /\ submit.as = "preview" THEN submit.of ELSE submit.to
<1>1. /\ UNCHANGED <<call, odd, posts, lastLogId>> /\ previewLogId' \in {0, previewLogId}
      /\ chosen' = 0 /\ submit' = NoSubmit /\ submit.is = "sent"
  BY DEF Submitted
<1>2. PendingRelated'
  BY <1>1, StillRelated
<1>3. disps' = IF on = 0 \/ chosen = 0 THEN disps ELSE [disps EXCEPT ![on] = disps[on] \cup {chosen}]
  BY DEF Submitted
<1>4. on # 0 /\ chosen # 0 => Related(chosen, on)
  BY <1>1 DEF PendingRelated
<1>. HIDE DEF on
<1>5. \A c \in Calls, d \in Calls :
        d \in disps'[c] => d \in disps[c] \/ (c = on /\ d = chosen /\ on # 0 /\ chosen # 0)
  BY <1>3 DEF LogTypes
<1>6. DispositionOfItsCall'
  BY <1>1, <1>4, <1>5 DEF DispositionOfItsCall, Related
<1>7. QED
  BY <1>2, <1>6

LEMMA RelatedStep ==
  ASSUME Booleans, LinkTypes, CallTypes, LogTypes, LinkInv, ShowsWhatIsThere, CallInv,
         PendingRelated, DispositionOfItsCall, SoftphoneNext
  PROVE  PendingRelated' /\ DispositionOfItsCall'
<1>. USE DEF callVars, linkVars, logVars
<1>0. UNCHANGED <<disps, odd>> => DispositionOfItsCall'
  BY DEF DispositionOfItsCall
<1>1. CASE \/ TimerFires \/ retryNow \/ ConfigArrives \/ AttemptFails \/ Registers \/ StatusSet
           \/ onServerDisconnect
  <2>1. UNCHANGED <<call, odd, posts, chosen, lastLogId, previewLogId, submit, disps>>
    BY <1>1, QuietSteps
  <2>2. QED
    BY <1>0, <2>1, StillRelated
<1>2. CASE Disconnects \/ Unmounts \/ onCallAnswered \/ clearWrapUp \/ Exits
           \/ \E m \in {"preview", "auto"} : Enters(m)
  <2>1. UNCHANGED <<call, odd, posts, lastLogId, previewLogId, submit, disps>> /\ chosen' \in {0, chosen}
    BY <1>2 DEF Disconnects, Unmounts, onCallHangup, isCurrent, Latest, onCallAnswered, clearWrapUp,
                Exits, Enters
  <2>2. QED
    BY <1>0, <2>1, StillRelated
<1>3. CASE placeCallTo \/ onCallReceived
  <2>1. /\ UNCHANGED <<chosen, posts, submit, disps>> /\ odd \subseteq odd' /\ call' = calls + 1
        /\ lastLogId' = 0 /\ previewLogId' \in {0, previewLogId}
        /\ Pending \/ previewLogId' # 0 => {calls + 1} \cup ({call} \ {0}) \subseteq odd'
    BY <1>3 DEF placeCallTo, onCallReceived, Begins
  <2>2. QED
    BY <2>1, BeginsRelated
<1>4. CASE Ends
  BY <1>0, <1>4, EndShape, HungRelated DEF Ends, Booleans
<1>5. CASE AgentHangsUp
  <2>1. UNCHANGED <<call, odd, chosen, lastLogId, previewLogId, submit, disps>>
    BY <1>5 DEF AgentHangsUp
  <2>2. Cancelled \/ Hung(disposing) \/ posts' = posts
    BY <1>5, HangupShape DEF AgentHangsUp, Booleans
  <2>3. CASE Hung(disposing)
    BY <1>0, <2>1, <2>3, HungRelated DEF Booleans
  <2>4. CASE posts' = posts
    BY <1>0, <2>1, <2>4, StillRelated
  <2>5. QED
    BY <2>2, <2>3, <2>4 DEF Cancelled
<1>6. CASE Chooses
  <2>1. UNCHANGED <<call, odd, posts, lastLogId, previewLogId, submit, disps>> /\ chosen' = call /\ submit = NoSubmit
    BY <1>6 DEF Chooses
  <2>2. QED
    BY <1>0, <2>1 DEF PendingRelated, Related, NoSubmit
<1>7. ASSUME NEW p \in posts, PostReturns(p)
      PROVE  PendingRelated' /\ DispositionOfItsCall'
  BY <1>7, PostRelated
<1>8. CASE SubmitsToCampaign
  <2>. DEFINE to == IF mode = "preview" THEN previewLogId ELSE lastLogId
  <2>1. /\ UNCHANGED <<call, odd, chosen, lastLogId, previewLogId, disps>>
        /\ submit'.to = to /\ submit'.of = call
    BY <1>8 DEF SubmitsToCampaign, SubmitIn
  <2>2. posts' = posts
    BY <1>8 DEF SubmitsToCampaign, hangup, onCallHangup, LogsEnd
  <2>3. (to # 0 => Related(to, call)) /\ (chosen # 0 => Related(chosen, call))
    BY DEF PendingRelated
  <2>. HIDE DEF to
  <2>4. to # 0 /\ chosen # 0 => Related(chosen, to)
    BY <2>3, RelatedThrough
  <2>5. QED
    BY <1>0, <2>1, <2>2, <2>3, <2>4 DEF PendingRelated, Related
<1>9. CASE SubmitsOnCall
  <2>1. UNCHANGED <<call, odd, lastLogId, previewLogId, submit, disps>> /\ chosen' = 0
    BY <1>9 DEF SubmitsOnCall
  <2>2. Cancelled \/ Hung(FALSE) \/ posts' = posts
    BY <1>9, HangupShape DEF SubmitsOnCall
  <2>3. CASE Hung(FALSE)
    BY <1>0, <2>1, <2>3, HungRelated
  <2>4. CASE posts' = posts
    BY <1>0, <2>1, <2>4, StillRelated
  <2>5. QED
    BY <2>2, <2>3, <2>4 DEF Cancelled
<1>10. CASE SubmitsToLog
  <2>1. /\ UNCHANGED <<call, odd, chosen, posts, lastLogId, previewLogId, disps>>
        /\ submit'.to = lastLogId /\ lastLogId # 0
    BY <1>10 DEF SubmitsToLog, SubmitIn
  <2>2. chosen # 0 => Related(chosen, lastLogId)
    BY <2>1, RelatedThrough DEF PendingRelated
  <2>3. QED
    BY <1>0, <2>1, <2>2 DEF PendingRelated, Related
<1>11. CASE SubmitsNewLog
  <2>1. /\ UNCHANGED <<call, odd, chosen, lastLogId, previewLogId, disps>> /\ submit'.is = "logs"
        /\ posts' = posts \cup {LogPost("submit", chosen)}
    BY <1>11 DEF SubmitsNewLog, SubmitIn
  <2>2. LogPost("submit", chosen).of = call /\ LogPost("submit", chosen).disp \in {0, chosen}
    BY DEF LogPost
  <2>3. QED
    BY <1>0, <2>1, <2>2 DEF PendingRelated, Related
<1>12. CASE Submitted
  BY <1>12, SubmittedRelated
<1>13. QED
  BY <1>1, <1>2, <1>3, <1>4, <1>5, <1>6, <1>7, <1>8, <1>9, <1>10, <1>11, <1>12 DEF SoftphoneNext
-----------------------------------------------------------------------------
\* The softphone's invariant.
LEMMA LogInvInit == SoftphoneInit => LogInv
<1>. SUFFICES ASSUME SoftphoneInit PROVE LogInv
  OBVIOUS
<1>. USE SoftphoneAssumption DEF SoftphoneInit, Calls, Ids, NoSession, NoSubmit, OnCall
<1>1. SoftphoneTypeOK
  <2>1. Booleans
    BY DEF Booleans
  <2>0. LinkTypes
    BY DEF LinkTypes
  <2>2. CallTypes
    BY DEF CallTypes, SessionRec
  <2>3. LogTypes
    BY DEF LogTypes, SubmitRec
  <2>4. QED
    BY <2>1, <2>0, <2>2, <2>3, TypesSplit
<1>2. LinkInv /\ ShowsWhatIsThere /\ CallInv /\ WrapUpLogged
  BY DEF LinkInv, ShowsWhatIsThere, CallInv, WrapUpLogged
<1>3. OnePlace
  BY DEF OnePlace, Posted, Due
<1>4. PendingRelated /\ DispositionOfItsCall
  BY DEF PendingRelated, DispositionOfItsCall
<1>5. QED
  BY <1>1, <1>2, <1>3, <1>4 DEF LogInv

LEMMA LogInvStep == LogInv /\ [SoftphoneNext]_softphoneVars => LogInv'
<1>. SUFFICES ASSUME LogInv, [SoftphoneNext]_softphoneVars PROVE LogInv'
  OBVIOUS
<1>1. /\ Booleans /\ LinkTypes /\ CallTypes /\ LogTypes /\ LinkInv /\ ShowsWhatIsThere
      /\ CallInv /\ WrapUpLogged /\ OnePlace /\ PendingRelated /\ DispositionOfItsCall
  BY TypesSplit DEF LogInv
<1>2. CASE SoftphoneNext
  <2>1. (Booleans /\ LinkTypes /\ CallTypes /\ LogTypes)'
    BY <1>1, <1>2, SoftphoneTypeStep
  <2>2. SoftphoneTypeOK'
    BY <2>1, TypesSplit, PTL
  <2>3. LinkInv' /\ ShowsWhatIsThere'
    BY <1>1, <1>2, LinkStep
  <2>4. CallInv' /\ WrapUpLogged' /\ OnePlace'
    BY <1>1, <1>2, CallStep, WrapUpStep, PlaceStep
  <2>5. PendingRelated' /\ DispositionOfItsCall'
    BY <1>1, <1>2, RelatedStep
  <2>6. QED
    BY <2>2, <2>3, <2>4, <2>5 DEF LogInv
<1>3. CASE UNCHANGED softphoneVars
  BY <1>1, <1>3 DEF softphoneVars, linkVars, callVars, logVars, LogInv, SoftphoneTypeOK, LinkInv,
     ShowsWhatIsThere, Latest, CallInv, WrapUpLogged, OnePlace, PlaceOf, Posted, Due, PendingRelated,
     Related, DispositionOfItsCall
<1>4. QED
  BY <1>2, <1>3

\* The invariant, in every state.
LEMMA LogInvAlways == SoftphoneSpec => []LogInv
<1>1. SoftphoneInit => LogInv
  BY LogInvInit
<1>2. LogInv /\ [SoftphoneNext]_softphoneVars => LogInv'
  BY LogInvStep
<1>3. QED
  BY <1>1, <1>2, PTL DEF SoftphoneSpec

\* The softphone's variables keep their types: CallProvider's state and refs.
THEOREM SoftphoneTypeCorrect == SoftphoneSpec => []SoftphoneTypeOK
<1>1. LogInv => SoftphoneTypeOK
  BY DEF LogInv
<1>2. QED
  BY <1>1, LogInvAlways, PTL

\* The console shows a registered phone, or a call, only when the latest user agent is up
\* and the call is its own, however attempts, drops, retries and callbacks interleave.
THEOREM ShownIsThere == SoftphoneSpec => []ShowsWhatIsThere
<1>1. LogInv => ShowsWhatIsThere
  BY DEF LogInv
<1>2. QED
  BY <1>1, LogInvAlways, PTL

\* Every call that is not spoiled is logged exactly once, and a disposition lands on the
\* log of its own call or of one of those around a call that began too early.
THEOREM CallsHaveTheirLogs == SoftphoneSpec => []LogsOfTheirCalls
<1>1. ASSUME LogInv PROVE LoggedOnce
  <2>1. ASSUME NEW c \in Calls, c \notin spoiled, Settled(c)
        PROVE  logs[c] = 1
    <3>1. c <= calls /\ session.id # c /\ c # submit.of /\ ~Posted(c)
      BY <2>1 DEF Settled, Posted
    <3>2. PlaceOf(c)
      BY <1>1, <2>1, <3>1 DEF LogInv, OnePlace
    <3>3. QED
      BY <3>1, <3>2 DEF PlaceOf, Due
  <2>2. QED
    BY <2>1 DEF LoggedOnce
<1>2. LogInv => LogsOfTheirCalls
  BY <1>1 DEF LogInv, LogsOfTheirCalls
<1>3. QED
  BY <1>2, LogInvAlways, PTL

-----------------------------------------------------------------------------
\* The recordings.
LEMMA RecInvInit == RecordingInit => RecInv
<1>. SUFFICES ASSUME RecordingInit PROVE RecInv
  OBVIOUS
<1>. USE RecordingAssumption DEF RecordingInit, Taped, File, NotMade, NoLog
<1>1. RecordingTypeOK
  <2>1. asked \in [Taped -> [at : {"none", "channel", "record", "answer"}, found : File]]
    OBVIOUS
  <2>2. logged \in [Taped -> [made : BOOLEAN, disposed : BOOLEAN, rec : File]]
    OBVIOUS
  <2>3. live \in File /\ taped \in File /\ recordFile \in File
    OBVIOUS
  <2>4. onAnswer \in BOOLEAN /\ advancing \in BOOLEAN
    OBVIOUS
  <2>5. mixed \subseteq Taped /\ answeredIn \subseteq Taped
    OBVIOUS
  <2>. HIDE DEF RecordingInit, Taped, File
  <2>6. QED
    BY <2>1, <2>2, <2>3, <2>4, <2>5 DEF RecordingTypeOK
<1>2. LineInv
  BY DEF LineInv
<1>3. LatestClean /\ RecordingOfItsCall
  BY DEF LatestClean, RecordingOfItsCall
<1>4. QED
  BY <1>1, <1>2, <1>3 DEF RecInv

AskRec == [at : {"none", "channel", "record", "answer"}, found : File]
LogRec == [made : BOOLEAN, disposed : BOOLEAN, rec : File]

LEMMA RecTypeStep ==
  ASSUME RecordingTypeOK, RecordingNext
  PROVE  RecordingTypeOK'
<1>. USE RecordingAssumption DEF Taped, File, phoneLine
<1>0. /\ live \in File /\ taped \in File /\ recordFile \in File
      /\ onAnswer \in BOOLEAN /\ advancing \in BOOLEAN
      /\ asked \in [Taped -> AskRec] /\ logged \in [Taped -> LogRec]
      /\ mixed \subseteq Taped /\ answeredIn \subseteq Taped
  BY DEF RecordingTypeOK, AskRec, LogRec
<1>a. NotMade \in AskRec
  BY DEF NotMade, AskRec
<1>1. CASE dialsLead \/ callComesIn
  <2>1. /\ taped' = taped + 1 /\ live' = taped + 1 /\ taped < MaxTaped /\ onAnswer' = FALSE
        /\ recordFile' \in {0, recordFile} /\ mixed' \subseteq mixed \cup {taped + 1}
        /\ UNCHANGED <<asked, advancing, logged, answeredIn>>
    BY <1>1 DEF dialsLead, callComesIn, CallBegins
  <2>2. QED
    <3>1. live' \in File /\ taped' \in File /\ recordFile' \in File /\ mixed' \subseteq Taped
      BY <1>0, <2>1
    <3>2. onAnswer' \in BOOLEAN
      BY <2>1
    <3>3. QED
      BY <1>0, <2>1, <3>1, <3>2 DEF RecordingTypeOK, AskRec, LogRec
<1>2. CASE callAnswered
  BY <1>2 DEF callAnswered, RecordingTypeOK
<1>3. CASE callOver
  <2>1. live \in Taped /\ [logged[live] EXCEPT !.made = TRUE, !.rec = recordFile] \in LogRec
    <3>1. live \in Taped
      BY <1>0, <1>3 DEF callOver
    <3>2. logged[live] \in LogRec
      BY <1>0, <3>1
    <3>3. QED
      BY <1>0, <3>1, <3>2 DEF LogRec
  <2>2. logged' \in [Taped -> LogRec]
    BY <1>0, <1>3, <2>1 DEF callOver
  <2>3. QED
    <3>1. live' \in File /\ onAnswer' = FALSE
          /\ UNCHANGED <<taped, asked, recordFile, advancing, mixed, answeredIn>>
      BY <1>3 DEF callOver
    <3>2. QED
      BY <1>0, <2>2, <3>1 DEF RecordingTypeOK, AskRec, LogRec
<1>4. ASSUME NEW c \in Taped, findsChannel(c) PROVE RecordingTypeOK'
  BY <1>4 DEF findsChannel, RecordingTypeOK, NotMade
<1>5. ASSUME NEW c \in Taped, startRecording(c) PROVE RecordingTypeOK'
  BY <1>5 DEF startRecording, RecordingTypeOK, NotMade
<1>6. ASSUME NEW c \in Taped, fileArrives(c) PROVE RecordingTypeOK'
  <2>1. asked' \in [Taped -> AskRec]
    BY <1>0, <1>a, <1>6 DEF fileArrives
  <2>2. recordFile' \in File /\ answeredIn' \subseteq Taped
    BY <1>0, <1>6 DEF fileArrives, AskRec
  <2>3. QED
    BY <1>0, <1>6, <2>1, <2>2 DEF fileArrives, RecordingTypeOK, AskRec
<1>7. CASE disposesCall
  <2>. DEFINE new == [made |-> TRUE, disposed |-> TRUE,
                      rec |-> IF recordFile = 0 THEN logged[taped].rec ELSE recordFile]
  <2>1. taped \in Taped /\ new \in LogRec
    BY <1>0, <1>7 DEF disposesCall, LogRec
  <2>2. logged' = [logged EXCEPT ![taped] = new]
    BY <1>7 DEF disposesCall
  <2>. HIDE DEF new
  <2>3. logged' \in [Taped -> LogRec]
    BY <1>0, <2>1, <2>2
  <2>4. QED
    <3>1. live' \in File /\ onAnswer' = FALSE /\ advancing' = TRUE
          /\ UNCHANGED <<taped, asked, recordFile, mixed, answeredIn>>
      BY <1>7 DEF disposesCall
    <3>2. QED
      BY <1>0, <2>3, <3>1 DEF RecordingTypeOK, AskRec, LogRec
<1>8. CASE nextLeadArrives
  <2>1. recordFile' \in File /\ advancing' = FALSE
        /\ UNCHANGED <<live, onAnswer, taped, asked, logged, mixed, answeredIn>>
    BY <1>0, <1>8 DEF nextLeadArrives
  <2>2. QED
    BY <1>0, <2>1 DEF RecordingTypeOK, AskRec, LogRec
<1>9. QED
  BY <1>1, <1>2, <1>3, <1>4, <1>5, <1>6, <1>7, <1>8 DEF RecordingNext

LEMMA RecLineStep ==
  ASSUME RecordingTypeOK, LineInv, RecordingNext
  PROVE  LineInv'
<1>. USE RecordingAssumption DEF RecordingTypeOK, Taped, File, NotMade, NoLog, phoneLine, LineInv
<1>1. CASE dialsLead \/ callComesIn
  <2>1. /\ taped' = taped + 1 /\ live' = taped + 1
        /\ mixed' \subseteq mixed \cup {taped + 1}
        /\ UNCHANGED <<asked, logged, answeredIn>>
    BY <1>1 DEF dialsLead, callComesIn, CallBegins
  <2>2. QED
    BY <2>1
<1>2. CASE callAnswered
  BY <1>2 DEF callAnswered
<1>3. CASE callOver
  <2>1. live = taped /\ live' = 0 /\ UNCHANGED <<taped, asked, mixed, answeredIn>>
    BY <1>3 DEF callOver
  <2>2. \A c \in Taped : c > taped => logged'[c] = logged[c]
    BY <1>3, <2>1 DEF callOver
  <2>3. QED
    BY <2>1, <2>2
<1>4. ASSUME NEW c \in Taped, findsChannel(c) PROVE LineInv'
  BY <1>4 DEF findsChannel
<1>5. ASSUME NEW c \in Taped, startRecording(c) PROVE LineInv'
  BY <1>5 DEF startRecording
<1>6. ASSUME NEW c \in Taped, fileArrives(c) PROVE LineInv'
  BY <1>6 DEF fileArrives
<1>7. CASE disposesCall
  <2>1. live' = 0 /\ UNCHANGED <<taped, asked, mixed, answeredIn>>
    BY <1>7 DEF disposesCall
  <2>2. \A c \in Taped : c > taped => logged'[c] = logged[c]
    BY <1>7 DEF disposesCall
  <2>3. QED
    BY <2>1, <2>2
<1>8. CASE nextLeadArrives
  BY <1>8 DEF nextLeadArrives
<1>9. QED
  BY <1>1, <1>2, <1>3, <1>4, <1>5, <1>6, <1>7, <1>8 DEF RecordingNext

LEMMA RecCleanStep ==
  ASSUME RecordingTypeOK, LineInv, LatestClean, RecordingOfItsCall, RecordingNext
  PROVE  LatestClean' /\ RecordingOfItsCall'
<1>. USE RecordingAssumption DEF RecordingTypeOK, Taped, File, NotMade, NoLog, phoneLine, LineInv, LatestClean, RecordingOfItsCall
<1>1. CASE dialsLead \/ callComesIn
  BY <1>1 DEF dialsLead, callComesIn, CallBegins
<1>2. CASE callAnswered
  BY <1>2 DEF callAnswered
<1>3. CASE callOver
  BY <1>3 DEF callOver
<1>4. ASSUME NEW c \in Taped, findsChannel(c) PROVE LatestClean' /\ RecordingOfItsCall'
  BY <1>4 DEF findsChannel
<1>5. ASSUME NEW c \in Taped, startRecording(c) PROVE LatestClean' /\ RecordingOfItsCall'
  BY <1>5 DEF startRecording
<1>6. ASSUME NEW c \in Taped, fileArrives(c) PROVE LatestClean' /\ RecordingOfItsCall'
  BY <1>6 DEF fileArrives
<1>7. CASE disposesCall
  BY <1>7 DEF disposesCall
<1>8. CASE nextLeadArrives
  BY <1>8 DEF nextLeadArrives
<1>9. QED
  BY <1>1, <1>2, <1>3, <1>4, <1>5, <1>6, <1>7, <1>8 DEF RecordingNext

LEMMA RecInvStep == RecInv /\ [RecordingNext]_recordingVars => RecInv'
<1>. SUFFICES ASSUME RecInv, [RecordingNext]_recordingVars PROVE RecInv'
  OBVIOUS
<1>1. CASE RecordingNext
  BY <1>1, RecTypeStep, RecLineStep, RecCleanStep DEF RecInv
<1>2. CASE UNCHANGED recordingVars
  BY <1>2 DEF recordingVars, phoneLine, RecInv, RecordingTypeOK, LineInv, LatestClean, RecordingOfItsCall
<1>3. QED
  BY <1>1, <1>2

LEMMA RecInvAlways == RecordingSpec => []RecInv
BY RecInvInit, RecInvStep, PTL DEF RecordingSpec

\* A log has the recording of its own call or none, and has it when the file arrived before
\* the disposition was sent, unless the call began too early.
THEOREM CallsHaveTheirRecordings == RecordingSpec => []RecordingOfItsCall
<1>1. RecInv => RecordingOfItsCall
  BY DEF RecInv
<1>2. QED
  BY <1>1, RecInvAlways, PTL

\* Every call has one log, with its own disposition and its own recording on it: the two
\* halves of what the Console writes about a call.
THEOREM EveryLogIsTrue == SoftphoneSpec /\ RecordingSpec => []LogsAreTrue
<1>1. LogsOfTheirCalls /\ RecordingOfItsCall => LogsAreTrue
  BY DEF LogsAreTrue
<1>2. QED
  BY <1>1, CallsHaveTheirLogs, CallsHaveTheirRecordings, PTL
-----------------------------------------------------------------------------
\* The session's types.

\* What is stored of a sign-in, and what the server answers about one.
ProfileSet == [of : Accounts \cup {Nobody}, role : RoleNames \cup {NoRole, "Staff", "Administrator"},
              super : BOOLEAN, perms : SUBSET TENANT_SECTIONS, tenant : {"none", "own", "theirs"}]
Rights    == [role : RoleNames \cup {NoRole, "Staff"}, perms : SUBSET TENANT_SECTIONS]

LEMMA SessionFacts ==
  ASSUME SessionTypeOK
  PROVE  /\ rights \in [Accounts -> Rights] /\ changes \in 0..MaxChanges /\ cookie \in Accounts \cup {Nobody}
         /\ profile \in ProfileSet /\ answers \in SUBSET Answer /\ echo \in Answer
         /\ NoProfile \in ProfileSet /\ Refused \in Answer /\ Me \in Answer
<1>1. NoProfile \in ProfileSet /\ Refused \in Answer
  BY DEF NoProfile, ProfileSet, Refused, Answer
<1>2. rights \in [Accounts -> Rights] /\ cookie \in Accounts \cup {Nobody}
  BY DEF SessionTypeOK, Rights
<1>3. Me \in Answer
  <2>1. CASE cookie = Nobody
    BY <1>1, <2>1 DEF Me
  <2>2. CASE cookie # Nobody
    <3>1. cookie \in Accounts /\ rights[cookie] \in Rights
      BY <1>2, <2>2
    <3>0. (cookie \in Staff) \in BOOLEAN
      OBVIOUS
    <3>2. PICK super \in BOOLEAN : super = (cookie \in Staff)
      BY <3>0, Zenon
    <3>3. Me = [of |-> cookie, role |-> rights[cookie].role, super |-> super, perms |-> rights[cookie].perms]
      BY <2>2, <3>2 DEF Me
    <3>4. QED
      BY <3>1, <3>3 DEF Rights, Answer
  <2>3. QED
    BY <2>1, <2>2
<1>4. QED
  BY <1>1, <1>2, <1>3 DEF SessionTypeOK, ProfileSet

\* Four fields of a profile written one after another.
LEMMA ProfileWritten ==
  ASSUME NEW p \in ProfileSet, NEW o \in Accounts \cup {Nobody}, NEW r \in RoleNames \cup {NoRole, "Staff", "Administrator"},
         NEW b \in BOOLEAN, NEW s \in SUBSET TENANT_SECTIONS, NEW t \in {"none", "own", "theirs"}
  PROVE  /\ [p EXCEPT !.of = o, !.super = b, !.perms = s, !.role = r] \in ProfileSet
         /\ [p EXCEPT !.tenant = t, !.role = r, !.super = b, !.perms = s] \in ProfileSet
<1>1. \A q \in ProfileSet : [q EXCEPT !.of = o] \in ProfileSet
  BY DEF ProfileSet
<1>2. \A q \in ProfileSet : [q EXCEPT !.super = b] \in ProfileSet
  BY DEF ProfileSet
<1>3. \A q \in ProfileSet : [q EXCEPT !.perms = s] \in ProfileSet
  BY DEF ProfileSet
<1>4. \A q \in ProfileSet : [q EXCEPT !.role = r] \in ProfileSet
  BY DEF ProfileSet
<1>5. \A q \in ProfileSet : [q EXCEPT !.tenant = t] \in ProfileSet
  BY DEF ProfileSet
<1>6. [p EXCEPT !.of = o, !.super = b, !.perms = s, !.role = r] \in ProfileSet
  <2>1. PICK q \in ProfileSet : q = [p EXCEPT !.of = o]
    BY <1>1
  <2>2. PICK x \in ProfileSet : x = [q EXCEPT !.super = b]
    BY <1>2
  <2>3. PICK y \in ProfileSet : y = [x EXCEPT !.perms = s]
    BY <1>3
  <2>4. [p EXCEPT !.of = o, !.super = b, !.perms = s, !.role = r] = [y EXCEPT !.role = r]
    BY <2>1, <2>2, <2>3
  <2>5. QED
    BY <1>4, <2>4
<1>7. [p EXCEPT !.tenant = t, !.role = r, !.super = b, !.perms = s] \in ProfileSet
  <2>1. PICK q \in ProfileSet : q = [p EXCEPT !.tenant = t]
    BY <1>5
  <2>2. PICK x \in ProfileSet : x = [q EXCEPT !.role = r]
    BY <1>4
  <2>3. PICK y \in ProfileSet : y = [x EXCEPT !.super = b]
    BY <1>2
  <2>4. [p EXCEPT !.tenant = t, !.role = r, !.super = b, !.perms = s] = [y EXCEPT !.perms = s]
    BY <2>1, <2>2, <2>3
  <2>5. QED
    BY <1>3, <2>4
<1>8. QED
  BY <1>6, <1>7

LEMMA SessionStart == SessionInit => SessionTypeOK
<1> SUFFICES ASSUME SessionInit PROVE SessionTypeOK
  OBVIOUS
<1>1. /\ rights = [a \in Accounts |-> IF a \in Staff THEN [role |-> "Staff", perms |-> {}]
                                                     ELSE [role |-> NoRole, perms |-> {}]]
      /\ changes = 0 /\ cookie = Nobody /\ profile = NoProfile /\ viewing = FALSE
      /\ answers = {} /\ leaving = FALSE /\ reloading = FALSE /\ echo = Refused
  BY DEF SessionInit
<1>2. NoProfile \in ProfileSet /\ Refused \in Answer
  BY DEF NoProfile, ProfileSet, Refused, Answer
<1>3. rights \in [Accounts -> Rights]
  BY <1>1 DEF Rights
<1>4. {viewing, leaving, reloading} \subseteq BOOLEAN
  BY <1>1
<1>5. QED
  BY <1>1, <1>2, <1>3, <1>4, SessionAssumption DEF SessionTypeOK, ProfileSet, Rights

\* What a refresh stores, also while a customer is being viewed, is a profile.
LEMMA RefreshedTyped ==
  ASSUME SessionTypeOK, NEW me \in Answer
  PROVE  Refreshed(me) \in ProfileSet
<1>1. getUser \in ProfileSet
  <2>1. CASE profile = NoProfile \/ ~viewing
    BY <2>1, SessionFacts DEF getUser
  <2>2. CASE ~(profile = NoProfile \/ ~viewing)
    <3>1. getUser = [profile EXCEPT !.tenant = "theirs", !.role = "Administrator", !.super = FALSE, !.perms = TENANT_SECTIONS]
      BY <2>2 DEF getUser
    <3>2. profile \in ProfileSet /\ TENANT_SECTIONS \in SUBSET TENANT_SECTIONS /\ FALSE \in BOOLEAN
      BY SessionFacts
    <3>3. QED
      BY <3>1, <3>2, ProfileWritten
  <2>3. QED
    BY <2>1, <2>2
<1>2. PICK p \in ProfileSet : p = getUser
  BY <1>1
<1>3. me.of \in Accounts \cup {Nobody} /\ me.super \in BOOLEAN /\ me.perms \in SUBSET TENANT_SECTIONS
      /\ me.role \in RoleNames \cup {NoRole, "Staff"} /\ p.role \in RoleNames \cup {NoRole, "Staff", "Administrator"}
  BY DEF Answer, ProfileSet
<1>4. PICK r \in RoleNames \cup {NoRole, "Staff", "Administrator"} : r = IF me.role = NoRole THEN p.role ELSE me.role
  BY <1>3
<1>5. PICK o \in Accounts \cup {Nobody} : o = me.of
  BY <1>3
<1>6. PICK b \in BOOLEAN : b = me.super
  BY <1>3, Zenon
<1>7. PICK s \in SUBSET TENANT_SECTIONS : s = me.perms
  BY <1>3
<1>8. Refreshed(me) = [p EXCEPT !.of = o, !.super = b, !.perms = s, !.role = r]
  BY <1>2, <1>4, <1>5, <1>6, <1>7 DEF Refreshed
<1>9. [p EXCEPT !.of = o, !.super = b, !.perms = s, !.role = r] \in ProfileSet
  BY ProfileWritten, Zenon
<1>10. QED
  BY <1>8, <1>9

LEMMA SessionStep == SessionTypeOK /\ [SessionNext]_sessionVars => SessionTypeOK'
<1> SUFFICES ASSUME SessionTypeOK, [SessionNext]_sessionVars PROVE SessionTypeOK'
  OBVIOUS
<1>0. /\ rights \in [Accounts -> Rights] /\ changes \in 0..MaxChanges /\ cookie \in Accounts \cup {Nobody}
      /\ profile \in ProfileSet /\ answers \in SUBSET Answer /\ echo \in Answer
      /\ NoProfile \in ProfileSet /\ Refused \in Answer /\ Me \in Answer
  BY SessionFacts
<1>00. viewing \in BOOLEAN /\ leaving \in BOOLEAN /\ reloading \in BOOLEAN
  BY DEF SessionTypeOK
<1>a. ASSUME rights' \in [Accounts -> Rights], changes' \in 0..MaxChanges, cookie' \in Accounts \cup {Nobody},
             profile' \in ProfileSet, answers' \in SUBSET Answer, echo' \in Answer,
             viewing' \in BOOLEAN, leaving' \in BOOLEAN, reloading' \in BOOLEAN
      PROVE  SessionTypeOK'
  BY <1>a DEF SessionTypeOK, ProfileSet, Rights
<1>1. ASSUME NEW a \in Users, NEW role \in RoleNames \cup {NoRole}, NEW perms \in Grants, RightsChange(a, role, perms)
      PROVE  SessionTypeOK'
  <2>1. [role |-> role, perms |-> perms] \in Rights
    BY SessionAssumption DEF Rights
  <2>2. rights' = [rights EXCEPT ![a] = [role |-> role, perms |-> perms]] /\ changes < MaxChanges /\ changes' = changes + 1
        /\ UNCHANGED <<cookie, profile, viewing, answers, leaving, reloading, echo>>
    BY <1>1 DEF RightsChange
  <2>3. rights' \in [Accounts -> Rights] /\ changes' \in 0..MaxChanges
    BY <1>0, <2>1, <2>2, SessionAssumption DEF Accounts
  <2>4. QED
    BY <1>0, <1>00, <1>a, <2>2, <2>3
<1>2. ASSUME NEW a \in Accounts, login(a) PROVE SessionTypeOK'
  <2>0. (a \in Staff) \in BOOLEAN
    OBVIOUS
  <2>1. PICK super \in BOOLEAN : super = (a \in Staff)
    BY <2>0, Zenon
  <2>2. cookie' = a /\ echo' = Refused /\ reloading' = FALSE /\ UNCHANGED <<rights, changes, viewing, answers, leaving>>
    BY <1>2 DEF login
  <2>3. profile' = [of |-> a, role |-> rights[a].role, super |-> super, perms |-> rights[a].perms, tenant |-> "own"]
    BY <1>2, <2>1 DEF login
  <2>4. rights[a] \in Rights
    BY <1>0
  <2>5. profile' \in ProfileSet
    BY <2>3, <2>4 DEF Rights, ProfileSet
  <2>6. QED
    BY <1>0, <1>00, <1>a, <2>2, <2>5
<1>3. CASE logout
  BY <1>3, <1>0, <1>00, <1>a DEF logout
<1>4. CASE LoggedOut
  BY <1>4, <1>0, <1>00, <1>a DEF LoggedOut, clearProfile
<1>5. CASE CookieExpires
  BY <1>5, <1>0, <1>00, <1>a DEF CookieExpires
<1>6. ASSUME NEW on \in BOOLEAN, setImpersonation(on) PROVE SessionTypeOK'
  BY <1>6, <1>0, <1>00, <1>a DEF setImpersonation
<1>7. CASE PageOpens
  BY <1>7, <1>0, <1>00, <1>a DEF PageOpens
<1>8. ASSUME NEW me \in answers, refreshProfile(me) PROVE SessionTypeOK'
  <2>1. me \in Answer
    BY <1>0
  <2>2. profile' \in ProfileSet
    BY <1>8, <2>1, RefreshedTyped DEF refreshProfile
  <2>3. reloading' = Changed(me) /\ Changed(me) \in BOOLEAN
    BY <1>8 DEF refreshProfile, Changed
  <2>4. answers' = answers \ {me} /\ echo' = me /\ UNCHANGED <<rights, changes, cookie, viewing, leaving>>
    BY <1>8 DEF refreshProfile
  <2>5. reloading' \in BOOLEAN
    BY <2>3, Zenon
  <2>6. QED
    BY <1>0, <1>00, <1>a, <2>1, <2>2, <2>4, <2>5
<1>9. CASE Unauthorized
  <2>1. answers' = answers \ {Refused} /\ UNCHANGED <<rights, changes, cookie, leaving, reloading>>
    BY <1>9 DEF Unauthorized
  <2>2. profile' \in {profile, NoProfile} /\ echo' \in {echo, Refused} /\ viewing' \in BOOLEAN
    BY <1>9, <1>00 DEF Unauthorized, clearProfile
  <2>3. QED
    BY <1>0, <1>00, <1>a, <2>1, <2>2
<1>10. CASE UNCHANGED sessionVars
  BY <1>10, <1>0, <1>00, <1>a DEF sessionVars
<1>11. QED
  BY <1>1, <1>2, <1>3, <1>4, <1>5, <1>6, <1>7, <1>8, <1>9, <1>10 DEF SessionNext

\* Sign-ins, refreshes, views of a customer and changes of rights keep the session's types.
THEOREM SessionTypeCorrect == SessionSpec => []SessionTypeOK
BY SessionStart, SessionStep, PTL DEF SessionSpec

-----------------------------------------------------------------------------
\* The guards' redirects.

\* Where landingPath sends the user: to a page that they have the permission for, if
\* they have one at all.
LEMMA LandsOnOpenPage ==
  \/ landingPath = "/platform" /\ getPlatformRole /\ ~isImpersonating
  \/ landingPath = "/agent" /\ ~(getPlatformRole /\ ~isImpersonating) /\ ~hasPermission("softphone")
     /\ ~hasPermission("live") /\ ~hasPermission("users")
  \/ \E i \in 1..9 : /\ landingPath = LandingOrder[i][2] /\ hasPermission(LandingOrder[i][1])
                     /\ ~(getPlatformRole /\ ~isImpersonating)
<1>. DEFINE open == {i \in 1..9 : hasPermission(LandingOrder[i][1])}
            first == CHOOSE i \in open : \A j \in open : i <= j
<1>1. CASE getPlatformRole /\ ~isImpersonating
  BY <1>1 DEF landingPath
<1>2. CASE ~(getPlatformRole /\ ~isImpersonating) /\ open = {}
  <2>1. landingPath = "/agent"
    BY <1>2 DEF landingPath
  <2>2. /\ LandingOrder[2][1] = "softphone" /\ LandingOrder[4][1] = "live"
        /\ LandingOrder[7][1] = "users"
    BY DEF LandingOrder
  <2>3. ~hasPermission("softphone") /\ ~hasPermission("live") /\ ~hasPermission("users")
    BY <1>2, <2>2
  <2>4. QED
    BY <1>2, <2>1, <2>3
<1>3. CASE ~(getPlatformRole /\ ~isImpersonating) /\ open # {}
  <2>2. landingPath = LandingOrder[first][2]
    BY <1>3 DEF landingPath
  <2>3. first \in open
    <3>1. \E i \in open : \A j \in open : i <= j
      <4>1. open \in SUBSET (1..9) /\ open \in SUBSET Nat
        OBVIOUS
      <4>. HIDE DEF open
      <4>2. \E i \in open : \A j \in open : ~ (<<j, i>> \in OpToRel(<, Nat))
        BY <1>3, <4>1, NatLessThanWellFounded, WFMin, Zenon
      <4>3. \E i \in open : \A j \in open : ~ (j < i)
        BY <4>1, <4>2 DEF OpToRel
      <4>4. QED
        BY <4>1, <4>3
    <3>. HIDE DEF open
    <3>2. QED
      BY <3>1
  <2>. HIDE DEF first
  <2>4. QED
    BY <1>3, <2>2, <2>3
<1>4. QED
  BY <1>1, <1>2, <1>3

\* The landing page's own guard lets in whom landingPath sends there.
LEMMA LandingLetsIn == guard(landingPath) = landingPath
<1>1. \A i \in 1..9 : LandingOrder[i] \in
        { <<"analytics", "/dashboard">>, <<"softphone", "/agent">>, <<"contacts", "/contacts">>,
          <<"live", "/agents">>, <<"campaigns", "/campaigns">>, <<"recordings", "/recordings">>,
          <<"users", "/users">>, <<"pbx", "/trunks">>, <<"billing", "/billing">> }
  BY DEF LandingOrder
<1>2. CASE landingPath = "/platform" /\ getPlatformRole /\ ~isImpersonating
  BY <1>2 DEF guard
<1>3. CASE landingPath = "/agent"
  BY <1>3 DEF guard
<1>4. ASSUME NEW i \in 1..9, landingPath = LandingOrder[i][2], hasPermission(LandingOrder[i][1]),
             ~(getPlatformRole /\ ~isImpersonating)
      PROVE  guard(landingPath) = landingPath
  BY <1>1, <1>4 DEF guard
<1>5. QED
  BY <1>2, <1>3, <1>4, LandsOnOpenPage

\* No page sends the user on a round trip, whoever is signed in and whatever company is
\* being viewed: whatever the profile says, a redirect leads to a page that lets the user in.
THEOREM GuardsConverge == SessionSpec => []RedirectsEnd
<1>1. ASSUME NEW page \in Pages
      PROVE  guard(guard(page)) # page \/ guard(page) = page
  <2>1. page \in {"/agent", "/agents", "/roles"} => guard(page) \in {page, landingPath}
    BY DEF guard
  <2>6. page \in {"/contacts"} => guard(page) = page
    BY DEF guard
  <2>7. page = "/users" /\ hasPermission("users") => guard(page) = page
    BY DEF guard, hasPermission
  <2>8. page = "/dashboard" /\ ~(getPlatformRole /\ ~isImpersonating) => guard(page) = page
    BY DEF guard
  <2>9. page = "/platform" /\ ~(isImpersonating \/ ~getPlatformRole) => guard(page) = page
    BY DEF guard
  <2>2. CASE guard(page) = landingPath
    BY <2>2, LandingLetsIn
  <2>3. CASE page = "/users" /\ ~hasPermission("users")
    <3>1. \A i \in 1..9 : LandingOrder[i][2] = "/users" => LandingOrder[i][1] = "users"
      BY DEF LandingOrder
    <3>2. landingPath # "/users"
      BY <2>3, <3>1, LandsOnOpenPage
    <3>3. guard(page) = "/agent" /\ guard("/agent") \in {"/agent", landingPath}
      BY <2>3 DEF guard
    <3>4. QED
      BY <2>3, <3>2, <3>3
  <2>4. CASE page = "/dashboard" /\ getPlatformRole /\ ~isImpersonating
    BY <2>4 DEF guard
  <2>5. CASE page = "/platform" /\ (isImpersonating \/ ~getPlatformRole)
    BY <2>5 DEF guard
  <2>10. QED
    BY <2>1, <2>6, <2>7, <2>8, <2>9, <2>2, <2>3, <2>4, <2>5 DEF Pages
<1>2. RedirectsEnd
  BY <1>1 DEF RedirectsEnd
<1>3. QED
  BY <1>2, PTL

-----------------------------------------------------------------------------
(***************************************************************************)
(* The bell.  What a load has got is possible, since each source is read   *)
(* at one moment, and is, until something happens, what the sources read   *)
(* so far hold.                                                            *)
(***************************************************************************)
LoadTrue(l) ==
  /\ l.tab = NoTab => l = NoLoad
  /\ l.tab # NoTab => l.tab \in bell
  /\ Possible(l.got)
  /\ \A n \in l.got : n.source \notin l.left
  /\ l.upToDate => l.left \subseteq granted /\ l.got = {n \in facts : n.source \in granted \ l.left}

BellInv ==
  /\ BellTypeOK /\ Possible(facts) /\ (\A k \in Loads : LoadTrue(loads[k]))
  /\ BellIsTrue

LEMMA NotesFinite == IsFiniteSet(Notes)
<1> DEFINE Kinds == UNION {Kind[s] : s \in Sources}
           Triples == {"logs", "queues", "campaigns", "invoices"} \X ({"missed", "busy", "overloaded", "goal", "paused", "abandoned", "open"} \X Rows)
           f == [p \in Triples |-> [source |-> p[1], kind |-> p[2][1], row |-> p[2][2]]]
           Image == {f[p] : p \in Triples}
<1>1. /\ IsFiniteSet({"logs", "queues", "campaigns", "invoices"})
      /\ IsFiniteSet({"missed", "busy", "overloaded", "goal", "paused", "abandoned", "open"})
  <2>1. \A S, x : IsFiniteSet(S) => IsFiniteSet(S \cup {x})
    BY FS_AddElement
  <2>2. IsFiniteSet({"logs"}) /\ IsFiniteSet({"missed"})
    BY FS_Singleton
  <2>3. IsFiniteSet(({"logs"} \cup {"queues"}) \cup {"campaigns"})
    BY <2>1, <2>2, Zenon
  <2>4. IsFiniteSet((({"missed"} \cup {"busy"}) \cup {"overloaded"}) \cup {"goal"})
    BY <2>1, <2>2, Zenon
  <2>5. IsFiniteSet((((({"missed"} \cup {"busy"}) \cup {"overloaded"}) \cup {"goal"}) \cup {"paused"}) \cup {"abandoned"})
    BY <2>1, <2>4, Zenon
  <2>6. /\ {"logs", "queues", "campaigns", "invoices"} = (({"logs"} \cup {"queues"}) \cup {"campaigns"}) \cup {"invoices"}
        /\ {"missed", "busy", "overloaded", "goal", "paused", "abandoned", "open"} =
           ((((({"missed"} \cup {"busy"}) \cup {"overloaded"}) \cup {"goal"}) \cup {"paused"}) \cup {"abandoned"}) \cup {"open"}
    OBVIOUS
  <2>7. IsFiniteSet((({"logs"} \cup {"queues"}) \cup {"campaigns"}) \cup {"invoices"})
    BY <2>1, <2>3, Zenon
  <2>8. IsFiniteSet(((((({"missed"} \cup {"busy"}) \cup {"overloaded"}) \cup {"goal"}) \cup {"paused"}) \cup {"abandoned"}) \cup {"open"})
    BY <2>1, <2>5, Zenon
  <2>9. QED
    BY <2>6, <2>7, <2>8
<1>3. IsFiniteSet(Triples)
  BY <1>1, FS_Product, NotificationsAssumption
<1>4. f \in Surjection(Triples, Image)
  BY Zenon DEF Surjection
<1>5. IsFiniteSet(Image)
  <2> HIDE DEF f, Image, Triples
  <2> QED BY <1>3, <1>4, FS_Surjection
<1>6. Notes \subseteq Image
  <2> SUFFICES ASSUME NEW n \in Notes
               PROVE  n \in Image
    OBVIOUS
  <2>1. PICK s \in Sources : n \in [source : {s}, row : Rows, kind : Kind[s]]
    BY DEF Notes
  <2>2. n = [source |-> n.source, kind |-> n.kind, row |-> n.row]
    BY <2>1
  <2>3. <<n.source, <<n.kind, n.row>>>> \in Triples
    BY <2>1 DEF Sources, Kind
  <2>4. n = f[<<n.source, <<n.kind, n.row>>>>]
    BY <2>2, <2>3
  <2>5. QED
    BY <2>3, <2>4
<1>7. QED
  BY <1>5, <1>6, FS_Subset

LEMMA NewestIsPart == \A S : \A T \in Newest(S) : T \subseteq S
BY DEF Newest

LEMMA PossibleParts == \A S : \A T \in SUBSET S : Possible(S) => Possible(T)
BY DEF Possible

\* Rows exclude one another within a source only.
LEMMA SourcesDoNotExclude ==
  \A n, m \in Notes : Exclude(n, m) => n.source = m.source
<1> SUFFICES ASSUME NEW n \in Notes, NEW m \in Notes, Exclude(n, m)
             PROVE  n.source = m.source
  OBVIOUS
<1>1. PICK s \in Sources : n \in [source : {s}, row : Rows, kind : Kind[s]]
  BY DEF Notes
<1>2. PICK q \in Sources : m \in [source : {q}, row : Rows, kind : Kind[q]]
  BY DEF Notes
<1>3. s \in Sources /\ q \in Sources /\ n.source = s /\ n.kind \in Kind[s] /\ m.source = q /\ m.kind \in Kind[q]
  BY <1>1, <1>2
<1>4. \/ n.kind \in {"busy", "overloaded"} /\ m.kind \in {"busy", "overloaded"}
      \/ n.kind \in {"goal", "paused"} /\ m.kind \in {"goal", "paused"}
  BY DEF Exclude, Kind
<1>5. /\ \A k \in Sources : ("busy" \in Kind[k] \/ "overloaded" \in Kind[k]) => k = "queues"
      /\ \A k \in Sources : ("goal" \in Kind[k] \/ "paused" \in Kind[k]) => k = "campaigns"
  BY DEF Kind, Sources
<1>6. CASE n.kind \in {"busy", "overloaded"} /\ m.kind \in {"busy", "overloaded"}
  <2>1. ("busy" \in Kind[s] \/ "overloaded" \in Kind[s]) /\ ("busy" \in Kind[q] \/ "overloaded" \in Kind[q])
    BY <1>3, <1>6
  <2>2. s = "queues" /\ q = "queues"
    BY <1>3, <2>1, <1>5, Zenon
  <2>3. QED
    BY <1>3, <2>2
<1>7. CASE n.kind \in {"goal", "paused"} /\ m.kind \in {"goal", "paused"}
  <2>1. ("goal" \in Kind[s] \/ "paused" \in Kind[s]) /\ ("goal" \in Kind[q] \/ "paused" \in Kind[q])
    BY <1>3, <1>7
  <2>2. s = "campaigns" /\ q = "campaigns"
    BY <1>3, <2>1, <1>5, Zenon
  <2>3. QED
    BY <1>3, <2>2
<1>8. QED
  BY <1>4, <1>6, <1>7

LEMMA PossibleTogether ==
  \A S, T \in SUBSET Notes :
    Possible(S) /\ Possible(T) /\ (\A n \in S, m \in T : n.source # m.source) => Possible(S \cup T)
<1> SUFFICES ASSUME NEW S \in SUBSET Notes, NEW T \in SUBSET Notes, Possible(S), Possible(T),
                    \A n \in S, m \in T : n.source # m.source
             PROVE  \A n, m \in S \cup T : n.row = m.row => ~Exclude(n, m)
  BY DEF Possible
<1>1. \A n, m \in Notes : Exclude(n, m) => n.source = m.source
  BY SourcesDoNotExclude
<1>2. QED
  BY <1>1, Zenon DEF Possible

\* What is stored of a list.
LEMMA LastOfList ==
  \A s \in Seq(Notes) : LastOf(s) \in Seq(Notes) /\ Len(LastOf(s)) <= MaxRead
<1> SUFFICES ASSUME NEW s \in Seq(Notes), ~(Len(s) <= MaxRead)
             PROVE  /\ SubSeq(s, Len(s) - MaxRead + 1, Len(s)) \in Seq(Notes)
                    /\ Len(SubSeq(s, Len(s) - MaxRead + 1, Len(s))) <= MaxRead
  BY NotificationsAssumption DEF LastOf
<1>1. Len(s) \in Nat /\ MaxRead \in Nat /\ MaxRead < Len(s)
  BY NotificationsAssumption
<1>2. \A i \in (Len(s) - MaxRead + 1)..Len(s) : s[i] \in Notes
  BY <1>1
<1> DEFINE a == Len(s) - MaxRead + 1
           b == Len(s)
<1>3. a \in Int /\ b \in Int /\ \A i \in a..b : s[i] \in Notes
  BY <1>1, <1>2
<1>4. IF a <= b THEN b - a + 1 <= MaxRead ELSE 0 <= MaxRead
  BY <1>1
<1>5. /\ SubSeq(s, a, b) \in Seq(Notes)
      /\ Len(SubSeq(s, a, b)) = IF a <= b THEN b - a + 1 ELSE 0
  <2> HIDE DEF a, b
  <2> QED BY <1>3, SubSeqProperties
<1>6. QED
  BY <1>4, <1>5

LEMMA OrderedNotes ==
  \A S \in SUBSET Notes : \A s \in InOrder(S) : s \in Seq(Notes)
<1> SUFFICES ASSUME NEW S \in SUBSET Notes, NEW s \in InOrder(S)
             PROVE  s \in Seq(Notes)
  OBVIOUS
<1>1. Cardinality(S) \in Nat
  BY NotesFinite, FS_Subset, FS_CardinalityType
<1>2. s \in [1..Cardinality(S) -> Notes]
  BY DEF InOrder
<1>3. QED
  BY <1>1, <1>2

-----------------------------------------------------------------------------
LoadRec == [tab : Tabs \cup {NoTab}, left : SUBSET Sources, got : SUBSET Notes, upToDate : BOOLEAN]

LEMMA BellStart == BellInit => BellInv
<1> SUFFICES ASSUME BellInit
             PROVE  BellInv
  OBVIOUS
<1>1. BellTypeOK
  BY NotificationsAssumption DEF BellInit, BellTypeOK, NoLoad
<1>2. Possible({})
  BY DEF Possible
<1>3. QED
  BY <1>1, <1>2 DEF BellInit, BellInv, LoadTrue, NoLoad, BellIsTrue, NoContradiction, BellIsCurrent, MarksAreStored

\* Something happens: no load and no tab is up to date.
LEMMA BellOutdated ==
  ASSUME BellInv, Outdated, Moment, facts' \subseteq Notes, granted' \in Profiles, Possible(facts')
  PROVE  BellInv'
<1>1. /\ loads' = [k \in Loads |-> [loads[k] EXCEPT !.upToDate = FALSE]]
      /\ upToDate' = [t \in Tabs |-> FALSE]
      /\ stored' = stored /\ bell' = bell /\ notes' = notes /\ read' = read /\ writer' = writer
  BY DEF Outdated
<1>2. moments' \in 0..MaxMoments
  BY NotificationsAssumption DEF Moment, BellInv, BellTypeOK
<1>3. BellTypeOK'
  BY <1>1, <1>2 DEF BellInv, BellTypeOK
<1>4. \A k \in Loads : LoadTrue(loads[k])'
  <2> SUFFICES ASSUME NEW k \in Loads
               PROVE  LoadTrue(loads[k])'
    OBVIOUS
  <2>1. LoadTrue(loads[k]) /\ loads[k] \in [tab : Tabs \cup {NoTab}, left : SUBSET Sources, got : SUBSET Notes, upToDate : BOOLEAN]
    BY DEF BellInv, BellTypeOK
  <2>2. loads'[k] = [loads[k] EXCEPT !.upToDate = FALSE]
    BY <1>1
  <2>3. /\ loads'[k].tab = loads[k].tab /\ loads'[k].left = loads[k].left
        /\ loads'[k].got = loads[k].got /\ loads'[k].upToDate = FALSE
    BY <2>1, <2>2
  <2>4. ASSUME loads[k].tab = NoTab
        PROVE  loads'[k] = NoLoad
    <3>1. loads[k] = NoLoad
      BY <2>1, <2>4 DEF LoadTrue
    <3>2. NoLoad.upToDate = FALSE /\ loads[k] \in LoadRec
      BY <2>1 DEF NoLoad, LoadRec
    <3>3. \A r \in LoadRec : r.upToDate = FALSE => [r EXCEPT !.upToDate = FALSE] = r
      BY DEF LoadRec
    <3>4. QED
      BY <2>2, <3>1, <3>2, <3>3
  <2>5. QED
    BY <1>1, <2>1, <2>3, <2>4 DEF LoadTrue
<1>5. BellIsTrue'
  BY <1>1 DEF BellInv, BellTypeOK, BellIsTrue, NoContradiction, BellIsCurrent, MarksAreStored
<1>6. QED
  BY <1>3, <1>4, <1>5 DEF BellInv

LEMMA RowChangesKeeps ==
  ASSUME BellInv, NEW s \in Sources, NEW r \in Rows, RowChanges(s, r)
  PROVE  BellInv'
<1>1. PICK S \in SUBSET Of(Notes, s) :
        /\ \A n \in S : n.row = r
        /\ Possible(S)
        /\ facts' = {n \in facts : ~(n.source = s /\ n.row = r)} \cup S
  BY DEF RowChanges
<1> DEFINE Kept == {n \in facts : ~(n.source = s /\ n.row = r)}
<1>2. Kept \in SUBSET Notes /\ S \in SUBSET Notes /\ Possible(Kept)
  BY <1>1, PossibleParts DEF BellInv, BellTypeOK, Of
<1>3. \A n \in S : n.source = s /\ n.row = r
  BY <1>1 DEF Of
<1>4. Possible(Kept \cup S)
  <2>1. \A n, m \in Notes : Exclude(n, m) => n.source = m.source
    BY SourcesDoNotExclude
  <2>2. \A n \in Kept : \A m \in S : n.row = m.row => ~Exclude(n, m) /\ ~Exclude(m, n)
    BY <1>2, <1>3, <2>1
  <2>3. QED
    BY <1>1, <1>2, <2>2 DEF Possible
<1>5. facts' \subseteq Notes /\ Possible(facts')
  BY <1>1, <1>2, <1>4
<1>6. Moment /\ Outdated /\ granted' = granted
  BY DEF RowChanges
<1>7. QED
  BY <1>5, <1>6, BellOutdated DEF BellInv, BellTypeOK

LEMMA GrantsChangeKeeps ==
  ASSUME BellInv, GrantsChange
  PROVE  BellInv'
BY BellOutdated DEF GrantsChange, BellInv, BellTypeOK

\* Loads change, one of them at a time, and nothing else.
LEMMA OneLoadKeeps ==
  ASSUME BellInv, NEW k \in Loads, NEW l \in LoadRec, LoadTrue(l), loads' = [loads EXCEPT ![k] = l],
         UNCHANGED <<facts, granted, stored, bell, notes, read, writer, upToDate>>, moments' \in 0..MaxMoments
  PROVE  BellInv'
<1>1. BellTypeOK'
  BY DEF BellInv, BellTypeOK, LoadRec
<1>2. \A j \in Loads : loads'[j] = l \/ loads'[j] = loads[j]
  BY DEF BellInv, BellTypeOK
<1>3. \A j \in Loads : LoadTrue(loads[j])'
  BY <1>2 DEF BellInv, LoadTrue
<1>4. BellIsTrue' /\ Possible(facts')
  BY DEF BellInv, BellIsTrue, NoContradiction, BellIsCurrent, MarksAreStored
<1>5. QED
  BY <1>1, <1>3, <1>4 DEF BellInv

LEMMA SourceAnswersKeeps ==
  ASSUME BellInv, NEW k \in Loads, NEW s \in Sources, SourceAnswers(k, s)
  PROVE  BellInv'
<1> DEFINE l == [loads[k] EXCEPT !.left = loads[k].left \ {s}, !.got = loads[k].got \cup Of(facts, s)]
<1>1. loads[k] \in LoadRec /\ LoadTrue(loads[k]) /\ facts \subseteq Notes /\ Possible(facts)
  BY DEF BellInv, BellTypeOK, LoadRec
<1>2. s \in loads[k].left /\ loads' = [loads EXCEPT ![k] = l]
  BY DEF SourceAnswers
<1>3. /\ l \in LoadRec
      /\ l.tab = loads[k].tab /\ l.left = loads[k].left \ {s}
      /\ l.got = loads[k].got \cup Of(facts, s) /\ l.upToDate = loads[k].upToDate
  BY <1>1 DEF LoadRec, Of
<1>4. PICK r : r = l
  OBVIOUS
<1>5. /\ r \in LoadRec /\ r.tab = loads[k].tab /\ r.left = loads[k].left \ {s}
      /\ r.got = loads[k].got \cup Of(facts, s) /\ r.upToDate = loads[k].upToDate
      /\ loads' = [loads EXCEPT ![k] = r]
  BY <1>2, <1>3, <1>4
<1>6. Possible(r.got)
  <2>1. Possible(Of(facts, s)) /\ Of(facts, s) \in SUBSET Notes /\ \A n \in Of(facts, s) : n.source = s
    BY <1>1, PossibleParts DEF Of
  <2>2. loads[k].got \in SUBSET Notes /\ Possible(loads[k].got) /\ \A n \in loads[k].got : n.source \notin loads[k].left
    BY <1>1 DEF LoadRec, LoadTrue
  <2>3. QED
    BY <1>2, <1>5, <2>1, <2>2, PossibleTogether
<1>7. r.tab # NoTab
  BY <1>1, <1>2, <1>5 DEF LoadTrue, NoLoad
<1>8. \A n \in r.got : n.source \notin r.left
  BY <1>1, <1>5 DEF LoadTrue, Of
<1>9. r.upToDate => r.left \subseteq granted /\ r.got = {n \in facts : n.source \in granted \ r.left}
  BY <1>1, <1>2, <1>5 DEF LoadTrue, Of
<1>10. LoadTrue(r)
  BY <1>1, <1>5, <1>6, <1>7, <1>8, <1>9 DEF LoadTrue
<1>11. UNCHANGED <<facts, granted, stored, bell, notes, read, writer, upToDate>> /\ moments' \in 0..MaxMoments
  BY DEF SourceAnswers, BellInv, BellTypeOK
<1>12. QED
  BY <1>5, <1>10, <1>11, OneLoadKeeps

LEMMA SourceFailsKeeps ==
  ASSUME BellInv, NEW k \in Loads, NEW s \in Sources, SourceFails(k, s)
  PROVE  BellInv'
<1> DEFINE l == [loads[k] EXCEPT !.left = loads[k].left \ {s}, !.upToDate = FALSE]
<1>1. loads[k] \in LoadRec /\ LoadTrue(loads[k])
  BY DEF BellInv, BellTypeOK, LoadRec
<1>2. s \in loads[k].left /\ loads' = [loads EXCEPT ![k] = l]
  BY DEF SourceFails
<1>3. /\ l \in LoadRec
      /\ l.tab = loads[k].tab /\ l.left = loads[k].left \ {s} /\ l.got = loads[k].got /\ l.upToDate = FALSE
  BY <1>1 DEF LoadRec
<1>4. PICK r : r = l
  OBVIOUS
<1>5. /\ r \in LoadRec /\ r.tab = loads[k].tab /\ r.left = loads[k].left \ {s}
      /\ r.got = loads[k].got /\ r.upToDate = FALSE /\ loads' = [loads EXCEPT ![k] = r]
  BY <1>2, <1>3, <1>4
<1>6. loads[k].tab # NoTab
  BY <1>1, <1>2 DEF LoadTrue, NoLoad
<1>7. LoadTrue(r)
  BY <1>1, <1>5, <1>6 DEF LoadTrue
<1>8. UNCHANGED <<facts, granted, stored, bell, notes, read, writer, upToDate>> /\ moments' \in 0..MaxMoments
  BY NotificationsAssumption DEF SourceFails, Moment, BellInv, BellTypeOK
<1>9. QED
  BY <1>5, <1>7, <1>8, OneLoadKeeps

LEMMA LoadedKeeps ==
  ASSUME BellInv, NEW k \in Loads, Loaded(k)
  PROVE  BellInv'
<1>1. PICK t : t = loads[k].tab
  OBVIOUS
<1>2. PICK S \in Newest(loads[k].got) : notes' = [notes EXCEPT ![t] = S]
  BY <1>1 DEF Loaded, setNotes
<1>3. /\ t # NoTab /\ loads[k].left = {}
      /\ upToDate' = [upToDate EXCEPT ![t] = loads[k].upToDate]
      /\ loads' = [loads EXCEPT ![k] = NoLoad]
      /\ UNCHANGED <<facts, granted, stored, bell, read, moments, writer>>
  BY <1>1 DEF Loaded
<1>4. loads[k] \in LoadRec /\ LoadTrue(loads[k])
  BY DEF BellInv, BellTypeOK, LoadRec
<1>5. t \in Tabs /\ t \in bell /\ S \subseteq Notes /\ S \subseteq loads[k].got
  BY <1>1, <1>2, <1>3, <1>4, NewestIsPart DEF LoadRec, LoadTrue
<1>6. NoLoad \in LoadRec
  BY DEF NoLoad, LoadRec
<1>7. BellTypeOK'
  BY <1>2, <1>3, <1>4, <1>5, <1>6 DEF BellInv, BellTypeOK, LoadRec
<1>8. LoadTrue(NoLoad)
  BY NotificationsAssumption DEF LoadTrue, NoLoad, Possible
<1>9. \A j \in Loads : LoadTrue(loads[j])'
  <2>1. \A j \in Loads : loads'[j] = NoLoad \/ loads'[j] = loads[j]
    BY <1>3 DEF BellInv, BellTypeOK
  <2>2. QED
    BY <1>3, <1>8, <2>1 DEF BellInv, LoadTrue
<1>10. NoContradiction'
  <2>1. Possible(S)
    BY <1>4, <1>5, PossibleParts DEF LoadTrue
  <2>2. QED
    BY <1>2, <2>1 DEF BellInv, BellTypeOK, BellIsTrue, NoContradiction
<1>11. BellIsCurrent'
  <2>1. loads[k].upToDate => loads[k].got = {n \in facts : n.source \in granted}
    BY <1>3, <1>4 DEF LoadTrue
  <2>2. /\ notes'[t] = S /\ upToDate'[t] = loads[k].upToDate
        /\ \A u \in Tabs : u # t => notes'[u] = notes[u] /\ upToDate'[u] = upToDate[u]
    BY <1>2, <1>3, <1>5 DEF BellInv, BellTypeOK
  <2> SUFFICES ASSUME NEW u \in Tabs, u \in bell, upToDate'[u]
               PROVE  notes'[u] \in Newest({n \in facts : n.source \in granted})
    BY <1>3 DEF BellIsCurrent, Newest
  <2>3. CASE u = t
    BY <1>2, <2>1, <2>2, <2>3
  <2>4. CASE u # t
    BY <2>2, <2>4 DEF BellInv, BellIsTrue, BellIsCurrent
  <2>5. QED
    BY <2>3, <2>4
<1>12. MarksAreStored' /\ Possible(facts')
  BY <1>3 DEF BellInv, BellIsTrue, MarksAreStored, LastOf
<1>13. QED
  BY <1>7, <1>9, <1>10, <1>11, <1>12 DEF BellInv, BellIsTrue

\* A load that begins.
LEMMA LoadBegins ==
  ASSUME BellTypeOK, NEW k \in Loads, NEW t \in Tabs, collect(k, t)
  PROVE  \E l \in LoadRec :
           /\ loads' = [loads EXCEPT ![k] = l]
           /\ l.tab = t /\ l.left = granted /\ l.got = {} /\ l.upToDate = TRUE
<1> DEFINE l == [tab |-> t, left |-> granted, got |-> {}, upToDate |-> TRUE]
<1>1. l \in LoadRec
  BY NotificationsAssumption DEF BellTypeOK, LoadRec
<1>2. QED
  BY <1>1 DEF collect

LEMMA BellMountsKeeps ==
  ASSUME BellInv, NEW t \in Tabs, NEW k \in Loads, BellMounts(t, k)
  PROVE  BellInv'
<1>1. PICK l \in LoadRec :
        /\ loads' = [loads EXCEPT ![k] = l]
        /\ l.tab = t /\ l.left = granted /\ l.got = {} /\ l.upToDate = TRUE
  BY LoadBegins DEF BellInv, BellMounts
<1>2. /\ t \notin bell /\ bell' = bell \cup {t}
      /\ notes' = [notes EXCEPT ![t] = {}] /\ read' = [read EXCEPT ![t] = stored]
      /\ upToDate' = [upToDate EXCEPT ![t] = FALSE]
      /\ UNCHANGED <<facts, granted, stored, moments, writer>>
  BY DEF BellMounts
<1>3. BellTypeOK'
  BY <1>1, <1>2 DEF BellInv, BellTypeOK, LoadRec
<1>4. \A j \in Loads : LoadTrue(loads[j])'
  <2>1. \A j \in Loads : loads'[j] = l \/ loads'[j] = loads[j]
    BY <1>1 DEF BellInv, BellTypeOK
  <2>2. LoadTrue(l)'
    BY <1>1, <1>2, NotificationsAssumption DEF LoadTrue, Possible
  <2>3. \A j \in Loads : LoadTrue(loads[j])
    BY DEF BellInv
  <2>4. QED
    BY <1>2, <2>1, <2>2, <2>3 DEF LoadTrue
<1>5. /\ notes'[t] = {} /\ upToDate'[t] = FALSE /\ read'[t] = stored
      /\ \A u \in Tabs : u # t => notes'[u] = notes[u] /\ upToDate'[u] = upToDate[u] /\ read'[u] = read[u]
  BY <1>2 DEF BellInv, BellTypeOK
<1>6. NoContradiction'
  BY <1>5 DEF BellInv, BellIsTrue, NoContradiction, Possible
<1>7. BellIsCurrent'
  BY <1>2, <1>5 DEF BellInv, BellIsTrue, BellIsCurrent, Newest
<1>8. MarksAreStored'
  <2>1. stored = LastOf(stored)
    BY DEF BellInv, BellTypeOK, LastOf
  <2>2. QED
    BY <1>2, <1>5, <2>1 DEF BellInv, BellIsTrue, MarksAreStored
<1>9. QED
  BY <1>2, <1>3, <1>4, <1>6, <1>7, <1>8 DEF BellInv, BellIsTrue

LEMMA BellUnmountsKeeps ==
  ASSUME BellInv, NEW t \in Tabs, BellUnmounts(t)
  PROVE  BellInv'
<1>1. /\ bell' = bell \ {t}
      /\ loads' = [k \in Loads |-> IF loads[k].tab = t THEN NoLoad ELSE loads[k]]
      /\ UNCHANGED <<facts, granted, stored, notes, read, moments, writer, upToDate>>
  BY DEF BellUnmounts
<1>2. NoLoad \in LoadRec
  BY DEF NoLoad, LoadRec
<1>3. BellTypeOK'
  BY <1>1, <1>2 DEF BellInv, BellTypeOK, LoadRec
<1>4. \A j \in Loads : LoadTrue(loads[j])'
  <2> SUFFICES ASSUME NEW j \in Loads
               PROVE  LoadTrue(loads[j])'
    OBVIOUS
  <2>1. LoadTrue(loads[j])
    BY DEF BellInv
  <2>2. CASE loads[j].tab = t
    <3>1. loads'[j] = NoLoad
      BY <1>1, <2>2
    <3>2. QED
      BY <3>1, NotificationsAssumption DEF LoadTrue, NoLoad, Possible
  <2>3. CASE loads[j].tab # t
    <3>1. loads'[j] = loads[j]
      BY <1>1, <2>3
    <3>2. QED
      BY <1>1, <2>1, <2>3, <3>1 DEF LoadTrue
  <2>4. QED
    BY <2>2, <2>3
<1>5. BellIsTrue' /\ Possible(facts')
  BY <1>1 DEF BellInv, BellIsTrue, NoContradiction, BellIsCurrent, MarksAreStored, Newest
<1>6. QED
  BY <1>3, <1>4, <1>5 DEF BellInv

LEMMA RefetchesKeeps ==
  ASSUME BellInv, NEW t \in Tabs, NEW k \in Loads, Refetches(t, k)
  PROVE  BellInv'
<1>1. PICK l \in LoadRec :
        /\ loads' = [loads EXCEPT ![k] = l]
        /\ l.tab = t /\ l.left = granted /\ l.got = {} /\ l.upToDate = TRUE
  BY LoadBegins DEF BellInv, Refetches
<1>2. LoadTrue(l)
  BY <1>1, NotificationsAssumption DEF LoadTrue, Possible, Refetches
<1>3. UNCHANGED <<facts, granted, stored, bell, notes, read, writer, upToDate>> /\ moments' \in 0..MaxMoments
  BY DEF Refetches, BellInv, BellTypeOK
<1>4. QED
  BY <1>1, <1>2, <1>3, OneLoadKeeps

\* Marks are written, and nothing else.
LEMMA PersistKeeps ==
  ASSUME BellInv, NEW t \in Tabs, NEW ids \in Seq(Notes), persist(t, ids),
         UNCHANGED <<facts, granted, bell, notes, loads, moments, upToDate>>
  PROVE  BellInv'
<1>1. read' = [read EXCEPT ![t] = ids] /\ stored' = LastOf(ids) /\ writer' = t
  BY DEF persist
<1>2. BellTypeOK'
  BY <1>1, LastOfList DEF BellInv, BellTypeOK
<1>3. MarksAreStored'
  BY <1>1 DEF BellInv, BellTypeOK, BellIsTrue, MarksAreStored
<1>4. NoContradiction' /\ BellIsCurrent' /\ Possible(facts')
  BY DEF BellInv, BellIsTrue, NoContradiction, BellIsCurrent, Newest
<1>5. \A k \in Loads : LoadTrue(loads[k])'
  BY DEF BellInv, LoadTrue
<1>6. QED
  BY <1>2, <1>3, <1>4, <1>5 DEF BellInv, BellIsTrue

LEMMA MarksKeep ==
  ASSUME BellInv, NEW t \in Tabs, markAll(t) \/ \E n \in Notes : openNote(t, n)
  PROVE  BellInv'
<1>0. read[t] \in Seq(Notes) /\ notes[t] \subseteq Notes
  BY DEF BellInv, BellTypeOK
<1>1. CASE markAll(t)
  <2>1. PICK s \in InOrder(unread(t)) : persist(t, read[t] \o s)
    BY <1>1 DEF markAll
  <2>2. unread(t) \in SUBSET Notes
    BY <1>0 DEF unread
  <2>3. s \in Seq(Notes)
    BY <2>1, <2>2, OrderedNotes
  <2>4. read[t] \o s \in Seq(Notes)
    BY <1>0, <2>3, ConcatProperties
  <2>5. QED
    BY <1>1, <2>1, <2>4, PersistKeeps DEF markAll
<1>2. ASSUME NEW n \in Notes, openNote(t, n)
      PROVE  BellInv'
  <2>1. Append(read[t], n) \in Seq(Notes)
    BY <1>0, AppendProperties
  <2>2. QED
    BY <1>0, <1>2, <2>1, PersistKeeps DEF openNote
<1>3. QED
  BY <1>1, <1>2

LEMMA BellStep == BellInv /\ [BellNext]_bellVars => BellInv'
<1> SUFFICES ASSUME BellInv, [BellNext]_bellVars
             PROVE  BellInv'
  OBVIOUS
<1>1. ASSUME NEW s \in Sources, NEW r \in Rows, RowChanges(s, r)
      PROVE  BellInv'
  BY <1>1, RowChangesKeeps
<1>2. CASE GrantsChange
  BY <1>2, GrantsChangeKeeps
<1>3. ASSUME NEW k \in Loads, Loaded(k)
      PROVE  BellInv'
  BY <1>3, LoadedKeeps
<1>4. ASSUME NEW k \in Loads, NEW s \in Sources, SourceAnswers(k, s) \/ SourceFails(k, s)
      PROVE  BellInv'
  BY <1>4, SourceAnswersKeeps, SourceFailsKeeps
<1>5. ASSUME NEW t \in Tabs, NEW k \in Loads, BellMounts(t, k) \/ Refetches(t, k)
      PROVE  BellInv'
  BY <1>5, BellMountsKeeps, RefetchesKeeps
<1>6. ASSUME NEW t \in Tabs, BellUnmounts(t)
      PROVE  BellInv'
  BY <1>6, BellUnmountsKeeps
<1>7. ASSUME NEW t \in Tabs, markAll(t) \/ \E n \in Notes : openNote(t, n)
      PROVE  BellInv'
  BY <1>7, MarksKeep
<1>8. CASE UNCHANGED bellVars
  <2>1. UNCHANGED <<facts, granted, stored, bell, notes, read, loads, moments, writer, upToDate>>
    BY <1>8 DEF bellVars
  <2>2. BellTypeOK' /\ Possible(facts')
    BY <2>1 DEF BellInv, BellTypeOK
  <2>3. \A k \in Loads : LoadTrue(loads[k])'
    BY <2>1 DEF BellInv, LoadTrue
  <2>4. BellIsTrue'
    BY <2>1 DEF BellInv, BellIsTrue, NoContradiction, BellIsCurrent, MarksAreStored, Newest
  <2>5. QED
    BY <2>2, <2>3, <2>4 DEF BellInv
<1>9. QED
  BY <1>1, <1>2, <1>3, <1>4, <1>5, <1>6, <1>7, <1>8 DEF BellNext

\* The bell never leaves its type, for any rows, tabs, loads and limits.
THEOREM BellTypeCorrect == BellSpec => []BellTypeOK
<1>1. BellInv => BellTypeOK
  BY DEF BellInv
<1>2. QED
  BY <1>1, BellStart, BellStep, PTL DEF BellSpec

\* However the loads of its sources overlap, fail and are overtaken, the bell shows nothing
\* contradictory, shows what there is as long as nothing happens, and what it has marked as
\* read is what a reload finds until another tab writes.
THEOREM BellTellsTheTruth == BellSpec => []BellIsTrue
<1>1. BellInv => BellIsTrue
  BY DEF BellInv
<1>2. QED
  BY <1>1, BellStart, BellStep, PTL DEF BellSpec

-----------------------------------------------------------------------------
(***************************************************************************)
(* The browser: what moves is one part, and the others stay as they are.   *)
(***************************************************************************)
LEMMA BrowserParts ==
  [BrowserNext]_BrowserVars =>
    /\ [SoftphoneNext]_softphoneVars /\ [SessionNext]_sessionVars /\ [Next]_vars
    /\ [RecordingNext]_recordingVars /\ [BellNext]_bellVars
BY DEF BrowserNext, BrowserVars

LEMMA BrowserStart == BrowserInit => SoftphoneInit /\ SessionInit /\ Init /\ RecordingInit /\ BellInit
BY DEF BrowserInit

LEMMA BrowserKeeps == BrowserSpec => [](LogInv /\ SessionTypeOK /\ Basics /\ RecInv /\ BellInv)
BY BrowserStart, BrowserParts, LogInvInit, LogInvStep, SessionStart, SessionStep, InitBasics, NextBasics,
   RecInvInit, RecInvStep, BellStart, BellStep, PTL DEF BrowserSpec

\* Neither a call, a sign-in, a tab that plays in, a recording nor the bell takes the browser's
\* state out of its type.
THEOREM BrowserTypesHold == BrowserSpec => []BrowserTypeOK
<1>1. LogInv /\ SessionTypeOK /\ Basics /\ RecInv /\ BellInv => BrowserTypeOK
  BY DEF LogInv, Basics, RecInv, BellInv, BrowserTypeOK
<1>2. QED
  BY <1>1, BrowserKeeps, PTL
=============================================================================
