----------------------------- MODULE Softphone -----------------------------
(***************************************************************************)
(* The browser softphone (CallProvider.tsx): one SIP user agent that is    *)
(* connected, dropped, retried and replaced, the call on it, the log of    *)
(* every call that ends, and the disposition the agent submits for it.     *)
(*                                                                         *)
(* A softphone connects in awaits: the old user agent is disconnected      *)
(* ("drop"), the configuration fetched ("config"), the new transport       *)
(* opened and registered ("transport"), the agent set Available            *)
(* ("status"); connectingRef is up all along.  The user agent in suRef     *)
(* belongs to the attempt before while a new one is in its first two.      *)
(* Calls are numbered; a call number also stands for its peer, its log's   *)
(* id and the disposition picked for it.  A ringing call that the agent    *)
(* cancels ends later, when the network confirms it.                       *)
(***************************************************************************)
EXTENDS Integers, FiniteSets

CONSTANTS
  MaxCalls,     \* bound on the calls
  MaxFaults,    \* bound on failed attempts and lost transports
  SlowStatus    \* may setting the agent Available outlast the time to the next reconnection?

ASSUME SoftphoneAssumption == MaxCalls \in Nat /\ MaxFaults \in Nat /\ SlowStatus \in BOOLEAN

VARIABLES
  phase, step, timer, reconnecting, up, stopped, faults,  \* the connection
  session, call, answered, calls,                         \* the call
  mode, chosen, wrapUp,                                   \* the console
  posts, lastLogId, previewLogId, submit, disposing,      \* logging and dispositions
  logs, disps,                                            \* the server's logs of each call
  spoiled, odd                                            \* auxiliary, see the properties

linkVars    == <<phase, step, timer, reconnecting, up, stopped, faults>>
callVars    == <<session, call, answered, calls>>
logVars     == <<posts, lastLogId, previewLogId, submit, disposing, logs, disps>>
softphoneVars == <<linkVars, callVars, mode, chosen, wrapUp, logVars, spoiled, odd>>

Calls == 1..MaxCalls
Ids   == 0..MaxCalls          \* 0 stands for null
OnCall == {"incoming", "outgoing", "incall"}
NoSession == [is |-> "none", id |-> 0]
NoSubmit  == [is |-> "none", to |-> 0, of |-> 0, as |-> "adhoc"]
SubmitIn(m, to) == [is |-> "sent", to |-> to, of |-> call, as |-> m]

SoftphoneTypeOK ==
  /\ phase \in {"connecting", "registered"} \cup OnCall
  /\ step \in {"idle", "drop", "config", "transport", "status"}
  /\ {timer, reconnecting, up, stopped, answered, wrapUp, disposing} \subseteq BOOLEAN
  /\ faults \in 0..MaxFaults /\ calls \in Ids /\ {call, chosen, lastLogId, previewLogId} \subseteq Ids
  /\ session \in [is : {"none", "ringing", "calling", "cancelled", "talking"}, id : Ids]
  /\ mode \in {"adhoc", "preview", "auto"}
  /\ posts \subseteq [of : Calls, at : {"end", "submit"}, as : {"log", "preview"}, disp : Ids]
  /\ submit \in [is : {"none", "sent", "logs"}, to : Ids, of : Ids, as : {"adhoc", "preview", "auto"}]
  /\ logs \in [Calls -> 0..2] /\ disps \in [Calls -> SUBSET Calls]
  /\ spoiled \subseteq Calls /\ odd \subseteq Calls

-----------------------------------------------------------------------------
\* Mutant: the attempt's number is not compared.
isCurrentAlways(latest) == ~stopped

\* A callback acts only for the attempt that is the latest, in a mounted provider.
isCurrent(latest) == latest /\ ~stopped

Latest == step \notin {"drop", "config"}   \* is suRef's user agent the latest attempt's?

scheduleReconnect(on) == on => timer' = TRUE /\ reconnecting' = TRUE /\ phase' = "connecting"
KeepsPlan(on) == ~on => UNCHANGED <<timer, reconnecting, phase>>

\* setPhase('registered'), and no more reconnecting.
Registered == phase' = "registered" /\ reconnecting' = FALSE /\ timer' = FALSE

\* The log of the call that has ended: an attempt of the preview campaign or a call log.
LogPost(at, disp) ==
  [of |-> call, at |-> at, as |-> IF mode = "preview" THEN "preview" ELSE "log",
   disp |-> IF mode = "preview" THEN 0 ELSE disp]

\* What onCallHangup does about the log: nothing while a disposition is being submitted.
LogsEnd(off) == posts' = IF off THEN posts ELSE posts \cup {LogPost("end", chosen)}

onCallHangup(on, off) ==
  /\ session' = NoSession
  /\ IF on
       THEN phase' = "registered" /\ wrapUp' = TRUE /\ answered' = FALSE /\ LogsEnd(off)
       ELSE UNCHANGED <<phase, wrapUp, answered, posts>>

SoftphoneInit ==
  /\ phase = "connecting" /\ step = "drop" /\ timer = FALSE /\ reconnecting = FALSE
  /\ up = FALSE /\ stopped = FALSE /\ faults = 0
  /\ session = NoSession /\ call = 0 /\ answered = FALSE /\ calls = 0
  /\ mode = "adhoc" /\ chosen = 0 /\ wrapUp = FALSE
  /\ posts = {} /\ lastLogId = 0 /\ previewLogId = 0 /\ submit = NoSubmit /\ disposing = FALSE
  /\ logs = [c \in Calls |-> 0] /\ disps = [c \in Calls |-> {}]
  /\ spoiled = {} /\ odd = {}

-----------------------------------------------------------------------------
\* connect, up to its first await; a second call returns while one is under way.
connect ==
  IF step = "idle" THEN step' = "drop" /\ phase' = "connecting" ELSE UNCHANGED <<step, phase>>

TimerFires ==
  /\ timer /\ ~stopped /\ (step = "status" => SlowStatus)
  /\ timer' = FALSE /\ connect
  /\ UNCHANGED <<reconnecting, up, stopped, faults, callVars, mode, chosen, wrapUp, logVars, spoiled, odd>>

retryNow ==   \* the button shows while reconnecting
  /\ reconnecting /\ phase = "connecting" /\ ~stopped /\ (step = "status" => SlowStatus)
  /\ timer' = FALSE /\ connect
  /\ UNCHANGED <<reconnecting, up, stopped, faults, callVars, mode, chosen, wrapUp, logVars, spoiled, odd>>

\* The old user agent stops, and its call with it.
Disconnects ==
  /\ step = "drop"
  /\ step' = "config" /\ up' = FALSE
  /\ IF session = NoSession THEN UNCHANGED <<session, phase, wrapUp, answered, posts>>
     ELSE onCallHangup(isCurrent(Latest), disposing)
  /\ spoiled' = spoiled \cup ({session.id} \ {0})
  /\ UNCHANGED <<timer, reconnecting, stopped, faults, call, calls, mode, chosen, lastLogId, previewLogId,
                 submit, disposing, logs, disps, odd>>

ConfigArrives ==
  /\ step = "config" /\ step' = "transport"
  /\ UNCHANGED <<phase, timer, reconnecting, up, stopped, faults, callVars, mode, chosen, wrapUp, logVars, spoiled, odd>>

\* Mutant: it shows the error and leaves it at that.
AttemptFailsForGood ==
  /\ step \in {"config", "transport"} /\ faults < MaxFaults
  /\ step' = "idle" /\ faults' = faults + 1
  /\ UNCHANGED <<phase, timer, reconnecting, up, stopped, callVars, mode, chosen, wrapUp, logVars, spoiled, odd>>

\* The configuration or the transport fails: the catch.
AttemptFails ==
  /\ step \in {"config", "transport"} /\ faults < MaxFaults
  /\ step' = "idle" /\ faults' = faults + 1
  /\ scheduleReconnect(isCurrent(TRUE)) /\ KeepsPlan(isCurrent(TRUE))
  /\ UNCHANGED <<up, stopped, callVars, mode, chosen, wrapUp, logVars, spoiled, odd>>

\* The transport opens and the phone registers; unmounted meanwhile, it stays that way.
Registers ==
  /\ step = "transport" /\ up' = TRUE
  /\ IF isCurrent(TRUE) THEN step' = "status" /\ Registered
     ELSE step' = "idle" /\ UNCHANGED <<phase, reconnecting, timer>>
  /\ UNCHANGED <<stopped, faults, callVars, mode, chosen, wrapUp, logVars, spoiled, odd>>

StatusSet ==
  /\ step = "status" /\ step' = "idle"
  /\ UNCHANGED <<phase, timer, reconnecting, up, stopped, faults, callVars, mode, chosen, wrapUp, logVars, spoiled, odd>>

onServerDisconnect ==
  /\ up /\ faults < MaxFaults
  /\ up' = FALSE /\ faults' = faults + 1
  /\ scheduleReconnect(isCurrent(Latest)) /\ KeepsPlan(isCurrent(Latest))
  /\ UNCHANGED <<step, stopped, callVars, mode, chosen, wrapUp, logVars, spoiled, odd>>

\* The layout is left: the reconnect is cancelled and the user agent disconnected.
Unmounts ==
  /\ ~stopped /\ stopped' = TRUE /\ timer' = FALSE /\ up' = FALSE
  /\ session' = NoSession
  /\ spoiled' = spoiled \cup ({session.id} \ {0})
  /\ UNCHANGED <<phase, step, reconnecting, faults, call, answered, calls, mode, chosen, wrapUp, logVars, odd>>

-----------------------------------------------------------------------------
\* A call begins. Of the one before there may be left an unsubmitted selection, a log on
\* its way, and a disposition being sent, until when no call's end is logged.
Begins(is, ph, pending) ==
  /\ calls < MaxCalls /\ session = NoSession /\ up /\ ~stopped /\ Latest
  /\ calls' = calls + 1 /\ call' = calls + 1
  /\ session' = [is |-> is, id |-> calls + 1] /\ phase' = ph
  /\ answered' = FALSE /\ wrapUp' = FALSE
  /\ odd' = odd \cup IF pending THEN {calls + 1} \cup ({call} \ {0}) ELSE {}
  /\ spoiled' = spoiled \cup IF disposing THEN {calls + 1} ELSE {}
  /\ UNCHANGED <<step, timer, reconnecting, up, stopped, faults, mode, chosen, posts, submit, disposing,
                 logs, disps>>
Pending == posts # {} \/ chosen # 0 \/ submit # NoSubmit

\* Mutant: the last log's id is kept.
placeCallToKeepsLog ==
  /\ phase = "registered"
  /\ UNCHANGED <<lastLogId, previewLogId>>
  /\ Begins("calling", "outgoing", Pending)

placeCallTo ==
  /\ phase = "registered"
  /\ lastLogId' = 0 /\ previewLogId' = 0
  /\ Begins("calling", "outgoing", Pending)

\* An incoming call is dealt with like any other: in a preview session as an attempt on
\* the lead at hand, whose log of before it keeps.
onCallReceived ==
  /\ lastLogId' = 0 /\ UNCHANGED previewLogId
  /\ Begins("ringing", "incoming", Pending \/ previewLogId # 0)

onCallAnswered ==
  /\ session.is \in {"ringing", "calling"} /\ up /\ isCurrent(Latest)
  /\ session' = [session EXCEPT !.is = "talking"]
  /\ answered' = TRUE /\ phase' = "incall"
  /\ UNCHANGED <<step, timer, reconnecting, up, stopped, faults, call, calls, mode, chosen, wrapUp, logVars, spoiled, odd>>

\* The other side ends it, or the network confirms that the agent cancelled.
Ends ==
  /\ session # NoSession /\ up
  /\ onCallHangup(isCurrent(Latest), disposing)
  /\ UNCHANGED <<step, timer, reconnecting, up, stopped, faults, call, calls, mode, chosen, lastLogId,
                 previewLogId, submit, disposing, logs, disps, spoiled, odd>>

\* hangup and decline: a call that rings out is cancelled, any other ends at once.
hangup(off) ==
  IF session.is = "calling"
    THEN session' = [session EXCEPT !.is = "cancelled"] /\ UNCHANGED <<phase, wrapUp, answered, posts>>
    ELSE onCallHangup(isCurrent(Latest), off)

AgentHangsUp ==
  /\ phase \in OnCall /\ session.is \in {"ringing", "calling", "talking"} /\ up /\ hangup(disposing)
  /\ UNCHANGED <<step, timer, reconnecting, up, stopped, faults, call, calls, mode, chosen, lastLogId,
                 previewLogId, submit, disposing, logs, disps, spoiled, odd>>

-----------------------------------------------------------------------------
\* Choose a disposition: its panel is there during a call and in wrap-up.
Chooses ==
  /\ (phase \in OnCall \/ (phase = "registered" /\ wrapUp)) /\ submit = NoSubmit /\ call # 0
  /\ chosen' = call
  /\ UNCHANGED <<linkVars, callVars, mode, wrapUp, logVars, spoiled, odd>>

\* New call, or the 25 seconds that wrap-up lasts outside of a preview campaign.
clearWrapUp ==
  /\ wrapUp /\ mode # "preview" /\ wrapUp' = FALSE
  /\ UNCHANGED <<linkVars, callVars, mode, chosen, logVars, spoiled, odd>>

\* A preview campaign is started, an auto-dial campaign joined ...
Enters(m) ==
  /\ mode = "adhoc" /\ m # "adhoc" /\ phase = "registered" /\ mode' = m
  /\ IF m = "preview" THEN chosen' = 0 /\ wrapUp' = FALSE ELSE UNCHANGED <<chosen, wrapUp>>
  /\ UNCHANGED <<linkVars, callVars, logVars, spoiled, odd>>

\* ... and ended: the agent's doing, or the run's, at any time.
Exits ==
  /\ mode # "adhoc" /\ mode' = "adhoc"
  /\ IF mode = "preview" THEN chosen' = 0 /\ wrapUp' = FALSE ELSE UNCHANGED <<chosen, wrapUp>>
  /\ UNCHANGED <<linkVars, callVars, logVars, spoiled, odd>>

\* The server has stored a log and answers: its id becomes the last one's, whatever call
\* is on by now.
PostReturns(p) ==
  /\ p \in posts
  /\ logs' = [logs EXCEPT ![p.of] = IF @ < 2 THEN @ + 1 ELSE 2]
  /\ disps' = IF p.disp = 0 THEN disps ELSE [disps EXCEPT ![p.of] = @ \cup {p.disp}]
  /\ IF p.as = "log" THEN lastLogId' = p.of /\ UNCHANGED previewLogId
                     ELSE previewLogId' = p.of /\ UNCHANGED lastLogId
  /\ posts' = posts \ {p}
  /\ IF p.at = "submit" THEN submit' = NoSubmit /\ chosen' = 0 /\ wrapUp' = FALSE
                        ELSE UNCHANGED <<submit, chosen, wrapUp>>
  /\ UNCHANGED <<linkVars, callVars, mode, disposing, spoiled, odd>>

-----------------------------------------------------------------------------
\* submitDisposition. Hanging up an unanswered call, or submitting before the log of the
\* call is back, is what it does not cope with; a mid-call submission of an auto-dial
\* campaign leaves the call without a log.
Submitting ==
  /\ chosen # 0 /\ submit = NoSubmit
  /\ phase \in OnCall \/ (phase = "registered" /\ wrapUp)
  /\ session.is # "cancelled"
Hurried == session.is = "calling" \/ \E p \in posts : p.of = call
Unlogged == phase \in OnCall /\ (mode = "auto" \/ previewLogId # 0)

\* In a campaign: hang up, then send. On an auto-dial call, only a log that exists is sent
\* the disposition (the lead's is a matter of LeadOutcome).
SubmitsToCampaign ==
  /\ Submitting /\ mode # "adhoc"
  /\ IF phase \in OnCall THEN disposing' = TRUE /\ hangup(TRUE)
     ELSE UNCHANGED <<disposing, session, phase, wrapUp, answered, posts>>
  /\ submit' = SubmitIn(mode, IF mode = "preview" THEN previewLogId ELSE lastLogId)
  /\ spoiled' = spoiled \cup IF Hurried \/ Unlogged THEN {call} ELSE {}
  /\ UNCHANGED <<step, timer, reconnecting, up, stopped, faults, call, calls, mode, chosen, lastLogId,
                 previewLogId, logs, disps, odd>>

\* Any other call: hang up, which logs it with the disposition, ...
SubmitsOnCall ==
  /\ Submitting /\ mode = "adhoc" /\ phase \in OnCall
  /\ hangup(FALSE) /\ chosen' = 0
  /\ UNCHANGED <<step, timer, reconnecting, up, stopped, faults, call, calls, mode, lastLogId,
                 previewLogId, submit, disposing, logs, disps, spoiled, odd>>

\* ... add it to the last log, ...
SubmitsToLog ==
  /\ Submitting /\ mode = "adhoc" /\ phase = "registered" /\ lastLogId # 0
  /\ submit' = SubmitIn(mode, lastLogId)
  /\ UNCHANGED <<linkVars, callVars, mode, chosen, wrapUp, posts, lastLogId, previewLogId, disposing,
                 logs, disps, spoiled, odd>>

\* ... or, when there is none, log it now.
SubmitsNewLog ==
  /\ Submitting /\ mode = "adhoc" /\ phase = "registered" /\ lastLogId = 0
  /\ posts' = posts \cup {LogPost("submit", chosen)}
  /\ submit' = [SubmitIn(mode, 0) EXCEPT !.is = "logs"]
  /\ spoiled' = spoiled \cup {call}
  /\ UNCHANGED <<linkVars, callVars, mode, chosen, wrapUp, lastLogId, previewLogId, disposing, logs, disps, odd>>

\* The answer to a campaign's disposition or a log's. A preview disposition without a log
\* makes one, and the next lead is fetched for the campaign it was sent to.
Submitted ==
  /\ submit.is = "sent"
  /\ LET on == IF submit.to = 0 /\ submit.as = "preview" THEN submit.of ELSE submit.to IN
       /\ logs' = IF submit.to = 0 /\ submit.as = "preview"
                    THEN [logs EXCEPT ![on] = IF @ < 2 THEN @ + 1 ELSE 2] ELSE logs
       /\ disps' = IF on = 0 \/ chosen = 0 THEN disps ELSE [disps EXCEPT ![on] = @ \cup {chosen}]
  /\ IF submit.as = "preview" THEN previewLogId' = 0 /\ mode' = "preview" ELSE UNCHANGED <<previewLogId, mode>>
  /\ disposing' = IF submit.as = "adhoc" THEN disposing ELSE FALSE
  /\ submit' = NoSubmit /\ chosen' = 0 /\ wrapUp' = FALSE
  /\ UNCHANGED <<linkVars, callVars, posts, lastLogId, spoiled, odd>>

SoftphoneNext ==
  \/ TimerFires \/ retryNow \/ Disconnects \/ ConfigArrives \/ AttemptFails \/ Registers \/ StatusSet
  \/ onServerDisconnect \/ Unmounts
  \/ placeCallTo \/ onCallReceived \/ onCallAnswered \/ Ends \/ AgentHangsUp
  \/ Chooses \/ clearWrapUp \/ (\E m \in {"preview", "auto"} : Enters(m)) \/ Exits
  \/ (\E p \in posts : PostReturns(p))
  \/ SubmitsToCampaign \/ SubmitsOnCall \/ SubmitsToLog \/ SubmitsNewLog \/ Submitted

\* Timers fire and awaits end.
Progress == TimerFires \/ Disconnects \/ ConfigArrives \/ Registers \/ StatusSet

SoftphoneSpec == SoftphoneInit /\ [][SoftphoneNext]_softphoneVars /\ WF_softphoneVars(Progress)

-----------------------------------------------------------------------------
\* What the console shows is there: the phone is registered when it says so, and a call it
\* shows is the user agent's own; whatever an earlier user agent calls back does not count.
ShowsWhatIsThere ==
  ~stopped =>
    /\ phase # "connecting" => up /\ Latest
    /\ phase \in OnCall => session # NoSession

Settled(c) ==
  /\ c <= calls /\ session.id # c /\ c # submit.of
  /\ \A p \in posts : p.of # c

\* A call that has ended is logged, and logged once, however it ended and whether or not
\* its disposition came first. Spoiled are the calls cut off with the user agent, those of
\* an auto-dial campaign whose disposition was submitted during the call, those whose
\* disposition was submitted before they were answered or before their log was back, and
\* those that began while the disposition of the call before was being sent, or while its
\* log was on its way to a preview session.
LoggedOnce == \A c \in Calls \ spoiled : Settled(c) => logs[c] = 1

\* A disposition lands on the log of the call it was picked for, and on no other. Odd are
\* the calls around one that began while a log, a disposition or a selection was pending.
DispositionOfItsCall == \A c \in Calls, d \in Calls : d \in disps[c] => c = d \/ {c, d} \subseteq odd

\* Every call has one log, with its own disposition on it.
LogsOfTheirCalls == LoggedOnce /\ DispositionOfItsCall

\* "Reconnecting automatically. No need to refresh": a phone that is connecting gets done
\* with it, unless the page is left.
ComesBack == phase = "connecting" ~> phase # "connecting" \/ stopped

\* CallProvider.tsx:713: an auto-dial campaign's call "is logged (with campaignId) on
\* hangup", whatever the agent has submitted by then.
CampaignCallsAreLogged == mode = "auto" /\ ~stopped => \A c \in Calls : Settled(c) => logs[c] > 0
=============================================================================
