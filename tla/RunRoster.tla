----------------------------- MODULE RunRoster ------------------------------
(***************************************************************************)
(* Who is played in to one agent-dialed campaign: agentJoin and agentLeave *)
(* requests from Console sessions, the runs they start, and the tiers they *)
(* keep in mod_callcenter, with every await at which another request or    *)
(* the dial loop may run.                                                  *)
(*                                                                         *)
(* A session is one browser tab of an agent; an agent who refreshes the    *)
(* Console while a request is in flight has two.  The dial loop is reduced *)
(* to its phases (DialLoop models it in full): dialing may end at any time *)
(* because the leads run out, the run is stopping, or an error is thrown.  *)
(*                                                                         *)
(* Abstracted: the agent's name in mod_callcenter is the extension, the    *)
(* roster joinedAgents is a set (the code filters and searches it), the    *)
(* checks of agentJoin that only refuse (paused, not assigned) do not      *)
(* start a request, and the number of runs is bounded by MaxRuns.          *)
(***************************************************************************)
EXTENDS Integers, Sequences

CONSTANTS
  Sessions,   \* Console tabs
  Exts,       \* agent extensions
  ExtOf,      \* the extension a session belongs to
  MaxRuns,    \* bound on the runs created
  MaxTiers    \* bound on a run's tier list when another join arrives

ASSUME RosterAssumption ==
  /\ ExtOf \in [Sessions -> Exts]
  /\ MaxRuns \in Nat \ {0}
  /\ MaxTiers \in Nat

VARIABLES
  current,  \* this.runs.get(campaignId): a run, or 0
  made,     \* runs created so far
  run,      \* each run's record
  req,      \* each session's request: where it is suspended and what it holds
  console,  \* whether the session's Console shows "On campaign"
  fsTier,   \* agents tiered to the campaign's queue in FreeSWITCH (external)
  fsQueue,  \* whether FreeSWITCH has the queue loaded (external)
  esl,      \* who waits for a reply on the one event socket, in order
  raced     \* auxiliary: a request has overlapped another one or a teardown,
            \* or a command to FreeSWITCH has failed

vars == <<current, made, run, req, console, fsTier, fsQueue, esl, raced>>

Runs == 1..MaxRuns
DONE_STATES == {"done", "stopped", "error"}
LoopPhase == {"none", "dialing", "draining", "unwiring", "ended"}
ReqAt == {"idle", "starting", "loading", "naming", "adding", "arming", "deleting"}

NewRun == [status |-> "running", queueLoaded |-> FALSE, tiers |-> <<>>,
           joinedAgents |-> {}, loop |-> "none", dels |-> <<>>, threw |-> FALSE]

Idle == [at |-> "idle", run |-> 0, fresh |-> FALSE, idx |-> 0]

InSeq(s) == {s[i] : i \in 1..Len(s)}
NoDuplicates(s) == \A i, j \in 1..Len(s) : s[i] = s[j] => i = j

\* Mutant: the splice is off by one.
SpliceNext(s, i) ==
  IF i \in 1..Len(s) THEN SubSeq(s, 1, i) \o SubSeq(s, i + 2, Len(s)) ELSE s

SpliceOne(s, i) ==                                       \* splice(i - 1, 1)
  IF i \in 1..Len(s) THEN SubSeq(s, 1, i - 1) \o SubSeq(s, i + 1, Len(s)) ELSE s
\* Mutant: an absent entry is reported as -1, as findIndex does, and not told apart.
FirstIndexOrMinus(s, e) ==
  IF e \in InSeq(s) THEN CHOOSE i \in 1..Len(s) : s[i] = e ELSE -1

FirstIndex(s, e) ==                                      \* findIndex, 0 if absent
  IF e \in InSeq(s) THEN CHOOSE i \in 1..Len(s) : s[i] = e /\ \A j \in 1..(i - 1) : s[j] # e
                    ELSE 0

(***************************************************************************)
(* FreeswitchService.api: commands of all activities share one connection, *)
(* and FreeSWITCH answers them in order.  A command that fails because the *)
(* connection is down is answered the same way, with the error.            *)
(***************************************************************************)
ReplyTo(e) == esl # <<>> /\ Head(esl) = e
Request(s) == <<"req", s>>
LoopOf(r)  == <<"run", r>>

Live(r) == r # 0 /\ run[r].status \notin DONE_STATES

\* The campaign's live run lists the agent of session s.
OnCampaign(s) == Live(current) /\ ExtOf[s] \in run[current].joinedAgents

TypeOK ==
  /\ current \in 0..MaxRuns
  /\ made \in 0..MaxRuns
  /\ run \in [Runs -> [status : {"running", "stopping"} \cup DONE_STATES,
                       queueLoaded : BOOLEAN, tiers : Seq(Exts),
                       joinedAgents : SUBSET Exts, loop : LoopPhase,
                       dels : Seq(Exts), threw : BOOLEAN]]
  /\ req \in [Sessions -> [at : ReqAt, run : 0..MaxRuns, fresh : BOOLEAN, idx : Nat]]
  /\ console \in [Sessions -> BOOLEAN]
  /\ fsTier \subseteq Exts
  /\ fsQueue \in BOOLEAN
  /\ esl \in Seq(({"req"} \X Sessions) \cup ({"run"} \X Runs))
  /\ raced \in BOOLEAN

Init ==
  /\ current = 0
  /\ made = 0
  /\ run = [r \in Runs |-> NewRun]
  /\ req = [s \in Sessions |-> Idle]
  /\ console = [s \in Sessions |-> FALSE]
  /\ fsTier = {}
  /\ fsQueue = FALSE
  /\ esl = <<>>
  /\ raced = FALSE

NoRequest == \A s \in Sessions : req[s].at = "idle"

\* Nothing is under way that a new request would overlap.
Quiet == NoRequest /\ \A r \in 1..made : run[r].loop # "unwiring"

-----------------------------------------------------------------------------
\* agentJoin.

\* Mutant: a fresh run whose first agent could not join stays registered.
JoinReturnsKeepingRun(s, r, fresh, runs) ==
  LET ok == ExtOf[s] \in runs[r].joinedAgents
  IN  /\ run' = IF ok /\ fresh THEN [runs EXCEPT ![r].loop = "dialing"] ELSE runs
      /\ console' = [console EXCEPT ![s] = ok]
      /\ req' = [req EXCEPT ![s] = Idle]
      /\ UNCHANGED current

(***************************************************************************)
(* agentJoin after tierAddAgent has returned, with runs as it left them:   *)
(* on the roster the agent is told "joined" and a fresh run's loop begins; *)
(* otherwise the join is refused and a fresh campaign entry deleted.       *)
(***************************************************************************)
JoinReturns(s, r, fresh, runs) ==
  LET ok == ExtOf[s] \in runs[r].joinedAgents
  IN  /\ run' = IF ok /\ fresh THEN [runs EXCEPT ![r].loop = "dialing"] ELSE runs
      /\ current' = IF ~ok /\ fresh THEN 0 ELSE current
      /\ console' = [console EXCEPT ![s] = ok]
      /\ req' = [req EXCEPT ![s] = Idle]

\* tierAddAgent up to its first await; runs and waiting are the runs and the
\* commands in flight as its caller left them.
TierAddEntered(s, r, fresh, runs, waiting) ==
  IF ExtOf[s] \in runs[r].joinedAgents
    THEN JoinReturns(s, r, fresh, runs) /\ esl' = waiting
    ELSE /\ run' = runs
         /\ esl' = Append(waiting, Request(s))
         /\ req' = [req EXCEPT ![s] = [at |-> "naming", run |-> r, fresh |-> fresh, idx |-> 0]]
         /\ UNCHANGED <<current, console>>

\* The campaign has been read and the request allowed.
JoinArrives(s) ==
  /\ req[s].at = "idle"
  /\ ~console[s]
  /\ IF Live(current)
       THEN /\ Len(run[current].tiers) < MaxTiers
            /\ TierAddEntered(s, current, FALSE, run, esl)
       ELSE /\ req' = [req EXCEPT ![s] = [Idle EXCEPT !.at = "starting", !.fresh = TRUE]]
            /\ UNCHANGED <<run, current, console, esl>>
  /\ raced' = (raced \/ ~Quiet)
  /\ UNCHANGED <<made, fsTier, fsQueue>>

\* startRun has read the DNC list and the leads: the run is registered, and
\* `queue load` sent.
RunRegistered(s) ==
  /\ req[s].at = "starting"
  /\ made < MaxRuns
  /\ made' = made + 1
  /\ current' = made + 1
  /\ req' = [req EXCEPT ![s].at = "loading", ![s].run = made + 1]
  /\ esl' = Append(esl, Request(s))
  /\ UNCHANGED <<run, console, fsTier, fsQueue, raced>>

\* startRun throws: outside the call window, no leads left, a read failed.
StartRefused(s) ==
  /\ req[s].at = "starting"
  /\ req' = [req EXCEPT ![s] = Idle]
  /\ UNCHANGED <<current, made, run, console, fsTier, fsQueue, esl, raced>>

\* loadQueue returns (a failure is only logged) and the agent is tiered in.
QueueLoaded(s) ==
  /\ req[s].at = "loading"
  /\ ReplyTo(Request(s))
  /\ \E ok \in BOOLEAN :
       /\ fsQueue' = (fsQueue \/ ok)
       /\ raced' = (raced \/ ~ok)
       /\ TierAddEntered(s, req[s].run, TRUE,
                         [run EXCEPT ![req[s].run].queueLoaded = ok], Tail(esl))
  /\ UNCHANGED <<made, fsTier>>

\* agentNameForExt returns: null when FreeSWITCH is down or knows no such agent.
AgentNamed(s) ==
  /\ req[s].at = "naming"
  /\ ReplyTo(Request(s))
  /\ \/ /\ req' = [req EXCEPT ![s].at = "adding"]
        /\ esl' = Append(Tail(esl), Request(s))
        /\ UNCHANGED <<run, current, console>>
     \/ JoinReturns(s, req[s].run, req[s].fresh, run) /\ esl' = Tail(esl)
  /\ UNCHANGED <<made, fsTier, fsQueue, raced>>

\* `tier add` returns: added or already there, or an error.
TierAdded(s) ==
  /\ req[s].at = "adding"
  /\ ReplyTo(Request(s))
  /\ \/ /\ fsTier' = fsTier \cup {ExtOf[s]}
        /\ req' = [req EXCEPT ![s].at = "arming"]
        /\ esl' = Append(Tail(esl), Request(s))
        /\ UNCHANGED <<run, current, console, raced>>
     \/ /\ JoinReturns(s, req[s].run, req[s].fresh, run)
        /\ esl' = Tail(esl)
        /\ raced' = TRUE
        /\ UNCHANGED fsTier
  /\ UNCHANGED <<made, fsQueue>>

\* `agent set status` has returned: the run records the tier and the agent.
AgentArmed(s) ==
  /\ req[s].at = "arming"
  /\ ReplyTo(Request(s))
  /\ esl' = Tail(esl)
  /\ JoinReturns(s, req[s].run, req[s].fresh,
       [run EXCEPT ![req[s].run].tiers = Append(@, ExtOf[s]),
                   ![req[s].run].joinedAgents = @ \cup {ExtOf[s]}])
  /\ UNCHANGED <<made, fsTier, fsQueue, raced>>

-----------------------------------------------------------------------------
\* agentLeave.

\* The end of agentLeave, with tiers as tierDelAgent left them.
Left(s, r, tiers) ==
  LET joined == run[r].joinedAgents \ {ExtOf[s]}
  IN  /\ run' = [run EXCEPT
                   ![r].tiers = tiers,
                   ![r].joinedAgents = joined,
                   ![r].status = IF joined = {} /\ @ = "running" THEN "stopping" ELSE @]
      /\ console' = [console EXCEPT ![s] = FALSE]
      /\ req' = [req EXCEPT ![s] = Idle]

LeaveArrives(s) ==
  /\ req[s].at = "idle"
  /\ console[s]
  /\ LET idx == IF current = 0 THEN 0 ELSE FirstIndex(run[current].tiers, ExtOf[s])
     IN  CASE current = 0 -> /\ console' = [console EXCEPT ![s] = FALSE]
                             /\ UNCHANGED <<run, req, esl>>
           [] current # 0 /\ idx = 0 -> /\ Left(s, current, run[current].tiers)
                                       /\ UNCHANGED esl
           [] OTHER -> /\ req' = [req EXCEPT ![s] = [at |-> "deleting", run |-> current,
                                                     fresh |-> FALSE, idx |-> idx]]
                       /\ esl' = Append(esl, Request(s))
                       /\ UNCHANGED <<run, console>>
  /\ raced' = (raced \/ ~Quiet)
  /\ UNCHANGED <<current, made, fsTier, fsQueue>>

\* `tier del` has returned (or failed, which is only logged): the entry at the
\* index found before the await is spliced out.
TierDeleted(s) ==
  /\ req[s].at = "deleting"
  /\ ReplyTo(Request(s))
  /\ esl' = Tail(esl)
  /\ \/ fsTier' = fsTier \ {ExtOf[s]} /\ UNCHANGED raced
     \/ raced' = TRUE /\ UNCHANGED fsTier
  /\ Left(s, req[s].run, SpliceOne(run[req[s].run].tiers, req[s].idx))
  /\ UNCHANGED <<current, made, fsQueue>>

-----------------------------------------------------------------------------
\* The Console and the supervisor.

\* Mutant: a campaign without a live run is not reported.
ParticipationPollLive(s) ==
  /\ console[s]
  /\ req[s].at = "idle"
  /\ Live(current)
  /\ ExtOf[s] \notin run[current].joinedAgents
  /\ console' = [console EXCEPT ![s] = FALSE]
  /\ UNCHANGED <<current, made, run, req, fsTier, fsQueue, esl, raced>>

\* The Console polls /participation and takes the agent off a campaign whose run
\* is gone or finished, or which no longer lists them.
ParticipationPoll(s) ==
  /\ console[s]
  /\ req[s].at = "idle"
  /\ ~OnCampaign(s)
  /\ console' = [console EXCEPT ![s] = FALSE]
  /\ UNCHANGED <<current, made, run, req, fsTier, fsQueue, esl, raced>>

\* A refreshed Console restores the campaign from activeCampaignForAgent.
Restore(s) ==
  /\ ~console[s]
  /\ req[s].at = "idle"
  /\ OnCampaign(s)
  /\ console' = [console EXCEPT ![s] = TRUE]
  /\ UNCHANGED <<current, made, run, req, fsTier, fsQueue, esl, raced>>

\* The tab is reloaded: the page forgets, the server does not.
Refresh(s) ==
  /\ console[s]
  /\ req[s].at = "idle"
  /\ console' = [console EXCEPT ![s] = FALSE]
  /\ UNCHANGED <<current, made, run, req, fsTier, fsQueue, esl, raced>>

stop ==
  /\ current # 0
  /\ run[current].status = "running"
  /\ run' = [run EXCEPT ![current].status = "stopping"]
  /\ UNCHANGED <<current, made, req, console, fsTier, fsQueue, esl, raced>>

-----------------------------------------------------------------------------
\* The dial loop's phases.

\* Mutant: the roster is left on the run.
UnwiringTiersOnly(r, threw) ==
  /\ run' = [run EXCEPT ![r].dels = run[r].tiers, ![r].tiers = <<>>,
                        ![r].loop = "unwiring", ![r].threw = threw]
  /\ esl' = IF run[r].tiers # <<>> \/ run[r].queueLoaded THEN Append(esl, LoopOf(r)) ELSE esl
  /\ raced' = (raced \/ ~NoRequest)

\* Mutant: without tiers, the queue is waited for but never unloaded.
UnwiringNoUnload(r, threw) ==
  /\ run' = [run EXCEPT ![r] = [@ EXCEPT !.dels = run[r].tiers, !.tiers = <<>>,
                                         !.joinedAgents = {}, !.loop = "unwiring",
                                         !.threw = threw]]
  /\ esl' = IF run[r].tiers # <<>> THEN Append(esl, LoopOf(r)) ELSE esl
  /\ raced' = (raced \/ ~NoRequest)

\* unwireQueue up to its first await: the run's tiers are taken for deletion.
Unwiring(r, threw) ==
  /\ run' = [run EXCEPT ![r] = [@ EXCEPT !.dels = run[r].tiers, !.tiers = <<>>,
                                         !.joinedAgents = {}, !.loop = "unwiring",
                                         !.threw = threw]]
  /\ esl' = IF run[r].tiers # <<>> \/ run[r].queueLoaded THEN Append(esl, LoopOf(r)) ELSE esl
  /\ raced' = (raced \/ ~NoRequest)

\* The plan limits cannot be read: the loop throws before its try block.
LoopNeverStarts(r) ==
  /\ run[r].loop = "dialing"
  /\ run' = [run EXCEPT ![r] = [@ EXCEPT !.loop = "ended", !.status = "error"]]
  /\ raced' = TRUE
  /\ UNCHANGED <<current, made, req, console, fsTier, fsQueue, esl>>

LoopThrows(r) ==
  /\ run[r].loop = "dialing"
  /\ Unwiring(r, TRUE)
  /\ UNCHANGED <<current, made, req, console, fsTier, fsQueue>>

\* Leads exhausted, or stopping; drainQueue returns at once without tiers.
LoopLeavesWhile(r) ==
  /\ run[r].loop = "dialing"
  /\ IF run[r].tiers = <<>>
       THEN Unwiring(r, FALSE)
       ELSE run' = [run EXCEPT ![r] = [@ EXCEPT !.loop = "draining"]] /\ UNCHANGED <<esl, raced>>
  /\ UNCHANGED <<current, made, req, console, fsTier, fsQueue>>

Drained(r) ==
  /\ run[r].loop = "draining"
  /\ Unwiring(r, FALSE)
  /\ UNCHANGED <<current, made, req, console, fsTier, fsQueue>>

UnwireTier(r) ==
  /\ run[r].loop = "unwiring"
  /\ run[r].dels # <<>>
  /\ ReplyTo(LoopOf(r))
  /\ esl' = IF Len(run[r].dels) > 1 \/ run[r].queueLoaded
              THEN Append(Tail(esl), LoopOf(r)) ELSE Tail(esl)
  /\ \/ fsTier' = fsTier \ {Head(run[r].dels)} /\ UNCHANGED raced
     \/ raced' = TRUE /\ UNCHANGED fsTier
  /\ run' = [run EXCEPT ![r] = [@ EXCEPT !.dels = Tail(run[r].dels)]]
  /\ UNCHANGED <<current, made, req, console, fsQueue>>

\* The queue is unloaded and the run gets its final status.
RunEnds(r) ==
  /\ run[r].loop = "unwiring"
  /\ run[r].dels = <<>>
  /\ IF run[r].queueLoaded
       THEN /\ ReplyTo(LoopOf(r))
            /\ esl' = Tail(esl)
            /\ \/ fsQueue' = FALSE /\ UNCHANGED raced
               \/ raced' = TRUE /\ UNCHANGED fsQueue
       ELSE UNCHANGED <<esl, fsQueue, raced>>
  /\ run' = [run EXCEPT ![r] = [@ EXCEPT !.queueLoaded = FALSE, !.loop = "ended",
                 !.status = IF run[r].threw THEN "error"
                            ELSE IF run[r].status = "stopping" THEN "stopped" ELSE "done"]]
  /\ UNCHANGED <<current, made, req, console, fsTier>>

RequestStep(s) ==
  \/ RunRegistered(s) \/ StartRefused(s) \/ QueueLoaded(s)
  \/ AgentNamed(s) \/ TierAdded(s) \/ AgentArmed(s) \/ TierDeleted(s)

LoopStep(r) ==
  \/ LoopNeverStarts(r) \/ LoopThrows(r) \/ LoopLeavesWhile(r)
  \/ Drained(r) \/ UnwireTier(r) \/ RunEnds(r)

Next ==
  \/ \E s \in Sessions :
       JoinArrives(s) \/ LeaveArrives(s) \/ RequestStep(s)
         \/ ParticipationPoll(s) \/ Restore(s) \/ Refresh(s)
  \/ \E r \in 1..made : LoopStep(r)
  \/ stop

Spec == Init /\ [][Next]_vars

-----------------------------------------------------------------------------
(***************************************************************************)
(* Fairness: requests, the loop's awaits and the Console's polling go on,  *)
(* and a loop told to stop leaves its while (DialLoop!StopEnds).  Nobody   *)
(* has to join, leave, stop or finish dialing.                             *)
(***************************************************************************)
Fairness ==
  /\ \A s \in Sessions : WF_vars(RequestStep(s)) /\ WF_vars(ParticipationPoll(s))
  /\ \A r \in Runs :
       /\ WF_vars(Drained(r) \/ UnwireTier(r) \/ RunEnds(r))
       /\ WF_vars(run[r].status = "stopping" /\ LoopLeavesWhile(r))

FairSpec == Spec /\ Fairness

-----------------------------------------------------------------------------
\* Between requests, a run that is dialing or draining has one tier entry and
\* one roster entry for each played-in agent, and FreeSWITCH has exactly those
\* tiers: pushed, spliced and deleted together as long as no request overlaps
\* another one or a teardown and no command fails.
RosterMatchesTiers ==
  ~raced /\ NoRequest =>
    \A r \in 1..made : run[r].loop \in {"dialing", "draining"} =>
      /\ InSeq(run[r].tiers) = run[r].joinedAgents
      /\ NoDuplicates(run[r].tiers)
      /\ fsTier = InSeq(run[r].tiers)

\* After a run no agent is left tiered, in the run or in FreeSWITCH, under the
\* same condition.
TornDownClean ==
  ~raced /\ NoRequest /\ (\A r \in 1..made : run[r].loop \in {"none", "ended"}) =>
    fsTier = {} /\ \A r \in 1..made : run[r].tiers = <<>> /\ run[r].joinedAgents = {}

\* Both: the roster is true during a run and empty after it.
RosterStaysTrue == RosterMatchesTiers /\ TornDownClean

\* A registered live run is dialing or about to: the join that created it is
\* still in flight.  A failed first join does not leave a run idling, whatever
\* other joins and leaves overlap it.
NoIdleRun ==
  Live(current) /\ run[current].loop = "none" =>
    \E s \in Sessions : req[s].run = current /\ req[s].fresh

\* A run told to stop whose loop has begun, and any run that has stopped dialing,
\* gets through its teardown to a final status: joins and leaves that arrive
\* meanwhile, other requests' commands on the socket and failing ones do not
\* hold it up.
StopTearsDown ==
  \A r \in Runs :
    run[r].loop \in {"draining", "unwiring"}
        \/ (run[r].status = "stopping" /\ run[r].loop = "dialing")
      ~> run[r].status \in DONE_STATES

\* A supervisor's stop reaches every Console: an agent shown on the campaign is
\* taken off, through the loop's exit, the drain, the teardown and the Console's
\* own poll, whatever the agents do meanwhile.
StopReachesConsole ==
  \A s \in Sessions :
    (console[s] /\ current # 0 /\ run[current].status = "stopping") ~> ~console[s]

\* Both: a stop gets through its teardown and to every Console.
StopsArrive == StopTearsDown /\ StopReachesConsole

-----------------------------------------------------------------------------
\* Claims of the source's comments that the code does not keep.

\* dialer.service.ts:232: runs never overlap per campaign.
RunsNeverOverlap ==
  \A r, q \in 1..made :
    run[r].loop \in {"dialing", "draining"} /\ run[q].loop \in {"dialing", "draining"} => r = q

\* dialer.service.ts:871: this run's agents are always detached.  Here: at least
\* from a run that ended normally.
DetachedWhenDone ==
  \A r \in 1..made : run[r].status \in {"done", "stopped"} => run[r].tiers = <<>>

\* dialer.service.ts:956: a leave removes the leaving agent's tier, no other.
LeaveRemovesOwnTier ==
  [][\A s \in Sessions : TierDeleted(s) =>
       LET r == req[s].run
       IN  InSeq(run[r].tiers) \ {ExtOf[s]} \subseteq InSeq(run'[r].tiers)]_vars
=============================================================================
