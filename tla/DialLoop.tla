------------------------------ MODULE DialLoop ------------------------------
(***************************************************************************)
(* One dialer run: DialerService.loop() from beginLoop to the end of the   *)
(* run, with everything that happens while it is suspended at an await.    *)
(*                                                                         *)
(* The loop is one sequential activity; pc is the await it is suspended    *)
(* at, and an action is the code between two awaits.  Each launched call   *)
(* is an activity of its own, named <<lead, attempt>>: it is ringing while *)
(* dialOne waits for FreeSWITCH and saving while the attempt is persisted. *)
(* The roster, the supervisor's stop and the answered callers in the ACD   *)
(* queue change in between.                                                *)
(*                                                                         *)
(* Abstracted: numbers are leads, an attempt's texts (cause, disposition,  *)
(* recording) are left out, the number of free agents and of waiting       *)
(* callers read from FreeSWITCH is any number it could be, a Predictive    *)
(* run's ratio is any of Ratios, and the roster is a set (RunRoster models *)
(* how it is built and taken down).                                        *)
(***************************************************************************)
EXTENDS Integers, Sequences, FiniteSets, Pacing

CONSTANTS
  Leads,        \* the leads this run works, one item each
  Dnc,          \* the leads whose number is on the DNC list at start
  Order,        \* the other leads, oldest first: the initial pending list
  Agents,       \* the extensions that may play in
  MaxAttempts,  \* campaign.maxAttempts, clamped
  Concurrency,  \* campaign.concurrency, clamped and capped by the plan
  Progressive,  \* TRUE for Progressive, FALSE for Power and Predictive
  Ratios,       \* over-dial ratios in effect, in hundredths
  MaxWaiting    \* bound on the waiting callers the queue reports

ASSUME LeadsAssumption ==
  /\ IsFiniteSet(Leads)
  /\ Dnc \subseteq Leads
  /\ Order \in Seq(Leads)
  /\ \A i \in 1..Len(Order) : Order[i] \notin Dnc
  /\ \A i, j \in 1..Len(Order) : Order[i] = Order[j] => i = j
  /\ \A l \in Leads \ Dnc : \E i \in 1..Len(Order) : Order[i] = l

ASSUME LimitsAssumption ==
  /\ IsFiniteSet(Agents)
  /\ MaxAttempts \in Nat \ {0}
  /\ Concurrency \in Nat \ {0}
  /\ Progressive \in BOOLEAN
  /\ Ratios \subseteq Nat
  /\ MaxWaiting \in Nat

VARIABLES
  status,    \* run.status
  item,      \* run.items[_].status
  attempts,  \* run.items[_].attempts
  todo,      \* pending.slice(next): what is still to be launched, in order
  ringing,   \* launched calls waiting for the originate to return
  saving,    \* launched calls whose attempt is being persisted
  pc,        \* where the loop is suspended
  threw,     \* an error is leaving the loop's try block
  wanted,    \* the roster handed to availableAgents
  roster,    \* run.joinedAgents
  campaign,  \* OutboundCampaign.active
  caller,    \* answered customers, as FreeSWITCH has them (external)
  drained    \* how drainQueue returned

loopVars == <<status, item, attempts, todo, pc, threw, wanted, drained>>
callVars == <<ringing, saving>>
envVars  == <<roster, campaign, caller>>
vars     == <<loopVars, callVars, envVars>>

ItemStatus == {"queued", "dialing", "answered", "failed", "skipped", "stopped"}
RunStatus  == {"running", "stopping", "stopped", "done", "error"}
DONE_STATES == {"done", "stopped", "error"}
CallerState == {"none", "routing", "waiting", "bridged", "gone"}
DrainResult == {"no", "skip", "idle", "blind", "timeout"}
LoopAt == {"plan", "tick", "poll", "race", "sleep", "recheck", "settle",
           "drain", "unwire", "unload", "ended"}

Calls  == Leads \X (1..MaxAttempts)
active == ringing \cup saving          \* the Set of unsettled promises
InQueue == {l \in Leads : caller[l] \in {"waiting", "bridged"}}

TypeOK ==
  /\ status \in RunStatus
  /\ item \in [Leads -> ItemStatus]
  /\ attempts \in [Leads -> 0..MaxAttempts]
  /\ todo \in Seq(Leads)
  /\ ringing \subseteq Calls
  /\ saving \subseteq Calls
  /\ pc \in LoopAt
  /\ threw \in BOOLEAN
  /\ wanted \subseteq Agents
  /\ roster \subseteq Agents
  /\ campaign \in BOOLEAN
  /\ caller \in [Leads -> CallerState]
  /\ drained \in DrainResult

\* Mutant: excluded numbers are queued like the others.
InitForgetsDnc ==
  /\ status = "running"
  /\ item = [l \in Leads |-> "queued"]
  /\ attempts = [l \in Leads |-> 0]
  /\ \E s \in [1..Cardinality(Dnc) -> Dnc] : todo = Order \o s
  /\ ringing = {} /\ saving = {}
  /\ pc = "plan" /\ threw = FALSE
  /\ wanted = {} /\ roster = Agents
  /\ campaign = TRUE
  /\ caller = [l \in Leads |-> "none"]
  /\ drained = "no"

(***************************************************************************)
(* startRun has built the items and agentJoin has seen its agent on the    *)
(* roster: beginLoop is called.  Others may have joined, and a supervisor  *)
(* may already have pressed stop.                                          *)
(***************************************************************************)
Init ==
  /\ status \in {"running", "stopping"}
  /\ item = [l \in Leads |-> IF l \in Dnc THEN "skipped" ELSE "queued"]
  /\ attempts = [l \in Leads |-> 0]
  /\ todo = Order
  /\ ringing = {}
  /\ saving = {}
  /\ pc = "plan"
  /\ threw = FALSE
  /\ wanted = {}
  /\ roster \in (SUBSET Agents) \ {{}}
  /\ campaign = TRUE
  /\ caller = [l \in Leads |-> "none"]
  /\ drained = "no"

-----------------------------------------------------------------------------
\* The loop.

\* The tenant's plan limit arrives and the while loop is entered.
PlanRead ==
  /\ pc = "plan"
  /\ pc' = "tick"
  /\ UNCHANGED <<status, item, attempts, todo, threw, wanted, drained, callVars, envVars>>

\* Reading the plan fails before the try block: beginLoop's catch marks the run.
PlanFails ==
  /\ pc = "plan"
  /\ pc' = "ended"
  /\ status' = "error"
  /\ UNCHANGED <<item, attempts, todo, threw, wanted, drained, callVars, envVars>>

\* Work remains, so the loop body is entered.
MoreToDo == todo # <<>> \/ active # {}

\* Mutant: the loop ends when nothing is left to launch, whatever is in flight.
TickDoneEarly ==
  /\ pc = "tick"
  /\ todo = <<>> \/ status = "stopping"
  /\ pc' = "settle"
  /\ UNCHANGED <<status, item, attempts, todo, threw, wanted, drained, callVars, envVars>>

TickDone ==
  /\ pc = "tick"
  /\ ~MoreToDo \/ status = "stopping"
  /\ pc' = "settle"
  /\ UNCHANGED <<status, item, attempts, todo, threw, wanted, drained, callVars, envVars>>

\* scheduleBlockReason: the call window or the schedule has closed.
TickWindowClosed ==
  /\ pc = "tick"
  /\ MoreToDo
  /\ status # "stopping"
  /\ status' = "stopping"
  /\ pc' = "settle"
  /\ UNCHANGED <<item, attempts, todo, threw, wanted, drained, callVars, envVars>>

\* Ask FreeSWITCH for the free agents among the roster as it is now.  (With an
\* empty roster the code answers 0 itself; here that answer is a step of its own.)
TickPoll ==
  /\ pc = "tick"
  /\ MoreToDo
  /\ status # "stopping"
  /\ wanted' = roster
  /\ pc' = "poll"
  /\ UNCHANGED <<status, item, attempts, todo, threw, drained, callVars, envVars>>

\* What FreeSWITCH may answer: some of the wanted agents are Available and Waiting, and
\* some members of the queue wait.  An unreachable FreeSWITCH counts as none.
availableAgents   == 0..Cardinality(wanted)
queueWaitingCount == 0..MaxWaiting

\* The leads that launching the first n entries of todo would dial.
Dialable(n) == {l \in Leads : item[l] = "queued" /\ \E i \in 1..n : todo[i] = l}

\* How far the launch loop reads todo with this many slots.
Reach(slots) ==
  {n \in 0..Len(todo) :
     /\ Cardinality(Dialable(n)) <= slots
     /\ n < Len(todo) => Cardinality(Dialable(n)) = slots
     /\ n > 0 => Cardinality(Dialable(n - 1)) < slots}

\* Mutant: a call that is being persisted no longer counts as active.
slotsForRinging(free, waiting, ratio) ==
  AtLeast(0,
    IF Progressive
      THEN progressiveSlots(free, Cardinality(ringing), Concurrency)
      ELSE computeOverdialSlots(free, Cardinality(ringing), waiting, ratio, Concurrency))

slotsFor(free, waiting, ratio) ==
  AtLeast(0,
    IF Progressive
      THEN progressiveSlots(free, Cardinality(active), Concurrency)
      ELSE computeOverdialSlots(free, Cardinality(active), waiting, ratio, Concurrency))

(***************************************************************************)
(* The answer is in: compute the slots from the calls active NOW and start *)
(* that many.  launch() runs up to its first await within this step.       *)
(***************************************************************************)
PollReply ==
  /\ pc = "poll"
  /\ \E free \in availableAgents, waiting \in queueWaitingCount, ratio \in Ratios :
     \E n \in Reach(slotsFor(free, waiting, ratio)) :
       LET dialed == Dialable(n)
       IN  /\ item' = [l \in Leads |-> IF l \in dialed THEN "dialing" ELSE item[l]]
           /\ attempts' = [l \in Leads |-> IF l \in dialed THEN attempts[l] + 1
                                                           ELSE attempts[l]]
           /\ ringing' = ringing \cup {<<l, attempts[l] + 1>> : l \in dialed}
           /\ todo' = SubSeq(todo, n + 1, Len(todo))
           /\ pc' \in (IF ringing' \cup saving # {} THEN {"race"}
                       ELSE IF todo' = <<>> THEN {"tick"}
                       ELSE {"sleep", "recheck"})
  /\ UNCHANGED <<status, threw, wanted, drained, saving, envVars>>

\* AGENT_POLL_MS has passed.
Wake ==
  /\ pc = "sleep"
  /\ pc' = "tick"
  /\ UNCHANGED <<status, item, attempts, todo, threw, wanted, drained, callVars, envVars>>

\* Every eighth idle tick: has the admin deactivated the campaign?
Recheck ==
  /\ pc = "recheck"
  /\ IF campaign
       THEN pc' = "sleep" /\ UNCHANGED status
       ELSE pc' = "settle" /\ status' = "stopping"
  /\ UNCHANGED <<item, attempts, todo, threw, wanted, drained, callVars, envVars>>

\* That read fails: the error goes through finally and out of the loop.
RecheckFails ==
  /\ pc = "recheck"
  /\ pc' = "unwire"
  /\ threw' = TRUE
  /\ UNCHANGED <<status, item, attempts, todo, wanted, drained, callVars, envVars>>

\* Mutant: the loop does not wait for the calls in flight.
SettledEarly ==
  /\ pc = "settle"
  /\ pc' = "unwire"
  /\ drained' = "skip"
  /\ UNCHANGED <<status, item, attempts, todo, threw, wanted, callVars, envVars>>

\* Promise.allSettled(active), then drainQueue, which skips without tiers.
Settled ==
  /\ pc = "settle"
  /\ active = {}
  /\ IF roster = {} THEN pc' = "unwire" /\ drained' = "skip"
                    ELSE pc' = "drain" /\ UNCHANGED drained
  /\ UNCHANGED <<status, item, attempts, todo, threw, wanted, callVars, envVars>>

\* Mutant: no deadline, and an error is not an answer.
DrainEndsEmpty(result) ==
  /\ pc = "drain"
  /\ InQueue = {}
  /\ drained' = result
  /\ pc' = "unwire"
  /\ UNCHANGED <<status, item, attempts, todo, threw, wanted, callVars, envVars>>

\* drainQueue returns: the queue lists no member, it cannot be listed, or the
\* deadline has passed.
DrainEnds(result) ==
  /\ pc = "drain"
  /\ result = "idle" => InQueue = {}
  /\ drained' = result
  /\ pc' = "unwire"
  /\ UNCHANGED <<status, item, attempts, todo, threw, wanted, callVars, envVars>>

Drain == \E result \in {"idle", "blind", "timeout"} : DrainEnds(result)

\* unwireQueue takes every tier off the run, then deletes them one by one.
Unwire ==
  /\ pc = "unwire"
  /\ roster' = {}
  /\ pc' = "unload"
  /\ UNCHANGED <<status, item, attempts, todo, threw, wanted, drained, callVars, campaign, caller>>

\* unwireQueue is through: the run gets its final status and summary.
End ==
  /\ pc = "unload"
  /\ pc' = "ended"
  /\ status' = (IF threw THEN "error"
                ELSE IF status = "stopping" THEN "stopped" ELSE "done")
  /\ item' = IF status' = "stopped"
               THEN [l \in Leads |-> IF item[l] \in {"queued", "dialing"}
                                       THEN "stopped" ELSE item[l]]
               ELSE item
  /\ UNCHANGED <<attempts, todo, threw, wanted, drained, callVars, envVars>>

Loop ==
  \/ PlanRead \/ PlanFails
  \/ TickDone \/ TickWindowClosed \/ TickPoll
  \/ PollReply
  \/ Wake \/ Recheck \/ RecheckFails
  \/ Settled \/ Drain \/ Unwire \/ End

-----------------------------------------------------------------------------
\* The launched calls: launch() after dialOne returns.

\* +OK: the customer picked up and FreeSWITCH starts routing them to the queue.
CallAnswered(l, n) ==
  /\ <<l, n>> \in ringing
  /\ item' = [item EXCEPT ![l] = "answered"]
  /\ ringing' = ringing \ {<<l, n>>}
  /\ saving' = saving \cup {<<l, n>>}
  /\ caller' = [caller EXCEPT ![l] = "routing"]
  /\ UNCHANGED <<status, attempts, todo, pc, threw, wanted, drained, roster, campaign>>

\* Mutant: the retry is queued before the call has ended.
CallRetriedEarly(l, n) ==
  /\ <<l, n>> \in ringing
  /\ attempts[l] < MaxAttempts
  /\ item' = [item EXCEPT ![l] = "queued"]
  /\ todo' = Append(todo, l)
  /\ UNCHANGED <<status, attempts, ringing, saving, pc, threw, wanted, drained, envVars>>

\* Mutant: the attempts left are not looked at.
CallRetriedForever(l, n) ==
  /\ <<l, n>> \in ringing
  /\ item' = [item EXCEPT ![l] = "queued"]
  /\ todo' = Append(todo, l)
  /\ ringing' = ringing \ {<<l, n>>}
  /\ saving' = saving \cup {<<l, n>>}
  /\ UNCHANGED <<status, attempts, pc, threw, wanted, drained, envVars>>

\* Mutant: an attempt nobody answered is not counted.
CallRetriedUncounted(l, n) ==
  /\ <<l, n>> \in ringing
  /\ item' = [item EXCEPT ![l] = "queued"]
  /\ attempts' = [attempts EXCEPT ![l] = n - 1]
  /\ todo' = Append(todo, l)
  /\ ringing' = ringing \ {<<l, n>>}
  /\ saving' = saving \cup {<<l, n>>}
  /\ UNCHANGED <<status, pc, threw, wanted, drained, envVars>>

\* A cause worth a retry with attempts left goes back to pending.
CallRetried(l, n) ==
  /\ <<l, n>> \in ringing
  /\ attempts[l] < MaxAttempts
  /\ item' = [item EXCEPT ![l] = "queued"]
  /\ todo' = Append(todo, l)
  /\ ringing' = ringing \ {<<l, n>>}
  /\ saving' = saving \cup {<<l, n>>}
  /\ UNCHANGED <<status, attempts, pc, threw, wanted, drained, envVars>>

\* Any other result fails the item.  When the event socket dropped, the
\* customer may nevertheless be answering.
CallFailed(l, n) ==
  /\ <<l, n>> \in ringing
  /\ item' = [item EXCEPT ![l] = "failed"]
  /\ ringing' = ringing \ {<<l, n>>}
  /\ saving' = saving \cup {<<l, n>>}
  /\ caller' \in {caller, [caller EXCEPT ![l] = "routing"]}
  /\ UNCHANGED <<status, attempts, todo, pc, threw, wanted, drained, roster, campaign>>

\* A database read inside dialOne rejects: nothing is dialed, and the error
\* reaches the loop only if it is in Promise.race at that moment.
CallThrows(l, n) ==
  /\ <<l, n>> \in ringing
  /\ ringing' = ringing \ {<<l, n>>}
  /\ IF pc = "race" THEN pc' = "unwire" /\ threw' = TRUE
                    ELSE UNCHANGED <<pc, threw>>
  /\ UNCHANGED <<status, item, attempts, todo, wanted, drained, saving, envVars>>

\* The attempt is persisted (or that failed): the promise settles, and wakes
\* the loop out of Promise.race.
CallSaved(l, n) ==
  /\ <<l, n>> \in saving
  /\ saving' = saving \ {<<l, n>>}
  /\ pc' = IF pc = "race" THEN "tick" ELSE pc
  /\ UNCHANGED <<status, item, attempts, todo, threw, wanted, drained, ringing, envVars>>

CallStep(l, n) ==
  \/ CallAnswered(l, n) \/ CallRetried(l, n) \/ CallFailed(l, n)
  \/ CallThrows(l, n) \/ CallSaved(l, n)

-----------------------------------------------------------------------------
\* What others do to the run.

AgentJoins(a) ==
  /\ a \notin roster
  /\ status \notin DONE_STATES
  /\ roster' = roster \cup {a}
  /\ UNCHANGED <<loopVars, callVars, campaign, caller>>

\* agentLeave: the last agent to leave a running run stops it.
AgentLeaves(a) ==
  /\ a \in roster
  /\ roster' = roster \ {a}
  /\ status' = IF roster' = {} /\ status = "running" THEN "stopping" ELSE status
  /\ UNCHANGED <<item, attempts, todo, pc, threw, wanted, drained, callVars, campaign, caller>>

\* Mutant: a late stop is taken for a stop.
stopAnyTime ==
  /\ status # "stopping"
  /\ status' = "stopping"
  /\ UNCHANGED <<item, attempts, todo, pc, threw, wanted, drained, callVars, envVars>>

stop ==
  /\ status = "running"
  /\ status' = "stopping"
  /\ UNCHANGED <<item, attempts, todo, pc, threw, wanted, drained, callVars, envVars>>

SetCampaignActive ==
  /\ campaign' = ~campaign
  /\ UNCHANGED <<loopVars, callVars, roster, caller>>

\* FreeSWITCH (external): the answered leg fetches its dialplan and joins the
\* queue, is bridged to a tiered agent, and ends at any point.
CallerMoves(l) ==
  /\ caller' \in {[caller EXCEPT ![l] = s] :
                    s \in CASE caller[l] = "routing" -> {"waiting", "gone"}
                            [] caller[l] = "waiting" ->
                                 IF roster = {} THEN {"gone"} ELSE {"bridged", "gone"}
                            [] caller[l] = "bridged" -> {"gone"}
                            [] OTHER -> {}}
  /\ UNCHANGED <<loopVars, callVars, roster, campaign>>

Environment ==
  \/ \E a \in Agents : AgentJoins(a) \/ AgentLeaves(a)
  \/ stop \/ SetCampaignActive
  \/ \E l \in Leads : CallerMoves(l)

Next ==
  \/ Loop
  \/ \E l \in Leads, n \in 1..MaxAttempts : CallStep(l, n)
  \/ Environment

Spec == Init /\ [][Next]_vars

-----------------------------------------------------------------------------
(***************************************************************************)
(* Fairness: the loop's awaits resolve (FreeSWITCH and the database answer *)
(* or fail, timers fire), an originate returns within its timeout, an      *)
(* attempt's insert returns.  Nothing is assumed of agents, supervisors,   *)
(* customers or the queue: drainQueue has its own deadline.                *)
(***************************************************************************)
Returns(l, n) == CallAnswered(l, n) \/ CallRetried(l, n) \/ CallFailed(l, n)

Fairness ==
  /\ WF_vars(Loop)
  /\ \A l \in Leads, n \in 1..MaxAttempts :
       WF_vars(Returns(l, n)) /\ WF_vars(CallSaved(l, n))

FairSpec == Spec /\ Fairness

\* A tick that starts a call.
Launches == PollReply /\ ringing' # ringing

-----------------------------------------------------------------------------
\* Never more calls in flight than the campaign's concurrency (which the plan's
\* limit has capped), however stale the polled number of free agents is.
ConcurrencyCap == Cardinality(active) <= Concurrency

\* A number is never dialed twice at once, although a retried item can be
\* launched again while its previous attempt is still being persisted: a
\* ringing call is the latest attempt of its item, which shows as dialing until
\* that call returns (unless a thrown error has closed the run).
OneCallPerNumber ==
  \A c \in ringing : item[c[1]] = "dialing" /\ attempts[c[1]] = c[2]

\* A number on the DNC list when the run started is never dialed by the run.
DncNeverDialed == \A l \in Dnc : item[l] = "skipped" /\ attempts[l] = 0

\* A run ends as done only when no lead is left to try: every retry that was
\* pushed while the loop was waiting has been picked up again, and nothing is
\* in flight.  One that ends as stopped leaves no item pending either.
FinishedLeavesNoWork ==
  /\ status = "done" => active = {} /\ \A l \in Leads : item[l] # "queued"
  /\ status = "stopped" => /\ active = {}
                           /\ \A l \in Leads : item[l] \notin {"queued", "dialing"}

\* The outcome of a number is final: neither the stop nor a late result of an
\* earlier attempt may overwrite it.
OutcomeIsFinal ==
  [][\A l \in Leads : item[l] \in {"answered", "failed", "skipped", "stopped"}
                         => item'[l] = item[l]]_vars

\* A run's status only moves forward, and a finished run dials nobody: late
\* stops and leaves do not revive it.
FinishedStaysFinished ==
  [][/\ status \in DONE_STATES => status' = status /\ attempts' = attempts
     /\ status = "stopping" => status' \in {"stopping", "stopped", "error"}]_vars

\* Pressing stop (or the last agent leaving) always ends the run, whatever the
\* calls in flight and the queue do.
StopEnds == status = "stopping" ~> status \in DONE_STATES

\* If a played-in agent is free again and again at the moments the loop asks, a
\* run works through its leads and ends: retries are bounded and the drain has a
\* deadline.
RunEnds == SF_vars(Launches) => <>(status \in DONE_STATES)

\* No run goes on for ever: stopped ones end, and so do those that find agents.
EveryRunEnds == StopEnds /\ RunEnds

-----------------------------------------------------------------------------
\* The contract of a run, with the finished statuses as its endings.
Contract == INSTANCE RunContract WITH
  Excluded <- Dnc,
  Batches  <- {S \in SUBSET Leads : Cardinality(S) <= Concurrency},
  tries    <- attempts,
  ending   <- IF status \in DONE_STATES THEN status ELSE "open"

\* The loop, with its awaits, retries, late results, stops and errors, keeps the
\* contract: bounded tries, no try of an excluded number, nothing waiting when
\* it says done, nothing open when it says stopped.
KeepsContract == Contract!Spec

-----------------------------------------------------------------------------
\* A claim of the source's comments that the code does not keep.

\* dialer.service.ts:866: the tier is not torn down before the queue has drained,
\* or the last answered call never reaches an agent.  Here: when the drain
\* finds the queue empty, no answered customer is still on the way into it.
DrainedMeansServed ==
  drained = "idle" /\ pc = "unwire" =>
    \A l \in Leads : item[l] = "answered" => caller[l] # "routing"
=============================================================================
