----------------------------- MODULE QueueEvents ----------------------------
(***************************************************************************)
(* The live counters of a Predictive run and the ratio it derives from     *)
(* them: mod_callcenter's events about the members of the campaign's queue *)
(* arrive over the event socket, handleCallcenterEvent counts bridged and  *)
(* abandoned calls of the campaign's current run, and every tick of the    *)
(* loop re-derives the ratio.                                              *)
(*                                                                         *)
(* The campaign keeps its queue from run to run, and a run may end while a *)
(* member is still in it (drainQueue skips without tiers, and gives up).   *)
(* Members are modelled as FreeSWITCH has them; the event socket may drop, *)
(* which loses the events in between.                                      *)
(***************************************************************************)
EXTENDS Pacing, FiniteSets

CONSTANTS
  Members,        \* answered calls, by member uuid
  MaxFailed,      \* bound on the failed dials of a run
  MaxRuns,        \* bound on the runs
  StartRatio,     \* campaign.overdialRatio, clamped, in hundredths
  TargetPermille, \* campaign.abandonTargetPct, in thousandths
  MaxRatio,       \* MAX_OVERDIAL_RATIO, in hundredths
  MinSample       \* dials to resolve before the controller acts

ASSUME EventsAssumption ==
  /\ IsFiniteSet(Members)
  /\ MaxFailed \in Nat /\ MaxRuns \in Nat \ {0} /\ TargetPermille \in Nat /\ MinSample \in Nat
  /\ MaxRatio \in Nat /\ StartRatio \in 100..MaxRatio

VARIABLES
  made,     \* runs of the campaign so far; the last one is in the runs map
  member,   \* each member's run and whereabouts (external)
  up,       \* whether the event socket is subscribed
  failed,   \* the current run's failed items
  bridged, abandoned, bridgedMembers,  \* the current run's counters
  ratio,    \* curRatio of the current run's loop
  tainted   \* auxiliary: an event of a member of the current run was lost, or the
            \* run began with a member of an earlier one in the queue

counters == <<bridged, abandoned, bridgedMembers>>
vars     == <<made, member, up, failed, counters, ratio, tainted>>

Whereabouts == {"none", "queued", "bridged", "served", "dropped"}
InQueue(m)  == member[m].at \in {"queued", "bridged"}
OfThisRun   == {m \in Members : member[m].run = made}
answered    == Cardinality(OfThisRun)
dialed      == failed + answered

TypeOK ==
  /\ made \in 1..MaxRuns
  /\ member \in [Members -> [run : 0..MaxRuns, at : Whereabouts]]
  /\ up \in BOOLEAN
  /\ failed \in 0..MaxFailed
  /\ bridged \in 0..Cardinality(Members)
  /\ abandoned \in 0..Cardinality(Members)
  /\ bridgedMembers \subseteq Members
  /\ ratio \in 100..MaxRatio
  /\ tainted \in BOOLEAN

Init ==
  /\ made = 1
  /\ member = [m \in Members |-> [run |-> 0, at |-> "none"]]
  /\ up = TRUE
  /\ failed = 0
  /\ bridged = 0 /\ abandoned = 0 /\ bridgedMembers = {}
  /\ ratio = StartRatio
  /\ tainted = FALSE

-----------------------------------------------------------------------------
\* handleCallcenterEvent, whose run is the campaign's latest, finished or not.
BridgeAgentStart(m) ==
  /\ bridgedMembers' = bridgedMembers \cup {m}
  /\ bridged' = IF m \in bridgedMembers THEN bridged ELSE bridged + 1
  /\ UNCHANGED abandoned

\* Mutant: the end of a bridged call counts as abandoned too.
MemberQueueEndAlways(m) ==
  /\ bridgedMembers' = bridgedMembers \ {m}
  /\ abandoned' = abandoned + 1
  /\ UNCHANGED bridged

MemberQueueEnd(m) ==
  /\ bridgedMembers' = bridgedMembers \ {m}
  /\ abandoned' = IF m \in bridgedMembers THEN abandoned ELSE abandoned + 1
  /\ UNCHANGED bridged

\* FreeSWITCH emits an event about m while the socket is down.
EventLost(m) ==
  /\ tainted' = (tainted \/ member[m].run = made)
  /\ UNCHANGED counters

-----------------------------------------------------------------------------
\* The members of the queue (external) and the dials of the run.

DialAnswered(m) ==
  /\ member[m].at = "none"
  /\ member' = [member EXCEPT ![m] = [run |-> made, at |-> "queued"]]
  /\ UNCHANGED <<made, up, failed, counters, ratio, tainted>>

DialFailed ==
  /\ failed < MaxFailed
  /\ failed' = failed + 1
  /\ UNCHANGED <<made, member, up, counters, ratio, tainted>>

ReachesAgent(m) ==
  /\ member[m].at = "queued"
  /\ member' = [member EXCEPT ![m].at = "bridged"]
  /\ IF up THEN BridgeAgentStart(m) /\ UNCHANGED tainted ELSE EventLost(m)
  /\ UNCHANGED <<made, up, failed, ratio>>

LeavesQueue(m) ==
  /\ InQueue(m)
  /\ member' = [member EXCEPT ![m].at = IF @ = "bridged" THEN "served" ELSE "dropped"]
  /\ IF up THEN MemberQueueEnd(m) /\ UNCHANGED tainted ELSE EventLost(m)
  /\ UNCHANGED <<made, up, failed, ratio>>

SocketDrops ==
  /\ up
  /\ up' = FALSE
  /\ UNCHANGED <<made, member, failed, counters, ratio, tainted>>

Resubscribe ==
  /\ ~up
  /\ up' = TRUE
  /\ UNCHANGED <<made, member, failed, counters, ratio, tainted>>

-----------------------------------------------------------------------------
\* One tick of a Predictive loop: the ratio follows the counters.
Tick ==
  /\ ratio' = computePredictiveRatio(dialed, answered, abandoned, ratio,
                                     TargetPermille, MaxRatio, MinSample)
  /\ UNCHANGED <<made, member, up, failed, counters, tainted>>

\* The run has ended and an agent's join starts the next: fresh counters.
NewRun ==
  /\ made < MaxRuns
  /\ made' = made + 1
  /\ failed' = 0
  /\ bridged' = 0 /\ abandoned' = 0 /\ bridgedMembers' = {}
  /\ ratio' = StartRatio
  /\ tainted' = \E m \in Members : InQueue(m)
  /\ UNCHANGED <<member, up>>

Next ==
  \/ \E m \in Members : DialAnswered(m) \/ ReachesAgent(m) \/ LeavesQueue(m)
  \/ DialFailed \/ SocketDrops \/ Resubscribe
  \/ Tick \/ NewRun

Spec == Init /\ [][Next]_vars

\* The loop keeps ticking.
FairSpec == Spec /\ WF_vars(Tick)

-----------------------------------------------------------------------------
Reached == {m \in OfThisRun : member[m].at \in {"bridged", "served"}}
Dropped == {m \in OfThisRun : member[m].at = "dropped"}
Over    == dialed >= MinSample /\ overTarget(answered, abandoned, TargetPermille)

\* The counters are the facts when no event was lost and the run began with the
\* queue empty: each call that reached an agent counts as bridged once, before
\* and after it ends, and each one that did not as abandoned once.
CountsAreRight ==
  ~tainted => bridged = Cardinality(Reached) /\ abandoned = Cardinality(Dropped)

\* While the abandon rate stays over the target the loop backs off, tick after
\* tick, all the way to one dial per free agent, and it does not get stuck on
\* the way there.
BacksOffToOne == <>[]Over => <>[](ratio = 100)
=============================================================================
