---------------------------- MODULE PreviewLeads ----------------------------
(***************************************************************************)
(* Preview dialing: CampaignPreviewController hands the leads of one       *)
(* campaign to the agents' Consoles one at a time, takes their             *)
(* dispositions and skips, and reclaims reservations that went quiet.      *)
(* Every handler is a sequence of database calls; the actions below are    *)
(* the pieces between them, so two agents' requests interleave.            *)
(*                                                                         *)
(* Abstracted: the clock (a reservation ages past RESERVATION_STALE_MS at  *)
(* any time), the call log written beside the lead, contacts, and the      *)
(* first materialisation of the leads, which has happened.                 *)
(***************************************************************************)
EXTENDS FiniteSets, LeadOutcome

CONSTANTS
  Leads,           \* the campaign's leads
  CreatedBefore,   \* their order of creation: pairs <<older, newer>>
  Agents,          \* the agents working the campaign
  MaxAttempts,     \* campaign.maxAttempts, at least 1
  MaxReservations, \* bound on a lead's attempts counter
  None             \* no lead

ASSUME PreviewAssumption ==
  /\ IsFiniteSet(Leads)
  /\ CreatedBefore \subseteq Leads \X Leads
  /\ \A k, l \in Leads : (<<k, l>> \in CreatedBefore) # (k = l \/ <<l, k>> \in CreatedBefore)
  /\ \A j, k, l \in Leads : <<j, k>> \in CreatedBefore /\ <<k, l>> \in CreatedBefore
                             => <<j, l>> \in CreatedBefore
  /\ MaxAttempts \in Nat \ {0}
  /\ MaxReservations \in Nat \ {0}
  /\ None \notin Leads

VARIABLES
  status,    \* Lead.status
  attempts,  \* Lead.attempts
  last,      \* Lead.lastDisposition
  updatedBefore, \* their order by Lead.updatedAt, again pairs <<older, newer>>
  stale,     \* leads not updated for RESERVATION_STALE_MS
  req,       \* each agent's request: where it is suspended and what it holds
  holds,     \* the lead each agent's Console shows
  clashed    \* auxiliary: two requests found one lead before either reserved
             \* it, or a lead was reclaimed or reset while someone worked it

leadVars == <<status, attempts, last, updatedBefore, stale>>
vars     == <<leadVars, req, holds, clashed>>

Status == {"new", "dialing", "skipped", "done", "dnc"}
Idle   == [at |-> "idle", lead |-> None, seen |-> 0, picked |-> None, completed |-> FALSE]

TypeOK ==
  /\ status \in [Leads -> Status]
  /\ attempts \in [Leads -> 0..MaxReservations]
  /\ last \in [Leads -> Dispositions \cup {None, "Skipped"}]
  /\ updatedBefore \subseteq Leads \X Leads
  /\ stale \subseteq Leads
  /\ req \in [Agents -> [at : {"idle", "finding", "resurfacing", "reserving", "disposing"},
                         lead : Leads \cup {None}, seen : 0..MaxReservations,
                         picked : Dispositions \cup {None}, completed : BOOLEAN]]
  /\ holds \in [Agents -> Leads \cup {None}]
  /\ clashed \in BOOLEAN

Init ==
  /\ status = [l \in Leads |-> "new"]
  /\ attempts = [l \in Leads |-> 0]
  /\ last = [l \in Leads |-> None]
  /\ updatedBefore = CreatedBefore
  /\ stale = {}
  /\ req = [a \in Agents |-> Idle]
  /\ holds = [a \in Agents |-> None]
  /\ clashed = FALSE

\* The oldest of the leads with this status in an order, or None.
FirstWith(order, s) ==
  LET hits   == {l \in Leads : status[l] = s}
      oldest == {l \in hits : \A k \in hits : <<k, l>> \notin order}
  IN  IF oldest = {} THEN None ELSE CHOOSE l \in oldest : TRUE

\* An update makes these leads the latest updated.
Touched(updated) ==
  {p \in updatedBefore : p[1] \in updated => p[2] \in updated}
    \cup (Leads \ updated) \X updated

\* Someone else works on l: it is on their Console or in their request.
BusyElsewhere(a, l) == \E b \in Agents \ {a} : holds[b] = l \/ req[b].lead = l

-----------------------------------------------------------------------------
\* GET preview/next.

\* Mutant: next does not reclaim.
NextArrivesOnly(a) ==
  /\ req[a].at = "idle"
  /\ holds[a] = None
  /\ req' = [req EXCEPT ![a].at = "finding"]
  /\ UNCHANGED <<leadVars, holds, clashed>>

\* reclaimStale: quiet reservations become new again, their attempt uncounted.
NextArrives(a) ==
  /\ req[a].at = "idle"
  /\ holds[a] = None
  /\ LET quiet == {l \in stale : status[l] = "dialing"}
     IN  /\ status' = [l \in Leads |-> IF l \in quiet THEN "new" ELSE status[l]]
         /\ attempts' = [l \in Leads |-> IF l \in quiet THEN attempts[l] - 1 ELSE attempts[l]]
         /\ updatedBefore' = Touched(quiet)
         /\ stale' = stale \ quiet
         /\ clashed' = (clashed \/ \E l \in quiet : BusyElsewhere(a, l))
  /\ req' = [req EXCEPT ![a].at = "finding"]
  /\ UNCHANGED <<last, holds>>

\* a's findFirst returns l; without a lead the request goes on to next.
Found(a, l, next) ==
  /\ req' = [req EXCEPT ![a] = [Idle EXCEPT !.at = IF l = None THEN next ELSE "reserving",
                                            !.lead = l]]
  /\ clashed' = (clashed \/ \E b \in Agents : req[b].at = "reserving" /\ req[b].lead = l)
  /\ UNCHANGED <<leadVars, holds>>

\* Mutant: what is being dialed counts as available when nothing is new.
FindNewOrDialing(a) ==
  /\ req[a].at = "finding"
  /\ LET l == FirstWith(CreatedBefore, "new")
     IN  Found(a, IF l = None THEN FirstWith(CreatedBefore, "dialing") ELSE l, "resurfacing")

\* findFirst of the new leads, oldest first.
FindNew(a) ==
  /\ req[a].at = "finding"
  /\ Found(a, FirstWith(CreatedBefore, "new"), "resurfacing")

\* Mutant: whatever is neither done nor skipped resurfaces before the skips do.
FindAnyOpen(a) ==
  /\ req[a].at = "resurfacing"
  /\ LET l == FirstWith(updatedBefore, "dnc")
     IN  Found(a, IF l = None THEN FirstWith(updatedBefore, "skipped") ELSE l, "idle")

\* With no new lead left, findFirst of the skipped ones, oldest skip first.
FindSkipped(a) ==
  /\ req[a].at = "resurfacing"
  /\ Found(a, FirstWith(updatedBefore, "skipped"), "idle")

\* The update that reserves the lead found, whatever has become of it since.
Reserve(a) ==
  /\ req[a].at = "reserving"
  /\ LET l == req[a].lead
     IN  /\ attempts[l] < MaxReservations
         /\ status' = [status EXCEPT ![l] = "dialing"]
         /\ attempts' = [attempts EXCEPT ![l] = @ + 1]
         /\ updatedBefore' = Touched({l})
         /\ stale' = stale \ {l}
         /\ holds' = [holds EXCEPT ![a] = l]
  /\ req' = [req EXCEPT ![a] = Idle]
  /\ UNCHANGED <<last, clashed>>

-----------------------------------------------------------------------------
\* POST preview/disposition and preview/skip.

\* dispose reads the lead; the call log and the catalog are read and written
\* before it is updated.
DisposeArrives(a) ==
  /\ req[a].at = "idle"
  /\ holds[a] # None
  /\ \E d \in Dispositions, completed \in BOOLEAN :
       req' = [req EXCEPT ![a] = [at |-> "disposing", lead |-> holds[a],
                                  seen |-> attempts[holds[a]],
                                  picked |-> d, completed |-> completed]]
  /\ UNCHANGED <<leadVars, holds, clashed>>

\* The lead advances by the outcome and the attempts read before.
DisposeWrites(a) ==
  /\ req[a].at = "disposing"
  /\ LET l == req[a].lead
     IN  /\ status' = [status EXCEPT
                         ![l] = statusAfter(previewOutcome(req[a].picked, req[a].completed),
                                            req[a].seen, MaxAttempts)]
         /\ last' = [last EXCEPT ![l] = req[a].picked]
         /\ updatedBefore' = Touched({l})
         /\ stale' = stale \ {l}
  /\ holds' = [holds EXCEPT ![a] = None]
  /\ req' = [req EXCEPT ![a] = Idle]
  /\ UNCHANGED <<attempts, clashed>>

\* A skip puts a reserved lead behind the others; the Console drops it anyway.
Skip(a) ==
  /\ req[a].at = "idle"
  /\ holds[a] # None
  /\ LET l == holds[a]
     IN  IF status[l] = "dialing"
           THEN /\ status' = [status EXCEPT ![l] = "skipped"]
                /\ last' = [last EXCEPT ![l] = "Skipped"]
                /\ updatedBefore' = Touched({l})
                /\ stale' = stale \ {l}
           ELSE UNCHANGED <<status, last, updatedBefore, stale>>
  /\ holds' = [holds EXCEPT ![a] = None]
  /\ UNCHANGED <<attempts, req, clashed>>

-----------------------------------------------------------------------------
\* The agent's browser, the clock, and the campaign's manager.

\* A reload, a closed tab or the end of the preview loses the Console's lead;
\* the reservation stays.
Abandon(a) ==
  /\ req[a].at = "idle"
  /\ holds[a] # None
  /\ holds' = [holds EXCEPT ![a] = None]
  /\ UNCHANGED <<leadVars, req, clashed>>

\* RESERVATION_STALE_MS passes without an update of l.
Age(l) ==
  /\ status[l] = "dialing"
  /\ l \notin stale
  /\ stale' = stale \cup {l}
  /\ UNCHANGED <<status, attempts, last, updatedBefore, req, holds, clashed>>

\* Mutant: the counters are reset, the leads' status and age are not.
resetAttemptsOnly ==
  /\ attempts' = [l \in Leads |-> 0]
  /\ UNCHANGED <<status, last, updatedBefore, stale, req, holds, clashed>>

\* resetCampaignProgress re-opens every lead (no auto-dial run is live).
resetCampaignProgress ==
  /\ status' = [l \in Leads |-> "new"]
  /\ attempts' = [l \in Leads |-> 0]
  /\ last' = [l \in Leads |-> None]
  /\ stale' = {}
  /\ clashed' = (clashed \/ \E a \in Agents : holds[a] # None \/ req[a].at # "idle")
  /\ UNCHANGED <<updatedBefore, req, holds>>

RequestStep(a) ==
  FindNew(a) \/ FindSkipped(a) \/ Reserve(a) \/ DisposeWrites(a)

Next ==
  \/ \E a \in Agents :
       NextArrives(a) \/ DisposeArrives(a) \/ RequestStep(a) \/ Skip(a) \/ Abandon(a)
  \/ \E l \in Leads : Age(l)
  \/ resetCampaignProgress

Spec == Init /\ [][Next]_vars

(***************************************************************************)
(* Fairness: time passes, a request that has begun goes on, and the agents *)
(* keep asking for leads: one that holds none asks for the next again and  *)
(* again.  No agent has to dispose of what they hold.                      *)
(***************************************************************************)
Fairness ==
  /\ \A l \in Leads : WF_vars(Age(l))
  /\ \A a \in Agents : WF_vars(RequestStep(a)) /\ SF_vars(NextArrives(a))

FairSpec == Spec /\ Fairness

-----------------------------------------------------------------------------
\* A reservation is always a counted attempt, and no sequence of reservations,
\* reclaims (which uncount one), skips and resets takes a counter out of its range.
ReservationsCounted ==
  TypeOK /\ \A l \in Leads : attempts[l] >= (IF status[l] = "dialing" THEN 1 ELSE 0)

\* As long as no two requests found the same lead at once and none was taken from
\* an agent at work, what a Console shows is reserved for it alone: nobody else
\* has it, and its row says dialing.
HeldIsReserved ==
  ~clashed =>
    /\ \A a \in Agents : holds[a] # None => status[holds[a]] = "dialing"
    /\ \A a, b \in Agents : holds[a] = holds[b] /\ holds[a] # None => a = b

\* A lead marked Do Not Call is offered to nobody again until the campaign is
\* reset, under the same condition.
DncStays ==
  [][\A l \in Leads : status[l] = "dnc" /\ ~clashed /\ ~resetCampaignProgress
                        => status'[l] = "dnc"]_vars

\* A reservation nobody works any more is given up: while some agent without a
\* lead keeps asking, reclaimStale comes to it (unless the bound is reached).
StrandedReturns ==
  \A l \in Leads :
    (status[l] = "dialing" /\ \A a \in Agents : holds[a] # l)
       ~> \/ status[l] # "dialing"
          \/ \A a \in Agents : holds[a] # None
          \/ \E k \in Leads : attempts[k] = MaxReservations

-----------------------------------------------------------------------------
\* Claims of the source's comments that the code does not keep.

\* campaign-preview.controller.ts:29: a lead is reserved so two agents don't get
\* the same one.
OneAgentPerLead ==
  \A a, b \in Agents : holds[a] = holds[b] /\ holds[a] # None => a = b

\* campaign-preview.controller.ts:248: to stop a lead for good the agent
\* dispositions it Do Not Call.
DncStopsTheLead ==
  \A l \in Leads :
    last[l] \in Dispositions /\ Category[last[l]] = "dnc" => status[l] # "new"
=============================================================================
