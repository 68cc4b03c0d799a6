---------------------------- MODULE AgentBoards -----------------------------
(***************************************************************************)
(* One agent as FreeSWITCH knows it (phone, rows in mod_callcenter, calls) *)
(* and as four readers show it: the agents board (telephony.service) with  *)
(* its page, the dashboard, the realtime snapshot, and the dialer's count  *)
(* of ready agents.  mod_callcenter is external.  The fourth status,       *)
(* Available (On Demand), is one no page sets.  A poll's answer takes less *)
(* than the five seconds between two polls.                                *)
(***************************************************************************)
EXTENDS Integers, Sequences, FiniteSets

CONSTANT MaxBlips   \* bound on event-socket calls that fail

ASSUME BoardsAssumption == MaxBlips \in Nat

VARIABLES
  configured, \* FS_SIP_DOMAIN is set
  registered, \* the agent's phone is registered
  ccRows,     \* its rows in mod_callcenter, oldest first: one for each domain it was added under
  channels,   \* its channels: of a queue's call, of a direct one
  setting,    \* the status request under way, and the row it has resolved
  poll,       \* the agents page's poll: its next await, what it has read
  card,       \* what the page shows of the agent
  everReal,   \* the page has shown real agents
  blips,      \* event-socket calls that have failed
  fresh       \* auxiliary: nothing has changed since the poll began that the card shows

lineVars  == <<registered, ccRows, channels>>
shownVars   == <<poll, card, everReal, fresh>>
boardsVars == <<configured, lineVars, setting, shownVars, blips>>

AgentStatuses == {"Available", "On Break", "Logged Out"}
AgentStates   == {"Waiting", "Receiving", "In a queue call"}
Shown         == {"on-call", "available", "away", "offline"}
RowRec        == [domain : {"box", "loopback"}, status : AgentStatuses, state : AgentStates]
NoSetting     == [status |-> "none", row |-> 0]
NoPoll        == [at |-> "idle", onCall |-> FALSE, reg |-> FALSE, says |-> "offline", fresh |-> FALSE]

BoardsTypeOK ==
  /\ configured \in BOOLEAN /\ registered \in BOOLEAN /\ everReal \in BOOLEAN /\ fresh \in BOOLEAN
  /\ ccRows \in Seq(RowRec) /\ Len(ccRows) \leq 2
  /\ channels \subseteq {"queue", "direct"}
  /\ setting \in [status : AgentStatuses \cup {"none"}, row : 0..2]
  /\ poll \in [at : {"idle", "registrations", "rows", "answer"}, onCall : BOOLEAN, reg : BOOLEAN,
               says : Shown, fresh : BOOLEAN]
  /\ card \in Shown \cup {"nothing", "demo"}
  /\ blips \in 0..MaxBlips

BoardsInit ==
  /\ configured \in BOOLEAN
  /\ registered = FALSE /\ ccRows = <<>> /\ channels = {}
  /\ setting = NoSetting
  /\ poll = NoPoll /\ card = "nothing" /\ everReal = FALSE /\ fresh = FALSE
  /\ blips = 0

-----------------------------------------------------------------------------
(* What each reader makes of the agent.                                    *)

LastStatus   == IF ccRows = <<>> THEN "none" ELSE ccRows[Len(ccRows)].status

\* Mutant: the phone decides before the break.
AgentsBoardPhoneFirst(onCall, reg, said) ==
  CASE onCall -> "on-call"
    [] ~onCall /\ said = "Logged Out" -> "offline"
    [] OTHER -> IF reg THEN "available" ELSE "offline"

\* The agents board: a call first, then what the agent said, then its phone.
AgentsBoard(onCall, reg, said) ==
  CASE onCall -> "on-call"
    [] ~onCall /\ said = "Logged Out" -> "offline"
    [] ~onCall /\ said = "On Break" -> "away"
    [] OTHER -> IF reg THEN "available" ELSE "offline"

BoardNow == AgentsBoard(channels # {}, registered, LastStatus)

\* The dashboard: the phone first, then the first row's status, then its state.
StatusOf(r) ==
  CASE r.status = "Logged Out" -> "offline"
    [] r.status = "On Break" -> "away"
    [] OTHER -> IF r.state \in {"Receiving", "In a queue call"} THEN "on-call" ELSE "available"

Dashboard == IF registered /\ ccRows # <<>> THEN StatusOf(Head(ccRows)) ELSE "offline"

\* The dialer's ready agents, and the realtime summary, which counts rows.
IsReady(r)       == r.status = "Available" /\ r.state = "Waiting"
AvailableAgent   == \E i \in DOMAIN ccRows : IsReady(ccRows[i])
SummaryAvailable == Cardinality({i \in DOMAIN ccRows : IsReady(ccRows[i])})
SummaryOnCall    == Cardinality({i \in DOMAIN ccRows : ccRows[i].state = "Receiving"})

\* The report's live agent performance: a line for each row.
agentPerformance == [i \in DOMAIN ccRows |-> [status |-> ccRows[i].status, state |-> ccRows[i].state]]

-----------------------------------------------------------------------------
(* The phone and mod_callcenter: calls go to the row of the box's domain,  *)
(* the one the queues' tiers name.                                         *)

BoxRow      == {i \in DOMAIN ccRows : ccRows[i].domain = "box"}
Changes     == poll' = [poll EXCEPT !.fresh = FALSE] /\ fresh' = FALSE /\ UNCHANGED <<card, everReal>>
Outside     == Changes /\ UNCHANGED <<configured, setting, blips>>
InState(i, s) == [ccRows EXCEPT ![i] = [ccRows[i] EXCEPT !.state = s]]

PhoneComes ==
  /\ ~registered /\ registered' = TRUE
  /\ UNCHANGED <<ccRows, channels>> /\ Outside

\* A closed tab drops its calls; the row's status stays as it was.
PhoneGoes ==
  /\ registered /\ registered' = FALSE /\ channels' = {}
  /\ ccRows' = [i \in DOMAIN ccRows |-> [ccRows[i] EXCEPT !.state = "Waiting"]]
  /\ Outside

Offered(i) ==
  /\ registered /\ IsReady(ccRows[i])
  /\ ccRows' = InState(i, "Receiving") /\ channels' = channels \cup {"queue"}
  /\ UNCHANGED registered /\ Outside

QueueAnswered(i) ==
  /\ ccRows[i].state = "Receiving" /\ ccRows' = InState(i, "In a queue call")
  /\ UNCHANGED <<registered, channels>> /\ Outside

\* max_no_answer: a few misses in a row put the agent On Break.
Missed(i) ==
  /\ ccRows[i].state = "Receiving" \/ (~registered /\ IsReady(ccRows[i]))
  /\ \/ ccRows' = InState(i, "Waiting")
     \/ ccRows' = [ccRows EXCEPT ![i] = [ccRows[i] EXCEPT !.state = "Waiting", !.status = "On Break"]]
  /\ channels' = channels \ {"queue"}
  /\ UNCHANGED registered /\ Outside

QueueEnds(i) ==
  /\ ccRows[i].state = "In a queue call"
  /\ ccRows' = InState(i, "Waiting") /\ channels' = channels \ {"queue"}
  /\ UNCHANGED registered /\ Outside

DirectStarts ==
  /\ registered /\ "direct" \notin channels /\ channels' = channels \cup {"direct"}
  /\ UNCHANGED <<registered, ccRows>> /\ Outside

DirectEnds ==
  /\ "direct" \in channels /\ channels' = channels \ {"direct"}
  /\ UNCHANGED <<registered, ccRows>> /\ Outside

-----------------------------------------------------------------------------
(* setAgentStatus, by the agent's Console or a supervisor's toggle.        *)

\* The SIP domain: configured, or asked of FreeSWITCH, or the loopback address when that fails.
Domain(d) ==
  \/ d = "box" /\ UNCHANGED blips
  \/ /\ d = "loopback" /\ ~configured
     /\ blips < MaxBlips /\ blips' = blips + 1

\* `agent add` is a no-op for a row that exists; a new one is Logged Out.
Ensured(d) ==
  IF \E i \in DOMAIN ccRows : ccRows[i].domain = d THEN ccRows
  ELSE Append(ccRows, [domain |-> d, status |-> "Logged Out", state |-> "Waiting"])

SetAgentStatus(s) ==
  /\ setting = NoSetting
  /\ \E d \in {"box", "loopback"} :
       /\ Domain(d) /\ ccRows' = Ensured(d)
       /\ setting' = [status |-> s, row |-> CHOOSE i \in DOMAIN ccRows' : ccRows'[i].domain = d]
  /\ UNCHANGED <<configured, registered, channels>>

\* The last command, which may fail: the request is a 500, the card is left as it is.
StatusSet ==
  /\ setting # NoSetting /\ setting' = NoSetting
  /\ \/ ccRows' = [ccRows EXCEPT ![setting.row] = [ccRows[setting.row] EXCEPT !.status = setting.status]] /\ UNCHANGED blips
     \/ blips < MaxBlips /\ blips' = blips + 1 /\ UNCHANGED ccRows
  /\ UNCHANGED <<configured, registered, channels>> /\ Changes

ConsoleSets == \E s \in AgentStatuses : SetAgentStatus(s) /\ Changes

\* toggleBreak: the card flips at once; a demo card only flips.
ToggleBreak ==
  /\ card \in Shown
  /\ SetAgentStatus(IF card = "away" THEN "Available" ELSE "On Break")
  /\ card' = (IF card = "away" THEN "available" ELSE "away")
  /\ poll' = [poll EXCEPT !.fresh = FALSE] /\ fresh' = FALSE /\ UNCHANGED everReal

-----------------------------------------------------------------------------
(* The page's poll of the agents board: three commands, one after another, *)
(* each read as empty when it fails.                                       *)

PollOnly == UNCHANGED <<configured, lineVars, setting, card, everReal, fresh>>
Blips    == blips < MaxBlips /\ blips' = blips + 1

PollStarts ==
  /\ poll.at = "idle"
  /\ \/ poll' = [NoPoll EXCEPT !.at = "registrations", !.onCall = channels # {}, !.fresh = TRUE] /\ UNCHANGED blips
     \/ poll' = [NoPoll EXCEPT !.at = "registrations"] /\ Blips
  /\ PollOnly

PollRegistrations ==
  /\ poll.at = "registrations"
  /\ \/ poll' = [poll EXCEPT !.at = "rows", !.reg = registered] /\ UNCHANGED blips
     \/ poll' = [poll EXCEPT !.at = "rows", !.fresh = FALSE] /\ Blips
  /\ PollOnly

PollRows ==
  /\ poll.at = "rows"
  /\ \/ poll' = [poll EXCEPT !.at = "answer", !.says = AgentsBoard(poll.onCall, poll.reg, LastStatus)]
        /\ UNCHANGED blips
     \/ poll' = [poll EXCEPT !.at = "answer", !.says = AgentsBoard(poll.onCall, poll.reg, "none"),
                             !.fresh = FALSE] /\ Blips
  /\ PollOnly

PollShows ==
  /\ poll.at = "answer" /\ poll' = NoPoll
  /\ card' = poll.says /\ everReal' = TRUE /\ fresh' = poll.fresh
  /\ UNCHANGED <<configured, lineVars, setting, blips>>

\* The board cannot be had: demo agents, unless real ones have been shown.
PollFails ==
  /\ poll.at = "answer" /\ poll' = NoPoll /\ Blips
  /\ card' = (IF everReal THEN card ELSE "demo")
  /\ UNCHANGED <<configured, lineVars, setting, everReal, fresh>>

BoardsNext ==
  \/ PhoneComes \/ PhoneGoes \/ DirectStarts \/ DirectEnds
  \/ \E i \in BoxRow : Offered(i) \/ QueueAnswered(i) \/ Missed(i) \/ QueueEnds(i)
  \/ ConsoleSets \/ ToggleBreak \/ StatusSet
  \/ PollStarts \/ PollRegistrations \/ PollRows \/ PollShows \/ PollFails

BoardsSpec == BoardsInit /\ [][BoardsNext]_boardsVars

-----------------------------------------------------------------------------
\* An agent with one row, registered, on no direct call and not paused during a call.
Ordinary ==
  /\ registered /\ Len(ccRows) = 1 /\ "direct" \notin channels
  /\ ccRows[1].status # "Available" => ccRows[1].state = "Waiting"

\* The readers derive an agent's state from different commands, in different
\* orders (telephony.service.ts:232-237, dashboard.module.ts:81-93,
\* realtime.module.ts:53-57, dialer.service.ts:1048), and agree on an ordinary
\* agent.  The page shows what the board says once nothing has changed since
\* its poll began, a toggle's early flip included, and so offers to monitor
\* only an agent with a channel; demo agents never replace real ones.
\* Only when the domain could not be asked for once has the agent two lines in the
\* report (dialer.service.ts:1151), and at most one of them is then on a call.
BoardsAgree ==
  /\ Ordinary =>
       /\ BoardNow = Dashboard
       /\ AvailableAgent <=> Dashboard = "available"
       /\ SummaryAvailable = (IF AvailableAgent THEN 1 ELSE 0)
       /\ SummaryOnCall > 0 => Dashboard = "on-call"
  /\ fresh => card = BoardNow /\ (card = "on-call" => channels # {})
  /\ everReal => card # "demo"
  /\ Len(agentPerformance) > 1 => ~configured /\ blips > 0
  /\ \A i, j \in DOMAIN agentPerformance :
       i # j => "Waiting" \in {agentPerformance[i].state, agentPerformance[j].state}
=============================================================================
