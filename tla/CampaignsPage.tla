---------------------------- MODULE CampaignsPage ----------------------------
(***************************************************************************)
(* A manager's page of campaigns: the table with its actions, the wizard,  *)
(* the Monitor of a live run, the run history with a run's detail, and the *)
(* call history.  The page keeps one piece of state for each of them and   *)
(* shows the first that is set; every answer is applied when it arrives,   *)
(* whatever the manager has turned to in the meantime.                     *)
(*                                                                         *)
(* Abstracted: of a campaign's settings its target, its abandon target in  *)
(* percent and whether it is active; the run shown is its campaign's name; *)
(* a detail is of a campaign's only run.  Clicks, other managers' edits    *)
(* and failed requests are bounded by MaxClicks together.                  *)
(***************************************************************************)
EXTENDS Integers, FiniteSets, SequencesExt

CONSTANTS
  Ids,        \* campaigns there may be
  FirstId,    \* the one there is at the beginning
  MaxClicks,
  New, None

ASSUME CampaignsPageAssumption == FirstId \in Ids /\ MaxClicks \in Nat /\ New \notin Ids /\ None \notin Ids

VARIABLES
  stored,      \* the database's row of each campaign, or None
  listed,      \* the row the table shows of it, or None
  overviews,   \* requests for the table: read by the server yet, and the rows
  wizard,      \* the form that is open, or None
  pendingEdit, \* the campaign of the address, to be opened once the list is there, or None
  changes,     \* mutations under way
  running,     \* the campaign the Monitor is about, or None
  shownRun,    \* the campaign whose run it shows, or None
  polled,      \* the campaign the timer asks about, or None
  firsts,      \* campaigns whose first answer the Monitor still awaits
  polls,       \* campaigns with a timer's request under way
  shown,       \* what run detail, run history and call history are about, or None
  opening,     \* their requests under way
  clicks,
  wanted,      \* auxiliary: what the manager opened each view for
  behind,      \* auxiliary: another manager's edit, a failed or an overtaken load may show
  closed,      \* auxiliary: a wizard has been closed
  late         \* auxiliary: a view was left, or a saving form cancelled, before its answer

tableVars  == <<stored, listed, overviews, wizard, pendingEdit, changes, behind, closed>>
monitorVar == <<running, shownRun, polled, firsts, polls>>
viewVars   == <<shown, opening, wanted>>
pageVars   == <<tableVars, monitorVar, viewVars, clicks, late>>

Views == {"detail", "runs", "history"}
Rows3 == [target : {1, 2}, pct : {3, 5}, active : BOOLEAN]
Table == [Ids -> Rows3 \cup {None}]
Forms == [id : Ids \cup {New}, target : {1, 2}, pct : {3, 5, None}, saving : BOOLEAN]
ASSUME NoFormIsNone == None \notin Forms

Empty == [c \in Ids |-> None]
Asked == [read |-> FALSE, rows |-> Empty]

PageTypeOK ==
  /\ stored \in Table /\ listed \in Table /\ overviews \in Seq([read : BOOLEAN, rows : Table])
  /\ wizard \in Forms \cup {None} /\ pendingEdit \in Ids \cup {None}
  /\ \A q \in changes : q.id \in Ids \cup {New} /\ q.at \in {"sent", "written"} /\ q.form \in Forms \cup {None}
  /\ {running, shownRun, polled} \subseteq Ids \cup {None} /\ firsts \cup polls \subseteq Ids
  /\ shown \in [Views -> Ids \cup {None}] /\ wanted \in [Views -> Ids \cup {None}] /\ opening \subseteq Views \X Ids
  /\ clicks \in 0..MaxClicks /\ {behind, closed, late} \subseteq BOOLEAN

\* The page opens, perhaps on the address of a wizard.
PageInit ==
  /\ stored = [Empty EXCEPT ![FirstId] = [target |-> 1, pct |-> 5, active |-> TRUE]]
  /\ listed = Empty /\ overviews = <<Asked>>
  /\ wizard = None /\ pendingEdit \in {FirstId, None} /\ changes = {}
  /\ running = None /\ shownRun = None /\ polled = None /\ firsts = {} /\ polls = {}
  /\ shown = [v \in Views |-> None] /\ wanted = shown /\ opening = {}
  /\ clicks = 0 /\ behind = FALSE /\ closed = FALSE /\ late = FALSE

-----------------------------------------------------------------------------
(* The screen: the first that is set *)

Screen ==
  CASE wizard # None -> "wizard"
    [] wizard = None /\ running # None -> "monitor"
    [] wizard = None /\ running = None /\ \E v \in Views : shown[v] # None ->
         IF shown["detail"] # None THEN "detail" ELSE IF shown["runs"] # None THEN "runs" ELSE "history"
    [] OTHER -> "table"

Clicks(on) == Screen = on /\ clicks < MaxClicks /\ clicks' = clicks + 1

\* A request for the table beside another one may overtake it.
Asking == overviews' = Append(overviews, Asked) /\ behind' = (behind \/ overviews # <<>>)

-----------------------------------------------------------------------------
(* The table *)

OverviewRead(i) ==
  /\ ~overviews[i].read
  /\ overviews' = [overviews EXCEPT ![i] = [read |-> TRUE, rows |-> stored]]
  /\ UNCHANGED <<stored, listed, wizard, pendingEdit, changes, behind, closed, monitorVar, viewVars, clicks, late>>

\* The form of a row; the abandon target is not among the fields it copies.
cleanCampaign(c, row) == [id |-> c, target |-> row.target, pct |-> None, saving |-> FALSE]

\* The table is replaced, by nothing if the request failed; a campaign of the address is
\* then opened, unless a wizard is.
load(i, rows) ==
  /\ overviews' = RemoveAt(overviews, i) /\ listed' = rows
  /\ behind' = ((behind \/ rows = Empty) /\ (rows # stored \/ Len(overviews) > 1))
  /\ IF pendingEdit # None /\ wizard = None /\ rows[pendingEdit] # None
       THEN wizard' = cleanCampaign(pendingEdit, rows[pendingEdit]) /\ pendingEdit' = None
       ELSE UNCHANGED <<wizard, pendingEdit>>
  /\ UNCHANGED <<stored, changes, closed, monitorVar, viewVars, late>>

OverviewArrives(i) == overviews[i].read /\ load(i, overviews[i].rows) /\ UNCHANGED clicks
OverviewFails(i)   == clicks < MaxClicks /\ clicks' = clicks + 1 /\ load(i, Empty)

\* Pause or activate, delete, duplicate, reset: from a row of the table.
RowAction(op, c) ==
  /\ Clicks("table") /\ listed[c] # None
  /\ changes' = changes \cup {[op |-> op, id |-> c, at |-> "sent", active |-> ~listed[c].active, form |-> None]}
  /\ UNCHANGED <<stored, listed, overviews, wizard, pendingEdit, behind, closed, monitorVar, viewVars, late>>

\* What the server makes of a request; a campaign that is gone is not found.
SavedPct(pct) == IF pct = None THEN 3 ELSE pct      \* Number(undefined) || 3

created(row) == \E n \in Ids : stored[n] = None /\ stored' = [stored EXCEPT ![n] = row]
removed(c)   == stored' = [stored EXCEPT ![c] = None]
patched(c, form) == stored' = [stored EXCEPT ![c] = [stored[c] EXCEPT !.target = form.target, !.pct = SavedPct(form.pct)]]
duplicateCampaign(c) == created([stored[c] EXCEPT !.active = FALSE])

Written(q) ==
  \/ q.op = "toggle" /\ stored' = [stored EXCEPT ![q.id].active = q.active]
  \/ q.op = "remove" /\ removed(q.id)
  \/ q.op = "reset"  /\ UNCHANGED stored                   \* its leads: CampaignLeads
  \/ q.op = "duplicate" /\ duplicateCampaign(q.id)
  \/ q.op = "save" /\ q.id # New /\ patched(q.id, q.form)
  \/ q.op = "save" /\ q.id = New
       /\ created([target |-> q.form.target, pct |-> SavedPct(q.form.pct), active |-> TRUE])

Found(q) == q.id # New /\ q.op # "remove" => stored[q.id] # None

ChangeWrites(q) ==
  /\ q.at = "sent" /\ Found(q)
  /\ Written(q)
  /\ changes' = (changes \ {q}) \cup {[q EXCEPT !.at = "written"]}
  /\ UNCHANGED <<listed, overviews, wizard, pendingEdit, behind, closed, monitorVar, viewVars, clicks, late>>

\* The wizard a failed save came from shows the error and may be saved again; the others
\* say so in a message, or not at all.
ChangeFails(q) ==
  /\ q.at = "sent"
  /\ IF Found(q) THEN clicks < MaxClicks /\ clicks' = clicks + 1 ELSE UNCHANGED clicks
  /\ changes' = changes \ {q}
  /\ wizard' = IF q.op = "save" /\ wizard = q.form THEN [wizard EXCEPT !.saving = FALSE] ELSE wizard
  /\ UNCHANGED <<stored, listed, overviews, pendingEdit, behind, closed, monitorVar, viewVars, late>>

\* Every other mutation is followed by a load ...
ChangeAnswered(q) ==
  /\ q.at = "written" /\ q.op # "save"
  /\ changes' = changes \ {q} /\ Asking
  /\ UNCHANGED <<stored, listed, wizard, pendingEdit, closed, monitorVar, viewVars, clicks, late>>

\* Another manager retargets a campaign, or pauses or activates it.
OtherManager(c) ==
  /\ clicks < MaxClicks /\ clicks' = clicks + 1
  /\ stored[c] # None
  /\ \/ stored' = [stored EXCEPT ![c].target = 3 - stored[c].target]
     \/ stored' = [stored EXCEPT ![c].active = ~stored[c].active]
  /\ behind' = TRUE
  /\ UNCHANGED <<listed, overviews, wizard, pendingEdit, changes, closed, monitorVar, viewVars, late>>

-----------------------------------------------------------------------------
(* The wizard *)

openEditor(c) ==
  /\ Clicks("table")
  /\ c # New => listed[c] # None
  /\ wizard' = IF c = New THEN [id |-> New, target |-> 1, pct |-> 3, saving |-> FALSE] ELSE cleanCampaign(c, listed[c])
  /\ UNCHANGED <<stored, listed, overviews, pendingEdit, changes, behind, closed, monitorVar, viewVars, late>>

\* Mutant: the address is not forgotten.
closeEditorOnly == wizard' = None /\ UNCHANGED pendingEdit /\ closed' = TRUE

closeEditor == wizard' = None /\ pendingEdit' = None /\ closed' = TRUE

EditsForm(target, pct) ==
  /\ Clicks("wizard") /\ ~wizard.saving
  /\ wizard' = [wizard EXCEPT !.target = target, !.pct = IF pct = None THEN wizard.pct ELSE pct] /\ wizard' # wizard
  /\ UNCHANGED <<stored, listed, overviews, pendingEdit, changes, behind, closed, monitorVar, viewVars, late>>

save ==
  /\ Clicks("wizard") /\ ~wizard.saving
  /\ wizard' = [wizard EXCEPT !.saving = TRUE]
  /\ changes' = changes \cup {[op |-> "save", id |-> wizard.id, at |-> "sent", active |-> TRUE, form |-> wizard']}
  /\ UNCHANGED <<stored, listed, overviews, pendingEdit, behind, closed, monitorVar, viewVars, late>>

\* ... and so is a save, which also closes the wizard, whichever is open by now.
SaveAnswered(q) ==
  /\ q.at = "written" /\ q.op = "save"
  /\ closeEditor /\ Asking
  /\ changes' = changes \ {q}
  /\ UNCHANGED <<stored, listed, monitorVar, viewVars, clicks, late>>

Cancels ==
  /\ Clicks("wizard") /\ closeEditor
  /\ late' = (late \/ wizard.saving)
  /\ UNCHANGED <<stored, listed, overviews, changes, behind, monitorVar, viewVars>>

-----------------------------------------------------------------------------
(* The Monitor *)

openRunner(c) ==
  /\ Clicks("table") /\ listed[c] # None
  /\ running' = c /\ shownRun' = None /\ firsts' = firsts \cup {c}
  /\ UNCHANGED <<tableVars, polled, polls, viewVars, late>>

\* The first answer, a run, none or an error; the timer starts with it.
startPoll(c) ==
  /\ c \in firsts /\ firsts' = firsts \ {c}
  /\ shownRun' \in {c, None} /\ polled' = c
  /\ UNCHANGED <<tableVars, running, polls, viewVars, clicks, late>>

TimerAsks ==
  /\ polled # None /\ polls' = polls \cup {polled} /\ polls' # polls
  /\ UNCHANGED <<tableVars, running, shownRun, polled, firsts, viewVars, clicks, late>>

PollAnswered(c) ==
  /\ c \in polls /\ polls' = polls \ {c}
  /\ shownRun' \in {c, None}
  /\ UNCHANGED <<tableVars, running, polled, firsts, viewVars, clicks, late>>

\* Mutant: the timer goes on.
stopsPollingNot == UNCHANGED polled

stopsPolling == polled' = None

BackFromMonitor ==
  /\ Clicks("monitor") /\ stopsPolling
  /\ running' = None
  /\ late' = (late \/ firsts \cup polls # {})
  /\ UNCHANGED <<tableVars, shownRun, firsts, polls, viewVars>>

-----------------------------------------------------------------------------
(* The run history, a run's detail and the call history *)

openView(v, c) ==
  /\ IF v = "detail" THEN Clicks("runs") /\ c = shown["runs"] ELSE Clicks("table") /\ listed[c] # None
  /\ shown' = [shown EXCEPT ![v] = c] /\ wanted' = [wanted EXCEPT ![v] = c]
  /\ opening' = opening \cup {<<v, c>>}
  /\ UNCHANGED <<tableVars, monitorVar, late>>

\* The answer or the error sets the view, whether it is still open or not.
ViewAnswered(v, c) ==
  /\ <<v, c>> \in opening /\ opening' = opening \ {<<v, c>>}
  /\ shown' = [shown EXCEPT ![v] = c]
  /\ UNCHANGED <<tableVars, monitorVar, wanted, clicks, late>>

BackFrom(v) ==
  /\ Clicks(v)
  /\ shown' = [shown EXCEPT ![v] = None] /\ wanted' = [wanted EXCEPT ![v] = None]
  /\ late' = (late \/ \E c \in Ids : <<v, c>> \in opening)
  /\ UNCHANGED <<tableVars, monitorVar, opening>>

PageNext ==
  \/ \E i \in DOMAIN overviews : OverviewRead(i) \/ OverviewArrives(i) \/ OverviewFails(i)
  \/ \E c \in Ids : \/ \E op \in {"toggle", "remove", "duplicate", "reset"} : RowAction(op, c)
                    \/ OtherManager(c) \/ openRunner(c) \/ startPoll(c) \/ PollAnswered(c)
                    \/ \E v \in Views : openView(v, c) \/ ViewAnswered(v, c)
  \/ \E q \in changes : ChangeWrites(q) \/ ChangeFails(q) \/ ChangeAnswered(q) \/ SaveAnswered(q)
  \/ \E c \in Ids \cup {New} : openEditor(c)
  \/ \E target \in {1, 2}, pct \in {3, 5, None} : EditsForm(target, pct)
  \/ save \/ Cancels \/ TimerAsks \/ BackFromMonitor
  \/ \E v \in Views : BackFrom(v)

PageSpec == PageInit /\ [][PageNext]_pageVars

-----------------------------------------------------------------------------
\* Once nothing is under way the table shows what is stored: each of the manager's changes
\* is followed by a load that is read after it.  Excused are another manager's edits, a
\* load that failed and loads that were under way together.
TableIsStored == overviews = <<>> /\ changes = {} /\ ~behind => listed = stored

\* As long as no view was left before its answer came: the Monitor shows and asks about
\* the campaign of its heading and nothing asks once it is left; each history is the one
\* the manager opened.
ViewsAreAsOpened ==
  ~late =>
    /\ shown = wanted
    /\ running = None => polled = None
    /\ running # None => shownRun \in {running, None} /\ firsts \cup polls \subseteq {running}
                         /\ (firsts = {} => polled = running)

\* And the wizard opens when the manager opens it, or once for the address the page came
\* with: a campaign of the address is not opened after a wizard was closed.
PageShowsWhatIs ==
  [][pageVars' # pageVars =>
       /\ TableIsStored' /\ ViewsAreAsOpened'
       /\ wizard = None /\ wizard' # None =>
            clicks' # clicks \/ (pendingEdit # None /\ ~closed)]_pageVars

\* campaigns/page.tsx:132: the Monitor is a live monitor of its campaign.  Not so when it is
\* left before its first answer: the timer starts then, for a campaign nobody looks at.
MonitorIsOfItsCampaign == running # None /\ firsts = {} => polled = running

\* What an edit does not touch it keeps.  Not so for the abandon target, which the form
\* does not copy and the save sets to the default.
EditKeepsAbandonTarget ==
  [][\A q \in changes : q.op = "save" /\ q.form.pct = None /\ ChangeWrites(q) => stored'[q.id].pct = stored[q.id].pct]_pageVars
=============================================================================
