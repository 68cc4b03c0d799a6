----------------------------- MODULE CallRecords -----------------------------
(***************************************************************************)
(* What is left of an auto-dialed campaign's calls: the CallAttempt rows   *)
(* that every attempt writes beside the dial loop, the CampaignRun row of  *)
(* a finished run, and the CallLog rows that the agents' browsers create   *)
(* and that a disposition annotates; with the three views that are         *)
(* computed from them, a run's history, the report and the campaign's call *)
(* history.                                                                *)
(*                                                                         *)
(* Abstracted: numbers differ in their last nine digits; times are the     *)
(* order of the rows, and a log's the order of the calls; a log's          *)
(* disposition and its recording are the call they belong to; those of an  *)
(* item and its rows, which no view but the Monitor's shows, are left out. *)
(* DialLoop has the loop and its awaits, Softphone the browser's side.     *)
(***************************************************************************)
EXTENDS Integers, FiniteSets, SequencesExt

CONSTANTS
  Dialed,      \* the numbers of the campaign
  MaxAttempts,
  MaxPasses,   \* bound on the runs
  MaxTalks     \* bound on the answered calls

ASSUME RecordsAssumption == IsFiniteSet(Dialed) /\ MaxAttempts \in Nat \ {0} /\ MaxPasses \in Nat /\ MaxTalks \in Nat

VARIABLES
  dial,        \* the run in memory: its number, is it live, does it record
  item,        \* the run's item of each number
  CallAttempt, \* the rows, in the order they were written
  persisting,  \* rows whose insert is under way
  CampaignRun, \* the summary of each finished run, or NoSummary
  talk,        \* the calls that were answered or placed by hand, in their order
  CallLog,     \* the rows: whose call it is, tagged with the campaign, disposition, recording
  annotating,  \* POST call-disposition under way: of which call, the log it has found
  ended,       \* auxiliary: each finished run's items
  lost,        \* auxiliary: runs of which a row could not be written
  odd          \* auxiliary: calls that are mixed up with another one to the same number

memory      == <<dial, item>>
tables      == <<CallAttempt, persisting, CampaignRun>>
callRecs    == <<talk, CallLog, annotating>>
recordsVars == <<memory, tables, callRecs, ended, lost, odd>>

Talks     == 1..MaxTalks
Chosen    == Talks \cup {0}
Passes    == 1..MaxPasses
Fresh     == [status |-> "queued", attempts |-> 0, rec |-> 0]
Items     == [status : {"queued", "dialing", "answered", "failed", "skipped", "stopped"},
              attempts : 0..MaxAttempts, rec : Chosen]
NoSummary == [dialed |-> 0, connected |-> -1, failed |-> 0]
Silent    == [at |-> "idle", of |-> 0, log |-> 0, rec |-> 0]
Open      == {t \in DOMAIN talk : talk[t].disp = "due" \/ annotating.of = t}
LogsOf(n) == {l \in DOMAIN CallLog : talk[CallLog[l].of].number = n}

RecordsTypeOK ==
  /\ dial \in [no : 0..MaxPasses, live : BOOLEAN, records : BOOLEAN] /\ item \in [Dialed -> Items]
  /\ \A i \in DOMAIN CallAttempt : CallAttempt[i].run \in Passes /\ CallAttempt[i].number \in Dialed
  /\ CampaignRun \in [Passes -> [dialed : 0..Cardinality(Dialed), connected : {-1} \cup 0..Cardinality(Dialed),
                                 failed : 0..Cardinality(Dialed)]]
  /\ talk \in Seq([number : Dialed, at : {"queue", "agent", "over", "logged", "gone"},
                   disp : {"due", "sent"}, rec : Chosen])
  /\ CallLog \in Seq([of : Talks, tagged : BOOLEAN, disp : Chosen, rec : Chosen])
  /\ annotating \in [at : {"idle", "finding", "writing"}, of : Chosen, log : Chosen, rec : Chosen]
  /\ ended \in [Passes -> [Dialed -> Items]] /\ lost \subseteq Passes /\ odd \subseteq Talks

RecordsInit ==
  /\ dial = [no |-> 0, live |-> FALSE, records |-> FALSE] /\ item = [n \in Dialed |-> Fresh]
  /\ CallAttempt = <<>> /\ persisting = {} /\ CampaignRun = [r \in Passes |-> NoSummary]
  /\ talk = <<>> /\ CallLog = <<>> /\ annotating = Silent
  /\ ended = [r \in Passes |-> [n \in Dialed |-> Fresh]] /\ lost = {} /\ odd = {}

-----------------------------------------------------------------------------
(* The run and its rows *)

\* The row an item's attempt leaves.
attemptRow(n, it) ==
  [run |-> dial.no, number |-> n, status |-> it.status, attempt |-> it.attempts, rec |-> it.rec]

\* A run is registered with the numbers on the DNC list skipped; the loop begins when
\* their rows are written.
startsRun(skipped, records) ==
  /\ ~dial.live /\ dial.no < MaxPasses
  /\ dial' = [no |-> dial.no + 1, live |-> TRUE, records |-> records]
  /\ item' = [n \in Dialed |-> IF n \in skipped THEN [Fresh EXCEPT !.status = "skipped"] ELSE Fresh]
  /\ persisting' = persisting \cup {[attemptRow(n, item'[n]) EXCEPT !.run = dial'.no] : n \in skipped}
  /\ UNCHANGED <<CallAttempt, CampaignRun, callRecs, ended, lost, odd>>

launches(n) ==
  /\ dial.live /\ item[n].status = "queued" /\ \A row \in persisting : row.status # "skipped"
  /\ item' = [item EXCEPT ![n] = [item[n] EXCEPT !.status = "dialing", !.attempts = @ + 1]]
  /\ UNCHANGED <<dial, tables, callRecs, ended, lost, odd>>

\* Mutant: a number is tried again whatever it has had.
attemptFailsForever(n, retryable) ==
  /\ item[n].status = "dialing"
  /\ item' = [item EXCEPT ![n].status = IF retryable THEN "queued" ELSE "failed"]
  /\ persisting' = persisting \cup {attemptRow(n, item'[n])}
  /\ UNCHANGED <<dial, CallAttempt, CampaignRun, callRecs, ended, lost, odd>>

\* An attempt fails and is tried again, or for good; the row is on its way while the next
\* attempt may begin.
attemptFails(n, retryable) ==
  /\ item[n].status = "dialing"
  /\ item' = [item EXCEPT ![n] = [item[n] EXCEPT !.status =
       IF retryable /\ item[n].attempts < MaxAttempts THEN "queued" ELSE "failed"]]
  /\ persisting' = persisting \cup {attemptRow(n, item'[n])}
  /\ UNCHANGED <<dial, CallAttempt, CampaignRun, callRecs, ended, lost, odd>>

\* The customer answers and enters the queue.  The call is mixed up with one to the same
\* number that still awaits its disposition, and, unrecorded, with one that was recorded.
customerAnswers(n) ==
  /\ item[n].status = "dialing" /\ Len(talk) < MaxTalks
  /\ LET t == Len(talk) + 1
         rec == IF dial.records THEN t ELSE 0
         others == {o \in DOMAIN talk : talk[o].number = n}
     IN  /\ item' = [item EXCEPT ![n] = [item[n] EXCEPT !.status = "answered", !.rec = rec]]
         /\ talk' = Append(talk, [number |-> n, at |-> "queue", disp |-> "due", rec |-> rec])
         /\ odd' = odd \cup (others \cap Open)
                       \cup IF others \cap Open # {} \/ (rec = 0 /\ others # {}) THEN {t} ELSE {}
  /\ persisting' = persisting \cup {attemptRow(n, item'[n])}
  /\ UNCHANGED <<dial, CallAttempt, CampaignRun, CallLog, annotating, ended, lost>>

\* The insert of a row ends, in any order, ...
persist(row) ==
  /\ row \in persisting
  /\ CallAttempt' = Append(CallAttempt, row) /\ persisting' = persisting \ {row}
  /\ UNCHANGED <<memory, CampaignRun, callRecs, ended, lost, odd>>

\* ... or fails, which is ignored.
persistFails(row) ==
  /\ row \in persisting /\ lost = {}
  /\ persisting' = persisting \ {row} /\ lost' = {row.run}
  /\ odd' = odd \cup {t \in DOMAIN talk : talk[t].number = row.number}
  /\ UNCHANGED <<memory, CallAttempt, CampaignRun, callRecs, ended>>

countItems(items, s) == Cardinality({n \in Dialed : items[n].status = s})

\* The summary's counts, one for each number.
persistRunSummary(items) ==
  [dialed    |-> Cardinality({n \in Dialed : items[n].attempts > 0}),
   connected |-> countItems(items, "answered"),
   failed    |-> countItems(items, "failed")]

\* The loop ends once no call and no row is on its way: done with no item left, or stopped.
runFinishes(stopping) ==
  /\ dial.live /\ persisting = {} /\ \A n \in Dialed : item[n].status # "dialing"
  /\ stopping \/ \A n \in Dialed : item[n].status # "queued"
  /\ dial' = [dial EXCEPT !.live = FALSE]
  /\ item' = [n \in Dialed |-> IF item[n].status = "queued" THEN [item[n] EXCEPT !.status = "stopped"] ELSE item[n]]
  /\ CampaignRun' = [CampaignRun EXCEPT ![dial.no] = persistRunSummary(item')]
  /\ ended' = [ended EXCEPT ![dial.no] = item']
  /\ UNCHANGED <<CallAttempt, persisting, callRecs, lost, odd>>

-----------------------------------------------------------------------------
(* The agent's call *)

\* The queue gives the customer to an agent, or they hang up before (or it gives up).
reachesAgent(t) ==
  /\ talk[t].at = "queue"
  /\ \/ talk' = [talk EXCEPT ![t] = [talk[t] EXCEPT !.at = "agent"]]
     \/ talk' = [talk EXCEPT ![t] = [talk[t] EXCEPT !.at = "gone", !.disp = "sent"]]
  /\ UNCHANGED <<memory, tables, CallLog, annotating, ended, lost, odd>>

callEnds(t) ==
  /\ talk[t].at = "agent"
  /\ talk' = [talk EXCEPT ![t] = [talk[t] EXCEPT !.at = "over"]]
  /\ UNCHANGED <<memory, tables, CallLog, annotating, ended, lost, odd>>

\* POST call-logs: tagged with the campaign by the browser, or by the attempts of the last
\* ten minutes on that number.
createLog(t, knows, recent) ==
  /\ talk[t].at = "over"
  /\ LET dialedBefore == \E i \in DOMAIN CallAttempt : CallAttempt[i].number = talk[t].number
         tagged == knows \/ (recent /\ dialedBefore)
     IN  CallLog' = Append(CallLog, [of |-> t, tagged |-> tagged, disp |-> 0, rec |-> 0])
  /\ talk' = [talk EXCEPT ![t] = [talk[t] EXCEPT !.at = "logged"]]
  /\ UNCHANGED <<memory, tables, annotating, ended, lost, odd>>

\* A call placed by hand to a number of the campaign is logged the same way.
placesByHand(n) ==
  /\ Len(talk) < MaxTalks
  /\ talk' = Append(talk, [number |-> n, at |-> "over", disp |-> "sent", rec |-> 0])
  /\ odd' = odd \cup {Len(talk) + 1} \cup {o \in Open : talk[o].number = n}
  /\ UNCHANGED <<memory, tables, CallLog, annotating, ended, lost>>

\* POST call-disposition, at any time after the call has reached the agent.  Before the
\* call's log or row is there, it finds those of an earlier one.
dispositionSent(t) ==
  /\ annotating.at = "idle" /\ talk[t].disp = "due" /\ talk[t].at \in {"agent", "over", "logged"}
  /\ annotating' = [Silent EXCEPT !.at = "finding", !.of = t]
  /\ talk' = [talk EXCEPT ![t] = [talk[t] EXCEPT !.disp = "sent"]]
  /\ odd' = odd \cup IF /\ \E l \in DOMAIN CallLog : CallLog[l].of = t /\ CallLog[l].tagged
                       /\ \A row \in persisting : row.rec # t
                     THEN {}
                     ELSE {o \in DOMAIN talk : talk[o].number = talk[t].number}
  /\ UNCHANGED <<memory, tables, CallLog, ended, lost>>

\* The number's latest log in the campaign, by when its call began, ...
latestLog(n) == LET hits == {l \in LogsOf(n) : CallLog[l].tagged}
                IN  IF hits = {} THEN 0 ELSE CHOOSE l \in hits : \A k \in hits : CallLog[k].of <= CallLog[l].of

\* ... and its latest attempt with a recording.
latestRecording(n) ==
  LET hits == {i \in DOMAIN CallAttempt : CallAttempt[i].number = n /\ CallAttempt[i].rec # 0}
  IN  IF hits = {} THEN 0 ELSE CallAttempt[Max(hits)].rec

findsLog ==
  /\ annotating.at = "finding"
  /\ LET n == talk[annotating.of].number
     IN  annotating' = [annotating EXCEPT !.at = "writing", !.log = latestLog(n), !.rec = latestRecording(n)]
  /\ UNCHANGED <<memory, tables, talk, CallLog, ended, lost, odd>>

\* The log found is written, if there is one.
annotatesLog ==
  /\ annotating.at = "writing"
  /\ LET a == annotating
     IN  CallLog' = IF a.log = 0 THEN CallLog
                    ELSE [CallLog EXCEPT ![a.log] = [CallLog[a.log] EXCEPT !.disp = a.of, !.rec = IF a.rec = 0 THEN @ ELSE a.rec]]
  /\ annotating' = Silent
  /\ UNCHANGED <<memory, tables, talk, ended, lost, odd>>

deleteRecording(l) ==
  /\ CallLog[l].rec # 0
  /\ CallLog' = [CallLog EXCEPT ![l] = [CallLog[l] EXCEPT !.rec = 0]]
  /\ odd' = odd \cup {CallLog[l].of}
  /\ UNCHANGED <<memory, tables, talk, annotating, ended, lost>>

RecordsNext ==
  \/ \E skipped \in SUBSET Dialed, records \in BOOLEAN : startsRun(skipped, records)
  \/ \E n \in Dialed :
       \/ launches(n) \/ customerAnswers(n) \/ placesByHand(n)
       \/ \E retryable \in BOOLEAN : attemptFails(n, retryable)
  \/ \E row \in persisting : persist(row) \/ persistFails(row)
  \/ \E stopping \in BOOLEAN : runFinishes(stopping)
  \/ \E t \in DOMAIN talk :
       \/ reachesAgent(t) \/ callEnds(t) \/ dispositionSent(t)
       \/ \E knows, recent \in BOOLEAN : createLog(t, knows, recent)
  \/ findsLog \/ annotatesLog
  \/ \E l \in DOMAIN CallLog : deleteRecording(l)

RecordsSpec == RecordsInit /\ [][RecordsNext]_recordsVars

-----------------------------------------------------------------------------
(* The views *)

\* A run's rows, the last written one of every number.
campaignRunCallsLast(r) ==
  {CallAttempt[i] : i \in {k \in DOMAIN CallAttempt :
     /\ CallAttempt[k].run = r
     /\ \A m \in k + 1..Len(CallAttempt) : CallAttempt[m].run = r => CallAttempt[m].number # CallAttempt[k].number}}

\* A run's rows, the one with the highest attempt of every number.
campaignRunCalls(r) ==
  LET rows == {row \in ToSet(CallAttempt) : row.run = r}
  IN  {row \in rows : \A other \in rows : other.number = row.number => other.attempt <= row.attempt}

\* The calls an agent had, and the attempts that ended without one.
campaignCalls ==
  [logs     |-> {l \in DOMAIN CallLog : CallLog[l].tagged},
   attempts |-> {i \in DOMAIN CallAttempt : CallAttempt[i].status \in {"failed", "skipped", "stopped"}}]

\* All attempts with a status, over all runs.
campaignReport(s) == Cardinality({i \in DOMAIN CallAttempt : CallAttempt[i].status = s})

\* The rows a CDR export lists: all of them.
cdr == DOMAIN CallAttempt

\* The run as the agent's Console strip and the dashboard's list count it.
pulse == [remaining |-> countItems(item, "queued") + countItems(item, "dialing"),
          done |-> countItems(item, "answered") + countItems(item, "failed")
                     + countItems(item, "skipped") + countItems(item, "stopped")]
listRuns == [answered |-> countItems(item, "answered"), failed |-> countItems(item, "failed")]

\* The numbers the dashboard shows as ringing.
liveDialingContext == {n \in Dialed : dial.live /\ item[n].status = "dialing"}

\* The queues of live runs; a customer who still waits when the run has ended is not counted.
activeQueues == IF dial.live THEN {"queue"} ELSE {}
callsWaiting == Cardinality({t \in DOMAIN talk : talk[t].at \in activeQueues})

\* The dashboard's calls: those with an agent, and those the run is dialing unless the
\* number is listed already, which a manager of a team does not see.
liveCalls(scoped) ==
  LET connected == {talk[t].number : t \in {u \in DOMAIN talk : talk[u].at = "agent"}}
      ringing   == IF scoped THEN {} ELSE liveDialingContext \ connected
  IN  [connected |-> connected, ringing |-> ringing]

\* Its contact rate, as answered attempts of all attempts: over a window of time, which
\* does not include its end, and for the campaign.
windowMetrics(from, to) ==
  LET att == {i \in DOMAIN CallAttempt : from <= i /\ i < to}
  IN  [total |-> Cardinality(att), ok |-> Cardinality({i \in att : CallAttempt[i].status = "answered"})]
campaignPerformance ==
  [total |-> Cardinality(DOMAIN CallAttempt), ok |-> campaignReport("answered")]

campaignRuns == {r \in Passes : CampaignRun[r] # NoSummary}

\* A campaign's lifetime counts, summed over its finished runs, and the numbers reached.
\* The sum is the size of a set with as many members for each run as its summary counts.
summed(count) == Cardinality(UNION {{r} \X (1..CampaignRun[r][count]) : r \in campaignRuns})

campaignsOverview ==
  [connected |-> summed("connected"), failed |-> summed("failed"),
   contacted |-> {talk[CallLog[l].of].number : l \in campaignCalls.logs}]

Kept(r) == r \in campaignRuns \ lost

\* A finished run's history has one row for each number it dialed or skipped, with its last
\* attempt and how that ended, in whatever order the rows were written; a number whose
\* retry was never made is still queued there.  The summary counts what the history shows.
HistoryIsTheRun ==
  \A r \in Passes : Kept(r) =>
    LET shown == campaignRunCalls(r)
        of(s) == Cardinality({row \in shown : row.status = s})
    IN  /\ {<<row.number, row.attempt, row.status>> : row \in shown} =
             {<<n, ended[r][n].attempts, IF ended[r][n].status = "stopped" THEN "queued" ELSE ended[r][n].status>> :
                n \in {m \in Dialed : ended[r][m].attempts > 0 \/ ended[r][m].status = "skipped"}}
        /\ CampaignRun[r] = [dialed |-> Cardinality(shown) - of("skipped"),
                             connected |-> of("answered"), failed |-> of("failed")]

\* What the dashboard shows as ringing has no row for this attempt yet, nor one on its
\* way.  Unless a row was lost, the campaign's lifetime counts, from the summaries of its
\* finished runs, and those of the live run, from memory, add up to the report's, from
\* the rows with those on their way, which are the dashboard's of any two windows that
\* meet; every customer who waits has a row or one on its way; and a finished run's pulse
\* has nothing remaining.
CountsAddUp ==
  /\ \A n \in liveCalls(FALSE).ringing, row \in ToSet(CallAttempt) \cup persisting :
       row.run = dial.no /\ row.number = n => row.attempt < item[n].attempts
  /\ lost = {} =>
       LET coming(s) == Cardinality({row \in persisting : row.status = s})
           now(f) == IF dial.live THEN listRuns[f] ELSE 0
       IN  /\ campaignsOverview.connected + now("answered") = campaignReport("answered") + coming("answered")
           /\ campaignsOverview.failed + now("failed") = campaignReport("failed") + coming("failed")
           /\ Cardinality(cdr) >= campaignReport("answered") + campaignReport("failed")
           /\ callsWaiting <= campaignPerformance.ok + coming("answered")
           /\ \A k \in cdr : LET before == windowMetrics(1, k)
                                 after  == windowMetrics(k, Len(CallAttempt) + 1)
                             IN  [total |-> before.total + after.total, ok |-> before.ok + after.ok] = campaignPerformance
  /\ ~dial.live /\ dial.no > 0 => pulse.remaining = 0 /\ pulse.done = Cardinality(Dialed)

\* A log carries its own call's disposition and recording and no other's, and both once the
\* disposition has been handled.  Odd are the calls the lookup by number mixes up: called
\* again before their disposition came, disposed of before their log or row was written,
\* without the campaign's tag, unrecorded after a recorded one, and those around a call
\* that was placed by hand or a row that was lost.
LogIsOfItsCall ==
  \A l \in DOMAIN CallLog : LET t == CallLog[l].of IN
    t \notin odd =>
      /\ CallLog[l].disp \in {0, t} /\ CallLog[l].rec \in {0, t}
      /\ talk[t].disp = "sent" /\ annotating.of # t => CallLog[l].disp = t /\ CallLog[l].rec = talk[t].rec

\* dialer.service.ts:473: "every dial shows up, not just the ones that reached an agent".
EveryDialShowsUp ==
  \A t \in DOMAIN talk :
    talk[t].at = "gone" /\ persisting = {} /\ lost = {} =>
      \/ \E l \in campaignCalls.logs : CallLog[l].of = t
      \/ \E i \in campaignCalls.attempts : CallAttempt[i].number = talk[t].number

\* The tables tell of the runs and the calls, in each of the views.
RecordsAreTrue == HistoryIsTheRun /\ CountsAddUp /\ LogIsOfItsCall
=============================================================================
