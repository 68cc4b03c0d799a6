---------------------------- MODULE CampaignLeads ----------------------------
(***************************************************************************)
(* Whom a campaign calls, over its whole life: the leads materialised from *)
(* its target when an agent first works it, the edits that throw them away *)
(* again, the dispositions that take a lead out of the next run, and the   *)
(* reset that opens all of them.  Every handler is a chain of database     *)
(* calls, so two first requests, an edit and a disposition interleave.     *)
(*                                                                         *)
(* Abstracted: a number is its text, and LineOf is what is left of it when *)
(* only the last nine digits are compared; lead group and contact group    *)
(* are one group whose members stay; a run makes one attempt per item and  *)
(* ends at any time (DialLoop has its loop, RunRoster its agents); of a    *)
(* lead's status only Do Not Call matters to the next run, so its attempts *)
(* are left out.  Reads that follow one another are one step.              *)
(***************************************************************************)
EXTENDS LeadOutcome, FiniteSets, SequencesExt

CONSTANTS
  Numbers,     \* the numbers there are
  LineOf,      \* each number's last nine digits
  Grouped,     \* the numbers of the group a campaign may target
  Pasted,      \* the lists a manager may paste
  Excludes,    \* the sets a manager may mark "don't re-dial"
  Deletable,   \* dispositions that are not the system's
  Joins,       \* agents' requests in flight
  MaxRows,     \* bound on the lead rows
  MaxEdits,    \* bound on edits and resets
  MaxAnswered  \* bound on the calls that reach an agent

ASSUME CampaignLeadsAssumption ==
  /\ IsFiniteSet(Numbers) /\ Numbers # {}
  /\ LineOf \in [Numbers -> Numbers]
  /\ Grouped \subseteq Numbers /\ \A s \in Pasted : s \subseteq Numbers
  /\ Deletable \subseteq Dispositions
  /\ MaxRows \in Nat /\ MaxEdits \in Nat /\ MaxAnswered \in Nat

VARIABLES
  preview,   \* dialMethod is Preview
  campaign,  \* what it targets and excludes
  deleted,   \* dispositions no longer in the catalog
  lead,      \* the Lead rows, in the order they were created
  join,      \* each agent's request: its next await and the campaign it read
  runOf,     \* the run each of them has started: is it live, whom has it left to dial
  known,     \* the request whose run the service knows as the campaign's
  owed,      \* numbers whose answered call awaits a disposition
  wrapUp,    \* the disposition under way
  edit,      \* the manager's update under way
  resetting, \* resetCampaignProgress passed its test for a live run
  edits,     \* edits and resets so far
  answered,  \* calls that have reached an agent so far
  said,      \* auxiliary: the last disposition accepted for a line that has a lead
  overtaken      \* auxiliary: leads were created beside others or from an old target,
             \* or a new target did not clear them because a run was live

rowVars   == <<preview, campaign, deleted, lead>>
runVars   == <<join, runOf, known>>
counts    == <<edits, answered>>
auxVars   == <<said, overtaken>>
leadsVars == <<rowVars, runVars, owed, wrapUp, edit, resetting, counts, auxVars>>

Campaigns == [numbers : Pasted, grouped : BOOLEAN, exclude : Excludes]
Blank     == CHOOSE c \in Campaigns : TRUE
Rows      == DOMAIN lead
NoRun     == [live |-> FALSE, items |-> {}]
NoJoin    == [at |-> "idle", read |-> Blank]
NoEdit    == [at |-> "idle", before |-> Blank, patch |-> Blank]
Nothing   == [at |-> "idle", number |-> CHOOSE n \in Numbers : TRUE, as |-> "none", row |-> 0]
Unsaid    == [n \in Numbers |-> "none"]

LeadsTypeOK ==
  /\ preview \in BOOLEAN /\ campaign \in Campaigns /\ deleted \subseteq Deletable
  /\ lead \in Seq([phone : Numbers, dnc : BOOLEAN, last : Dispositions \cup {"none"}]) /\ Len(lead) <= MaxRows
  /\ join \in [Joins -> [at : {"idle", "counting", "creating", "starting"}, read : Campaigns]]
  /\ runOf \in [Joins -> [live : BOOLEAN, items : SUBSET Numbers]] /\ known \in Joins
  /\ owed \subseteq Numbers /\ edits \in 0..MaxEdits /\ answered \in 0..MaxAnswered /\ resetting \in BOOLEAN /\ overtaken \in BOOLEAN
  /\ wrapUp \in [at : {"idle", "finding", "writing"}, number : Numbers, as : Dispositions \cup {"none"}, row : 0..MaxRows]
  /\ edit \in [at : {"idle", "patching", "checking", "clearing"}, before : Campaigns, patch : Campaigns]
  /\ said \in [Numbers -> Dispositions \cup {"none"}]

LeadsInit ==
  /\ preview \in BOOLEAN /\ campaign \in Campaigns /\ deleted = {} /\ lead = <<>>
  /\ join = [j \in Joins |-> NoJoin] /\ runOf = [j \in Joins |-> NoRun] /\ known \in Joins
  /\ owed = {} /\ wrapUp = Nothing /\ edit = NoEdit /\ resetting = FALSE /\ edits = 0 /\ answered = 0
  /\ said = Unsaid /\ overtaken = FALSE

-----------------------------------------------------------------------------
\* The rows a source gives: pasted numbers first, then the group's, each phone once.
Source(c) ==
  SetToSeq(c.numbers) \o SetToSeq(IF c.grouped THEN Grouped \ c.numbers ELSE {})

Targeting(c) == <<c.numbers, c.grouped>>

runLive == runOf[known].live

\* What an accepted disposition does to the auxiliary record.
Accepted(line, d) ==
  said' = IF \E r \in Rows : LineOf[lead[r].phone] = line THEN [said EXCEPT ![line] = d] ELSE said

-----------------------------------------------------------------------------
\* An agent plays in while no run is live, or asks for a preview lead: the campaign is
\* read once, at the beginning.
agentJoin(j) ==
  /\ join[j].at = "idle" /\ ~runOf[j].live /\ (preview \/ ~runLive)
  /\ join' = [join EXCEPT ![j] = [at |-> "counting", read |-> campaign]]
  /\ UNCHANGED <<rowVars, runOf, known, owed, wrapUp, edit, resetting, counts, auxVars>>

\* What a request does once the leads exist: a preview goes on to its reservation
\* (PreviewLeads), a join to the start of its run.
Afterwards(request) == IF preview THEN NoJoin ELSE [request EXCEPT !.at = "starting"]

\* materializeLeads and ensureLeads count first ...
leadsExist(j) ==
  /\ join[j].at = "counting"
  /\ join' = [join EXCEPT ![j] = IF Rows = {} THEN [join[j] EXCEPT !.at = "creating"] ELSE Afterwards(join[j])]
  /\ UNCHANGED <<rowVars, runOf, known, owed, wrapUp, edit, resetting, counts, auxVars>>

\* ... and create from the campaign as it was read, whatever is there by now.
materializeLeads(j) ==
  /\ join[j].at = "creating"
  /\ LET rows == Source(join[j].read)
     IN  lead' = lead \o [i \in DOMAIN rows |-> [phone |-> rows[i], dnc |-> FALSE, last |-> "none"]]
  /\ Len(lead') <= MaxRows
  /\ overtaken' = (overtaken \/ Rows # {} \/ Targeting(join[j].read) # Targeting(campaign))
  /\ join' = [join EXCEPT ![j] = Afterwards(join[j])]
  /\ UNCHANGED <<preview, campaign, deleted, runOf, known, owed, wrapUp, edit, resetting, counts, said>>

\* The names of the excluded dispositions the catalog still has.
excludeDispositionNames(c) == c.exclude \ deleted

\* Mutant: what the campaign excludes is not left out.
workableUnlessDnc(row, c) == ~row.dnc

workable(row, c) == ~row.dnc /\ (row.last = "none" \/ row.last \notin excludeDispositionNames(c))

\* The catalog and the leads are read and the run is registered, each number once;
\* without any the agent is told so.
startRun(j) ==
  /\ join[j].at = "starting"
  /\ LET items == {lead[r].phone : r \in {q \in Rows : workable(lead[q], join[j].read)}}
     IN  IF items = {} THEN UNCHANGED <<runOf, known>>
         ELSE runOf' = [runOf EXCEPT ![j] = [live |-> TRUE, items |-> items]] /\ known' = j
  /\ join' = [join EXCEPT ![j] = NoJoin]
  /\ UNCHANGED <<rowVars, owed, wrapUp, edit, resetting, counts, auxVars>>

\* A call of a run; an answered customer reaches an agent.
dials(j, n) ==
  /\ n \in runOf[j].items
  /\ runOf' = [runOf EXCEPT ![j] = [runOf[j] EXCEPT !.items = @ \ {n}]]
  /\ \/ UNCHANGED <<owed, answered>>
     \/ answered < MaxAnswered /\ answered' = answered + 1 /\ owed' = owed \cup {n}
  /\ UNCHANGED <<rowVars, join, known, wrapUp, edit, resetting, edits, auxVars>>

runEnds(j) ==
  /\ runOf[j].live
  /\ runOf' = [runOf EXCEPT ![j] = NoRun]
  /\ UNCHANGED <<rowVars, join, known, owed, wrapUp, edit, resetting, counts, auxVars>>

-----------------------------------------------------------------------------
\* POST call-disposition: the agent's phone may show the number in another form.
dispositionArrives(n, m, d) ==
  /\ wrapUp.at = "idle" /\ n \in owed /\ LineOf[m] = LineOf[n]
  /\ wrapUp' = [at |-> "finding", number |-> m, as |-> d, row |-> 0]
  /\ owed' = owed \ {n}
  /\ UNCHANGED <<rowVars, runVars, edit, resetting, counts, auxVars>>

\* Mutant: the numbers are compared as they are written.
sameCustomerExactly(n, m) == n = m

\* Compared on the trailing digits, to survive +234 and 0 forms.
sameCustomer(n, m) == LineOf[n] = LineOf[m]

\* The first such lead; without one only the call log and the run's item are touched.
findsLead ==
  /\ wrapUp.at = "finding"
  /\ LET hits == {r \in Rows : sameCustomer(lead[r].phone, wrapUp.number)}
     IN  IF hits = {} THEN wrapUp' = Nothing /\ Accepted(LineOf[wrapUp.number], wrapUp.as)
         ELSE wrapUp' = [wrapUp EXCEPT !.at = "writing", !.row = Min(hits)] /\ UNCHANGED said
  /\ UNCHANGED <<rowVars, runVars, owed, edit, resetting, counts, overtaken>>

\* A disposition that is no longer in the catalog means nothing in particular.
leadOutcome(d) == IF d \in deleted THEN "done" ELSE dialerOutcome(d)

\* The update by id, after the catalog was read; it fails if the row is gone.
dispositionCall ==
  /\ wrapUp.at = "writing"
  /\ IF wrapUp.row = 0 THEN UNCHANGED <<lead, said>>
     ELSE /\ lead' = [lead EXCEPT ![wrapUp.row] =
                     [lead[wrapUp.row] EXCEPT !.dnc = (leadOutcome(wrapUp.as) = "dnc"), !.last = wrapUp.as]]
          /\ Accepted(LineOf[wrapUp.number], wrapUp.as)
  /\ wrapUp' = Nothing
  /\ UNCHANGED <<preview, campaign, deleted, runVars, owed, edit, resetting, counts, overtaken>>

-----------------------------------------------------------------------------
\* PATCH /campaigns/:id: the row is read, written, and then compared.
editArrives(patch) ==
  /\ edit.at = "idle" /\ edits < MaxEdits /\ patch # campaign
  /\ edit' = [at |-> "patching", before |-> campaign, patch |-> patch]
  /\ edits' = edits + 1
  /\ UNCHANGED <<rowVars, runVars, owed, wrapUp, resetting, answered, auxVars>>

editWrites ==
  /\ edit.at = "patching"
  /\ campaign' = edit.patch
  /\ edit' = [edit EXCEPT !.at = "checking"]
  /\ UNCHANGED <<preview, deleted, lead, runVars, owed, wrapUp, resetting, counts, auxVars>>

\* Mutant: only the pasted numbers count as a change of the target.
targetingChangedPasted(before, patch) == before.numbers # patch.numbers

targetingChanged(before, patch) == Targeting(before) # Targeting(patch)

\* A new target clears the leads, unless a run is live.
updateCampaign ==
  /\ edit.at = "checking"
  /\ edit' = IF targetingChanged(edit.before, edit.patch) /\ ~runLive THEN [edit EXCEPT !.at = "clearing"] ELSE NoEdit
  /\ overtaken' = (overtaken \/ (Targeting(edit.before) # Targeting(edit.patch) /\ runLive))
  /\ UNCHANGED <<rowVars, runVars, owed, wrapUp, resetting, counts, said>>

\* The rows go; a disposition on its way to one of them will miss it.
clearsLeads ==
  /\ edit.at = "clearing"
  /\ lead' = <<>> /\ edit' = NoEdit
  /\ wrapUp' = [wrapUp EXCEPT !.row = 0]
  /\ said' = Unsaid /\ overtaken' = FALSE
  /\ UNCHANGED <<preview, campaign, deleted, runVars, owed, resetting, counts>>

\* POST reset: refused while a run is live; the update comes later.
resetArrives ==
  /\ ~resetting /\ ~runLive /\ edits < MaxEdits
  /\ resetting' = TRUE /\ edits' = edits + 1
  /\ UNCHANGED <<rowVars, runVars, owed, wrapUp, edit, answered, auxVars>>

resetCampaignProgress ==
  /\ resetting /\ resetting' = FALSE
  /\ lead' = [r \in Rows |-> [lead[r] EXCEPT !.dnc = FALSE, !.last = "none"]]
  /\ said' = Unsaid
  /\ UNCHANGED <<preview, campaign, deleted, runVars, owed, wrapUp, edit, counts, overtaken>>

\* DELETE /dispositions/:id, refused for the system's own.
removeDisposition(d) ==
  /\ d \in Deletable \ deleted
  /\ deleted' = deleted \cup {d}
  /\ UNCHANGED <<preview, campaign, lead, runVars, owed, wrapUp, edit, resetting, counts, auxVars>>

LeadsNext ==
  \/ \E j \in Joins :
       \/ agentJoin(j) \/ leadsExist(j) \/ materializeLeads(j) \/ startRun(j) \/ runEnds(j)
       \/ \E n \in Numbers : dials(j, n)
  \/ \E n, m \in Numbers, d \in Dispositions : dispositionArrives(n, m, d)
  \/ findsLead \/ dispositionCall
  \/ \E patch \in Campaigns : editArrives(patch)
  \/ editWrites \/ updateCampaign \/ clearsLeads \/ resetArrives \/ resetCampaignProgress
  \/ \E d \in Deletable : removeDisposition(d)

LeadsSpec == LeadsInit /\ [][LeadsNext]_leadsVars

-----------------------------------------------------------------------------
\* The campaign's contacts as the list of campaigns counts them: a number that was pasted
\* and is in the group counts twice.
sourceContactsCount(c) == Cardinality(c.numbers) + IF c.grouped THEN Cardinality(Grouped) ELSE 0

\* What the campaign's page lists: its leads, or its source before there are any.
campaignLeads ==
  IF Rows # {} THEN [r \in Rows |-> lead[r].phone]
  ELSE SetToSeq(campaign.numbers) \o SetToSeq(IF campaign.grouped THEN Grouped ELSE {})

\* With no edit under way the leads are the target's, each number once, unless two
\* first requests created them twice, an edit overtook a first request, or the target
\* was changed during a run: those are the only ways.  The page lists no more of them than
\* the campaign is said to have.
LeadsFollowTarget ==
  edit.at = "idle" /\ ~overtaken =>
    /\ \A r \in Rows : lead[r].phone \in ToSet(Source(campaign))
    /\ \A r, q \in Rows : lead[r].phone = lead[q].phone => r = q
    /\ ToSet(campaignLeads) \subseteq ToSet(Source(campaign)) /\ Len(campaignLeads) <= sourceContactsCount(campaign)

\* A run takes no line whose last accepted disposition, in whatever form the agent's
\* phone showed the number, says Do Not Call or is excluded by the campaign, as long as
\* the campaign has one lead for the line and the disposition is still in the catalog.
ExcludedNotPicked ==
  [][\A j \in Joins : runOf'[j].live /\ ~runOf[j].live =>
       \A n \in runOf'[j].items :
         \/ said[LineOf[n]] \in deleted \cup {"none"}
         \/ said[LineOf[n]] \notin join[j].read.exclude /\ dialerOutcome(said[LineOf[n]]) # "dnc"
         \/ \E r, q \in Rows : r # q /\ LineOf[lead[r].phone] = LineOf[n] /\ LineOf[lead[q].phone] = LineOf[n]]_leadsVars
=============================================================================
