----------------------------- MODULE DemoLeads ------------------------------
(***************************************************************************)
(* Campaigns and their leads in the demo workspace (lib/demo/router.ts):   *)
(* handing out the next lead, skipping and disposing of it, duplicating,   *)
(* resetting and deleting its campaign, and what the overview and the      *)
(* Console's pulse say of the same leads.  A handler runs to its end, so   *)
(* an action is a request.                                                 *)
(***************************************************************************)
EXTENDS Integers, FiniteSets, FiniteSetsExt

CONSTANTS
  LastCampaign, \* campaigns are 1..LastCampaign, in the order of their creation
  Seeds,        \* those of the seed are 1..Seeds
  LeadCount,    \* a seeded campaign has leads 1..LeadCount, in this order
  Endings,     \* names of dispositions
  MaxTries      \* bound on the attempts of a lead

ASSUME DemoLeadsAssumption ==
  /\ LastCampaign \in Nat /\ Seeds \in 1..LastCampaign /\ LeadCount \in Nat \ {0} /\ MaxTries \in Nat \ {0}
  /\ "none" \notin Endings

VARIABLES
  born,     \* campaigns created so far
  present,  \* those not deleted
  demoLeads, \* the leads of each campaign: they outlive it
  inCampaign, \* joined.campaignId, 0 for none
  told      \* auxiliary: leads disposed of by number

demoLeadsVars == <<born, present, demoLeads, inCampaign, told>>

LeadNos   == 1..LeadCount
Results   == Endings \cup {"none", "Skipped"}
NewLead     == [status |-> "open", disposition |-> "none", attempts |-> 0]
Worked(d) == [status |-> "done", disposition |-> d, attempts |-> 1]

DemoLeadsTypeOK ==
  /\ born \in Seeds..LastCampaign /\ present \subseteq 1..born
  /\ demoLeads \in [1..born -> [LeadNos -> [status : {"open", "done"}, disposition : Results, attempts : 0..MaxTries]]]
  /\ inCampaign \in 0..born /\ told \subseteq (1..born) \X LeadNos

\* The seed has worked the first lead of each campaign.
DemoLeadsInit ==
  /\ born = Seeds /\ present = 1..Seeds
  /\ \E d \in Endings : demoLeads = [c \in 1..Seeds |-> [i \in LeadNos |-> IF i = 1 THEN Worked(d) ELSE NewLead]]
  /\ inCampaign = 0 /\ told = {}

-----------------------------------------------------------------------------
OpenLeads(c) == {i \in LeadNos : demoLeads[c][i].status = "open"}
LeadsOnly    == UNCHANGED <<born, present, inCampaign>>

\* The next open lead, 0 when there is none.
nextLead(c) == IF OpenLeads(c) = {} THEN 0 ELSE Min(OpenLeads(c))

\* The Console works the lead it was handed, or one another tab has worked since.
skip(c, i) ==
  /\ demoLeads' = [demoLeads EXCEPT ![c][i] = [demoLeads[c][i] EXCEPT !.status = "done", !.disposition = "Skipped"]]
  /\ told' = told \ {<<c, i>>} /\ LeadsOnly

dispose(c, i, d) ==
  /\ demoLeads[c][i].attempts < MaxTries
  /\ demoLeads' = [demoLeads EXCEPT ![c][i] = [status |-> "done", disposition |-> d, attempts |-> demoLeads[c][i].attempts + 1]]
  /\ told' = told \ {<<c, i>>} /\ LeadsOnly

\* By number: the first lead of any campaign that has it, deleted ones included.
disposeByNumber(i, d) ==
  /\ demoLeads' = [demoLeads EXCEPT ![1][i] = [demoLeads[1][i] EXCEPT !.disposition = d]]
  /\ told' = told \cup {<<1, i>>} /\ LeadsOnly

\* Mutant: the copies keep how their originals ended.
copiedAsIs(l) == [l EXCEPT !.status = "open", !.disposition = "none"]

\* What duplicating and resetting make of a lead.
reopened(l) == [l EXCEPT !.status = "open", !.disposition = "none", !.attempts = 0]

Reopened(c) == [i \in LeadNos |-> reopened(demoLeads[c][i])]

duplicate(c) ==
  /\ born < LastCampaign /\ c \in present
  /\ born' = born + 1 /\ present' = present \cup {born'}
  /\ demoLeads' = [b \in 1..born' |-> IF b = born' THEN Reopened(c) ELSE demoLeads[b]]
  /\ UNCHANGED <<inCampaign, told>>

reset(c) ==
  /\ demoLeads' = [demoLeads EXCEPT ![c] = Reopened(c)]
  /\ told' = told \ ({c} \X LeadNos) /\ LeadsOnly

deleteCampaign(c) ==
  /\ c \in present /\ present' = present \ {c}
  /\ UNCHANGED <<born, demoLeads, inCampaign, told>>

joinRun(c) == c \in present /\ inCampaign' = c /\ UNCHANGED <<born, present, demoLeads, told>>
leaveRun   == inCampaign # 0 /\ inCampaign' = 0 /\ UNCHANGED <<born, present, demoLeads, told>>

DemoLeadsNext ==
  \/ \E c \in 1..born :
       \/ duplicate(c) \/ reset(c) \/ deleteCampaign(c) \/ joinRun(c)
       \/ \E i \in LeadNos : skip(c, i) \/ \E d \in Endings : dispose(c, i, d)
  \/ leaveRun
  \/ \E i \in LeadNos, d \in Endings : disposeByNumber(i, d)

-----------------------------------------------------------------------------
(* What the pages show of a campaign's leads.                              *)

doneLeads(c) == LeadNos \ OpenLeads(c)
pulseOf(c)     == [done |-> Cardinality(doneLeads(c)), remaining |-> LeadCount - Cardinality(doneLeads(c))]
\* Math.round of the share of done leads, in percent.
contactRate(c) == (200 * Cardinality(doneLeads(c)) + LeadCount) \div (2 * LeadCount)

\* The overview, the pulse and the next lead agree on what is left of a campaign
\* (router.ts:102-116, 453-467, 618-626); a lead waits unworked, with no attempt
\* and no outcome of an earlier round, or of the campaign it was copied from,
\* unless the outcome was told by number (router.ts:629-673).
DemoLeadsHold ==
  \A c \in 1..born :
    /\ nextLead(c) = 0 <=> pulseOf(c).remaining = 0
    /\ nextLead(c) # 0 => \A i \in 1..(nextLead(c) - 1) : demoLeads[c][i].status = "done"
    /\ nextLead(c) = 0 => contactRate(c) = 100
    /\ \A i \in OpenLeads(c) :
         /\ demoLeads[c][i].attempts = 0
         /\ demoLeads[c][i].disposition # "none" => <<c, i>> \in told
    /\ \A i \in doneLeads(c) : demoLeads[c][i].disposition # "none"
=============================================================================
