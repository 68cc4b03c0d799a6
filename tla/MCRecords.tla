----------------------------- MODULE MCRecords ------------------------------
(***************************************************************************)
(* Small instances of what a company keeps on record, and of the pages     *)
(* that show it: the leads of a campaign, the records of its calls, the    *)
(* manager's pages of campaigns and of contacts, the agent's Console and   *)
(* the boards of agents.                                                   *)
(* No action of one reads a variable of another: the one chosen at the     *)
(* start moves, the others stay as they begin.                             *)
(***************************************************************************)
EXTENDS CampaignLeads, CallRecords, CampaignsPage, CallConsole, Contacts, AgentBoards

CONSTANTS n1, n2, n3, d1, d2

MCLineOf      == (n1 :> n1) @@ (n2 :> n1) @@ (n3 :> n3)
MCPasted      == {{n1}}
MCExcludes    == {{d1}}
MCCategory    == (d1 :> "success") @@ (d2 :> "dnc")

\* Nothing tells one of the contacts page's handlers from another.
Renamings == Permutations(Handlers)

VARIABLE part   \* the component that moves

AllVars == <<part, leadsVars, recordsVars, pageVars, consoleVars, contactsVars, boardsVars>>

\* While another component moves, the leads begin with one campaign and the pages
\* without a campaign.
AllInit ==
  /\ part \in {"leads", "records", "campaigns", "agent", "contacts", "boards"}
  /\ LeadsInit /\ RecordsInit /\ PageInit /\ ConsoleInit /\ ContactsInit /\ BoardsInit
  /\ part # "leads" => ~preview /\ campaign = Blank /\ known = CHOOSE j \in Joins : TRUE
  /\ part # "campaigns" => pendingEdit = None
  /\ part # "boards" => configured
  /\ part # "agent" => roster = {}

AllNext ==
  \/ /\ part = "leads" /\ LeadsNext
     /\ UNCHANGED <<part, recordsVars, pageVars, consoleVars, contactsVars, boardsVars>>
  \/ /\ part = "records" /\ RecordsNext
     /\ UNCHANGED <<part, leadsVars, pageVars, consoleVars, contactsVars, boardsVars>>
  \/ /\ part = "campaigns" /\ PageNext
     /\ UNCHANGED <<part, leadsVars, recordsVars, consoleVars, contactsVars, boardsVars>>
  \/ /\ part = "agent" /\ ConsoleNext
     /\ UNCHANGED <<part, leadsVars, recordsVars, pageVars, contactsVars, boardsVars>>
  \/ /\ part = "contacts" /\ ContactsNext
     /\ UNCHANGED <<part, leadsVars, recordsVars, pageVars, consoleVars, boardsVars>>
  \/ /\ part = "boards" /\ BoardsNext
     /\ UNCHANGED <<part, leadsVars, recordsVars, pageVars, consoleVars, contactsVars>>

AllSpec == AllInit /\ [][AllNext]_AllVars

\* Only what moves can leave its type.
AllTypeOK ==
  /\ part = "leads" => LeadsTypeOK
  /\ part = "records" => RecordsTypeOK
  /\ part = "campaigns" => PageTypeOK
  /\ part = "agent" => ConsoleTypeOK
  /\ part = "contacts" => ContactsTypeOK
  /\ part = "boards" => BoardsTypeOK
=============================================================================
