----------------------------- MODULE CallConsole -----------------------------
(***************************************************************************)
(* What an agent's Call Console knows of the server and of the customer    *)
(* on the line: the page (agent/page.tsx), which joins and leaves          *)
(* auto-dial campaigns, restores and polls its participation, and the      *)
(* part of CallProvider.tsx above it that keeps a preview session and the  *)
(* customer panel.  The provider outlives the page; a reload ends both.    *)
(* A request is read by the server once and answered later, in any order;  *)
(* answers of a page that is gone change nothing any more.                 *)
(*                                                                         *)
(* Abstracted: the phone is Softphone's, here a call only puts a customer  *)
(* on the panel; the leads of a campaign come in order, see PreviewLeads   *)
(* for how they are reserved; of a contact and of past calls the panel     *)
(* keeps whose they are.  Clicks, calls, ends of runs and failures are     *)
(* bounded by MaxMoves together.                                          *)
(***************************************************************************)
EXTENDS Integers, FiniteSets

CONSTANTS
  PreviewIds, AutoIds,  \* campaigns of either kind
  MaxLeads,             \* the leads of a preview campaign
  MaxMoves,
  Caller,               \* someone who is no lead
  Nobody

VARIABLES
  roster, dealt, held,      \* the server: campaigns the agent is played into, leads handed out, leads reserved
  onPage, joinedId, active, \* the page; the campaign calls are tagged with
  session, banner, onScreen, loading, saved,  \* preview: campaignRef, campaign, leadRef, previewLoading, localStorage
  peer, contact, past, called,            \* the panel: whose call, whose contact, whose history; a call to wrap up
  asked,                    \* requests under way
  moves,
  crossed,                  \* auxiliary: the page's requests overlapped, failed or lost their page
  given,                    \* auxiliary: leads whose reservation was given up, or got in an overlap
  mixed                     \* auxiliary: notes were saved for somebody no longer on the panel

serverVars  == <<roster, dealt, held>>
pageOnly    == <<onPage, joinedId, active>>
previewVars == <<session, banner, onScreen, loading, saved>>
panelVars   == <<peer, contact, past, called>>
consoleAux     == <<crossed, given, mixed>>
consoleVars == <<serverVars, pageOnly, previewVars, panelVars, asked, moves, consoleAux>>

Leads3 == PreviewIds \X (1..MaxLeads)
People == Leads3 \cup {Caller}

ASSUME CallConsoleAssumption ==
  /\ MaxLeads \in Nat /\ MaxMoves \in Nat /\ PreviewIds \cap AutoIds = {}
  /\ Nobody \notin PreviewIds \cup AutoIds \cup People

OfPage == {"joined", "join", "leave", "poll"}
Requests3 == [is : OfPage \cup {"next", "skip", "dispose", "lookup", "save"}, of : PreviewIds \cup AutoIds \cup People \cup {Nobody},
              for : PreviewIds \cup {Nobody}, mine : BOOLEAN, read : BOOLEAN, ans : AutoIds \cup Leads3 \cup {Nobody}]

ConsoleTypeOK ==
  /\ roster \subseteq AutoIds /\ dealt \in [PreviewIds -> 0..MaxLeads] /\ held \cup given \subseteq Leads3
  /\ {onPage, loading, called, crossed, mixed} \subseteq BOOLEAN /\ {joinedId, active} \subseteq AutoIds \cup {Nobody}
  /\ {session, banner, saved} \subseteq PreviewIds \cup {Nobody} /\ onScreen \in Leads3 \cup {Nobody}
  /\ {peer, contact, past} \subseteq People \cup {Nobody}
  /\ asked \subseteq Requests3 /\ moves \in 0..MaxMoves

Request(is, of, for) == [is |-> is, of |-> of, for |-> for, mine |-> TRUE, read |-> FALSE, ans |-> Nobody]
Awaiting(kinds) == {q \in asked : q.is \in kinds /\ q.mine}
Move == moves < MaxMoves /\ moves' = moves + 1

\* The console opens, and asks what the server has the agent on.
ConsoleInit ==
  /\ roster \in {{}} \cup {{c} : c \in AutoIds} /\ dealt = [c \in PreviewIds |-> 0] /\ held = {}
  /\ onPage = TRUE /\ joinedId = Nobody /\ active = Nobody
  /\ session = Nobody /\ banner = Nobody /\ onScreen = Nobody /\ loading = FALSE /\ saved = Nobody
  /\ peer = Nobody /\ contact = Nobody /\ past = Nobody /\ called = FALSE
  /\ asked = {Request("joined", Nobody, Nobody)}
  /\ moves = 0 /\ crossed = FALSE /\ given = {} /\ mixed = FALSE

-----------------------------------------------------------------------------
(* The server *)

Handles(q) ==
  /\ q \in asked /\ ~q.read
  /\ LET deals == q.is = "next" /\ dealt[q.of] < MaxLeads
         dealing == <<q.of, dealt[q.of] + 1>>
         ans == CASE deals -> dealing
                  [] q.is = "joined" /\ roster # {} -> CHOOSE c \in roster : TRUE
                  [] q.is = "poll" /\ q.of \in roster -> q.of
                  [] OTHER -> Nobody
     IN  /\ asked' = (asked \ {q}) \cup {[q EXCEPT !.read = TRUE, !.ans = ans]}
         /\ dealt' = IF deals THEN [dealt EXCEPT ![q.of] = @ + 1] ELSE dealt
         /\ held' = IF deals THEN held \cup {dealing}
                    ELSE IF q.is \in {"skip", "dispose"} THEN held \ {q.of} ELSE held
         /\ roster' = CASE q.is = "join" -> roster \cup {q.of} [] q.is = "leave" -> roster \ {q.of} [] OTHER -> roster
  /\ UNCHANGED <<pageOnly, previewVars, panelVars, moves, consoleAux>>

\* A campaign finishes or is stopped.
RunEnds(c) ==
  /\ Move /\ c \in roster /\ roster' = roster \ {c}
  /\ UNCHANGED <<dealt, held, pageOnly, previewVars, panelVars, asked, consoleAux>>

-----------------------------------------------------------------------------
(* The page *)

\* Answers to a page that is gone find nobody.
Gone == {IF q.is \in OfPage THEN [q EXCEPT !.mine = FALSE] ELSE q : q \in asked}

\* The mount effects: participation is asked for, and the tag set from a page that does not
\* know it yet.
Mounts ==
  /\ Move /\ ~onPage /\ onPage' = TRUE
  /\ joinedId' = Nobody /\ active' = Nobody
  /\ asked' = asked \cup {Request("joined", Nobody, Nobody)}
  /\ UNCHANGED <<serverVars, previewVars, panelVars, consoleAux>>

Leaves ==   \* for another page
  /\ Move /\ onPage /\ onPage' = FALSE
  /\ asked' = Gone /\ joinedId' = Nobody
  /\ crossed' = (crossed \/ \E q \in asked : q.is \in {"join", "leave"})
  /\ UNCHANGED <<serverVars, active, previewVars, panelVars, given, mixed>>

Busy == Awaiting({"join", "leave"}) # {}
\* The picker shows without a campaign and between calls.
onPlay(c) ==
  /\ Move /\ onPage /\ banner = Nobody /\ joinedId = Nobody /\ ~Busy
  /\ c \in AutoIds /\ asked' = asked \cup {Request("join", c, Nobody)}
  /\ crossed' = (crossed \/ Awaiting(OfPage) # {} \/ roster # {})
  /\ UNCHANGED <<serverVars, pageOnly, previewVars, panelVars, given, mixed>>

takeBreak ==
  /\ Move /\ onPage /\ joinedId # Nobody /\ ~Busy
  /\ asked' = asked \cup {Request("leave", joinedId, Nobody)}
  /\ crossed' = (crossed \/ Awaiting(OfPage) # {})
  /\ UNCHANGED <<serverVars, pageOnly, previewVars, panelVars, given, mixed>>

PollAsks ==
  /\ onPage /\ joinedId # Nobody /\ Awaiting({"poll"}) = {}
  /\ asked' = asked \cup {Request("poll", joinedId, Nobody)}
  /\ crossed' = (crossed \/ Busy)
  /\ UNCHANGED <<serverVars, pageOnly, previewVars, panelVars, moves, given, mixed>>

\* Mutant: the tag is left as it is.
JoinedTo(c) == joinedId' = c /\ UNCHANGED active

\* joinedId is set, and the effect on it tags the calls.
Joined(c) == joinedId' = c /\ active' = c

\* Each answer of the page's sets joinedId or leaves it.
PageAnswered(q) ==
  /\ q \in asked /\ q.read /\ q.is \in OfPage /\ asked' = asked \ {q}
  /\ LET to == CASE q.is = "joined" /\ q.ans # Nobody -> q.ans
                 [] q.is = "join" -> q.of
                 [] q.is = "leave" \/ (q.is = "poll" /\ q.ans = Nobody) -> Nobody
                 [] OTHER -> joinedId
     IN  IF q.mine THEN Joined(to) ELSE UNCHANGED <<joinedId, active>>
  /\ UNCHANGED <<serverVars, onPage, previewVars, panelVars, moves, consoleAux>>

-----------------------------------------------------------------------------
(* The preview session *)

\* A customer comes on the panel with what the answer brought along, or nobody does.
popLead(who) == peer' = who /\ contact' = who /\ past' = (IF past = who THEN past ELSE Nobody)
clearScreenPop == peer' = Nobody /\ contact' = Nobody /\ past' = Nobody

\* nextLead up to its await; the lead on screen stays meanwhile.
Nexting(c) ==
  /\ loading' = TRUE /\ called' = FALSE
  /\ given' = given \cup IF Awaiting({"next", "skip", "dispose"}) = {} THEN {} ELSE Leads3

startPreview(c) ==
  /\ Move /\ onPage /\ banner = Nobody /\ joinedId = Nobody /\ ~Busy
  /\ session' = c /\ saved' = c
  /\ Nexting(c) /\ asked' = asked \cup {Request("next", c, Nobody)}
  /\ UNCHANGED <<serverVars, pageOnly, banner, onScreen, peer, contact, past, crossed, mixed>>

ToSession(c) == session' = c

\* The answer takes the session to its campaign, to a lead or to its end.
NextAnswered(q) ==
  /\ q \in asked /\ q.read /\ q.is = "next"
  /\ ToSession(q.of) /\ banner' = q.of /\ onScreen' = q.ans /\ loading' = FALSE
  /\ IF q.ans = Nobody
       THEN clearScreenPop /\ asked' = asked \ {q}
       ELSE popLead(q.ans) /\ asked' = (asked \ {q}) \cup {Request("lookup", q.ans, Nobody)}
  /\ UNCHANGED <<serverVars, pageOnly, saved, called, moves, consoleAux>>

\* POST skip, or the disposition of a call that was made; either goes on to the next lead.
Advances(is) ==
  /\ Move /\ session # Nobody /\ onScreen # Nobody /\ ~loading
  /\ is = "dispose" => called
  /\ asked' = asked \cup {Request(is, onScreen, session)}
  /\ given' = given \cup IF Awaiting({"next", "skip", "dispose"}) = {} THEN {} ELSE Leads3
  /\ UNCHANGED <<serverVars, pageOnly, previewVars, panelVars, crossed, mixed>>

Advanced(q) ==
  /\ q \in asked /\ q.read /\ q.is \in {"skip", "dispose"}
  /\ asked' = (asked \ {q}) \cup {Request("next", q.for, Nobody)}
  /\ loading' = TRUE /\ called' = FALSE
  /\ UNCHANGED <<serverVars, pageOnly, session, banner, onScreen, saved, peer, contact, past, moves, consoleAux>>

endPreview ==
  /\ Move /\ onPage /\ banner # Nobody
  /\ session' = Nobody /\ banner' = Nobody /\ onScreen' = Nobody /\ saved' = Nobody
  /\ called' = FALSE /\ clearScreenPop
  /\ given' = given \cup IF Awaiting({"next", "skip", "dispose"}) = {} THEN held ELSE Leads3
  /\ UNCHANGED <<serverVars, pageOnly, loading, asked, crossed, mixed>>

\* A reload loses what is under way; the session saved in the browser starts again, the
\* participation is asked for.
Reloads ==
  /\ Move /\ onPage
  /\ joinedId' = Nobody /\ active' = Nobody
  /\ session' = saved /\ banner' = Nobody /\ onScreen' = Nobody /\ loading' = (saved # Nobody)
  /\ clearScreenPop /\ called' = FALSE
  /\ asked' = {Request("joined", Nobody, Nobody)}
              \cup IF saved = Nobody THEN {} ELSE {Request("next", saved, Nobody)}
  /\ given' = given \cup held \cup IF Awaiting({"next", "skip", "dispose"}) = {} THEN {} ELSE Leads3
  /\ UNCHANGED <<serverVars, onPage, saved, crossed, mixed>>

-----------------------------------------------------------------------------
(* The customer panel *)

\* A call to or from someone: the panel is emptied and looked up again.
CallBegins(who) ==
  /\ Move
  /\ who = onScreen \/ who = Caller
  /\ peer' = who /\ contact' = Nobody /\ past' = Nobody /\ called' = TRUE
  /\ asked' = asked \cup {Request("lookup", who, Nobody)}
  /\ UNCHANGED <<serverVars, pageOnly, previewVars, consoleAux>>

\* The answers of loadCustomer and popLead's history count for whom they are about.
loadCustomer(q) == past' = (IF peer = q.of THEN q.of ELSE past) /\ contact' = (IF peer = q.of THEN q.of ELSE contact)

LookupAnswered(q) ==
  /\ q \in asked /\ q.read /\ q.is = "lookup" /\ asked' = asked \ {q}
  /\ loadCustomer(q)
  /\ UNCHANGED <<serverVars, pageOnly, previewVars, peer, called, moves, consoleAux>>

\* The notes go to the contact on the panel, or make one of the number; the answer goes on
\* the panel, whoever is there by now.
saveCustomerNotes ==
  /\ Move /\ onPage /\ peer # Nobody
  /\ asked' = asked \cup {Request("save", IF contact # Nobody THEN contact ELSE peer, Nobody)}
  /\ UNCHANGED <<serverVars, pageOnly, previewVars, panelVars, consoleAux>>

NotesSaved(q) ==
  /\ q \in asked /\ q.read /\ q.is = "save" /\ asked' = asked \ {q}
  /\ contact' = q.of /\ mixed' = (mixed \/ peer # q.of)
  /\ UNCHANGED <<serverVars, pageOnly, previewVars, peer, past, called, moves, crossed, given>>

-----------------------------------------------------------------------------
\* A request fails: after a skip or a disposition the next lead is fetched all the same.
Fails(q) ==
  /\ Move /\ q \in asked /\ ~q.read
  /\ asked' = (asked \ {q}) \cup IF q.is \in {"skip", "dispose"} THEN {Request("next", q.for, Nobody)} ELSE {}
  /\ loading' = (q.is \in {"skip", "dispose"} \/ (loading /\ q.is # "next"))
  /\ called' = (called /\ q.is \notin {"skip", "dispose"})
  /\ crossed' = (crossed \/ q.is \in OfPage)
  /\ given' = given \cup IF q.is \in {"skip", "dispose"} THEN {q.of} ELSE {}
  /\ UNCHANGED <<serverVars, pageOnly, session, banner, onScreen, saved, peer, contact, past, mixed>>

ConsoleNext ==
  \/ \E q \in asked : \/ Handles(q) \/ Fails(q) \/ PageAnswered(q) \/ NextAnswered(q)
                      \/ Advanced(q) \/ LookupAnswered(q) \/ NotesSaved(q)
  \/ \E c \in AutoIds : RunEnds(c) \/ onPlay(c)
  \/ Mounts \/ Leaves \/ takeBreak \/ PollAsks
  \/ \E c \in PreviewIds : startPreview(c)
  \/ \E is \in {"skip", "dispose"} : Advances(is)
  \/ endPreview \/ Reloads \/ saveCustomerNotes
  \/ \E who \in People : CallBegins(who)

ConsoleSpec == ConsoleInit /\ [][ConsoleNext]_consoleVars

-----------------------------------------------------------------------------
\* A call is logged with the campaign, lead, number and contact the console holds.  These
\* belong together in whatever order answers come: the lead is of the session's campaign,
\* the number is the lead's unless someone else is on the line, contact and history are the
\* number's, unless notes were saved for somebody who had gone by.
PanelIsOfItsCustomer ==
  /\ onScreen # Nobody => session = onScreen[1] /\ banner = onScreen[1] /\ peer \in {onScreen, Caller}
  /\ past \in {peer, Nobody} /\ (~mixed => contact \in {peer, Nobody})

\* Once the page has its answers it shows the agent on the campaign the server has them on,
\* and tags calls with it, until the poll hears of the run's end; and of a preview campaign
\* no lead is held but the one on screen.  Excused are requests that overlapped or failed,
\* and leads that were left behind.
ConsoleIsTheServers ==
  /\ onPage => active = joinedId
  /\ onPage /\ ~crossed /\ Awaiting(OfPage) = {} => roster \subseteq {joinedId}
  /\ Awaiting({"next", "skip", "dispose"}) = {} => held \ given \subseteq {onScreen}

\* The Console tells of the customer on the line and of the campaign the agent is on.
ConsoleIsTrue == PanelIsOfItsCustomer /\ ConsoleIsTheServers

\* CallProvider.tsx:341 ends the preview.  Not so with a lead on its way, whose answer
\* begins it again.
PreviewEnds == [][session = Nobody /\ session' # Nobody => moves' # moves]_consoleVars
=============================================================================
