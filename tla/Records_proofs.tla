--------------------------- MODULE Records_proofs ---------------------------
(***************************************************************************)
(* Five parts whose invariants hold for any instance: the agent's Console, *)
(* the boards that show an agent, the manager's page of campaigns, the     *)
(* leads of a campaign, and the contacts.  They share no variable.         *)
(*                                                                         *)
(* The Console.  ConsoleIsTrue speaks of moments without a request, so the *)
(* invariant says what each request under way carries: as long as nothing  *)
(* has crossed, one request of the page's at most, and what the server has *)
(* the agent on is what its answer will show; and of a preview campaign, as*)
(* long as not every lead is given up, one request at most that takes the  *)
(* session on, and no lead held but the one it is about.                   *)
(***************************************************************************)
EXTENDS MCRecords, FiniteSetTheorems, SequenceTheorems, TLAPS

\* What requests are about, by kind, and what their answers can be.
Fits(q) ==
  /\ q.is \in {"join", "leave", "poll"} => q.of \in AutoIds
  /\ q.is \in {"joined", "poll"} => q.ans \in AutoIds \cup {Nobody}
  /\ q.is = "next" => q.of \in PreviewIds /\ (q.ans # Nobody => q.ans \in Leads3 /\ q.ans[1] = q.of)
  /\ q.is \in {"skip", "dispose"} => q.of \in Leads3 /\ q.for \in PreviewIds
  /\ q.is \in {"lookup", "save"} => q.of \in People
  /\ q.is \notin OfPage => q.mine

RequestsFit ==
  /\ \A q \in asked : Fits(q)
  /\ \A q \in Awaiting(OfPage) : onPage

\* Without a preview campaign there is no lead on screen, away from the page no participation.
ScreenFits ==
  /\ PanelIsOfItsCustomer
  /\ banner = Nobody => onScreen = Nobody
  /\ ~onPage => joinedId = Nobody
  /\ onPage => active = joinedId

\* What the server has the agent on, while the page has the request q under way.
Follows(q) ==
  /\ q.is = "joined" => joinedId = Nobody /\ (q.read => roster \subseteq {q.ans})
  /\ q.is = "join" => joinedId = Nobody /\ roster \subseteq (IF q.read THEN {q.of} ELSE {})
  /\ q.is = "leave" => joinedId # Nobody /\ q.of = joinedId /\ roster \subseteq (IF q.read THEN {} ELSE {joinedId})
  /\ q.is = "poll" =>
       /\ joinedId # Nobody /\ q.of = joinedId
       /\ IF q.read THEN roster \subseteq {q.ans} /\ q.ans \in {joinedId, Nobody} ELSE roster \subseteq {joinedId}

PageInv ==
  ~crossed =>
    /\ \A c, d \in roster : c = d
    /\ \A q \in asked : q.is \in {"join", "leave"} => q.mine
    /\ \A q, r \in Awaiting(OfPage) : q = r
    /\ \A q \in Awaiting(OfPage) : Follows(q)
    /\ onPage /\ Awaiting(OfPage) = {} => roster \subseteq {joinedId}

\* Requests that take the preview session on, and the leads held meanwhile.
Onward  == Awaiting({"next", "skip", "dispose"})
HoldsOnlyIts(q) ==
  held \ given \subseteq (IF q.is = "next" THEN IF q.read THEN {q.ans} ELSE {}
                          ELSE IF q.read THEN {} ELSE {q.of})

LeadInv ==
  \/ Leads3 \subseteq given
  \/ /\ \A q, r \in Onward : q = r
     /\ \A q \in Onward : HoldsOnlyIts(q)
     /\ Onward = {} => held \ given \subseteq {onScreen}

ConsoleInv == ConsoleTypeOK /\ RequestsFit /\ ScreenFits /\ PageInv /\ LeadInv

-----------------------------------------------------------------------------
\* A request for something, as it is made.
Made(p, is, of, for) ==
  /\ p \in Requests3 /\ p.is = is /\ p.of = of /\ p.for = for
  /\ p.mine = TRUE /\ p.read = FALSE /\ p.ans = Nobody

LEMMA RequestMade ==
  \A is \in OfPage \cup {"next", "skip", "dispose", "lookup", "save"} :
    \A of \in PreviewIds \cup AutoIds \cup People \cup {Nobody} : \A for \in PreviewIds \cup {Nobody} :
      Made(Request(is, of, for), is, of, for)
BY DEF Request, Requests3, Made

LEMMA RequestsFitting ==
  /\ \A c \in AutoIds : \A is \in {"join", "leave", "poll"} :
       Made(Request(is, c, Nobody), is, c, Nobody) /\ Fits(Request(is, c, Nobody))
  /\ Made(Request("joined", Nobody, Nobody), "joined", Nobody, Nobody) /\ Fits(Request("joined", Nobody, Nobody))
  /\ \A c \in PreviewIds : Made(Request("next", c, Nobody), "next", c, Nobody) /\ Fits(Request("next", c, Nobody))
  /\ \A c \in PreviewIds : \A x \in Leads3 : \A is \in {"skip", "dispose"} :
       Made(Request(is, x, c), is, x, c) /\ Fits(Request(is, x, c))
  /\ \A who \in People : \A is \in {"lookup", "save"} :
       Made(Request(is, who, Nobody), is, who, Nobody) /\ Fits(Request(is, who, Nobody))
<1>1. Leads3 \subseteq People
  BY DEF People
<1>2. \A is \in OfPage \cup {"next", "skip", "dispose", "lookup", "save"} :
        \A of \in PreviewIds \cup AutoIds \cup People \cup {Nobody} : \A for \in PreviewIds \cup {Nobody} :
          Made(Request(is, of, for), is, of, for)
  BY RequestMade
<1>3. \A p, is, of, for :
        Made(p, is, of, for) /\ (is \in {"join", "leave", "poll"} => of \in AutoIds)
          /\ (is = "next" => of \in PreviewIds) /\ (is \in {"skip", "dispose"} => of \in Leads3 /\ for \in PreviewIds)
          /\ (is \in {"lookup", "save"} => of \in People)
        => Fits(p)
  BY DEF Made, Fits
<1>4. QED
  BY <1>1, <1>2, <1>3 DEF OfPage

\* What the server does with a request.
LEMMA HandlesEffect ==
  ASSUME ConsoleTypeOK, RequestsFit, NEW q \in asked, Handles(q)
  PROVE  \E r \in Requests3 :
           /\ asked' = (asked \ {q}) \cup {r}
           /\ r.is = q.is /\ r.of = q.of /\ r.for = q.for /\ r.mine = q.mine /\ r.read = TRUE
           /\ q.is = "next" => \/ r.ans = Nobody /\ held' = held
                               \/ r.ans \in Leads3 /\ r.ans[1] = q.of /\ held' = held \cup {r.ans}
           /\ q.is \in {"skip", "dispose"} => held' = held \ {q.of}
           /\ q.is \notin {"next", "skip", "dispose"} => held' = held
           /\ q.is = "joined" => (roster = {} /\ r.ans = Nobody) \/ r.ans \in roster
           /\ q.is = "poll" => r.ans = IF q.of \in roster THEN q.of ELSE Nobody
           /\ roster' = IF q.is = "join" THEN roster \cup {q.of}
                        ELSE IF q.is = "leave" THEN roster \ {q.of} ELSE roster
           /\ dealt' \in [PreviewIds -> 0..MaxLeads]
<1> DEFINE deals   == q.is = "next" /\ dealt[q.of] < MaxLeads
           dealing == <<q.of, dealt[q.of] + 1>>
           ans     == CASE deals -> dealing
                        [] q.is = "joined" /\ roster # {} -> CHOOSE c \in roster : TRUE
                        [] q.is = "poll" /\ q.of \in roster -> q.of
                        [] OTHER -> Nobody
           r       == [q EXCEPT !.read = TRUE, !.ans = ans]
<1>1. /\ asked' = (asked \ {q}) \cup {r}
      /\ dealt' = IF deals THEN [dealt EXCEPT ![q.of] = @ + 1] ELSE dealt
      /\ held' = IF deals THEN held \cup {dealing}
                 ELSE IF q.is \in {"skip", "dispose"} THEN held \ {q.of} ELSE held
      /\ roster' = CASE q.is = "join" -> roster \cup {q.of} [] q.is = "leave" -> roster \ {q.of} [] OTHER -> roster
  BY DEF Handles
<1>2. q \in Requests3 /\ roster \subseteq AutoIds /\ dealt \in [PreviewIds -> 0..MaxLeads]
  BY DEF ConsoleTypeOK
<1>3. deals => dealing \in Leads3 /\ dealing[1] = q.of /\ q.of \in PreviewIds
  BY <1>2, CallConsoleAssumption DEF RequestsFit, Fits, Leads3
<1>4. roster # {} => (CHOOSE c \in roster : TRUE) \in roster
  OBVIOUS
<1>5. /\ deals => ans = dealing
      /\ q.is = "next" /\ ~deals => ans = Nobody
      /\ q.is = "joined" => (roster = {} /\ ans = Nobody) \/ ans \in roster
      /\ q.is = "poll" => ans = IF q.of \in roster THEN q.of ELSE Nobody
      /\ q.is \notin {"next", "joined", "poll"} => ans = Nobody
  BY <1>4
<1> HIDE DEF ans
<1>6. ans \in AutoIds \cup Leads3 \cup {Nobody}
  BY <1>2, <1>3, <1>5
<1>7. r \in Requests3 /\ r.is = q.is /\ r.of = q.of /\ r.for = q.for /\ r.mine = q.mine /\ r.read = TRUE /\ r.ans = ans
  BY <1>2, <1>6 DEF Requests3
<1>8. dealt' \in [PreviewIds -> 0..MaxLeads]
  <2>1. CASE deals
    <3>1. dealt[q.of] + 1 \in 0..MaxLeads
      BY <1>2, <1>3, <2>1, CallConsoleAssumption
    <3>2. QED
      BY <1>1, <1>2, <2>1, <3>1
  <2>2. CASE ~deals
    BY <1>1, <1>2, <2>2
  <2>3. QED
    BY <2>1, <2>2
<1> HIDE DEF r
<1>9. roster' = IF q.is = "join" THEN roster \cup {q.of} ELSE IF q.is = "leave" THEN roster \ {q.of} ELSE roster
  BY <1>1
<1>10. QED
  BY <1>1, <1>3, <1>5, <1>7, <1>8, <1>9

-----------------------------------------------------------------------------
(* Types, and what requests are about.                                     *)

\* Requests that are new fit, those there before still do.
LEMMA AskedFits ==
  ASSUME asked \subseteq Requests3, \A q \in asked : Fits(q), NEW S \in SUBSET Requests3, \A q \in S : Fits(q),
         asked' \subseteq asked \cup S
  PROVE  asked' \subseteq Requests3 /\ \A q \in asked' : Fits(q)
OBVIOUS

\* Requests stay the page's while it is there.
LEMMA PageStays ==
  ASSUME RequestsFit, onPage' = onPage,
         \A q \in asked' : q.is \in OfPage /\ q.mine =>
            onPage \/ \E p \in asked : p.is \in OfPage /\ p.mine
  PROVE  (\A q \in Awaiting(OfPage) : onPage)'
BY DEF RequestsFit, Awaiting

LEMMA ServerTypes ==
  ASSUME ConsoleTypeOK, RequestsFit,
         \/ \E q \in asked : Handles(q) \/ Fails(q)
         \/ \E c \in AutoIds : RunEnds(c)
  PROVE  ConsoleTypeOK' /\ RequestsFit'
<1>1. CASE \E q \in asked : Handles(q)
  <2>1. PICK q \in asked : Handles(q)
    BY <1>1
  <2>2. PICK r \in Requests3 :
           /\ asked' = (asked \ {q}) \cup {r}
           /\ r.is = q.is /\ r.of = q.of /\ r.for = q.for /\ r.mine = q.mine /\ r.read = TRUE
           /\ q.is = "next" => \/ r.ans = Nobody /\ held' = held
                               \/ r.ans \in Leads3 /\ r.ans[1] = q.of /\ held' = held \cup {r.ans}
           /\ q.is \in {"skip", "dispose"} => held' = held \ {q.of}
           /\ q.is \notin {"next", "skip", "dispose"} => held' = held
           /\ q.is = "joined" => (roster = {} /\ r.ans = Nobody) \/ r.ans \in roster
           /\ q.is = "poll" => r.ans = IF q.of \in roster THEN q.of ELSE Nobody
           /\ roster' = IF q.is = "join" THEN roster \cup {q.of}
                        ELSE IF q.is = "leave" THEN roster \ {q.of} ELSE roster
           /\ dealt' \in [PreviewIds -> 0..MaxLeads]
    BY <2>1, HandlesEffect
  <2>3. UNCHANGED <<pageOnly, previewVars, panelVars, moves, consoleAux>>
    BY <2>1 DEF Handles
  <2>4. Fits(q) /\ roster \subseteq AutoIds
    BY DEF RequestsFit, ConsoleTypeOK
  <2>5. Fits(r)
    BY <2>2, <2>4 DEF Fits
  <2>6. asked' \subseteq Requests3 /\ \A p \in asked' : Fits(p)
    BY <2>2, <2>5 DEF ConsoleTypeOK, RequestsFit
  <2>7. (\A p \in Awaiting(OfPage) : onPage)'
    BY <2>2, <2>3 DEF RequestsFit, Awaiting, pageOnly
  <2>8. held' \cup given' \subseteq Leads3 /\ roster' \subseteq AutoIds
    BY <2>2, <2>3, <2>4 DEF consoleAux, ConsoleTypeOK, Fits
  <2>9. QED
    BY <2>2, <2>3, <2>6, <2>7, <2>8
       DEF ConsoleTypeOK, RequestsFit, pageOnly, previewVars, panelVars, consoleAux
<1>2. CASE \E q \in asked : Fails(q)
  <2>1. PICK q \in asked : Fails(q)
    BY <1>2
  <2>2. Fits(q) /\ q \in Requests3
    BY DEF RequestsFit, ConsoleTypeOK
  <2> DEFINE S == IF q.is \in {"skip", "dispose"} THEN {Request("next", q.for, Nobody)} ELSE {}
  <2>3. S \subseteq Requests3 /\ \A p \in S : Fits(p) /\ p.is = "next"
    <3>1. CASE q.is \in {"skip", "dispose"}
      <4>1. q.for \in PreviewIds
        BY <2>2, <3>1 DEF Fits
      <4>2. QED
        BY <3>1, <4>1, RequestsFitting DEF Made
    <3>2. QED
      BY <3>1
  <2>4. asked' = (asked \ {q}) \cup S
    BY <2>1 DEF Fails
  <2> HIDE DEF S
  <2>5. asked' \subseteq Requests3 /\ \A p \in asked' : Fits(p)
    BY <2>3, <2>4 DEF ConsoleTypeOK, RequestsFit
  <2>6. onPage' = onPage /\ UNCHANGED <<serverVars, pageOnly, session, banner, onScreen, saved, peer, contact, past, mixed>>
    BY <2>1 DEF Fails, pageOnly
  <2>7. (\A p \in Awaiting(OfPage) : onPage)'
    BY <2>3, <2>4, <2>6 DEF RequestsFit, Awaiting, OfPage
  <2>8. loading' \in BOOLEAN /\ called' \in BOOLEAN /\ crossed' \in BOOLEAN
    BY <2>1 DEF Fails, ConsoleTypeOK
  <2>9. given' \subseteq Leads3 /\ moves' \in 0..MaxMoves
    BY <2>1, <2>2, CallConsoleAssumption DEF Fails, ConsoleTypeOK, Fits, Move
  <2>10. QED
    BY <2>5, <2>6, <2>7, <2>8, <2>9 DEF ConsoleTypeOK, RequestsFit, serverVars, pageOnly
<1>3. CASE \E c \in AutoIds : RunEnds(c)
  <2>1. moves' \in 0..MaxMoves /\ roster' \subseteq AutoIds
    BY <1>3, CallConsoleAssumption DEF RunEnds, Move, ConsoleTypeOK
  <2>2. UNCHANGED <<dealt, held, pageOnly, previewVars, panelVars, asked, consoleAux>>
    BY <1>3 DEF RunEnds
  <2>3. QED
    BY <2>1, <2>2 DEF ConsoleTypeOK, RequestsFit, Awaiting, pageOnly, previewVars, panelVars, consoleAux
<1>4. QED
  BY <1>1, <1>2, <1>3

\* What becomes of the requests of a page that is left.
LEMMA GoneEffect ==
  ASSUME ConsoleTypeOK
  PROVE  /\ \A r \in Gone : \E q \in asked :
              /\ r \in Requests3 /\ r.is = q.is /\ r.of = q.of /\ r.for = q.for /\ r.read = q.read /\ r.ans = q.ans
              /\ IF q.is \in OfPage THEN r.mine = FALSE ELSE r = q
         /\ \A q \in asked : q.is \notin OfPage => q \in Gone
<1>1. ASSUME NEW q \in asked
      PROVE  LET r == [q EXCEPT !.mine = FALSE]
             IN  /\ r \in Requests3 /\ r.is = q.is /\ r.of = q.of /\ r.for = q.for /\ r.read = q.read /\ r.ans = q.ans
                 /\ r.mine = FALSE
  <2>1. q \in Requests3
    BY DEF ConsoleTypeOK
  <2>2. QED
    BY <2>1 DEF Requests3
<1>2. asked \subseteq Requests3
  BY DEF ConsoleTypeOK
<1>3. QED
  BY <1>1, <1>2 DEF Gone

LEMMA PageTypes ==
  ASSUME ConsoleTypeOK, RequestsFit,
         \/ Mounts \/ Leaves \/ takeBreak \/ PollAsks
         \/ \E c \in AutoIds : onPlay(c)
         \/ \E q \in asked : PageAnswered(q)
  PROVE  ConsoleTypeOK' /\ RequestsFit'
<1> USE DEF serverVars, pageOnly, previewVars, panelVars, consoleAux
<1>1. CASE Mounts
  <2> DEFINE p == Request("joined", Nobody, Nobody)
  <2>1. Made(p, "joined", Nobody, Nobody) /\ Fits(p)
    BY RequestsFitting
  <2> HIDE DEF p
  <2>2. asked' = asked \cup {p} /\ onPage' = TRUE /\ moves' \in 0..MaxMoves
    BY <1>1, CallConsoleAssumption DEF Mounts, Move, p, ConsoleTypeOK
  <2>3. asked' \subseteq Requests3 /\ (\A q \in asked' : Fits(q)) /\ (\A q \in Awaiting(OfPage) : onPage)'
    BY <2>1, <2>2 DEF Made, ConsoleTypeOK, RequestsFit
  <2>4. QED
    BY <1>1, <2>2, <2>3 DEF Mounts, ConsoleTypeOK, RequestsFit
<1>2. CASE Leaves
  <2>1. asked' = Gone /\ moves' \in 0..MaxMoves /\ onPage' = FALSE /\ joinedId' = Nobody /\ crossed' \in BOOLEAN
    BY <1>2, CallConsoleAssumption DEF Leaves, Move, ConsoleTypeOK
  <2>2. asked' \subseteq Requests3 /\ \A r \in asked' : r.is \in OfPage => r.mine = FALSE
    BY <2>1, GoneEffect
  <2>3. \A r \in asked' : Fits(r)
    <3>1. ASSUME NEW r \in Gone
          PROVE  Fits(r)
      <4>1. PICK q \in asked :
               /\ r \in Requests3 /\ r.is = q.is /\ r.of = q.of /\ r.for = q.for /\ r.read = q.read /\ r.ans = q.ans
               /\ IF q.is \in OfPage THEN r.mine = FALSE ELSE r = q
        BY GoneEffect
      <4>2. Fits(q)
        BY DEF RequestsFit
      <4>3. QED
        BY <4>1, <4>2 DEF Fits
    <3>2. QED
      BY <2>1, <3>1
  <2>4. (\A q \in Awaiting(OfPage) : onPage)'
    BY <2>2 DEF Awaiting
  <2>5. QED
    BY <1>2, <2>1, <2>2, <2>3, <2>4 DEF Leaves, ConsoleTypeOK, RequestsFit
<1>3. CASE takeBreak \/ PollAsks \/ \E c \in AutoIds : onPlay(c)
  <2>1. PICK p : Made(p, p.is, p.of, Nobody) /\ Fits(p) /\ asked' = asked \cup {p}
    <3>1. joinedId # Nobody => joinedId \in AutoIds
      BY DEF ConsoleTypeOK
    <3>2. CASE takeBreak
      BY <3>1, <3>2, RequestsFitting DEF takeBreak, Made
    <3>3. CASE PollAsks
      BY <3>1, <3>3, RequestsFitting DEF PollAsks, Made
    <3>4. CASE \E c \in AutoIds : onPlay(c)
      BY <3>4, RequestsFitting DEF onPlay, Made
    <3>5. QED
      BY <1>3, <3>2, <3>3, <3>4
  <2>2. moves' \in 0..MaxMoves /\ crossed' \in BOOLEAN /\ onPage
    BY <1>3, CallConsoleAssumption DEF takeBreak, PollAsks, onPlay, Move, ConsoleTypeOK
  <2>3. UNCHANGED <<serverVars, pageOnly, previewVars, panelVars, given, mixed>>
    BY <1>3 DEF takeBreak, PollAsks, onPlay
  <2>4. asked' \subseteq Requests3 /\ \A q \in asked' : Fits(q)
    BY <2>1 DEF Made, ConsoleTypeOK, RequestsFit
  <2>5. QED
    BY <2>2, <2>3, <2>4 DEF ConsoleTypeOK, RequestsFit
<1>4. CASE \E q \in asked : PageAnswered(q)
  <2>1. PICK q \in asked : PageAnswered(q)
    BY <1>4
  <2>2. Fits(q) /\ asked' = asked \ {q}
    BY <2>1 DEF RequestsFit, PageAnswered
  <2>3. joinedId' \in AutoIds \cup {Nobody} /\ active' \in AutoIds \cup {Nobody}
    <3> DEFINE to == CASE q.is = "joined" /\ q.ans # Nobody -> q.ans
                       [] q.is = "join" -> q.of
                       [] q.is = "leave" \/ (q.is = "poll" /\ q.ans = Nobody) -> Nobody
                       [] OTHER -> joinedId
    <3>1. to \in AutoIds \cup {Nobody}
      <4>1. joinedId \in AutoIds \cup {Nobody}
        BY DEF ConsoleTypeOK
      <4>2. QED
        BY <2>2, <4>1 DEF Fits
    <3>2. IF q.mine THEN Joined(to) ELSE UNCHANGED <<joinedId, active>>
      BY <2>1 DEF PageAnswered
    <3> HIDE DEF to
    <3>3. QED
      BY <3>1, <3>2 DEF Joined, ConsoleTypeOK
  <2>4. UNCHANGED <<serverVars, onPage, previewVars, panelVars, moves, consoleAux>>
    BY <2>1 DEF PageAnswered
  <2>5. QED
    BY <2>2, <2>3, <2>4 DEF ConsoleTypeOK, RequestsFit, Awaiting
<1>5. QED
  BY <1>1, <1>2, <1>3, <1>4

LEMMA PreviewTypes ==
  ASSUME ConsoleTypeOK, RequestsFit,
         \/ \E c \in PreviewIds : startPreview(c)
         \/ \E is \in {"skip", "dispose"} : Advances(is)
         \/ endPreview \/ Reloads
         \/ \E q \in asked : NextAnswered(q) \/ Advanced(q)
  PROVE  ConsoleTypeOK' /\ RequestsFit'
<1> USE DEF serverVars, pageOnly, previewVars, panelVars, consoleAux
<1>1. CASE \E c \in PreviewIds : startPreview(c)
  <2>1. PICK c \in PreviewIds : startPreview(c)
    BY <1>1
  <2>2. PICK p : Made(p, "next", c, Nobody) /\ Fits(p) /\ asked' = asked \cup {p}
    BY <2>1, RequestsFitting DEF startPreview
  <2>3. asked' \subseteq Requests3 /\ (\A q \in asked' : Fits(q))
    BY <2>2 DEF Made, ConsoleTypeOK, RequestsFit
  <2>4. onPage' = onPage /\ (\A q \in Awaiting(OfPage) : onPage)'
    BY <2>1, <2>2 DEF startPreview, Made, RequestsFit, Awaiting, OfPage
  <2>5. moves' \in 0..MaxMoves /\ given' \subseteq Leads3
    BY <2>1, CallConsoleAssumption DEF startPreview, Move, Nexting, ConsoleTypeOK
  <2>6. QED
    BY <2>1, <2>3, <2>4, <2>5 DEF startPreview, Nexting, ConsoleTypeOK, RequestsFit
<1>2. CASE \E is \in {"skip", "dispose"} : Advances(is)
  <2>1. PICK is \in {"skip", "dispose"} : Advances(is)
    BY <1>2
  <2>2. onScreen \in Leads3 /\ session \in PreviewIds
    BY <2>1 DEF Advances, ConsoleTypeOK
  <2>3. PICK p : Made(p, is, onScreen, session) /\ Fits(p) /\ asked' = asked \cup {p}
    BY <2>1, <2>2, RequestsFitting DEF Advances
  <2>4. asked' \subseteq Requests3 /\ (\A q \in asked' : Fits(q))
    BY <2>3 DEF Made, ConsoleTypeOK, RequestsFit
  <2>5. onPage' = onPage /\ (\A q \in Awaiting(OfPage) : onPage)'
    BY <2>1, <2>3 DEF Advances, Made, RequestsFit, Awaiting, OfPage
  <2>6. moves' \in 0..MaxMoves /\ given' \subseteq Leads3
    BY <2>1, CallConsoleAssumption DEF Advances, Move, ConsoleTypeOK
  <2>7. QED
    BY <2>1, <2>4, <2>5, <2>6 DEF Advances, ConsoleTypeOK, RequestsFit
<1>3. CASE endPreview
  <2>1. moves' \in 0..MaxMoves /\ given' \subseteq Leads3
    BY <1>3, CallConsoleAssumption DEF endPreview, Move, ConsoleTypeOK
  <2>2. QED
    BY <1>3, <2>1 DEF endPreview, clearScreenPop, ConsoleTypeOK, RequestsFit, Awaiting
<1>4. CASE Reloads
  <2> DEFINE S == {Request("joined", Nobody, Nobody)}
                    \cup IF saved = Nobody THEN {} ELSE {Request("next", saved, Nobody)}
  <2>1. S \subseteq Requests3 /\ (\A q \in S : Fits(q))
    <3>1. saved # Nobody => saved \in PreviewIds
      BY DEF ConsoleTypeOK
    <3>2. QED
      BY <3>1, RequestsFitting DEF Made
  <2>2. asked' = S /\ onPage /\ onPage' = onPage
    BY <1>4 DEF Reloads
  <2> HIDE DEF S
  <2>3. moves' \in 0..MaxMoves /\ given' \subseteq Leads3
    BY <1>4, CallConsoleAssumption DEF Reloads, Move, ConsoleTypeOK
  <2>4. RequestsFit'
    BY <2>1, <2>2 DEF RequestsFit, Awaiting
  <2>5. asked' \subseteq Requests3 /\ loading' \in BOOLEAN
    BY <1>4, <2>1, <2>2 DEF Reloads
  <2>6. session' \in PreviewIds \cup {Nobody}
    BY <1>4 DEF Reloads, ConsoleTypeOK
  <2>7. joinedId' = Nobody /\ active' = Nobody /\ banner' = Nobody /\ onScreen' = Nobody /\ called' = FALSE
        /\ peer' = Nobody /\ contact' = Nobody /\ past' = Nobody
    BY <1>4 DEF Reloads, clearScreenPop
  <2>8. UNCHANGED <<serverVars, onPage, saved, crossed, mixed>>
    BY <1>4 DEF Reloads
  <2>9. QED
    BY <2>3, <2>4, <2>5, <2>6, <2>7, <2>8 DEF ConsoleTypeOK
<1>5. CASE \E q \in asked : NextAnswered(q)
  <2>1. PICK q \in asked : NextAnswered(q)
    BY <1>5
  <2>2. q.of \in PreviewIds /\ (q.ans # Nobody => q.ans \in Leads3)
    BY <2>1 DEF NextAnswered, RequestsFit, Fits
  <2>3. PICK S : S \subseteq Requests3 /\ (\A p \in S : Fits(p) /\ p.is = "lookup") /\ asked' = (asked \ {q}) \cup S
    <3>1. CASE q.ans = Nobody
      <4>1. asked' = (asked \ {q}) \cup {}
        BY <2>1, <3>1 DEF NextAnswered
      <4>2. QED
        BY <4>1
    <3>2. CASE q.ans # Nobody
      <4>1. q.ans \in People
        BY <2>2, <3>2 DEF People
      <4>2. Made(Request("lookup", q.ans, Nobody), "lookup", q.ans, Nobody) /\ Fits(Request("lookup", q.ans, Nobody))
        BY <4>1, RequestsFitting
      <4>3. asked' = (asked \ {q}) \cup {Request("lookup", q.ans, Nobody)}
        BY <2>1, <3>2 DEF NextAnswered
      <4>4. QED
        BY <4>2, <4>3 DEF Made
    <3>3. QED
      BY <3>1, <3>2
  <2>4. asked' \subseteq Requests3 /\ (\A p \in asked' : Fits(p))
    BY <2>3 DEF ConsoleTypeOK, RequestsFit
  <2>5. onPage' = onPage /\ (\A p \in Awaiting(OfPage) : onPage)'
    BY <2>1, <2>3 DEF NextAnswered, RequestsFit, Awaiting, OfPage
  <2>6. {peer', contact', past'} \subseteq People \cup {Nobody}
    BY <2>1, <2>2 DEF NextAnswered, popLead, clearScreenPop, ConsoleTypeOK, People
  <2>7. session' \in PreviewIds \cup {Nobody} /\ banner' \in PreviewIds \cup {Nobody}
        /\ onScreen' \in Leads3 \cup {Nobody} /\ loading' = FALSE
    BY <2>1, <2>2 DEF NextAnswered, ToSession
  <2>8. UNCHANGED <<serverVars, pageOnly, saved, called, moves, consoleAux>>
    BY <2>1 DEF NextAnswered
  <2>9. QED
    BY <2>4, <2>5, <2>6, <2>7, <2>8 DEF ConsoleTypeOK, RequestsFit
<1>6. CASE \E q \in asked : Advanced(q)
  <2>1. PICK q \in asked : Advanced(q)
    BY <1>6
  <2>2. q.for \in PreviewIds
    BY <2>1 DEF Advanced, RequestsFit, Fits
  <2>3. PICK p : Made(p, "next", q.for, Nobody) /\ Fits(p) /\ asked' = (asked \ {q}) \cup {p}
    BY <2>1, <2>2, RequestsFitting DEF Advanced
  <2>4. asked' \subseteq Requests3 /\ (\A r \in asked' : Fits(r))
    BY <2>3 DEF Made, ConsoleTypeOK, RequestsFit
  <2>5. onPage' = onPage /\ (\A r \in Awaiting(OfPage) : onPage)'
    BY <2>1, <2>3 DEF Advanced, Made, RequestsFit, Awaiting, OfPage
  <2>6. QED
    BY <2>1, <2>4, <2>5 DEF Advanced, ConsoleTypeOK, RequestsFit
<1>7. QED
  BY <1>1, <1>2, <1>3, <1>4, <1>5, <1>6

LEMMA PanelTypes ==
  ASSUME ConsoleTypeOK, RequestsFit,
         \/ saveCustomerNotes
         \/ \E who \in People : CallBegins(who)
         \/ \E q \in asked : LookupAnswered(q) \/ NotesSaved(q)
  PROVE  ConsoleTypeOK' /\ RequestsFit'
<1> USE DEF serverVars, pageOnly, previewVars, panelVars, consoleAux
<1>1. CASE saveCustomerNotes
  <2>1. (IF contact # Nobody THEN contact ELSE peer) \in People
    BY <1>1 DEF saveCustomerNotes, ConsoleTypeOK
  <2>2. PICK p : p \in Requests3 /\ p.is = "save" /\ Fits(p) /\ asked' = asked \cup {p}
    BY <1>1, <2>1, RequestsFitting DEF saveCustomerNotes, Made
  <2>3. asked' \subseteq Requests3 /\ (\A r \in asked' : Fits(r)) /\ moves' \in 0..MaxMoves
    BY <1>1, <2>2, CallConsoleAssumption DEF ConsoleTypeOK, RequestsFit, saveCustomerNotes, Move
  <2>4. onPage' = onPage /\ (\A r \in Awaiting(OfPage) : onPage)'
    BY <1>1, <2>2 DEF saveCustomerNotes, RequestsFit, Awaiting, OfPage
  <2>5. QED
    BY <1>1, <2>3, <2>4 DEF saveCustomerNotes, ConsoleTypeOK, RequestsFit
<1>2. CASE \E who \in People : CallBegins(who)
  <2>1. PICK who \in People : CallBegins(who)
    BY <1>2
  <2>2. PICK p : p \in Requests3 /\ p.is = "lookup" /\ Fits(p) /\ asked' = asked \cup {p}
    BY <2>1, RequestsFitting DEF CallBegins, Made
  <2>3. asked' \subseteq Requests3 /\ (\A r \in asked' : Fits(r)) /\ moves' \in 0..MaxMoves
    BY <2>1, <2>2, CallConsoleAssumption DEF ConsoleTypeOK, RequestsFit, CallBegins, Move
  <2>4. onPage' = onPage /\ (\A r \in Awaiting(OfPage) : onPage)'
    BY <2>1, <2>2 DEF CallBegins, RequestsFit, Awaiting, OfPage
  <2>5. QED
    BY <2>1, <2>3, <2>4 DEF CallBegins, ConsoleTypeOK, RequestsFit
<1>3. CASE \E q \in asked : LookupAnswered(q) \/ NotesSaved(q)
  <2>1. PICK q \in asked : LookupAnswered(q) \/ NotesSaved(q)
    BY <1>3
  <2>2. q.of \in People /\ asked' = asked \ {q}
    BY <2>1 DEF LookupAnswered, NotesSaved, RequestsFit, Fits
  <2>3. contact' \in People \cup {Nobody} /\ past' \in People \cup {Nobody} /\ mixed' \in BOOLEAN
    BY <2>1, <2>2 DEF LookupAnswered, NotesSaved, loadCustomer, ConsoleTypeOK
  <2>4. QED
    BY <2>1, <2>2, <2>3 DEF LookupAnswered, NotesSaved, ConsoleTypeOK, RequestsFit, Awaiting
<1>4. QED
  BY <1>1, <1>2, <1>3

-----------------------------------------------------------------------------
(* The panel and the campaign on screen.                                   *)

screenVars == <<onPage, joinedId, active, session, banner, onScreen, peer, contact, past, mixed>>

LEMMA ScreenStep ==
  ASSUME ConsoleTypeOK, RequestsFit, ScreenFits, [ConsoleNext]_consoleVars
  PROVE  ScreenFits'
<1> USE DEF serverVars, pageOnly, previewVars, panelVars, consoleAux
<1>0. Nobody \notin PreviewIds /\ Nobody \notin Leads3 /\ Nobody # Caller
  BY CallConsoleAssumption DEF People
<1>1. CASE UNCHANGED screenVars
  BY <1>1 DEF ScreenFits, PanelIsOfItsCustomer, screenVars
<1>2. CASE UNCHANGED consoleVars
  BY <1>1, <1>2 DEF consoleVars, screenVars
<1>3. ASSUME NEW q \in asked, Handles(q) \/ Fails(q) \/ Advanced(q)
      PROVE  ScreenFits'
  BY <1>1, <1>3 DEF Handles, Fails, Advanced, screenVars
<1>4. CASE (\E c \in AutoIds : RunEnds(c) \/ onPlay(c)) \/ takeBreak \/ PollAsks \/ saveCustomerNotes
           \/ \E is \in {"skip", "dispose"} : Advances(is)
  BY <1>1, <1>4 DEF RunEnds, onPlay, takeBreak, PollAsks, Advances, saveCustomerNotes, screenVars
<1>5. CASE Mounts \/ Leaves
  BY <1>5 DEF Mounts, Leaves, ScreenFits, PanelIsOfItsCustomer
<1>6. ASSUME NEW q \in asked, PageAnswered(q)
      PROVE  ScreenFits'
  <2>1. q.mine => onPage
    BY <1>6 DEF PageAnswered, RequestsFit, Awaiting
  <2>2. \/ onPage /\ active' = joinedId'
        \/ UNCHANGED <<joinedId, active>>
    BY <1>6, <2>1 DEF PageAnswered, Joined
  <2>3. UNCHANGED <<onPage, session, banner, onScreen, peer, contact, past, mixed>>
    BY <1>6 DEF PageAnswered
  <2>4. QED
    BY <2>2, <2>3 DEF ScreenFits, PanelIsOfItsCustomer
<1>7. ASSUME NEW c \in PreviewIds, startPreview(c)
      PROVE  ScreenFits'
  BY <1>7 DEF startPreview, ScreenFits, PanelIsOfItsCustomer
<1>8. ASSUME NEW q \in asked, NextAnswered(q)
      PROVE  ScreenFits'
  <2>1. q.of \in PreviewIds /\ (q.ans # Nobody => q.ans[1] = q.of)
    BY <1>8 DEF NextAnswered, RequestsFit, Fits
  <2>2. session' = q.of /\ banner' = q.of /\ onScreen' = q.ans /\ UNCHANGED <<pageOnly, mixed>>
    BY <1>8 DEF NextAnswered, ToSession
  <2>3. /\ q.ans # Nobody => peer' = q.ans
        /\ past' \in {peer', Nobody} /\ contact' \in {peer', Nobody}
    BY <1>8 DEF NextAnswered, popLead, clearScreenPop
  <2>4. QED
    BY <1>0, <2>1, <2>2, <2>3 DEF ScreenFits, PanelIsOfItsCustomer
<1>9. CASE endPreview \/ Reloads
  BY <1>9 DEF endPreview, Reloads, clearScreenPop, ScreenFits, PanelIsOfItsCustomer
<1>10. ASSUME NEW who \in People, CallBegins(who)
       PROVE  ScreenFits'
  BY <1>10 DEF CallBegins, ScreenFits, PanelIsOfItsCustomer
<1>11. ASSUME NEW q \in asked, LookupAnswered(q) \/ NotesSaved(q)
       PROVE  ScreenFits'
  <2>1. /\ past' \in {peer, past} /\ UNCHANGED <<onPage, joinedId, active, session, banner, onScreen, peer>>
        /\ (past' = past \/ past' = peer) /\ (mixed => mixed')
        /\ contact' \in {peer, contact} \/ (contact' # peer /\ mixed')
    <3>1. CASE LookupAnswered(q)
      BY <3>1 DEF LookupAnswered, loadCustomer
    <3>2. CASE NotesSaved(q)
      <4>1. UNCHANGED <<onPage, joinedId, active, session, banner, onScreen, peer, past>> /\ contact' = q.of
        BY <3>2 DEF NotesSaved
      <4>2. mixed' = (mixed \/ peer # q.of)
        BY <3>2 DEF NotesSaved
      <4>3. QED
        BY <4>1, <4>2
    <3>3. QED
      BY <1>11, <3>1, <3>2
  <2>2. contact' \in {peer', Nobody} \/ mixed'
    BY <2>1 DEF ScreenFits, PanelIsOfItsCustomer
  <2>3. QED
    BY <2>1, <2>2 DEF ScreenFits, PanelIsOfItsCustomer
<1>12. QED
  BY <1>2, <1>3, <1>4, <1>5, <1>6, <1>7, <1>8, <1>9, <1>10, <1>11 DEF ConsoleNext

-----------------------------------------------------------------------------
(* The campaign the server has the agent on.                               *)

\* A step that is not about the page's requests.
LEMMA PageKept ==
  ASSUME PageInv, RequestsFit, roster' \subseteq roster, crossed' = crossed, UNCHANGED <<onPage, joinedId>>,
         \A q \in asked' : q.is \in OfPage => q \in asked,
         \A q \in asked : q.is \in OfPage => q \in asked'
  PROVE  PageInv'
<1> SUFFICES ASSUME ~crossed
             PROVE  /\ \A c, d \in roster' : c = d
                    /\ \A q \in asked' : q.is \in {"join", "leave"} => q.mine
                    /\ \A q, r \in Awaiting(OfPage)' : q = r
                    /\ \A q \in Awaiting(OfPage)' : Follows(q)'
                    /\ onPage' /\ Awaiting(OfPage)' = {} => roster' \subseteq {joinedId'}
  BY DEF PageInv
<1>1. Awaiting(OfPage)' = Awaiting(OfPage)
  BY DEF Awaiting
<1>2. \A q \in Awaiting(OfPage) : Follows(q)'
  BY DEF PageInv, Follows
<1>3. QED
  BY <1>1, <1>2 DEF PageInv, OfPage

LEMMA HandlesPage ==
  ASSUME ConsoleTypeOK, RequestsFit, PageInv, NEW q \in asked, Handles(q)
  PROVE  PageInv'
<1>1. PICK r \in Requests3 :
           /\ asked' = (asked \ {q}) \cup {r}
           /\ r.is = q.is /\ r.of = q.of /\ r.for = q.for /\ r.mine = q.mine /\ r.read = TRUE
           /\ q.is = "next" => \/ r.ans = Nobody /\ held' = held
                               \/ r.ans \in Leads3 /\ r.ans[1] = q.of /\ held' = held \cup {r.ans}
           /\ q.is \in {"skip", "dispose"} => held' = held \ {q.of}
           /\ q.is \notin {"next", "skip", "dispose"} => held' = held
           /\ q.is = "joined" => (roster = {} /\ r.ans = Nobody) \/ r.ans \in roster
           /\ q.is = "poll" => r.ans = IF q.of \in roster THEN q.of ELSE Nobody
           /\ roster' = IF q.is = "join" THEN roster \cup {q.of}
                        ELSE IF q.is = "leave" THEN roster \ {q.of} ELSE roster
           /\ dealt' \in [PreviewIds -> 0..MaxLeads]
  BY HandlesEffect
<1>2. UNCHANGED <<onPage, joinedId, crossed>> /\ ~q.read
  BY DEF Handles, pageOnly, consoleAux
<1>3. CASE q.is \notin OfPage
  BY <1>1, <1>2, <1>3, PageKept DEF OfPage
<1>4. CASE q.is \in OfPage /\ ~q.mine
  <2> SUFFICES ASSUME ~crossed
               PROVE  /\ \A c, d \in roster' : c = d
                      /\ \A p \in asked' : p.is \in {"join", "leave"} => p.mine
                      /\ \A p, s \in Awaiting(OfPage)' : p = s
                      /\ \A p \in Awaiting(OfPage)' : Follows(p)'
                      /\ onPage' /\ Awaiting(OfPage)' = {} => roster' \subseteq {joinedId'}
    BY <1>2 DEF PageInv
  <2>1. q.is \notin {"join", "leave"}
    BY <1>4 DEF PageInv
  <2>2. roster' = roster /\ Awaiting(OfPage)' = Awaiting(OfPage)
    BY <1>1, <1>4, <2>1 DEF Awaiting
  <2>3. \A p \in Awaiting(OfPage) : Follows(p)'
    BY <1>2, <2>2 DEF PageInv, Follows
  <2>4. QED
    BY <1>1, <1>2, <2>1, <2>2, <2>3 DEF PageInv
<1>5. CASE q.is \in OfPage /\ q.mine
  <2> SUFFICES ASSUME ~crossed
               PROVE  /\ \A c, d \in roster' : c = d
                      /\ \A p \in asked' : p.is \in {"join", "leave"} => p.mine
                      /\ \A p, s \in Awaiting(OfPage)' : p = s
                      /\ \A p \in Awaiting(OfPage)' : Follows(p)'
                      /\ onPage' /\ Awaiting(OfPage)' = {} => roster' \subseteq {joinedId'}
    BY <1>2 DEF PageInv
  <2>1. Awaiting(OfPage)' = {r}
    <3>1. \A s \in asked : s.is \in OfPage /\ s.mine => s = q
      BY <1>5 DEF PageInv, Awaiting
    <3>2. QED
      BY <1>1, <1>5, <3>1 DEF Awaiting
  <2>2. Follows(q) /\ \A c, d \in roster : c = d
    BY <1>5 DEF PageInv, Awaiting
  <2>3. Follows(r)' /\ \A c, d \in roster' : c = d
    BY <1>1, <1>2, <1>5, <2>2 DEF Follows, OfPage
  <2>4. \A p \in asked' : p.is \in {"join", "leave"} => p.mine
    BY <1>1, <1>5 DEF PageInv
  <2>5. QED
    BY <2>1, <2>3, <2>4
<1>6. QED
  BY <1>3, <1>4, <1>5

\* The page asks, with nothing asked before and nobody else on the roster.
LEMMA PageAsks ==
  ASSUME RequestsFit, PageInv, UNCHANGED roster, crossed => crossed',
         NEW p, asked' \subseteq asked \cup {p}, p \in asked', p.mine, p.is \in OfPage,
         ~crossed' => Awaiting(OfPage) = {} /\ Follows(p)',
         onPage'
  PROVE  PageInv'
<1> SUFFICES ASSUME ~crossed'
             PROVE  /\ \A c, d \in roster' : c = d
                    /\ \A q \in asked' : q.is \in {"join", "leave"} => q.mine
                    /\ \A q, s \in Awaiting(OfPage)' : q = s
                    /\ \A q \in Awaiting(OfPage)' : Follows(q)'
                    /\ onPage' /\ Awaiting(OfPage)' = {} => roster' \subseteq {joinedId'}
  BY DEF PageInv
<1>1. Awaiting(OfPage)' = {p}
  BY DEF Awaiting
<1>2. QED
  BY <1>1 DEF PageInv

LEMMA PageStep ==
  ASSUME ConsoleTypeOK, RequestsFit, ScreenFits, PageInv, [ConsoleNext]_consoleVars
  PROVE  PageInv'
<1> USE DEF serverVars, pageOnly, previewVars, panelVars, consoleAux
<1>1. CASE UNCHANGED consoleVars
  BY <1>1, PageKept DEF consoleVars
<1>2. ASSUME NEW q \in asked, Handles(q)
      PROVE  PageInv'
  BY <1>2, HandlesPage
<1>3. ASSUME NEW q \in asked, Fails(q)
      PROVE  PageInv'
  <2>1. CASE q.is \in OfPage
    <3>1. crossed'
      BY <1>3, <2>1 DEF Fails
    <3>2. QED
      BY <3>1 DEF PageInv
  <2>2. CASE q.is \notin OfPage
    <3>1. Fits(q) /\ (q.is \in {"skip", "dispose"} => q.for \in PreviewIds)
      BY DEF RequestsFit, Fits
    <3>2. q.is \in {"skip", "dispose"} => Request("next", q.for, Nobody).is = "next"
      BY <3>1, RequestsFitting DEF Made
    <3>3. /\ roster' = roster /\ crossed' = crossed /\ UNCHANGED <<onPage, joinedId>>
          /\ asked' = (asked \ {q}) \cup IF q.is \in {"skip", "dispose"} THEN {Request("next", q.for, Nobody)} ELSE {}
      BY <1>3, <2>2 DEF Fails, ConsoleTypeOK
    <3>4. (\A p \in asked' : p.is \in OfPage => p \in asked) /\ (\A p \in asked : p.is \in OfPage => p \in asked')
      BY <2>2, <3>2, <3>3 DEF OfPage
    <3>5. QED
      BY <3>3, <3>4, PageKept
  <2>3. QED
    BY <2>1, <2>2
<1>4. ASSUME NEW c \in AutoIds, RunEnds(c)
      PROVE  PageInv'
  BY <1>4, PageKept DEF RunEnds
<1>5. CASE Mounts
  <2>1. PICK p : Made(p, "joined", Nobody, Nobody) /\ asked' = asked \cup {p}
    BY <1>5, RequestsFitting DEF Mounts
  <2>2. Awaiting(OfPage) = {}
    BY <1>5 DEF Mounts, RequestsFit
  <2>3. Follows(p)' /\ onPage' /\ UNCHANGED <<roster, crossed>>
    BY <1>5, <2>1 DEF Mounts, Follows, Made
  <2>4. QED
    BY <2>1, <2>2, <2>3, PageAsks DEF Made, OfPage
<1>6. CASE Leaves
  <2>1. \A r \in asked' : r.is \in OfPage => r.mine = FALSE
    BY <1>6, GoneEffect DEF Leaves
  <2>2. Awaiting(OfPage)' = {}
    BY <2>1 DEF Awaiting
  <2>3. ~crossed' => \A r \in asked' : r.is \notin {"join", "leave"}
    <3>1. \A r \in Gone : \E q \in asked : r.is = q.is
      BY GoneEffect
    <3>2. QED
      BY <1>6, <3>1 DEF Leaves
  <2>4. roster' = roster /\ onPage' = FALSE /\ (crossed => crossed')
    BY <1>6 DEF Leaves
  <2>5. QED
    BY <2>2, <2>3, <2>4 DEF PageInv
<1>7. ASSUME NEW c \in AutoIds, onPlay(c)
      PROVE  PageInv'
  <2>1. PICK p : Made(p, "join", c, Nobody) /\ asked' = asked \cup {p}
    BY <1>7, RequestsFitting DEF onPlay
  <2>2. /\ ~crossed' => Awaiting(OfPage) = {} /\ roster = {}
        /\ onPage' /\ UNCHANGED <<roster, joinedId>> /\ joinedId = Nobody /\ (crossed => crossed')
    BY <1>7 DEF onPlay
  <2>3. ~crossed' => Follows(p)'
    BY <2>1, <2>2 DEF Follows, Made
  <2>4. QED
    BY <2>1, <2>2, <2>3, PageAsks DEF Made, OfPage
<1>8. CASE takeBreak \/ PollAsks
  <2>1. PICK p : p.is \in {"leave", "poll"} /\ Made(p, p.is, joinedId, Nobody) /\ asked' = asked \cup {p}
    <3>1. joinedId \in AutoIds
      BY <1>8 DEF takeBreak, PollAsks, ConsoleTypeOK
    <3>2. QED
      BY <1>8, <3>1, RequestsFitting DEF takeBreak, PollAsks, Made
  <2>2. onPage /\ joinedId # Nobody /\ UNCHANGED <<roster, onPage, joinedId>> /\ (crossed => crossed')
    BY <1>8 DEF takeBreak, PollAsks
  <2>3. ~crossed' => Awaiting(OfPage) = {}
    <3>1. CASE takeBreak
      BY <3>1 DEF takeBreak
    <3>2. CASE PollAsks
      <4>1. ~crossed' => ~crossed /\ Awaiting({"join", "leave"}) = {} /\ Awaiting({"poll"}) = {}
        BY <3>2 DEF PollAsks, Busy
      <4>2. ~crossed => \A q \in Awaiting(OfPage) : q.is # "joined"
        BY <2>2 DEF PageInv, Follows
      <4>3. QED
        BY <4>1, <4>2 DEF Awaiting, OfPage
    <3>3. QED
      BY <1>8, <3>1, <3>2
  <2>4. ~crossed' => Follows(p)'
    BY <2>1, <2>2, <2>3 DEF Follows, Made, PageInv
  <2>5. QED
    BY <2>1, <2>2, <2>3, <2>4, PageAsks DEF Made, OfPage
<1>9. ASSUME NEW q \in asked, PageAnswered(q)
      PROVE  PageInv'
  <2>1. asked' = asked \ {q} /\ q.read /\ q.is \in OfPage /\ UNCHANGED <<roster, onPage, crossed>>
    BY <1>9 DEF PageAnswered
  <2> SUFFICES ASSUME ~crossed
               PROVE  /\ \A c, d \in roster' : c = d
                      /\ \A p \in asked' : p.is \in {"join", "leave"} => p.mine
                      /\ \A p, s \in Awaiting(OfPage)' : p = s
                      /\ \A p \in Awaiting(OfPage)' : Follows(p)'
                      /\ onPage' /\ Awaiting(OfPage)' = {} => roster' \subseteq {joinedId'}
    BY <2>1 DEF PageInv
  <2>2. CASE ~q.mine
    <3>1. joinedId' = joinedId
      BY <1>9, <2>2 DEF PageAnswered
    <3>2. Awaiting(OfPage)' = Awaiting(OfPage)
      BY <2>1, <2>2 DEF Awaiting
    <3>3. \A p \in Awaiting(OfPage) : Follows(p)'
      BY <2>1, <3>1 DEF PageInv, Follows
    <3>4. QED
      BY <2>1, <3>1, <3>2, <3>3 DEF PageInv
  <2>3. CASE q.mine
    <3> DEFINE to == CASE q.is = "joined" /\ q.ans # Nobody -> q.ans
                       [] q.is = "join" -> q.of
                       [] q.is = "leave" \/ (q.is = "poll" /\ q.ans = Nobody) -> Nobody
                       [] OTHER -> joinedId
    <3>1. joinedId' = to
      BY <1>9, <2>3 DEF PageAnswered, Joined
    <3>2. Follows(q)
      BY <2>1, <2>3 DEF PageInv, Awaiting
    <3>3. Nobody \notin roster
      BY CallConsoleAssumption DEF ConsoleTypeOK
    <3>4. roster \subseteq {to}
      <4>1. CASE q.is = "joined"
        BY <2>1, <3>2, <3>3, <4>1 DEF Follows
      <4>2. CASE q.is = "join"
        BY <2>1, <3>2, <4>2 DEF Follows
      <4>3. CASE q.is = "leave"
        BY <2>1, <3>2, <4>3 DEF Follows
      <4>4. CASE q.is = "poll"
        BY <2>1, <3>2, <3>3, <4>4 DEF Follows
      <4>5. QED
        BY <2>1, <4>1, <4>2, <4>3, <4>4 DEF OfPage
    <3> HIDE DEF to
    <3>5. Awaiting(OfPage)' = {}
      BY <2>1, <2>3 DEF PageInv, Awaiting
    <3>6. QED
      BY <2>1, <3>1, <3>4, <3>5 DEF PageInv
  <2>4. QED
    BY <2>2, <2>3
<1>10. CASE (\E c \in PreviewIds : startPreview(c)) \/ (\E is \in {"skip", "dispose"} : Advances(is))
            \/ (\E q \in asked : NextAnswered(q) \/ Advanced(q) \/ LookupAnswered(q) \/ NotesSaved(q))
            \/ endPreview \/ saveCustomerNotes \/ \E who \in People : CallBegins(who)
  <2>1. roster' = roster /\ crossed' = crossed /\ UNCHANGED <<onPage, joinedId>>
    BY <1>10 DEF startPreview, Advances, NextAnswered, Advanced, LookupAnswered, NotesSaved, endPreview,
                 saveCustomerNotes, CallBegins
  <2>2. \A q \in asked : q.is \in OfPage => q \in asked'
    BY <1>10 DEF startPreview, Advances, NextAnswered, Advanced, LookupAnswered, NotesSaved, endPreview,
                 saveCustomerNotes, CallBegins, OfPage
  <2>3. \A is, of, for : Request(is, of, for).is = is
    BY DEF Request
  <2>4. \A q \in asked' : q.is \in OfPage => q \in asked
    BY <1>10, <2>3 DEF startPreview, Advances, NextAnswered, Advanced, LookupAnswered, NotesSaved, endPreview,
                 saveCustomerNotes, CallBegins, OfPage
  <2>5. QED
    BY <2>1, <2>2, <2>4, PageKept
<1>11. CASE Reloads
  <2>1. PICK p : Made(p, "joined", Nobody, Nobody) /\ p = Request("joined", Nobody, Nobody)
    BY RequestsFitting
  <2>2. \A is, of, for : Request(is, of, for).is = is
    BY DEF Request
  <2>3. p \in asked' /\ \A q \in asked' : q.is # "next" => q = p
    BY <1>11, <2>1, <2>2 DEF Reloads
  <2>4. Awaiting(OfPage)' = {p}
    BY <2>1, <2>3 DEF Awaiting, OfPage, Made
  <2>5. Follows(p)'
    BY <1>11, <2>1 DEF Reloads, Follows, Made
  <2>6. QED
    BY <1>11, <2>1, <2>3, <2>4, <2>5 DEF Reloads, PageInv, Made
<1>12. QED
  BY <1>1, <1>2, <1>3, <1>4, <1>5, <1>6, <1>7, <1>8, <1>9, <1>10, <1>11 DEF ConsoleNext

-----------------------------------------------------------------------------
(* The leads held of a preview campaign.                                   *)

OnwardKinds == {"next", "skip", "dispose"}

\* A step that is not about the session's requests.
LEMMA LeadKept ==
  ASSUME LeadInv, held' \subseteq held, given \subseteq given', onScreen' = onScreen,
         \A q \in asked' : q.is \in OnwardKinds => q \in asked,
         \A q \in asked : q.is \in OnwardKinds => q \in asked'
  PROVE  LeadInv'
<1>1. Onward' = Onward
  BY DEF Onward, Awaiting, OnwardKinds
<1>2. \A q \in Onward : HoldsOnlyIts(q) => HoldsOnlyIts(q)'
  BY DEF HoldsOnlyIts
<1>3. QED
  BY <1>1, <1>2 DEF LeadInv

\* A request takes the session on when none is under way.
LEMMA LeadAsked ==
  ASSUME LeadInv, given' = given \cup (IF Onward = {} THEN {} ELSE Leads3),
         NEW p, p.is \in OnwardKinds, p.mine, asked' = asked \cup {p},
         Onward = {} /\ held \ given \subseteq {onScreen} => HoldsOnlyIts(p)'
  PROVE  LeadInv'
<1>1. CASE Leads3 \subseteq given'
  BY <1>1 DEF LeadInv
<1>2. CASE ~(Leads3 \subseteq given')
  <2>1. Onward = {} /\ held \ given \subseteq {onScreen}
    BY <1>2 DEF LeadInv
  <2>2. Onward' = {p}
    BY <2>1 DEF Onward, Awaiting, OnwardKinds
  <2>3. QED
    BY <2>1, <2>2 DEF LeadInv
<1>3. QED
  BY <1>1, <1>2

\* The session's only request is answered, handled or followed by another, or fails.
LEMMA LeadMoves ==
  ASSUME LeadInv, NEW q \in asked, q.is \in OnwardKinds, q.mine, given \subseteq given',
         NEW S, asked' = (asked \ {q}) \cup S, \A p, r \in S : p = r,
         \A p \in S : p.mine /\ (p.is \in OnwardKinds => (HoldsOnlyIts(q) => HoldsOnlyIts(p)')),
         (\A p \in S : p.is \notin OnwardKinds) /\ HoldsOnlyIts(q) => held' \ given' \subseteq {onScreen'}
  PROVE  LeadInv'
<1>1. CASE Leads3 \subseteq given
  BY <1>1 DEF LeadInv
<1>2. CASE ~(Leads3 \subseteq given)
  <2>1. (\A p, r \in Onward : p = r) /\ q \in Onward /\ HoldsOnlyIts(q)
    BY <1>2 DEF LeadInv, Onward, Awaiting, OnwardKinds
  <2>2. Onward' = {p \in S : p.is \in OnwardKinds}
    BY <2>1 DEF Onward, Awaiting, OnwardKinds
  <2>3. QED
    BY <2>1, <2>2 DEF LeadInv
<1>3. QED
  BY <1>1, <1>2

LEMMA LeadStep ==
  ASSUME ConsoleTypeOK, RequestsFit, ScreenFits, LeadInv, [ConsoleNext]_consoleVars
  PROVE  LeadInv'
<1> USE DEF serverVars, pageOnly, previewVars, panelVars, consoleAux
<1>0. \A is, of, for : Request(is, of, for).is = is /\ Request(is, of, for).of = of
                      /\ Request(is, of, for).mine /\ ~Request(is, of, for).read
  BY DEF Request
<1>a. Nobody \notin held \cup Leads3
  BY CallConsoleAssumption DEF ConsoleTypeOK, People
<1>1. CASE UNCHANGED consoleVars
  BY <1>1, LeadKept DEF consoleVars
<1>2. ASSUME NEW q \in asked, Handles(q)
      PROVE  LeadInv'
  <2>1. PICK r \in Requests3 :
           /\ asked' = (asked \ {q}) \cup {r}
           /\ r.is = q.is /\ r.of = q.of /\ r.for = q.for /\ r.mine = q.mine /\ r.read = TRUE
           /\ q.is = "next" => \/ r.ans = Nobody /\ held' = held
                               \/ r.ans \in Leads3 /\ r.ans[1] = q.of /\ held' = held \cup {r.ans}
           /\ q.is \in {"skip", "dispose"} => held' = held \ {q.of}
           /\ q.is \notin {"next", "skip", "dispose"} => held' = held
           /\ q.is = "joined" => (roster = {} /\ r.ans = Nobody) \/ r.ans \in roster
           /\ q.is = "poll" => r.ans = IF q.of \in roster THEN q.of ELSE Nobody
           /\ roster' = IF q.is = "join" THEN roster \cup {q.of}
                        ELSE IF q.is = "leave" THEN roster \ {q.of} ELSE roster
           /\ dealt' \in [PreviewIds -> 0..MaxLeads]
    BY <1>2, HandlesEffect
  <2>2. ~q.read /\ UNCHANGED <<onScreen, given>>
    BY <1>2 DEF Handles
  <2>3. CASE q.is \notin OnwardKinds
    BY <2>1, <2>2, <2>3, LeadKept DEF OnwardKinds
  <2>4. CASE q.is \in OnwardKinds
    <3>1. q.mine
      BY <2>4 DEF RequestsFit, Fits, OfPage, OnwardKinds
    <3>2. HoldsOnlyIts(q) => HoldsOnlyIts(r)'
      BY <2>1, <2>2, <2>4 DEF HoldsOnlyIts, OnwardKinds
    <3>3. QED
      <4>1. PICK S : S = {r}
        OBVIOUS
      <4>2. asked' = (asked \ {q}) \cup S /\ (\A p, s \in S : p = s)
        BY <2>1, <4>1
      <4>3. \A p \in S : p.mine /\ p.is \in OnwardKinds /\ (HoldsOnlyIts(q) => HoldsOnlyIts(p)')
        BY <2>1, <2>4, <3>1, <3>2, <4>1
      <4>4. \E p \in S : p.is \in OnwardKinds
        BY <4>1, <4>3
      <4>5. QED
        BY <2>2, <2>4, <3>1, <4>2, <4>3, <4>4, LeadMoves
  <2>5. QED
    BY <2>3, <2>4
<1>3. ASSUME NEW q \in asked, Fails(q)
      PROVE  LeadInv'
  <2> DEFINE S == IF q.is \in {"skip", "dispose"} THEN {Request("next", q.for, Nobody)} ELSE {}
  <2>1. /\ asked' = (asked \ {q}) \cup S /\ ~q.read /\ UNCHANGED <<onScreen, held>>
        /\ given' = given \cup IF q.is \in {"skip", "dispose"} THEN {q.of} ELSE {}
    BY <1>3 DEF Fails
  <2>2. \A p \in S : q.is \in {"skip", "dispose"} /\ p.is = "next" /\ p.mine /\ ~p.read
    BY <1>0
  <2>3. \A p, r \in S : p = r
    OBVIOUS
  <2>4. q.is \notin {"skip", "dispose"} => S = {}
    OBVIOUS
  <2>5. q.is \in {"skip", "dispose"} => S # {}
    OBVIOUS
  <2> HIDE DEF S
  <2>6. CASE q.is \notin OnwardKinds
    BY <2>1, <2>4, <2>6, LeadKept DEF OnwardKinds
  <2>7. CASE q.is \in OnwardKinds
    <3>1. q.mine
      BY <2>7 DEF RequestsFit, Fits, OfPage, OnwardKinds
    <3>2. \A p \in S : HoldsOnlyIts(q) => HoldsOnlyIts(p)'
      BY <2>1, <2>2 DEF HoldsOnlyIts
    <3>3. (\A p \in S : p.is \notin OnwardKinds) /\ HoldsOnlyIts(q) => held' \ given' \subseteq {onScreen'}
      BY <2>1, <2>2, <2>5, <2>7 DEF HoldsOnlyIts, OnwardKinds
    <3>4. QED
      BY <2>1, <2>2, <2>3, <2>7, <3>1, <3>2, <3>3, LeadMoves
  <2>8. QED
    BY <2>6, <2>7
<1>4. CASE (\E c \in AutoIds : RunEnds(c) \/ onPlay(c)) \/ Mounts \/ takeBreak \/ PollAsks \/ saveCustomerNotes
           \/ (\E who \in People : CallBegins(who))
           \/ (\E q \in asked : PageAnswered(q) \/ LookupAnswered(q) \/ NotesSaved(q))
  <2>1. UNCHANGED <<held, given, onScreen>>
    BY <1>4 DEF RunEnds, onPlay, Mounts, takeBreak, PollAsks, saveCustomerNotes, CallBegins, PageAnswered,
                LookupAnswered, NotesSaved
  <2>2. \A q \in asked : q.is \in OnwardKinds => q \in asked'
    BY <1>4 DEF RunEnds, onPlay, Mounts, takeBreak, PollAsks, saveCustomerNotes, CallBegins, PageAnswered,
                LookupAnswered, NotesSaved, OnwardKinds, OfPage
  <2>3. \A q \in asked' : q.is \in OnwardKinds => q \in asked
    BY <1>0, <1>4 DEF RunEnds, onPlay, Mounts, takeBreak, PollAsks, saveCustomerNotes, CallBegins, PageAnswered,
                LookupAnswered, NotesSaved, OnwardKinds
  <2>4. QED
    BY <2>1, <2>2, <2>3, LeadKept
<1>5. CASE Leaves
  <2>1. UNCHANGED <<held, given, onScreen>> /\ asked' = Gone
    BY <1>5 DEF Leaves
  <2>2. \A q \in asked : q.is \in OnwardKinds => q \in Gone
    BY GoneEffect DEF OnwardKinds, OfPage
  <2>3. \A q \in Gone : q.is \in OnwardKinds => q \in asked
    <3>1. ASSUME NEW r \in Gone, r.is \in OnwardKinds
          PROVE  r \in asked
      <4>1. PICK q \in asked :
               /\ r \in Requests3 /\ r.is = q.is /\ r.of = q.of /\ r.for = q.for /\ r.read = q.read /\ r.ans = q.ans
               /\ IF q.is \in OfPage THEN r.mine = FALSE ELSE r = q
        BY GoneEffect
      <4>2. QED
        BY <3>1, <4>1 DEF OnwardKinds, OfPage
    <3>2. QED
      BY <3>1
  <2>4. QED
    BY <2>1, <2>2, <2>3, LeadKept
<1>6. ASSUME NEW c \in PreviewIds, startPreview(c)
      PROVE  LeadInv'
  <2>1. PICK p : p = Request("next", c, Nobody)
    OBVIOUS
  <2>2. /\ asked' = asked \cup {p} /\ given' = given \cup (IF Onward = {} THEN {} ELSE Leads3)
        /\ UNCHANGED <<held, onScreen>> /\ banner = Nobody
    BY <1>6, <2>1 DEF startPreview, Nexting, Onward
  <2>3. p.is = "next" /\ p.mine /\ ~p.read
    BY <1>0, <2>1
  <2>4. Onward = {} /\ held \ given \subseteq {onScreen} => HoldsOnlyIts(p)'
    BY <1>a, <2>2, <2>3 DEF HoldsOnlyIts, ScreenFits
  <2>5. QED
    BY <2>2, <2>3, <2>4, LeadAsked DEF OnwardKinds
<1>7. ASSUME NEW is \in {"skip", "dispose"}, Advances(is)
      PROVE  LeadInv'
  <2>1. PICK p : p = Request(is, onScreen, session)
    OBVIOUS
  <2>2. /\ asked' = asked \cup {p} /\ given' = given \cup (IF Onward = {} THEN {} ELSE Leads3)
        /\ UNCHANGED <<held, onScreen>>
    BY <1>7, <2>1 DEF Advances, Onward
  <2>3. p.is = is /\ p.of = onScreen /\ p.mine /\ ~p.read
    BY <1>0, <2>1
  <2>4. Onward = {} /\ held \ given \subseteq {onScreen} => HoldsOnlyIts(p)'
    BY <2>2, <2>3 DEF HoldsOnlyIts
  <2>5. QED
    BY <2>2, <2>3, <2>4, LeadAsked DEF OnwardKinds
<1>8. ASSUME NEW q \in asked, NextAnswered(q)
      PROVE  LeadInv'
  <2>1. q.is = "next" /\ q.read /\ q.mine /\ onScreen' = q.ans /\ UNCHANGED <<held, given>>
    BY <1>8 DEF NextAnswered, RequestsFit, Fits, OfPage
  <2> DEFINE S == IF q.ans = Nobody THEN {} ELSE {Request("lookup", q.ans, Nobody)}
  <2>2. asked' = (asked \ {q}) \cup S /\ (\A p, r \in S : p = r) /\ \A p \in S : p.is = "lookup" /\ p.mine
    <3>1. asked' = (asked \ {q}) \cup S
      BY <1>8 DEF NextAnswered
    <3>2. QED
      BY <1>0, <3>1
  <2> HIDE DEF S
  <2>3. HoldsOnlyIts(q) => held' \ given' \subseteq {onScreen'}
    BY <2>1 DEF HoldsOnlyIts
  <2>4. QED
    BY <2>1, <2>2, <2>3, LeadMoves DEF OnwardKinds
<1>9. ASSUME NEW q \in asked, Advanced(q)
      PROVE  LeadInv'
  <2>1. q.is \in {"skip", "dispose"} /\ q.read /\ q.mine /\ UNCHANGED <<held, given, onScreen>>
    BY <1>9 DEF Advanced, RequestsFit, Fits, OfPage
  <2>2. PICK p : p = Request("next", q.for, Nobody)
    OBVIOUS
  <2>3. asked' = (asked \ {q}) \cup {p} /\ p.is = "next" /\ p.mine /\ ~p.read
    BY <1>0, <1>9, <2>2 DEF Advanced
  <2>4. HoldsOnlyIts(q) => HoldsOnlyIts(p)'
    BY <2>1, <2>3 DEF HoldsOnlyIts
  <2>5. QED
    <3>1. PICK S : S = {p}
      OBVIOUS
    <3>2. asked' = (asked \ {q}) \cup S /\ (\A r, s \in S : r = s)
      BY <2>3, <3>1
    <3>3. \A r \in S : r.mine /\ r.is \in OnwardKinds /\ (HoldsOnlyIts(q) => HoldsOnlyIts(r)')
      BY <2>3, <2>4, <3>1 DEF OnwardKinds
    <3>4. \E r \in S : r.is \in OnwardKinds
      BY <3>1, <3>3
    <3>5. q.is \in OnwardKinds
      BY <2>1 DEF OnwardKinds
    <3>6. QED
      BY <2>1, <3>2, <3>3, <3>4, <3>5, LeadMoves
<1>10. CASE endPreview
  <2>1. /\ given' = given \cup IF Onward = {} THEN held ELSE Leads3
        /\ UNCHANGED <<held, asked>>
    BY <1>10 DEF endPreview, Onward
  <2>2. QED
    BY <2>1 DEF LeadInv, Onward, Awaiting
<1>11. CASE Reloads
  <2>1. given' = given \cup held \cup (IF Onward = {} THEN {} ELSE Leads3) /\ held' = held
    BY <1>11 DEF Reloads, Onward
  <2>2. asked' = {Request("joined", Nobody, Nobody)}
                    \cup IF saved = Nobody THEN {} ELSE {Request("next", saved, Nobody)}
    BY <1>11 DEF Reloads
  <2>3. Onward' \subseteq {Request("next", saved, Nobody)} /\ \A q \in Onward' : q.is = "next" /\ ~q.read
    BY <1>0, <2>2 DEF Onward, Awaiting
  <2>4. (\A q \in Onward' : HoldsOnlyIts(q)') /\ (\A q, r \in Onward' : q = r) /\ held' \ given' = {}
    BY <2>1, <2>3 DEF HoldsOnlyIts
  <2>5. QED
    BY <2>4 DEF LeadInv
<1>12. QED
  BY <1>1, <1>2, <1>3, <1>4, <1>5, <1>6, <1>7, <1>8, <1>9, <1>10, <1>11 DEF ConsoleNext

-----------------------------------------------------------------------------
LEMMA ConsoleStart == ConsoleInit => ConsoleInv
<1> SUFFICES ASSUME ConsoleInit
             PROVE  ConsoleInv
  OBVIOUS
<1>1. PICK p : p \in Requests3 /\ Fits(p) /\ Made(p, "joined", Nobody, Nobody) /\ asked = {p}
  BY RequestsFitting DEF ConsoleInit, Made
<1>2. ConsoleTypeOK
  <2>1. roster \subseteq AutoIds
    BY DEF ConsoleInit
  <2>2. dealt \in [PreviewIds -> 0..MaxLeads] /\ moves \in 0..MaxMoves
    BY CallConsoleAssumption DEF ConsoleInit
  <2>3. asked \subseteq Requests3
    BY <1>1
  <2>4. held \cup given \subseteq Leads3
    BY DEF ConsoleInit
  <2>5. QED
    BY <2>1, <2>2, <2>3, <2>4 DEF ConsoleInit, ConsoleTypeOK
<1>3. RequestsFit /\ ScreenFits
  BY <1>1 DEF ConsoleInit, RequestsFit, ScreenFits, PanelIsOfItsCustomer, Awaiting
<1>4. PageInv
  <2>1. Follows(p) /\ Awaiting(OfPage) = {p}
    BY <1>1 DEF ConsoleInit, Follows, Made, Awaiting, OfPage
  <2>2. \A c, d \in roster : c = d
    BY DEF ConsoleInit
  <2>3. QED
    BY <1>1, <2>1, <2>2 DEF PageInv, Made
<1>5. LeadInv
  <2>1. Onward = {} /\ held = {}
    BY <1>1 DEF ConsoleInit, Onward, Awaiting, Made
  <2>2. QED
    BY <2>1 DEF LeadInv
<1>6. QED
  BY <1>2, <1>3, <1>4, <1>5 DEF ConsoleInv

LEMMA ConsoleInvStep == ConsoleInv /\ [ConsoleNext]_consoleVars => ConsoleInv'
<1> SUFFICES ASSUME ConsoleInv, [ConsoleNext]_consoleVars
             PROVE  ConsoleInv'
  OBVIOUS
<1>1. ConsoleTypeOK /\ RequestsFit /\ ScreenFits /\ PageInv /\ LeadInv
  BY DEF ConsoleInv
<1>2. ConsoleTypeOK' /\ RequestsFit'
  <2>1. CASE UNCHANGED consoleVars
    BY <1>1, <2>1 DEF consoleVars, serverVars, pageOnly, previewVars, panelVars, consoleAux,
                      ConsoleTypeOK, RequestsFit, Awaiting
  <2>2. CASE ConsoleNext
    BY <1>1, <2>2, ServerTypes, PageTypes, PreviewTypes, PanelTypes DEF ConsoleNext
  <2>3. QED
    BY <2>1, <2>2
<1>3. QED
  BY <1>1, <1>2, ScreenStep, PageStep, LeadStep DEF ConsoleInv

\* The inductive invariant of the Console.
THEOREM ConsoleInvariant == ConsoleSpec => []ConsoleInv
<1>1. QED
  BY ConsoleStart, ConsoleInvStep, PTL DEF ConsoleSpec

\* The agent's Console never leaves its type, for any campaigns, leads and moves.
THEOREM ConsoleTypeCorrect == ConsoleSpec => []ConsoleTypeOK
<1>1. ConsoleInv => ConsoleTypeOK
  BY DEF ConsoleInv
<1>2. QED
  BY <1>1, ConsoleInvariant, PTL

\* What CallProvider tags a call with belongs together, and once the page has its answers it
\* shows what the server has, in whatever order clicks, answers, calls and ends of runs come.
THEOREM ConsoleShowsTheTruth == ConsoleSpec => []ConsoleIsTrue
<1>1. ConsoleInv => ConsoleIsTrue
  <2> SUFFICES ASSUME ConsoleInv
               PROVE  ConsoleIsTrue
    OBVIOUS
  <2>1. onPage /\ ~crossed /\ Awaiting(OfPage) = {} => roster \subseteq {joinedId}
    BY DEF ConsoleInv, PageInv
  <2>2. Awaiting({"next", "skip", "dispose"}) = {} => held \ given \subseteq {onScreen}
    BY DEF ConsoleInv, LeadInv, Onward, ConsoleTypeOK
  <2>3. QED
    BY <2>1, <2>2 DEF ConsoleInv, ScreenFits, ConsoleIsTrue, ConsoleIsTheServers
<1>2. QED
  BY <1>1, ConsoleInvariant, PTL

(***************************************************************************)
(* The boards.  BoardsAgree compares what readers make of an agent, so the *)
(* invariant ties its rows to its channels (only the box's row is ever on a*)
(* queue's call, and then the call's channel is there), and what a poll has*)
(* read so far to what it would read now, until something changes.         *)
(***************************************************************************)

\* One row for each domain; the loopback's is made when the domain could not be asked for.
RowsApart ==
  \A i \in DOMAIN ccRows :
    /\ \A j \in DOMAIN ccRows : ccRows[i].domain = ccRows[j].domain => i = j
    /\ ccRows[i].domain = "loopback" => ~configured /\ blips > 0 /\ ccRows[i].state = "Waiting"

\* A row is busy exactly as long as the queue's call has a channel.
ChannelsFit ==
  /\ ("queue" \in channels) <=> (\E i \in DOMAIN ccRows : ccRows[i].state # "Waiting")
  /\ channels # {} => registered

RowResolved == setting # NoSetting => setting.row \in DOMAIN ccRows /\ setting.status \in AgentStatuses

PollIsTrue ==
  poll.fresh =>
    /\ poll.at # "idle"
    /\ poll.at \in {"registrations", "rows"} => poll.onCall = (channels # {})
    /\ poll.at = "rows" => poll.reg = registered
    /\ poll.at = "answer" => poll.says = BoardNow

CardIsTrue ==
  /\ fresh => everReal /\ card = BoardNow
  /\ everReal => card \in Shown

BoardsInv == BoardsTypeOK /\ RowsApart /\ ChannelsFit /\ RowResolved /\ PollIsTrue /\ CardIsTrue

PollRec == [at : {"idle", "registrations", "rows", "answer"}, onCall : BOOLEAN, reg : BOOLEAN, says : Shown, fresh : BOOLEAN]

-----------------------------------------------------------------------------
LEMMA SeqOfFunction ==
  ASSUME NEW S
  PROVE  \A n \in Nat : \A f \in [1..n -> S] : f \in Seq(S) /\ Len(f) = n /\ DOMAIN f = 1..n
OBVIOUS

\* A row is written, under the same domain.
SetsRow(i, r) ==
  /\ ccRows' \in Seq(RowRec) /\ Len(ccRows') = Len(ccRows) /\ DOMAIN ccRows' = DOMAIN ccRows
  /\ \A j \in DOMAIN ccRows \ {i} : ccRows'[j] = ccRows[j]
  /\ ccRows'[i] = r /\ r.domain = ccRows[i].domain

LEMMA RowWritten ==
  ASSUME BoardsTypeOK, NEW i \in DOMAIN ccRows, NEW r \in RowRec, r.domain = ccRows[i].domain,
         ccRows' = [ccRows EXCEPT ![i] = r]
  PROVE  SetsRow(i, r)
<1>1. ccRows \in Seq(RowRec)
  BY DEF BoardsTypeOK
<1>2. QED
  BY <1>1 DEF SetsRow

\* The row in another state, or with another status.
LEMMA RowStates ==
  ASSUME BoardsTypeOK, NEW i \in DOMAIN ccRows
  PROVE  /\ ccRows[i] \in RowRec
         /\ \A s \in AgentStates :
              LET r == [ccRows[i] EXCEPT !.state = s]
              IN  r \in RowRec /\ r.domain = ccRows[i].domain /\ r.status = ccRows[i].status /\ r.state = s
         /\ \A a \in AgentStatuses :
              LET r == [ccRows[i] EXCEPT !.status = a]
              IN  r \in RowRec /\ r.domain = ccRows[i].domain /\ r.status = a /\ r.state = ccRows[i].state
         /\ LET r == [ccRows[i] EXCEPT !.state = "Waiting", !.status = "On Break"]
            IN  r \in RowRec /\ r.domain = ccRows[i].domain /\ r.state = "Waiting"
<1>1. ccRows[i] \in RowRec
  BY DEF BoardsTypeOK
<1>2. PICK x : x = ccRows[i]
  OBVIOUS
<1>3. x \in RowRec
  BY <1>1, <1>2
<1>4. QED
  BY <1>2, <1>3 DEF RowRec, AgentStates, AgentStatuses

\* What a poll has read is stale from here on.
LEMMA ChangesTrue ==
  ASSUME BoardsTypeOK, CardIsTrue, Changes
  PROVE  PollIsTrue' /\ CardIsTrue' /\ poll' \in PollRec /\ fresh' = FALSE
<1>1. poll \in PollRec
  BY DEF BoardsTypeOK, PollRec
<1>2. PICK p : p = poll
  OBVIOUS
<1>3. [p EXCEPT !.fresh = FALSE] \in PollRec /\ [p EXCEPT !.fresh = FALSE].fresh = FALSE
  BY <1>1, <1>2 DEF PollRec
<1>4. QED
  BY <1>2, <1>3 DEF Changes, PollIsTrue, CardIsTrue

\* A row at the box takes a state, which its queue's channel follows.
LEMMA BusyRow ==
  ASSUME BoardsInv, NEW i \in BoxRow, NEW r \in RowRec, SetsRow(i, r),
         r.state = "Waiting" => channels' = channels \ {"queue"},
         r.state # "Waiting" => channels' = channels \cup {"queue"} /\ registered,
         UNCHANGED registered, Outside
  PROVE  BoardsInv'
<1>1. i \in DOMAIN ccRows /\ ccRows[i].domain = "box"
  BY DEF BoxRow
<1>2. \A j \in DOMAIN ccRows \ {i} : ccRows[j].state = "Waiting"
  <2>1. \A j \in DOMAIN ccRows : ccRows[j] \in RowRec
    BY DEF BoardsInv, BoardsTypeOK
  <2>2. QED
    BY <1>1, <2>1 DEF BoardsInv, RowsApart, RowRec
<1>3. RowsApart'
  BY <1>1 DEF SetsRow, BoardsInv, RowsApart, Outside
<1>4. ChannelsFit'
  BY <1>1, <1>2 DEF SetsRow, BoardsInv, ChannelsFit
<1>5. RowResolved'
  BY DEF SetsRow, BoardsInv, RowResolved, Outside
<1>6. PollIsTrue' /\ CardIsTrue' /\ poll' \in PollRec /\ fresh' = FALSE
  BY ChangesTrue DEF BoardsInv, Outside
<1>7. channels' \subseteq {"queue", "direct"}
  BY DEF BoardsInv, BoardsTypeOK
<1>8. BoardsTypeOK'
  BY <1>6, <1>7 DEF SetsRow, BoardsInv, BoardsTypeOK, PollRec, Outside, Changes
<1>9. QED
  BY <1>3, <1>4, <1>5, <1>6, <1>8 DEF BoardsInv

LEMMA QueueSteps ==
  ASSUME BoardsInv, NEW i \in BoxRow, Offered(i) \/ QueueAnswered(i) \/ Missed(i) \/ QueueEnds(i)
  PROVE  BoardsInv'
<1>1. BoardsTypeOK /\ i \in DOMAIN ccRows
  BY DEF BoardsInv, BoxRow
<1>2. PICK r \in RowRec :
        /\ SetsRow(i, r)
        /\ \/ Offered(i) /\ r.state = "Receiving"
           \/ QueueAnswered(i) /\ r.state = "In a queue call"
           \/ (Missed(i) \/ QueueEnds(i)) /\ r.state = "Waiting"
  <2>1. ASSUME NEW s \in AgentStates, ccRows' = InState(i, s)
        PROVE  \E r \in RowRec : SetsRow(i, r) /\ r.state = s
    <3>1. PICK r : r = [ccRows[i] EXCEPT !.state = s]
      OBVIOUS
    <3>2. r \in RowRec /\ r.domain = ccRows[i].domain /\ r.state = s
      BY <1>1, <3>1, RowStates
    <3>3. ccRows' = [ccRows EXCEPT ![i] = r]
      BY <2>1, <3>1 DEF InState
    <3>4. QED
      BY <1>1, <3>2, <3>3, RowWritten
  <2>2. ASSUME ccRows' = [ccRows EXCEPT ![i] = [ccRows[i] EXCEPT !.state = "Waiting", !.status = "On Break"]]
        PROVE  \E r \in RowRec : SetsRow(i, r) /\ r.state = "Waiting"
    <3>1. PICK r : r = [ccRows[i] EXCEPT !.state = "Waiting", !.status = "On Break"]
      OBVIOUS
    <3>2. r \in RowRec /\ r.domain = ccRows[i].domain /\ r.state = "Waiting"
      BY <1>1, <3>1, RowStates
    <3>3. ccRows' = [ccRows EXCEPT ![i] = r]
      BY <2>2, <3>1
    <3>4. QED
      BY <1>1, <3>2, <3>3, RowWritten
  <2>3. QED
    BY <2>1, <2>2 DEF Offered, QueueAnswered, Missed, QueueEnds, AgentStates
<1>3. Outside /\ UNCHANGED registered
  BY DEF Offered, QueueAnswered, Missed, QueueEnds
<1>4. CASE Offered(i) /\ r.state = "Receiving"
  BY <1>2, <1>3, <1>4, BusyRow DEF Offered
<1>5. CASE QueueAnswered(i) /\ r.state = "In a queue call"
  <2>1. "queue" \in channels /\ registered /\ channels' = channels
    BY <1>1, <1>5 DEF QueueAnswered, BoardsInv, ChannelsFit
  <2>2. QED
    BY <1>2, <1>3, <1>5, <2>1, BusyRow
<1>6. CASE (Missed(i) \/ QueueEnds(i)) /\ r.state = "Waiting"
  BY <1>2, <1>3, <1>6, BusyRow DEF Missed, QueueEnds
<1>7. QED
  BY <1>2, <1>4, <1>5, <1>6

LEMMA LineSteps ==
  ASSUME BoardsInv, PhoneComes \/ PhoneGoes \/ DirectStarts \/ DirectEnds
  PROVE  BoardsInv'
<1>1. Outside
  BY DEF PhoneComes, PhoneGoes, DirectStarts, DirectEnds
<1>2. PollIsTrue' /\ CardIsTrue' /\ poll' \in PollRec /\ fresh' = FALSE
  BY <1>1, ChangesTrue DEF BoardsInv, Outside
<1>3. UNCHANGED <<configured, setting, blips, card, everReal>>
  BY <1>1 DEF Outside, Changes
<1>4. CASE PhoneComes \/ DirectStarts \/ DirectEnds
  <2>1. channels' \subseteq {"queue", "direct"} /\ registered' \in BOOLEAN
    BY <1>4 DEF PhoneComes, DirectStarts, DirectEnds, BoardsInv, BoardsTypeOK
  <2>2. ccRows' = ccRows
    BY <1>4 DEF PhoneComes, DirectStarts, DirectEnds
  <2>3. ("queue" \in channels' <=> "queue" \in channels) /\ (channels' # {} => registered')
    BY <1>4 DEF PhoneComes, DirectStarts, DirectEnds, BoardsInv, ChannelsFit
  <2>4. ChannelsFit'
    BY <2>2, <2>3 DEF BoardsInv, ChannelsFit
  <2>5. BoardsTypeOK' /\ RowsApart' /\ RowResolved'
    BY <1>2, <1>3, <2>1, <2>2 DEF BoardsInv, BoardsTypeOK, RowsApart, RowResolved, PollRec
  <2>6. QED
    BY <1>2, <2>4, <2>5 DEF BoardsInv
<1>5. CASE PhoneGoes
  <2>1. registered' = FALSE /\ channels' = {} /\ ccRows' = [i \in DOMAIN ccRows |-> [ccRows[i] EXCEPT !.state = "Waiting"]]
    BY <1>5 DEF PhoneGoes
  <2>2. BoardsTypeOK
    BY DEF BoardsInv
  <2>3. \A i \in DOMAIN ccRows : ccRows'[i] \in RowRec /\ ccRows'[i].domain = ccRows[i].domain /\ ccRows'[i].state = "Waiting"
    <3>1. ASSUME NEW i \in DOMAIN ccRows
          PROVE  ccRows'[i] \in RowRec /\ ccRows'[i].domain = ccRows[i].domain /\ ccRows'[i].state = "Waiting"
      <4>1. ccRows'[i] = [ccRows[i] EXCEPT !.state = "Waiting"]
        BY <2>1
      <4>2. QED
        BY <2>2, <4>1, RowStates DEF AgentStates
    <3>2. QED
      BY <3>1
  <2>4. PICK n \in Nat : n = Len(ccRows) /\ DOMAIN ccRows = 1..n
    BY <2>2 DEF BoardsTypeOK
  <2>5. ccRows' \in [1..n -> RowRec]
    BY <2>1, <2>3, <2>4
  <2>6. ccRows' \in Seq(RowRec) /\ Len(ccRows') = Len(ccRows) /\ DOMAIN ccRows' = DOMAIN ccRows
    BY <2>4, <2>5, SeqOfFunction
  <2>7. RowsApart' /\ ChannelsFit' /\ RowResolved'
    <3>1. RowsApart'
      BY <1>3, <2>3, <2>6 DEF BoardsInv, RowsApart
    <3>2. ChannelsFit'
      BY <2>1, <2>3, <2>6 DEF ChannelsFit
    <3>3. RowResolved'
      BY <1>3, <2>6 DEF BoardsInv, RowResolved
    <3>4. QED
      BY <3>1, <3>2, <3>3
  <2>8. BoardsTypeOK'
    BY <1>2, <1>3, <2>1, <2>6 DEF BoardsInv, BoardsTypeOK, PollRec
  <2>9. QED
    BY <1>2, <2>7, <2>8 DEF BoardsInv
<1>6. QED
  BY <1>4, <1>5

\* The agent's row at a domain, made when there is none.
LEMMA RowEnsured ==
  ASSUME BoardsInv, NEW d \in {"box", "loopback"}, Domain(d), ccRows' = Ensured(d), UNCHANGED <<configured, channels, registered>>
  PROVE  /\ ccRows' \in Seq(RowRec) /\ Len(ccRows') \leq 2 /\ DOMAIN ccRows \subseteq DOMAIN ccRows'
         /\ DOMAIN ccRows' \subseteq 0..2 /\ \E i \in DOMAIN ccRows' : ccRows'[i].domain = d
         /\ RowsApart' /\ ChannelsFit' /\ blips' \in 0..MaxBlips
<1> DEFINE new == [domain |-> d, status |-> "Logged Out", state |-> "Waiting"]
<1>1. /\ ccRows \in Seq(RowRec) /\ Len(ccRows) \in 0..2 /\ blips \in 0..MaxBlips
      /\ \A i \in DOMAIN ccRows : ccRows[i] \in RowRec
  <2>1. ccRows \in Seq(RowRec) /\ Len(ccRows) \leq 2 /\ blips \in 0..MaxBlips
    BY DEF BoardsInv, BoardsTypeOK
  <2>2. Len(ccRows) \in Nat
    BY <2>1
  <2>3. \A i \in DOMAIN ccRows : ccRows[i] \in RowRec
    BY <2>1
  <2>4. Len(ccRows) \in 0..2
    <3>1. PICK n \in Nat : n = Len(ccRows)
      BY <2>2
    <3>2. n \leq 2
      BY <2>1, <3>1
    <3>3. n \in 0..2
      BY <3>2
    <3>4. QED
      BY <3>1, <3>3
  <2>5. QED
    BY <2>1, <2>3, <2>4
<1>2. /\ blips' \in 0..MaxBlips /\ blips' >= blips
      /\ d = "loopback" => ~configured /\ blips' > 0
  BY <1>1, BoardsAssumption DEF Domain
<1>3. new \in RowRec /\ new.domain = d /\ new.state = "Waiting"
  BY DEF RowRec, AgentStatuses, AgentStates
<1>4. CASE \E i \in DOMAIN ccRows : ccRows[i].domain = d
  <2>1. ccRows' = ccRows
    BY <1>4 DEF Ensured
  <2>2. QED
    BY <1>1, <1>2, <1>4, <2>1 DEF BoardsInv, RowsApart, ChannelsFit
<1>5. CASE ~\E i \in DOMAIN ccRows : ccRows[i].domain = d
  <2>1. ccRows' = Append(ccRows, new)
    BY <1>5 DEF Ensured
  <2> HIDE DEF new
  <2>2. PICK n \in 0..2 : n = Len(ccRows) /\ DOMAIN ccRows = 1..n
    BY <1>1
  <2>3. /\ ccRows' \in Seq(RowRec) /\ Len(ccRows') = n + 1 /\ DOMAIN ccRows' = 1..n + 1
        /\ ccRows'[n + 1] = new /\ \A i \in 1..n : ccRows'[i] = ccRows[i]
    BY <1>1, <1>3, <2>1, <2>2
  <2>4. n \leq 1
    <3>1. SUFFICES ASSUME n = 2
                   PROVE  FALSE
      BY <2>2
    <3>2. ccRows[1] \in RowRec /\ ccRows[2] \in RowRec /\ 1 \in DOMAIN ccRows /\ 2 \in DOMAIN ccRows
      BY <1>1, <2>2, <3>1
    <3>3. ccRows[1].domain # ccRows[2].domain
      BY <3>2 DEF BoardsInv, RowsApart
    <3>4. QED
      BY <1>5, <3>2, <3>3 DEF RowRec
  <2>5. \A i \in 1..n : ccRows'[i].domain # d
    BY <1>5, <2>2, <2>3
  <2>6. RowsApart'
    <3>1. ASSUME NEW i \in 1..n + 1
          PROVE  /\ \A j \in 1..n + 1 : ccRows'[i].domain = ccRows'[j].domain => i = j
                 /\ ccRows'[i].domain = "loopback" => ~configured /\ blips' > 0 /\ ccRows'[i].state = "Waiting"
      <4>1. CASE i = n + 1
        BY <1>2, <1>3, <2>2, <2>3, <2>5, <4>1
      <4>2. CASE i # n + 1
        <5>1. i \in 1..n
          BY <2>2, <4>2
        <5>2. ccRows'[i].domain # d
          BY <2>5, <5>1
        <5>3. ASSUME NEW j \in 1..n + 1, ccRows'[i].domain = ccRows'[j].domain
              PROVE  i = j
          <6>1. j \in 1..n
            BY <1>3, <2>2, <2>3, <5>2, <5>3
          <6>2. QED
            BY <2>2, <2>3, <5>1, <5>3, <6>1 DEF BoardsInv, RowsApart
        <5>4. ccRows'[i].domain = "loopback" => ~configured /\ blips' > 0 /\ ccRows'[i].state = "Waiting"
          BY <1>1, <1>2, <2>2, <2>3, <5>1 DEF BoardsInv, RowsApart
        <5>5. QED
          BY <5>3, <5>4
      <4>3. QED
        BY <4>1, <4>2
    <3>2. configured' = configured
      OBVIOUS
    <3>3. QED
      BY <2>3, <3>1, <3>2 DEF RowsApart
  <2>7. (\E i \in 1..n + 1 : ccRows'[i].state # "Waiting") <=> (\E i \in 1..n : ccRows[i].state # "Waiting")
    BY <1>3, <2>2, <2>3
  <2>8. ChannelsFit'
    BY <2>2, <2>3, <2>7 DEF BoardsInv, ChannelsFit
  <2>9. QED
    BY <1>2, <1>3, <2>2, <2>3, <2>4, <2>6, <2>8
<1>6. QED
  BY <1>4, <1>5

LEMMA StatusAsked ==
  ASSUME BoardsInv, NEW a \in AgentStatuses, SetAgentStatus(a),
         Changes \/ (card' \in Shown /\ card \in Shown /\ poll' = [poll EXCEPT !.fresh = FALSE] /\ fresh' = FALSE /\ UNCHANGED everReal)
  PROVE  BoardsInv'
<1>1. PICK d \in {"box", "loopback"} :
        /\ Domain(d) /\ ccRows' = Ensured(d)
        /\ setting' = [status |-> a, row |-> CHOOSE i \in DOMAIN ccRows' : ccRows'[i].domain = d]
  BY DEF SetAgentStatus
<1>2. UNCHANGED <<configured, registered, channels>>
  BY DEF SetAgentStatus
<1>3. /\ ccRows' \in Seq(RowRec) /\ Len(ccRows') \leq 2 /\ DOMAIN ccRows \subseteq DOMAIN ccRows'
      /\ DOMAIN ccRows' \subseteq 0..2 /\ \E i \in DOMAIN ccRows' : ccRows'[i].domain = d
      /\ RowsApart' /\ ChannelsFit' /\ blips' \in 0..MaxBlips
  BY <1>1, <1>2, RowEnsured
<1>4. PICK row : row = CHOOSE i \in DOMAIN ccRows' : ccRows'[i].domain = d
  OBVIOUS
<1>5. row \in DOMAIN ccRows'
  BY <1>3, <1>4
<1>6. setting' = [status |-> a, row |-> row] /\ row \in 0..2
  BY <1>1, <1>3, <1>4, <1>5
<1>7. RowResolved' /\ setting' \in [status : AgentStatuses \cup {"none"}, row : 0..2]
  BY <1>5, <1>6 DEF RowResolved
<1>8. PollIsTrue' /\ CardIsTrue' /\ poll' \in PollRec /\ fresh' = FALSE /\ card' \in Shown \cup {"nothing", "demo"} /\ everReal' = everReal
  <2>1. CASE Changes
    BY <2>1, ChangesTrue DEF BoardsInv, BoardsTypeOK, Changes
  <2>2. CASE card' \in Shown /\ card \in Shown /\ poll' = [poll EXCEPT !.fresh = FALSE] /\ fresh' = FALSE /\ UNCHANGED everReal
    <3>1. PICK p : p = poll
      OBVIOUS
    <3>2. p \in PollRec
      BY <3>1 DEF BoardsInv, BoardsTypeOK, PollRec
    <3>3. [p EXCEPT !.fresh = FALSE] \in PollRec /\ [p EXCEPT !.fresh = FALSE].fresh = FALSE
      BY <3>2 DEF PollRec
    <3>4. QED
      BY <2>2, <3>1, <3>3 DEF PollIsTrue, CardIsTrue
  <2>3. QED
    BY <2>1, <2>2
<1>9. BoardsTypeOK'
  BY <1>2, <1>3, <1>7, <1>8 DEF BoardsInv, BoardsTypeOK, PollRec
<1>10. QED
  BY <1>3, <1>7, <1>8, <1>9 DEF BoardsInv

LEMMA StatusSteps ==
  ASSUME BoardsInv, ConsoleSets \/ ToggleBreak \/ StatusSet
  PROVE  BoardsInv'
<1>1. CASE ConsoleSets
  BY <1>1, StatusAsked DEF ConsoleSets
<1>2. CASE ToggleBreak
  <2>1. PICK a \in AgentStatuses : SetAgentStatus(a)
    BY <1>2 DEF ToggleBreak, AgentStatuses
  <2>2. card' \in Shown /\ card \in Shown /\ poll' = [poll EXCEPT !.fresh = FALSE] /\ fresh' = FALSE /\ UNCHANGED everReal
    BY <1>2 DEF ToggleBreak, Shown
  <2>3. QED
    BY <2>1, <2>2, StatusAsked
<1>3. CASE StatusSet
  <2>1. PollIsTrue' /\ CardIsTrue' /\ poll' \in PollRec /\ fresh' = FALSE /\ UNCHANGED <<card, everReal>>
    BY <1>3, ChangesTrue DEF StatusSet, BoardsInv, Changes
  <2>2. UNCHANGED <<configured, registered, channels>> /\ setting' = NoSetting /\ setting # NoSetting
    BY <1>3 DEF StatusSet
  <2>3. setting.row \in DOMAIN ccRows /\ setting.status \in AgentStatuses
    BY <2>2 DEF BoardsInv, RowResolved
  <2>4. CASE ccRows' = [ccRows EXCEPT ![setting.row] = [ccRows[setting.row] EXCEPT !.status = setting.status]] /\ UNCHANGED blips
    <3>1. PICK i, a : i = setting.row /\ a = setting.status
      OBVIOUS
    <3>2. PICK r : r = [ccRows[i] EXCEPT !.status = a]
      OBVIOUS
    <3>3. BoardsTypeOK /\ i \in DOMAIN ccRows /\ a \in AgentStatuses
      BY <2>3, <3>1 DEF BoardsInv
    <3>4. r \in RowRec /\ r.domain = ccRows[i].domain /\ r.state = ccRows[i].state
      BY <3>2, <3>3, RowStates
    <3>5. ccRows' = [ccRows EXCEPT ![i] = r]
      BY <2>4, <3>1, <3>2
    <3>6. SetsRow(i, r)
      BY <3>3, <3>4, <3>5, RowWritten
    <3>7. RowsApart' /\ ChannelsFit' /\ RowResolved'
      BY <2>2, <2>4, <3>3, <3>4, <3>6 DEF SetsRow, BoardsInv, RowsApart, ChannelsFit, RowResolved
    <3>8. setting' \in [status : AgentStatuses \cup {"none"}, row : 0..2]
      BY <2>2 DEF NoSetting
    <3>9. BoardsTypeOK'
      BY <2>1, <2>2, <2>4, <3>6, <3>8 DEF SetsRow, BoardsInv, BoardsTypeOK, PollRec
    <3>10. QED
      BY <2>1, <3>7, <3>9 DEF BoardsInv
  <2>5. CASE blips < MaxBlips /\ blips' = blips + 1 /\ UNCHANGED ccRows
    <3>1. blips' \in 0..MaxBlips /\ (blips > 0 => blips' > 0)
      BY <2>5, BoardsAssumption DEF BoardsInv, BoardsTypeOK
    <3>2. RowsApart' /\ ChannelsFit' /\ RowResolved'
      BY <2>2, <2>5, <3>1 DEF BoardsInv, RowsApart, ChannelsFit, RowResolved
    <3>3. setting' \in [status : AgentStatuses \cup {"none"}, row : 0..2]
      BY <2>2 DEF NoSetting
    <3>4. BoardsTypeOK'
      BY <2>1, <2>2, <2>5, <3>1, <3>3 DEF BoardsInv, BoardsTypeOK, PollRec
    <3>5. QED
      BY <2>1, <3>2, <3>4 DEF BoardsInv
  <2>6. QED
    BY <1>3, <2>4, <2>5 DEF StatusSet
<1>4. QED
  BY <1>1, <1>2, <1>3

-----------------------------------------------------------------------------
\* What the board says is of the kinds shown, and "on-call" exactly with a channel.
LEMMA BoardSays ==
  /\ \A c, reg \in BOOLEAN : \A st \in AgentStatuses \cup {"none"} :
       AgentsBoard(c, reg, st) \in Shown /\ (AgentsBoard(c, reg, st) = "on-call" <=> c)
  /\ BoardsTypeOK => LastStatus \in AgentStatuses \cup {"none"}
<1>1. ASSUME NEW c \in BOOLEAN, NEW reg \in BOOLEAN, NEW st \in AgentStatuses \cup {"none"}
      PROVE  AgentsBoard(c, reg, st) \in Shown /\ (AgentsBoard(c, reg, st) = "on-call" <=> c)
  <2>1. CASE c
    BY <2>1 DEF AgentsBoard, Shown
  <2>2. CASE ~c /\ st = "Logged Out"
    BY <2>2 DEF AgentsBoard, Shown
  <2>3. CASE ~c /\ st = "On Break"
    BY <2>3 DEF AgentsBoard, Shown
  <2>4. CASE ~c /\ st \notin {"Logged Out", "On Break"} /\ reg
    BY <2>4 DEF AgentsBoard, Shown
  <2>5. CASE ~c /\ st \notin {"Logged Out", "On Break"} /\ ~reg
    BY <2>5 DEF AgentsBoard, Shown
  <2>6. QED
    BY <2>1, <2>2, <2>3, <2>4, <2>5
<1>2. ASSUME BoardsTypeOK
      PROVE  LastStatus \in AgentStatuses \cup {"none"}
  <2>1. CASE ccRows = <<>>
    BY <2>1 DEF LastStatus
  <2>2. CASE ccRows # <<>>
    <3>1. ccRows \in Seq(RowRec)
      BY <1>2 DEF BoardsTypeOK
    <3>2. Len(ccRows) \in DOMAIN ccRows
      BY <2>2, <3>1
    <3>3. ccRows[Len(ccRows)] \in RowRec
      BY <3>1, <3>2
    <3>4. QED
      BY <2>2, <3>3 DEF LastStatus, RowRec
  <2>3. QED
    BY <2>1, <2>2
<1>3. QED
  BY <1>1, <1>2

LEMMA PollSteps ==
  ASSUME BoardsInv, PollStarts \/ PollRegistrations \/ PollRows \/ PollShows \/ PollFails
  PROVE  BoardsInv'
<1>1. UNCHANGED <<configured, registered, ccRows, channels, setting>> /\ BoardNow' = BoardNow
  <2>1. UNCHANGED <<configured, registered, ccRows, channels, setting>>
    BY DEF PollStarts, PollRegistrations, PollRows, PollShows, PollFails, PollOnly, lineVars
  <2>2. LastStatus' = LastStatus
    BY <2>1 DEF LastStatus
  <2>3. QED
    BY <2>1, <2>2 DEF BoardNow, AgentsBoard
<1>2. blips' \in 0..MaxBlips /\ (blips > 0 => blips' > 0)
  BY BoardsAssumption DEF PollStarts, PollRegistrations, PollRows, PollShows, PollFails, Blips, BoardsInv, BoardsTypeOK
<1>3. RowsApart' /\ ChannelsFit' /\ RowResolved'
  BY <1>1, <1>2 DEF BoardsInv, RowsApart, ChannelsFit, RowResolved
<1>4. PICK p \in PollRec : p = poll
  BY DEF BoardsInv, BoardsTypeOK, PollRec
<1>5. NoPoll \in PollRec /\ NoPoll.fresh = FALSE
  BY DEF NoPoll, PollRec, Shown
<1>6. LastStatus \in AgentStatuses \cup {"none"} /\ registered \in BOOLEAN /\ (channels # {}) \in BOOLEAN
  BY BoardSays DEF BoardsInv, BoardsTypeOK
<1>7. PollIsTrue' /\ poll' \in PollRec
  <2>1. CASE PollStarts
    <3>1. PICK c \in BOOLEAN : c = (channels # {})
      BY <1>6
    <3>2. [NoPoll EXCEPT !.at = "registrations", !.onCall = c, !.fresh = TRUE] \in PollRec
          /\ [NoPoll EXCEPT !.at = "registrations", !.onCall = c, !.fresh = TRUE].onCall = c
          /\ [NoPoll EXCEPT !.at = "registrations", !.onCall = c, !.fresh = TRUE].at = "registrations"
      BY DEF NoPoll, PollRec, Shown
    <3>3. [NoPoll EXCEPT !.at = "registrations"] \in PollRec /\ [NoPoll EXCEPT !.at = "registrations"].fresh = FALSE
      BY DEF NoPoll, PollRec, Shown
    <3>4. CASE poll' = [NoPoll EXCEPT !.at = "registrations", !.onCall = channels # {}, !.fresh = TRUE]
      BY <1>1, <3>1, <3>2, <3>4 DEF PollIsTrue
    <3>5. CASE poll' = [NoPoll EXCEPT !.at = "registrations"]
      BY <3>3, <3>5 DEF PollIsTrue
    <3>6. QED
      BY <2>1, <3>4, <3>5 DEF PollStarts
  <2>2. CASE PollRegistrations
    <3>1. PICK reg \in BOOLEAN : reg = registered
      BY <1>6
    <3>2. LET q == [p EXCEPT !.at = "rows", !.reg = reg]
          IN  q \in PollRec /\ q.at = "rows" /\ q.reg = reg /\ q.onCall = p.onCall /\ q.fresh = p.fresh
      BY DEF PollRec
    <3>3. LET q == [p EXCEPT !.at = "rows", !.fresh = FALSE] IN q \in PollRec /\ q.fresh = FALSE
      BY DEF PollRec
    <3>4. poll.at = "registrations"
      BY <2>2 DEF PollRegistrations
    <3>5. CASE poll' = [poll EXCEPT !.at = "rows", !.reg = registered]
      BY <1>1, <1>4, <3>1, <3>2, <3>4, <3>5 DEF BoardsInv, PollIsTrue
    <3>6. CASE poll' = [poll EXCEPT !.at = "rows", !.fresh = FALSE]
      BY <1>4, <3>3, <3>6 DEF PollIsTrue
    <3>7. QED
      BY <2>2, <3>5, <3>6 DEF PollRegistrations
  <2>3. CASE PollRows
    <3>1. PICK says : says = AgentsBoard(poll.onCall, poll.reg, LastStatus)
      OBVIOUS
    <3>2. PICK none : none = AgentsBoard(poll.onCall, poll.reg, "none")
      OBVIOUS
    <3>3. says \in Shown /\ none \in Shown
      BY <1>4, <1>6, <3>1, <3>2, BoardSays DEF PollRec
    <3>4. LET q == [p EXCEPT !.at = "answer", !.says = says]
          IN  q \in PollRec /\ q.at = "answer" /\ q.says = says /\ q.fresh = p.fresh
      BY <3>3 DEF PollRec
    <3>5. LET q == [p EXCEPT !.at = "answer", !.says = none, !.fresh = FALSE] IN q \in PollRec /\ q.fresh = FALSE
      BY <3>3 DEF PollRec
    <3>6. poll.at = "rows"
      BY <2>3 DEF PollRows
    <3>7. poll.fresh => says = BoardNow
      BY <3>1, <3>6 DEF BoardsInv, PollIsTrue, BoardNow
    <3>8. CASE poll' = [poll EXCEPT !.at = "answer", !.says = AgentsBoard(poll.onCall, poll.reg, LastStatus)]
      BY <1>1, <1>4, <3>1, <3>4, <3>7, <3>8 DEF PollIsTrue
    <3>9. CASE poll' = [poll EXCEPT !.at = "answer", !.says = AgentsBoard(poll.onCall, poll.reg, "none"), !.fresh = FALSE]
      BY <1>4, <3>2, <3>5, <3>9 DEF PollIsTrue
    <3>10. QED
      BY <2>3, <3>8, <3>9 DEF PollRows
  <2>4. CASE PollShows \/ PollFails
    BY <1>5, <2>4 DEF PollShows, PollFails, PollIsTrue
  <2>5. QED
    BY <2>1, <2>2, <2>3, <2>4
<1>8. CardIsTrue' /\ fresh' \in BOOLEAN /\ everReal' \in BOOLEAN /\ card' \in Shown \cup {"nothing", "demo"}
  <2>1. CASE PollStarts \/ PollRegistrations \/ PollRows
    BY <1>1, <2>1 DEF PollStarts, PollRegistrations, PollRows, PollOnly, BoardsInv, BoardsTypeOK, CardIsTrue
  <2>2. CASE PollShows
    <3>1. card' = poll.says /\ everReal' = TRUE /\ fresh' = poll.fresh /\ poll.at = "answer"
      BY <2>2 DEF PollShows
    <3>2. poll.says \in Shown /\ poll.fresh \in BOOLEAN
      BY <1>4 DEF PollRec
    <3>3. poll.fresh => poll.says = BoardNow
      BY <3>1 DEF BoardsInv, PollIsTrue
    <3>4. QED
      BY <1>1, <3>1, <3>2, <3>3 DEF CardIsTrue
  <2>3. CASE PollFails
    <3>1. card' = (IF everReal THEN card ELSE "demo") /\ UNCHANGED <<everReal, fresh>>
      BY <2>3 DEF PollFails
    <3>2. QED
      BY <1>1, <3>1 DEF BoardsInv, BoardsTypeOK, CardIsTrue
  <2>4. QED
    BY <2>1, <2>2, <2>3
<1>9. BoardsTypeOK'
  BY <1>1, <1>2, <1>7, <1>8 DEF BoardsInv, BoardsTypeOK, PollRec
<1>10. QED
  BY <1>3, <1>7, <1>8, <1>9 DEF BoardsInv

-----------------------------------------------------------------------------
LEMMA BoardsStart == BoardsInit => BoardsInv
<1> SUFFICES ASSUME BoardsInit
             PROVE  BoardsInv
  OBVIOUS
<1>1. ccRows \in Seq(RowRec) /\ Len(ccRows) = 0 /\ DOMAIN ccRows = {}
  BY DEF BoardsInit
<1>2. NoPoll \in PollRec /\ NoPoll.fresh = FALSE /\ NoSetting \in [status : AgentStatuses \cup {"none"}, row : 0..2]
  BY DEF NoPoll, PollRec, Shown, NoSetting
<1>3. BoardsTypeOK
  <2>1. poll \in PollRec /\ setting \in [status : AgentStatuses \cup {"none"}, row : 0..2]
    BY <1>2 DEF BoardsInit
  <2>2. blips \in 0..MaxBlips
    BY BoardsAssumption DEF BoardsInit
  <2>3. Len(ccRows) \leq 2
    BY <1>1
  <2>4. QED
    BY <1>1, <2>1, <2>2, <2>3 DEF BoardsInit, BoardsTypeOK, PollRec
<1>4. RowsApart /\ ChannelsFit /\ RowResolved /\ PollIsTrue /\ CardIsTrue
  BY <1>1, <1>2 DEF BoardsInit, RowsApart, ChannelsFit, RowResolved, PollIsTrue, CardIsTrue
<1>5. QED
  BY <1>3, <1>4 DEF BoardsInv

LEMMA BoardsInvStep == BoardsInv /\ [BoardsNext]_boardsVars => BoardsInv'
<1> SUFFICES ASSUME BoardsInv, [BoardsNext]_boardsVars
             PROVE  BoardsInv'
  OBVIOUS
<1>1. CASE UNCHANGED boardsVars
  <2>1. UNCHANGED <<configured, registered, ccRows, channels, setting, poll, card, everReal, blips, fresh>>
    BY <1>1 DEF boardsVars, lineVars, shownVars
  <2>2. LastStatus' = LastStatus
    BY <2>1 DEF LastStatus
  <2>3. BoardNow' = BoardNow
    BY <2>1, <2>2 DEF BoardNow, AgentsBoard
  <2>4. PollIsTrue' /\ CardIsTrue'
    BY <2>1, <2>3 DEF BoardsInv, PollIsTrue, CardIsTrue
  <2>5. BoardsTypeOK' /\ RowsApart' /\ ChannelsFit' /\ RowResolved'
    BY <2>1 DEF BoardsInv, BoardsTypeOK, RowsApart, ChannelsFit, RowResolved
  <2>6. QED
    BY <2>4, <2>5 DEF BoardsInv
<1>2. CASE BoardsNext
  BY <1>2, LineSteps, QueueSteps, StatusSteps, PollSteps DEF BoardsNext
<1>3. QED
  BY <1>1, <1>2

\* The inductive invariant of the boards.
THEOREM BoardsInvariant == BoardsSpec => []BoardsInv
<1>1. QED
  BY BoardsStart, BoardsInvStep, PTL DEF BoardsSpec

\* The agent's rows, calls and cards never leave their types.
THEOREM BoardsTypeCorrect == BoardsSpec => []BoardsTypeOK
<1>1. BoardsInv => BoardsTypeOK
  BY DEF BoardsInv
<1>2. QED
  BY <1>1, BoardsInvariant, PTL

\* An agent with one row: what each reader makes of it.
LEMMA OrdinaryAgrees ==
  ASSUME BoardsInv, Ordinary
  PROVE  /\ BoardNow = Dashboard
         /\ AvailableAgent <=> Dashboard = "available"
         /\ SummaryAvailable = (IF AvailableAgent THEN 1 ELSE 0)
         /\ SummaryOnCall > 0 => Dashboard = "on-call"
<1>1. PICK r \in RowRec : r = ccRows[1]
  BY DEF Ordinary, BoardsInv, BoardsTypeOK
<1>2. /\ registered /\ DOMAIN ccRows = {1} /\ ccRows # <<>> /\ Len(ccRows) = 1 /\ Head(ccRows) = r
      /\ r.status # "Available" => r.state = "Waiting"
  BY <1>1 DEF Ordinary, BoardsInv, BoardsTypeOK
<1>3. channels # {} <=> r.state # "Waiting"
  BY <1>1, <1>2 DEF Ordinary, BoardsInv, BoardsTypeOK, ChannelsFit
<1>4. LastStatus = r.status /\ Dashboard = StatusOf(r) /\ (AvailableAgent <=> IsReady(r))
  BY <1>1, <1>2 DEF LastStatus, Dashboard, AvailableAgent
<1>5. r.status \in AgentStatuses /\ r.state \in AgentStates
  BY DEF RowRec
<1>6. BoardNow = AgentsBoard(r.state # "Waiting", TRUE, r.status)
  BY <1>2, <1>3, <1>4 DEF BoardNow, BoardsInv, BoardsTypeOK
<1>7. BoardNow = Dashboard /\ (AvailableAgent <=> Dashboard = "available")
  <2>1. CASE r.state # "Waiting"
    <3>1. r.status = "Available" /\ r.state \in {"Receiving", "In a queue call"}
      BY <1>2, <1>5, <2>1 DEF AgentStates
    <3>2. StatusOf(r) = "on-call" /\ ~IsReady(r)
      BY <3>1 DEF StatusOf, IsReady
    <3>3. AgentsBoard(r.state # "Waiting", TRUE, r.status) = "on-call"
      BY <2>1 DEF AgentsBoard
    <3>4. QED
      BY <1>4, <1>6, <3>2, <3>3
  <2>2. CASE r.state = "Waiting"
    <3>1. StatusOf(r) = (CASE r.status = "Logged Out" -> "offline" [] r.status = "On Break" -> "away" [] OTHER -> "available")
      BY <2>2 DEF StatusOf
    <3>2. AgentsBoard(FALSE, TRUE, r.status)
            = (CASE r.status = "Logged Out" -> "offline" [] r.status = "On Break" -> "away" [] OTHER -> "available")
      BY DEF AgentsBoard
    <3>3. IsReady(r) <=> r.status = "Available"
      BY <2>2 DEF IsReady
    <3>4. QED
      BY <1>4, <1>5, <1>6, <2>2, <3>1, <3>2, <3>3 DEF AgentStatuses
  <2>3. QED
    BY <2>1, <2>2
<1>8. SummaryAvailable = (IF AvailableAgent THEN 1 ELSE 0)
  <2>1. CASE IsReady(r)
    <3>1. {i \in DOMAIN ccRows : IsReady(ccRows[i])} = {1}
      BY <1>1, <1>2, <2>1
    <3>2. QED
      BY <1>4, <2>1, <3>1, FS_Singleton DEF SummaryAvailable
  <2>2. CASE ~IsReady(r)
    <3>1. {i \in DOMAIN ccRows : IsReady(ccRows[i])} = {}
      BY <1>1, <1>2, <2>2
    <3>2. QED
      BY <1>4, <2>2, <3>1, FS_EmptySet DEF SummaryAvailable
  <2>3. QED
    BY <2>1, <2>2
<1>9. SummaryOnCall > 0 => Dashboard = "on-call"
  <2>1. CASE r.state = "Receiving"
    BY <1>2, <1>4, <1>5, <2>1 DEF StatusOf
  <2>2. CASE r.state # "Receiving"
    <3>1. {i \in DOMAIN ccRows : ccRows[i].state = "Receiving"} = {}
      BY <1>1, <1>2, <2>2
    <3>2. QED
      BY <3>1, FS_EmptySet DEF SummaryOnCall
  <2>3. QED
    BY <2>1, <2>2
<1>10. QED
  BY <1>7, <1>8, <1>9

\* telephony.service.ts:232-237, dashboard.module.ts:81-93, realtime.module.ts:53-57 and
\* dialer.service.ts:1048 read an agent from different commands, and agree on an ordinary one;
\* the page shows what the board says until something changes.
THEOREM ReadersAgree == BoardsSpec => []BoardsAgree
<1>1. BoardsInv => BoardsAgree
  <2> SUFFICES ASSUME BoardsInv
               PROVE  BoardsAgree
    OBVIOUS
  <2>1. BoardsTypeOK
    BY DEF BoardsInv
  <2>2. fresh => card = BoardNow /\ (card = "on-call" => channels # {})
    <3>1. BoardNow = "on-call" => channels # {}
      BY <2>1, BoardSays DEF BoardsTypeOK, BoardNow
    <3>2. QED
      BY <3>1 DEF BoardsInv, CardIsTrue
  <2>3. everReal => card # "demo"
    BY DEF BoardsInv, CardIsTrue, Shown
  <2>4. PICK n \in Nat : n = Len(ccRows) /\ DOMAIN ccRows = 1..n
    BY <2>1 DEF BoardsTypeOK
  <2>5. /\ Len(agentPerformance) = n /\ DOMAIN agentPerformance = 1..n
        /\ \A i \in 1..n : agentPerformance[i].state = ccRows[i].state
    <3>1. agentPerformance \in [1..n -> {agentPerformance[i] : i \in 1..n}]
      BY <2>4 DEF agentPerformance
    <3>2. Len(agentPerformance) = n /\ DOMAIN agentPerformance = 1..n
      BY <3>1, SeqOfFunction
    <3>3. QED
      BY <2>4, <3>2 DEF agentPerformance
  <2>6. \A i \in 1..n : ccRows[i] \in RowRec
    BY <2>1, <2>4 DEF BoardsTypeOK
  <2>7. n > 1 => ~configured /\ blips > 0
    <3> SUFFICES ASSUME n > 1
                 PROVE  ~configured /\ blips > 0
      OBVIOUS
    <3>1. 1 \in 1..n /\ 2 \in 1..n
      OBVIOUS
    <3>2. ccRows[1].domain # ccRows[2].domain
      BY <2>4, <3>1 DEF BoardsInv, RowsApart
    <3>3. ccRows[1].domain = "loopback" \/ ccRows[2].domain = "loopback"
      BY <2>6, <3>1, <3>2 DEF RowRec
    <3>4. QED
      BY <2>4, <3>1, <3>3 DEF BoardsInv, RowsApart
  <2>8. \A i, j \in 1..n : i # j => "Waiting" \in {ccRows[i].state, ccRows[j].state}
    <3>1. ASSUME NEW i \in 1..n, NEW j \in 1..n, i # j
          PROVE  "Waiting" \in {ccRows[i].state, ccRows[j].state}
      <4>1. ccRows[i].domain # ccRows[j].domain
        BY <2>4, <3>1 DEF BoardsInv, RowsApart
      <4>2. ccRows[i].domain = "loopback" \/ ccRows[j].domain = "loopback"
        BY <2>6, <4>1 DEF RowRec
      <4>3. QED
        BY <2>4, <4>2 DEF BoardsInv, RowsApart
    <3>2. QED
      BY <3>1
  <2>9. QED
    BY <2>2, <2>3, <2>5, <2>7, <2>8, OrdinaryAgrees DEF BoardsAgree
<1>2. QED
  BY <1>1, BoardsInvariant, PTL

-----------------------------------------------------------------------------
(***************************************************************************)
(* The manager's page of campaigns.  What its table and its views show at  *)
(* rest follows from what is under way: a load in the making holds what is *)
(* stored unless a mutation awaits its answer, and a request for a view is *)
(* for what the manager opened that view for.                              *)
(***************************************************************************)
\* A mutation under way: a save carries its form, the others a campaign.
Mutations == [op : {"toggle", "remove", "duplicate", "reset", "save"}, id : Ids \cup {New},
              at : {"sent", "written"}, active : BOOLEAN, form : Forms \cup {None}]

ChangesFit ==
  /\ changes \subseteq Mutations
  /\ \A q \in changes : IF q.op = "save" THEN q.form \in Forms ELSE q.id \in Ids

\* Until something makes it doubtful there is one request for the table at most, and
\* unless a mutation awaits its answer, what it has read, or the table shows, is stored.
NoneWritten == \A q \in changes : q.at = "sent"

TableFollows ==
  ~behind =>
    /\ Len(overviews) <= 1
    /\ NoneWritten => /\ \A i \in DOMAIN overviews : overviews[i].read => overviews[i].rows = stored
                      /\ overviews = <<>> => listed = stored

\* What is under way is for the views as they were opened.
ViewsFollow ==
  ~late =>
    /\ \A w \in opening : wanted[w[1]] = w[2]
    /\ running = None => firsts \cup polls = {}
    /\ running # None => polled \in {None, running}

TableInv  == ChangesFit /\ TableFollows /\ (closed => pendingEdit = None)
OpenedInv == ViewsAreAsOpened /\ ViewsFollow
ManagerInv == PageTypeOK /\ TableInv /\ OpenedInv

TableTypes ==
  /\ stored \in Table /\ listed \in Table /\ overviews \in Seq([read : BOOLEAN, rows : Table])
  /\ wizard \in Forms \cup {None} /\ pendingEdit \in Ids \cup {None}
  /\ behind \in BOOLEAN /\ closed \in BOOLEAN
OpenedTypes ==
  /\ running \in Ids \cup {None} /\ shownRun \in Ids \cup {None} /\ polled \in Ids \cup {None}
  /\ firsts \subseteq Ids /\ polls \subseteq Ids
  /\ shown \in [Views -> Ids \cup {None}] /\ wanted \in [Views -> Ids \cup {None}] /\ opening \subseteq Views \X Ids
  /\ late \in BOOLEAN

\* The type in the parts that steps change.
LEMMA TypeParts ==
  ChangesFit => (PageTypeOK <=> TableTypes /\ OpenedTypes /\ clicks \in 0..MaxClicks)
  BY DEF ChangesFit, Mutations, PageTypeOK, TableTypes, OpenedTypes

\* A step on the one side leaves the other's invariant.
LEMMA OpenedStays ==
  ASSUME OpenedTypes, OpenedInv, UNCHANGED <<monitorVar, viewVars>>,
         late' \in BOOLEAN, late => late'
  PROVE  OpenedTypes' /\ OpenedInv'
  BY DEF OpenedTypes, OpenedInv, ViewsAreAsOpened, ViewsFollow, monitorVar, viewVars

LEMMA TableStays ==
  ASSUME TableTypes, TableInv, UNCHANGED tableVars
  PROVE  TableTypes' /\ TableInv'
  BY DEF TableTypes, TableInv, ChangesFit, TableFollows, NoneWritten, tableVars

LEMMA ClicksOn ==
  ASSUME NEW on, Clicks(on), clicks \in 0..MaxClicks
  PROVE  clicks' \in 0..MaxClicks /\ clicks' # clicks
  BY CampaignsPageAssumption DEF Clicks

\* A table of requests with one fewer.
LEMMA OneFewer ==
  ASSUME NEW S, NEW s \in Seq(S), NEW i \in DOMAIN s
  PROVE  RemoveAt(s, i) \in Seq(S) /\ Len(RemoveAt(s, i)) = Len(s) - 1
<1>1. Len(s) \in Nat /\ i \in 1..Len(s) /\ \A j \in 1..Len(s) : s[j] \in S
  BY ElementOfSeq, LenProperties
<1>2. SubSeq(s, 1, i - 1) \in Seq(S) /\ Len(SubSeq(s, 1, i - 1)) = i - 1
  BY <1>1, SubSeqProperties
<1>3. SubSeq(s, i + 1, Len(s)) \in Seq(S) /\ Len(SubSeq(s, i + 1, Len(s))) = Len(s) - i
  BY <1>1, SubSeqProperties
<1>4. PICK a, b \in Seq(S) : RemoveAt(s, i) = a \o b /\ Len(a) = i - 1 /\ Len(b) = Len(s) - i
  BY <1>2, <1>3 DEF RemoveAt
<1>5. a \o b \in Seq(S) /\ Len(a \o b) = Len(a) + Len(b)
  BY <1>4, ConcatProperties
<1>6. QED
  BY <1>1, <1>4, <1>5

\* What the server stores is a row, whichever mutation it carries out.
LEMMA StoredTypes ==
  ASSUME TableTypes, ChangesFit
  PROVE  /\ \A q \in changes : Found(q) /\ Written(q) => stored' \in Table
         /\ \A c \in Ids : OtherManager(c) => stored' \in Table
<1>1. ASSUME NEW q \in changes, Found(q), Written(q)
      PROVE  stored' \in Table
  <2>1. q \in Mutations /\ (IF q.op = "save" THEN q.form \in Forms ELSE q.id \in Ids)
    BY <1>1 DEF ChangesFit
  <2>2. CASE q.op = "toggle" /\ stored' = [stored EXCEPT ![q.id].active = q.active]
    <3>1. q.id \in Ids /\ q.active \in BOOLEAN /\ stored[q.id] \in Rows3
      BY <1>1, <2>1, <2>2, CampaignsPageAssumption DEF Mutations, Found, Table, TableTypes
    <3>2. [stored[q.id] EXCEPT !.active = q.active] \in Rows3
      BY <3>1 DEF Rows3
    <3>3. QED
      BY <2>2, <3>1, <3>2 DEF TableTypes, Table
  <2>3. CASE q.op = "remove" /\ removed(q.id)
    BY <2>1, <2>3 DEF removed, TableTypes, Table
  <2>4. CASE q.op = "reset" /\ UNCHANGED stored
    BY <2>4 DEF TableTypes
  <2>5. CASE q.op = "duplicate" /\ duplicateCampaign(q.id)
    <3>1. q.id \in Ids /\ stored[q.id] \in Rows3
      BY <1>1, <2>1, <2>5, CampaignsPageAssumption DEF Mutations, Found, Table, TableTypes
    <3>2. [stored[q.id] EXCEPT !.active = FALSE] \in Rows3
      BY <3>1 DEF Rows3
    <3>3. QED
      BY <2>5, <3>1, <3>2 DEF duplicateCampaign, created, TableTypes, Table
  <2>6. CASE q.op = "save" /\ q.id # New /\ patched(q.id, q.form)
    <3>1. q.id \in Ids /\ stored[q.id] \in Rows3 /\ q.form \in Forms
      BY <1>1, <2>1, <2>6, CampaignsPageAssumption DEF Mutations, Found, Table, TableTypes
    <3>2. q.form.target \in {1, 2} /\ SavedPct(q.form.pct) \in {3, 5}
      BY <3>1 DEF Forms, SavedPct
    <3>3. [stored[q.id] EXCEPT !.target = q.form.target, !.pct = SavedPct(q.form.pct)] \in Rows3
      BY <3>1, <3>2 DEF Rows3
    <3>4. QED
      BY <2>6, <3>1, <3>3 DEF patched, TableTypes, Table
  <2>7. CASE q.op = "save" /\ q.id = New
             /\ created([target |-> q.form.target, pct |-> SavedPct(q.form.pct), active |-> TRUE])
    <3>1. q.form \in Forms
      BY <2>1, <2>7
    <3>2. [target |-> q.form.target, pct |-> SavedPct(q.form.pct), active |-> TRUE] \in Rows3
      BY <3>1 DEF Forms, SavedPct, Rows3
    <3>3. QED
      BY <2>7, <3>2 DEF created, TableTypes, Table
  <2>8. QED
    BY <1>1, <2>2, <2>3, <2>4, <2>5, <2>6, <2>7 DEF Written
<1>2. ASSUME NEW c \in Ids, OtherManager(c)
      PROVE  stored' \in Table
  <2>1. stored[c] \in Rows3
    BY <1>2 DEF OtherManager, TableTypes, Table
  <2>2. [stored[c] EXCEPT !.target = 3 - stored[c].target] \in Rows3
    BY <2>1 DEF Rows3
  <2>3. [stored[c] EXCEPT !.active = ~stored[c].active] \in Rows3
    BY <2>1 DEF Rows3
  <2>4. QED
    BY <1>2, <2>2, <2>3 DEF OtherManager, TableTypes, Table
<1>3. QED
  BY <1>1, <1>2

\* A request for the table, made beside none, has not been read.
LEMMA AskingFollows ==
  ASSUME TableTypes, TableInv, Asking, UNCHANGED stored
  PROVE  /\ overviews' \in Seq([read : BOOLEAN, rows : Table]) /\ behind' \in BOOLEAN
         /\ ~behind' => /\ Len(overviews') <= 1 /\ overviews' # <<>>
                        /\ \A i \in DOMAIN overviews' : ~overviews'[i].read
<1>1. Asked \in [read : BOOLEAN, rows : Table] /\ ~Asked.read
  BY DEF Asked, Table, Empty
<1>2. /\ Append(overviews, Asked) \in Seq([read : BOOLEAN, rows : Table])
      /\ Len(Append(overviews, Asked)) = Len(overviews) + 1
      /\ Append(overviews, Asked)[Len(overviews) + 1] = Asked
  BY <1>1, AppendProperties DEF TableTypes
<1>3. behind' \in BOOLEAN /\ (~behind' => overviews = <<>>)
  BY DEF Asking
<1>4. overviews' = Append(overviews, Asked)
  BY DEF Asking
<1>5. ASSUME ~behind'
      PROVE  Len(overviews') = 1 /\ overviews'[1] = Asked
  BY <1>2, <1>3, <1>4, <1>5, EmptySeq
<1>6. overviews' # <<>> <=> Len(overviews') # 0
  BY <1>2, <1>4, EmptySeq
<1>7. DOMAIN overviews' = 1..Len(overviews')
  BY <1>2, <1>4, LenProperties
<1>8. QED
  BY <1>1, <1>2, <1>3, <1>4, <1>5, <1>6, <1>7

\* The table: a request that is read, and a load with what it read or with nothing.
LEMMA OverviewSteps ==
  ASSUME TableTypes, TableInv, clicks \in 0..MaxClicks, NEW i \in DOMAIN overviews,
         OverviewRead(i) \/ OverviewArrives(i) \/ OverviewFails(i)
  PROVE  /\ TableTypes' /\ TableInv' /\ clicks' \in 0..MaxClicks
         /\ UNCHANGED <<monitorVar, viewVars, late>>
         /\ wizard = None /\ wizard' # None => pendingEdit # None /\ ~closed
<1>1. i \in 1..Len(overviews) /\ Len(overviews) \in Nat /\ DOMAIN overviews = 1..Len(overviews) /\ overviews[i] \in [read : BOOLEAN, rows : Table]
  BY ElementOfSeq, LenProperties DEF TableTypes
<1>2. CASE OverviewRead(i)
  <2>1. [read |-> TRUE, rows |-> stored] \in [read : BOOLEAN, rows : Table]
    BY DEF TableTypes
  <2>2. overviews' = [overviews EXCEPT ![i] = [read |-> TRUE, rows |-> stored]]
    BY <1>2 DEF OverviewRead
  <2>3. /\ overviews' \in Seq([read : BOOLEAN, rows : Table]) /\ Len(overviews') = Len(overviews)
        /\ DOMAIN overviews' = DOMAIN overviews
        /\ \A j \in 1..Len(overviews) : overviews'[j] = IF j = i THEN [read |-> TRUE, rows |-> stored] ELSE overviews[j]
    BY <1>1, <2>1, <2>2, ExceptSeq DEF TableTypes
  <2>4. UNCHANGED <<stored, listed, wizard, pendingEdit, changes, behind, closed, clicks>>
    BY <1>2 DEF OverviewRead
  <2>5. overviews' = <<>> => overviews = <<>>
    BY <2>3, EmptySeq DEF TableTypes
  <2>6. TableTypes' /\ ChangesFit'
    BY <2>3, <2>4 DEF TableTypes, TableInv, ChangesFit
  <2>7. TableFollows'
    BY <1>1, <2>3, <2>4, <2>5 DEF TableFollows, TableInv, NoneWritten
  <2>8. QED
    BY <1>2, <2>4, <2>6, <2>7 DEF TableInv, OverviewRead
<1>3. ASSUME NEW rows \in Table, load(i, rows), clicks' \in 0..MaxClicks,
             rows = Empty \/ (overviews[i].read /\ rows = overviews[i].rows)
      PROVE  /\ TableTypes' /\ TableInv' /\ clicks' \in 0..MaxClicks
             /\ UNCHANGED <<monitorVar, viewVars, late>>
             /\ wizard = None /\ wizard' # None => pendingEdit # None /\ ~closed
  <2>1. /\ overviews' = RemoveAt(overviews, i) /\ listed' = rows
        /\ behind' = ((behind \/ rows = Empty) /\ (rows # stored \/ Len(overviews) > 1))
        /\ UNCHANGED <<stored, changes, closed, monitorVar, viewVars, late>>
    BY <1>3 DEF load
  <2>2. /\ overviews' \in Seq([read : BOOLEAN, rows : Table])
        /\ Len(overviews') = Len(overviews) - 1
    BY <2>1, OneFewer DEF TableTypes
  <2>3. \/ pendingEdit # None /\ wizard = None /\ rows[pendingEdit] # None
           /\ wizard' = cleanCampaign(pendingEdit, rows[pendingEdit]) /\ pendingEdit' = None
        \/ UNCHANGED <<wizard, pendingEdit>>
    BY <1>3 DEF load
  <2>4. wizard' \in Forms \cup {None} /\ pendingEdit' \in Ids \cup {None}
    <3>1. \A c \in Ids, row \in Rows3 : cleanCampaign(c, row) \in Forms
      BY DEF cleanCampaign, Rows3, Forms
    <3>2. pendingEdit # None /\ rows[pendingEdit] # None => pendingEdit \in Ids /\ rows[pendingEdit] \in Rows3
      BY <1>3 DEF TableTypes, Table
    <3>3. QED
      BY <2>3, <3>1, <3>2 DEF TableTypes
  <2>5. TableTypes' /\ ChangesFit' /\ (closed' => pendingEdit' = None)
    BY <1>3, <2>1, <2>2, <2>3, <2>4 DEF TableTypes, TableInv, ChangesFit
  <2>6. ASSUME ~behind'
        PROVE  Len(overviews) = 1 /\ (rows = stored \/ (~behind /\ rows # Empty))
    <3>1. (~behind /\ rows # Empty) \/ (rows = stored /\ ~(Len(overviews) > 1))
      BY <2>1, <2>6, Zenon
    <3>2. ~behind => Len(overviews) <= 1
      BY DEF TableInv, TableFollows
    <3>3. Len(overviews) <= 1
      BY <1>1, <3>1, <3>2
    <3>4. QED
      BY <1>1, <3>1, <3>3
  <2>7. ASSUME ~behind'
        PROVE  overviews' = <<>> /\ Len(overviews') = 0 /\ DOMAIN overviews' = {}
    <3>1. Len(overviews') = Len(overviews) - 1 /\ Len(overviews) = 1
      BY <2>2, <2>6, <2>7
    <3>2. Len(overviews') = 0
      BY <3>1
    <3>3. QED
      BY <2>2, <3>2, EmptySeq, LenProperties
  <2>8. ASSUME ~behind', NoneWritten
        PROVE  listed' = stored
    BY <1>1, <1>3, <2>1, <2>6, <2>8 DEF TableInv, TableFollows
  <2>9. TableFollows'
    BY <2>1, <2>7, <2>8 DEF TableFollows, NoneWritten
  <2>10. QED
    BY <1>3, <2>1, <2>3, <2>5, <2>9 DEF TableInv
<1>4. CASE OverviewArrives(i)
  <2>1. load(i, overviews[i].rows) /\ clicks' \in 0..MaxClicks /\ overviews[i].rows \in Table /\ overviews[i].read
    BY <1>1, <1>4 DEF OverviewArrives
  <2>2. QED
    BY <1>3, <2>1
<1>5. CASE OverviewFails(i)
  <2>1. load(i, Empty) /\ clicks' \in 0..MaxClicks /\ Empty \in Table
    BY <1>5, CampaignsPageAssumption DEF OverviewFails, Empty, Table
  <2>2. QED
    BY <1>3, <2>1
<1>6. QED
  BY <1>2, <1>4, <1>5

\* A step that neither changes the table nor answers a mutation leaves what it follows.
LEMMA FollowsStill ==
  ASSUME TableFollows, UNCHANGED <<stored, listed, overviews, behind>>, NoneWritten' => NoneWritten
  PROVE  TableFollows'
  BY DEF TableFollows

\* Mutations: made from a row, written, failed or answered, and another manager's edit.
LEMMA MutationSteps ==
  ASSUME TableTypes, TableInv, clicks \in 0..MaxClicks,
         \/ \E c \in Ids : OtherManager(c) \/ \E op \in {"toggle", "remove", "duplicate", "reset"} : RowAction(op, c)
         \/ \E q \in changes : ChangeWrites(q) \/ ChangeFails(q) \/ ChangeAnswered(q) \/ SaveAnswered(q)
  PROVE  /\ TableTypes' /\ TableInv' /\ clicks' \in 0..MaxClicks
         /\ UNCHANGED <<monitorVar, viewVars, late>>
         /\ wizard = None => wizard' = None
<1>1. ASSUME NEW c \in Ids, OtherManager(c)
      PROVE  /\ TableTypes' /\ TableInv' /\ clicks' \in 0..MaxClicks
             /\ UNCHANGED <<monitorVar, viewVars, late>>
             /\ wizard = None => wizard' = None
  <2>1. /\ stored' \in Table /\ behind' = TRUE /\ clicks' \in 0..MaxClicks
        /\ UNCHANGED <<listed, overviews, wizard, pendingEdit, changes, closed, monitorVar, viewVars, late>>
    BY <1>1, StoredTypes, CampaignsPageAssumption DEF OtherManager, TableInv
  <2>2. TableTypes'
    BY <2>1 DEF TableTypes
  <2>3. ChangesFit' /\ TableFollows'
    BY <2>1 DEF TableInv, ChangesFit, TableFollows
  <2>4. QED
    BY <2>1, <2>2, <2>3 DEF TableInv
<1>2. ASSUME NEW c \in Ids, NEW op \in {"toggle", "remove", "duplicate", "reset"}, RowAction(op, c)
      PROVE  /\ TableTypes' /\ TableInv' /\ clicks' \in 0..MaxClicks
             /\ UNCHANGED <<monitorVar, viewVars, late>>
             /\ wizard = None => wizard' = None
  <2>1. PICK p : p = [op |-> op, id |-> c, at |-> "sent", active |-> ~listed[c].active, form |-> None]
    OBVIOUS
  <2>2. /\ changes' = changes \cup {p} /\ clicks' \in 0..MaxClicks
        /\ UNCHANGED <<stored, listed, overviews, wizard, pendingEdit, behind, closed, monitorVar, viewVars, late>>
    BY <1>2, <2>1, ClicksOn DEF RowAction
  <2>3. p \in Mutations /\ p.op # "save" /\ p.id \in Ids /\ p.at = "sent"
    <3>1. listed[c] \in Rows3
      BY <1>2 DEF RowAction, TableTypes, Table
    <3>2. QED
      BY <2>1, <3>1 DEF Mutations, Rows3
  <2>4. TableTypes'
    BY <2>2 DEF TableTypes
  <2>5. ChangesFit' /\ (NoneWritten' => NoneWritten)
    BY <2>2, <2>3 DEF TableInv, ChangesFit, NoneWritten
  <2>6. TableFollows'
    BY <2>2, <2>5, FollowsStill DEF TableInv
  <2>7. QED
    BY <2>2, <2>4, <2>5, <2>6 DEF TableInv
<1>3. ASSUME NEW q \in changes, ChangeWrites(q)
      PROVE  /\ TableTypes' /\ TableInv' /\ clicks' \in 0..MaxClicks
             /\ UNCHANGED <<monitorVar, viewVars, late>>
             /\ wizard = None => wizard' = None
  <2>1. PICK p : p = [q EXCEPT !.at = "written"]
    OBVIOUS
  <2>2. /\ stored' \in Table /\ changes' = (changes \ {q}) \cup {p}
        /\ UNCHANGED <<listed, overviews, wizard, pendingEdit, behind, closed, monitorVar, viewVars, clicks, late>>
    BY <1>3, <2>1, StoredTypes DEF ChangeWrites, TableInv
  <2>3. p \in Mutations /\ p.op = q.op /\ p.id = q.id /\ p.form = q.form /\ p.at = "written"
    BY <2>1 DEF Mutations, TableInv, ChangesFit
  <2>4. TableTypes'
    BY <2>2 DEF TableTypes
  <2>5. ChangesFit' /\ ~NoneWritten'
    BY <2>2, <2>3 DEF TableInv, ChangesFit, NoneWritten
  <2>6. TableFollows'
    BY <2>2, <2>5 DEF TableFollows, TableInv
  <2>7. QED
    BY <2>2, <2>4, <2>5, <2>6 DEF TableInv
<1>4. ASSUME NEW q \in changes, ChangeFails(q)
      PROVE  /\ TableTypes' /\ TableInv' /\ clicks' \in 0..MaxClicks
             /\ UNCHANGED <<monitorVar, viewVars, late>>
             /\ wizard = None => wizard' = None
  <2>1. /\ q.at = "sent" /\ changes' = changes \ {q} /\ clicks' \in 0..MaxClicks
        /\ UNCHANGED <<stored, listed, overviews, pendingEdit, behind, closed, monitorVar, viewVars, late>>
    BY <1>4, CampaignsPageAssumption DEF ChangeFails
  <2>2. wizard' = wizard \/ (q.op = "save" /\ wizard = q.form /\ wizard' = [wizard EXCEPT !.saving = FALSE])
    BY <1>4 DEF ChangeFails
  <2>3. q.op = "save" => q.form \in Forms
    BY DEF TableInv, ChangesFit
  <2>4. wizard' \in Forms \cup {None} /\ (wizard = None => wizard' = None)
    BY <2>2, <2>3, NoFormIsNone DEF TableTypes, Forms
  <2>5. TableTypes'
    BY <2>1, <2>4 DEF TableTypes
  <2>6. ChangesFit' /\ (NoneWritten' => NoneWritten)
    BY <2>1 DEF TableInv, ChangesFit, NoneWritten
  <2>7. TableFollows'
    BY <2>1, <2>6, FollowsStill DEF TableInv
  <2>8. QED
    BY <2>1, <2>4, <2>5, <2>6, <2>7 DEF TableInv
<1>5. ASSUME NEW q \in changes, ChangeAnswered(q) \/ SaveAnswered(q)
      PROVE  /\ TableTypes' /\ TableInv' /\ clicks' \in 0..MaxClicks
             /\ UNCHANGED <<monitorVar, viewVars, late>>
             /\ wizard = None => wizard' = None
  <2>1. /\ changes' = changes \ {q} /\ Asking
        /\ UNCHANGED <<stored, listed, monitorVar, viewVars, clicks, late>>
        /\ \/ UNCHANGED <<wizard, pendingEdit, closed>>
           \/ wizard' = None /\ pendingEdit' = None /\ closed' = TRUE
    BY <1>5 DEF ChangeAnswered, SaveAnswered, closeEditor
  <2>2. TableTypes' /\ (closed' => pendingEdit' = None) /\ (wizard = None => wizard' = None)
    <3>1. overviews' \in Seq([read : BOOLEAN, rows : Table]) /\ behind' \in BOOLEAN
      BY <2>1, AskingFollows
    <3>2. wizard' \in Forms \cup {None} /\ pendingEdit' \in Ids \cup {None} /\ closed' \in BOOLEAN
      BY <2>1 DEF TableTypes
    <3>3. closed' => pendingEdit' = None
      BY <2>1 DEF TableInv
    <3>4. QED
      BY <2>1, <3>1, <3>2, <3>3 DEF TableTypes
  <2>3. ChangesFit'
    BY <2>1 DEF TableInv, ChangesFit
  <2>4. TableFollows'
    BY <2>1, AskingFollows DEF TableFollows
  <2>5. QED
    BY <2>1, <2>2, <2>3, <2>4 DEF TableInv
<1>6. QED
  BY <1>1, <1>2, <1>3, <1>4, <1>5

\* The wizard: it is opened by a click, and closed for good.
LEMMA WizardSteps ==
  ASSUME TableTypes, TableInv, clicks \in 0..MaxClicks, late \in BOOLEAN,
         \/ \E c \in Ids \cup {New} : openEditor(c)
         \/ \E target \in {1, 2}, pct \in {3, 5, None} : EditsForm(target, pct)
         \/ save \/ Cancels
  PROVE  /\ TableTypes' /\ TableInv' /\ clicks' \in 0..MaxClicks /\ clicks' # clicks
         /\ UNCHANGED <<monitorVar, viewVars>> /\ late' \in BOOLEAN /\ (late => late')
<1>1. ASSUME clicks' \in 0..MaxClicks, clicks' # clicks, UNCHANGED <<monitorVar, viewVars>>, late' \in BOOLEAN, late => late',
             wizard' \in Forms \cup {None}, UNCHANGED <<stored, listed, overviews, behind>>,
             UNCHANGED <<pendingEdit, closed>> \/ (pendingEdit' = None /\ closed' = TRUE),
             ChangesFit', NoneWritten' => NoneWritten
      PROVE  /\ TableTypes' /\ TableInv' /\ clicks' \in 0..MaxClicks /\ clicks' # clicks
             /\ UNCHANGED <<monitorVar, viewVars>> /\ late' \in BOOLEAN /\ (late => late')
  <2>1. TableFollows'
    BY <1>1, FollowsStill DEF TableInv
  <2>2. TableTypes'
    BY <1>1 DEF TableTypes
  <2>3. QED
    BY <1>1, <2>1, <2>2 DEF TableInv
<1>2. UNCHANGED changes => ChangesFit' /\ (NoneWritten' => NoneWritten)
  BY DEF TableInv, ChangesFit, NoneWritten
<1>3. ASSUME NEW c \in Ids \cup {New}, openEditor(c)
      PROVE  /\ TableTypes' /\ TableInv' /\ clicks' \in 0..MaxClicks /\ clicks' # clicks
             /\ UNCHANGED <<monitorVar, viewVars>> /\ late' \in BOOLEAN /\ (late => late')
  <2>1. /\ clicks' \in 0..MaxClicks /\ clicks' # clicks
        /\ UNCHANGED <<stored, listed, overviews, pendingEdit, changes, behind, closed, monitorVar, viewVars, late>>
    BY <1>3, ClicksOn DEF openEditor
  <2>2. wizard' \in Forms
    <3>1. CASE c = New
      BY <1>3, <3>1 DEF openEditor, Forms
    <3>2. CASE c # New
      <4>1. c \in Ids /\ listed[c] \in Rows3 /\ wizard' = cleanCampaign(c, listed[c])
        BY <1>3, <3>2 DEF openEditor, TableTypes, Table
      <4>2. QED
        BY <4>1 DEF cleanCampaign, Rows3, Forms
    <3>3. QED
      BY <3>1, <3>2
  <2>3. QED
    BY <1>1, <1>2, <2>1, <2>2
<1>4. ASSUME NEW target \in {1, 2}, NEW pct \in {3, 5, None}, EditsForm(target, pct)
      PROVE  /\ TableTypes' /\ TableInv' /\ clicks' \in 0..MaxClicks /\ clicks' # clicks
             /\ UNCHANGED <<monitorVar, viewVars>> /\ late' \in BOOLEAN /\ (late => late')
  <2>1. /\ clicks' \in 0..MaxClicks /\ clicks' # clicks /\ wizard # None
        /\ UNCHANGED <<stored, listed, overviews, pendingEdit, changes, behind, closed, monitorVar, viewVars, late>>
    BY <1>4, ClicksOn DEF EditsForm, Clicks, Screen
  <2>2. wizard' \in Forms
    BY <1>4, <2>1 DEF EditsForm, TableTypes, Forms
  <2>3. QED
    BY <1>1, <1>2, <2>1, <2>2
<1>5. CASE save
  <2>1. /\ clicks' \in 0..MaxClicks /\ clicks' # clicks /\ wizard # None
        /\ UNCHANGED <<stored, listed, overviews, pendingEdit, behind, closed, monitorVar, viewVars, late>>
    BY <1>5, ClicksOn DEF save, Clicks, Screen
  <2>2. PICK p : p = [op |-> "save", id |-> wizard.id, at |-> "sent", active |-> TRUE, form |-> wizard']
    OBVIOUS
  <2>3. wizard' \in Forms /\ p \in Mutations /\ p.op = "save" /\ p.form = wizard' /\ p.at = "sent"
    <3>1. wizard \in Forms /\ wizard' = [wizard EXCEPT !.saving = TRUE]
      BY <1>5, <2>1 DEF save, TableTypes
    <3>2. wizard' \in Forms /\ wizard.id \in Ids \cup {New}
      BY <3>1 DEF Forms
    <3>3. QED
      BY <2>2, <3>2 DEF Mutations
  <2>4. changes' = changes \cup {p}
    BY <1>5, <2>2 DEF save
  <2>5. ChangesFit' /\ (NoneWritten' => NoneWritten)
    BY <2>3, <2>4 DEF TableInv, ChangesFit, NoneWritten
  <2>6. QED
    BY <1>1, <2>1, <2>3, <2>5
<1>6. CASE Cancels
  <2>1. /\ clicks' \in 0..MaxClicks /\ clicks' # clicks /\ wizard' = None /\ pendingEdit' = None /\ closed' = TRUE
        /\ UNCHANGED <<stored, listed, overviews, changes, behind, monitorVar, viewVars>>
    BY <1>6, ClicksOn DEF Cancels, closeEditor
  <2>2. late' \in BOOLEAN /\ (late => late')
    BY <1>6, Zenon DEF Cancels
  <2>3. QED
    BY <1>1, <1>2, <2>1, <2>2
<1>7. QED
  BY <1>3, <1>4, <1>5, <1>6

\* On the table nothing is open.
LEMMA OnTheTable ==
  ASSUME Screen = "table"
  PROVE  running = None /\ \A v \in Views : shown[v] = None
<1>1. wizard = None
  BY DEF Screen
<1>2. running = None
  BY <1>1 DEF Screen
<1>3. ASSUME NEW v \in Views, shown[v] # None
      PROVE  FALSE
  BY <1>1, <1>2, <1>3 DEF Screen
<1>4. QED
  BY <1>2, <1>3

\* The Monitor asks about the campaign it was opened for.
LEMMA MonitorSteps ==
  ASSUME OpenedTypes, OpenedInv, clicks \in 0..MaxClicks,
         \/ \E c \in Ids : openRunner(c) \/ startPoll(c) \/ PollAnswered(c)
         \/ TimerAsks \/ BackFromMonitor
  PROVE  OpenedTypes' /\ OpenedInv' /\ clicks' \in 0..MaxClicks /\ UNCHANGED tableVars
<1>1. ASSUME NEW c \in Ids, openRunner(c)
      PROVE  OpenedTypes' /\ OpenedInv' /\ clicks' \in 0..MaxClicks /\ UNCHANGED tableVars
  <2>1. clicks' \in 0..MaxClicks /\ Screen = "table"
    BY <1>1, ClicksOn DEF openRunner, Clicks
  <2>2. /\ running' = c /\ shownRun' = None /\ firsts' = firsts \cup {c}
        /\ UNCHANGED <<tableVars, polled, polls, shown, opening, wanted, late>>
    BY <1>1 DEF openRunner, viewVars
  <2>3. running = None
    BY <2>1, OnTheTable
  <2>4. ~late => polled = None /\ firsts \cup polls = {}
    BY <2>3 DEF OpenedInv, ViewsAreAsOpened, ViewsFollow
  <2>5. OpenedTypes'
    BY <2>2 DEF OpenedTypes
  <2>6. ViewsAreAsOpened' /\ ViewsFollow'
    BY <2>2, <2>4, CampaignsPageAssumption DEF OpenedInv, ViewsAreAsOpened, ViewsFollow
  <2>7. QED
    BY <2>1, <2>2, <2>5, <2>6 DEF OpenedInv
<1>2. ASSUME NEW c \in Ids, startPoll(c)
      PROVE  OpenedTypes' /\ OpenedInv' /\ clicks' \in 0..MaxClicks /\ UNCHANGED tableVars
  <2>1. /\ c \in firsts /\ firsts' = firsts \ {c} /\ shownRun' \in {c, None} /\ polled' = c
        /\ UNCHANGED <<tableVars, running, polls, shown, opening, wanted, clicks, late>>
    BY <1>2 DEF startPoll, viewVars
  <2>2. ~late => running = c
    BY <2>1 DEF OpenedInv, ViewsAreAsOpened, ViewsFollow
  <2>3. OpenedTypes'
    BY <2>1 DEF OpenedTypes
  <2>4. ViewsAreAsOpened' /\ ViewsFollow'
    BY <2>1, <2>2, CampaignsPageAssumption DEF OpenedInv, ViewsAreAsOpened, ViewsFollow
  <2>5. QED
    BY <2>1, <2>3, <2>4 DEF OpenedInv
<1>3. ASSUME NEW c \in Ids, PollAnswered(c)
      PROVE  OpenedTypes' /\ OpenedInv' /\ clicks' \in 0..MaxClicks /\ UNCHANGED tableVars
  <2>1. /\ c \in polls /\ polls' = polls \ {c} /\ shownRun' \in {c, None}
        /\ UNCHANGED <<tableVars, running, polled, firsts, shown, opening, wanted, clicks, late>>
    BY <1>3 DEF PollAnswered, viewVars
  <2>2. ~late => running = c
    BY <2>1 DEF OpenedInv, ViewsAreAsOpened, ViewsFollow
  <2>3. OpenedTypes'
    BY <2>1 DEF OpenedTypes
  <2>4. ViewsAreAsOpened' /\ ViewsFollow'
    BY <2>1, <2>2, CampaignsPageAssumption DEF OpenedInv, ViewsAreAsOpened, ViewsFollow
  <2>5. QED
    BY <2>1, <2>3, <2>4 DEF OpenedInv
<1>4. CASE TimerAsks
  <2>1. /\ polled # None /\ polls' = polls \cup {polled}
        /\ UNCHANGED <<tableVars, running, shownRun, polled, firsts, shown, opening, wanted, clicks, late>>
    BY <1>4 DEF TimerAsks, viewVars
  <2>2. ~late => running = polled
    BY <2>1 DEF OpenedInv, ViewsAreAsOpened, ViewsFollow
  <2>3. OpenedTypes'
    BY <2>1 DEF OpenedTypes
  <2>4. ViewsAreAsOpened' /\ ViewsFollow'
    BY <2>1, <2>2, CampaignsPageAssumption DEF OpenedInv, ViewsAreAsOpened, ViewsFollow
  <2>5. QED
    BY <2>1, <2>3, <2>4 DEF OpenedInv
<1>5. CASE BackFromMonitor
  <2>1. /\ clicks' \in 0..MaxClicks /\ polled' = None /\ running' = None
        /\ UNCHANGED <<tableVars, shownRun, firsts, polls, shown, opening, wanted>>
    BY <1>5, ClicksOn DEF BackFromMonitor, stopsPolling, viewVars
  <2>2. late' = (late \/ firsts \cup polls # {})
    BY <1>5 DEF BackFromMonitor
  <2>3. late' \in BOOLEAN /\ (~late' => ~late /\ firsts \cup polls = {})
    BY <2>2, Zenon
  <2>4. OpenedTypes'
    BY <2>1, <2>3 DEF OpenedTypes
  <2>5. ViewsAreAsOpened' /\ ViewsFollow'
    BY <2>1, <2>3 DEF OpenedInv, ViewsAreAsOpened, ViewsFollow
  <2>6. QED
    BY <2>1, <2>4, <2>5 DEF OpenedInv
<1>6. QED
  BY <1>1, <1>2, <1>3, <1>4, <1>5

\* A view shows what it was opened for, and asks about nothing else.
LEMMA ViewSteps ==
  ASSUME OpenedTypes, OpenedInv, clicks \in 0..MaxClicks, NEW v \in Views,
         BackFrom(v) \/ \E c \in Ids : openView(v, c) \/ ViewAnswered(v, c)
  PROVE  OpenedTypes' /\ OpenedInv' /\ clicks' \in 0..MaxClicks /\ UNCHANGED tableVars
<1>1. ASSUME NEW c \in Ids, openView(v, c)
      PROVE  OpenedTypes' /\ OpenedInv' /\ clicks' \in 0..MaxClicks /\ UNCHANGED tableVars
  <2>1. clicks' \in 0..MaxClicks /\ shown[v] = None
    <3>1. CASE v = "detail"
      <4>1. Clicks("runs")
        BY <1>1, <3>1 DEF openView
      <4>2. shown["detail"] = None
        BY <4>1 DEF Clicks, Screen
      <4>3. QED
        BY <3>1, <4>1, <4>2, ClicksOn
    <3>2. CASE v # "detail"
      BY <1>1, <3>2, ClicksOn, OnTheTable DEF openView, Clicks
    <3>3. QED
      BY <3>1, <3>2
  <2>2. /\ shown' = [shown EXCEPT ![v] = c] /\ wanted' = [wanted EXCEPT ![v] = c]
        /\ opening' = opening \cup {<<v, c>>}
        /\ UNCHANGED <<tableVars, running, shownRun, polled, firsts, polls, late>>
    BY <1>1 DEF openView, monitorVar
  <2>3. OpenedTypes'
    BY <2>2 DEF OpenedTypes
  <2>4. ASSUME ~late, NEW w \in opening'
        PROVE  wanted'[w[1]] = w[2]
    <3>1. CASE w = <<v, c>>
      BY <2>2, <3>1 DEF OpenedTypes
    <3>2. CASE w # <<v, c>>
      <4>1. w \in opening /\ wanted[w[1]] = w[2] /\ shown = wanted
        BY <2>2, <2>4, <3>2 DEF OpenedInv, ViewsAreAsOpened, ViewsFollow
      <4>2. w[1] # v /\ w[1] \in Views
        BY <2>1, <4>1, CampaignsPageAssumption DEF OpenedTypes
      <4>3. QED
        BY <2>2, <4>1, <4>2 DEF OpenedTypes
    <3>3. QED
      BY <3>1, <3>2
  <2>5. ViewsAreAsOpened'
    BY <2>2 DEF OpenedInv, ViewsAreAsOpened
  <2>6. ViewsFollow'
    BY <2>2, <2>4 DEF OpenedInv, ViewsFollow
  <2>7. QED
    BY <2>1, <2>2, <2>3, <2>5, <2>6 DEF OpenedInv
<1>2. ASSUME NEW c \in Ids, ViewAnswered(v, c)
      PROVE  OpenedTypes' /\ OpenedInv' /\ clicks' \in 0..MaxClicks /\ UNCHANGED tableVars
  <2>1. /\ <<v, c>> \in opening /\ opening' = opening \ {<<v, c>>} /\ shown' = [shown EXCEPT ![v] = c]
        /\ UNCHANGED <<tableVars, running, shownRun, polled, firsts, polls, wanted, clicks, late>>
    BY <1>2 DEF ViewAnswered, monitorVar
  <2>2. OpenedTypes'
    BY <2>1 DEF OpenedTypes
  <2>3. ~late => wanted[v] = c
    BY <2>1 DEF OpenedInv, ViewsFollow
  <2>4. ~late => shown' = wanted
    BY <2>1, <2>3 DEF OpenedInv, OpenedTypes, ViewsAreAsOpened
  <2>5. ViewsAreAsOpened' /\ ViewsFollow'
    BY <2>1, <2>4 DEF OpenedInv, ViewsAreAsOpened, ViewsFollow
  <2>6. QED
    BY <2>1, <2>2, <2>5 DEF OpenedInv
<1>3. CASE BackFrom(v)
  <2>1. /\ clicks' \in 0..MaxClicks
        /\ shown' = [shown EXCEPT ![v] = None] /\ wanted' = [wanted EXCEPT ![v] = None]
        /\ UNCHANGED <<tableVars, running, shownRun, polled, firsts, polls, opening>>
    BY <1>3, ClicksOn DEF BackFrom, monitorVar
  <2>2. late' = (late \/ \E c \in Ids : <<v, c>> \in opening)
    BY <1>3 DEF BackFrom
  <2>3. late' \in BOOLEAN /\ (~late' => ~late /\ \A c \in Ids : <<v, c>> \notin opening)
    BY <2>2, Zenon
  <2>4. OpenedTypes'
    BY <2>1, <2>3 DEF OpenedTypes
  <2>5. ASSUME ~late', NEW w \in opening'
        PROVE  wanted'[w[1]] = w[2]
    <3>1. w \in opening /\ wanted[w[1]] = w[2]
      BY <2>1, <2>3, <2>5 DEF OpenedInv, ViewsFollow
    <3>2. PICK u \in Views, c \in Ids : w = <<u, c>>
      BY <3>1 DEF OpenedTypes
    <3>3. u # v
      BY <2>3, <2>5, <3>1, <3>2
    <3>4. QED
      BY <2>1, <3>1, <3>2, <3>3 DEF OpenedTypes
  <2>6. ViewsAreAsOpened'
    BY <2>1, <2>3 DEF OpenedInv, ViewsAreAsOpened
  <2>7. ViewsFollow'
    BY <2>1, <2>3, <2>5 DEF OpenedInv, ViewsFollow
  <2>8. QED
    BY <2>1, <2>4, <2>6, <2>7 DEF OpenedInv
<1>4. QED
  BY <1>1, <1>2, <1>3

LEMMA ManagerStart == PageInit => ManagerInv
<1> SUFFICES ASSUME PageInit
             PROVE  ManagerInv
  OBVIOUS
<1>1. Empty \in Table /\ Asked \in [read : BOOLEAN, rows : Table] /\ ~Asked.read
  BY DEF Empty, Table, Asked
<1>2. overviews \in Seq([read : BOOLEAN, rows : Table]) /\ Len(overviews) = 1 /\ overviews[1] = Asked /\ DOMAIN overviews = {1}
  <2>1. overviews = <<Asked>>
    BY DEF PageInit
  <2>2. QED
    BY <1>1, <2>1
<1>3. stored \in Table
  BY <1>1, CampaignsPageAssumption DEF PageInit, Table, Rows3
<1>4. ChangesFit /\ NoneWritten
  BY DEF PageInit, ChangesFit, NoneWritten
<1>5. TableTypes
  BY <1>1, <1>2, <1>3, CampaignsPageAssumption DEF PageInit, TableTypes
<1>6. TableInv
  BY <1>1, <1>2, <1>4 DEF PageInit, TableInv, TableFollows
<1>7. OpenedTypes /\ OpenedInv
  BY DEF PageInit, OpenedTypes, OpenedInv, ViewsAreAsOpened, ViewsFollow
<1>8. clicks \in 0..MaxClicks
  BY CampaignsPageAssumption DEF PageInit
<1>9. QED
  BY <1>4, <1>5, <1>6, <1>7, <1>8, TypeParts DEF ManagerInv

\* What a step of the page does, for its table, for its views and for the wizard.
LEMMA ManagerSteps ==
  ASSUME TableTypes, TableInv, OpenedTypes, OpenedInv, clicks \in 0..MaxClicks, PageNext
  PROVE  /\ TableTypes' /\ TableInv' /\ OpenedTypes' /\ OpenedInv' /\ clicks' \in 0..MaxClicks
         /\ wizard = None /\ wizard' # None => clicks' # clicks \/ (pendingEdit # None /\ ~closed)
<1> DEFINE Goal == /\ TableTypes' /\ TableInv' /\ OpenedTypes' /\ OpenedInv' /\ clicks' \in 0..MaxClicks
                   /\ wizard = None /\ wizard' # None => clicks' # clicks \/ (pendingEdit # None /\ ~closed)
<1>1. late \in BOOLEAN
  BY DEF OpenedTypes
<1>2. UNCHANGED <<monitorVar, viewVars, late>> => OpenedTypes' /\ OpenedInv'
  BY <1>1, OpenedStays
<1>3. UNCHANGED tableVars => TableTypes' /\ TableInv' /\ wizard' = wizard
  BY TableStays DEF tableVars
<1>4. ASSUME NEW i \in DOMAIN overviews, OverviewRead(i) \/ OverviewArrives(i) \/ OverviewFails(i)
      PROVE  Goal
  BY <1>2, <1>4, OverviewSteps
<1>5. ASSUME \/ \E c \in Ids : OtherManager(c) \/ \E op \in {"toggle", "remove", "duplicate", "reset"} : RowAction(op, c)
             \/ \E q \in changes : ChangeWrites(q) \/ ChangeFails(q) \/ ChangeAnswered(q) \/ SaveAnswered(q)
      PROVE  Goal
  BY <1>2, <1>5, MutationSteps
<1>6. ASSUME \/ \E c \in Ids \cup {New} : openEditor(c)
             \/ \E target \in {1, 2}, pct \in {3, 5, None} : EditsForm(target, pct)
             \/ save \/ Cancels
      PROVE  Goal
  <2>1. /\ TableTypes' /\ TableInv' /\ clicks' \in 0..MaxClicks /\ clicks' # clicks
        /\ UNCHANGED <<monitorVar, viewVars>> /\ late' \in BOOLEAN /\ (late => late')
    BY <1>1, <1>6, WizardSteps
  <2>2. OpenedTypes' /\ OpenedInv'
    BY <2>1, OpenedStays
  <2>3. QED
    BY <2>1, <2>2
<1>7. ASSUME \/ \E c \in Ids : openRunner(c) \/ startPoll(c) \/ PollAnswered(c)
             \/ TimerAsks \/ BackFromMonitor
      PROVE  Goal
  BY <1>3, <1>7, MonitorSteps
<1>8. ASSUME NEW v \in Views, BackFrom(v) \/ \E c \in Ids : openView(v, c) \/ ViewAnswered(v, c)
      PROVE  Goal
  BY <1>3, <1>8, ViewSteps
<1>9. Goal
  BY <1>4, <1>5, <1>6, <1>7, <1>8 DEF PageNext
<1>10. QED
  BY <1>9

LEMMA ManagerInvStep == ManagerInv /\ [PageNext]_pageVars => ManagerInv'
<1> SUFFICES ASSUME ManagerInv, [PageNext]_pageVars
             PROVE  ManagerInv'
  OBVIOUS
<1>1. TableTypes /\ TableInv /\ OpenedTypes /\ OpenedInv /\ clicks \in 0..MaxClicks
  BY TypeParts DEF ManagerInv, TableInv
<1>2. TableTypes' /\ TableInv' /\ OpenedTypes' /\ OpenedInv' /\ clicks' \in 0..MaxClicks
  <2>1. CASE PageNext
    BY <1>1, <2>1, ManagerSteps
  <2>2. CASE UNCHANGED pageVars
    <3>1. UNCHANGED <<tableVars, monitorVar, viewVars, clicks, late>> /\ late \in BOOLEAN
      BY <1>1, <2>2 DEF pageVars, OpenedTypes
    <3>2. QED
      BY <1>1, <3>1, OpenedStays, TableStays
  <2>3. QED
    BY <2>1, <2>2
<1>3. ChangesFit' => (PageTypeOK' <=> TableTypes' /\ OpenedTypes' /\ clicks' \in 0..MaxClicks)
  BY DEF ChangesFit, Mutations, PageTypeOK, TableTypes, OpenedTypes
<1>4. QED
  BY <1>2, <1>3 DEF ManagerInv, TableInv

\* The page's state keeps its type.
THEOREM CampaignsPageTypeCorrect == PageSpec => []PageTypeOK
<1>1. ManagerInv => PageTypeOK
  BY DEF ManagerInv
<1>2. QED
  BY <1>1, ManagerStart, ManagerInvStep, PTL DEF PageSpec

\* For any campaigns and any clicks: once nothing is under way the table shows what is
\* stored, the Monitor and the histories are of what the manager opened, unless one was
\* left too early, and the wizard opens by itself for the address only, and never again.
THEOREM PageIsAsOpened == PageSpec => PageShowsWhatIs
<1>1. ManagerInv => TableIsStored /\ ViewsAreAsOpened
  <2> SUFFICES ASSUME ManagerInv
               PROVE  TableIsStored /\ ViewsAreAsOpened
    OBVIOUS
  <2>1. changes = {} => NoneWritten
    BY DEF NoneWritten
  <2>2. TableIsStored
    BY <2>1 DEF ManagerInv, TableInv, TableFollows, TableIsStored
  <2>3. QED
    BY <2>2 DEF ManagerInv, OpenedInv
<1>2. ManagerInv /\ [PageNext]_pageVars /\ TableIsStored' /\ ViewsAreAsOpened' =>
        [pageVars' # pageVars =>
           /\ TableIsStored' /\ ViewsAreAsOpened'
           /\ wizard = None /\ wizard' # None =>
                clicks' # clicks \/ (pendingEdit # None /\ ~closed)]_pageVars
  <2> SUFFICES ASSUME ManagerInv, PageNext, TableIsStored', ViewsAreAsOpened'
               PROVE  /\ TableIsStored' /\ ViewsAreAsOpened'
                      /\ wizard = None /\ wizard' # None =>
                           clicks' # clicks \/ (pendingEdit # None /\ ~closed)
    OBVIOUS
  <2>1. TableTypes /\ TableInv /\ OpenedTypes /\ OpenedInv /\ clicks \in 0..MaxClicks
    BY TypeParts DEF ManagerInv, TableInv
  <2>2. QED
    BY <2>1, ManagerSteps
<1>3. QED
  BY <1>1, <1>2, ManagerStart, ManagerInvStep, PTL DEF PageSpec, PageShowsWhatIs

-----------------------------------------------------------------------------
\* A finite set as a sequence lists each of its members once.
LEMMA SetToSeqLists ==
  \A S : IsFiniteSet(S) =>
    /\ SetToSeq(S) \in Seq(S) /\ Len(SetToSeq(S)) = Cardinality(S) /\ Cardinality(S) \in Nat
    /\ \A i, j \in 1..Cardinality(S) : SetToSeq(S)[i] = SetToSeq(S)[j] => i = j
    /\ \A x \in S : \E i \in 1..Cardinality(S) : SetToSeq(S)[i] = x
<1> SUFFICES ASSUME NEW S, IsFiniteSet(S)
             PROVE  /\ SetToSeq(S) \in Seq(S) /\ Len(SetToSeq(S)) = Cardinality(S) /\ Cardinality(S) \in Nat
                    /\ \A i, j \in 1..Cardinality(S) : SetToSeq(S)[i] = SetToSeq(S)[j] => i = j
                    /\ \A x \in S : \E i \in 1..Cardinality(S) : SetToSeq(S)[i] = x
  OBVIOUS
<1>1. Cardinality(S) \in Nat /\ ExistsBijection(1..Cardinality(S), S)
  BY FS_CardinalityType
<1>2. PICK f \in [1..Cardinality(S) -> S] : IsInjective(f)
  BY <1>1 DEF ExistsBijection, Bijection, Injection
<1>3. SetToSeq(S) \in [1..Cardinality(S) -> S] /\ IsInjective(SetToSeq(S))
  BY <1>2 DEF SetToSeq
<1>4. SetToSeq(S) \in Seq(S) /\ Len(SetToSeq(S)) = Cardinality(S)
  BY <1>1, <1>3, SeqOfFunction
<1>5. \A i, j \in 1..Cardinality(S) : SetToSeq(S)[i] = SetToSeq(S)[j] => i = j
  BY <1>3 DEF IsInjective
<1>6. SetToSeq(S) \in Surjection(1..Cardinality(S), S)
  <2>1. SetToSeq(S) \in Injection(1..Cardinality(S), S)
    BY <1>3 DEF Injection
  <2>2. Cardinality(1..Cardinality(S)) = Cardinality(S)
    BY <1>1, FS_Interval
  <2>3. QED
    BY <2>1, <2>2, FS_Injection
<1>7. QED
  BY <1>1, <1>4, <1>5, <1>6 DEF Surjection

\* Whom a campaign aims at.
Aimed(c) == c.numbers \cup IF c.grouped THEN Grouped ELSE {}

\* The rows a source gives are the numbers aimed at, each once, and at most as many as are
\* counted in the list of campaigns.
LEMMA SourceLists ==
  \A c \in Campaigns :
    /\ Source(c) \in Seq(Numbers) /\ DOMAIN Source(c) = 1..Len(Source(c)) /\ Len(Source(c)) \in Nat
    /\ sourceContactsCount(c) \in Nat /\ Len(Source(c)) <= sourceContactsCount(c)
    /\ \A i, j \in 1..Len(Source(c)) : Source(c)[i] = Source(c)[j] => i = j
    /\ ToSet(Source(c)) = Aimed(c)
<1> SUFFICES ASSUME NEW c \in Campaigns
             PROVE  /\ Source(c) \in Seq(Numbers) /\ DOMAIN Source(c) = 1..Len(Source(c)) /\ Len(Source(c)) \in Nat
                    /\ sourceContactsCount(c) \in Nat /\ Len(Source(c)) <= sourceContactsCount(c)
                    /\ \A i, j \in 1..Len(Source(c)) : Source(c)[i] = Source(c)[j] => i = j
                    /\ ToSet(Source(c)) = Aimed(c)
  OBVIOUS
<1> DEFINE A == c.numbers
           B == IF c.grouped THEN Grouped \ c.numbers ELSE {}
           a == SetToSeq(A)
           b == SetToSeq(B)
<1>1. A \subseteq Numbers /\ B \subseteq Numbers /\ A \cap B = {} /\ Grouped \subseteq Numbers
  BY CampaignLeadsAssumption DEF Campaigns
<1>2. IsFiniteSet(A) /\ IsFiniteSet(B) /\ IsFiniteSet(Grouped)
  BY <1>1, FS_Subset, CampaignLeadsAssumption
<1>3. Source(c) = a \o b
  BY DEF Source
<1>4. Cardinality(B) <= IF c.grouped THEN Cardinality(Grouped) ELSE 0
  <2>1. CASE c.grouped
    BY <2>1, <1>2, FS_Subset
  <2>2. CASE ~c.grouped
    BY <2>2, FS_EmptySet
  <2>3. QED
    BY <2>1, <2>2
<1>5. sourceContactsCount(c) = Cardinality(A) + IF c.grouped THEN Cardinality(Grouped) ELSE 0
  BY DEF sourceContactsCount
<1>6. Cardinality(Grouped) \in Nat
  BY <1>2, FS_CardinalityType
<1>7. Aimed(c) = A \cup B
  BY DEF Aimed
<1> HIDE DEF A, B
<1>8. /\ a \in Seq(A) /\ Len(a) = Cardinality(A) /\ Cardinality(A) \in Nat
      /\ \A i, j \in 1..Cardinality(A) : a[i] = a[j] => i = j
      /\ \A x \in A : \E i \in 1..Cardinality(A) : a[i] = x
  BY <1>2, SetToSeqLists
<1>9. /\ b \in Seq(B) /\ Len(b) = Cardinality(B) /\ Cardinality(B) \in Nat
      /\ \A i, j \in 1..Cardinality(B) : b[i] = b[j] => i = j
      /\ \A x \in B : \E i \in 1..Cardinality(B) : b[i] = x
  BY <1>2, SetToSeqLists
<1> HIDE DEF a, b
<1>10. /\ a \in Seq(Numbers) /\ b \in Seq(Numbers)
       /\ \A i \in 1..Len(a) : a[i] \in A
       /\ \A i \in 1..Len(b) : b[i] \in B
  BY <1>1, <1>8, <1>9, SeqMonotonic, ElementOfSeq
<1>11. PICK s : s = a \o b
  OBVIOUS
<1>12. /\ s \in Seq(Numbers) /\ Len(s) = Len(a) + Len(b) /\ DOMAIN s = 1..Len(s) /\ Len(s) \in Nat
       /\ \A i \in 1..Len(s) : s[i] = IF i <= Len(a) THEN a[i] ELSE b[i - Len(a)]
  <2>1. /\ s \in Seq(Numbers) /\ Len(s) = Len(a) + Len(b)
        /\ \A i \in 1..Len(a) + Len(b) : s[i] = IF i <= Len(a) THEN a[i] ELSE b[i - Len(a)]
    BY <1>10, <1>11, ConcatProperties
  <2>2. QED
    BY <2>1, LenProperties
<1>13. \A i, j \in 1..Len(s) : s[i] = s[j] => i = j
  <2>1. ASSUME NEW i \in 1..Len(s), NEW j \in 1..Len(s), s[i] = s[j], i <= Len(a), j <= Len(a)
        PROVE  i = j
    BY <1>8, <1>12, <2>1
  <2>2. ASSUME NEW i \in 1..Len(s), NEW j \in 1..Len(s), s[i] = s[j], ~(i <= Len(a)), ~(j <= Len(a))
        PROVE  i = j
    <3>1. i - Len(a) \in 1..Len(b) /\ j - Len(a) \in 1..Len(b) /\ b[i - Len(a)] = b[j - Len(a)]
      BY <1>8, <1>9, <1>12, <2>2
    <3>2. i - Len(a) = j - Len(a)
      BY <1>9, <3>1
    <3>3. QED
      BY <1>8, <3>2
  <2>3. ASSUME NEW i \in 1..Len(s), NEW j \in 1..Len(s), i <= Len(a), ~(j <= Len(a))
        PROVE  s[i] # s[j]
    <3>1. i \in 1..Len(a) /\ j - Len(a) \in 1..Len(b)
      BY <1>8, <1>9, <1>12, <2>3
    <3>2. s[i] \in A /\ s[j] \in B
      BY <1>10, <1>12, <2>3, <3>1
    <3>3. QED
      BY <1>1, <3>2
  <2>4. QED
    BY <2>1, <2>2, <2>3
<1>14. ToSet(s) = A \cup B
  <2>1. \A i \in 1..Len(s) : s[i] \in A \cup B
    BY <1>8, <1>9, <1>10, <1>12
  <2>2. ASSUME NEW x \in A
        PROVE  \E i \in 1..Len(s) : s[i] = x
    BY <1>8, <1>9, <1>12
  <2>3. ASSUME NEW x \in B
        PROVE  \E i \in 1..Len(s) : s[i] = x
    <3>1. PICK k \in 1..Len(b) : b[k] = x
      BY <1>9
    <3>2. k + Len(a) \in 1..Len(s) /\ s[k + Len(a)] = x
      <4>1. Len(a) \in Nat /\ k \in 1..Len(b) /\ Len(b) \in Nat
        BY <1>8, <1>9, <3>1
      <4>2. k + Len(a) \in 1..Len(s) /\ ~(k + Len(a) <= Len(a)) /\ k + Len(a) - Len(a) = k
        BY <1>12, <4>1
      <4>3. QED
        BY <1>12, <3>1, <4>2
    <3>3. QED
      BY <3>2
  <2>4. QED
    BY <1>12, <2>1, <2>2, <2>3 DEF ToSet
<1>15. sourceContactsCount(c) \in Nat /\ Len(s) <= sourceContactsCount(c)
  BY <1>8, <1>9, <1>4, <1>5, <1>6, <1>12
<1>16. QED
  BY <1>3, <1>7, <1>11, <1>12, <1>13, <1>14, <1>15

\* What the page lists before there are leads: as many numbers as are counted.
LEMMA SourceCounted ==
  \A c \in Campaigns :
    LET s == SetToSeq(c.numbers) \o SetToSeq(IF c.grouped THEN Grouped ELSE {})
    IN  Len(s) <= sourceContactsCount(c) /\ ToSet(s) \subseteq Aimed(c)
<1> SUFFICES ASSUME NEW c \in Campaigns
             PROVE  LET s == SetToSeq(c.numbers) \o SetToSeq(IF c.grouped THEN Grouped ELSE {})
                    IN  Len(s) <= sourceContactsCount(c) /\ ToSet(s) \subseteq Aimed(c)
  OBVIOUS
<1> DEFINE A == c.numbers
           B == IF c.grouped THEN Grouped ELSE {}
<1>1. A \subseteq Numbers /\ B \subseteq Numbers /\ Grouped \subseteq Numbers
  BY CampaignLeadsAssumption DEF Campaigns
<1>2. IsFiniteSet(A) /\ IsFiniteSet(B)
  BY <1>1, FS_Subset, CampaignLeadsAssumption
<1>3. sourceContactsCount(c) = Cardinality(A) + Cardinality(B)
  BY FS_EmptySet DEF sourceContactsCount
<1>4. Aimed(c) = A \cup B
  BY DEF Aimed
<1> HIDE DEF A, B
<1>5. PICK a : a = SetToSeq(A)
  OBVIOUS
<1>6. PICK b : b = SetToSeq(B)
  OBVIOUS
<1>7. a \in Seq(A) /\ Len(a) = Cardinality(A) /\ b \in Seq(B) /\ Len(b) = Cardinality(B)
  BY <1>2, <1>5, <1>6, SetToSeqLists
<1>8. a \in Seq(A \cup B) /\ b \in Seq(A \cup B)
  BY <1>7, SeqMonotonic
<1>9. a \o b \in Seq(A \cup B) /\ Len(a \o b) = Len(a) + Len(b)
  BY <1>8, ConcatProperties
<1>10. Len(a \o b) <= sourceContactsCount(c)
  <2>1. Len(a \o b) = sourceContactsCount(c) /\ Len(a \o b) \in Nat
    BY <1>3, <1>7, <1>9, LenProperties
  <2>2. QED
    BY <2>1
<1>11. ToSet(a \o b) \subseteq A \cup B
  BY <1>9, LenProperties, ElementOfSeq DEF ToSet
<1>12. QED
  BY <1>4, <1>5, <1>6, <1>10, <1>11 DEF A, B

-----------------------------------------------------------------------------
LeadRec == [phone : Numbers, dnc : BOOLEAN, last : Dispositions \cup {"none"}]
WrapRec == [at : {"idle", "finding", "writing"}, number : Numbers, as : Dispositions \cup {"none"}, row : 0..MaxRows]
Line(r) == LineOf[lead[r].phone]

\* The lead that a disposition is about to write is of its line, if it is still there.
WrapFits == wrapUp.at = "writing" /\ wrapUp.row # 0 => wrapUp.row \in Rows /\ Line(wrapUp.row) = LineOf[wrapUp.number]

\* What was said of a line is written in its lead, unless the line has two.
SaidIsWritten ==
  /\ \A l \in Numbers : said[l] # "none" => \E r \in Rows : Line(r) = l
  /\ \A r \in Rows :
       \/ said[Line(r)] \in deleted \cup {"none"}
       \/ lead[r].last = said[Line(r)] /\ (lead[r].dnc <=> dialerOutcome(said[Line(r)]) = "dnc")
       \/ \E q \in Rows : q # r /\ Line(q) = Line(r)

\* The leads are of a campaign's target, and no more than are counted.
OnTarget(c) == (\A r \in Rows : lead[r].phone \in Aimed(c)) /\ Len(lead) <= sourceContactsCount(c)

\* Unless something has overtaken something, each number has one lead, of the target; but
\* not while an edit has written another one and is going to clear the leads.
TargetKept ==
  /\ edit.at = "patching" => edit.before = campaign
  /\ edit.at = "checking" => edit.patch = campaign
  /\ ~overtaken =>
       /\ \A r, q \in Rows : lead[r].phone = lead[q].phone => r = q
       /\ edit.at \in {"idle", "patching"} => OnTarget(campaign)
       /\ edit.at = "checking" /\ Targeting(edit.before) = Targeting(edit.patch) => OnTarget(campaign)

LeadsInv == LeadsTypeOK /\ WrapFits /\ SaidIsWritten /\ TargetKept

LEMMA RowsAre ==
  LeadsTypeOK => /\ lead \in Seq(LeadRec) /\ Rows = 1..Len(lead) /\ Len(lead) \in Nat
                 /\ \A r \in Rows : lead[r] \in LeadRec /\ lead[r].phone \in Numbers /\ Line(r) \in Numbers
<1> SUFFICES ASSUME LeadsTypeOK
             PROVE  /\ lead \in Seq(LeadRec) /\ Rows = 1..Len(lead) /\ Len(lead) \in Nat
                    /\ \A r \in Rows : lead[r] \in LeadRec /\ lead[r].phone \in Numbers /\ Line(r) \in Numbers
  OBVIOUS
<1>1. lead \in Seq(LeadRec)
  BY DEF LeadsTypeOK, LeadRec
<1>2. DOMAIN lead = 1..Len(lead) /\ Len(lead) \in Nat /\ \A r \in 1..Len(lead) : lead[r] \in LeadRec
  BY <1>1, LenProperties, ElementOfSeq
<1>3. \A r \in 1..Len(lead) : lead[r].phone \in Numbers
  BY <1>2 DEF LeadRec
<1>4. QED
  BY <1>1, <1>2, <1>3, CampaignLeadsAssumption DEF Rows, Line

\* Whom a campaign aims at depends on what it targets alone.
LEMMA SameTarget ==
  \A c, d \in Campaigns : Targeting(c) = Targeting(d) => Aimed(c) = Aimed(d) /\ sourceContactsCount(c) = sourceContactsCount(d)
BY DEF Targeting, Aimed, sourceContactsCount

\* A step that leaves the leads, the campaign and what is said of them.
LEMMA LeadsStay ==
  ASSUME WrapFits, SaidIsWritten, TargetKept,
         UNCHANGED <<campaign, deleted, lead, wrapUp, edit, said, overtaken>>
  PROVE  WrapFits' /\ SaidIsWritten' /\ TargetKept'
BY DEF WrapFits, SaidIsWritten, TargetKept, OnTarget, Line, Rows

JoinRec == [at : {"idle", "counting", "creating", "starting"}, read : Campaigns]

\* Where a request goes next keeps its type.
LEMMA JoinTypes ==
  ASSUME LeadsTypeOK
  PROVE  /\ NoJoin \in JoinRec /\ NoEdit.before \in Campaigns /\ NoEdit.patch \in Campaigns
         /\ \A j \in Joins : /\ join[j] \in JoinRec /\ Afterwards(join[j]) \in JoinRec
                             /\ [join[j] EXCEPT !.at = "creating"] \in JoinRec
<1>1. Blank \in Campaigns
  BY DEF LeadsTypeOK, Blank
<1>2. NoJoin \in JoinRec
  BY <1>1 DEF NoJoin, JoinRec
<1>3. \A j \in Joins : join[j] \in JoinRec
  BY DEF LeadsTypeOK, JoinRec
<1>4. QED
  BY <1>1, <1>2, <1>3 DEF Afterwards, JoinRec, NoEdit

\* Requests and runs: none of these touches a lead.
LEMMA RunSteps ==
  ASSUME LeadsInv,
         \/ \E j \in Joins : agentJoin(j) \/ leadsExist(j) \/ startRun(j) \/ runEnds(j) \/ \E n \in Numbers : dials(j, n)
         \/ resetArrives
  PROVE  LeadsInv'
<1>1. LeadsTypeOK
  BY DEF LeadsInv
<1>2. UNCHANGED <<preview, campaign, deleted, lead, wrapUp, edit, said, overtaken>>
  BY DEF agentJoin, leadsExist, startRun, runEnds, dials, resetArrives, rowVars, runVars, counts, auxVars
<1>3. WrapFits' /\ SaidIsWritten' /\ TargetKept'
  BY <1>2, LeadsStay DEF LeadsInv
<1>4. ASSUME join' \in [Joins -> JoinRec], runOf' \in [Joins -> [live : BOOLEAN, items : SUBSET Numbers]], known' \in Joins,
             owed' \subseteq Numbers, edits' \in 0..MaxEdits, answered' \in 0..MaxAnswered, resetting' \in BOOLEAN
      PROVE  LeadsTypeOK'
  BY <1>1, <1>2, <1>4 DEF LeadsTypeOK, JoinRec
<1>5. /\ join \in [Joins -> JoinRec] /\ runOf \in [Joins -> [live : BOOLEAN, items : SUBSET Numbers]] /\ known \in Joins
      /\ owed \subseteq Numbers /\ edits \in 0..MaxEdits /\ answered \in 0..MaxAnswered /\ resetting \in BOOLEAN
  BY <1>1 DEF LeadsTypeOK, JoinRec
<1>6. ASSUME NEW j \in Joins, agentJoin(j) \/ leadsExist(j)
      PROVE  LeadsTypeOK'
  <2>1. UNCHANGED <<runOf, known, owed, edits, answered, resetting>>
    BY <1>6 DEF agentJoin, leadsExist, counts
  <2>2. [at |-> "counting", read |-> campaign] \in JoinRec
    BY <1>1 DEF LeadsTypeOK, JoinRec
  <2>3. join' \in [Joins -> JoinRec]
    BY <1>1, <1>5, <1>6, <2>2, JoinTypes DEF agentJoin, leadsExist
  <2>4. QED
    BY <1>4, <1>5, <2>1, <2>3
<1>7. ASSUME NEW j \in Joins, startRun(j)
      PROVE  LeadsTypeOK'
  <2> DEFINE items == {lead[r].phone : r \in {q \in Rows : workable(lead[q], join[j].read)}}
  <2>1. UNCHANGED <<owed, edits, answered, resetting>> /\ join' = [join EXCEPT ![j] = NoJoin]
    BY <1>7 DEF startRun, counts
  <2>2. \/ UNCHANGED <<runOf, known>>
        \/ runOf' = [runOf EXCEPT ![j] = [live |-> TRUE, items |-> items]] /\ known' = j
    BY <1>7 DEF startRun
  <2>3. items \subseteq Numbers
    BY <1>1, RowsAre
  <2> HIDE DEF items
  <2>4. [live |-> TRUE, items |-> items] \in [live : BOOLEAN, items : SUBSET Numbers]
    BY <2>3
  <2>5. runOf' \in [Joins -> [live : BOOLEAN, items : SUBSET Numbers]] /\ known' \in Joins
    BY <1>5, <2>2, <2>4
  <2>6. join' \in [Joins -> JoinRec]
    BY <1>1, <1>5, <2>1, JoinTypes
  <2>7. QED
    BY <1>4, <1>5, <2>1, <2>5, <2>6
<1>8. ASSUME NEW j \in Joins, runEnds(j)
      PROVE  LeadsTypeOK'
  <2>1. UNCHANGED <<join, known, owed, edits, answered, resetting>> /\ runOf' = [runOf EXCEPT ![j] = NoRun]
    BY <1>8 DEF runEnds, counts
  <2>2. runOf' \in [Joins -> [live : BOOLEAN, items : SUBSET Numbers]]
    BY <1>5, <2>1 DEF NoRun
  <2>3. QED
    BY <1>4, <1>5, <2>1, <2>2
<1>9. ASSUME NEW j \in Joins, NEW n \in Numbers, dials(j, n)
      PROVE  LeadsTypeOK'
  <2>1. /\ UNCHANGED <<join, known, edits, resetting>>
        /\ runOf' = [runOf EXCEPT ![j] = [runOf[j] EXCEPT !.items = @ \ {n}]]
        /\ \/ UNCHANGED <<owed, answered>>
           \/ answered < MaxAnswered /\ answered' = answered + 1 /\ owed' = owed \cup {n}
    BY <1>9 DEF dials
  <2>2. [runOf[j] EXCEPT !.items = @ \ {n}] \in [live : BOOLEAN, items : SUBSET Numbers]
    BY <1>5
  <2>3. runOf' \in [Joins -> [live : BOOLEAN, items : SUBSET Numbers]]
    BY <1>5, <2>1, <2>2
  <2>4. owed' \subseteq Numbers /\ answered' \in 0..MaxAnswered
    BY <1>5, <2>1, CampaignLeadsAssumption
  <2>5. QED
    BY <1>4, <1>5, <2>1, <2>3, <2>4
<1>10. ASSUME resetArrives
       PROVE  LeadsTypeOK'
  <2>1. UNCHANGED <<join, runOf, known, owed, answered>> /\ resetting' = TRUE /\ edits' \in 0..MaxEdits
    BY <1>5, <1>10, CampaignLeadsAssumption DEF resetArrives, runVars
  <2>2. QED
    BY <1>4, <1>5, <2>1
<1>11. LeadsTypeOK'
  BY <1>6, <1>7, <1>8, <1>9, <1>10
<1>12. QED
  BY <1>3, <1>11 DEF LeadsInv

\* The leads are created: beside others, or of another target, only if something is overtaken.
LEMMA MaterializeStep ==
  ASSUME LeadsInv, NEW j \in Joins, materializeLeads(j)
  PROVE  LeadsInv'
<1>1. LeadsTypeOK /\ join[j].read \in Campaigns /\ campaign \in Campaigns /\ overtaken \in BOOLEAN
  BY JoinTypes DEF LeadsInv, JoinRec, LeadsTypeOK
<1>2. PICK rows \in Seq(Numbers) : rows = Source(join[j].read)
  BY <1>1, SourceLists
<1>3. /\ DOMAIN rows = 1..Len(rows) /\ Len(rows) \in Nat /\ Len(rows) <= sourceContactsCount(join[j].read)
      /\ \A i, k \in 1..Len(rows) : rows[i] = rows[k] => i = k
      /\ \A i \in 1..Len(rows) : rows[i] \in Numbers /\ rows[i] \in Aimed(join[j].read)
  <2>1. ToSet(rows) = Aimed(join[j].read)
    BY <1>1, <1>2, SourceLists
  <2>2. QED
    BY <1>1, <1>2, <2>1, SourceLists, ElementOfSeq DEF ToSet
<1>4. PICK new : new = [i \in DOMAIN rows |-> [phone |-> rows[i], dnc |-> FALSE, last |-> "none"]]
  OBVIOUS
<1>5. /\ new \in Seq(LeadRec) /\ Len(new) = Len(rows)
      /\ \A i \in 1..Len(rows) : new[i].phone = rows[i] /\ new[i].last = "none"
  <2>1. new \in [1..Len(rows) -> LeadRec]
    BY <1>3, <1>4 DEF LeadRec
  <2>2. \A i \in 1..Len(rows) : new[i].phone = rows[i] /\ new[i].last = "none"
    BY <1>3, <1>4
  <2>3. QED
    BY <1>3, <2>1, <2>2, SeqOfFunction
<1>6. /\ lead' = lead \o new /\ Len(lead') <= MaxRows
      /\ overtaken' = (overtaken \/ Rows # {} \/ Targeting(join[j].read) # Targeting(campaign))
      /\ join' = [join EXCEPT ![j] = Afterwards(join[j])]
      /\ UNCHANGED <<preview, campaign, deleted, runOf, known, owed, wrapUp, edit, resetting, edits, answered, said>>
  BY <1>2, <1>4 DEF materializeLeads, counts
<1>7. lead \in Seq(LeadRec) /\ Rows = 1..Len(lead) /\ Len(lead) \in Nat /\ \A r \in Rows : Line(r) \in Numbers
  BY <1>1, RowsAre
<1>8. /\ lead' \in Seq(LeadRec) /\ Len(lead') = Len(lead) + Len(rows) /\ Rows' = 1..Len(lead')
      /\ \A r \in 1..Len(lead) + Len(rows) : lead'[r] = IF r <= Len(lead) THEN lead[r] ELSE new[r - Len(lead)]
  <2>1. /\ lead' \in Seq(LeadRec) /\ Len(lead') = Len(lead) + Len(rows)
        /\ \A r \in 1..Len(lead) + Len(rows) : lead'[r] = IF r <= Len(lead) THEN lead[r] ELSE new[r - Len(lead)]
    <3>1. PICK old : old = lead
      OBVIOUS
    <3>2. old \in Seq(LeadRec) /\ lead' = old \o new
      BY <1>6, <1>7, <3>1
    <3>3. /\ old \o new \in Seq(LeadRec) /\ Len(old \o new) = Len(old) + Len(new)
          /\ \A r \in 1..Len(old) + Len(new) : (old \o new)[r] = IF r <= Len(old) THEN old[r] ELSE new[r - Len(old)]
      <4>1. old \in Seq(LeadRec) /\ new \in Seq(LeadRec)
        BY <1>5, <3>2
      <4>2. QED
        BY <4>1, ConcatProperties
    <3>4. QED
      BY <1>5, <3>1, <3>2, <3>3
  <2>2. QED
    BY <2>1, LenProperties DEF Rows
<1>9. /\ \A r \in Rows : r \in Rows' /\ lead'[r] = lead[r]
      /\ \A r \in Rows' \ Rows : r - Len(lead) \in 1..Len(rows) /\ lead'[r] = new[r - Len(lead)]
  BY <1>3, <1>7, <1>8
<1>10. LeadsTypeOK'
  <2>1. join' \in [Joins -> JoinRec]
    BY <1>1, <1>6, JoinTypes DEF LeadsTypeOK, JoinRec
  <2>2. overtaken' \in BOOLEAN
    BY <1>6, Zenon
  <2>3. QED
    BY <1>1, <1>6, <1>8, <2>1, <2>2 DEF LeadsTypeOK, JoinRec, LeadRec
<1>11. WrapFits'
  BY <1>6, <1>9 DEF LeadsInv, WrapFits, Line
<1>12. SaidIsWritten'
  <2>1. ASSUME NEW l \in Numbers, said'[l] # "none"
        PROVE  \E r \in Rows' : Line(r)' = l
    <3>1. PICK r \in Rows : Line(r) = l
      BY <1>6, <2>1 DEF LeadsInv, SaidIsWritten
    <3>2. r \in Rows' /\ Line(r)' = l
      BY <1>9, <3>1 DEF Line
    <3>3. QED
      BY <3>2
  <2>2. ASSUME NEW r \in Rows', said'[Line(r)'] \notin deleted' \cup {"none"}
        PROVE  \/ lead'[r].last = said'[Line(r)'] /\ (lead'[r].dnc <=> dialerOutcome(said'[Line(r)']) = "dnc")
               \/ \E q \in Rows' : q # r /\ Line(q)' = Line(r)'
    <3>1. CASE r \in Rows
      <4>1. lead'[r] = lead[r] /\ Line(r)' = Line(r) /\ UNCHANGED <<said, deleted>>
        BY <1>6, <1>9, <3>1 DEF Line
      <4>2. \/ lead[r].last = said[Line(r)] /\ (lead[r].dnc <=> dialerOutcome(said[Line(r)]) = "dnc")
            \/ \E q \in Rows : q # r /\ Line(q) = Line(r)
        BY <2>2, <3>1, <4>1 DEF LeadsInv, SaidIsWritten
      <4>3. ASSUME NEW q \in Rows
            PROVE  q \in Rows' /\ Line(q)' = Line(q)
        BY <1>9 DEF Line
      <4>4. QED
        BY <4>1, <4>2, <4>3
    <3>2. CASE r \notin Rows
      <4>1. lead'[r].phone \in Numbers /\ Line(r)' \in Numbers
        BY <1>3, <1>5, <1>9, <3>2, CampaignLeadsAssumption DEF Line
      <4>2. PICK q \in Rows : Line(q) = Line(r)'
        BY <1>6, <2>2, <4>1 DEF LeadsInv, SaidIsWritten
      <4>3. q \in Rows' /\ q # r /\ Line(q)' = Line(r)'
        BY <1>9, <3>2, <4>2 DEF Line
      <4>4. QED
        BY <4>3
    <3>3. QED
      BY <3>1, <3>2
  <2>3. QED
    BY <2>1, <2>2 DEF SaidIsWritten
<1>13. TargetKept'
  <2>1. ASSUME ~overtaken'
        PROVE  ~overtaken /\ Rows = {} /\ Targeting(join[j].read) = Targeting(campaign)
    BY <1>6, <2>1, Zenon
  <2>2. ASSUME ~overtaken'
        PROVE  OnTarget(campaign)'
    <3>1. Rows = {} /\ Len(lead) = 0
      BY <1>7, <2>1, <2>2
    <3>2. /\ Aimed(join[j].read) = Aimed(campaign)
          /\ sourceContactsCount(join[j].read) = sourceContactsCount(campaign)
      BY <1>1, <2>1, <2>2, SameTarget
    <3>3. Len(lead') <= sourceContactsCount(campaign)
      BY <1>3, <1>8, <3>1, <3>2
    <3>4. \A r \in Rows' : lead'[r].phone \in Aimed(campaign)
      BY <1>3, <1>5, <1>9, <3>1, <3>2
    <3>5. Aimed(campaign)' = Aimed(campaign) /\ sourceContactsCount(campaign)' = sourceContactsCount(campaign)
      BY <1>6 DEF Aimed, sourceContactsCount
    <3>6. QED
      BY <3>3, <3>4, <3>5 DEF OnTarget
  <2>3. ASSUME ~overtaken', NEW r \in Rows', NEW q \in Rows', lead'[r].phone = lead'[q].phone
        PROVE  r = q
    <3>1. Rows = {} /\ Len(lead) = 0
      BY <1>7, <2>1, <2>3
    <3>2. r \in 1..Len(rows) /\ q \in 1..Len(rows) /\ rows[r] = rows[q]
      BY <1>3, <1>5, <1>8, <1>9, <2>3, <3>1
    <3>3. QED
      BY <1>3, <3>2
  <2>4. QED
    BY <1>6, <2>2, <2>3 DEF LeadsInv, TargetKept
<1>14. QED
  BY <1>10, <1>11, <1>12, <1>13 DEF LeadsInv

\* The leads found on a line have a first one.
LEMMA FirstHit ==
  \A S : S \subseteq Nat /\ S # {} => Min(S) \in S
<1> SUFFICES ASSUME NEW S, S \subseteq Nat, S # {}
             PROVE  Min(S) \in S
  OBVIOUS
<1>1. PICK n \in S : \A m \in S : <<m, n>> \notin OpToRel(<, Nat)
  BY NatLessThanWellFounded, WFMin
<1>2. ASSUME NEW m \in S
      PROVE  n =< m
  <2>1. n \in Nat /\ m \in Nat
    BY <1>1
  <2>2. m < n => <<m, n>> \in OpToRel(<, Nat)
    BY <2>1 DEF OpToRel
  <2>3. ~(m < n)
    BY <1>1, <2>2
  <2>4. QED
    BY <2>1, <2>3
<1>3. QED
  BY <1>1, <1>2 DEF Min

\* A disposition on its way to its lead, and one that leaves the catalog.
LEMMA WrapSteps ==
  ASSUME LeadsInv,
         \/ \E n, m \in Numbers, d \in Dispositions : dispositionArrives(n, m, d)
         \/ findsLead
         \/ \E d \in Deletable : removeDisposition(d)
  PROVE  LeadsInv'
<1>1. LeadsTypeOK
  BY DEF LeadsInv
<1>2. wrapUp \in WrapRec /\ owed \subseteq Numbers /\ deleted \subseteq Deletable /\ MaxRows \in Nat
  BY <1>1, CampaignLeadsAssumption DEF LeadsTypeOK, WrapRec
<1>3. UNCHANGED <<preview, campaign, lead, join, runOf, known, edit, resetting, edits, answered, overtaken>>
  BY DEF dispositionArrives, findsLead, removeDisposition, rowVars, runVars, counts, auxVars
<1>4. UNCHANGED said
  <2>1. CASE findsLead
    <3> DEFINE hits == {r \in Rows : sameCustomer(lead[r].phone, wrapUp.number)}
    <3>1. hits = {} => ~\E r \in Rows : LineOf[lead[r].phone] = LineOf[wrapUp.number]
      BY DEF sameCustomer
    <3>2. (hits = {} /\ Accepted(LineOf[wrapUp.number], wrapUp.as)) \/ UNCHANGED said
      BY <2>1 DEF findsLead
    <3>3. QED
      BY <3>1, <3>2 DEF Accepted
  <2>2. CASE ~findsLead
    BY <2>2 DEF dispositionArrives, removeDisposition, auxVars
  <2>3. QED
    BY <2>1, <2>2
<1>5. ASSUME wrapUp' \in WrapRec, owed' \subseteq Numbers, deleted' \subseteq Deletable, deleted \subseteq deleted', WrapFits'
      PROVE  LeadsInv'
  <2>1. LeadsTypeOK'
    BY <1>1, <1>3, <1>4, <1>5 DEF LeadsTypeOK, WrapRec
  <2>2. SaidIsWritten'
    BY <1>3, <1>4, <1>5 DEF LeadsInv, SaidIsWritten, Line, Rows
  <2>3. TargetKept'
    BY <1>3 DEF LeadsInv, TargetKept, OnTarget, Rows
  <2>4. QED
    BY <1>5, <2>1, <2>2, <2>3 DEF LeadsInv
<1>6. ASSUME NEW n \in Numbers, NEW m \in Numbers, NEW d \in Dispositions, dispositionArrives(n, m, d)
      PROVE  LeadsInv'
  <2>1. wrapUp' = [at |-> "finding", number |-> m, as |-> d, row |-> 0] /\ owed' = owed \ {n} /\ UNCHANGED deleted
    BY <1>6 DEF dispositionArrives, rowVars
  <2>2. wrapUp' \in WrapRec /\ wrapUp'.at = "finding"
    BY <1>2, <2>1 DEF WrapRec
  <2>3. WrapFits'
    BY <2>2 DEF WrapFits
  <2>4. QED
    BY <1>2, <1>5, <2>1, <2>2, <2>3
<1>7. ASSUME findsLead
      PROVE  LeadsInv'
  <2> DEFINE hits == {r \in Rows : sameCustomer(lead[r].phone, wrapUp.number)}
  <2>1. wrapUp' = Nothing \/ (hits # {} /\ wrapUp' = [wrapUp EXCEPT !.at = "writing", !.row = Min(hits)])
    BY <1>7 DEF findsLead
  <2>2. UNCHANGED <<owed, deleted>>
    BY <1>7 DEF findsLead, rowVars
  <2>3. CASE wrapUp' = Nothing
    <3>1. Nothing \in WrapRec /\ Nothing.at = "idle"
      BY <1>2, CampaignLeadsAssumption DEF Nothing, WrapRec
    <3>2. WrapFits'
      BY <2>3, <3>1 DEF WrapFits
    <3>3. QED
      BY <1>2, <1>5, <2>2, <2>3, <3>1, <3>2
  <2>4. CASE hits # {} /\ wrapUp' = [wrapUp EXCEPT !.at = "writing", !.row = Min(hits)]
    <3>1. hits \subseteq Nat /\ Rows = 1..Len(lead) /\ Len(lead) \in Nat
      BY <1>1, RowsAre
    <3>2. PICK r : r = Min(hits)
      OBVIOUS
    <3>3. r \in hits
      BY <2>4, <3>1, <3>2, FirstHit
    <3>4. r \in Rows /\ Line(r) = LineOf[wrapUp.number]
      BY <3>3 DEF sameCustomer, Line
    <3>5. r \in 0..MaxRows
      BY <1>1, <1>2, <3>1, <3>4 DEF LeadsTypeOK
    <3>6. wrapUp' = [wrapUp EXCEPT !.at = "writing", !.row = r]
      BY <2>4, <3>2
    <3>7. wrapUp' \in WrapRec /\ wrapUp'.row = r /\ wrapUp'.number = wrapUp.number
      BY <1>2, <3>5, <3>6 DEF WrapRec
    <3>8. WrapFits'
      BY <1>3, <3>4, <3>7 DEF WrapFits, Line, Rows
    <3>9. QED
      BY <1>2, <1>5, <2>2, <3>7, <3>8
  <2>5. QED
    BY <2>1, <2>3, <2>4
<1>8. ASSUME NEW d \in Deletable, removeDisposition(d)
      PROVE  LeadsInv'
  <2>1. deleted' = deleted \cup {d} /\ UNCHANGED <<wrapUp, owed>>
    BY <1>8 DEF removeDisposition
  <2>2. WrapFits'
    BY <1>3, <2>1 DEF LeadsInv, WrapFits, Line, Rows
  <2>3. QED
    BY <1>2, <1>5, <2>1, <2>2
<1>9. QED
  BY <1>6, <1>7, <1>8

\* The disposition is written in its lead, or misses one that has been cleared.
LEMMA DispositionStep ==
  ASSUME LeadsInv, dispositionCall
  PROVE  LeadsInv'
<1>1. LeadsTypeOK /\ wrapUp \in WrapRec
  BY DEF LeadsInv, LeadsTypeOK, WrapRec
<1>2. UNCHANGED <<preview, campaign, deleted, join, runOf, known, owed, edit, resetting, edits, answered, overtaken>>
  BY DEF dispositionCall, runVars, counts
<1>3. wrapUp' = Nothing /\ Nothing \in WrapRec /\ Nothing.at = "idle"
  BY CampaignLeadsAssumption DEF dispositionCall, Nothing, WrapRec
<1>4. WrapFits'
  BY <1>3 DEF WrapFits
<1>5. CASE wrapUp.row = 0
  <2>1. UNCHANGED <<lead, said>>
    BY <1>5 DEF dispositionCall
  <2>2. LeadsTypeOK'
    BY <1>1, <1>2, <1>3, <2>1 DEF LeadsTypeOK, WrapRec
  <2>3. SaidIsWritten' /\ TargetKept'
    BY <1>2, <2>1 DEF LeadsInv, SaidIsWritten, TargetKept, OnTarget, Line, Rows
  <2>4. QED
    BY <1>4, <2>2, <2>3 DEF LeadsInv
<1>6. CASE wrapUp.row # 0
  <2>1. PICK k : k = wrapUp.row
    OBVIOUS
  <2>2. PICK d : d = wrapUp.as
    OBVIOUS
  <2>3. k \in Rows /\ Line(k) = LineOf[wrapUp.number] /\ d \in Dispositions \cup {"none"}
    BY <1>1, <1>6, <2>1, <2>2 DEF LeadsInv, WrapFits, dispositionCall, WrapRec
  <2>4. PICK new : new = [lead[k] EXCEPT !.dnc = (leadOutcome(d) = "dnc"), !.last = d]
    OBVIOUS
  <2>5. lead \in Seq(LeadRec) /\ Rows = 1..Len(lead) /\ \A r \in Rows : lead[r] \in LeadRec /\ Line(r) \in Numbers
    BY <1>1, RowsAre
  <2>6. /\ new \in LeadRec /\ new.phone = lead[k].phone /\ new.last = d
        /\ new.dnc <=> leadOutcome(d) = "dnc"
    BY <2>3, <2>4, <2>5 DEF LeadRec
  <2>7. lead' = [lead EXCEPT ![k] = new] /\ Accepted(Line(k), d)
    BY <1>6, <2>1, <2>2, <2>3, <2>4 DEF dispositionCall
  <2>8. /\ lead' \in Seq(LeadRec) /\ Len(lead') = Len(lead) /\ Rows' = Rows
        /\ \A r \in Rows : lead'[r] = IF r = k THEN new ELSE lead[r]
    <3>1. PICK old \in Seq(LeadRec) : old = lead
      BY <2>5
    <3>2. k \in 1..Len(old)
      BY <2>3, <2>5, <3>1
    <3>3. /\ [old EXCEPT ![k] = new] \in Seq(LeadRec) /\ Len([old EXCEPT ![k] = new]) = Len(old)
          /\ \A r \in 1..Len(old) : [old EXCEPT ![k] = new][r] = IF r = k THEN new ELSE old[r]
      BY <2>6, <3>2, ExceptSeq
    <3>4. QED
      BY <2>5, <2>7, <3>1, <3>3, LenProperties DEF Rows
  <2>9. \A r \in Rows : lead'[r].phone = lead[r].phone /\ Line(r)' = Line(r)
    BY <2>6, <2>8 DEF Line
  <2>10. said' = [said EXCEPT ![Line(k)] = d] /\ said \in [Numbers -> Dispositions \cup {"none"}]
    BY <1>1, <2>3, <2>7 DEF Accepted, LeadsTypeOK, Line
  <2>11. LeadsTypeOK'
    <3>1. said' \in [Numbers -> Dispositions \cup {"none"}]
      BY <2>3, <2>5, <2>10
    <3>2. QED
      BY <1>1, <1>2, <1>3, <2>8, <3>1 DEF LeadsTypeOK, WrapRec, LeadRec
  <2>12. TargetKept'
    BY <1>2, <2>8, <2>9 DEF LeadsInv, TargetKept, OnTarget
  <2>13. SaidIsWritten'
    <3>1. ASSUME NEW l \in Numbers, said'[l] # "none"
          PROVE  \E r \in Rows' : Line(r)' = l
      <4>1. PICK r \in Rows : Line(r) = l
        <5>1. CASE l = Line(k)
          BY <2>3, <5>1
        <5>2. CASE l # Line(k)
          BY <2>10, <3>1, <5>2 DEF LeadsInv, SaidIsWritten
        <5>3. QED
          BY <5>1, <5>2
      <4>2. QED
        BY <2>8, <2>9, <4>1
    <3>2. ASSUME NEW r \in Rows, said'[Line(r)] \notin deleted \cup {"none"},
                 ~\E q \in Rows : q # r /\ Line(q) = Line(r)
          PROVE  lead'[r].last = said'[Line(r)] /\ (lead'[r].dnc <=> dialerOutcome(said'[Line(r)]) = "dnc")
      <4>1. CASE r = k
        <5>1. said'[Line(r)] = d /\ d \notin deleted
          BY <2>3, <2>5, <2>10, <3>2, <4>1
        <5>2. leadOutcome(d) = dialerOutcome(d)
          BY <5>1 DEF leadOutcome
        <5>3. QED
          BY <2>6, <2>8, <4>1, <5>1, <5>2
      <4>2. CASE r # k
        <5>1. Line(r) # Line(k)
          BY <2>3, <3>2, <4>2
        <5>2. said'[Line(r)] = said[Line(r)] /\ lead'[r] = lead[r]
          BY <2>5, <2>8, <2>10, <4>2, <5>1
        <5>3. QED
          BY <3>2, <5>2 DEF LeadsInv, SaidIsWritten
      <4>3. QED
        BY <4>1, <4>2
    <3>3. ASSUME NEW r \in Rows'
          PROVE  \/ said'[Line(r)'] \in deleted' \cup {"none"}
                 \/ lead'[r].last = said'[Line(r)'] /\ (lead'[r].dnc <=> dialerOutcome(said'[Line(r)']) = "dnc")
                 \/ \E q \in Rows' : q # r /\ Line(q)' = Line(r)'
      BY <1>2, <2>8, <2>9, <3>2
    <3>4. QED
      BY <3>1, <3>3 DEF SaidIsWritten
  <2>14. QED
    BY <1>4, <2>11, <2>12, <2>13 DEF LeadsInv
<1>7. QED
  BY <1>5, <1>6

\* The edit, from its read to the clearing of the leads, and the reset.
LEMMA EditSteps ==
  ASSUME LeadsInv,
         \/ \E patch \in Campaigns : editArrives(patch)
         \/ editWrites \/ updateCampaign \/ clearsLeads \/ resetCampaignProgress
  PROVE  LeadsInv'
<1>1. LeadsTypeOK /\ Unsaid \in [Numbers -> Dispositions \cup {"none"}] /\ MaxRows \in Nat /\ MaxEdits \in Nat
  BY CampaignLeadsAssumption DEF LeadsInv, Unsaid
<1> DEFINE EditRec == [at : {"idle", "patching", "checking", "clearing"}, before : Campaigns, patch : Campaigns]
<1>2. edit \in EditRec /\ campaign \in Campaigns /\ NoEdit \in EditRec /\ NoEdit.at = "idle" /\ overtaken \in BOOLEAN
  BY <1>1, JoinTypes DEF LeadsTypeOK, NoEdit
<1>3. ASSUME NEW patch \in Campaigns, editArrives(patch)
      PROVE  LeadsInv'
  <2>1. /\ edit.at = "idle" /\ edit' = [at |-> "patching", before |-> campaign, patch |-> patch] /\ edits' \in 0..MaxEdits
        /\ UNCHANGED <<preview, campaign, deleted, lead, join, runOf, known, owed, wrapUp, resetting, answered, said, overtaken>>
    BY <1>1, <1>3 DEF editArrives, rowVars, runVars, auxVars, LeadsTypeOK
  <2>2. edit' \in EditRec /\ edit'.at = "patching" /\ edit'.before = campaign
    BY <1>2, <2>1
  <2>3. LeadsTypeOK'
    BY <1>1, <2>1, <2>2 DEF LeadsTypeOK
  <2>4. WrapFits' /\ SaidIsWritten'
    BY <2>1 DEF LeadsInv, WrapFits, SaidIsWritten, Line, Rows
  <2>5. TargetKept'
    BY <2>1, <2>2 DEF LeadsInv, TargetKept, OnTarget, Rows
  <2>6. QED
    BY <2>3, <2>4, <2>5 DEF LeadsInv
<1>4. ASSUME editWrites
      PROVE  LeadsInv'
  <2>1. /\ edit.at = "patching" /\ campaign' = edit.patch /\ edit' = [edit EXCEPT !.at = "checking"]
        /\ UNCHANGED <<preview, deleted, lead, join, runOf, known, owed, wrapUp, resetting, edits, answered, said, overtaken>>
    BY <1>4 DEF editWrites, runVars, counts, auxVars
  <2>2. edit' \in EditRec /\ edit'.at = "checking" /\ edit'.before = edit.before /\ edit'.patch = edit.patch /\ campaign' \in Campaigns
    BY <1>2, <2>1
  <2>3. LeadsTypeOK'
    BY <1>1, <2>1, <2>2 DEF LeadsTypeOK
  <2>4. WrapFits' /\ SaidIsWritten'
    BY <2>1 DEF LeadsInv, WrapFits, SaidIsWritten, Line, Rows
  <2>5. edit.before = campaign
    BY <2>1 DEF LeadsInv, TargetKept
  <2>6. Targeting(edit'.before) = Targeting(edit'.patch) /\ OnTarget(campaign) => OnTarget(campaign)'
    <3>1. PICK c \in Campaigns, d \in Campaigns : c = campaign /\ d = edit.patch
      BY <1>2
    <3>2. Targeting(c) = Targeting(d) => Aimed(c) = Aimed(d) /\ sourceContactsCount(c) = sourceContactsCount(d)
      BY SameTarget
    <3>3. OnTarget(campaign)' <=> OnTarget(d)
      BY <2>1, <3>1 DEF OnTarget, Rows, Aimed, sourceContactsCount
    <3>4. QED
      BY <2>2, <2>5, <3>1, <3>2, <3>3 DEF OnTarget
  <2>7. TargetKept'
    BY <2>1, <2>2, <2>6 DEF LeadsInv, TargetKept, Rows
  <2>8. QED
    BY <2>3, <2>4, <2>7 DEF LeadsInv
<1>5. ASSUME updateCampaign
      PROVE  LeadsInv'
  <2>1. /\ edit.at = "checking"
        /\ edit' = IF targetingChanged(edit.before, edit.patch) /\ ~runLive THEN [edit EXCEPT !.at = "clearing"] ELSE NoEdit
        /\ overtaken' = (overtaken \/ (Targeting(edit.before) # Targeting(edit.patch) /\ runLive))
        /\ UNCHANGED <<preview, campaign, deleted, lead, join, runOf, known, owed, wrapUp, resetting, edits, answered, said>>
    BY <1>5 DEF updateCampaign, rowVars, runVars, counts
  <2>2. edit' \in EditRec /\ edit'.at \in {"clearing", "idle"}
    BY <1>2, <2>1
  <2>3. overtaken' \in BOOLEAN
    BY <2>1, Zenon
  <2>4. LeadsTypeOK'
    BY <1>1, <2>1, <2>2, <2>3 DEF LeadsTypeOK
  <2>5. WrapFits' /\ SaidIsWritten'
    BY <2>1 DEF LeadsInv, WrapFits, SaidIsWritten, Line, Rows
  <2>6. ~overtaken' => ~overtaken /\ (Targeting(edit.before) = Targeting(edit.patch) \/ ~runLive)
    BY <2>1, Zenon
  <2>7. ~overtaken' /\ edit'.at = "idle" => Targeting(edit.before) = Targeting(edit.patch)
    <3>1. ASSUME Targeting(edit.before) # Targeting(edit.patch), ~runLive
          PROVE  edit'.at = "clearing"
      BY <1>2, <2>1, <3>1 DEF targetingChanged
    <3>2. QED
      BY <2>6, <3>1
  <2>8. TargetKept'
    BY <2>1, <2>2, <2>6, <2>7 DEF LeadsInv, TargetKept, OnTarget, Rows
  <2>9. QED
    BY <2>4, <2>5, <2>8 DEF LeadsInv
<1>6. ASSUME clearsLeads
      PROVE  LeadsInv'
  <2>1. /\ lead' = <<>> /\ edit' = NoEdit /\ wrapUp' = [wrapUp EXCEPT !.row = 0] /\ said' = Unsaid /\ overtaken' = FALSE
        /\ UNCHANGED <<preview, campaign, deleted, join, runOf, known, owed, resetting, edits, answered>>
    BY <1>6 DEF clearsLeads, runVars, counts
  <2>2. lead' \in Seq(LeadRec) /\ Len(lead') = 0 /\ Rows' = {}
    BY <2>1, EmptySeq DEF Rows
  <2>3. wrapUp' \in WrapRec /\ wrapUp'.row = 0
    <3>1. wrapUp \in WrapRec /\ 0 \in 0..MaxRows
      BY <1>1, CampaignLeadsAssumption DEF LeadsTypeOK, WrapRec
    <3>2. QED
      BY <2>1, <3>1 DEF WrapRec
  <2>4. LeadsTypeOK'
    <3>1. Len(lead') <= MaxRows /\ said' \in [Numbers -> Dispositions \cup {"none"}]
      BY <2>1, <2>2, CampaignLeadsAssumption DEF Unsaid
    <3>2. edit' \in EditRec /\ overtaken' \in BOOLEAN
      BY <1>2, <2>1
    <3>3. QED
      BY <1>1, <2>1, <2>2, <2>3, <3>1, <3>2 DEF LeadsTypeOK, WrapRec, LeadRec
  <2>5. WrapFits'
    BY <2>3 DEF WrapFits
  <2>6. SaidIsWritten'
    BY <2>1, <2>2 DEF SaidIsWritten, Unsaid
  <2>7. sourceContactsCount(campaign)' >= 0
    <3>1. \A c \in Campaigns : sourceContactsCount(c) \in Nat
      BY SourceLists
    <3>2. QED
      BY <1>2, <2>1, <3>1
  <2>8. TargetKept'
    BY <1>2, <2>1, <2>2, <2>7 DEF TargetKept, OnTarget
  <2>9. QED
    BY <2>4, <2>5, <2>6, <2>8 DEF LeadsInv
<1>7. ASSUME resetCampaignProgress
      PROVE  LeadsInv'
  <2>1. /\ resetting' = FALSE /\ said' = Unsaid
        /\ lead' = [r \in Rows |-> [lead[r] EXCEPT !.dnc = FALSE, !.last = "none"]]
        /\ UNCHANGED <<preview, campaign, deleted, join, runOf, known, owed, wrapUp, edit, edits, answered, overtaken>>
    BY <1>7 DEF resetCampaignProgress, runVars, counts
  <2>2. lead \in Seq(LeadRec) /\ Rows = 1..Len(lead) /\ Len(lead) \in Nat /\ \A r \in Rows : lead[r] \in LeadRec
    BY <1>1, RowsAre
  <2>3. /\ lead' \in [1..Len(lead) -> LeadRec]
        /\ \A r \in Rows : lead'[r].phone = lead[r].phone
    BY <2>1, <2>2 DEF LeadRec
  <2>4. lead' \in Seq(LeadRec) /\ Len(lead') = Len(lead) /\ Rows' = Rows
    BY <2>2, <2>3, SeqOfFunction DEF Rows
  <2>5. \A r \in Rows : Line(r)' = Line(r)
    BY <2>3 DEF Line
  <2>6. LeadsTypeOK'
    BY <1>1, <2>1, <2>4 DEF LeadsTypeOK, LeadRec
  <2>7. WrapFits'
    BY <2>1, <2>4, <2>5 DEF LeadsInv, WrapFits
  <2>8. SaidIsWritten'
    <3>1. \A r \in Rows : Line(r) \in Numbers
      BY <1>1, RowsAre
    <3>2. QED
      BY <2>1, <2>4, <2>5, <3>1 DEF SaidIsWritten, Unsaid
  <2>9. TargetKept'
    <3>1. OnTarget(campaign)' <=> OnTarget(campaign)
      BY <2>1, <2>3, <2>4 DEF OnTarget, Aimed, sourceContactsCount
    <3>2. TargetKept
      BY DEF LeadsInv
    <3>3. UNCHANGED <<campaign, edit, overtaken>>
      BY <2>1
    <3>4. (\A r, q \in Rows : lead[r].phone = lead[q].phone => r = q) => (\A r, q \in Rows' : lead'[r].phone = lead'[q].phone => r = q)
      BY <2>3, <2>4
    <3>5. QED
      BY <3>1, <3>2, <3>3, <3>4 DEF TargetKept
  <2>10. QED
    BY <2>6, <2>7, <2>8, <2>9 DEF LeadsInv
<1>8. QED
  BY <1>3, <1>4, <1>5, <1>6, <1>7

LEMMA LeadsStart == LeadsInit => LeadsInv
<1> SUFFICES ASSUME LeadsInit
             PROVE  LeadsInv
  OBVIOUS
<1>1. campaign \in Campaigns /\ lead = <<>>
  BY DEF LeadsInit
<1>2. Blank \in Campaigns
  BY <1>1 DEF Blank
<1>3. lead \in Seq(LeadRec) /\ Len(lead) = 0 /\ Rows = {}
  BY <1>1, EmptySeq DEF Rows
<1>4. sourceContactsCount(campaign) >= 0
  <2>1. \A c \in Campaigns : sourceContactsCount(c) \in Nat
    BY SourceLists
  <2>2. QED
    BY <1>1, <2>1
<1>5. LeadsTypeOK
  <2>1. Nothing \in WrapRec
    BY CampaignLeadsAssumption DEF Nothing, WrapRec
  <2>2. NoEdit \in [at : {"idle", "patching", "checking", "clearing"}, before : Campaigns, patch : Campaigns] /\ NoJoin \in JoinRec
    BY <1>2 DEF NoEdit, NoJoin, JoinRec
  <2>3. Len(lead) <= MaxRows /\ edits \in 0..MaxEdits /\ answered \in 0..MaxAnswered
    BY <1>3, CampaignLeadsAssumption DEF LeadsInit
  <2>4. said \in [Numbers -> Dispositions \cup {"none"}] /\ runOf \in [Joins -> [live : BOOLEAN, items : SUBSET Numbers]]
    BY DEF LeadsInit, Unsaid, NoRun
  <2>5. join \in [Joins -> JoinRec]
    BY <2>2 DEF LeadsInit
  <2>6. /\ preview \in BOOLEAN /\ campaign \in Campaigns /\ deleted \subseteq Deletable /\ known \in Joins
        /\ owed \subseteq Numbers /\ resetting \in BOOLEAN /\ overtaken \in BOOLEAN /\ wrapUp = Nothing /\ edit = NoEdit
    BY DEF LeadsInit
  <2>7. QED
    BY <1>3, <2>1, <2>2, <2>3, <2>4, <2>5, <2>6 DEF LeadsTypeOK, WrapRec, JoinRec, LeadRec
<1>6. WrapFits /\ SaidIsWritten
  BY <1>3 DEF LeadsInit, WrapFits, SaidIsWritten, Nothing, Unsaid
<1>7. TargetKept
  BY <1>3, <1>4 DEF LeadsInit, TargetKept, OnTarget, NoEdit
<1>8. QED
  BY <1>5, <1>6, <1>7 DEF LeadsInv

LEMMA LeadsInvStep == LeadsInv /\ [LeadsNext]_leadsVars => LeadsInv'
<1> SUFFICES ASSUME LeadsInv, [LeadsNext]_leadsVars
             PROVE  LeadsInv'
  OBVIOUS
<1>1. CASE LeadsNext
  BY <1>1, RunSteps, MaterializeStep, WrapSteps, DispositionStep, EditSteps DEF LeadsNext
<1>2. CASE UNCHANGED leadsVars
  <2>1. UNCHANGED <<preview, campaign, deleted, lead, join, runOf, known, owed, wrapUp, edit, resetting, edits, answered, said, overtaken>>
    BY <1>2 DEF leadsVars, rowVars, runVars, counts, auxVars
  <2>2. LeadsTypeOK'
    BY <2>1 DEF LeadsInv, LeadsTypeOK
  <2>3. QED
    BY <2>1, <2>2, LeadsStay DEF LeadsInv
<1>3. QED
  BY <1>1, <1>2

LEMMA LeadsInvariant == LeadsSpec => []LeadsInv
BY LeadsStart, LeadsInvStep, PTL DEF LeadsSpec

\* Leads, requests and dispositions under way keep their types.
THEOREM LeadsTypeCorrect == LeadsSpec => []LeadsTypeOK
<1>1. LeadsInv => LeadsTypeOK
  BY DEF LeadsInv
<1>2. QED
  BY <1>1, LeadsInvariant, PTL

\* For any numbers, requests and edits: unless first requests, an edit or a run overtook one
\* another, a campaign's leads are its target's, each number once, and its page lists no
\* more of them than it is said to have.
THEOREM LeadsAreOfTheTarget == LeadsSpec => []LeadsFollowTarget
<1>1. LeadsInv => LeadsFollowTarget
  <2> SUFFICES ASSUME LeadsInv, edit.at = "idle", ~overtaken
               PROVE  /\ \A r \in Rows : lead[r].phone \in ToSet(Source(campaign))
                      /\ \A r, q \in Rows : lead[r].phone = lead[q].phone => r = q
                      /\ ToSet(campaignLeads) \subseteq ToSet(Source(campaign)) /\ Len(campaignLeads) <= sourceContactsCount(campaign)
    BY DEF LeadsFollowTarget
  <2>1. PICK c \in Campaigns : c = campaign
    BY DEF LeadsInv, LeadsTypeOK
  <2>2. ToSet(Source(campaign)) = Aimed(campaign)
    BY <2>1, SourceLists
  <2>3. OnTarget(campaign) /\ \A r, q \in Rows : lead[r].phone = lead[q].phone => r = q
    BY DEF LeadsInv, TargetKept
  <2>4. lead \in Seq(LeadRec) /\ Rows = 1..Len(lead) /\ Len(lead) \in Nat /\ \A r \in Rows : lead[r].phone \in Numbers
    BY RowsAre DEF LeadsInv
  <2>5. ToSet(campaignLeads) \subseteq Aimed(campaign) /\ Len(campaignLeads) <= sourceContactsCount(campaign)
    <3>1. CASE Rows # {}
      <4>1. PICK s : s = [r \in Rows |-> lead[r].phone]
        OBVIOUS
      <4>2. campaignLeads = s /\ s \in [1..Len(lead) -> Numbers] /\ \A r \in Rows : s[r] \in Aimed(campaign)
        BY <2>3, <2>4, <3>1, <4>1 DEF campaignLeads, OnTarget
      <4>3. Len(s) = Len(lead) /\ DOMAIN s = Rows
        BY <2>4, <4>2, SeqOfFunction
      <4>4. QED
        BY <2>3, <4>2, <4>3 DEF OnTarget, ToSet
    <3>2. CASE Rows = {}
      <4>1. campaignLeads = SetToSeq(c.numbers) \o SetToSeq(IF c.grouped THEN Grouped ELSE {})
        BY <2>1, <3>2 DEF campaignLeads
      <4>2. QED
        BY <2>1, <4>1, SourceCounted
    <3>3. QED
      BY <3>1, <3>2
  <2>6. QED
    BY <2>2, <2>3, <2>5 DEF OnTarget
<1>2. QED
  BY <1>1, LeadsInvariant, PTL

\* A run that starts takes only leads that are workable for the campaign as it was read.
LEMMA RunTakesWorkable ==
  ASSUME LeadsTypeOK, LeadsNext, NEW j \in Joins, runOf'[j].live, ~runOf[j].live
  PROVE  \A n \in runOf'[j].items : \E r \in Rows : lead[r].phone = n /\ workable(lead[r], join[j].read)
<1>1. runOf \in [Joins -> [live : BOOLEAN, items : SUBSET Numbers]]
  BY DEF LeadsTypeOK
<1>2. ASSUME NEW i \in Joins, startRun(i)
      PROVE  \A n \in runOf'[j].items : \E r \in Rows : lead[r].phone = n /\ workable(lead[r], join[j].read)
  <2> DEFINE items == {lead[r].phone : r \in {q \in Rows : workable(lead[q], join[i].read)}}
  <2>1. UNCHANGED runOf \/ runOf' = [runOf EXCEPT ![i] = [live |-> TRUE, items |-> items]]
    BY <1>2 DEF startRun
  <2>2. j = i /\ runOf'[j].items = items
    BY <1>1, <2>1
  <2>3. QED
    BY <2>2
<1>3. ASSUME NEW i \in Joins, runEnds(i) \/ \E n \in Numbers : dials(i, n)
      PROVE  FALSE
  <2>1. runOf' = [runOf EXCEPT ![i] = NoRun] \/ \E n \in Numbers : runOf' = [runOf EXCEPT ![i] = [runOf[i] EXCEPT !.items = @ \ {n}]]
    BY <1>3 DEF runEnds, dials
  <2>2. QED
    BY <1>1, <2>1 DEF NoRun
<1>4. ASSUME UNCHANGED runOf
      PROVE  FALSE
  BY <1>4
<1>5. QED
  BY <1>2, <1>3, <1>4 DEF LeadsNext, agentJoin, leadsExist, materializeLeads, dispositionArrives, findsLead, dispositionCall,
     editArrives, editWrites, updateCampaign, clearsLeads, resetArrives, resetCampaignProgress, removeDisposition, runVars

\* Whatever overlaps, a run takes no line that was last disposed of as Do Not Call or as
\* excluded, however the agent's phone showed the number, if the line has one lead.
THEOREM ExcludedStaysOut == LeadsSpec => ExcludedNotPicked
<1>1. LeadsInv /\ [LeadsNext]_leadsVars =>
        [\A j \in Joins : runOf'[j].live /\ ~runOf[j].live =>
           \A n \in runOf'[j].items :
             \/ said[LineOf[n]] \in deleted \cup {"none"}
             \/ said[LineOf[n]] \notin join[j].read.exclude /\ dialerOutcome(said[LineOf[n]]) # "dnc"
             \/ \E r, q \in Rows : r # q /\ LineOf[lead[r].phone] = LineOf[n] /\ LineOf[lead[q].phone] = LineOf[n]]_leadsVars
  <2> SUFFICES ASSUME LeadsInv, LeadsNext, NEW j \in Joins, runOf'[j].live, ~runOf[j].live, NEW n \in runOf'[j].items
               PROVE  \/ said[LineOf[n]] \in deleted \cup {"none"}
                      \/ said[LineOf[n]] \notin join[j].read.exclude /\ dialerOutcome(said[LineOf[n]]) # "dnc"
                      \/ \E r, q \in Rows : r # q /\ LineOf[lead[r].phone] = LineOf[n] /\ LineOf[lead[q].phone] = LineOf[n]
    OBVIOUS
  <2>1. PICK r \in Rows : lead[r].phone = n /\ workable(lead[r], join[j].read)
    BY RunTakesWorkable DEF LeadsInv
  <2>2. Line(r) = LineOf[n]
    BY <2>1 DEF Line
  <2>3. \/ said[Line(r)] \in deleted \cup {"none"}
        \/ lead[r].last = said[Line(r)] /\ (lead[r].dnc <=> dialerOutcome(said[Line(r)]) = "dnc")
        \/ \E q \in Rows : q # r /\ Line(q) = Line(r)
    BY DEF LeadsInv, SaidIsWritten
  <2>4. CASE \E q \in Rows : q # r /\ Line(q) = Line(r)
    BY <2>2, <2>4 DEF Line
  <2>5. CASE lead[r].last = said[Line(r)] /\ (lead[r].dnc <=> dialerOutcome(said[Line(r)]) = "dnc") /\ said[Line(r)] \notin deleted \cup {"none"}
    <3>1. ~lead[r].dnc /\ (lead[r].last = "none" \/ lead[r].last \notin join[j].read.exclude \ deleted)
      BY <2>1 DEF workable, excludeDispositionNames
    <3>2. QED
      BY <2>2, <2>5, <3>1
  <2>6. QED
    BY <2>2, <2>3, <2>4, <2>5
<1>2. QED
  BY <1>1, LeadsInvariant, PTL DEF ExcludedNotPicked, LeadsSpec

-----------------------------------------------------------------------------
\* The handlers whose request names groups, and the types of what the page keeps.
Naming     == {"save", "names", "create", "insert"}
MemberRows == SUBSET (ContactIds \X SUBSET GroupIds)
HandlerRec == [at : {"none", "save", "remove", "members", "strip", "names", "create", "insert", "key", "count"},
               of : Filters, id : GroupIds \cup ContactIds \cup {AllOfThem} \cup Nat,
               groups : SUBSET GroupIds, members : MemberRows]
LoadRec == [of : Filters, read : BOOLEAN, found : MemberRows]
DrawerRec == [id : ContactIds \cup {AllOfThem}, groups : SUBSET GroupIds, open : BOOLEAN]

ContactsTyped ==
  /\ contactGroup \in [there : SUBSET GroupIds, made : SUBSET GroupIds] /\ Exists \subseteq contactGroup.made
  /\ contactRow \in [ContactIds -> [there : BOOLEAN, groups : SUBSET GroupIds]]
  /\ customField \in [FieldIds -> 0..Cardinality(FieldIds)]
  /\ handler \in [Handlers -> HandlerRec]
  /\ \A r \in Handlers : handler[r].at = "count" => handler[r].id \in Nat \ {0}
  /\ groupFilter \in Filters /\ list \in MemberRows /\ loads \in Seq(LoadRec) /\ Len(loads) <= MaxPages
  /\ editing \in DrawerRec /\ acts \in 0..MaxActs
  /\ touched \subseteq GroupIds \cup ContactIds /\ twice \in BOOLEAN /\ outdated \in BOOLEAN

\* What a drawer or a request names is there, and if it is being deleted, that is known.
NamesAreSafe ==
  /\ Named \subseteq Exists \cup touched /\ Named \cap Deleting \subseteq touched /\ Deleting \subseteq contactGroup.made

\* The contacts are in groups that are there; one in a group that is being deleted is still
\* to be written by that deletion.
RowsInGroups ==
  /\ \A c \in There \ touched : contactRow[c].groups \subseteq Exists \cup touched
  /\ \A r \in Pending({"strip"}) : \A c \in There \ touched :
       handler[r].id \in contactRow[c].groups => handler[r].id \in touched \/ \E m \in handler[r].members : m[1] = c

\* One file at a time makes the group, when there is none.
OneName ==
  ~twice => /\ \A f, g \in Exists : f = g
            /\ \A r, q \in Pending({"names", "create"}) : r = q
            /\ Pending({"create"}) # {} => Exists = {}

\* One field at a time is made, with a key that is free.
OneKey ==
  ~twice => /\ \A f, g \in FieldIds : customField[f] # 0 /\ customField[f] = customField[g] => f = g
            /\ \A r, q \in Pending({"key", "count"}) : r = q
            /\ \A r \in Pending({"count"}) : \A f \in FieldIds : customField[f] # handler[r].id

\* As long as the list is not outdated, its loads and those to come are of the chosen
\* group, and, unless a deletion is writing contacts, what is shown or will be is in it.
ListFollows ==
  ~outdated =>
    /\ \A i \in DOMAIN loads : loads[i].of = groupFilter
    /\ \A r \in Handlers : handler[r].at # "none" => handler[r].of = groupFilter
    /\ Pending({"strip"}) = {} =>
         /\ loads = <<>> => list = InGroup(groupFilter)
         /\ Len(loads) = 1 /\ loads[1].read => loads[1].found = InGroup(groupFilter)

ContactsInv == ContactsTyped /\ NamesAreSafe /\ RowsInGroups /\ OneName /\ OneKey /\ ListFollows

-----------------------------------------------------------------------------
\* A handler goes on.
LEMMA HandlerMoves ==
  ASSUME ContactsTyped, NEW r \in Handlers, NEW h \in HandlerRec, handler' = [handler EXCEPT ![r] = h]
  PROVE  /\ handler' \in [Handlers -> HandlerRec] /\ handler'[r] = h
         /\ \A q \in Handlers \ {r} : handler'[q] = handler[q]
         /\ Named' \subseteq Named \cup editing'.groups \cup (IF h.at \in Naming THEN h.groups ELSE {})
         /\ Deleting' \subseteq Deleting \cup (IF h.at \in {"members", "strip"} THEN {h.id} ELSE {})
<1>1. handler \in [Handlers -> HandlerRec]
  BY DEF ContactsTyped
<1>2. /\ handler' \in [Handlers -> HandlerRec] /\ handler'[r] = h
      /\ \A q \in Handlers \ {r} : handler'[q] = handler[q]
  BY <1>1
<1>3. ASSUME NEW g \in Named'
      PROVE  g \in Named \/ g \in editing'.groups \/ (h.at \in Naming /\ g \in h.groups)
  <2>1. g \in editing'.groups \/ \E q \in Handlers : handler'[q].at \in Naming /\ g \in handler'[q].groups
    BY <1>3 DEF Named, Pending, Naming
  <2>2. ASSUME NEW q \in Handlers, q # r, handler[q].at \in Naming, g \in handler[q].groups
        PROVE  g \in Named
    BY <2>2 DEF Named, Pending, Naming
  <2>3. QED
    BY <1>2, <2>1, <2>2
<1>4. ASSUME NEW g \in Deleting'
      PROVE  g \in Deleting \/ (h.at \in {"members", "strip"} /\ g = h.id)
  BY <1>2, <1>4 DEF Deleting, Pending
<1>5. QED
  BY <1>2, <1>3, <1>4

\* The requests a handler sends.
LEMMA RequestTypes ==
  ASSUME ContactsTyped
  PROVE  /\ Done \in HandlerRec /\ NoDrawer \in DrawerRec /\ groupFilter \in Filters
         /\ \A f : InGroup(f) \in MemberRows
         /\ \A f \in Filters : [of |-> f, read |-> FALSE, found |-> {}] \in LoadRec
         /\ \A r \in Handlers : handler[r] \in HandlerRec
<1>1. \A f : InGroup(f) \in MemberRows
  BY DEF ContactsTyped, InGroup, MemberRows, There
<1>2. QED
  BY <1>1 DEF ContactsTyped, Done, NoDrawer, HandlerRec, DrawerRec, LoadRec, Filters, MemberRows

\* What each action does to its handler, which it is at, and what it becomes.
LEMMA HandlerSteps ==
  ASSUME ContactsTyped, NEW r \in Handlers
  PROVE  /\ saveEditing(r) =>
              \E h \in HandlerRec : /\ handler[r].at = "none" /\ handler' = [handler EXCEPT ![r] = h]
                                    /\ h.at = "save" /\ h.of = groupFilter /\ h.groups = editing.groups
         /\ \A c \in ContactIds : remove(r, c) =>
              \E h \in HandlerRec : /\ handler[r].at = "none" /\ handler' = [handler EXCEPT ![r] = h]
                                    /\ h.at = "remove" /\ h.of = groupFilter
         /\ \A g \in GroupIds : deleteGroup(r, g) =>
              \E h \in HandlerRec : /\ handler[r].at = "none" /\ handler' = [handler EXCEPT ![r] = h]
                                    /\ h.at = "members" /\ h.of = groupFilter /\ h.id = g
         /\ \A extra \in SUBSET GroupIds : doImport(r, extra) =>
              \E h \in HandlerRec : /\ handler[r].at = "none" /\ handler' = [handler EXCEPT ![r] = h]
                                    /\ h.at = "names" /\ h.of = groupFilter /\ h.groups = extra
         /\ addField(r) =>
              \E h \in HandlerRec : /\ handler[r].at = "none" /\ handler' = [handler EXCEPT ![r] = h]
                                    /\ h.at = "key" /\ h.of = groupFilter
         /\ saves(r) \/ removes(r) \/ dropsGroup(r) \/ inserts(r) \/ HandlerFails(r) => handler' = [handler EXCEPT ![r] = Done]
<1>1. Done \in HandlerRec /\ groupFilter \in Filters /\ Done.at = "none" /\ editing \in DrawerRec
  BY RequestTypes DEF Done, ContactsTyped
<1>2. \A what \in HandlerRec : Sends(r, what) =>
        /\ handler[r].at = "none"
        /\ \E h \in HandlerRec : /\ handler' = [handler EXCEPT ![r] = h] /\ h.of = groupFilter
                              /\ h.at = what.at /\ h.groups = what.groups /\ h.id = what.id
  <2> SUFFICES ASSUME NEW what \in HandlerRec, Sends(r, what)
               PROVE  /\ handler[r].at = "none"
                      /\ \E h \in HandlerRec : /\ handler' = [handler EXCEPT ![r] = h] /\ h.of = groupFilter
                                            /\ h.at = what.at /\ h.groups = what.groups /\ h.id = what.id
    OBVIOUS
  <2>1. handler[r].at = "none" /\ handler' = [handler EXCEPT ![r] = [what EXCEPT !.of = groupFilter]]
    BY <1>1 DEF Sends
  <2>2. PICK h : h = [what EXCEPT !.of = groupFilter]
    OBVIOUS
  <2>3. h \in HandlerRec /\ h.of = groupFilter /\ h.at = what.at /\ h.groups = what.groups /\ h.id = what.id
    BY <1>1, <2>2 DEF HandlerRec
  <2>4. QED
    BY <2>1, <2>2, <2>3
<1>3. /\ [Done EXCEPT !.at = "save", !.id = editing.id, !.groups = editing.groups] \in HandlerRec
      /\ \A c \in ContactIds : [Done EXCEPT !.at = "remove", !.id = c] \in HandlerRec
      /\ \A g \in GroupIds : [Done EXCEPT !.at = "members", !.id = g] \in HandlerRec
      /\ \A extra \in SUBSET GroupIds : [Done EXCEPT !.at = "names", !.groups = extra] \in HandlerRec
      /\ [Done EXCEPT !.at = "key"] \in HandlerRec
  BY <1>1 DEF HandlerRec, DrawerRec
<1>4. ASSUME saveEditing(r)
      PROVE  \E h \in HandlerRec : /\ handler[r].at = "none" /\ handler' = [handler EXCEPT ![r] = h]
                                   /\ h.at = "save" /\ h.of = groupFilter /\ h.groups = editing.groups
  <2> DEFINE w == [Done EXCEPT !.at = "save", !.id = editing.id, !.groups = editing.groups]
  <2>1. Sends(r, w)
    BY <1>4 DEF saveEditing
  <2>2. w \in HandlerRec /\ w.at = "save" /\ w.groups = editing.groups
    BY <1>3 DEF Done
  <2> HIDE DEF w
  <2>3. QED
    BY <1>2, <2>1, <2>2
<1>5. ASSUME NEW c \in ContactIds, remove(r, c)
      PROVE  \E h \in HandlerRec : /\ handler[r].at = "none" /\ handler' = [handler EXCEPT ![r] = h]
                                   /\ h.at = "remove" /\ h.of = groupFilter
  <2> DEFINE w == [Done EXCEPT !.at = "remove", !.id = c]
  <2>1. Sends(r, w)
    BY <1>5 DEF remove
  <2>2. w \in HandlerRec /\ w.at = "remove"
    BY <1>3 DEF Done
  <2> HIDE DEF w
  <2>3. QED
    BY <1>2, <2>1, <2>2
<1>6. ASSUME NEW g \in GroupIds, deleteGroup(r, g)
      PROVE  \E h \in HandlerRec : /\ handler[r].at = "none" /\ handler' = [handler EXCEPT ![r] = h]
                                   /\ h.at = "members" /\ h.of = groupFilter /\ h.id = g
  <2> DEFINE w == [Done EXCEPT !.at = "members", !.id = g]
  <2>1. Sends(r, w)
    BY <1>6 DEF deleteGroup
  <2>2. w \in HandlerRec /\ w.at = "members" /\ w.id = g
    BY <1>3 DEF Done
  <2> HIDE DEF w
  <2>3. QED
    BY <1>2, <2>1, <2>2
<1>7. ASSUME NEW extra \in SUBSET GroupIds, doImport(r, extra)
      PROVE  \E h \in HandlerRec : /\ handler[r].at = "none" /\ handler' = [handler EXCEPT ![r] = h]
                                   /\ h.at = "names" /\ h.of = groupFilter /\ h.groups = extra
  <2> DEFINE w == [Done EXCEPT !.at = "names", !.groups = extra]
  <2>1. Sends(r, w)
    BY <1>7 DEF doImport
  <2>2. w \in HandlerRec /\ w.at = "names" /\ w.groups = extra
    BY <1>3 DEF Done
  <2> HIDE DEF w
  <2>3. QED
    BY <1>2, <2>1, <2>2
<1>8. ASSUME addField(r)
      PROVE  \E h \in HandlerRec : /\ handler[r].at = "none" /\ handler' = [handler EXCEPT ![r] = h]
                                   /\ h.at = "key" /\ h.of = groupFilter
  <2> DEFINE w == [Done EXCEPT !.at = "key"]
  <2>1. Sends(r, w)
    BY <1>8 DEF addField
  <2>2. w \in HandlerRec /\ w.at = "key"
    BY <1>3 DEF Done
  <2> HIDE DEF w
  <2>3. QED
    BY <1>2, <2>1, <2>2
<1>9. saves(r) \/ removes(r) \/ dropsGroup(r) \/ inserts(r) \/ HandlerFails(r) => handler' = [handler EXCEPT ![r] = Done]
  BY DEF saves, removes, dropsGroup, inserts, HandlerFails, ThenLoads
<1>10. QED
  BY <1>4, <1>5, <1>6, <1>7, <1>8, <1>9

\* There is a key that is free, and the first such is one that is.
LEMMA FirstKey ==
  ASSUME ContactsTyped
  PROVE  LET taken == {customField[f] : f \in FieldIds}
             k == CHOOSE i \in 1..Cardinality(FieldIds) + 1 : i \notin taken /\ 1..i - 1 \subseteq taken
         IN  k \in Nat \ {0} /\ \A f \in FieldIds : customField[f] # k
<1> DEFINE taken == {customField[f] : f \in FieldIds}
           n == Cardinality(FieldIds)
           free == (1..n + 1) \ taken
<1>1. n \in Nat
  BY ContactsAssumption, FS_CardinalityType
<1>2. IsFiniteSet(taken) /\ Cardinality(taken) <= n
  <2>1. customField \in Surjection(FieldIds, taken)
    BY DEF ContactsTyped, Surjection
  <2>2. QED
    BY <2>1, ContactsAssumption, FS_Surjection
<1>3. free # {}
  <2>1. SUFFICES ASSUME 1..n + 1 \subseteq taken
                 PROVE  FALSE
    OBVIOUS
  <2>2. Cardinality(1..n + 1) = n + 1
    BY <1>1, FS_Interval
  <2>3. Cardinality(1..n + 1) <= Cardinality(taken) /\ Cardinality(taken) \in Nat
    BY <1>2, <2>1, FS_Subset, FS_CardinalityType
  <2>4. QED
    BY <1>1, <1>2, <2>2, <2>3
<1>4. free \subseteq Nat
  BY <1>1
<1>5. PICK i \in free : \A j \in free : <<j, i>> \notin OpToRel(<, Nat)
  <2> HIDE DEF free
  <2>1. QED
    BY <1>3, <1>4, NatLessThanWellFounded, WFMin
<1>6. 1..i - 1 \subseteq taken
  <2>1. SUFFICES ASSUME NEW j \in 1..i - 1, j \notin taken
                 PROVE  FALSE
    OBVIOUS
  <2>2. i \in 1..n + 1
    BY <1>5
  <2>3. j \in free /\ i \in Nat /\ j \in Nat /\ j < i
    BY <1>1, <2>1, <2>2
  <2>4. <<j, i>> \in OpToRel(<, Nat)
    BY <2>3 DEF OpToRel
  <2>5. QED
    BY <1>5, <2>3, <2>4
<1>7. i \in 1..n + 1 /\ i \notin taken
  BY <1>5
<1> DEFINE k == CHOOSE j \in 1..n + 1 : j \notin taken /\ 1..j - 1 \subseteq taken
<1>8. k \in 1..n + 1 /\ k \notin taken
  BY <1>6, <1>7
<1>9. QED
  BY <1>1, <1>8

\* The same of the requests that are under way.
LEMMA RequestSteps ==
  ASSUME ContactsTyped, NEW r \in Handlers
  PROVE  /\ readsMembers(r) =>
              \E h \in HandlerRec : /\ handler[r].at = "members" /\ handler' = [handler EXCEPT ![r] = h]
                                    /\ h.at = "strip" /\ h.of = handler[r].of /\ h.id = handler[r].id
                                    /\ h.members = InGroup(handler[r].id)
         /\ stripsMember(r) =>
              /\ handler[r].at = "strip"
              /\ \E m \in handler[r].members :
                   \/ /\ m[1] \in There /\ contactRow' = [contactRow EXCEPT ![m[1]] = [there |-> TRUE, groups |-> m[2] \ {handler[r].id}]]
                      /\ touched' = touched \cup (IF contactRow[m[1]].groups # m[2] THEN {m[1]} ELSE {})
                      /\ \E h \in HandlerRec : /\ handler' = [handler EXCEPT ![r] = h] /\ h.at = "strip" /\ h.of = handler[r].of
                                               /\ h.id = handler[r].id /\ h.members = handler[r].members \ {m}
                   \/ handler' = [handler EXCEPT ![r] = Done] /\ outdated' /\ UNCHANGED <<contactRow, touched>>
         /\ readsNames(r) =>
              \E h \in HandlerRec : /\ handler[r].at = "names" /\ handler' = [handler EXCEPT ![r] = h] /\ h.of = handler[r].of
                                    /\ \/ Exists = {} /\ h.at = "create" /\ h.groups = handler[r].groups
                                       \/ h.at = "insert" /\ \E g \in Exists : h.groups = handler[r].groups \cup {g}
         /\ \A g \in GroupIds : createsGroup(r, g) =>
              \E h \in HandlerRec : /\ handler[r].at = "create" /\ handler' = [handler EXCEPT ![r] = h] /\ h.of = handler[r].of
                                    /\ h.at = "insert" /\ h.groups = handler[r].groups \cup {g}
         /\ findsKey(r) =>
              \E h \in HandlerRec : /\ handler[r].at = "key" /\ handler' = [handler EXCEPT ![r] = h] /\ h.of = handler[r].of
                                    /\ h.at = "count" /\ h.id \in Nat \ {0} /\ \A f \in FieldIds : customField[f] # h.id
<1>1. PICK o \in HandlerRec : o = handler[r]
  BY RequestTypes
<1>2. ASSUME readsMembers(r)
      PROVE  \E h \in HandlerRec : /\ handler[r].at = "members" /\ handler' = [handler EXCEPT ![r] = h]
                                   /\ h.at = "strip" /\ h.of = handler[r].of /\ h.id = handler[r].id
                                   /\ h.members = InGroup(handler[r].id)
  <2>1. o.at = "members" /\ handler' = [handler EXCEPT ![r] = [o EXCEPT !.at = "strip", !.members = InGroup(o.id)]]
    BY <1>1, <1>2 DEF readsMembers
  <2>2. PICK ms \in MemberRows : ms = InGroup(o.id)
    BY RequestTypes
  <2>3. PICK h : h = [o EXCEPT !.at = "strip", !.members = ms]
    OBVIOUS
  <2>4. h \in HandlerRec /\ h.at = "strip" /\ h.of = o.of /\ h.id = o.id /\ h.members = ms
    BY <1>1, <2>2, <2>3 DEF HandlerRec
  <2>5. QED
    BY <1>1, <2>1, <2>2, <2>3, <2>4
<1>3. ASSUME stripsMember(r)
      PROVE  /\ handler[r].at = "strip"
             /\ \E m \in handler[r].members :
                  \/ /\ m[1] \in There /\ contactRow' = [contactRow EXCEPT ![m[1]] = [there |-> TRUE, groups |-> m[2] \ {handler[r].id}]]
                     /\ touched' = touched \cup (IF contactRow[m[1]].groups # m[2] THEN {m[1]} ELSE {})
                     /\ \E h \in HandlerRec : /\ handler' = [handler EXCEPT ![r] = h] /\ h.at = "strip" /\ h.of = handler[r].of
                                              /\ h.id = handler[r].id /\ h.members = handler[r].members \ {m}
                  \/ handler' = [handler EXCEPT ![r] = Done] /\ outdated' /\ UNCHANGED <<contactRow, touched>>
  <2>1. PICK m \in handler[r].members :
          IF m[1] \in There
          THEN /\ contactRow' = [contactRow EXCEPT ![m[1]] = [there |-> TRUE, groups |-> stripped(m[2], handler[r].id)]]
               /\ handler' = [handler EXCEPT ![r] = [handler[r] EXCEPT !.members = @ \ {m}]]
               /\ touched' = touched \cup (IF contactRow[m[1]].groups # m[2] THEN {m[1]} ELSE {})
          ELSE handler' = [handler EXCEPT ![r] = Done] /\ UNCHANGED <<contactRow, touched>>
    BY <1>3 DEF stripsMember
  <2>2. handler[r].at = "strip" /\ outdated' = (outdated \/ handler'[r] = Done)
    BY <1>3 DEF stripsMember
  <2>3. CASE m[1] \in There
    <3>1. PICK h : h = [o EXCEPT !.members = o.members \ {m}]
      OBVIOUS
    <3>2. h \in HandlerRec /\ h.at = o.at /\ h.of = o.of /\ h.id = o.id /\ h.members = o.members \ {m}
      BY <1>1, <3>1 DEF HandlerRec, MemberRows
    <3>3. handler' = [handler EXCEPT ![r] = h]
      BY <1>1, <2>1, <2>3, <3>1
    <3>4. \E h1 \in HandlerRec : /\ handler' = [handler EXCEPT ![r] = h1] /\ h1.at = "strip" /\ h1.of = handler[r].of
                                 /\ h1.id = handler[r].id /\ h1.members = handler[r].members \ {m}
      BY <1>1, <2>2, <3>2, <3>3
    <3>5. QED
      BY <2>1, <2>2, <2>3, <3>4 DEF stripped
  <2>4. CASE m[1] \notin There
    <3>1. handler' = [handler EXCEPT ![r] = Done] /\ UNCHANGED <<contactRow, touched>>
      BY <2>1, <2>4
    <3>2. handler'[r] = Done
      BY <3>1 DEF ContactsTyped
    <3>3. outdated'
      BY <2>2, <3>2
    <3>4. QED
      BY <2>2, <3>1, <3>3
  <2>5. QED
    BY <2>3, <2>4
<1>4. ASSUME readsNames(r)
      PROVE  \E h \in HandlerRec : /\ handler[r].at = "names" /\ handler' = [handler EXCEPT ![r] = h] /\ h.of = handler[r].of
                                   /\ \/ Exists = {} /\ h.at = "create" /\ h.groups = handler[r].groups
                                      \/ h.at = "insert" /\ \E g \in Exists : h.groups = handler[r].groups \cup {g}
  <2>1. Exists \subseteq GroupIds /\ o.at = "names"
    BY <1>1, <1>4 DEF ContactsTyped, readsNames
  <2>2. CASE Exists = {}
    <3>1. PICK h : h = [o EXCEPT !.at = "create"]
      OBVIOUS
    <3>2. h \in HandlerRec /\ h.at = "create" /\ h.of = o.of /\ h.groups = o.groups
      BY <1>1, <3>1 DEF HandlerRec
    <3>3. handler' = [handler EXCEPT ![r] = h]
      BY <1>1, <1>4, <2>2, <3>1 DEF readsNames
    <3>4. QED
      BY <1>1, <2>1, <2>2, <3>2, <3>3
  <2>3. CASE Exists # {}
    <3>1. PICK g \in Exists : g = CHOOSE e \in Exists : TRUE
      BY <2>3
    <3>2. PICK h : h = [o EXCEPT !.at = "insert", !.groups = o.groups \cup {g}]
      OBVIOUS
    <3>3. h \in HandlerRec /\ h.at = "insert" /\ h.of = o.of /\ h.groups = o.groups \cup {g}
      BY <1>1, <2>1, <3>1, <3>2 DEF HandlerRec
    <3>4. handler' = [handler EXCEPT ![r] = h]
      BY <1>1, <1>4, <2>3, <3>1, <3>2 DEF readsNames
    <3>5. QED
      BY <1>1, <2>1, <3>1, <3>3, <3>4
  <2>4. QED
    BY <2>2, <2>3
<1>5. ASSUME NEW g \in GroupIds, createsGroup(r, g)
      PROVE  \E h \in HandlerRec : /\ handler[r].at = "create" /\ handler' = [handler EXCEPT ![r] = h] /\ h.of = handler[r].of
                                   /\ h.at = "insert" /\ h.groups = handler[r].groups \cup {g}
  <2>1. PICK h : h = [o EXCEPT !.at = "insert", !.groups = o.groups \cup {g}]
    OBVIOUS
  <2>2. h \in HandlerRec /\ h.at = "insert" /\ h.of = o.of /\ h.groups = o.groups \cup {g}
    BY <1>1, <2>1 DEF HandlerRec
  <2>3. handler[r].at = "create" /\ handler' = [handler EXCEPT ![r] = h]
    BY <1>1, <1>5, <2>1 DEF createsGroup
  <2>4. QED
    BY <1>1, <2>2, <2>3
<1>6. ASSUME findsKey(r)
      PROVE  \E h \in HandlerRec : /\ handler[r].at = "key" /\ handler' = [handler EXCEPT ![r] = h] /\ h.of = handler[r].of
                                   /\ h.at = "count" /\ h.id \in Nat \ {0} /\ \A f \in FieldIds : customField[f] # h.id
  <2> DEFINE k == CHOOSE i \in 1..Cardinality(FieldIds) + 1 : i \notin {customField[f] : f \in FieldIds} /\ 1..i - 1 \subseteq {customField[f] : f \in FieldIds}
  <2>1. k \in Nat \ {0} /\ \A f \in FieldIds : customField[f] # k
    BY FirstKey
  <2>2. handler[r].at = "key" /\ handler' = [handler EXCEPT ![r] = [o EXCEPT !.at = "count", !.id = k]]
    BY <1>1, <1>6 DEF findsKey
  <2> HIDE DEF k
  <2>3. PICK h : h = [o EXCEPT !.at = "count", !.id = k]
    OBVIOUS
  <2>4. h \in HandlerRec /\ h.at = "count" /\ h.of = o.of /\ h.id = k
    BY <1>1, <2>1, <2>3 DEF HandlerRec
  <2>5. QED
    BY <1>1, <2>1, <2>2, <2>3, <2>4
<1>7. QED
  BY <1>2, <1>3, <1>4, <1>5, <1>6

-----------------------------------------------------------------------------
\* One load fewer.
LEMMA LoadArrives ==
  ASSUME NEW i \in DOMAIN loads, loads \in Seq(LoadRec)
  PROVE  RemoveAt(loads, i) \in Seq(LoadRec) /\ Len(RemoveAt(loads, i)) = Len(loads) - 1 /\ Len(loads) \in Nat \ {0}
<1>1. PICK s : s = loads
  OBVIOUS
<1>2. s \in Seq(LoadRec) /\ i \in DOMAIN s
  BY <1>1
<1>3. RemoveAt(s, i) \in Seq(LoadRec) /\ Len(RemoveAt(s, i)) = Len(s) - 1
  BY <1>2, OneFewer
<1>4. Len(s) \in Nat \ {0}
  BY <1>2, LenProperties
<1>5. QED
  BY <1>1, <1>3, <1>4

\* A load is asked for.
LEMMA LoadAsked ==
  ASSUME ContactsTyped, NEW f \in Filters, loadList(f)
  PROVE  /\ loads' \in Seq(LoadRec) /\ Len(loads') = Len(loads) + 1 /\ Len(loads') <= MaxPages /\ Len(loads) \in Nat
         /\ DOMAIN loads' = 1..Len(loads) + 1 /\ DOMAIN loads = 1..Len(loads)
         /\ loads'[Len(loads) + 1] = [of |-> f, read |-> FALSE, found |-> {}]
         /\ \A i \in 1..Len(loads) : loads'[i] = loads[i]
<1>1. PICK s : s = loads
  OBVIOUS
<1>2. s \in Seq(LoadRec) /\ Len(s) < MaxPages /\ loads' = Append(s, [of |-> f, read |-> FALSE, found |-> {}])
  BY <1>1 DEF ContactsTyped, loadList
<1>3. PICK e \in LoadRec : e = [of |-> f, read |-> FALSE, found |-> {}]
  BY RequestTypes
<1>4. /\ Append(s, e) \in Seq(LoadRec) /\ Len(Append(s, e)) = Len(s) + 1 /\ Append(s, e)[Len(s) + 1] = e
      /\ \A i \in 1..Len(s) : Append(s, e)[i] = s[i]
  BY <1>2, <1>3, AppendProperties
<1>5. Len(s) \in Nat /\ DOMAIN s = 1..Len(s) /\ DOMAIN Append(s, e) = 1..Len(s) + 1
  BY <1>2, <1>4, LenProperties
<1>6. QED
  BY <1>1, <1>2, <1>3, <1>4, <1>5, ContactsAssumption

\* Every group and contact that is named has its type.
LEMMA NamedTypes == ContactsTyped => Named \subseteq GroupIds /\ Exists \subseteq GroupIds
BY DEF ContactsTyped, Named, Pending, HandlerRec, DrawerRec

\* A count of what the manager does.
LEMMA ActsCount == ContactsTyped /\ Acts => acts' \in 0..MaxActs
BY ContactsAssumption DEF ContactsTyped, Acts

\* The types of what one action writes, the others being as they were.
LEMMA TypedStep ==
  ASSUME ContactsTyped,
         contactGroup' \in [there : SUBSET GroupIds, made : SUBSET GroupIds], Exists' \subseteq contactGroup'.made,
         contactRow' \in [ContactIds -> [there : BOOLEAN, groups : SUBSET GroupIds]],
         customField' \in [FieldIds -> 0..Cardinality(FieldIds)],
         \/ UNCHANGED handler
         \/ \E r \in Handlers, h \in HandlerRec : handler' = [handler EXCEPT ![r] = h] /\ (h.at = "count" => h.id \in Nat \ {0}),
         groupFilter' \in Filters, list' \in MemberRows, loads' \in Seq(LoadRec), Len(loads') <= MaxPages,
         editing' \in DrawerRec, acts' \in 0..MaxActs,
         touched' \subseteq GroupIds \cup ContactIds, twice' \in BOOLEAN, outdated' \in BOOLEAN
  PROVE  ContactsTyped'
<1>1. handler' \in [Handlers -> HandlerRec] /\ \A r \in Handlers : handler'[r].at = "count" => handler'[r].id \in Nat \ {0}
  <2>1. CASE UNCHANGED handler
    BY <2>1 DEF ContactsTyped
  <2>2. ASSUME NEW r \in Handlers, NEW h \in HandlerRec, handler' = [handler EXCEPT ![r] = h], h.at = "count" => h.id \in Nat \ {0}
        PROVE  handler' \in [Handlers -> HandlerRec] /\ \A q \in Handlers : handler'[q].at = "count" => handler'[q].id \in Nat \ {0}
    <3>1. handler' \in [Handlers -> HandlerRec] /\ handler'[r] = h /\ \A q \in Handlers \ {r} : handler'[q] = handler[q]
      BY <2>2, HandlerMoves
    <3>2. \A q \in Handlers : handler[q].at = "count" => handler[q].id \in Nat \ {0}
      BY DEF ContactsTyped
    <3>3. QED
      BY <2>2, <3>1, <3>2
  <2>3. QED
    BY <2>1, <2>2
<1>2. QED
  BY <1>1 DEF ContactsTyped

\* What is so already.
LEMMA TypedNow ==
  ContactsTyped =>
    /\ contactGroup \in [there : SUBSET GroupIds, made : SUBSET GroupIds] /\ Exists \subseteq contactGroup.made
    /\ contactRow \in [ContactIds -> [there : BOOLEAN, groups : SUBSET GroupIds]]
    /\ customField \in [FieldIds -> 0..Cardinality(FieldIds)]
    /\ groupFilter \in Filters /\ list \in MemberRows /\ loads \in Seq(LoadRec) /\ Len(loads) <= MaxPages
    /\ editing \in DrawerRec /\ acts \in 0..MaxActs
    /\ touched \subseteq GroupIds \cup ContactIds /\ twice \in BOOLEAN /\ outdated \in BOOLEAN
    /\ \A r \in Handlers : handler[r].of \in Filters /\ handler[r].groups \subseteq GroupIds
                           /\ handler[r].members \subseteq ContactIds \X SUBSET GroupIds
BY DEF ContactsTyped, HandlerRec, MemberRows

\* The manager's clicks keep the types.
LEMMA ClicksTyped ==
  ASSUME ContactsTyped,
         \/ \E f \in Filters : setGroupFilter(f)
         \/ opensDrawer
         \/ \E g \in GroupIds : toggleGroupOnContact(g) \/ addGroup(g)
         \/ \E r \in Handlers :
              \/ saveEditing(r) \/ addField(r)
              \/ \E c \in ContactIds : remove(r, c)
              \/ \E g \in GroupIds : deleteGroup(r, g)
              \/ \E extra \in SUBSET GroupIds : doImport(r, extra)
         \/ \E f \in FieldIds : removesField(f)
  PROVE  ContactsTyped'
<1>1. ASSUME NEW f \in Filters, setGroupFilter(f)
      PROVE  ContactsTyped'
  <2>1. /\ groupFilter' = f /\ loadList(f) /\ Acts
        /\ outdated' = (loads # <<>> \/ \E r \in Handlers : handler[r].at # "none")
        /\ UNCHANGED <<contactGroup, contactRow, customField, handler, list, editing, touched, twice>>
    BY <1>1 DEF setGroupFilter, contactsDb
  <2>2. outdated' \in BOOLEAN
    BY <2>1, Zenon
  <2>3. QED
    BY <2>1, <2>2, LoadAsked, ActsCount, TypedNow, TypedStep DEF Exists
<1>2. ASSUME opensDrawer
      PROVE  ContactsTyped'
  <2>1. /\ Acts /\ touched' = touched \cup (editing'.groups \ (Exists \ Deleting))
        /\ UNCHANGED <<contactGroup, contactRow, customField, handler, groupFilter, list, loads, twice, outdated>>
        /\ \E row \in list \cup {<<AllOfThem, {}>>} : editing' = [id |-> row[1], open |-> TRUE, groups |-> row[2]]
    BY <1>2 DEF opensDrawer, contactsDb
  <2>2. editing' \in DrawerRec
    <3>1. PICK row \in list \cup {<<AllOfThem, {}>>} : editing' = [id |-> row[1], open |-> TRUE, groups |-> row[2]]
      BY <2>1
    <3>2. row[1] \in ContactIds \cup {AllOfThem} /\ row[2] \in SUBSET GroupIds
      BY <3>1, TypedNow DEF MemberRows
    <3>3. QED
      BY <3>1, <3>2 DEF DrawerRec
  <2>3. touched' \subseteq GroupIds \cup ContactIds
    BY <2>1, <2>2, TypedNow DEF DrawerRec
  <2>4. QED
    BY <2>1, <2>2, <2>3, ActsCount, TypedNow, TypedStep DEF Exists
<1>3. ASSUME NEW g \in GroupIds, toggleGroupOnContact(g)
      PROVE  ContactsTyped'
  <2>1. /\ Acts /\ touched' = touched \cup ({g} \cap Deleting)
        /\ editing' = [editing EXCEPT !.groups = IF g \in @ THEN @ \ {g} ELSE @ \cup {g}]
        /\ UNCHANGED <<contactGroup, contactRow, customField, handler, groupFilter, list, loads, twice, outdated>>
    BY <1>3 DEF toggleGroupOnContact, contactsDb
  <2>2. editing' \in DrawerRec
    BY <2>1, TypedNow DEF DrawerRec
  <2>3. touched' \subseteq GroupIds \cup ContactIds
    BY <2>1, TypedNow
  <2>4. QED
    BY <2>1, <2>2, <2>3, ActsCount, TypedNow, TypedStep DEF Exists
<1>4. ASSUME NEW g \in GroupIds, addGroup(g)
      PROVE  ContactsTyped'
  <2>1. /\ Acts /\ contactGroup' = [there |-> Exists \cup {g}, made |-> contactGroup.made \cup {g}]
        /\ twice' = (twice \/ Exists # {} \/ Pending({"names", "create"}) # {})
        /\ UNCHANGED <<contactRow, customField, handler, groupFilter, list, loads, editing, touched, outdated>>
    BY <1>4 DEF addGroup, Makes, contactsPage
  <2>2. twice' \in BOOLEAN
    BY <2>1, Zenon
  <2>3. contactGroup' \in [there : SUBSET GroupIds, made : SUBSET GroupIds] /\ Exists' \subseteq contactGroup'.made
    BY <2>1, TypedNow DEF Exists
  <2>4. QED
    BY <2>1, <2>2, <2>3, ActsCount, TypedNow, TypedStep
<1>5. ASSUME NEW r \in Handlers, saveEditing(r)
      PROVE  ContactsTyped'
  <2>1. Acts /\ UNCHANGED <<contactGroup, contactRow, customField, groupFilter, list, loads, editing, touched, twice, outdated>>
    BY <1>5 DEF saveEditing, contactsDb, contactsPage
  <2>2. PICK h \in HandlerRec : handler' = [handler EXCEPT ![r] = h] /\ h.at = "save"
    BY <1>5, HandlerSteps
  <2>3. QED
    BY <2>1, <2>2, ActsCount, TypedNow, TypedStep DEF Exists
<1>6. ASSUME NEW r \in Handlers, addField(r)
      PROVE  ContactsTyped'
  <2>1. /\ Acts /\ UNCHANGED <<contactGroup, contactRow, customField, groupFilter, list, loads, editing, touched, outdated>>
        /\ twice' = (twice \/ Pending({"key", "count"}) # {})
    BY <1>6 DEF addField, contactsDb, contactsPage
  <2>2. PICK h \in HandlerRec : handler' = [handler EXCEPT ![r] = h] /\ h.at = "key"
    BY <1>6, HandlerSteps
  <2>3. twice' \in BOOLEAN
    BY <2>1, Zenon
  <2>4. QED
    BY <2>1, <2>2, <2>3, ActsCount, TypedNow, TypedStep DEF Exists
<1>7. ASSUME NEW r \in Handlers, NEW c \in ContactIds, remove(r, c)
      PROVE  ContactsTyped'
  <2>1. Acts /\ UNCHANGED <<contactGroup, contactRow, customField, groupFilter, list, loads, editing, touched, twice, outdated>>
    BY <1>7 DEF remove, contactsDb, contactsPage
  <2>2. PICK h \in HandlerRec : handler' = [handler EXCEPT ![r] = h] /\ h.at = "remove"
    BY <1>7, HandlerSteps
  <2>3. QED
    BY <2>1, <2>2, ActsCount, TypedNow, TypedStep DEF Exists
<1>8. ASSUME NEW r \in Handlers, NEW g \in GroupIds, deleteGroup(r, g)
      PROVE  ContactsTyped'
  <2>1. /\ Acts /\ UNCHANGED <<contactGroup, contactRow, customField, list, editing, twice>>
        /\ touched' = touched \cup ({g} \cap Named)
        /\ \/ groupFilter' = AllOfThem /\ loadList(AllOfThem) /\ outdated' = TRUE
           \/ UNCHANGED <<groupFilter, loads, outdated>>
    BY <1>8 DEF deleteGroup, contactsDb
  <2>2. PICK h \in HandlerRec : handler' = [handler EXCEPT ![r] = h] /\ h.at = "members"
    BY <1>8, HandlerSteps
  <2>3. touched' \subseteq GroupIds \cup ContactIds
    BY <2>1, TypedNow
  <2>4. /\ groupFilter' \in Filters /\ loads' \in Seq(LoadRec) /\ Len(loads') <= MaxPages /\ outdated' \in BOOLEAN
    <3>1. AllOfThem \in Filters
      BY DEF Filters
    <3>2. QED
      BY <2>1, <3>1, LoadAsked, TypedNow
  <2>5. QED
    BY <2>1, <2>2, <2>3, <2>4, ActsCount, TypedNow, TypedStep DEF Exists
<1>9. ASSUME NEW r \in Handlers, NEW extra \in SUBSET GroupIds, doImport(r, extra)
      PROVE  ContactsTyped'
  <2>1. /\ Acts /\ UNCHANGED <<contactGroup, contactRow, customField, groupFilter, list, loads, editing, outdated>>
        /\ touched' = touched \cup (extra \cap Deleting) /\ twice' = (twice \/ Pending({"names", "create"}) # {})
    BY <1>9 DEF doImport, contactsDb, contactsPage
  <2>2. PICK h \in HandlerRec : handler' = [handler EXCEPT ![r] = h] /\ h.at = "names"
    BY <1>9, HandlerSteps
  <2>3. twice' \in BOOLEAN
    BY <2>1, Zenon
  <2>4. touched' \subseteq GroupIds \cup ContactIds
    BY <2>1, TypedNow
  <2>5. QED
    BY <2>1, <2>2, <2>3, <2>4, ActsCount, TypedNow, TypedStep DEF Exists
<1>10. ASSUME NEW f \in FieldIds, removesField(f)
       PROVE  ContactsTyped'
  <2>1. /\ Acts /\ customField' = [customField EXCEPT ![f] = 0]
        /\ UNCHANGED <<contactGroup, contactRow, handler, groupFilter, list, loads, editing, touched, twice, outdated>>
    BY <1>10 DEF removesField, contactsPage
  <2>2. customField' \in [FieldIds -> 0..Cardinality(FieldIds)]
    BY <2>1, TypedNow, ContactsAssumption, FS_CardinalityType
  <2>3. QED
    BY <2>1, <2>2, ActsCount, TypedNow, TypedStep DEF Exists
<1>11. QED
  BY <1>1, <1>2, <1>3, <1>4, <1>5, <1>6, <1>7, <1>8, <1>9, <1>10

\* A contact that is made.
LEMMA CreatesTypes ==
  ASSUME ContactsTyped, NEW groups \in SUBSET GroupIds, Creates(groups)
  PROVE  /\ contactRow' \in [ContactIds -> [there : BOOLEAN, groups : SUBSET GroupIds]]
         /\ \E c \in ContactIds \ There : contactRow' = [contactRow EXCEPT ![c] = [there |-> TRUE, groups |-> groups]]
<1>1. PICK c \in ContactIds \ There : contactRow' = [contactRow EXCEPT ![c] = [there |-> TRUE, groups |-> groups]]
  BY DEF Creates
<1>2. [there |-> TRUE, groups |-> groups] \in [there : BOOLEAN, groups : SUBSET GroupIds]
  OBVIOUS
<1>3. QED
  BY <1>1, <1>2, TypedNow

\* What saves writes.
LEMMA SavesTypes ==
  ASSUME ContactsTyped, NEW r \in Handlers, saves(r)
  PROVE  /\ contactRow' \in [ContactIds -> [there : BOOLEAN, groups : SUBSET GroupIds]]
         /\ \/ UNCHANGED contactRow
            \/ \E c \in ContactIds : contactRow' = [contactRow EXCEPT ![c] = [there |-> TRUE, groups |-> handler[r].groups]]
<1>1. PICK gs \in SUBSET GroupIds : gs = handler[r].groups
  BY TypedNow
<1>2. CASE handler[r].id = AllOfThem
  <2>1. Creates(gs)
    BY <1>1, <1>2 DEF saves
  <2>2. /\ contactRow' \in [ContactIds -> [there : BOOLEAN, groups : SUBSET GroupIds]]
        /\ \E c \in ContactIds \ There : contactRow' = [contactRow EXCEPT ![c] = [there |-> TRUE, groups |-> gs]]
    BY <2>1, CreatesTypes
  <2>3. QED
    BY <1>1, <2>2
<1>3. CASE handler[r].id \in There /\ handler[r].id # AllOfThem
  <2>1. PICK c \in ContactIds : c = handler[r].id
    BY <1>3 DEF There
  <2>2. contactRow' = [contactRow EXCEPT ![c] = [there |-> TRUE, groups |-> gs]]
    BY <1>1, <1>3, <2>1 DEF saves
  <2>3. [there |-> TRUE, groups |-> gs] \in [there : BOOLEAN, groups : SUBSET GroupIds]
    OBVIOUS
  <2>4. QED
    BY <1>1, <2>2, <2>3, TypedNow
<1>4. CASE handler[r].id \notin There /\ handler[r].id # AllOfThem
  <2>1. UNCHANGED contactRow
    BY <1>4 DEF saves
  <2>2. QED
    BY <2>1, TypedNow
<1>5. QED
  BY <1>2, <1>3, <1>4

\* The server's steps, and what becomes of the list, keep the types.
LEMMA RequestsTyped ==
  ASSUME ContactsTyped,
         \/ \E i \in DOMAIN loads : listReads(i) \/ \E fails \in BOOLEAN : listArrives(i, fails)
         \/ \E r \in Handlers :
              \/ saves(r) \/ removes(r) \/ readsMembers(r) \/ stripsMember(r) \/ dropsGroup(r)
              \/ readsNames(r) \/ inserts(r) \/ findsKey(r) \/ HandlerFails(r)
              \/ \E g \in GroupIds : createsGroup(r, g)
              \/ \E f \in FieldIds : createsField(r, f)
  PROVE  ContactsTyped'
<1>1. ASSUME NEW i \in DOMAIN loads, listReads(i)
      PROVE  ContactsTyped'
  <2>1. /\ loads' = [loads EXCEPT ![i] = [loads[i] EXCEPT !.read = TRUE, !.found = InGroup(loads[i].of)]]
        /\ UNCHANGED <<contactGroup, contactRow, customField, handler, groupFilter, list, editing, acts, touched, twice, outdated>>
    BY <1>1 DEF listReads, contactsDb
  <2>2. loads \in Seq(LoadRec) /\ Len(loads) \in Nat /\ DOMAIN loads = 1..Len(loads) /\ loads[i] \in LoadRec
    BY TypedNow, LenProperties, ElementOfSeq
  <2>3. PICK e : e = [loads[i] EXCEPT !.read = TRUE, !.found = InGroup(loads[i].of)]
    OBVIOUS
  <2>4. e \in LoadRec
    <3>1. PICK fs \in MemberRows : fs = InGroup(loads[i].of)
      BY RequestTypes
    <3>2. QED
      BY <2>2, <2>3, <3>1 DEF LoadRec
  <2>5. loads' = [loads EXCEPT ![i] = e]
    BY <2>1, <2>3
  <2>6. loads' \in Seq(LoadRec) /\ Len(loads') = Len(loads)
    <3>1. loads' \in [1..Len(loads) -> LoadRec]
      BY <2>2, <2>4, <2>5, ElementOfSeq
    <3>2. QED
      BY <2>2, <3>1, SeqOfFunction
  <2>7. QED
    BY <2>1, <2>6, TypedNow, TypedStep DEF Exists
<1>2. ASSUME NEW i \in DOMAIN loads, NEW fails \in BOOLEAN, listArrives(i, fails)
      PROVE  ContactsTyped'
  <2>1. /\ list' = (IF fails THEN {} ELSE loads[i].found) /\ loads' = RemoveAt(loads, i)
        /\ outdated' = (outdated \/ fails \/ Len(loads) > 1)
        /\ UNCHANGED <<contactGroup, contactRow, customField, handler, groupFilter, editing, acts, touched, twice>>
    BY <1>2 DEF listArrives, contactsDb
  <2>2. outdated' \in BOOLEAN
    BY <2>1, Zenon
  <2>3. loads' \in Seq(LoadRec) /\ Len(loads') <= MaxPages
    BY <2>1, TypedNow, LoadArrives, ContactsAssumption
  <2>4. list' \in MemberRows
    <3>1. loads[i] \in LoadRec
      BY TypedNow, LenProperties, ElementOfSeq
    <3>2. QED
      BY <2>1, <3>1 DEF LoadRec, MemberRows
  <2>5. QED
    BY <2>1, <2>2, <2>3, <2>4, TypedNow, TypedStep DEF Exists
<1>3. ASSUME NEW r \in Handlers, saves(r) \/ removes(r) \/ inserts(r) \/ dropsGroup(r)
      PROVE  ContactsTyped'
  <2>1. /\ UNCHANGED <<customField, groupFilter, list, acts, touched, twice, outdated>> /\ loadList(handler[r].of)
        /\ handler' = [handler EXCEPT ![r] = Done] /\ (editing' = NoDrawer \/ UNCHANGED editing)
    BY <1>3 DEF saves, removes, inserts, dropsGroup, ThenLoads
  <2>2. Done \in HandlerRec /\ Done.at # "count" /\ NoDrawer \in DrawerRec
    BY RequestTypes DEF Done
  <2>3. contactRow' \in [ContactIds -> [there : BOOLEAN, groups : SUBSET GroupIds]]
    <3>1. CASE saves(r)
      BY <3>1, SavesTypes
    <3>2. CASE removes(r)
      BY <3>2, TypedNow DEF removes, Absent
    <3>3. CASE inserts(r)
      <4>1. PICK gs \in SUBSET GroupIds : gs = handler[r].groups
        BY TypedNow
      <4>2. Creates(gs)
        BY <3>3, <4>1 DEF inserts
      <4>3. QED
        BY <4>2, CreatesTypes
    <3>4. CASE dropsGroup(r)
      BY <3>4, TypedNow DEF dropsGroup
    <3>5. QED
      BY <1>3, <3>1, <3>2, <3>3, <3>4
  <2>4. contactGroup' \in [there : SUBSET GroupIds, made : SUBSET GroupIds] /\ Exists' \subseteq contactGroup'.made
    <3>1. UNCHANGED contactGroup \/ contactGroup' = [contactGroup EXCEPT !.there = @ \ {handler[r].id}]
      BY <1>3 DEF saves, removes, inserts, dropsGroup
    <3>2. QED
      BY <3>1, TypedNow DEF Exists
  <2>5. loads' \in Seq(LoadRec) /\ Len(loads') <= MaxPages
    BY <2>1, LoadAsked, TypedNow
  <2>6. editing' \in DrawerRec
    BY <2>1, <2>2, TypedNow
  <2>7. QED
    BY <2>1, <2>2, <2>3, <2>4, <2>5, <2>6, TypedNow, TypedStep
<1>4. ASSUME NEW r \in Handlers, readsMembers(r) \/ readsNames(r) \/ findsKey(r)
      PROVE  ContactsTyped'
  <2>1. /\ UNCHANGED <<contactGroup, contactRow, customField, groupFilter, list, loads, editing, acts, twice, outdated>>
        /\ touched' = touched \/ touched' = touched \cup (Deleting \cap handler'[r].groups)
    BY <1>4 DEF readsMembers, readsNames, findsKey, contactsDb, contactsPage
  <2>2. PICK h \in HandlerRec : handler' = [handler EXCEPT ![r] = h] /\ (h.at = "count" => h.id \in Nat \ {0})
    BY <1>4, RequestSteps
  <2>3. handler'[r] = h
    BY <2>2, HandlerMoves
  <2>4. touched' \subseteq GroupIds \cup ContactIds
    BY <2>1, <2>3, TypedNow DEF HandlerRec
  <2>5. QED
    BY <2>1, <2>2, <2>4, TypedNow, TypedStep DEF Exists
<1>5. ASSUME NEW r \in Handlers, NEW g \in GroupIds, createsGroup(r, g)
      PROVE  ContactsTyped'
  <2>1. /\ contactGroup' = [there |-> Exists \cup {g}, made |-> contactGroup.made \cup {g}]
        /\ UNCHANGED <<contactRow, customField, groupFilter, list, loads, editing, acts, touched, twice, outdated>>
    BY <1>5 DEF createsGroup, Makes, contactsPage
  <2>2. PICK h \in HandlerRec : handler' = [handler EXCEPT ![r] = h] /\ h.at = "insert"
    BY <1>5, RequestSteps
  <2>3. contactGroup' \in [there : SUBSET GroupIds, made : SUBSET GroupIds] /\ Exists' \subseteq contactGroup'.made
    BY <2>1, TypedNow DEF Exists
  <2>4. QED
    BY <2>1, <2>2, <2>3, TypedNow, TypedStep
<1>6. ASSUME NEW r \in Handlers, stripsMember(r)
      PROVE  ContactsTyped'
  <2>1. /\ UNCHANGED <<contactGroup, customField, groupFilter, list, loads, editing, acts, twice>>
        /\ outdated' = (outdated \/ handler'[r] = Done)
    BY <1>6 DEF stripsMember, contactsPage
  <2>2. outdated' \in BOOLEAN
    BY <2>1, Zenon
  <2>3. PICK m \in handler[r].members :
          \/ /\ m[1] \in There /\ contactRow' = [contactRow EXCEPT ![m[1]] = [there |-> TRUE, groups |-> m[2] \ {handler[r].id}]]
             /\ touched' = touched \cup (IF contactRow[m[1]].groups # m[2] THEN {m[1]} ELSE {})
             /\ \E h \in HandlerRec : /\ handler' = [handler EXCEPT ![r] = h] /\ h.at = "strip" /\ h.of = handler[r].of
                                      /\ h.id = handler[r].id /\ h.members = handler[r].members \ {m}
          \/ handler' = [handler EXCEPT ![r] = Done] /\ outdated' /\ UNCHANGED <<contactRow, touched>>
    BY <1>6, RequestSteps
  <2>4. m[1] \in ContactIds /\ m[2] \in SUBSET GroupIds
    BY <2>3, TypedNow
  <2>5. contactRow' \in [ContactIds -> [there : BOOLEAN, groups : SUBSET GroupIds]] /\ touched' \subseteq GroupIds \cup ContactIds
    <3>1. [there |-> TRUE, groups |-> m[2] \ {handler[r].id}] \in [there : BOOLEAN, groups : SUBSET GroupIds]
      BY <2>4
    <3>2. CASE UNCHANGED <<contactRow, touched>>
      BY <3>2, TypedNow
    <3>3. CASE /\ contactRow' = [contactRow EXCEPT ![m[1]] = [there |-> TRUE, groups |-> m[2] \ {handler[r].id}]]
               /\ touched' = touched \cup (IF contactRow[m[1]].groups # m[2] THEN {m[1]} ELSE {})
      <4>1. touched' \subseteq GroupIds \cup ContactIds
        BY <2>4, <3>3, TypedNow
      <4>2. PICK e \in [there : BOOLEAN, groups : SUBSET GroupIds] : e = [there |-> TRUE, groups |-> m[2] \ {handler[r].id}]
        BY <3>1
      <4>3. contactRow' = [contactRow EXCEPT ![m[1]] = e]
        BY <3>3, <4>2
      <4>4. QED
        BY <4>1, <4>2, <4>3, TypedNow
    <3>4. QED
      BY <2>3, <3>2, <3>3
  <2>6. \E h \in HandlerRec : handler' = [handler EXCEPT ![r] = h] /\ (h.at = "count" => h.id \in Nat \ {0})
    <3>1. Done \in HandlerRec /\ Done.at # "count"
      BY RequestTypes DEF Done
    <3>2. QED
      BY <2>3, <3>1
  <2>7. QED
    BY <2>1, <2>2, <2>5, <2>6, TypedNow, TypedStep DEF Exists
<1>7. ASSUME NEW r \in Handlers, HandlerFails(r)
      PROVE  ContactsTyped'
  <2>1. /\ UNCHANGED <<contactGroup, contactRow, customField, groupFilter, list, loads, editing, acts, touched, twice>>
        /\ outdated' = (outdated \/ handler[r].at = "strip") /\ handler' = [handler EXCEPT ![r] = Done]
    BY <1>7 DEF HandlerFails, contactsDb, contactsPage
  <2>2. outdated' \in BOOLEAN
    BY <2>1, Zenon
  <2>3. Done \in HandlerRec /\ Done.at # "count"
    BY RequestTypes DEF Done
  <2>4. QED
    BY <2>1, <2>2, <2>3, TypedNow, TypedStep DEF Exists
<1>8. ASSUME NEW r \in Handlers, NEW f \in FieldIds, createsField(r, f)
      PROVE  ContactsTyped'
  <2>1. /\ UNCHANGED <<contactGroup, contactRow, groupFilter, list, loads, editing, acts, touched, twice, outdated>>
        /\ handler[r].at = "count" /\ handler[r].id <= Cardinality(FieldIds)
        /\ customField' = [customField EXCEPT ![f] = handler[r].id] /\ handler' = [handler EXCEPT ![r] = Done]
    BY <1>8 DEF createsField, contactsPage
  <2>2. handler[r].id \in 0..Cardinality(FieldIds)
    <3>1. handler[r].id \in Nat
      BY <2>1 DEF ContactsTyped
    <3>2. QED
      BY <2>1, <3>1, ContactsAssumption, FS_CardinalityType
  <2>3. customField' \in [FieldIds -> 0..Cardinality(FieldIds)]
    BY <2>1, <2>2, TypedNow
  <2>4. Done \in HandlerRec /\ Done.at # "count"
    BY RequestTypes DEF Done
  <2>5. QED
    BY <2>1, <2>3, <2>4, TypedNow, TypedStep DEF Exists
<1>9. QED
  BY <1>1, <1>2, <1>3, <1>4, <1>5, <1>6, <1>7, <1>8

-----------------------------------------------------------------------------
\* What is named or deleted newly is taken care of by the step.
LEMMA NamesStep ==
  ASSUME NamesAreSafe, touched \subseteq touched', contactGroup.made \subseteq contactGroup'.made,
         Exists \ Exists' \subseteq Deleting,
         \A g \in Named' \ Named : g \in Exists' \cup touched' /\ (g \in Deleting => g \in touched'),
         \A g \in Deleting' \ Deleting : g \in contactGroup'.made /\ (g \in Named => g \in touched'),
         Deleting' \subseteq Deleting \/ Named' \subseteq Named
  PROVE  NamesAreSafe'
BY DEF NamesAreSafe

\* Most steps name nothing new.
LEMMA NamesOfAClick ==
  ASSUME ContactsTyped, NamesAreSafe, NEW r \in Handlers, NEW h \in HandlerRec, handler' = [handler EXCEPT ![r] = h],
         h.at \in Naming => h.groups \subseteq Named, h.at \in {"members", "strip"} => h.id \in Deleting,
         editing'.groups \subseteq Named, touched \subseteq touched', contactGroup.made \subseteq contactGroup'.made,
         Exists \ Exists' \subseteq Deleting
  PROVE  NamesAreSafe'
<1>1. Named' \subseteq Named /\ Deleting' \subseteq Deleting
  BY HandlerMoves
<1>2. QED
  BY <1>1, NamesStep

\* Whose groups are named.
LEMMA NamedIs ==
  /\ editing.groups \subseteq Named
  /\ \A r \in Handlers : /\ handler[r].at \in Naming => handler[r].groups \subseteq Named
                         /\ handler[r].at \in {"members", "strip"} => handler[r].id \in Deleting
  /\ UNCHANGED handler => Named' \subseteq Named \cup editing'.groups /\ Deleting' = Deleting
BY DEF Named, Deleting, Pending, Naming

LEMMA NamesKept == ContactsTyped /\ NamesAreSafe /\ ContactsNext => NamesAreSafe'
<1> SUFFICES ASSUME ContactsTyped, NamesAreSafe, ContactsNext
             PROVE  NamesAreSafe'
  OBVIOUS
<1>1. Done \in HandlerRec /\ Done.at = "none" /\ NoDrawer.groups = {}
  BY RequestTypes DEF Done, NoDrawer
<1>2. ASSUME UNCHANGED <<contactGroup, handler, editing>>, touched \subseteq touched'
      PROVE  NamesAreSafe'
  BY <1>2, NamedIs, NamesStep DEF Exists
<1>3. ASSUME opensDrawer
      PROVE  NamesAreSafe'
  <2>1. /\ touched' = touched \cup (editing'.groups \ (Exists \ Deleting)) /\ UNCHANGED <<contactGroup, handler>>
    BY <1>3 DEF opensDrawer, contactsDb
  <2>2. Named' \subseteq Named \cup editing'.groups /\ Deleting' = Deleting /\ Exists' = Exists
    BY <2>1, NamedIs DEF Exists
  <2>3. QED
    BY <2>1, <2>2, NamesStep
<1>4. ASSUME NEW g \in GroupIds, toggleGroupOnContact(g)
      PROVE  NamesAreSafe'
  <2>1. /\ touched' = touched \cup ({g} \cap Deleting) /\ UNCHANGED <<contactGroup, handler>> /\ g \in Exists
        /\ editing' = [editing EXCEPT !.groups = IF g \in @ THEN @ \ {g} ELSE @ \cup {g}]
    BY <1>4 DEF toggleGroupOnContact, contactsDb
  <2>2. editing'.groups \subseteq Named \cup {g}
    BY <2>1, NamedIs, TypedNow DEF DrawerRec
  <2>3. Named' \subseteq Named \cup {g} /\ Deleting' = Deleting /\ Exists' = Exists
    BY <2>1, <2>2, NamedIs DEF Exists
  <2>4. QED
    BY <2>1, <2>3, NamesStep
<1>5. ASSUME NEW g \in GroupIds, addGroup(g)
      PROVE  NamesAreSafe'
  <2>1. UNCHANGED <<handler, editing, touched>> /\ contactGroup' = [there |-> Exists \cup {g}, made |-> contactGroup.made \cup {g}]
    BY <1>5 DEF addGroup, Makes, contactsPage
  <2>2. Named' \subseteq Named /\ Deleting' = Deleting /\ Exists' = Exists \cup {g} /\ contactGroup.made \subseteq contactGroup'.made
    BY <2>1, NamedIs DEF Exists
  <2>3. QED
    BY <2>1, <2>2, NamesStep
<1>6. ASSUME NEW r \in Handlers,
             saveEditing(r) \/ addField(r) \/ \E c \in ContactIds : remove(r, c)
      PROVE  NamesAreSafe'
  <2>1. UNCHANGED <<contactGroup, editing, touched>>
    BY <1>6 DEF saveEditing, addField, remove, contactsDb, contactsPage
  <2>2. PICK h \in HandlerRec : /\ handler' = [handler EXCEPT ![r] = h]
                                /\ h.at \in Naming => h.groups = editing.groups
                                /\ h.at \notin {"members", "strip"}
    BY <1>6, HandlerSteps DEF Naming
  <2>3. QED
    BY <2>1, <2>2, NamedIs, NamesOfAClick DEF Exists
<1>7. ASSUME NEW r \in Handlers, NEW g \in GroupIds, deleteGroup(r, g)
      PROVE  NamesAreSafe'
  <2>1. UNCHANGED <<contactGroup, editing>> /\ touched' = touched \cup ({g} \cap Named) /\ g \in Exists
    BY <1>7 DEF deleteGroup, contactsDb
  <2>2. PICK h \in HandlerRec : handler' = [handler EXCEPT ![r] = h] /\ h.at = "members" /\ h.id = g
    BY <1>7, HandlerSteps
  <2>3. Named' \subseteq Named /\ Deleting' \subseteq Deleting \cup {g} /\ Exists' = Exists /\ g \in contactGroup'.made
    BY <2>1, <2>2, HandlerMoves, NamedIs, TypedNow DEF Exists, Naming
  <2>4. QED
    BY <2>1, <2>3, NamesStep
<1>8. ASSUME NEW r \in Handlers, NEW extra \in SUBSET GroupIds, doImport(r, extra)
      PROVE  NamesAreSafe'
  <2>1. UNCHANGED <<contactGroup, editing>> /\ touched' = touched \cup (extra \cap Deleting) /\ extra \subseteq Exists
    BY <1>8 DEF doImport, contactsDb, contactsPage
  <2>2. PICK h \in HandlerRec : handler' = [handler EXCEPT ![r] = h] /\ h.at = "names" /\ h.groups = extra
    BY <1>8, HandlerSteps
  <2>3. Named' \subseteq Named \cup extra /\ Deleting' \subseteq Deleting /\ Exists' = Exists
    BY <2>1, <2>2, HandlerMoves, NamedIs DEF Exists
  <2>4. QED
    BY <2>1, <2>3, NamesStep
<1>9. ASSUME NEW r \in Handlers, saves(r) \/ removes(r) \/ inserts(r) \/ HandlerFails(r) \/ dropsGroup(r)
      PROVE  NamesAreSafe'
  <2>1. /\ handler' = [handler EXCEPT ![r] = Done] /\ UNCHANGED touched /\ (editing' = NoDrawer \/ UNCHANGED editing)
        /\ UNCHANGED contactGroup \/ (handler[r].at = "strip" /\ contactGroup' = [contactGroup EXCEPT !.there = @ \ {handler[r].id}])
    BY <1>9 DEF saves, removes, inserts, HandlerFails, dropsGroup, ThenLoads, contactsDb, contactsPage
  <2>2. editing'.groups \subseteq Named
    BY <1>1, <2>1, NamedIs
  <2>3. Exists \ Exists' \subseteq Deleting /\ contactGroup'.made = contactGroup.made
    BY <2>1, NamedIs, TypedNow DEF Exists
  <2>4. QED
    BY <1>1, <2>1, <2>2, <2>3, NamesOfAClick DEF Naming
<1>10. ASSUME NEW r \in Handlers, readsMembers(r) \/ findsKey(r)
       PROVE  NamesAreSafe'
  <2>1. UNCHANGED <<contactGroup, editing, touched>>
    BY <1>10 DEF readsMembers, findsKey, contactsDb, contactsPage
  <2>2. PICK h \in HandlerRec : /\ handler' = [handler EXCEPT ![r] = h] /\ h.at \in {"strip", "count"}
                                /\ h.at = "strip" => handler[r].at = "members" /\ h.id = handler[r].id
    BY <1>10, RequestSteps
  <2>3. QED
    BY <2>1, <2>2, NamedIs, NamesOfAClick DEF Exists, Naming
<1>11. ASSUME NEW r \in Handlers, readsNames(r)
       PROVE  NamesAreSafe'
  <2>1. UNCHANGED <<contactGroup, editing>> /\ touched' = touched \cup (Deleting \cap handler'[r].groups)
    BY <1>11 DEF readsNames, contactsDb, contactsPage
  <2>2. PICK h \in HandlerRec : /\ handler' = [handler EXCEPT ![r] = h] /\ handler[r].at = "names" /\ h.at \in {"create", "insert"}
                                /\ h.groups = handler[r].groups \/ \E g \in Exists : h.groups = handler[r].groups \cup {g}
    BY <1>11, RequestSteps
  <2>3. h.groups \subseteq Named \cup Exists
    BY <2>2, NamedIs DEF Naming
  <2>4. handler'[r] = h /\ Named' \subseteq Named \cup h.groups /\ Deleting' \subseteq Deleting /\ Exists' = Exists
    BY <2>1, <2>2, HandlerMoves, NamedIs DEF Exists
  <2>5. QED
    BY <2>1, <2>3, <2>4, NamesStep
<1>12. ASSUME NEW r \in Handlers, NEW g \in GroupIds, createsGroup(r, g)
       PROVE  NamesAreSafe'
  <2>1. /\ UNCHANGED <<editing, touched>> /\ g \notin contactGroup.made
        /\ contactGroup' = [there |-> Exists \cup {g}, made |-> contactGroup.made \cup {g}]
    BY <1>12 DEF createsGroup, Makes, contactsPage
  <2>2. PICK h \in HandlerRec : /\ handler' = [handler EXCEPT ![r] = h] /\ handler[r].at = "create" /\ h.at = "insert"
                                /\ h.groups = handler[r].groups \cup {g}
    BY <1>12, RequestSteps
  <2>3. h.groups \subseteq Named \cup {g}
    BY <2>2, NamedIs DEF Naming
  <2>4. Named' \subseteq Named \cup {g} /\ Deleting' \subseteq Deleting /\ Exists' = Exists \cup {g}
    BY <2>1, <2>2, <2>3, HandlerMoves, NamedIs DEF Exists
  <2>5. g \notin Deleting /\ contactGroup.made \subseteq contactGroup'.made
    BY <2>1 DEF NamesAreSafe
  <2>6. QED
    BY <2>1, <2>4, <2>5, NamesStep
<1>13. ASSUME NEW r \in Handlers, stripsMember(r)
       PROVE  NamesAreSafe'
  <2>1. UNCHANGED <<contactGroup, editing>>
    BY <1>13 DEF stripsMember, contactsPage
  <2>2. /\ handler[r].at = "strip" /\ touched \subseteq touched'
        /\ \E h \in HandlerRec : handler' = [handler EXCEPT ![r] = h] /\ (h = Done \/ (h.at = "strip" /\ h.id = handler[r].id))
    BY <1>1, <1>13, RequestSteps
  <2>3. PICK h \in HandlerRec : handler' = [handler EXCEPT ![r] = h] /\ (h = Done \/ (h.at = "strip" /\ h.id = handler[r].id))
    BY <2>2
  <2>4. QED
    BY <1>1, <2>1, <2>2, <2>3, NamedIs, NamesOfAClick DEF Exists, Naming
<1>14. ASSUME NEW r \in Handlers, NEW f \in FieldIds, createsField(r, f)
       PROVE  NamesAreSafe'
  <2>1. handler' = [handler EXCEPT ![r] = Done] /\ UNCHANGED <<contactGroup, touched, editing>>
    BY <1>14 DEF createsField, contactsPage
  <2>2. QED
    BY <1>1, <2>1, NamedIs, NamesOfAClick DEF Exists, Naming
<1>15. ASSUME \/ \E f \in Filters : setGroupFilter(f)
              \/ \E i \in DOMAIN loads : listReads(i) \/ \E fails \in BOOLEAN : listArrives(i, fails)
              \/ \E f \in FieldIds : removesField(f)
       PROVE  NamesAreSafe'
  <2>1. UNCHANGED <<contactGroup, handler, editing, touched>>
    BY <1>15 DEF setGroupFilter, listReads, listArrives, removesField, contactsDb, contactsPage
  <2>2. QED
    BY <1>2, <2>1
<1>16. QED
  BY <1>3, <1>4, <1>5, <1>6, <1>7, <1>8, <1>9, <1>10, <1>11, <1>12, <1>13, <1>14, <1>15 DEF ContactsNext

-----------------------------------------------------------------------------
\* A step that writes no group but those a contact is in or that are named, and after which
\* the deletions go on with what they have not yet written.
LEMMA RowsStep ==
  ASSUME NamesAreSafe, RowsInGroups, touched \subseteq touched', Exists \subseteq Exists',
         \A c \in There' \ touched' :
           (c \in There /\ contactRow'[c].groups \subseteq contactRow[c].groups) \/ contactRow'[c].groups \subseteq Named,
         \A q \in Pending({"strip"})' :
           /\ q \in Pending({"strip"}) /\ handler'[q].id = handler[q].id
           /\ \A m \in handler[q].members :
                m \in handler'[q].members \/ (m[1] \in There' \ touched' => handler[q].id \notin contactRow'[m[1]].groups)
  PROVE  RowsInGroups'
<1>1. ASSUME NEW c \in There' \ touched'
      PROVE  contactRow'[c].groups \subseteq Exists' \cup touched'
  BY <1>1 DEF RowsInGroups, NamesAreSafe
<1>2. ASSUME NEW q \in Pending({"strip"})', NEW c \in There' \ touched', handler'[q].id \in contactRow'[c].groups
      PROVE  handler'[q].id \in touched' \/ \E m \in handler'[q].members : m[1] = c
  <2>1. q \in Pending({"strip"}) /\ handler'[q].id = handler[q].id /\ handler[q].id \in Deleting
    BY <1>2 DEF Pending, Deleting
  <2>2. CASE contactRow'[c].groups \subseteq Named
    BY <1>2, <2>1, <2>2 DEF NamesAreSafe
  <2>3. CASE c \in There /\ contactRow'[c].groups \subseteq contactRow[c].groups
    <3>1. handler[q].id \in touched \/ \E m \in handler[q].members : m[1] = c
      BY <1>2, <2>1, <2>3 DEF RowsInGroups
    <3>2. ASSUME NEW m \in handler[q].members, m[1] = c
          PROVE  m \in handler'[q].members
      BY <1>2, <2>1, <3>2
    <3>3. QED
      BY <2>1, <3>1, <3>2
  <2>4. QED
    BY <1>2, <2>2, <2>3
<1>3. QED
  BY <1>1, <1>2 DEF RowsInGroups

\* A handler that goes on leaves the deletions of the others, ...
LEMMA OthersStrip ==
  ASSUME ContactsTyped, NEW r \in Handlers, NEW h \in HandlerRec, handler' = [handler EXCEPT ![r] = h], h.at # "strip"
  PROVE  \A q \in Pending({"strip"})' : q \in Pending({"strip"}) /\ handler'[q] = handler[q]
BY HandlerMoves DEF Pending

\* ... and writes a contact with what it names, or nothing.
LEMMA RowsOfAClick ==
  ASSUME ContactsTyped, NamesAreSafe, RowsInGroups, NEW r \in Handlers, NEW h \in HandlerRec, handler' = [handler EXCEPT ![r] = h],
         h.at # "strip", touched \subseteq touched', Exists \subseteq Exists',
         \/ UNCHANGED contactRow
         \/ \E c \in ContactIds : \E e : contactRow' = [contactRow EXCEPT ![c] = e] /\ (e.there => e.groups \subseteq Named)
  PROVE  RowsInGroups'
<1>1. \A q \in Pending({"strip"})' : q \in Pending({"strip"}) /\ handler'[q] = handler[q]
  BY OthersStrip
<1>2. \A c \in There' \ touched' :
        (c \in There /\ contactRow'[c].groups \subseteq contactRow[c].groups) \/ contactRow'[c].groups \subseteq Named
  BY TypedNow DEF There
<1>3. QED
  BY <1>1, <1>2, RowsStep

LEMMA RowsStay ==
  ASSUME NamesAreSafe, RowsInGroups, UNCHANGED <<contactRow, handler>>, touched \subseteq touched', Exists \subseteq Exists'
  PROVE  RowsInGroups'
<1>1. There' = There /\ Pending({"strip"})' = Pending({"strip"})
  BY DEF There, Pending
<1>2. QED
  BY <1>1, RowsStep

LEMMA RowsKept == ContactsTyped /\ NamesAreSafe /\ RowsInGroups /\ ContactsNext => RowsInGroups'
<1> SUFFICES ASSUME ContactsTyped, NamesAreSafe, RowsInGroups, ContactsNext
             PROVE  RowsInGroups'
  OBVIOUS
<1>1. Done \in HandlerRec /\ Done.at = "none" /\ ~Absent.there
  BY RequestTypes DEF Done, Absent
<1>2. ASSUME \/ \E f \in Filters : setGroupFilter(f)
             \/ \E i \in DOMAIN loads : listReads(i) \/ \E fails \in BOOLEAN : listArrives(i, fails)
             \/ opensDrawer
             \/ \E g \in GroupIds : toggleGroupOnContact(g) \/ addGroup(g)
             \/ \E f \in FieldIds : removesField(f)
      PROVE  RowsInGroups'
  <2>1. UNCHANGED <<contactRow, handler>> /\ touched \subseteq touched'
    BY <1>2 DEF setGroupFilter, listReads, listArrives, opensDrawer, toggleGroupOnContact, addGroup, removesField, contactsDb, contactsPage
  <2>2. Exists \subseteq Exists'
    <3>1. UNCHANGED contactGroup \/ \E g \in GroupIds : contactGroup' = [there |-> Exists \cup {g}, made |-> contactGroup.made \cup {g}]
      BY <1>2 DEF setGroupFilter, listReads, listArrives, opensDrawer, toggleGroupOnContact, addGroup, Makes, removesField, contactsDb
    <3>2. QED
      BY <3>1 DEF Exists
  <2>3. QED
    BY <2>1, <2>2, RowsStay
<1>3. ASSUME NEW r \in Handlers,
             \/ saveEditing(r) \/ addField(r)
             \/ \E c \in ContactIds : remove(r, c)
             \/ \E g \in GroupIds : deleteGroup(r, g)
             \/ \E extra \in SUBSET GroupIds : doImport(r, extra)
      PROVE  RowsInGroups'
  <2>1. UNCHANGED <<contactGroup, contactRow>> /\ touched \subseteq touched'
    BY <1>3 DEF saveEditing, addField, remove, deleteGroup, doImport, contactsDb, contactsPage
  <2>2. PICK h \in HandlerRec : handler' = [handler EXCEPT ![r] = h] /\ h.at # "strip"
    BY <1>3, HandlerSteps
  <2>3. QED
    BY <2>1, <2>2, RowsOfAClick DEF Exists
<1>4. ASSUME NEW r \in Handlers, readsNames(r) \/ findsKey(r) \/ \E g \in GroupIds : createsGroup(r, g)
      PROVE  RowsInGroups'
  <2>1. UNCHANGED contactRow /\ touched \subseteq touched'
    BY <1>4 DEF readsNames, findsKey, createsGroup, contactsDb, contactsPage
  <2>2. PICK h \in HandlerRec : handler' = [handler EXCEPT ![r] = h] /\ h.at # "strip"
    BY <1>4, RequestSteps
  <2>3. Exists \subseteq Exists'
    <3>1. UNCHANGED contactGroup \/ \E g \in GroupIds : contactGroup' = [there |-> Exists \cup {g}, made |-> contactGroup.made \cup {g}]
      BY <1>4 DEF readsNames, findsKey, createsGroup, Makes, contactsDb
    <3>2. QED
      BY <3>1 DEF Exists
  <2>4. QED
    BY <2>1, <2>2, <2>3, RowsOfAClick
<1>5. ASSUME NEW r \in Handlers, saves(r) \/ removes(r) \/ inserts(r) \/ HandlerFails(r) \/ \E f \in FieldIds : createsField(r, f)
      PROVE  RowsInGroups'
  <2>1. UNCHANGED <<contactGroup, touched>> /\ handler' = [handler EXCEPT ![r] = Done]
    BY <1>5 DEF saves, removes, inserts, HandlerFails, createsField, ThenLoads, contactsDb, contactsPage
  <2>2. ASSUME saves(r) \/ inserts(r)
        PROVE  UNCHANGED contactRow \/ \E c \in ContactIds : \E e : contactRow' = [contactRow EXCEPT ![c] = e] /\ (e.there => e.groups \subseteq Named)
    <3>1. handler[r].at \in Naming
      BY <2>2 DEF saves, inserts, Naming
    <3>2. handler[r].groups \subseteq Named /\ handler[r].groups \in SUBSET GroupIds
      BY <3>1, NamedIs, TypedNow
    <3>3. UNCHANGED contactRow \/ \E c \in ContactIds : contactRow' = [contactRow EXCEPT ![c] = [there |-> TRUE, groups |-> handler[r].groups]]
      <4>1. CASE saves(r)
        BY <4>1, SavesTypes
      <4>2. CASE inserts(r)
        BY <4>2 DEF inserts, Creates
      <4>3. QED
        BY <2>2, <4>1, <4>2
    <3>4. QED
      BY <3>2, <3>3
  <2>3. ASSUME removes(r)
        PROVE  UNCHANGED contactRow \/ \E c \in ContactIds : \E e : contactRow' = [contactRow EXCEPT ![c] = e] /\ (e.there => e.groups \subseteq Named)
    <3>1. contactRow' = [contactRow EXCEPT ![handler[r].id] = Absent]
      BY <2>3 DEF removes
    <3>2. CASE handler[r].id \in ContactIds
      BY <1>1, <3>1, <3>2
    <3>3. CASE handler[r].id \notin ContactIds
      BY <3>1, <3>3, TypedNow
    <3>4. QED
      BY <3>2, <3>3
  <2>4. ASSUME HandlerFails(r) \/ \E f \in FieldIds : createsField(r, f)
        PROVE  UNCHANGED contactRow
    BY <2>4 DEF HandlerFails, createsField, contactsDb
  <2>5. UNCHANGED contactRow \/ \E c \in ContactIds : \E e : contactRow' = [contactRow EXCEPT ![c] = e] /\ (e.there => e.groups \subseteq Named)
    BY <1>5, <2>2, <2>3, <2>4
  <2>6. QED
    BY <1>1, <2>1, <2>5, RowsOfAClick DEF Exists
<1>6. ASSUME NEW r \in Handlers, readsMembers(r)
      PROVE  RowsInGroups'
  <2>1. UNCHANGED <<contactGroup, contactRow, touched>>
    BY <1>6 DEF readsMembers, contactsDb
  <2>2. PICK h \in HandlerRec : /\ handler' = [handler EXCEPT ![r] = h] /\ h.at = "strip" /\ h.id = handler[r].id
                                /\ h.members = InGroup(handler[r].id)
    BY <1>6, RequestSteps
  <2>3. handler'[r] = h /\ \A q \in Handlers \ {r} : handler'[q] = handler[q]
    BY <2>2, HandlerMoves
  <2>4. There' = There /\ Exists' = Exists
    BY <2>1 DEF There, Exists
  <2>5. ASSUME NEW c \in There, h.id \in contactRow[c].groups
        PROVE  \E m \in h.members : m[1] = c
    <3>1. <<c, contactRow[c].groups>> \in InGroup(h.id)
      BY <2>5 DEF InGroup
    <3>2. QED
      BY <2>2, <3>1
  <2>6. QED
    BY <2>1, <2>3, <2>4, <2>5 DEF RowsInGroups, Pending
<1>7. ASSUME NEW r \in Handlers, stripsMember(r)
      PROVE  RowsInGroups'
  <2>1. UNCHANGED contactGroup /\ Exists' = Exists
    BY <1>7 DEF stripsMember, Exists
  <2>2. PICK m \in handler[r].members :
          \/ /\ m[1] \in There /\ contactRow' = [contactRow EXCEPT ![m[1]] = [there |-> TRUE, groups |-> m[2] \ {handler[r].id}]]
             /\ touched' = touched \cup (IF contactRow[m[1]].groups # m[2] THEN {m[1]} ELSE {})
             /\ \E h \in HandlerRec : /\ handler' = [handler EXCEPT ![r] = h] /\ h.at = "strip" /\ h.of = handler[r].of
                                      /\ h.id = handler[r].id /\ h.members = handler[r].members \ {m}
          \/ handler' = [handler EXCEPT ![r] = Done] /\ outdated' /\ UNCHANGED <<contactRow, touched>>
    BY <1>7, RequestSteps
  <2>3. CASE handler' = [handler EXCEPT ![r] = Done] /\ UNCHANGED <<contactRow, touched>>
    BY <1>1, <2>1, <2>3, RowsOfAClick
  <2>4. ASSUME m[1] \in There, contactRow' = [contactRow EXCEPT ![m[1]] = [there |-> TRUE, groups |-> m[2] \ {handler[r].id}]],
               touched' = touched \cup (IF contactRow[m[1]].groups # m[2] THEN {m[1]} ELSE {}),
               NEW h \in HandlerRec, handler' = [handler EXCEPT ![r] = h], h.id = handler[r].id, h.members = handler[r].members \ {m}
        PROVE  RowsInGroups'
    <3>1. PICK c \in There : c = m[1] /\ c \in ContactIds
      BY <2>4 DEF There
    <3>2. /\ contactRow'[c].there /\ contactRow'[c].groups = m[2] \ {handler[r].id}
          /\ \A d \in ContactIds \ {c} : contactRow'[d] = contactRow[d]
      BY <2>4, <3>1, TypedNow
    <3>3. There' = There
      BY <3>1, <3>2, TypedNow DEF There
    <3>4. \A d \in There' \ touched' : d \in There /\ contactRow'[d].groups \subseteq contactRow[d].groups
      <4>1. c \notin touched' => contactRow[c].groups = m[2]
        BY <2>4, <3>1
      <4>2. QED
        BY <3>2, <3>3, <4>1 DEF There
    <3>5. handler'[r] = h /\ \A q \in Handlers \ {r} : handler'[q] = handler[q]
      BY <2>4, HandlerMoves
    <3>6. handler[r].at = "strip"
      BY <1>7 DEF stripsMember
    <3>7. ASSUME NEW q \in Pending({"strip"})'
          PROVE  /\ q \in Pending({"strip"}) /\ handler'[q].id = handler[q].id
                 /\ \A n \in handler[q].members :
                      n \in handler'[q].members \/ (n[1] \in There' \ touched' => handler[q].id \notin contactRow'[n[1]].groups)
      <4>1. CASE q = r
        <5>1. q \in Pending({"strip"}) /\ handler'[q].id = handler[q].id /\ handler'[q].members = handler[q].members \ {m}
          BY <2>4, <3>5, <3>6, <4>1 DEF Pending
        <5>2. handler[q].id \notin contactRow'[m[1]].groups
          BY <3>1, <3>2, <4>1
        <5>3. QED
          BY <5>1, <5>2
      <4>2. CASE q # r
        BY <3>5, <3>7, <4>2 DEF Pending
      <4>3. QED
        BY <4>1, <4>2
    <3>8. QED
      BY <2>1, <2>4, <3>4, <3>7, RowsStep
  <2>5. QED
    BY <2>2, <2>3, <2>4
<1>8. ASSUME NEW r \in Handlers, dropsGroup(r)
      PROVE  RowsInGroups'
  <2>1. /\ UNCHANGED <<contactRow, touched>> /\ handler' = [handler EXCEPT ![r] = Done]
        /\ handler[r].at = "strip" /\ handler[r].members = {} /\ contactGroup' = [contactGroup EXCEPT !.there = @ \ {handler[r].id}]
    BY <1>8 DEF dropsGroup, ThenLoads
  <2>2. \A q \in Pending({"strip"})' : q \in Pending({"strip"}) /\ handler'[q] = handler[q]
    BY <1>1, <2>1, OthersStrip
  <2>3. There' = There /\ Exists' = Exists \ {handler[r].id} /\ r \in Pending({"strip"})
    BY <2>1, TypedNow DEF There, Exists, Pending
  <2>4. \A c \in There \ touched : handler[r].id \in contactRow[c].groups => handler[r].id \in touched
    BY <2>1, <2>3 DEF RowsInGroups
  <2>5. QED
    BY <2>1, <2>2, <2>3, <2>4 DEF RowsInGroups
<1>9. QED
  BY <1>2, <1>3, <1>4, <1>5, <1>6, <1>7, <1>8 DEF ContactsNext

-----------------------------------------------------------------------------
\* Exists is what it was, or smaller, and no file makes its way on.
LEMMA OneNameStays ==
  ASSUME ContactsTyped, OneName, twice => twice', Exists' \subseteq Exists,
         \/ UNCHANGED handler
         \/ \E r \in Handlers, h \in HandlerRec : handler' = [handler EXCEPT ![r] = h] /\ h.at \notin {"names", "create"}
  PROVE  OneName'
<1>1. CASE UNCHANGED handler
  BY <1>1 DEF OneName, Pending
<1>2. ASSUME NEW r \in Handlers, NEW h \in HandlerRec, handler' = [handler EXCEPT ![r] = h], h.at \notin {"names", "create"}
      PROVE  OneName'
  <2>1. \A q \in Handlers : handler'[q].at \in {"names", "create"} => handler[q].at = handler'[q].at
    BY <1>2, HandlerMoves
  <2>2. Pending({"names", "create"})' \subseteq Pending({"names", "create"}) /\ Pending({"create"})' \subseteq Pending({"create"})
    BY <2>1 DEF Pending
  <2>3. QED
    BY <2>2 DEF OneName
<1>3. QED
  BY <1>1, <1>2

LEMMA OneNameKept == ContactsTyped /\ OneName /\ ContactsNext => OneName'
<1> SUFFICES ASSUME ContactsTyped, OneName, ContactsNext
             PROVE  OneName'
  OBVIOUS
<1>1. Done \in HandlerRec /\ Done.at = "none"
  BY RequestTypes DEF Done
<1>2. ASSUME \/ \E f \in Filters : setGroupFilter(f)
             \/ \E i \in DOMAIN loads : listReads(i) \/ \E fails \in BOOLEAN : listArrives(i, fails)
             \/ opensDrawer
             \/ \E g \in GroupIds : toggleGroupOnContact(g)
             \/ \E f \in FieldIds : removesField(f)
      PROVE  OneName'
  <2>1. UNCHANGED <<contactGroup, handler, twice>>
    BY <1>2 DEF setGroupFilter, listReads, listArrives, opensDrawer, toggleGroupOnContact, removesField, contactsDb
  <2>2. QED
    BY <2>1, OneNameStays DEF Exists
<1>3. ASSUME NEW g \in GroupIds, addGroup(g)
      PROVE  OneName'
  <2>1. /\ UNCHANGED handler /\ contactGroup' = [there |-> Exists \cup {g}, made |-> contactGroup.made \cup {g}]
        /\ twice' = (twice \/ Exists # {} \/ Pending({"names", "create"}) # {})
    BY <1>3 DEF addGroup, Makes
  <2>2. ~twice' => ~twice /\ Exists = {} /\ Pending({"names", "create"}) = {}
    BY <2>1, Zenon
  <2>3. Exists' = Exists \cup {g} /\ Pending({"names", "create"})' = Pending({"names", "create"}) /\ Pending({"create"})' = Pending({"create"})
    BY <2>1 DEF Exists, Pending
  <2>4. Pending({"create"}) \subseteq Pending({"names", "create"})
    BY DEF Pending
  <2>5. QED
    BY <2>2, <2>3, <2>4 DEF OneName
<1>4. ASSUME NEW r \in Handlers,
             \/ saveEditing(r) \/ addField(r)
             \/ \E c \in ContactIds : remove(r, c)
             \/ \E g \in GroupIds : deleteGroup(r, g)
      PROVE  OneName'
  <2>1. UNCHANGED contactGroup /\ (twice => twice')
    <3>1. UNCHANGED contactGroup /\ (UNCHANGED twice \/ twice' = (twice \/ Pending({"key", "count"}) # {}))
      BY <1>4 DEF saveEditing, addField, remove, deleteGroup, contactsDb
    <3>2. CASE UNCHANGED twice
      BY <3>1, <3>2
    <3>3. CASE twice' = (twice \/ Pending({"key", "count"}) # {})
      <4>1. twice => twice'
        BY <3>3
      <4>2. QED
        BY <3>1, <4>1
    <3>4. QED
      BY <3>1, <3>2, <3>3
  <2>2. PICK h \in HandlerRec : handler' = [handler EXCEPT ![r] = h] /\ h.at \notin {"names", "create"}
    BY <1>4, HandlerSteps
  <2>3. QED
    BY <2>1, <2>2, OneNameStays DEF Exists
<1>5. ASSUME NEW r \in Handlers, NEW extra \in SUBSET GroupIds, doImport(r, extra)
      PROVE  OneName'
  <2>1. UNCHANGED contactGroup /\ twice' = (twice \/ Pending({"names", "create"}) # {})
    BY <1>5 DEF doImport, contactsDb
  <2>2. ~twice' => ~twice /\ Pending({"names", "create"}) = {}
    BY <2>1, Zenon
  <2>3. PICK h \in HandlerRec : handler' = [handler EXCEPT ![r] = h] /\ h.at = "names"
    BY <1>5, HandlerSteps
  <2>4. handler'[r] = h /\ \A q \in Handlers \ {r} : handler'[q] = handler[q]
    BY <2>3, HandlerMoves
  <2>5. /\ Exists' = Exists /\ Pending({"create"})' \subseteq Pending({"names", "create"})
        /\ Pending({"names", "create"})' \subseteq Pending({"names", "create"}) \cup {r}
    BY <2>1, <2>3, <2>4 DEF Exists, Pending
  <2>6. QED
    BY <2>2, <2>5 DEF OneName
<1>6. ASSUME NEW r \in Handlers,
             saves(r) \/ removes(r) \/ inserts(r) \/ HandlerFails(r) \/ dropsGroup(r) \/ \E f \in FieldIds : createsField(r, f)
      PROVE  OneName'
  <2>1. /\ handler' = [handler EXCEPT ![r] = Done] /\ UNCHANGED twice
        /\ UNCHANGED contactGroup \/ contactGroup' = [contactGroup EXCEPT !.there = @ \ {handler[r].id}]
    BY <1>6 DEF saves, removes, inserts, HandlerFails, dropsGroup, createsField, ThenLoads, contactsDb
  <2>2. Exists' \subseteq Exists
    BY <2>1, TypedNow DEF Exists
  <2>3. QED
    BY <1>1, <2>1, <2>2, OneNameStays
<1>7. ASSUME NEW r \in Handlers, readsMembers(r) \/ findsKey(r)
      PROVE  OneName'
  <2>1. UNCHANGED <<contactGroup, twice>>
    BY <1>7 DEF readsMembers, findsKey, contactsDb
  <2>2. PICK h \in HandlerRec : handler' = [handler EXCEPT ![r] = h] /\ h.at \notin {"names", "create"}
    BY <1>7, RequestSteps
  <2>3. QED
    BY <2>1, <2>2, OneNameStays DEF Exists
<1>8. ASSUME NEW r \in Handlers, stripsMember(r)
      PROVE  OneName'
  <2>1. UNCHANGED <<contactGroup, twice>>
    BY <1>8 DEF stripsMember
  <2>2. \E h \in HandlerRec : handler' = [handler EXCEPT ![r] = h] /\ h.at \notin {"names", "create"}
    BY <1>1, <1>8, RequestSteps
  <2>3. QED
    BY <2>1, <2>2, OneNameStays DEF Exists
<1>9. ASSUME NEW r \in Handlers, readsNames(r)
      PROVE  OneName'
  <2>1. UNCHANGED <<contactGroup, twice>>
    BY <1>9 DEF readsNames, contactsDb
  <2>2. PICK h \in HandlerRec : /\ handler' = [handler EXCEPT ![r] = h] /\ handler[r].at = "names"
                                /\ (h.at = "create" /\ Exists = {}) \/ h.at = "insert"
    BY <1>9, RequestSteps
  <2>3. handler'[r] = h /\ \A q \in Handlers \ {r} : handler'[q] = handler[q]
    BY <2>2, HandlerMoves
  <2>4. /\ Exists' = Exists /\ Pending({"names", "create"})' \subseteq Pending({"names", "create"})
        /\ Pending({"create"})' \subseteq Pending({"create"}) \/ Exists = {}
    BY <2>1, <2>2, <2>3 DEF Exists, Pending
  <2>5. QED
    BY <2>1, <2>4 DEF OneName
<1>10. ASSUME NEW r \in Handlers, NEW g \in GroupIds, createsGroup(r, g)
       PROVE  OneName'
  <2>1. UNCHANGED twice /\ contactGroup' = [there |-> Exists \cup {g}, made |-> contactGroup.made \cup {g}]
    BY <1>10 DEF createsGroup, Makes
  <2>2. PICK h \in HandlerRec : handler' = [handler EXCEPT ![r] = h] /\ handler[r].at = "create" /\ h.at = "insert"
    BY <1>10, RequestSteps
  <2>3. handler'[r] = h /\ \A q \in Handlers \ {r} : handler'[q] = handler[q]
    BY <2>2, HandlerMoves
  <2>4. /\ r \in Pending({"create"}) /\ r \in Pending({"names", "create"})
        /\ Pending({"names", "create"})' \subseteq Pending({"names", "create"}) \ {r}
        /\ Pending({"create"})' \subseteq Pending({"names", "create"}) \ {r} /\ Exists' = Exists \cup {g}
    BY <2>1, <2>2, <2>3 DEF Exists, Pending
  <2>5. QED
    BY <2>1, <2>4 DEF OneName
<1>11. QED
  BY <1>2, <1>3, <1>4, <1>5, <1>6, <1>7, <1>8, <1>9, <1>10 DEF ContactsNext

-----------------------------------------------------------------------------
\* No new key, and no request for one makes its way on.
LEMMA OneKeyStays ==
  ASSUME ContactsTyped, OneKey, twice => twice', UNCHANGED customField,
         \/ UNCHANGED handler
         \/ \E r \in Handlers, h \in HandlerRec : handler' = [handler EXCEPT ![r] = h] /\ h.at \notin {"key", "count"}
  PROVE  OneKey'
<1>1. CASE UNCHANGED handler
  BY <1>1 DEF OneKey, Pending
<1>2. ASSUME NEW r \in Handlers, NEW h \in HandlerRec, handler' = [handler EXCEPT ![r] = h], h.at \notin {"key", "count"}
      PROVE  OneKey'
  <2>1. \A q \in Handlers : handler'[q].at \in {"key", "count"} => handler'[q] = handler[q]
    BY <1>2, HandlerMoves
  <2>2. /\ Pending({"key", "count"})' \subseteq Pending({"key", "count"})
        /\ \A q \in Pending({"count"})' : q \in Pending({"count"}) /\ handler'[q] = handler[q]
    BY <2>1 DEF Pending
  <2>3. QED
    BY <2>2 DEF OneKey
<1>3. QED
  BY <1>1, <1>2

LEMMA OneKeyKept == ContactsTyped /\ OneKey /\ ContactsNext => OneKey'
<1> SUFFICES ASSUME ContactsTyped, OneKey, ContactsNext
             PROVE  OneKey'
  OBVIOUS
<1>1. Done \in HandlerRec /\ Done.at = "none"
  BY RequestTypes DEF Done
<1>2. ASSUME \/ \E f \in Filters : setGroupFilter(f)
             \/ \E i \in DOMAIN loads : listReads(i) \/ \E fails \in BOOLEAN : listArrives(i, fails)
             \/ opensDrawer
             \/ \E g \in GroupIds : toggleGroupOnContact(g)
      PROVE  OneKey'
  <2>1. UNCHANGED <<customField, handler, twice>>
    BY <1>2 DEF setGroupFilter, listReads, listArrives, opensDrawer, toggleGroupOnContact, contactsDb
  <2>2. QED
    BY <2>1, OneKeyStays
<1>3. ASSUME NEW g \in GroupIds, addGroup(g)
      PROVE  OneKey'
  <2>1. UNCHANGED <<handler, customField>> /\ twice' = (twice \/ Exists # {} \/ Pending({"names", "create"}) # {})
    BY <1>3 DEF addGroup
  <2>2. twice => twice'
    BY <2>1
  <2>3. QED
    BY <2>1, <2>2, OneKeyStays
<1>4. ASSUME NEW r \in Handlers,
             \/ saveEditing(r)
             \/ \E c \in ContactIds : remove(r, c)
             \/ \E g \in GroupIds : deleteGroup(r, g)
             \/ \E extra \in SUBSET GroupIds : doImport(r, extra)
      PROVE  OneKey'
  <2>1. UNCHANGED customField /\ (twice => twice')
    <3>1. UNCHANGED customField /\ (UNCHANGED twice \/ twice' = (twice \/ Pending({"names", "create"}) # {}))
      BY <1>4 DEF saveEditing, remove, deleteGroup, doImport, contactsDb
    <3>2. CASE UNCHANGED twice
      BY <3>1, <3>2
    <3>3. CASE twice' = (twice \/ Pending({"names", "create"}) # {})
      <4>1. twice => twice'
        BY <3>3
      <4>2. QED
        BY <3>1, <4>1
    <3>4. QED
      BY <3>1, <3>2, <3>3
  <2>2. PICK h \in HandlerRec : handler' = [handler EXCEPT ![r] = h] /\ h.at \notin {"key", "count"}
    BY <1>4, HandlerSteps
  <2>3. QED
    BY <2>1, <2>2, OneKeyStays
<1>5. ASSUME NEW r \in Handlers, addField(r)
      PROVE  OneKey'
  <2>1. UNCHANGED customField /\ twice' = (twice \/ Pending({"key", "count"}) # {})
    BY <1>5 DEF addField, contactsDb
  <2>2. ~twice' => ~twice /\ Pending({"key", "count"}) = {}
    BY <2>1, Zenon
  <2>3. PICK h \in HandlerRec : handler' = [handler EXCEPT ![r] = h] /\ h.at = "key"
    BY <1>5, HandlerSteps
  <2>4. handler'[r] = h /\ \A q \in Handlers \ {r} : handler'[q] = handler[q]
    BY <2>3, HandlerMoves
  <2>5. /\ Pending({"count"})' \subseteq Pending({"key", "count"})
        /\ Pending({"key", "count"})' \subseteq Pending({"key", "count"}) \cup {r}
    BY <2>3, <2>4 DEF Pending
  <2>6. QED
    BY <2>1, <2>2, <2>5 DEF OneKey
<1>6. ASSUME NEW r \in Handlers, saves(r) \/ removes(r) \/ inserts(r) \/ HandlerFails(r) \/ dropsGroup(r)
      PROVE  OneKey'
  <2>1. handler' = [handler EXCEPT ![r] = Done] /\ UNCHANGED <<customField, twice>>
    BY <1>6 DEF saves, removes, inserts, HandlerFails, dropsGroup, ThenLoads, contactsDb
  <2>2. QED
    BY <1>1, <2>1, OneKeyStays
<1>7. ASSUME NEW r \in Handlers, readsMembers(r) \/ readsNames(r) \/ stripsMember(r) \/ \E g \in GroupIds : createsGroup(r, g)
      PROVE  OneKey'
  <2>1. UNCHANGED <<customField, twice>>
    BY <1>7 DEF readsMembers, readsNames, stripsMember, createsGroup, contactsDb
  <2>2. \E h \in HandlerRec : handler' = [handler EXCEPT ![r] = h] /\ h.at \notin {"key", "count"}
    <3>1. CASE stripsMember(r)
      BY <1>1, <3>1, RequestSteps
    <3>2. CASE readsMembers(r) \/ readsNames(r)
      BY <3>2, RequestSteps
    <3>3. CASE \E g \in GroupIds : createsGroup(r, g)
      BY <3>3, RequestSteps
    <3>4. QED
      BY <1>7, <3>1, <3>2, <3>3
  <2>3. QED
    BY <2>1, <2>2, OneKeyStays
<1>8. ASSUME NEW r \in Handlers, findsKey(r)
      PROVE  OneKey'
  <2>1. UNCHANGED <<customField, twice>>
    BY <1>8 DEF findsKey, contactsDb
  <2>2. PICK h \in HandlerRec : /\ handler' = [handler EXCEPT ![r] = h] /\ handler[r].at = "key" /\ h.at = "count"
                                /\ \A f \in FieldIds : customField[f] # h.id
    BY <1>8, RequestSteps
  <2>3. handler'[r] = h /\ \A q \in Handlers \ {r} : handler'[q] = handler[q]
    BY <2>2, HandlerMoves
  <2>4. /\ Pending({"key", "count"})' \subseteq Pending({"key", "count"})
        /\ \A q \in Pending({"count"})' : q = r \/ (q \in Pending({"count"}) /\ handler'[q] = handler[q])
    BY <2>2, <2>3 DEF Pending
  <2>5. QED
    BY <2>1, <2>2, <2>3, <2>4 DEF OneKey
<1>9. ASSUME NEW r \in Handlers, NEW f \in FieldIds, createsField(r, f)
      PROVE  OneKey'
  <2>1. /\ UNCHANGED twice /\ handler[r].at = "count" /\ customField' = [customField EXCEPT ![f] = handler[r].id]
        /\ handler' = [handler EXCEPT ![r] = Done]
    BY <1>9 DEF createsField
  <2>2. handler'[r] = Done /\ \A q \in Handlers \ {r} : handler'[q] = handler[q]
    BY <1>1, <2>1, HandlerMoves
  <2>3. /\ r \in Pending({"count"}) /\ r \in Pending({"key", "count"})
        /\ Pending({"key", "count"})' \subseteq Pending({"key", "count"}) \ {r}
        /\ Pending({"count"})' \subseteq Pending({"key", "count"}) \ {r}
    BY <1>1, <2>1, <2>2 DEF Pending
  <2>4. customField'[f] = handler[r].id /\ \A g \in FieldIds \ {f} : customField'[g] = customField[g]
    BY <2>1, TypedNow
  <2>5. QED
    BY <2>1, <2>3, <2>4 DEF OneKey
<1>10. ASSUME NEW f \in FieldIds, removesField(f)
       PROVE  OneKey'
  <2>1. UNCHANGED <<twice, handler>> /\ customField' = [customField EXCEPT ![f] = 0]
    BY <1>10 DEF removesField
  <2>2. customField'[f] = 0 /\ \A g \in FieldIds \ {f} : customField'[g] = customField[g]
    BY <2>1, TypedNow
  <2>3. Pending({"key", "count"})' = Pending({"key", "count"}) /\ Pending({"count"})' = Pending({"count"})
    BY <2>1 DEF Pending
  <2>4. \A r \in Pending({"count"}) : handler[r].id # 0
    BY DEF Pending, ContactsTyped
  <2>5. QED
    BY <2>1, <2>2, <2>3, <2>4 DEF OneKey
<1>11. QED
  BY <1>2, <1>3, <1>4, <1>5, <1>6, <1>7, <1>8, <1>9, <1>10 DEF ContactsNext

-----------------------------------------------------------------------------
\* The list and its loads stay, and contacts change only while a deletion writes them.
LEMMA ListStays ==
  ASSUME ListFollows, outdated => outdated', UNCHANGED <<groupFilter, list, loads>>,
         ~outdated' => \A q \in Handlers : handler'[q].at # "none" => handler'[q].of = groupFilter,
         ~outdated' => Pending({"strip"}) \subseteq Pending({"strip"})',
         UNCHANGED contactRow \/ Pending({"strip"})' # {} \/ outdated'
  PROVE  ListFollows'
<1>1. UNCHANGED contactRow => InGroup(groupFilter)' = InGroup(groupFilter)
  BY DEF InGroup, There
<1>2. QED
  BY <1>1 DEF ListFollows

\* One handler goes on, for the list of the chosen group.
LEMMA HandlersFollow ==
  ASSUME ContactsTyped, ListFollows, NEW r \in Handlers, NEW h \in HandlerRec, handler' = [handler EXCEPT ![r] = h],
         ~outdated, h.at = "none" \/ h.of = groupFilter
  PROVE  \A q \in Handlers : handler'[q].at # "none" => handler'[q].of = groupFilter
BY HandlerMoves DEF ListFollows

\* Most steps of a handler leave the list alone.
LEMMA ListOfAClick ==
  ASSUME ContactsTyped, ListFollows, NEW r \in Handlers, NEW h \in HandlerRec, handler' = [handler EXCEPT ![r] = h],
         outdated => outdated', UNCHANGED <<groupFilter, list, loads>>,
         h.at = "none" \/ h.of = groupFilter \/ (h.of = handler[r].of /\ handler[r].at # "none"),
         handler[r].at = "strip" => h.at = "strip" \/ outdated',
         UNCHANGED contactRow \/ h.at = "strip" \/ outdated'
  PROVE  ListFollows'
<1>1. handler'[r] = h /\ \A q \in Handlers \ {r} : handler'[q] = handler[q]
  BY HandlerMoves
<1>2. ASSUME ~outdated'
      PROVE  Pending({"strip"}) \subseteq Pending({"strip"})'
  BY <1>1, <1>2 DEF Pending
<1>3. ASSUME ~outdated'
      PROVE  \A q \in Handlers : handler'[q].at # "none" => handler'[q].of = groupFilter
  <2>1. h.at = "none" \/ h.of = groupFilter
    BY <1>3 DEF ListFollows
  <2>2. QED
    BY <1>3, <2>1, HandlersFollow
<1>4. h.at = "strip" => Pending({"strip"})' # {}
  BY <1>1 DEF Pending
<1>5. QED
  BY <1>2, <1>3, <1>4, ListStays

\* A load more, of the chosen group.
LEMMA ListReloads ==
  ASSUME ContactsTyped, ListFollows, UNCHANGED groupFilter, outdated => outdated', loadList(groupFilter),
         ~outdated' => \A q \in Handlers : handler'[q].at # "none" => handler'[q].of = groupFilter
  PROVE  ListFollows'
<1>1. groupFilter \in Filters
  BY TypedNow
<1>2. /\ Len(loads') = Len(loads) + 1 /\ Len(loads) \in Nat
      /\ DOMAIN loads' = 1..Len(loads) + 1 /\ DOMAIN loads = 1..Len(loads)
      /\ loads'[Len(loads) + 1] = [of |-> groupFilter, read |-> FALSE, found |-> {}]
      /\ \A i \in 1..Len(loads) : loads'[i] = loads[i]
  BY <1>1, LoadAsked
<1>3. ASSUME ~outdated, NEW i \in DOMAIN loads'
      PROVE  loads'[i].of = groupFilter
  BY <1>2, <1>3 DEF ListFollows
<1>4. loads' # <<>> /\ (Len(loads') = 1 => ~loads'[1].read)
  BY <1>2
<1>5. QED
  BY <1>3, <1>4 DEF ListFollows

LEMMA ListKept == ContactsTyped /\ ListFollows /\ ContactsNext => ListFollows'
<1> SUFFICES ASSUME ContactsTyped, ListFollows, ContactsNext
             PROVE  ListFollows'
  OBVIOUS
<1>1. Done \in HandlerRec /\ Done.at = "none" /\ groupFilter \in Filters
  BY RequestTypes DEF Done
<1>2. loads \in Seq(LoadRec) /\ Len(loads) \in Nat /\ DOMAIN loads = 1..Len(loads) /\ \A i \in DOMAIN loads : loads[i] \in LoadRec
  BY TypedNow, LenProperties, ElementOfSeq
<1>3. ASSUME NEW f \in Filters, setGroupFilter(f)
      PROVE  ListFollows'
  <2>1. /\ groupFilter' = f /\ loadList(f) /\ UNCHANGED handler
        /\ outdated' = (loads # <<>> \/ \E r \in Handlers : handler[r].at # "none")
    BY <1>3 DEF setGroupFilter
  <2>2. ~outdated' => loads = <<>> /\ \A r \in Handlers : handler[r].at = "none"
    BY <2>1, Zenon
  <2>3. /\ Len(loads') = Len(loads) + 1 /\ DOMAIN loads' = 1..Len(loads) + 1
        /\ loads'[Len(loads) + 1] = [of |-> f, read |-> FALSE, found |-> {}]
    BY <2>1, LoadAsked
  <2>4. loads = <<>> => Len(loads) = 0
    OBVIOUS
  <2>5. ~outdated' => /\ loads' # <<>> /\ Len(loads') = 1 /\ ~loads'[1].read /\ \A i \in DOMAIN loads' : loads'[i].of = f
    BY <2>2, <2>3, <2>4
  <2>6. QED
    BY <2>1, <2>2, <2>5 DEF ListFollows
<1>4. ASSUME NEW i \in DOMAIN loads, listReads(i)
      PROVE  ListFollows'
  <2>1. /\ loads' = [loads EXCEPT ![i] = [loads[i] EXCEPT !.read = TRUE, !.found = InGroup(loads[i].of)]]
        /\ UNCHANGED <<contactRow, handler, groupFilter, list, outdated>>
    BY <1>4 DEF listReads, contactsDb
  <2>2. PICK e : e = [loads[i] EXCEPT !.read = TRUE, !.found = InGroup(loads[i].of)]
    OBVIOUS
  <2>3. e.of = loads[i].of /\ e.found = InGroup(loads[i].of)
    BY <1>2, <2>2 DEF LoadRec
  <2>4. /\ DOMAIN loads' = DOMAIN loads /\ loads'[i] = e /\ \A j \in DOMAIN loads \ {i} : loads'[j] = loads[j]
        /\ Len(loads') = Len(loads) /\ loads' # <<>>
    <3>1. loads' = [loads EXCEPT ![i] = e]
      BY <2>1, <2>2
    <3>2. DOMAIN loads' = DOMAIN loads /\ loads'[i] = e /\ \A j \in DOMAIN loads \ {i} : loads'[j] = loads[j]
      BY <3>1
    <3>3. loads' \in [1..Len(loads) -> LoadRec]
      <4>1. PICK fs \in MemberRows : fs = InGroup(loads[i].of)
        BY RequestTypes
      <4>2. e \in LoadRec
        BY <1>2, <2>2, <4>1 DEF LoadRec
      <4>3. QED
        BY <1>2, <3>1, <4>2
    <3>4. Len(loads') = Len(loads) /\ loads' \in Seq(LoadRec)
      BY <1>2, <3>3, SeqOfFunction
    <3>5. QED
      BY <3>2, <3>4
  <2>5. InGroup(groupFilter)' = InGroup(groupFilter) /\ Pending({"strip"})' = Pending({"strip"})
    BY <2>1 DEF InGroup, There, Pending
  <2>6. ASSUME ~outdated
        PROVE  /\ \A j \in DOMAIN loads' : loads'[j].of = groupFilter
               /\ Len(loads') = 1 => loads'[1].found = InGroup(groupFilter)
    <3>1. \A j \in DOMAIN loads : loads[j].of = groupFilter
      BY <2>6 DEF ListFollows
    <3>2. Len(loads) = 1 => i = 1
      BY <1>2
    <3>3. QED
      BY <2>3, <2>4, <3>1, <3>2
  <2>7. QED
    BY <2>1, <2>4, <2>5, <2>6 DEF ListFollows
<1>5. ASSUME NEW i \in DOMAIN loads, NEW fails \in BOOLEAN, listArrives(i, fails)
      PROVE  ListFollows'
  <2>1. /\ loads[i].read /\ list' = (IF fails THEN {} ELSE loads[i].found) /\ loads' = RemoveAt(loads, i)
        /\ outdated' = (outdated \/ fails \/ Len(loads) > 1)
        /\ UNCHANGED <<contactRow, handler, groupFilter>>
    BY <1>5 DEF listArrives, contactsDb
  <2>2. ~outdated' => ~outdated /\ ~fails /\ ~(Len(loads) > 1)
    BY <2>1, Zenon
  <2>3. loads' \in Seq(LoadRec) /\ Len(loads') = Len(loads) - 1
    BY <1>2, <2>1, LoadArrives
  <2>4. ASSUME ~outdated'
        PROVE  i = 1 /\ Len(loads) = 1 /\ Len(loads') = 0 /\ DOMAIN loads' = {} /\ list' = loads[1].found
    <3>1. i = 1 /\ Len(loads) = 1
      BY <1>2, <2>2, <2>4
    <3>2. Len(loads') = 0 /\ DOMAIN loads' = {}
      BY <2>3, <3>1, LenProperties
    <3>3. QED
      BY <2>1, <2>2, <2>4, <3>1, <3>2
  <2>5. InGroup(groupFilter)' = InGroup(groupFilter) /\ Pending({"strip"})' = Pending({"strip"})
    BY <2>1 DEF InGroup, There, Pending
  <2>6. QED
    BY <2>1, <2>2, <2>4, <2>5 DEF ListFollows
<1>6. ASSUME \/ opensDrawer
             \/ \E g \in GroupIds : toggleGroupOnContact(g) \/ addGroup(g)
             \/ \E f \in FieldIds : removesField(f)
      PROVE  ListFollows'
  <2>1. UNCHANGED <<contactRow, handler, groupFilter, list, loads, outdated>>
    BY <1>6 DEF opensDrawer, toggleGroupOnContact, addGroup, removesField, contactsDb, contactsPage
  <2>2. Pending({"strip"})' = Pending({"strip"})
    BY <2>1 DEF Pending
  <2>3. ~outdated' => \A q \in Handlers : handler'[q].at # "none" => handler'[q].of = groupFilter
    BY <2>1 DEF ListFollows
  <2>4. QED
    BY <2>1, <2>2, <2>3, ListStays
<1>7. ASSUME NEW r \in Handlers,
             \/ saveEditing(r) \/ addField(r)
             \/ \E c \in ContactIds : remove(r, c)
             \/ \E extra \in SUBSET GroupIds : doImport(r, extra)
      PROVE  ListFollows'
  <2>1. UNCHANGED <<contactRow, groupFilter, list, loads, outdated>>
    BY <1>7 DEF saveEditing, addField, remove, doImport, contactsDb, contactsPage
  <2>2. PICK h \in HandlerRec : handler' = [handler EXCEPT ![r] = h] /\ handler[r].at = "none" /\ h.of = groupFilter
    BY <1>7, HandlerSteps
  <2>3. QED
    BY <2>1, <2>2, ListOfAClick
<1>8. ASSUME NEW r \in Handlers, NEW g \in GroupIds, deleteGroup(r, g)
      PROVE  ListFollows'
  <2>1. UNCHANGED <<contactRow, list>> /\ (outdated' \/ UNCHANGED <<groupFilter, loads, outdated>>)
    BY <1>8 DEF deleteGroup, contactsDb
  <2>2. PICK h \in HandlerRec : handler' = [handler EXCEPT ![r] = h] /\ handler[r].at = "none" /\ h.of = groupFilter
    BY <1>8, HandlerSteps
  <2>3. CASE outdated'
    BY <2>3 DEF ListFollows
  <2>4. CASE UNCHANGED <<groupFilter, loads, outdated>>
    BY <2>1, <2>2, <2>4, ListOfAClick
  <2>5. QED
    BY <2>1, <2>3, <2>4
<1>9. ASSUME NEW r \in Handlers, saves(r) \/ removes(r) \/ inserts(r) \/ dropsGroup(r)
      PROVE  ListFollows'
  <2>1. /\ handler[r].at # "none" /\ UNCHANGED <<groupFilter, outdated>> /\ handler' = [handler EXCEPT ![r] = Done]
        /\ loadList(handler[r].of)
    BY <1>9 DEF saves, removes, inserts, dropsGroup, ThenLoads
  <2>2. CASE outdated
    BY <2>1, <2>2 DEF ListFollows
  <2>3. CASE ~outdated
    <3>1. loadList(groupFilter)
      BY <2>1, <2>3 DEF ListFollows
    <3>2. \A q \in Handlers : handler'[q].at # "none" => handler'[q].of = groupFilter
      BY <1>1, <2>1, <2>3, HandlersFollow
    <3>3. QED
      BY <2>1, <3>1, <3>2, ListReloads
  <2>4. QED
    BY <2>2, <2>3
<1>10. ASSUME NEW r \in Handlers, readsMembers(r) \/ readsNames(r) \/ findsKey(r) \/ \E g \in GroupIds : createsGroup(r, g)
       PROVE  ListFollows'
  <2>1. UNCHANGED <<contactRow, groupFilter, list, loads, outdated>>
    BY <1>10 DEF readsMembers, readsNames, findsKey, createsGroup, contactsDb, contactsPage
  <2>2. \E h \in HandlerRec : /\ handler' = [handler EXCEPT ![r] = h] /\ h.of = handler[r].of
                              /\ handler[r].at \in {"members", "names", "key", "create"}
    <3>1. CASE readsMembers(r) \/ readsNames(r) \/ findsKey(r)
      BY <3>1, RequestSteps
    <3>2. CASE \E g \in GroupIds : createsGroup(r, g)
      BY <3>2, RequestSteps
    <3>3. QED
      BY <1>10, <3>1, <3>2
  <2>3. QED
    BY <2>1, <2>2, ListOfAClick
<1>11. ASSUME NEW r \in Handlers, stripsMember(r)
       PROVE  ListFollows'
  <2>1. UNCHANGED <<groupFilter, list, loads>> /\ outdated' = (outdated \/ handler'[r] = Done) /\ handler[r].at = "strip"
    BY <1>11 DEF stripsMember, contactsPage
  <2>2. outdated => outdated'
    BY <2>1
  <2>3. \E h \in HandlerRec : /\ handler' = [handler EXCEPT ![r] = h]
                              /\ (h.at = "strip" /\ h.of = handler[r].of) \/ (h.at = "none" /\ outdated')
    BY <1>1, <1>11, RequestSteps
  <2>4. QED
    BY <2>1, <2>2, <2>3, ListOfAClick
<1>12. ASSUME NEW r \in Handlers, HandlerFails(r) \/ \E f \in FieldIds : createsField(r, f)
       PROVE  ListFollows'
  <2>1. /\ handler' = [handler EXCEPT ![r] = Done] /\ UNCHANGED <<contactRow, groupFilter, list, loads>>
        /\ outdated' = (outdated \/ handler[r].at = "strip") \/ (handler[r].at = "count" /\ UNCHANGED outdated)
    BY <1>12 DEF HandlerFails, createsField, contactsDb, contactsPage
  <2>2. (outdated => outdated') /\ (handler[r].at = "strip" => outdated')
    <3>1. CASE outdated' = (outdated \/ handler[r].at = "strip")
      BY <3>1
    <3>2. CASE handler[r].at = "count" /\ UNCHANGED outdated
      BY <3>2
    <3>3. QED
      BY <2>1, <3>1, <3>2
  <2>3. QED
    BY <1>1, <2>1, <2>2, ListOfAClick
<1>13. QED
  BY <1>3, <1>4, <1>5, <1>6, <1>7, <1>8, <1>9, <1>10, <1>11, <1>12 DEF ContactsNext

-----------------------------------------------------------------------------
LEMMA ContactsStart == ContactsInit => ContactsInv
<1> SUFFICES ASSUME ContactsInit
             PROVE  ContactsInv
  OBVIOUS
<1>1. /\ contactGroup = [there |-> {}, made |-> {}] /\ contactRow = [c \in ContactIds |-> Absent]
      /\ customField = [f \in FieldIds |-> 0] /\ handler = [r \in Handlers |-> Done]
      /\ groupFilter = AllOfThem /\ list = {} /\ loads = <<>> /\ editing = NoDrawer
      /\ acts = 0 /\ touched = {} /\ twice = FALSE /\ outdated = FALSE
  BY DEF ContactsInit
<1>2. Exists = {} /\ There = {} /\ \A kinds : "none" \notin kinds => Pending(kinds) = {}
  BY <1>1 DEF Exists, There, Absent, Pending, Done
<1>3. ContactsTyped
  <2>1. Done \in HandlerRec /\ Done.at = "none" /\ NoDrawer \in DrawerRec /\ AllOfThem \in Filters
    BY DEF Done, NoDrawer, HandlerRec, DrawerRec, Filters, MemberRows
  <2>2. contactRow \in [ContactIds -> [there : BOOLEAN, groups : SUBSET GroupIds]]
    BY <1>1 DEF Absent
  <2>3. loads \in Seq(LoadRec) /\ Len(loads) <= MaxPages /\ acts \in 0..MaxActs
    BY <1>1, EmptySeq, ContactsAssumption
  <2>4. customField \in [FieldIds -> 0..Cardinality(FieldIds)]
    BY <1>1, ContactsAssumption, FS_CardinalityType
  <2>5. contactGroup \in [there : SUBSET GroupIds, made : SUBSET GroupIds] /\ list \in MemberRows
    BY <1>1 DEF MemberRows
  <2>6. QED
    BY <1>1, <1>2, <2>1, <2>2, <2>3, <2>4, <2>5 DEF ContactsTyped
<1>4. NamesAreSafe
  <2>1. Named = {} /\ Deleting = {}
    BY <1>1, <1>2 DEF Named, Deleting, NoDrawer
  <2>2. QED
    BY <2>1 DEF NamesAreSafe
<1>5. RowsInGroups /\ OneName /\ OneKey
  BY <1>1, <1>2 DEF RowsInGroups, OneName, OneKey
<1>6. ListFollows
  BY <1>1, <1>2 DEF ListFollows, InGroup, Done
<1>7. QED
  BY <1>3, <1>4, <1>5, <1>6 DEF ContactsInv

LEMMA ContactsInvStep == ContactsInv /\ [ContactsNext]_contactsVars => ContactsInv'
<1> SUFFICES ASSUME ContactsInv, [ContactsNext]_contactsVars
             PROVE  ContactsInv'
  OBVIOUS
<1>1. CASE ContactsNext
  <2>1. ContactsTyped'
    BY <1>1, ClicksTyped, RequestsTyped DEF ContactsNext, ContactsInv
  <2>2. QED
    BY <1>1, <2>1, NamesKept, RowsKept, OneNameKept, OneKeyKept, ListKept DEF ContactsInv
<1>2. CASE UNCHANGED contactsVars
  BY <1>2 DEF contactsVars, contactsDb, contactsPage, ContactsInv, ContactsTyped, NamesAreSafe, RowsInGroups, OneName, OneKey,
     ListFollows, Exists, There, Pending, Named, Deleting, InGroup
<1>3. QED
  BY <1>1, <1>2

LEMMA ContactsInvariant == ContactsSpec => []ContactsInv
BY ContactsStart, ContactsInvStep, PTL DEF ContactsSpec

\* Contacts, groups, fields, and the page's handlers and loads keep their types.
THEOREM ContactsTypeCorrect == ContactsSpec => []ContactsTypeOK
<1>1. ContactsInv => ContactsTypeOK
  BY DEF ContactsInv, ContactsTyped, ContactsTypeOK, HandlerRec, DrawerRec, MemberRows
<1>2. QED
  BY <1>1, ContactsInvariant, PTL

\* For any groups, contacts, fields and handlers: no contact is in a group that is gone, a
\* file makes its group once and a field's key is its own, and the page at rest shows the
\* chosen group as it is, but for the overlaps that the invariant names.
THEOREM ContactsStayWhole == ContactsSpec => []ContactsKept
<1>1. ContactsInv => ContactsKept
  <2> SUFFICES ASSUME ContactsInv
               PROVE  ContactsKept
    OBVIOUS
  <2>1. twice \/ Cardinality(Exists) <= 1
    <3>1. CASE ~twice /\ Exists = {}
      BY <3>1, FS_EmptySet
    <3>2. CASE ~twice /\ Exists # {}
      <4>1. PICK g \in Exists : Exists = {g}
        BY <3>2 DEF ContactsInv, OneName
      <4>2. QED
        BY <4>1, FS_Singleton
    <3>3. QED
      BY <3>1, <3>2
  <2>2. ASSUME loads = <<>>, \A r \in Handlers : handler[r].at = "none", ~outdated
        PROVE  list = InGroup(groupFilter)
    <3>1. Pending({"strip"}) = {}
      BY <2>2 DEF Pending
    <3>2. QED
      BY <2>2, <3>1 DEF ContactsInv, ListFollows
  <2>3. QED
    BY <2>1, <2>2 DEF ContactsInv, ContactsKept, RowsInGroups, OneKey
<1>2. QED
  BY <1>1, ContactsInvariant, PTL
=============================================================================
