---------------------------- MODULE Notifications ----------------------------
(***************************************************************************)
(* The bell of the top bar (components/Notifications.tsx).  Notifications  *)
(* have no feed of their own: every 45 seconds the bell asks four sources  *)
(* for what they hold now, each with a request that is answered, or fails, *)
(* on its own, and shows what came of them together.  Which ones are read  *)
(* is a list of their ids, which each tab keeps and writes to              *)
(* localStorage, over what another tab may have written there.             *)
(*                                                                         *)
(* Abstracted: of the rows of a source, those that make a notification     *)
(* (its id is the source, the row and the kind); how many rows of each     *)
(* source are looked at; the times, so that any of the notifications may   *)
(* be the latest; the popover, which only shows them; a browser whose      *)
(* storage cannot be read or written.  What happens in the company and the *)
(* failures are bounded by MaxMoments together.                            *)
(***************************************************************************)
EXTENDS Integers, Sequences, FiniteSets

CONSTANTS
  Rows,       \* rows a source may have
  Tabs,       \* tabs of the browser
  Profiles,   \* sets of sources a profile may give access to
  Loads,      \* loads of a tab, past or under way
  MaxNotes,   \* how many notifications are shown (12 in the code)
  MaxRead,    \* how many ids are stored (300)
  MaxMoments,
  NoTab

VARIABLES
  facts,      \* the server: the notifications its rows would make now
  granted,    \* the sources the profile gives access to
  stored,     \* localStorage's nt_read_notifications
  bell,       \* the tabs whose bell is mounted
  notes, read, \* what each has: the notifications and the ids read
  loads,      \* collect under way
  moments,
  writer,     \* auxiliary: the tab whose list is what is stored
  upToDate    \* auxiliary: nothing has happened, or failed, since the load a tab shows began

bellVars == <<facts, granted, stored, bell, notes, read, loads, moments, writer, upToDate>>

Kind ==
  [logs |-> {"missed"}, queues |-> {"busy", "overloaded"}, campaigns |-> {"goal", "paused", "abandoned"},
   invoices |-> {"open"}]
Sources == DOMAIN Kind
Notes   == UNION {[source : {s}, row : Rows, kind : Kind[s]] : s \in Sources}

ASSUME NotificationsAssumption ==
  /\ IsFiniteSet(Rows) /\ Profiles \subseteq SUBSET Sources /\ NoTab \notin Tabs
  /\ MaxNotes \in Nat /\ MaxRead \in Nat /\ MaxMoments \in Nat

Of(S, s) == {n \in S : n.source = s}

\* A queue is either busy or overloaded, a campaign that is paused is not ahead of its target.
Exclude(n, m) == n.kind # m.kind /\ ({n.kind, m.kind} = Kind.queues \/ {n.kind, m.kind} = {"goal", "paused"})
Possible(S)   == \A n, m \in S : n.row = m.row => ~Exclude(n, m)

NoLoad == [tab |-> NoTab, left |-> {}, got |-> {}, upToDate |-> FALSE]

BellTypeOK ==
  /\ facts \subseteq Notes /\ granted \in Profiles
  /\ stored \in Seq(Notes) /\ Len(stored) <= MaxRead
  /\ bell \subseteq Tabs
  /\ notes \in [Tabs -> SUBSET Notes] /\ read \in [Tabs -> Seq(Notes)]
  /\ loads \in [Loads -> [tab : Tabs \cup {NoTab}, left : SUBSET Sources, got : SUBSET Notes, upToDate : BOOLEAN]]
  /\ moments \in 0..MaxMoments
  /\ writer \in Tabs \cup {NoTab} /\ upToDate \in [Tabs -> BOOLEAN]

BellInit ==
  /\ facts = {} /\ granted \in Profiles /\ stored = <<>>
  /\ bell = {} /\ notes = [t \in Tabs |-> {}] /\ read = [t \in Tabs |-> <<>>]
  /\ loads = [k \in Loads |-> NoLoad] /\ moments = 0
  /\ writer = NoTab /\ upToDate = [t \in Tabs |-> FALSE]

Moment == moments < MaxMoments /\ moments' = moments + 1

-----------------------------------------------------------------------------
(* The company *)

\* Whatever is under way or shown may be out of date.
Outdated ==
  /\ loads' = [k \in Loads |-> [loads[k] EXCEPT !.upToDate = FALSE]]
  /\ upToDate' = [t \in Tabs |-> FALSE]
  /\ UNCHANGED <<stored, bell, notes, read, writer>>

\* A row comes or changes: a call is missed, which remains so; a queue fills, a campaign is
\* paused, an invoice paid.
RowChanges(s, r) ==
  /\ Moment
  /\ \E S \in SUBSET Of(Notes, s) :
       /\ \A n \in S : n.row = r
       /\ Possible(S) /\ (s = "logs" => S # {})
       /\ facts' = {n \in facts : ~(n.source = s /\ n.row = r)} \cup S
  /\ Outdated /\ UNCHANGED granted

\* The profile is refreshed with other permissions.
GrantsChange ==
  /\ Moment /\ granted' \in Profiles
  /\ Outdated /\ UNCHANGED facts

-----------------------------------------------------------------------------
(* collect *)

\* A request for each source the profile has access to when the load begins.
collect(k, t) ==
  /\ loads[k] = NoLoad
  /\ loads' = [loads EXCEPT ![k] = [tab |-> t, left |-> granted, got |-> {}, upToDate |-> TRUE]]

SourceAnswers(k, s) ==
  /\ s \in loads[k].left
  /\ loads' = [loads EXCEPT ![k] = [loads[k] EXCEPT !.left = loads[k].left \ {s}, !.got = loads[k].got \cup Of(facts, s)]]
  /\ UNCHANGED <<facts, granted, stored, bell, notes, read, moments, writer, upToDate>>

\* A request that fails counts as one that found nothing.
SourceFails(k, s) ==
  /\ Moment /\ s \in loads[k].left
  /\ loads' = [loads EXCEPT ![k] = [loads[k] EXCEPT !.left = loads[k].left \ {s}, !.upToDate = FALSE]]
  /\ UNCHANGED <<facts, granted, stored, bell, notes, read, writer, upToDate>>

\* The latest ones, as many as are shown.
Newest(S) == {T \in SUBSET S : Cardinality(T) = IF Cardinality(S) <= MaxNotes THEN Cardinality(S) ELSE MaxNotes}

\* Mutant: what came is added to what is there.
addNotes(t, S) == notes' = [notes EXCEPT ![t] = notes[t] \cup S]

setNotes(t, S) == notes' = [notes EXCEPT ![t] = S]

\* The last answer is there.
Loaded(k) ==
  LET t == loads[k].tab IN
  /\ t # NoTab /\ loads[k].left = {}
  /\ \E S \in Newest(loads[k].got) : setNotes(t, S)
  /\ upToDate' = [upToDate EXCEPT ![t] = loads[k].upToDate]
  /\ loads' = [loads EXCEPT ![k] = NoLoad]
  /\ UNCHANGED <<facts, granted, stored, bell, read, moments, writer>>

-----------------------------------------------------------------------------
(* A tab's bell *)

\* The top bar mounts: what is stored is read, and a first load begins.
BellMounts(t, k) ==
  /\ t \notin bell /\ bell' = bell \cup {t}
  /\ notes' = [notes EXCEPT ![t] = {}] /\ read' = [read EXCEPT ![t] = stored]
  /\ upToDate' = [upToDate EXCEPT ![t] = FALSE]
  /\ collect(k, t)
  /\ UNCHANGED <<facts, granted, stored, moments, writer>>

\* It is gone: the timer stops, and answers still to come are dropped.
BellUnmounts(t) ==
  /\ t \in bell /\ bell' = bell \ {t}
  /\ loads' = [k \in Loads |-> IF loads[k].tab = t THEN NoLoad ELSE loads[k]]
  /\ UNCHANGED <<facts, granted, stored, notes, read, moments, writer, upToDate>>

\* The timer does not wait for the load before.
Refetches(t, k) ==
  /\ t \in bell /\ collect(k, t)
  /\ UNCHANGED <<facts, granted, stored, bell, notes, read, moments, writer, upToDate>>

ReadBy(t) == {read[t][i] : i \in DOMAIN read[t]}
unread(t) == notes[t] \ ReadBy(t)

\* The ids in any order, each once; the last of a list.
InOrder(S) == {s \in [1..Cardinality(S) -> S] : \A i, j \in 1..Cardinality(S) : s[i] = s[j] => i = j}
LastOf(s)  == IF Len(s) <= MaxRead THEN s ELSE SubSeq(s, Len(s) - MaxRead + 1, Len(s))

\* The tab's list goes to localStorage, whatever another tab has stored.
persist(t, ids) ==
  /\ read' = [read EXCEPT ![t] = ids]
  /\ stored' = LastOf(ids)
  /\ writer' = t

markAll(t) ==
  /\ t \in bell /\ unread(t) # {}
  /\ \E s \in InOrder(unread(t)) : persist(t, read[t] \o s)
  /\ UNCHANGED <<facts, granted, bell, notes, loads, moments, upToDate>>

\* A notification is read, and its page opens.
openNote(t, n) ==
  /\ t \in bell /\ n \in notes[t]
  /\ persist(t, IF n \in unread(t) THEN Append(read[t], n) ELSE read[t])
  /\ UNCHANGED <<facts, granted, bell, notes, loads, moments, upToDate>>

BellNext ==
  \/ \E s \in Sources, r \in Rows : RowChanges(s, r)
  \/ GrantsChange
  \/ \E k \in Loads : Loaded(k) \/ \E s \in Sources : SourceAnswers(k, s) \/ SourceFails(k, s)
  \/ \E t \in Tabs : \/ \E k \in Loads : BellMounts(t, k) \/ Refetches(t, k)
                     \/ BellUnmounts(t) \/ markAll(t)
                     \/ \E n \in Notes : openNote(t, n)

BellSpec == BellInit /\ [][BellNext]_bellVars

-----------------------------------------------------------------------------
\* However loads overlap and sources fail, a bell never says of a queue that it is both busy
\* and overloaded, nor of a campaign that it is paused and ahead of its target.
NoContradiction == \A t \in Tabs : Possible(notes[t])

\* Until something happens, what the last load brought, if none of its requests failed, is
\* what the sources of the profile hold, the latest of it if that is too much.
BellIsCurrent ==
  \A t \in Tabs : t \in bell /\ upToDate[t] => notes[t] \in Newest({n \in facts : n.source \in granted})

\* Until another tab writes, the newest of what a tab has marked read is what a reload finds.
MarksAreStored == \A t \in Tabs : t \in bell /\ writer = t => stored = LastOf(read[t])

\* The bell tells what there is, once, and remembers what was read.
BellIsTrue == NoContradiction /\ BellIsCurrent /\ MarksAreStored
=============================================================================
