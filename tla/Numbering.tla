----------------------------- MODULE Numbering ------------------------------
(***************************************************************************)
(* The numbers of one tenant and their way into FreeSWITCH: accounts with  *)
(* their extension (accounts.module), queues that pick a free number       *)
(* (queues.controller), plain creates and deletes of PBX rows (pbx.module),*)
(* and the sync each of them ends with, which reads every table, writes    *)
(* the files and reloads (pbx.service, fs-provisioning.service).           *)
(*                                                                         *)
(* Two of the number-bearing tables stand for all: extensions, and queues. *)
(* On a box of its own (remote) FreeSWITCH pulls them over xml_curl, and   *)
(* the sync only pushes the gateways.                                      *)
(***************************************************************************)
EXTENDS Integers, FiniteSets

CONSTANTS
  Jobs,       \* requests
  Staff,      \* accounts
  LastNumber, \* numbers are 1..LastNumber
  FirstQueue, \* the first number queues are given (3000)
  MaxOutages, \* bound on failing calls
  Settled,    \* the account, if any, that exists from the start, with extension 1
  NoAccount

ASSUME NumberingAssumption ==
  /\ IsFiniteSet(Jobs) /\ LastNumber \in Nat /\ FirstQueue \in 1..LastNumber
  /\ MaxOutages \in Nat /\ NoAccount \notin Staff /\ Settled \subseteq Staff /\ \A a, b \in Settled : a = b

Numbers      == 1..LastNumber
QueueNumbers == FirstQueue..LastNumber

VARIABLES
  job,       \* each request: its kind, its account and numbers, and its next await
  snapshot,  \* what each request's sync has read
  extension, \* the numbers of the extension rows
  queue,     \* the numbers of the queue rows
  account,   \* each account's agentExtension, 0 before it exists
  file,      \* what the files of the configuration directory hold
  live,      \* what FreeSWITCH runs with
  outages,   \* calls that have failed
  doubtful,  \* auxiliary: accounts and numbers a race, an outage or a delete has touched
  overtaken  \* auxiliary: an outage, or two syncs at a time

rowVars   == <<extension, queue, account>>
fsVars    == <<file, live>>
numberingVars == <<job, snapshot, rowVars, fsVars, outages, doubtful, overtaken>>

Kinds  == {"create", "update", "addQueue", "remove", "none"}
Unread == {0}                            \* a table not read yet
Rows   == [extension : (SUBSET Numbers) \cup {Unread}, queue : (SUBSET Numbers) \cup {Unread}]
Idle   == [kind |-> "none", at |-> "idle", who |-> NoAccount, number |-> 0, old |-> 0]
NotRead == [extension |-> Unread, queue |-> Unread]

NumberingTypeOK ==
  /\ job \in [Jobs -> [kind : Kinds,
                       at : {"idle", "check", "account", "row", "move", "link", "read", "load",
                             "users", "queues", "reload", "done"},
                       who : Staff \cup {NoAccount}, number : 0..LastNumber, old : 0..LastNumber]]
  /\ snapshot \in [Jobs -> Rows]
  /\ extension \subseteq Numbers /\ queue \subseteq Numbers
  /\ account \in [Staff -> 0..LastNumber]
  /\ file \in Rows /\ live \in Rows
  /\ outages \in 0..MaxOutages
  /\ doubtful \subseteq Staff \cup Numbers \cup {NoAccount}
  /\ overtaken \in BOOLEAN

NumberingInit ==
  /\ job = [j \in Jobs |-> Idle]
  /\ snapshot = [j \in Jobs |-> NotRead]
  /\ extension = (IF Settled = {} THEN {} ELSE {1}) /\ queue = {}
  /\ account = [a \in Staff |-> IF a \in Settled THEN 1 ELSE 0]
  /\ file = [extension |-> extension, queue |-> {}] /\ live = file
  /\ outages = 0
  /\ doubtful = {}
  /\ overtaken = FALSE

-----------------------------------------------------------------------------
At(j, k, s)  == job[j].kind = k /\ job[j].at = s
Go(j, s)     == job' = [job EXCEPT ![j].at = s]
Ends(j)      == job' = [job EXCEPT ![j] = [Idle EXCEPT !.at = "done"]]
Syncing(j)   == job[j].at \in {"load", "users", "queues", "reload"}
\* Requests on their way to give an account, or its extension row, the number n.
Taking(n)    == {j \in Jobs : job[j].kind \in {"create", "update"} /\ job[j].number = n
                           /\ job[j].at \in {"account", "row", "move", "link"}}
\* The number n, when a queue is about to be created with it.
AboutToQueue(n) == {m \in {n} : \E j \in Jobs : At(j, "addQueue", "row") /\ job[j].number = m}
Holders(n)   == {a \in Staff : account[a] = n}
TouchedBy(n) == Holders(n) \cup {job[j].who : j \in Taking(n)}

\* A sync starts: safeSync is not awaited by the account requests, and by the others
\* only after their row is written.
GoSync(j)  == /\ Go(j, "load")
              /\ overtaken' = (overtaken \/ \E i \in Jobs \ {j} : Syncing(i))

\* POST /accounts: the number has 3 to 6 digits and no extension row.
AccountCreateArrives(j, a, n) ==
  /\ job[j] = Idle /\ account[a] = 0 /\ \A i \in Jobs : job[i].who # a
  /\ job' = [job EXCEPT ![j] = [kind |-> "create", at |-> "check", who |-> a, number |-> n, old |-> 0]]
  /\ UNCHANGED <<snapshot, rowVars, fsVars, outages, doubtful, overtaken>>

\* PATCH /accounts/:id with a new extension; the account is read first.
AccountUpdateArrives(j, a, n) ==
  /\ job[j] = Idle /\ account[a] \notin {0, n}
  /\ job' = [job EXCEPT ![j] = [kind |-> "update", at |-> "check", who |-> a, number |-> n,
                                old |-> account[a]]]
  /\ doubtful' = IF \E i \in Jobs : job[i].who = a THEN doubtful \cup {a} ELSE doubtful
  /\ UNCHANGED <<snapshot, rowVars, fsVars, outages, overtaken>>

\* Mutant: an update does not look for a clash.
ChecksExtensionOnCreate(j) ==
  /\ job[j].at = "check"
  /\ IF job[j].number \in extension /\ job[j].kind = "create" THEN Ends(j)
     ELSE Go(j, IF job[j].kind = "create" THEN "account" ELSE "move")
  /\ UNCHANGED <<snapshot, rowVars, fsVars, outages, doubtful, overtaken>>

\* extTaken and clash: a number with a row is refused.
ChecksExtension(j) ==
  /\ job[j].at = "check"
  /\ LET n == job[j].number IN
       IF n \in extension THEN Ends(j) /\ UNCHANGED doubtful
       ELSE /\ Go(j, IF job[j].kind = "create" THEN "account" ELSE "move")
            /\ doubtful' = IF Taking(n) = {} THEN doubtful
                           ELSE doubtful \cup {job[j].who} \cup {job[i].who : i \in Taking(n)}
  /\ UNCHANGED <<snapshot, rowVars, fsVars, outages, overtaken>>

CreatesAccount(j) ==
  /\ At(j, "create", "account")
  /\ account' = [account EXCEPT ![job[j].who] = job[j].number]
  /\ Go(j, "row")
  /\ UNCHANGED <<snapshot, extension, queue, fsVars, outages, doubtful, overtaken>>

\* extension.create, of which the database takes one per number; the account written
\* before it stays when it fails.
CreatesExtension(j) ==
  /\ At(j, "create", "row")
  /\ IF job[j].number \in extension
     THEN Ends(j) /\ UNCHANGED <<extension, overtaken>>
     ELSE extension' = extension \cup {job[j].number} /\ GoSync(j)
  /\ doubtful' = doubtful \cup AboutToQueue(job[j].number)
  /\ UNCHANGED <<snapshot, queue, account, fsVars, outages>>

\* The row of the old number is moved to the new one; without one, a row is created.
MovesExtension(j) ==
  /\ At(j, "update", "move")
  /\ IF job[j].number \in extension
     THEN Ends(j) /\ UNCHANGED extension
     ELSE /\ extension' = (extension \ {job[j].old}) \cup {job[j].number}
          /\ Go(j, "link")
  \* the row may be one that a doubtful account shares with another
  /\ doubtful' = doubtful \cup AboutToQueue(job[j].number)
                         \cup IF job[j].who \in doubtful THEN TouchedBy(job[j].old) ELSE {}
  /\ UNCHANGED <<snapshot, queue, account, fsVars, outages, overtaken>>

\* account.update comes last.
LinksAccount(j) ==
  /\ At(j, "update", "link")
  /\ account' = [account EXCEPT ![job[j].who] = job[j].number]
  /\ GoSync(j)
  /\ UNCHANGED <<snapshot, extension, queue, fsVars, outages, doubtful>>

\* A rejected call ends a request after what it has already written.
RequestFails(j) ==
  /\ job[j].at \in {"account", "row", "move", "link"}
  /\ outages < MaxOutages /\ outages' = outages + 1
  /\ Ends(j)
  /\ doubtful' = doubtful \cup {job[j].who}
  /\ overtaken' = (overtaken \/ job[j].at = "link")  \* the moved row is not synced
  /\ UNCHANGED <<snapshot, rowVars, fsVars>>

\* DELETE of an extension or queue row: deleteMany, then the sync.
RemovesRow(j, n) ==
  /\ job[j] = Idle
  /\ \/ n \in extension /\ extension' = extension \ {n} /\ UNCHANGED queue
     \/ n \in queue /\ queue' = queue \ {n} /\ UNCHANGED extension
  /\ job' = [job EXCEPT ![j] = [Idle EXCEPT !.kind = "remove", !.at = "load"]]
  /\ overtaken' = (overtaken \/ \E i \in Jobs : Syncing(i))
  /\ doubtful' = IF n \in extension' THEN doubtful
                 ELSE doubtful \cup TouchedBy(n)
  /\ UNCHANGED <<snapshot, account, fsVars, outages>>

-----------------------------------------------------------------------------
\* POST /pbx/queues without a number: nextNumber reads all the tables and takes the
\* first number in range that none has, or fails.
nextNumber(used) ==
  LET free == QueueNumbers \ used IN
    IF free = {} THEN 0 ELSE CHOOSE n \in free : \A m \in free : n <= m

\* Mutant: only the queues are looked at.
QueueArrivesBlind(j) ==
  /\ job[j] = Idle
  /\ LET n == nextNumber(queue) IN
       job' = [job EXCEPT ![j] = IF n = 0 THEN [Idle EXCEPT !.at = "done"]
                                 ELSE [kind |-> "addQueue", at |-> "row", who |-> NoAccount, number |-> n,
                                       old |-> 0]]
  /\ UNCHANGED <<snapshot, rowVars, fsVars, outages, doubtful, overtaken>>

QueueArrives(j) ==
  /\ job[j] = Idle
  /\ LET n == nextNumber(queue \cup extension) IN
       job' = [job EXCEPT ![j] = IF n = 0 THEN [Idle EXCEPT !.at = "done"]
                                 ELSE [kind |-> "addQueue", at |-> "row", who |-> NoAccount, number |-> n,
                                       old |-> 0]]
  /\ UNCHANGED <<snapshot, rowVars, fsVars, outages, doubtful, overtaken>>

\* queue.create; the number is unique among queues only.
CreatesQueue(j) ==
  /\ At(j, "addQueue", "row")
  /\ IF job[j].number \in queue
     THEN Ends(j) /\ UNCHANGED <<queue, overtaken>>
     ELSE queue' = queue \cup {job[j].number} /\ GoSync(j)
  /\ UNCHANGED <<snapshot, extension, account, fsVars, outages, doubtful>>

-----------------------------------------------------------------------------
\* loadConfig reads the tables side by side: each is read at a moment of its own.
LoadsTable(j) ==
  /\ job[j].at = "load"
  /\ \/ /\ snapshot[j].extension = Unread
        /\ snapshot' = [snapshot EXCEPT ![j].extension = extension]
     \/ /\ snapshot[j].queue = Unread
        /\ snapshot' = [snapshot EXCEPT ![j].queue = queue]
  /\ IF Unread \in {snapshot'[j].extension, snapshot'[j].queue} THEN UNCHANGED job ELSE Go(j, "users")
  /\ UNCHANGED <<rowVars, fsVars, outages, doubtful, overtaken>>

\* apply: one file per kind of row, one after the other, then reloadxml.
WritesUsers(j) ==
  /\ job[j].at = "users"
  /\ file' = [file EXCEPT !.extension = snapshot[j].extension]
  /\ Go(j, "queues")
  /\ UNCHANGED <<snapshot, rowVars, live, outages, doubtful, overtaken>>

\* Mutant: the reload comes before the queues' file is written.
WritesQueuesLast(j) ==
  /\ job[j].at = "queues"
  /\ live' = file
  /\ file' = [file EXCEPT !.queue = snapshot[j].queue]
  /\ Ends(j)
  /\ snapshot' = [snapshot EXCEPT ![j] = NotRead]
  /\ UNCHANGED <<rowVars, outages, doubtful, overtaken>>

WritesQueues(j) ==
  /\ job[j].at = "queues"
  /\ file' = [file EXCEPT !.queue = snapshot[j].queue]
  /\ Go(j, "reload")
  /\ UNCHANGED <<snapshot, rowVars, live, outages, doubtful, overtaken>>

Reloads(j) ==
  /\ job[j].at = "reload"
  /\ live' = file
  /\ Ends(j)
  /\ snapshot' = [snapshot EXCEPT ![j] = NotRead]
  /\ UNCHANGED <<rowVars, file, outages, doubtful, overtaken>>

\* A failing read, write or reload ends the sync with a log line (safeSync).
SyncFails(j) ==
  /\ Syncing(j)
  /\ outages < MaxOutages /\ outages' = outages + 1
  /\ Ends(j)
  /\ snapshot' = [snapshot EXCEPT ![j] = NotRead]
  /\ overtaken' = TRUE
  /\ UNCHANGED <<rowVars, fsVars, doubtful>>

JobStep(j) ==
  \/ ChecksExtension(j) \/ CreatesAccount(j) \/ CreatesExtension(j) \/ MovesExtension(j)
  \/ LinksAccount(j) \/ RequestFails(j) \/ CreatesQueue(j) \/ LoadsTable(j) \/ WritesUsers(j)
  \/ WritesQueues(j) \/ Reloads(j) \/ SyncFails(j)

NumberingNext ==
  \/ \E j \in Jobs : JobStep(j) \/ QueueArrives(j) \/ \E n \in Numbers : RemovesRow(j, n)
  \/ \E j \in Jobs, a \in Staff, n \in Numbers : AccountCreateArrives(j, a, n) \/ AccountUpdateArrives(j, a, n)

NumberingSpec == NumberingInit /\ [][NumberingNext]_numberingVars

-----------------------------------------------------------------------------
\* An account that is not in the middle of a request has an extension row of its number,
\* and the number to itself, unless requests for one number overlapped, a call failed or
\* the row was deleted under it.
ExtensionOfItsAccount ==
  LET settled == {a \in Staff \ doubtful : account[a] # 0 /\ \A j \in Jobs : job[j].who # a} IN
    \A a \in settled : account[a] \in extension /\ Holders(account[a]) \cap settled = {a}

\* And no queue is created on the number of an extension, unless the extension was
\* written between the reading of the tables and the insert: a number has one holder
\* among a tenant's accounts, extensions and queues.
NumbersStayApart ==
  [][numberingVars' # numberingVars =>
       /\ ExtensionOfItsAccount'
       /\ \A n \in queue' \ queue : n \in extension => n \in doubtful]_numberingVars

\* Once nobody syncs any more, FreeSWITCH runs with the rows of the database, unless two
\* syncs ran at a time or a call failed.
LiveMatchesRows ==
  (\A j \in Jobs : ~Syncing(j) /\ job[j].at # "link") /\ ~overtaken =>
     live = [extension |-> extension, queue |-> queue]

\* What pbx.module says of every mutation: the live phone system always matches the
\* database. Not so when two syncs overlap (README, Known divergences).
LiveAlwaysMatches ==
  (\A j \in Jobs : job[j].at \in {"idle", "done"}) /\ outages = 0 =>
     live = [extension |-> extension, queue |-> queue]
=============================================================================
