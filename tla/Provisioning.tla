---------------------------- MODULE Provisioning ----------------------------
(***************************************************************************)
(* What a sync of one tenant does to FreeSWITCH after it has read the      *)
(* tables (fs-provisioning.service): the files or, on a box of its own     *)
(* (remote), the one gateway file pushed over ssh; then reload, rescan,    *)
(* and the queues' members, one event-socket command after the other.     *)
(* Syncs of different requests and tenants overlap.  The queues belong to  *)
(* one tenant; every tenant may have a trunk.  mod_callcenter and Sofia    *)
(* are external.  How requests come to a sync, and what it reads of the    *)
(* numbers, is Numbering's.                                                *)
(***************************************************************************)
EXTENDS Numbering

CONSTANTS
  Syncs,       \* requests that end in a sync
  BoxTenants,  \* tenants of this FreeSWITCH
  QueueTenant, \* the one that has queues
  Seats,      \* seats in queues that staff may be given: <<queue, extension>>
  MaxDrops,    \* bound on failing commands
  NoSeat

ASSUME ProvisioningAssumption ==
  /\ IsFiniteSet(Syncs) /\ IsFiniteSet(Seats) /\ QueueTenant \in BoxTenants
  /\ MaxDrops \in Nat /\ NoSeat \notin Seats /\ BoxTenants \cap Seats = {}

CallQueues == {p[1] : p \in Seats}
MemberExts == {p[2] : p \in Seats}

VARIABLES
  remote,   \* FS_SSH_TARGET is set
  roster,   \* the seats the queue rows give
  active,   \* the queues whose row is active
  trunks,   \* the tenants with a trunk row
  sync,     \* each request's sync: its next await, its tenant, what it has read and has left to do
  gwFile,   \* tenants whose gateway is in a gateway file
  qFile,    \* queues in the file of queues
  included, \* callcenter.conf.xml includes the file of queues
  xml,      \* queues in the configuration FreeSWITCH has loaded
  gateways, \* tenants whose gateway Sofia knows
  loaded,   \* queues mod_callcenter has loaded
  status,   \* each extension's status as its agent, "none" before it is one
  tiers,    \* the seats mod_callcenter knows
  drops,    \* commands that have failed
  missed,   \* auxiliary: seats and tenants a failed command has left out
  crossed   \* auxiliary: tenants whose files two overlapping syncs have written

rowsVars   == <<roster, active, trunks>>
boxFiles   == <<gwFile, qFile, included, xml>>
centerVars == <<loaded, status, tiers>>
provisioningVars == <<remote, rowsVars, sync, boxFiles, gateways, centerVars, drops, missed, crossed>>

NotSyncing == [at |-> "idle", of |-> QueueTenant, seats |-> {}, queues |-> {}, trunk |-> FALSE,
               left |-> {}, seat |-> NoSeat]

ProvisioningTypeOK ==
  /\ remote \in BOOLEAN /\ included \in BOOLEAN /\ crossed \subseteq BoxTenants
  /\ roster \subseteq Seats /\ active \subseteq CallQueues /\ trunks \subseteq BoxTenants
  /\ sync \in [Syncs -> [at : {"idle", "read", "push", "reload", "rescan", "queue", "agent", "tier", "done"},
                         of : BoxTenants, seats : SUBSET Seats, queues : SUBSET CallQueues,
                         trunk : BOOLEAN, left : SUBSET Seats, seat : Seats \cup {NoSeat}]]
  /\ gwFile \subseteq BoxTenants /\ gateways \subseteq BoxTenants
  /\ qFile \subseteq CallQueues /\ xml \subseteq CallQueues /\ loaded \subseteq CallQueues
  /\ status \in [MemberExts -> {"none", "Logged Out", "Available"}]
  /\ tiers \subseteq Seats
  /\ drops \in 0..MaxDrops
  /\ missed \subseteq Seats \cup BoxTenants

\* A box without queues and trunks; the tenant's queues get members later.
ProvisioningInit ==
  /\ remote \in BOOLEAN
  /\ roster = {} /\ active = {} /\ trunks = {}
  /\ sync = [j \in Syncs |-> NotSyncing]
  /\ gwFile = {} /\ qFile = {} /\ included = FALSE /\ xml = {} /\ gateways = {} /\ loaded = {}
  /\ status = [x \in MemberExts |-> "none"] /\ tiers = {}
  /\ drops = 0 /\ missed = {} /\ crossed = {}

-----------------------------------------------------------------------------
Running(j)   == sync[j].at \notin {"idle", "done"}
Turns(j, at) == sync' = [sync EXCEPT ![j].at = at]
Drops        == drops < MaxDrops /\ drops' = drops + 1
Works        == UNCHANGED drops
SeatsOf(q)  == {p \in Seats : p[1] = q}

Starts(j, t) ==
  /\ sync[j].at = "idle"
  /\ sync' = [sync EXCEPT ![j] = [NotSyncing EXCEPT !.at = "read", !.of = t]]
  /\ crossed' = crossed \cup (IF remote THEN {t} \cap {sync[i].of : i \in {k \in Syncs : Running(k)}}
                             ELSE {u \in BoxTenants : \E i \in Syncs : Running(i)})
  /\ UNCHANGED <<remote, boxFiles, gateways, centerVars, drops, missed>>

\* POST or PATCH of a queue: its members and whether it is active; digits only, each once.
EditsQueue(j, q, ms, on) ==
  /\ Starts(j, QueueTenant)
  /\ roster' = (roster \ SeatsOf(q)) \cup ms
  /\ active' = (active \ {q}) \cup {r \in {q} : on}
  /\ UNCHANGED trunks

\* POST of a trunk, or a DELETE.
EditsTrunk(j, t) ==
  /\ Starts(j, t)
  /\ trunks' = (trunks \ {t}) \cup ({t} \ trunks)
  /\ UNCHANGED <<roster, active>>

\* loadConfig, at one moment.
ReadsRows(j) ==
  /\ sync[j].at = "read"
  /\ LET mine == IF sync[j].of = QueueTenant THEN active ELSE {} IN
       sync' = [sync EXCEPT ![j] = [sync[j] EXCEPT !.at = "push", !.queues = mine, !.trunk = sync[j].of \in trunks,
                                                    !.seats = {p \in roster : p[1] \in mine}]]
  /\ UNCHANGED <<remote, rowsVars, boxFiles, gateways, centerVars, drops, missed, crossed>>

MissesAll(j) == missed' = missed \cup sync[j].seats \cup {sync[j].of}

\* The file of queues is wired in once; a failure is only logged.
ensureCallcenterInclude(j) ==
  \/ Works /\ included' = TRUE /\ UNCHANGED missed
  \/ Drops /\ UNCHANGED included /\ missed' = missed \cup sync[j].seats

\* apply: the files of a local box are this tenant's and no other's.  A directory that
\* cannot be written ends the sync.
WritesFiles(j) ==
  /\ sync[j].at = "push" /\ ~remote
  /\ \/ /\ Turns(j, "reload") /\ ensureCallcenterInclude(j)
        /\ gwFile' = {t \in {sync[j].of} : sync[j].trunk} /\ qFile' = sync[j].queues
     \/ /\ Drops /\ Turns(j, "done") /\ MissesAll(j)
        /\ UNCHANGED <<gwFile, qFile, included>>
  /\ UNCHANGED <<remote, rowsVars, xml, gateways, centerVars, crossed>>

\* Mutant: the remote file has one name for all tenants.
pushesOneFile(j) ==
  Works /\ gwFile' = {t \in {sync[j].of} : sync[j].trunk} /\ UNCHANGED missed

\* The tenant's own gateway file, written through ssh and tee.
sshWriteFile(j) ==
  \/ /\ Works /\ UNCHANGED missed
     /\ gwFile' = (gwFile \ {sync[j].of}) \cup {t \in {sync[j].of} : sync[j].trunk}
  \/ Drops /\ UNCHANGED gwFile /\ missed' = missed \cup {sync[j].of}

\* applyRemote: a failed push is only reported.
PushesGateways(j) ==
  /\ sync[j].at = "push" /\ remote
  /\ sshWriteFile(j) /\ Turns(j, "reload")
  /\ UNCHANGED <<remote, rowsVars, qFile, included, xml, gateways, centerVars, crossed>>

\* reloadxml: a local box reads its files again.  When it fails nothing more is done.
ReloadsXml(j) ==
  /\ sync[j].at = "reload"
  /\ \/ /\ Works /\ Turns(j, "rescan")
        /\ xml' = (IF remote THEN xml ELSE {q \in qFile : included})
        /\ UNCHANGED missed
     \/ /\ Drops /\ Turns(j, "done") /\ MissesAll(j)
        /\ UNCHANGED xml
  /\ UNCHANGED <<remote, rowsVars, gwFile, qFile, included, gateways, centerVars, crossed>>

\* The external profile takes up the gateways it finds and forgets none; a local box
\* without trunks is not rescanned.  Then the first queue.
Rescans(j) ==
  /\ sync[j].at = "rescan"
  /\ \/ /\ Works
        /\ LET scanned == remote \/ sync[j].trunk IN
             /\ gateways' = (IF scanned THEN gateways \cup gwFile ELSE gateways)
             /\ missed' = (IF scanned THEN missed \ gateways' ELSE missed)
        /\ Turns(j, IF sync[j].queues = {} THEN "done" ELSE "queue")
     \/ /\ Drops /\ Turns(j, "done") /\ MissesAll(j)
        /\ UNCHANGED gateways
  /\ UNCHANGED <<remote, rowsVars, boxFiles, centerVars, crossed>>

\* What a queue load finds: the loaded file, or over xml_curl the rows as they are now.
Defined == IF remote THEN active ELSE xml

\* provisionCallcenter: queue load, its failure and its answer ignored; then its members.
LoadsQueue(j) ==
  /\ sync[j].at = "queue"
  /\ \E q \in sync[j].queues :
       LET ms == sync[j].seats \cap SeatsOf(q) IN
       /\ sync' = [sync EXCEPT ![j] = [sync[j] EXCEPT
                     !.queues = sync[j].queues \ {q}, !.left = ms,
                     !.at = IF ms # {} THEN "agent" ELSE IF sync[j].queues = {q} THEN "done" ELSE "queue"]]
       /\ \/ Works /\ loaded' = loaded \cup ({q} \cap Defined) /\ UNCHANGED missed
          \/ Drops /\ UNCHANGED loaded /\ missed' = missed \cup ms
  /\ UNCHANGED <<remote, rowsVars, boxFiles, gateways, status, tiers, crossed>>

\* Mutant: one try around all members of a queue.
GivesUp(j, p) ==
  sync' = [sync EXCEPT ![j] = [sync[j] EXCEPT !.left = {}, !.seat = NoSeat,
                                              !.at = IF sync[j].queues # {} THEN "queue" ELSE "done"]]

\* After a member: the next one, the next queue, or the end.
Continues(j, p) ==
  LET left == sync[j].left \ {p} IN
    sync' = [sync EXCEPT ![j] = [sync[j] EXCEPT
               !.left = left, !.seat = NoSeat,
               !.at = IF left # {} THEN "agent" ELSE IF sync[j].queues # {} THEN "queue" ELSE "done"]]

\* agent add, set contact and set status 'Available' (whatever status the agent had chosen:
\* a break is not modelled here, and ends).
\* A failure may come after the add, whose agent starts logged out.
AddsAgent(j) ==
  /\ sync[j].at = "agent"
  /\ \E p \in sync[j].left :
       \/ /\ Works
          /\ sync' = [sync EXCEPT ![j] = [sync[j] EXCEPT !.at = "tier", !.seat = p]]
          /\ status' = [status EXCEPT ![p[2]] = "Available"]
          /\ UNCHANGED missed
       \/ /\ Drops
          /\ Continues(j, p)
          /\ \/ UNCHANGED status
             \/ status[p[2]] = "none" /\ status' = [status EXCEPT ![p[2]] = "Logged Out"]
          /\ missed' = missed \cup {p}
  /\ UNCHANGED <<remote, rowsVars, boxFiles, gateways, loaded, tiers, crossed>>

\* tier add, which mod_callcenter takes for a queue and an agent it knows.
AddsTier(j) ==
  /\ sync[j].at = "tier"
  /\ LET p == sync[j].seat IN
       /\ Continues(j, p)
       /\ \/ /\ Works
             /\ tiers' = (IF p[1] \in loaded /\ status[p[2]] # "none" THEN tiers \cup {p} ELSE tiers)
             /\ missed' = (IF p \in tiers' THEN missed \ {p} ELSE missed)
          \/ /\ Drops /\ missed' = missed \cup {p} /\ UNCHANGED tiers
  /\ UNCHANGED <<remote, rowsVars, boxFiles, gateways, loaded, status, crossed>>

ProvisioningNext ==
  \/ \E j \in Syncs :
       \/ \E q \in CallQueues, on \in BOOLEAN : \E ms \in SUBSET SeatsOf(q) : EditsQueue(j, q, ms, on)
       \/ \E t \in BoxTenants : EditsTrunk(j, t)
       \/ ReadsRows(j) \/ WritesFiles(j) \/ PushesGateways(j) \/ ReloadsXml(j) \/ Rescans(j)
       \/ LoadsQueue(j) \/ AddsAgent(j) \/ AddsTier(j)

ProvisioningSpec == ProvisioningInit /\ [][ProvisioningNext]_provisioningVars

-----------------------------------------------------------------------------
\* When no sync runs, every seat the rows give in an active queue is one mod_callcenter
\* knows, and every tenant's trunk a gateway Sofia knows, unless a command for just that
\* seat or tenant failed, and whichever syncs overlapped, those aside that write the same
\* files: of one tenant, and of any two on a box that reads local files.
QueuesStaffed ==
  (\A j \in Syncs : ~Running(j)) =>
     /\ remote \/ crossed = {} => {p \in roster : p[1] \in active} \subseteq tiers \cup missed
     /\ trunks \subseteq gateways \cup missed \cup crossed

\* What FreeSWITCH runs with follows the rows, once no sync runs: its numbers, and the
\* queues' members and the trunks' gateways.
LiveFollowsRows == LiveMatchesRows /\ QueuesStaffed
=============================================================================
