------------------------------- MODULE Teams -------------------------------
(***************************************************************************)
(* The tree of managers of a tenant and what is limited to a part of it:   *)
(* a team-scoped manager edits only the people below (accounts.module,     *)
(* team-scope), and a team-scoped supervisor listens in only on the calls  *)
(* of theirs (telephony.service), and every log is listed for some only    *)
(* (call-logs.module). An account's extension is the account.              *)
(*                                                                         *)
(* The reading of the team and the write, or the ringing, that relies on   *)
(* it are separate awaits. Who has which right is a constant here: Roles   *)
(* is about rights.                                                        *)
(***************************************************************************)
EXTENDS Integers, FiniteSets

CONSTANTS
  Users,     \* accounts, all of which may edit accounts and monitor calls
  Leads,     \* those whose role has the permission team
  Scoped,    \* those whose role has team_scope as well
  Analysts,  \* those whose role has analytics
  Requests,  \* requests in flight
  MaxCalls,  \* bound on the calls
  Nobody

ASSUME TeamsAssumption ==
  /\ IsFiniteSet(Users) /\ Nobody \notin Users /\ MaxCalls \in Nat
  /\ Scoped \subseteq Leads /\ Leads \subseteq Users /\ Analysts \subseteq Users

VARIABLES
  people,    \* the accounts so far
  manager,   \* each account's manager
  pending,   \* each request: who, what for whom, and its next await
  leg,       \* the live channels
  calls,     \* calls so far
  heard,     \* each supervisor request's eavesdrop: the channel it rang into
  moved      \* auxiliary: requests whose team has changed since they read it

treeVars  == <<people, manager>>
phoneVars == <<leg, calls, heard>>
teamsVars == <<treeVars, pending, phoneVars, moved>>

Silent    == [whose |-> Nobody, cid |-> Nobody, call |-> 0]
NoRequest == [at |-> "idle", by |-> Nobody, of |-> Nobody, boss |-> Nobody]
\* Whose phone a channel is, the number it shows, and its call.
Channel   == [whose : Users, cid : Users, call : 1..MaxCalls]
Request   == [at : {"idle", "manager", "write", "channels"}, by : Users \cup {Nobody},
              of : Users \cup {Nobody}, boss : Users \cup {Nobody}]

TeamsTypeOK ==
  /\ people \subseteq Users /\ manager \in [Users -> Users \cup {Nobody}]
  /\ pending \in [Requests -> Request]
  /\ leg \subseteq Channel /\ calls \in 0..MaxCalls
  /\ heard \in [Requests -> {Silent} \cup Channel]
  /\ moved \subseteq Requests

-----------------------------------------------------------------------------
isTeamScoped(u) == u \in Scoped
canManageTeam(u) == u \in Leads
Reports(S) == {v \in people : manager[v] \in S}

\* Mutant: the walk starts again at everybody but does not go below their reports.
teamScopeIdsDirect(u) == {u} \cup Reports({u})

\* teamScopeIds walks down the tree with a stack of those still to be visited; the tree
\* may have cycles.
teamScopeIds(u) ==
  LET walk[k \in 0..Cardinality(Users)] ==
        IF k = 0 THEN [ids |-> {u}, stack |-> {u}]
        ELSE LET new == Reports(walk[k - 1].stack) \ walk[k - 1].ids
             IN  [ids |-> walk[k - 1].ids \cup new, stack |-> new]
  IN walk[Cardinality(Users)].ids

\* Whose calls u is shown: those of the whole tenant or of u's team, and without analytics
\* only u's own.
teamScopeExtensions(u) == IF isTeamScoped(u) THEN teamScopeIds(u) ELSE people
ownOnly(u)   == u \notin Analysts
listsLogs(u) == IF ownOnly(u) THEN {u} ELSE teamScopeExtensions(u)

\* The meaning: v is in u's team when every set that has u, and everybody whose manager
\* it has, has v.
Below(u, all, boss) ==
  {v \in Users : \A S \in SUBSET Users :
     u \in S /\ (\A w \in all : boss[w] \in S => w \in S) => v \in S}
Team(u) == Below(u, people, manager)

\* Requests whose reading of the team no longer holds.
Stale(all, boss) ==
  {q \in Requests : pending[q] # NoRequest /\ Below(pending[q].by, all, boss) # Team(pending[q].by)}

TeamsInit ==
  /\ people \in {Scoped} /\ manager = [u \in Users |-> Nobody]
  /\ pending = [q \in Requests |-> NoRequest]
  /\ leg = {} /\ calls = 0 /\ heard = [q \in Requests |-> Silent]
  /\ moved = {}

-----------------------------------------------------------------------------
\* Someone without team_scope hires people and moves them about, in one request.
AdministratorEdits(u, boss) ==
  /\ boss # u /\ (boss # Nobody => boss \in people /\ canManageTeam(boss))
  /\ people' = people \cup {u}
  /\ manager' = [manager EXCEPT ![u] = boss]
  /\ moved' = moved \cup Stale(people', manager')
  /\ UNCHANGED <<pending, phoneVars>>

\* POST /accounts by a team-scoped manager: the new account is placed under them.
ScopedCreates(u, v) ==
  /\ u \in people /\ isTeamScoped(u) /\ v \notin people
  /\ people' = people \cup {v}
  /\ manager' = [manager EXCEPT ![v] = u]
  /\ moved' = moved \cup Stale(people', manager')
  /\ UNCHANGED <<pending, phoneVars>>

\* Mutant: the new manager has to be in the team, not the one who gets it.
UpdateArrivesByManager(q, u, v, boss) ==
  /\ pending[q] = NoRequest /\ u \in people /\ isTeamScoped(u) /\ v \in people /\ boss # v
  /\ boss \in teamScopeIds(u)
  /\ pending' = [pending EXCEPT ![q] = [at |-> "manager", by |-> u, of |-> v, boss |-> boss]]
  /\ UNCHANGED <<treeVars, phoneVars, moved>>

\* PATCH /accounts/:id by one: the team, then the new manager's role, then the write.
UpdateArrives(q, u, v, boss) ==
  /\ pending[q] = NoRequest /\ u \in people /\ isTeamScoped(u) /\ v \in people /\ boss # v
  /\ v \in teamScopeIds(u)
  /\ pending' = [pending EXCEPT ![q] = [at |-> "manager", by |-> u, of |-> v, boss |-> boss]]
  /\ UNCHANGED <<treeVars, phoneVars, moved>>

resolveManagerId(q) ==
  /\ pending[q].at = "manager"
  /\ pending' = [pending EXCEPT ![q] =
       IF pending[q].boss # Nobody => pending[q].boss \in people /\ canManageTeam(pending[q].boss)
       THEN [pending[q] EXCEPT !.at = "write"] ELSE NoRequest]
  /\ moved' = IF pending'[q] = NoRequest THEN moved \ {q} ELSE moved
  /\ UNCHANGED <<treeVars, phoneVars>>

WritesManager(q) ==
  /\ pending[q].at = "write"
  /\ manager' = [manager EXCEPT ![pending[q].of] = pending[q].boss]
  /\ pending' = [pending EXCEPT ![q] = NoRequest]
  /\ moved' = (moved \cup Stale(people, manager')) \ {q}
  /\ UNCHANGED <<people, phoneVars>>

-----------------------------------------------------------------------------
\* A phone call (external): the caller's own channel, and when a colleague is called the
\* colleague's after it, which carries the caller's number too.
CallStarts(u, v) ==
  /\ calls < MaxCalls /\ u \in people /\ v \in people \cup {Nobody} /\ u # v
  /\ \A l \in leg : l.whose \notin {u, v}
  /\ calls' = calls + 1
  /\ leg' = leg \cup {[whose |-> w, cid |-> u, call |-> calls'] : w \in {u, v} \ {Nobody}}
  /\ UNCHANGED <<treeVars, pending, heard, moved>>

CallEnds(c) ==
  /\ \E l \in leg : l.call = c
  /\ leg' = {l \in leg : l.call # c}
  /\ heard' = [q \in Requests |-> IF heard[q].call = c THEN Silent ELSE heard[q]]
  /\ UNCHANGED <<treeVars, pending, calls, moved>>

\* POST /telephony/agents/:extension/monitor: the team first ...
monitorAgent(q, u, t) ==
  /\ pending[q] = NoRequest /\ u \in people /\ t # u
  /\ isTeamScoped(u) => t \in people /\ t \in teamScopeIds(u)
  /\ pending' = [pending EXCEPT ![q] = [at |-> "channels", by |-> u, of |-> t, boss |-> Nobody]]
  /\ UNCHANGED <<treeVars, phoneVars, moved>>

\* The rows are in the order the channels came up: the caller's of a call first.
Before(l, k) == l.call < k.call \/ (l.call = k.call /\ l.whose = l.cid)
Naming(t)    == {l \in leg : l.cid = t \/ l.whose = t}

\* Mutant: the last such row.
findChannelUuidLast(t) ==
  IF Naming(t) = {} THEN Silent ELSE CHOOSE l \in Naming(t) : \A k \in Naming(t) \ {l} : Before(k, l)

\* findChannelUuid: the first row that has the number as caller id or in its name.
findChannelUuid(t) ==
  IF Naming(t) = {} THEN Silent ELSE CHOOSE l \in Naming(t) : \A k \in Naming(t) \ {l} : Before(l, k)

\* ... then the list of channels; the supervisor's phone is rung into the one found.
Eavesdrops(q) ==
  /\ pending[q].at = "channels"
  /\ heard' = [heard EXCEPT ![q] = findChannelUuid(pending[q].of)]
  /\ pending' = [pending EXCEPT ![q] = IF heard'[q] = Silent THEN NoRequest
                                       ELSE [pending[q] EXCEPT !.at = "idle"]]
  /\ moved' = IF pending'[q] = NoRequest THEN moved \ {q} ELSE moved
  /\ UNCHANGED <<treeVars, leg, calls>>

HangsUp(q) ==
  /\ pending[q].at = "idle" /\ pending[q] # NoRequest
  /\ pending' = [pending EXCEPT ![q] = NoRequest]
  /\ heard' = [heard EXCEPT ![q] = Silent]
  /\ moved' = moved \ {q}
  /\ UNCHANGED <<treeVars, leg, calls>>

TeamsNext ==
  \/ \E u \in Users, boss \in Users \cup {Nobody} : AdministratorEdits(u, boss)
  \/ \E u, v \in Users : ScopedCreates(u, v)
  \/ \E q \in Requests, u, v \in Users, boss \in Users \cup {Nobody} : UpdateArrives(q, u, v, boss)
  \/ \E q \in Requests : resolveManagerId(q)
  \/ \E q \in Requests : WritesManager(q)
  \/ \E u \in Users, v \in Users \cup {Nobody} : CallStarts(u, v)
  \/ \E c \in 1..MaxCalls : CallEnds(c)
  \/ \E q \in Requests, u, t \in Users : monitorAgent(q, u, t)
  \/ \E q \in Requests : Eavesdrops(q)
  \/ \E q \in Requests : HangsUp(q)

TeamsSpec == TeamsInit /\ [][TeamsNext]_teamsVars

-----------------------------------------------------------------------------
\* A supervisor listens to the agent asked for and nobody else, who was in the
\* supervisor's team when the request came, if the supervisor is limited to one. And
\* the walk finds the team, whatever cycles the managers form. A manager with
\* analytics is shown whatever their reports are, unless those are shown everything, and
\* no call of anybody outside of the team.
HearsOwnTeam ==
  /\ \A q \in Requests : heard[q] # Silent =>
        /\ heard[q].whose = pending[q].of
        /\ pending[q].by \in Scoped /\ q \notin moved => pending[q].of \in Team(pending[q].by)
  /\ \A u \in people : teamScopeIds(u) = Team(u) /\ u \in listsLogs(u)
  /\ \A u \in people \cap Scoped \cap Analysts :
       /\ listsLogs(u) \subseteq Team(u)
       /\ \A v \in Team(u) : ownOnly(v) \/ isTeamScoped(v) => listsLogs(v) \subseteq listsLogs(u)

\* Nor does a manager limited to a team get hold of people outside of it: an update of
\* theirs brings nobody into the team, unless the team was changed under it. (Somebody can
\* always be moved, so no state is left out.)
TeamScopeHolds ==
  [][teamsVars' # teamsVars =>
       /\ HearsOwnTeam
       /\ \A q \in Requests :
          pending[q].at = "write" /\ pending'[q] = NoRequest /\ q \notin moved
            => Below(pending[q].by, people', manager') \subseteq Team(pending[q].by)]_teamsVars
=============================================================================
