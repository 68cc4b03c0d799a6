------------------------------ MODULE DemoTeam ------------------------------
(***************************************************************************)
(* The accounts of the demo workspace (lib/demo/router.ts): rows that copy *)
(* their role's name and its right to manage a team, the signed-in profile *)
(* that copies the role's permissions, and the figures that three          *)
(* dashboards draw from one list of call logs.  A handler runs to its end, *)
(* so an action is a request; what can go wrong are the copies.            *)
(***************************************************************************)
EXTENDS Integers, FiniteSets, FiniteSetsExt

CONSTANTS
  Logins, Seeded, \* accounts; the one the seed holds, with extension 1
  RoleIds, System, \* roles; the one that cannot be deleted
  RoleKinds,         \* what a role may be: a name with permissions
  Leading,        \* those that grant the management of a team
  LastExt, MaxLogs, MaxTeamEdits,
  NoRow

\* A row, a profile, and the calls an extension has logged.
AccountRow == [role : RoleIds, grant : RoleKinds, ext : 1..LastExt, active : BOOLEAN,
               manager : Logins \cup {NoRow}, named : BOOLEAN]
Profile    == [who : Logins, grant : RoleKinds \cup {NoRow}]
CallCount  == [completed : 0..MaxLogs, other : 0..MaxLogs]

ASSUME DemoTeamAssumption ==
  /\ IsFiniteSet(Logins) /\ Seeded \in Logins /\ System \in RoleIds /\ Leading \subseteq RoleKinds /\ Leading # {}
  /\ LastExt \in Nat \ {0} /\ MaxLogs \in Nat /\ MaxTeamEdits \in Nat
  /\ NoRow \notin Logins \cup RoleKinds \cup AccountRow \cup Profile

VARIABLES
  accounts, \* each row: its role, the copy of its grant, extension, manager and the manager's name
  roles,    \* the grant of each role, or NoRow
  signedIn, \* db().session: whose profile, with the grant it copied, or NoRow for DEMO_USER
  callLogs, \* logs of each extension, connected or not
  teamEdits,
  edited,   \* auxiliary: roles changed or deleted since the start
  stale,    \* auxiliary: the session's account or role has changed since the login
  typed     \* auxiliary: an extension other than the proposed one was given

teamRows     == <<accounts, roles, teamEdits, edited, stale, typed>>
demoTeamVars == <<teamRows, signedIn, callLogs>>

TeamExts    == 1..LastExt
Present == {e \in Logins : accounts[e] # NoRow}
Standing    == {r \in RoleIds : roles[r] # NoRow}
\* DEMO_USER: full access, the seeded administrator's extension.
Self      == IF signedIn = NoRow THEN Seeded ELSE signedIn.who
SelfExt   == accounts[Self].ext

DemoTeamTypeOK ==
  /\ accounts \in [Logins -> AccountRow \cup {NoRow}]
  /\ roles \in [RoleIds -> RoleKinds \cup {NoRow}]
  /\ signedIn \in Profile \cup {NoRow}
  /\ callLogs \in [TeamExts -> CallCount]
  /\ teamEdits \in 0..MaxTeamEdits /\ edited \subseteq RoleIds /\ stale \in BOOLEAN /\ typed \in BOOLEAN

DemoTeamInit ==
  /\ \E g \in Leading :
       /\ roles = [r \in RoleIds |-> g]
       /\ accounts = [e \in Logins |->
            IF e = Seeded THEN [role |-> System, grant |-> g, ext |-> 1, active |-> TRUE,
                                manager |-> NoRow, named |-> FALSE] ELSE NoRow]
  /\ signedIn = NoRow
  /\ callLogs = [x \in TeamExts |-> [completed |-> 0, other |-> 0]]
  /\ teamEdits = 0 /\ edited = {} /\ stale = FALSE /\ typed = FALSE

-----------------------------------------------------------------------------
Edit         == teamEdits < MaxTeamEdits /\ teamEdits' = teamEdits + 1 /\ UNCHANGED <<signedIn, callLogs>>
UsedExts     == {accounts[e].ext : e \in Present}
NextExt      == Max({0} \cup UsedExts) + 1
\* The page offers as managers those whose row says they may manage a team.
LeadersFor(e)  == {m \in Present \ {e} : accounts[m].grant \in Leading} \cup {NoRow}

createAccount(e, r, x, m) ==
  /\ Edit /\ accounts[e] = NoRow /\ r \in Standing /\ m \in LeadersFor(e)
  /\ accounts' = [accounts EXCEPT ![e] = [role |-> r, grant |-> roles[r], ext |-> x, active |-> TRUE,
                                          manager |-> m, named |-> m # NoRow]]
  /\ typed' = (typed \/ x # NextExt)
  /\ UNCHANGED <<roles, edited, stale>>

\* Mutant: a changed role keeps the copies of the old one.
patchedKeepsGrant(a, r, m, active) ==
  [a EXCEPT !.role = r, !.active = active, !.manager = m, !.named = m # NoRow]

\* The row after a PATCH: the copies follow the role it names, if that exists.
patchedRow(a, r, m, active) ==
  [a EXCEPT !.role = r, !.grant = IF roles[r] = NoRow THEN @ ELSE roles[r],
            !.active = active, !.manager = m, !.named = m # NoRow]

\* The page's form sends its role, its manager and its state, changed or not.
patchAccount(e, r, m, active) ==
  /\ Edit /\ accounts[e] # NoRow
  /\ r \in Standing \cup {accounts[e].role} /\ m \in LeadersFor(e) \cup {accounts[e].manager}
  /\ accounts' = [accounts EXCEPT ![e] = patchedRow(accounts[e], r, m, active)]
  /\ stale' = (stale \/ Self = e)
  /\ UNCHANGED <<roles, edited, typed>>

Touches(r) == edited' = edited \cup {r} /\ stale' = TRUE /\ UNCHANGED <<accounts, typed>>

\* A new role, and a clone, which holds the permissions of another.
createRole(r, g) == Edit /\ roles[r] = NoRow /\ roles' = [roles EXCEPT ![r] = g] /\ Touches(r)
cloneRole(r, of) == of \in Standing /\ createRole(r, roles[of])
patchRole(r, g)  == Edit /\ r \in Standing /\ roles' = [roles EXCEPT ![r] = g] /\ Touches(r)
deleteRole(r)    == Edit /\ r \in Standing \ {System} /\ roles' = [roles EXCEPT ![r] = NoRow] /\ Touches(r)

-----------------------------------------------------------------------------
\* profileFor: an account's profile holds its role's permissions, none when that is gone.
signIn(e) ==
  /\ accounts[e] # NoRow
  /\ signedIn' = [who |-> e, grant |-> roles[accounts[e].role]] /\ stale' = FALSE
  /\ UNCHANGED <<accounts, roles, callLogs, teamEdits, edited, typed>>

signOut ==
  /\ signedIn # NoRow /\ signedIn' = NoRow /\ stale' = FALSE
  /\ UNCHANGED <<accounts, roles, callLogs, teamEdits, edited, typed>>

logCall(status) == LET log == callLogs[SelfExt] IN
  /\ log[status] < MaxLogs
  /\ callLogs' = [callLogs EXCEPT ![SelfExt] = IF status = "completed" THEN [log EXCEPT !.completed = @ + 1]
                                               ELSE [log EXCEPT !.other = @ + 1]]
  /\ UNCHANGED <<teamRows, signedIn>>

DemoTeamNext ==
  \/ \E e \in Logins, r \in RoleIds, m \in Logins \cup {NoRow} :
       \/ \E x \in TeamExts : createAccount(e, r, x, m)
       \/ \E active \in BOOLEAN : patchAccount(e, r, m, active)
  \/ \E r \in RoleIds :
       \/ deleteRole(r)
       \/ \E g \in RoleKinds : createRole(r, g) \/ patchRole(r, g)
       \/ \E of \in RoleIds : cloneRole(r, of)
  \/ signOut \/ \E e \in Logins : signIn(e)
  \/ \E status \in {"completed", "other"} : logCall(status)

-----------------------------------------------------------------------------
(* What the dashboards show.                                               *)

callsOf(x)   == callLogs[x].completed + callLogs[x].other
\* The sum of n over S is the size of a set that has n[x] pairs for each x.
Total(n, S)  == Cardinality(UNION {{x} \X (1..n[x]) : x \in S})
telephonyAgents(e) == [ext |-> accounts[e].ext, calls |-> callsOf(accounts[e].ext),
                       connected |-> callLogs[accounts[e].ext].completed, online |-> accounts[e].active]
dashboard      == [calls     |-> Total([x \in TeamExts |-> callsOf(x)], TeamExts),
                   connected |-> Total([x \in TeamExts |-> callLogs[x].completed], TeamExts)]
adminDashboard ==
  [calls |-> dashboard.calls, seats |-> Cardinality(Present),
   online |-> Cardinality({e \in Present : telephonyAgents(e).online}),
   disabled |-> {e \in Present : ~accounts[e].active}]
agentDashboard == [calls |-> callsOf(SelfExt), connected |-> callLogs[SelfExt].completed]

\* A row agrees with its role, and a profile with its account, until the role is
\* edited, whatever is created, moved or cloned in between (router.ts:704-740); a
\* manager's name is shown of somebody; the proposed extension is free, and while
\* every account takes the proposed one, the agents' figures add up to those of the
\* workspace and one's own page says what the board says of oneself
\* (router.ts:119-133, 135-175, 183-300).
TeamCopiesHold ==
  /\ \A e \in Present : LET a == accounts[e] IN
       /\ a.role \notin edited => a.grant = roles[a.role]
       /\ a.named => a.manager \in Present
  /\ signedIn # NoRow /\ ~stale => signedIn.grant = roles[accounts[signedIn.who].role]
  /\ NextExt \notin UsedExts
  /\ ~typed =>
       /\ dashboard.calls = Total([e \in Present |-> telephonyAgents(e).calls], Present)
       /\ dashboard.connected = Total([e \in Present |-> telephonyAgents(e).connected], Present)
  /\ agentDashboard.calls = telephonyAgents(Self).calls
  /\ adminDashboard.seats = adminDashboard.online + Cardinality(adminDashboard.disabled)
=============================================================================
