----------------------------- MODULE MCBackend ------------------------------
(***************************************************************************)
(* Small instances of the server's components that share no state with     *)
(* each other: company accounts and their carrier, numbers and their sync, *)
(* the two dialplan generators, the realtime gateway, roles, teams, the    *)
(* counters of a Predictive run, what syncs give FreeSWITCH, and the       *)
(* store of the demo backend (the vendor's console, accounts, leads).  One *)
(* of them, chosen at the start, moves; the others stay as they begin.     *)
(* Their interleavings would only multiply the states: no action of one    *)
(* reads a variable of another.                                            *)
(***************************************************************************)
EXTENDS Tenancy, Dialplan, Realtime, Roles, Teams, QueueEvents,
  PlatformConsole, DemoTeam, DemoLeads, Provisioning

CONSTANTS m1, m2, m3, s1, s2, s3, c1, c2, u1, u2, u3, p1, p2

MCMembers == {m1, m2, m3}
MCSockets == {s1, s2, s3}
MCSignups == {c1, c2}
MCUsers   == {u1, u2, u3}
MCLeads   == {u1, u2}
MCScoped  == {u1}
MCCompanies == {c1, c2}
MCPlanIds   == {p1, p2}
MCManagers  == {m1, m2}
MCOwners    == {m1}

MCSeats     == {<<m1, 1>>, <<m1, 2>>}

VARIABLE part   \* the component that moves

Parts == {"tenancy", "numbering", "dialplan", "realtime", "roles", "teams", "queue",
          "vendor", "demoTeam", "demoLeads", "provisioning"}

demoVars    == <<platformVars, demoTeamVars, demoLeadsVars>>
serverVars  == <<provisioningVars, tenancyVars, numberingVars, row, realtimeVars, rolesVars, teamsVars, vars>>
BackendVars == <<part, serverVars, demoVars>>

BackendInit ==
  /\ part \in Parts
  /\ TenancyInit /\ NumberingInit /\ DialplanInit /\ RealtimeInit /\ RolesInit /\ TeamsInit /\ Init
  /\ ProvisioningInit
  /\ PlatformInit /\ DemoTeamInit /\ DemoLeadsInit
  /\ part # "provisioning" => remote
  /\ part # "vendor" => /\ \A p \in PlanIds : plans[p] = 1
                        /\ \A c \in Companies : tenants[c].status = "trial" /\ tenants[c].plan = p1

BackendNext ==
  \/ /\ part = "tenancy" /\ TenancyNext
     /\ UNCHANGED <<part, provisioningVars, numberingVars, row, realtimeVars, rolesVars, teamsVars, vars, demoVars>>
  \/ /\ part = "numbering" /\ NumberingNext
     /\ UNCHANGED <<part, provisioningVars, tenancyVars, row, realtimeVars, rolesVars, teamsVars, vars, demoVars>>
  \/ /\ part = "dialplan" /\ DialplanNext
     /\ UNCHANGED <<part, provisioningVars, tenancyVars, numberingVars, realtimeVars, rolesVars, teamsVars, vars, demoVars>>
  \/ /\ part = "realtime" /\ RealtimeNext
     /\ UNCHANGED <<part, provisioningVars, tenancyVars, numberingVars, row, rolesVars, teamsVars, vars, demoVars>>
  \/ /\ part = "roles" /\ RolesNext
     /\ UNCHANGED <<part, provisioningVars, tenancyVars, numberingVars, row, realtimeVars, teamsVars, vars, demoVars>>
  \/ /\ part = "teams" /\ TeamsNext
     /\ UNCHANGED <<part, provisioningVars, tenancyVars, numberingVars, row, realtimeVars, rolesVars, vars, demoVars>>
  \/ /\ part = "queue" /\ Next
     /\ UNCHANGED <<part, provisioningVars, tenancyVars, numberingVars, row, realtimeVars, rolesVars, teamsVars, demoVars>>
  \/ /\ part = "provisioning" /\ ProvisioningNext
     /\ UNCHANGED <<part, tenancyVars, numberingVars, row, realtimeVars, rolesVars, teamsVars, vars, demoVars>>
  \/ /\ part = "vendor" /\ PlatformNext
     /\ UNCHANGED <<part, serverVars, demoTeamVars, demoLeadsVars>>
  \/ /\ part = "demoTeam" /\ DemoTeamNext
     /\ UNCHANGED <<part, serverVars, platformVars, demoLeadsVars>>
  \/ /\ part = "demoLeads" /\ DemoLeadsNext
     /\ UNCHANGED <<part, serverVars, platformVars, demoTeamVars>>

\* The loop keeps ticking (setTimeout), the only fairness of these components.
BackendSpec == BackendInit /\ [][BackendNext]_BackendVars /\ WF_vars(part = "queue" /\ Tick)

\* Only what moves can leave its type.
BackendTypeOK ==
  /\ part = "tenancy" => TenancyTypeOK
  /\ part = "numbering" => NumberingTypeOK
  /\ part = "dialplan" => DialplanTypeOK
  /\ part = "realtime" => RealtimeTypeOK
  /\ part = "roles" => RolesTypeOK
  /\ part = "teams" => TeamsTypeOK
  /\ part = "queue" => TypeOK
  /\ part = "provisioning" => ProvisioningTypeOK
  /\ part = "vendor" => PlatformTypeOK
  /\ part = "demoTeam" => DemoTeamTypeOK
  /\ part = "demoLeads" => DemoLeadsTypeOK

\* The demo store's copies agree, whatever requests have come: the vendor's books
\* (ConsoleConsistent), the accounts' roles and figures (TeamCopiesHold), and the
\* leads of its campaigns (DemoLeadsHold).
DemoStoreAgrees ==
  /\ part = "vendor" => ConsoleConsistent
  /\ part = "demoTeam" => TeamCopiesHold
  /\ part = "demoLeads" => DemoLeadsHold
=============================================================================
