SPECIFICATION BackendSpec
CONSTANTS
  m1 = m1
  m2 = m2
  m3 = m3
  s1 = s1
  s2 = s2
  s3 = s3
  c1 = c1
  c2 = c2
  u1 = u1
  u2 = u2
  u3 = u3
  p1 = p1
  p2 = p2
  Signups <- MCSignups
  Emails = {e1}
  Dids = {n1}
  Operators = {o1, o2}
  MaxFaults = 1
  None = None
  Jobs = {j1, j2}
  Settled = {a1}
  Staff = {a1, a2}
  LastNumber = 3
  FirstQueue = 2
  MaxOutages = 1
  NoAccount = NoAccount
  Tenants = {t1, t2}
  FirstTenant = t1
  Internal = {i1, i2}
  External = {x1}
  MaxRows = 2
  Nowhere = Nowhere
  Sockets <- MCSockets
  Roles = {r1, r2}
  Forms = {f1}
  NoRole = NoRole
  Users <- MCUsers
  Leads <- MCLeads
  Scoped <- MCScoped
  Analysts <- MCLeads
  Requests = {q1}
  MaxCalls = 1
  Nobody = Nobody
  Members <- MCMembers
  MaxFailed = 2
  MaxRuns = 2
  StartRatio = 200
  TargetPermille = 30
  MaxRatio = 300
  MinSample = 3
  Companies <- MCCompanies
  PlanIds <- MCPlanIds
  Terms = {1, 2}
  Managers <- MCManagers
  Owners <- MCOwners
  MaxInvoices = 1
  NoCompany = NoCompany
  NoPlan = NoPlan
  NoStaff = NoStaff
  Logins = {e1, e2}
  Seeded = e1
  RoleIds = {r1, r2}
  System = r1
  RoleKinds = {v1, v2}
  Leading = {v1}
  LastExt = 2
  MaxLogs = 1
  MaxTeamEdits = 3
  NoRow = NoRow
  LastCampaign = 2
  Seeds = 1
  LeadCount = 2
  Endings = {d1}
  MaxTries = 1
  Syncs = {y1, y2}
  BoxTenants = {t1, t2}
  QueueTenant = t1
  Seats <- MCSeats
  MaxDrops = 1
  NoSeat = NoSeat
INVARIANTS
  BackendTypeOK
  TenantsAreWhole
  LiveFollowsRows
  
  PushesWhileWatched
  RolesClosed
  CountsAreRight
  

  
  
  
CHECK_DEADLOCK FALSE
