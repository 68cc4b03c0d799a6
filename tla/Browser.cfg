SPECIFICATION BrowserSpec
CONSTANTS
  u1 = u1
  o1 = o1
  s1 = s1
  s2 = s2
  a1 = a1
  a2 = a2
  MaxCalls = 2
  MaxFaults = 1
  SlowStatus = FALSE
  Users <- MCUsers
  Staff <- MCStaff
  RoleNames = {"Agent"}
  Grants <- MCGrants
  MaxChanges = 2
  MaxAnswers = 2
  Nobody = Nobody
  NoRole = NoRole
  Sessions <- TwoTabs
  Exts <- OneAgent
  ExtOf <- SameAgent
  MaxRuns = 1
  MaxTaped = 2
  MaxTiers = 2
  Rows = {b1}
  Tabs = {t1}
  Profiles <- MCProfiles
  Loads = {k1, k2}
  MaxNotes = 2
  MaxRead = 1
  MaxMoments = 2
  NoTab = NoTab
INVARIANTS
  BrowserTypeOK
  
  
  RedirectsEnd
  
PROPERTIES
  PhoneComesBack
  RightsArrive
  RosterStopsArrive
CHECK_DEADLOCK FALSE
