SPECIFICATION FairSpec
CONSTANTS
  l1 = l1
  l2 = l2
  d1 = d1
  a1 = a1
  a2 = a2
  Leads <- MCLeads
  Dnc <- MCDnc
  Order <- MCOrder
  Agents <- MCOneAgent
  MaxAttempts = 2
  Concurrency = 2
  Progressive = FALSE
  Ratios = {100, 250}
  MaxWaiting = 1
INVARIANTS
  ConcurrencyCap
PROPERTIES
  KeepsContract
  EveryRunEnds
