SPECIFICATION Spec
CONSTANTS
  l1 = l1
  l2 = l2
  d1 = d1
  a1 = a1
  a2 = a2
  Leads <- MCLeads
  Dnc <- MCDnc
  Order <- MCOrder
  Agents <- MCAgents
  MaxAttempts = 2
  Concurrency = 2
  Progressive = TRUE
  Ratios = {100}
  MaxWaiting = 0
INVARIANTS
  TypeOK
  OneCallPerNumber
  FinishedLeavesNoWork
PROPERTIES
  FinishedStaysFinished
