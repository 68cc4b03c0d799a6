SPECIFICATION FairSpec
CONSTANTS
  l1 = l1
  l2 = l2
  l3 = l3
  a1 = a1
  a2 = a2
  None = None
  Leads <- TwoLeads
  CreatedBefore <- TwoInOrder
  Agents <- TwoAgents
  MaxAttempts = 2
  MaxReservations = 2
  Dispositions <- MCDispositions
  Configured <- MCDispositions
  Category <- MCCategory
INVARIANTS
  ReservationsCounted
  HeldIsReserved
PROPERTIES
  DncStays
  StrandedReturns
