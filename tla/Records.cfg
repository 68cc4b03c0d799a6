SPECIFICATION AllSpec
CONSTANTS
  n1 = n1
  n2 = n2
  n3 = n3
  d1 = d1
  d2 = d2
  Numbers = {n1, n2, n3}
  LineOf <- MCLineOf
  Grouped = {n3}
  Pasted <- MCPasted
  Excludes <- MCExcludes
  Dispositions = {d1, d2}
  Configured = {d1, d2}
  Category <- MCCategory
  Deletable = {d1}
  Joins = {j1, j2}
  MaxRows = 3
  MaxEdits = 1
  MaxAnswered = 1
  Dialed = {n1}
  MaxAttempts = 2
  MaxPasses = 2
  MaxTalks = 2
  Ids = {c1, c2}
  FirstId = c1
  MaxClicks = 4
  New = New
  None = None
  PreviewIds = {p1}
  AutoIds = {m1}
  MaxLeads = 2
  MaxMoves = 4
  Caller = Caller
  Nobody = Nobody
  GroupIds = {g1, g2}
  ContactIds = {k1}
  FieldIds = {f1, f2}
  Handlers = {h1, h2}
  MaxPages = 2
  MaxActs = 4
  AllOfThem = AllOfThem
  MaxBlips = 1
SYMMETRY Renamings
INVARIANTS
  AllTypeOK
  
  
  
  
  BoardsAgree

  
  
CHECK_DEADLOCK FALSE
