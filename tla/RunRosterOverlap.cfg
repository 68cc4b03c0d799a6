SPECIFICATION Spec
CONSTANTS
  s1 = s1
  s2 = s2
  a1 = a1
  a2 = a2
  Sessions <- TwoTabs
  Exts <- TwoAgents
  ExtOf <- ATabEach
  MaxRuns = 2
  MaxTiers = 2
INVARIANTS
  RunsNeverOverlap
