\* One directory with room for two announcements, a budget of one probe, two
\* cycles, one restart.
CONSTANTS
  honest = honest
  cheat = cheat
  third = third
  d1 = d1
  d2 = d2
  Nodes = {honest, cheat, third}
  Dirs = {d1}
  Vias <- MCVias1
  Ahead <- MCAhead
  Failing = {cheat}
  SelfReport <- MCSelfReport
  Values = {20000}
  Prior <- MCPrior
  Unprobed = Unprobed
  Gone = Gone
  Scale = 10000
  Floor = 2000
  Bank = 1
  MaxRuns = 1
  MaxAnnouncements = 2
  Ttl = 1
  Skew = 1
  MaxCycles = 1
  MaxRestarts = 1
  MaxWait = 1
SYMMETRY MCSymmetry
SPECIFICATION Spec
INVARIANTS
  TypeOK
  
PROPERTIES
  RefusedOnlyWhenFull
  
