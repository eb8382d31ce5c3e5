\* One handler and the reaper, leases that end, commands that fail, a restart.
CONSTANTS
  Calls = {c1}
  Owners = {o1, o2}
  Reaper = reaper
  NoVm = NoVm
  SharedAtFirst = 3
  SharedLater = {3}
  Needs = {1, 2}
  Budgets = {0, 1}
  Hour = 1
  JobPrice = 1
  HourPrice = 1
  Remote = TRUE
  Faults = {"pull", "run", "restore"}
  MaxClock = 3
  MaxStarts = 2
  MaxWrites = 1
  MaxRestarts = 1
SPECIFICATION FairSpec
INVARIANTS
  TypeOK
  ReservationsAccounted
  
  
PROPERTIES
  LeaseNeverExtended
  LeaseEnds
