\* A persist fails, the VM is started again.
CONSTANTS
  Calls = {c1}
  Owners = {o1}
  Reaper = reaper
  NoVm = NoVm
  SharedAtFirst = 2
  SharedLater = {2}
  Needs = {1}
  Budgets = {0}
  Hour = 1
  JobPrice = 1
  HourPrice = 1
  Remote = TRUE
  Faults = {"persist"}
  MaxClock = 1
  MaxStarts = 3
  MaxWrites = 3
  MaxRestarts = 0
SPECIFICATION Spec
INVARIANTS
  HomeNotLost
