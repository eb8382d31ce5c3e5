\* Two requests for one escrow at once.
CONSTANTS
  Keys = {k1}
  Providers = {me}
  Cancellers = {}
  Amounts = {5}
  Timeouts = {5}
  Splits <- NoSplits
  NoJob = NoJob
  U64Max = 300000
  MinTimeout = 1
  MaxTimeout = 6
  ChallengeWindow = 0
  Horizon = 6
  MaxCreates = 1
  Me = me
  Calls = {c1, c2}
  Requests <- MCKernels
  Price = 5
  RequirePayment = TRUE
  JobTimeout = 1
  WorkloadTimeout = 2
  ReleaseSlack = 2
  MaxWorkload = 9
  RpcTimeout = 1
  MaxPrepare = 0
  MaxBusy = 2
  Shared = 1
  MaxServed = 2
  MaxRestarts = 0
  MaxReceives = 3
  NoReq = NoReq
SPECIFICATION Spec
INVARIANTS
  NoFreeExecution
