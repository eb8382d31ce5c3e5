\* One request at a time and no restart, fair handlers, but kernels, endpoints
\* and containers that need not end.
CONSTANTS
  Keys = {k1}
  Providers = {me}
  Cancellers = {}
  Amounts = {5}
  Timeouts = {4, 5}
  Splits <- NoSplits
  NoJob = NoJob
  U64Max = 300000
  MinTimeout = 1
  MaxTimeout = 6
  ChallengeWindow = 0
  Horizon = 9
  MaxCreates = 2
  Me = me
  Calls = {c1}
  Requests <- MCMixed
  Price = 5
  RequirePayment = FALSE
  JobTimeout = 1
  WorkloadTimeout = 2
  ReleaseSlack = 2
  MaxWorkload = 9
  RpcTimeout = 1
  MaxPrepare = 0
  MaxBusy = 1
  Shared = 1
  MaxServed = 1
  MaxRestarts = 0
  MaxReceives = 4
  NoReq = NoReq
SPECIFICATION FairSpec
INVARIANTS
  NoFreeExecution
PROPERTIES
  CallerAnswered
