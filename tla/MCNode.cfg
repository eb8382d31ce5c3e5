\* Two escrows, two handlers, one permit, one restart.
CONSTANTS
  Keys = {k1, k2}
  Providers = {me}
  Cancellers = {}
  Amounts = {5}
  Timeouts = {5}
  Splits <- NoSplits
  NoJob = NoJob
  U64Max = 300000
  MinTimeout = 1
  MaxTimeout = 6
  ChallengeWindow = 0
  Horizon = 6
  MaxCreates = 1
  Me = me
  Calls = {c1, c2}
  Requests <- MCRequests
  Price = 5
  RequirePayment = TRUE
  JobTimeout = 1
  WorkloadTimeout = 2
  ReleaseSlack = 2
  MaxWorkload = 9
  RpcTimeout = 1
  MaxPrepare = 0
  MaxBusy = 1
  Shared = 1
  MaxServed = 2
  MaxRestarts = 1
  MaxReceives = 3
  NoReq = NoReq
SYMMETRY Symmetry
SPECIFICATION Spec
INVARIANTS
  TypeOK
  ReservationsAccounted
  NotRefundedWhileWorking
  SignedWorkWasFunded
