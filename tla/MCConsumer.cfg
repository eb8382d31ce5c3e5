\* Two providers that change what they offer once, one escrow at a time, one run.
CONSTANTS
  Providers = {p1, p2}
  Escrows = {e1}
  cuda = cuda
  v12 = v12
  p1 = p1
  p2 = p2
  Offers <- MCOffers
  AtFirst <- MCAtFirst
  Specs <- MCSpecs
  Asks = {0, 3}
  Quoted = Quoted
  MaxPerJob = 4
  MaxSpend = 4
  ReadOnly = FALSE
  AllowMainnet = FALSE
  ClusterIsMainnet = FALSE
  RpcIsNonMainnet = TRUE
  MaxRuns = 1
  MaxChanges = 1
  None = None
SPECIFICATION FairSpec
INVARIANTS
  CapIsKept
PROPERTIES
  EscrowsEnd
  PlacementIsSound
