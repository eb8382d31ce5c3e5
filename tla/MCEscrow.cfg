\* One key through two incarnations, with the holdback switched on, and
\* consumers that ask for their money after the deadline.
CONSTANTS
  Keys = {k1}
  Providers = {honest, canceller}
  Cancellers = {canceller}
  Amounts <- MCAmounts
  Timeouts <- MCTimeouts
  Splits <- MCSplits
  NoJob = NoJob
  U64Max = 300000
  MinTimeout = 2
  MaxTimeout = 4
  ChallengeWindow = 1
  Horizon = 6
  MaxCreates = 2
SPECIFICATION FairSpec
INVARIANTS
  TypeOK
  Conservation
  CreationImpliesSettlement
  PayableBeforeReclaim
PROPERTIES
  ExitsByPhase
  KeepsPromise
  
