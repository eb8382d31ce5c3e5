\* Three replicas, one that lies and one that may cancel; transactions are
\* confirmed or known to have failed.
CONSTANTS
  Providers = {honest1, honest2, liar}
  Cancellers = {honest2}
  NoJob = NoJob
  U64Max = 300000
  MinTimeout = 1
  MaxTimeout = 4
  ChallengeWindow = 0
  Horizon = 4
  Liars = {liar}
  Outputs = {1, 2}
  Right = 2
  NoAnswer = NoAnswer
  Replicas = 3
  Modes = {"free", "pay", "release"}
  Amount = 25
  Timeout = 3
  Margin = 1
  Late = FALSE
SPECIFICATION FairSpec
INVARIANTS
  TypeOK
  ResultIntegrity
  

  
