\* Two streams on two connections of one owner; one interactive permit.
CONSTANTS
  Streams = {s1, s2}
  ann = ann
  c1 = c1
  c2 = c2
  Conns = {c1, c2}
  OwnerOf <- MCOwnerOf
  MaxInbound = 2
  MaxPerConn = 1
  MaxSessions = 1
  Channel = 1
  Kinds = {"status", "shell", "pipe", "proxy"}
  None = None
SPECIFICATION FairSpec
INVARIANTS
  TypeOK
PROPERTIES
  EndsAreTold
  DeadForwardsClose
