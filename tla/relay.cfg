\* Buffers smaller than what is relayed; resets at any time.
CONSTANTS
  Limit <- MCLimit
  SockCap = 2
  BufSize = 2
  WriteFirst = {}
SPECIFICATION FairSpec
INVARIANTS
  NothingLostOrReordered
  CountsAreHonest
PROPERTIES
  ImplementsPipe
  EverythingDelivered
  HalfCloseDelivered
