\* The target sends everything before it reads; the client always reads.
CONSTANTS
  Limit <- MCLimitDeadlock
  SockCap = 1
  BufSize = 1
  WriteFirst = {"b"}
SPECIFICATION FairSpec
PROPERTIES
  EverythingDelivered
