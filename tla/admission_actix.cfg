\* The actor drops its permit before its slot; as many permits as listeners.
CONSTANTS
  l1 = l1
  l2 = l2
  c1 = c1
  c2 = c2
  c3 = c3
  c4 = c4
  a = a
  b = b
  c = c
  NoConn = NoConn
  Listeners = {l1, l2}
  Conns = {c1, c2, c3}
  Ips = {a}
  IpOf <- MCIpOfOne
  MaxConnections = 2
  PerIpLimit = 2
  Backend = "actix"
SPECIFICATION FairSpec
INVARIANTS
  LimiterExact
PROPERTIES
  ImplementsBudget
  AcceptNeverDeadlocks
  EverythingReturned
