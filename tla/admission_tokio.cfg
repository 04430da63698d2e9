\* Two permits for three sources with one slot each.
CONSTANTS
  l1 = l1
  l2 = l2
  c1 = c1
  c2 = c2
  c3 = c3
  c4 = c4
  a = a
  b = b
  c = c
  NoConn = NoConn
  Listeners = {l1, l2}
  Conns = {c1, c2, c3, c4}
  Ips = {a, b, c}
  IpOf <- MCIpOf
  MaxConnections = 2
  PerIpLimit = 1
  Backend = "tokio"
SPECIFICATION Spec
SYMMETRY MCSymmetry
INVARIANTS
  TypeOK
  PermitsConserved
  CapRespected
  PerIpCapRespected
  StatisticsAgree
  RowsBelongToConnections
