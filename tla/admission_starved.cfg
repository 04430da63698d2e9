\* Fewer permits than listeners: an idle listener keeps the only one.
CONSTANTS
  l1 = l1
  l2 = l2
  c1 = c1
  c2 = c2
  c3 = c3
  c4 = c4
  a = a
  b = b
  c = c
  NoConn = NoConn
  Listeners = {l1, l2}
  Conns = {c1, c2, c3}
  Ips = {a}
  IpOf <- MCIpOfOne
  MaxConnections = 0
  PerIpLimit = 0
  Backend = "tokio"
SPECIFICATION FairSpec
PROPERTIES
  AcceptNeverDeadlocks
