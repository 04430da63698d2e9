\* Three datagrams from any of three sockets through a buffer of two.
CONSTANTS
  client = client
  sibling = sibling
  target = target
  home = home
  away = away
  AnyHost = AnyHost
  Addrs <- MCAddrs
  Ips <- MCIps
  IpOf <- MCIpOf
  Declared <- MCDeclared
  QueueCap = 2
  MaxSent = 3
SPECIFICATION FairSpec
INVARIANTS
  ServesOneClient
  RelayedOnceInOrder
PROPERTIES
  EndsWithControl
