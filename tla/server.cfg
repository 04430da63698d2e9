\* One socket for two clients of the statistics service, a session.
CONSTANTS
  p1 = p1
  p2 = p2
  s1 = s1
  None = None
  Invocations <- MCInvocations
  Heads <- MCHeads
  Pollers = {p1, p2}
  Sessions = {s1}
  MaxSockets = 1
  MaxHead = 3
  Chunk = 2
  MaxPolls = 2
SPECIFICATION FairSpec
CHECK_DEADLOCK FALSE
INVARIANTS
  ServesAsConfigured
  SocketBudgetHolds
  NoDocumentWithoutToken
  DocumentsAreCurrent
PROPERTIES
  SlowClientsAreCut
