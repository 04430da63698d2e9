\* Pipelining clients against every configuration of methods, two users.
CONSTANTS
  None = None
  Inputs <- MCInputs
  AuthConfigs = {{0}, {2}, {0, 2}}
  Users <- MCUsers
  Datagrams <- MCDatagrams
  Sources <- MCSources
SPECIFICATION Spec
CHECK_DEADLOCK FALSE
INVARIANTS
  ReadersAgree
  CredentialsExact
  FramesAreFaithful
