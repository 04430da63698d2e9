\* Every configuration, every client behaviour.
CONSTANT Configs <- MCConfigs
SPECIFICATION FairSpec
INVARIANTS
  ServedOnlyIfAdmitted
  FailureIsFinal
  AccountedOnce
  StalledClientIsTold
PROPERTIES
  EveryClientIsServedOrReleased
