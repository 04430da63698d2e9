\* Up to three addresses, answered before, at and after the budget.
CONSTANTS
  MaxAddrs = 3
  Outcomes <- MCOutcomes
  Latencies = {0, 1, 3}
  Delay = 2
  Budget = 5
  None = None
SPECIFICATION FairSpec
INVARIANTS
  TimeoutOnlyIfUndecided
  FastestWins
  FailureIsTheLatest
  OnlyTheWinnerSurvives
PROPERTIES
  Settles
