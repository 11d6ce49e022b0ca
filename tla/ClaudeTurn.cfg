CONSTANTS
  RetryMax = 3
  None = None
SPECIFICATION ClaudeFairSpec
INVARIANTS ToldTruly ProviderReleased
PROPERTY TurnSettles
CHECK_DEADLOCK FALSE
