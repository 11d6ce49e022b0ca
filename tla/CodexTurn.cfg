CONSTANTS
  RetryMax = 2
  BusyMax = 5
  None = None
SPECIFICATION FairSpec
INVARIANTS Accounted UpstreamReleased
PROPERTIES NoDialAfterOutput DisconnectSettles
CHECK_DEADLOCK FALSE
