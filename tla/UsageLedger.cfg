SPECIFICATION FairSpec
CONSTANTS
  Process = {p1, p2}
  Event = {old, new}
  Expired = {old}
  MaxFaults = 1
  None = None
INVARIANT OncePerProcess
INVARIANT Recorded
PROPERTY NeverStuck
