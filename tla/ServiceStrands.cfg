SPECIFICATION Spec
CONSTANTS
  None = None
  FirstSideFiles = {0}
  Pid = {s1, s2}
  Commander = {c1}
  MaxCommands = 2
  MaxRestores = 0
  MaxFaults = 1
INVARIANT NeverStranded
CHECK_DEADLOCK FALSE
