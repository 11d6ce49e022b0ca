SPECIFICATION Spec
CONSTANTS
  None = None
  FirstSideFiles = {0}
  Pid = {s1, s2}
  Commander = {c1}
  MaxCommands = 2
  MaxRestores = 1
  MaxFaults = 1
INVARIANT StrandsOnlyRaced
INVARIANT Tracked
INVARIANT NoOrphan
INVARIANT NeverGone
INVARIANT NoForeignSideFiles
INVARIANT FailureUndone
SYMMETRY Symmetry
CHECK_DEADLOCK FALSE
