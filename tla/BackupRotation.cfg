SPECIFICATION RotationSpec
CONSTANTS
  Keep = 3
  Loader = {l1}
  Writer = w
  MaxWrites = 5
  MaxFaults = 2
  MaxCorrupt = 2
INVARIANT RotationTypeOK
INVARIANT NeverForgotten
INVARIANT LosesFew
PROPERTY Atomic
CHECK_DEADLOCK FALSE
