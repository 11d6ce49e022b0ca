CONSTANTS
  Procs = {p1, p2}
  MaxOps = 2
  MaxFail = 2
  None = None
SPECIFICATION FairSpec
INVARIANTS TypeOK NoLostUpdate SoleHolder
PROPERTY NeverWedged
CHECK_DEADLOCK FALSE
