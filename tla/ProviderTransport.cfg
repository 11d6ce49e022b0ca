CONSTANTS
  Requests = {r1, r2, r3}
  Origins = {o1}
  MaxGen = 3
  NoOrigin = NoOrigin
SPECIFICATION FairSpec
INVARIANTS DeliveredOnce NoneLeaks
PROPERTIES OnlyFailedRotated CloseSettles
CHECK_DEADLOCK FALSE
