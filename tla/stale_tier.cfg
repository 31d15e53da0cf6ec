SPECIFICATION Spec
CONSTANTS
  d1 = d1
  d2 = d2
  Drivers <- TwoDrivers
  Declared <- BothDeclare
  Mixes <- OnlyCaptures
  FrameTimeout = 1
  MaxRequests = 1
  MaxRestarts = 0
  MaxChanges = 2
INVARIANT TierIsHonest
CHECK_DEADLOCK FALSE
