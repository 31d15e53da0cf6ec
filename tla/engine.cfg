SPECIFICATION LiveSpec
CONSTANTS
  d1 = d1
  d2 = d2
  Drivers <- TwoDrivers
  Declared <- OneDeclares
  Mixes <- Uses
  FrameTimeout = 1
  MaxRequests = 3
  MaxRestarts = 2
  MaxChanges = 1
INVARIANTS TypeOK AcceptedFrameIsOfItsRequest EveryAckServesOnce
PROPERTIES InjectionIsNeverSilent HandlersReturn
CHECK_DEADLOCK FALSE
