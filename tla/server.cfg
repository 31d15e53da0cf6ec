SPECIFICATION LiveSpec
CONSTANTS
  c1 = c1
  c2 = c2
  Conn <- Two
  Kinds <- LimitKinds
  MaxPeers = 1
  MaxMsgsPerSec = 2
  RateWindow = 0
  AuthDeadline = 0
  IdleTimeout = 0
  MaxSent <- OneSends
  None = None
INVARIANTS TypeOK NothingBeforeAuth
PROPERTIES CloseIsFinal QueueDrains SilentPeerLeaves
CHECK_DEADLOCK FALSE
