SPECIFICATION Spec
CONSTANTS
  c1 = c1
  c2 = c2
  Conn <- Two
  Kinds <- DispatchKinds
  MaxPeers = 2
  MaxMsgsPerSec = 3
  RateWindow = 0
  AuthDeadline = 0
  IdleTimeout = 0
  MaxSent <- BothSend
  None = None
SYMMETRY Sym2
INVARIANTS RepliesInOrder EveryRequestAccountedFor
CHECK_DEADLOCK FALSE
