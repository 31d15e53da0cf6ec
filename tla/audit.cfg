SPECIFICATION Spec
CONSTANTS
  MaxAppends = 4
  MaxRestarts = 2
INVARIANTS TypeOK HonestLogVerifies TamperingShows PinnedHeadShowsTruncation AcknowledgedIsOnDisk
CHECK_DEADLOCK FALSE
