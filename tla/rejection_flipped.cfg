SPECIFICATION Spec
CONSTANTS
  t1 = t1
  t2 = t2
  Tasks <- TwoTasks
  Granted <- SomeGranted
  MaxSteps = 1
  IdleTimeout = 1
INVARIANT AcknowledgedRejectionHolds
CHECK_DEADLOCK FALSE
