SPECIFICATION BoundedSpec
CONSTANTS
  t1 = t1
  t2 = t2
  Tasks <- TwoTasks
  Granted <- SomeGranted
  MaxSteps = 3
  IdleTimeout = 0
INVARIANTS TypeOK EffectsNeedLoggedApproval EffectsRecorded EveryStepAccountedFor
PROPERTIES ImplementsContract WaitsOnlyForThePerson
CHECK_DEADLOCK FALSE
