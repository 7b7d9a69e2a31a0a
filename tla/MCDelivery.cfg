SPECIFICATION SceneSpec
CONSTANTS
  None = None
  w1 = w1  w2 = w2
  Event = {1, 2}
  Kinds <- AnyKinds
  MessageOf <- FirstIsMessage
  Worker = {w1, w2}
  BatchLimit = 2
  StaleAfter = 1
  FirstDelay = 1
  Doublings = 1
  MaxDelay = 1
  Scheduled = 1
  MaxFaults = 1
  Administered = {2}
  Security = {2}
  Manual = {1}
  Restore = Restore
  Limit = 2
  Reserve = 1
  MaxAttempts = 2
  MaxFailures = 1
INVARIANTS
  TypesOK
  StatusTellsTheTruth
PROPERTIES
  EventsTakeEffectOnce
  DeliveriesSettle
CHECK_DEADLOCK FALSE
