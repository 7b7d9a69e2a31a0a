SPECIFICATION Spec
CONSTANTS
  None = None
  Event = {1, 2}
  Kinds <- ComposedKinds
  MessageOf <- SecondIsMessage
  Worker = {w1, w2}
  BatchLimit = 2
  StaleAfter = 1
  FirstDelay = 1
  Doublings = 1
  MaxDelay = 2
  Scheduled = 1
  MaxFaults = 2
  Administered = {1, 2}
INVARIANT
  CancelledNeverWritten
CHECK_DEADLOCK FALSE
