SPECIFICATION FairSpec
CONSTANTS
  Server = {p1}
  Change = {c1}
  Nobody = Nobody
  MaxTime = 2
  MaxRestores = 2
  MaxBackups = 1
  MaxFaults = 0
PROPERTY
  ReversedIsUndone
CHECK_DEADLOCK FALSE
