SPECIFICATION UpkeepSpec
CONSTANTS
  p1 = p1  p2 = p2  c1 = c1  c2 = c2
  Server = {p1, p2}
  Change = {c1, c2}
  Nobody = Nobody
  MaxTime = 1
  MaxRestores = 2
  MaxBackups = 1
  MaxFaults = 1
  Call = {q1, q2}
  Bootstrap = Bootstrap
  MaxSession = 2
  Notice = {i1}
  Socket = {k1, k2}
  Ask = {a1, a2}
  NoSocket = NoSocket
  Limit = 1
  MaxChanges = 2
  MaxTokens = 2
  MaxMishaps = 1
  Book = {b1}
  Queued = {f1}
  Edit = {w1}
  MaxRuns = 2
INVARIANTS
  TypesOK
  TrailIsKept
  ProgressIsTrue
PROPERTIES
  UndoneIsSaved
  SignInLasts
  ManualDetailsStand
  UndertakingsEnd
CHECK_DEADLOCK FALSE
