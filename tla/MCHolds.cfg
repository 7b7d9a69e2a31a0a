SPECIFICATION SceneSpec
CONSTANTS
  u1 = u1  u2 = u2  b1 = b1  b2 = b2  c1 = c1  c2 = c2
  l1 = l1  l2 = l2  r1 = r1  r2 = r2  n1 = n1  n2 = n2
  Nobody = Nobody  NoCopy = NoCopy  NoBook = NoBook
  User <- TwoUsers
  Book <- OneBook
  Copy <- TwoCopies
  Loan <- OneLoan
  Resv <- OneResv
  Conn <- TwoConns
  BookOf <- SameTitle
  Kinds <- HoldKinds
  MaxTime = 2
  HoldWindow = 1
  LoanPeriod = 1
  MaxRenewals = 0
  Title = {t1}
  Task = {j1, j2}
  MaxImages = 2
  MaxRecords = 2
  MaxSnapshots = 1
  MaxExports = 1
  Notice = {i1, i2}
  Socket = {k1, k2}
  Ask = {a1, a2}
  NoSocket = NoSocket
  Limit = 1
  MaxChanges = 2
  MaxTokens = 2
  MaxFaults = 1
SYMMETRY Swaps
INVARIANTS
  FulfilledByLoan
PROPERTIES
  LentFromTheShelf
  CoversAndNoticesStand
CHECK_DEADLOCK FALSE
