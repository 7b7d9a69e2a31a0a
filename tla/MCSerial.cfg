SPECIFICATION SerialSpec
CONSTANTS
  u1 = u1  u2 = u2  b1 = b1  b2 = b2  c1 = c1  c2 = c2
  l1 = l1  l2 = l2  r1 = r1  r2 = r2  n1 = n1  n2 = n2
  Nobody = Nobody  NoCopy = NoCopy  NoBook = NoBook
  User <- TwoUsers
  Book <- OneBook
  Copy <- TwoCopies
  Loan <- TwoLoans
  Resv <- OneResv
  Conn <- OneConn
  BookOf <- SameTitle
  Kinds <- AllKinds
  MaxTime = 2
  HoldWindow = 1
  LoanPeriod = 1
  MaxRenewals = 1
SYMMETRY RowsAndCopies
INVARIANTS
  TypeOK
  PendingCovered
  CopiesInOnePlace
PROPERTIES
  ReturnedStaysReturned
CHECK_DEADLOCK FALSE
