SPECIFICATION Spec
CONSTANTS
  u1 = u1  u2 = u2  b1 = b1  b2 = b2  c1 = c1  c2 = c2
  l1 = l1  l2 = l2  r1 = r1  r2 = r2  n1 = n1  n2 = n2
  Nobody = Nobody  NoCopy = NoCopy  NoBook = NoBook
  User <- TwoUsers
  Book <- OneBook
  Copy <- OneCopy
  Loan <- OneLoan
  Resv <- OneResv
  Conn <- TwoConns
  BookOf <- SameTitle
  Kinds <- CheckoutKinds
  MaxTime = 1
  HoldWindow = 1
  LoanPeriod = 1
  MaxRenewals = 0
SYMMETRY RowsAndCopies
INVARIANTS
  PendingCovered
CHECK_DEADLOCK FALSE
