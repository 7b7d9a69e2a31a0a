SPECIFICATION LedgerSpec
CONSTANTS
  u1 = u1  u2 = u2  n1 = n1  n2 = n2  none = none
  NoRate = none  NoPatron = none  NoLoan = none
  Patron = {u1}
  Loan <- TwoLoans
  Holder <- HolderTwo
  OwnRate <- OwnRateTwo
  Interval <- IntervalTwo
  Initial <- InitialTwo
  Rate <- RateTwo
  Conn = {n1, n2}
  Kinds <- EveryKind
  MaxTime = 5
  MaxTx = 3
  LoanPeriod = 1
  MaxRenewals = 1
SYMMETRY TwoConns
INVARIANTS
  TypeOK
  ChargesMatchTerms
  ArchivedPatronOwesNothing
  NoCreditBalance
  SettledMatchesLedger
  ReversedAtMostOnce
PROPERTIES
  ChargesPreserved
CHECK_DEADLOCK FALSE
