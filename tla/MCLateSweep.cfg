SPECIFICATION Spec
CONSTANTS
  u1 = u1  u2 = u2  n1 = n1  n2 = n2  none = none
  NoRate = none  NoPatron = none  NoLoan = none
  Patron = {u1}
  Loan <- OneLoan
  Holder <- HolderOne
  OwnRate <- OwnRateOne
  Interval <- IntervalOne
  Initial <- InitialOne
  Rate <- RateOne
  Conn = {n1, n2}
  Kinds <- SweepKinds
  MaxTime = 3
  MaxTx = 0
  LoanPeriod = 1
  MaxRenewals = 1
PROPERTIES
  ReturnedLoanStands
