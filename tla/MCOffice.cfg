SPECIFICATION OfficeSpec
CONSTANTS
  u1 = u1  u2 = u2  b1 = b1  b2 = b2  c1 = c1  c2 = c2
  l1 = l1  l2 = l2  r1 = r1  r2 = r2  n1 = n1  n2 = n2
  Nobody = Nobody  NoCopy = NoCopy  NoBook = NoBook
  User <- TwoUsers
  Book <- OneBook
  Copy <- OneCopy
  Loan <- OneLoan
  Resv <- OneResv
  Conn <- OneConn
  BookOf <- SameTitle
  Kinds <- AllKinds
  MaxTime = 2
  HoldWindow = 1
  LoanPeriod = 1
  MaxRenewals = 0
  LastCopy = 2
  LastNumber = 2
  MaxShelf = 2
  MaxReplacements = 2
  Member = {m2, m3, m4}
  Staff = {m2, m3, m4}
  Admin = {m3, m4}
  Record = {i1, i2}
  Content = {x}
  Absent = Absent
  NoDraft = NoDraft
  Editor = {e1, e2}
  MaxRevision = 4
  Visitor = {v1, v2}
  Scanner = {g1, g2}
  LastDay = 2
  MaxLogs = 3
  Patron = {p1, p2}
  Item = {k1, k2}
  MaxLookups = 3
  Title = {t1}
  Exemplar = {x1, x2}
  HomeOf <- OneHome
  Policy = {y1, y2}
  Field = {f1}
  Cataloguer = {a1, a2}
  Program = {g1}
  Department = {g2}
  Term = {s1, s2}
  Person = {q1, q2}
  Holding = {h1}
  Clerk = {a1, a2}
  LastTermDay = 4
  Holiday = {h1, h2}
  LentItem = {x1}
  Lender = {a1}
  MaxDays = 2
  LastHoliday = 3
INVARIANTS
  TypesOK
  WaitingIsOpen
PROPERTIES
  HoldsEnd
  AccessionsStand
  RecordsStand
  ActedOnWhatWasShown
CHECK_DEADLOCK FALSE
