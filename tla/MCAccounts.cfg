SPECIFICATION SceneSpec
CONSTANTS
  u1 = u1  u2 = u2  a1 = a1  a2 = a2  a3 = a3  n1 = n1  n2 = n2
  User = {u1, u2}
  SetupPending = {u2}
  Address = {a1, a2, a3}
  HomeOf <- HomeOfBoth
  Session = {s1, s2, s3}
  Challenge = {c1, c2, c3}
  Conn = {n1, n2}
  None = None
  MaxGuesses = 1
  MaxFresh = 2
  MaxRestores = 1
  MaxTime = 2
SYMMETRY Rows
INVARIANTS
  TypeOK
  AcceptedTokensAreCurrent
  OneSessionPerSignIn
  ChallengesAreCurrent
  AddressesClaimed
CHECK_DEADLOCK FALSE
