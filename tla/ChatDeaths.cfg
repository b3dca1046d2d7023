\* One client sends to an account nobody uses and may die; the other signs up
\* and leaves; their dead connections kill the server.
SPECIFICATION FairSpec
CONSTANTS
  c1 = c1
  c2 = c2
  a = a
  b = b
  p = p
  f1 = f1
  f2 = f2
  f3 = f3
  Conn = {c1, c2}
  Name = {a, b}
  Password = {p}
  File = {f1, f2}
  None = None
  MAX_ACCOUNT_CNT = 3
  MaxRecorded = 9
  Capacity = 2
  Registered <- JustA
  Fragments = FALSE
  Enters <- AAndB
  Knocks <- C1ToB
  MaxSignUps <- C2Two
  MaxLogIns <- OnlyC1
  MaxKnocks <- OnlyC1
  MaxMessages <- Never
  FileLists <- Backwards
  FileLength <- FShort
  Killable = {c1}
  StickyEOF = FALSE
CHECK_DEADLOCK FALSE
PROPERTIES RepliesCome KnocksAreAnswered ServerDeathIsNoticed
