\* A client dies after its message.
SPECIFICATION Spec
CONSTANTS
  c1 = c1
  c2 = c2
  a = a
  b = b
  p = p
  f1 = f1
  f2 = f2
  f3 = f3
  Conn = {c1, c2}
  Name = {a, b}
  Password = {p}
  File = {f1}
  None = None
  MAX_ACCOUNT_CNT = 3
  MaxRecorded = 9
  Capacity = 2
  Registered <- AllAccounts
  Fragments = FALSE
  Enters <- AAndB
  Knocks <- BAndA
  MaxSignUps <- Never
  MaxLogIns <- Once
  MaxKnocks <- Once
  MaxMessages <- C1Two
  FileLists <- NoFiles
  FileLength <- NoLength
  Killable = {c1}
  StickyEOF = FALSE
CHECK_DEADLOCK FALSE
INVARIANT NoMessageTwice
