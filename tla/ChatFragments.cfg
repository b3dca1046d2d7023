\* Logins with right and wrong passwords, and reads of the server that may end
\* inside a command.
SPECIFICATION Spec
CONSTANTS
  c1 = c1
  c2 = c2
  a = a
  b = b
  p = p
  f1 = f1
  f2 = f2
  f3 = f3
  q = q
  Conn = {c1, c2}
  Name = {a, b}
  Password = {p, q}
  File = {f1}
  None = None
  MAX_ACCOUNT_CNT = 3
  MaxRecorded = 9
  Capacity = 2
  Registered <- JustB
  Fragments = TRUE
  Enters <- AAndB
  Knocks <- C1ToB
  MaxSignUps <- OnlyC1
  MaxLogIns <- Once
  MaxKnocks <- OnlyC1
  MaxMessages <- C1Two
  FileLists <- NoFiles
  FileLength <- NoLength
  Killable = {}
  StickyEOF = FALSE
CHECK_DEADLOCK FALSE
INVARIANTS TypeOK SessionIsOwned ShownBySender ShownInOrder
