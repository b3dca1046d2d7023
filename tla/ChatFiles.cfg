\* One user writes a message or sends two files to the other, who listens: one
\* file is empty, the other a segment that fits into one read, and a third cannot
\* be opened.  A sign-up finds the table full.
SPECIFICATION FairSpec
CONSTANTS
  c1 = c1
  c2 = c2
  a = a
  b = b
  p = p
  f1 = f1
  f2 = f2
  f3 = f3
  Conn = {c1, c2}
  Name = {a, b}
  Password = {p}
  File = {f1, f2, f3}
  None = None
  MAX_ACCOUNT_CNT = 2
  MaxRecorded = 9
  Capacity = 3
  Registered <- AllAccounts
  Fragments = FALSE
  Enters <- AAndB
  Knocks <- BAndA
  MaxSignUps <- OnlyC1
  MaxLogIns <- Once
  MaxKnocks <- OnlyC1
  MaxMessages <- OnlyC1
  FileLists <- EmptyFirst
  FileLength <- FEmpty
  Killable = {}
  StickyEOF = TRUE
CHECK_DEADLOCK FALSE
PROPERTIES FilesAreWhole SendingSurvives ListenersAreTold
