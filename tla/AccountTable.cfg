\* One connection signs users up while another one uses the table; n is above
\* the limits.
SPECIFICATION FairSpec
CONSTANTS
  t1 = t1
  t2 = t2
  a = a
  b = b
  p = p
  n = n
  Threads = {t1, t2}
  Creators = {t1}
  Name = {a, b, n}
  Password = {p, n}
  Brimful = {}
  TooLong = {n}
  MAX_ACCOUNT_CNT = 2
  Empty = Empty
  RunOn = RunOn
  Pending = Pending
  None = None
INVARIANTS TypeOK UniqueNames
PROPERTIES EntriesStay CreatedIsLetIn ImplementsDirectory CallsReturn
