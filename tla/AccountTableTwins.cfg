\* Two connections sign up the same name.
SPECIFICATION Spec
CONSTANTS
  t1 = t1
  t2 = t2
  a = a
  p = p
  q = q
  Threads = {t1, t2}
  Creators = {t1, t2}
  Name = {a}
  Password = {p, q}
  Brimful = {}
  TooLong = {}
  MAX_ACCOUNT_CNT = 2
  Empty = Empty
  RunOn = RunOn
  Pending = Pending
  None = None
INVARIANT UniqueNames
