\* The histories of three accounts; the reader asks for one message.
SPECIFICATION Spec
CONSTANTS
  w = w
  r = r
  Writers = {w}
  Readers = {r}
  AccountCount = 3
  MAX_RECORD_COUNT = 2
  MaxAdded = 2
  Numbers = {1}
  NULL = NULL
CHECK_DEADLOCK FALSE
INVARIANT LatestBetween
