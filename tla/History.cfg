\* One thread adds messages to the histories of two accounts, in which there is
\* room for two; another one reads.  Both stop at the bound.
SPECIFICATION Spec
CONSTANTS
  w = w
  r = r
  Writers = {w}
  Readers = {r}
  AccountCount = 2
  MAX_RECORD_COUNT = 2
  MaxAdded = 3
  Numbers = {0, 1, 2}
  NULL = NULL
CHECK_DEADLOCK FALSE
INVARIANTS TypeOK SameConversation
PROPERTIES RecordsStay ImplementsMessageLog
