\* One connection sends to the account, one login receives: every interleaving
\* of the two threads on a ring of three slots that fills up and wraps.
SPECIFICATION FairSpec
CONSTANTS
  Senders = {s1}
  Receivers = {r1}
  MAX_QUEUE_SIZE = 3
  MaxSent = 5
  NULL = NULL
INVARIANTS TypeOK DeliveredInOrder HoldsLiveJob AcceptedIsKept
PROPERTIES ImplementsMailbox AcceptedIsDelivered
