CONSTANTS
  Reads = {r1, r2, r3}
  Orders = {o1}
  Leaving = {r1, o1}
  KeyOf <- MCKeyOf
  Workers = 2
  QueueSize = 1
  None = None
SPECIFICATION FairSpec
INVARIANT OneLiveCallPerKey
PROPERTIES
  AbandonedOrderNotSent
  EveryRequestAnswered
CHECK_DEADLOCK FALSE
