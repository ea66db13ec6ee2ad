\* Two workers race with the owner; five submissions meet a queue of two and a
\* result table of two, so that both limits are reached.
CONSTANTS
  c1 = c1
  c2 = c2
  Clients = {c1, c2}
  MaxPending = 2
  MaxResults = 2
  MaxRequests = 5
  Throwing = {2}
SPECIFICATION FairSpec
CHECK_DEADLOCK FALSE
INVARIANTS
  QueueInv
  ExecutedInOrder
  NewestResultsKept
  IdsAreUnique
PROPERTIES
  QueuedIsExecuted
  ImplementsExecutor
