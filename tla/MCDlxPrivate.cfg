SPECIFICATION Spec
CONSTANTS
  resolved = resolved
  prUpdated = prUpdated
  resolvedQueue = resolvedQueue
  prUpdatedQueue = prUpdatedQueue
  Queues <- MCQueues
  Msgs <- MCMsgs
  HomeOf <- MCHomeOf
  DlxOf <- PrivateDlx
  MaxAttempts = 5
  MaxCopies = 4
INVARIANTS
  Isolation
  AttemptBudget
CHECK_DEADLOCK FALSE
