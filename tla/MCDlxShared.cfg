SPECIFICATION Spec
CONSTANTS
  resolved = resolved
  prUpdated = prUpdated
  resolvedQueue = resolvedQueue
  prUpdatedQueue = prUpdatedQueue
  Queues <- MCQueues
  Msgs <- MCMsgs
  HomeOf <- MCHomeOf
  DlxOf <- SharedDlx
  MaxAttempts = 3
  MaxCopies = 4
INVARIANTS
  AttemptBudget
CHECK_DEADLOCK FALSE
