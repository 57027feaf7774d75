CONSTANTS
  Workers = {w1, w2, w3}
  Producers = {p1}
  Works = {x1, x2, x3, x4}
  MaxJobs = 2
  NULL = NULL
SPECIFICATION FairSpec
INVARIANTS TypeOK ListIsFifo NoLostFullWakeup NoLostEmptyWakeup DestroyCompletes
PROPERTIES CallsReturn ImplementsExecutor ImplementsFairExecutor
CHECK_DEADLOCK FALSE
