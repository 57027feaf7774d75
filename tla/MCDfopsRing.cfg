CONSTANTS
  Jobs = {j1, j2, j3}
  FailJobs = {j1}
  Stop = Stop
  Entries = 4
  Spurious = {"full", "empty", "drain"}
  NULL = NULL
SPECIFICATION FairSpec
INVARIANTS ItemStable FlushIsComplete JoinIsComplete
PROPERTIES ImplementsJobPipe MainReturns
CHECK_DEADLOCK FALSE
