CONSTANTS
  Size = 3
  MaxNum = 2
  NTasks = 3
  Watch = {TRUE, FALSE}
  Spurious = TRUE
  NULL = NULL
SPECIFICATION Spec
INVARIANT PoolDrains
PROPERTY PoolEnds
CHECK_DEADLOCK FALSE
