CONSTANTS
  BlkSize = 8
  Islot = 2
  XattrSlot = 1
  DevtSlot = 4
  SbSize = 3
  MallocJunk = {7}
  Plans <- MCPlans
SPECIFICATION Spec
INVARIANTS ListExact BlocksTiled NidsHold WritesDisjoint
CHECK_DEADLOCK FALSE
