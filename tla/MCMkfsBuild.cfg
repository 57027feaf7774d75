CONSTANTS
  MaxDir = 3
  MaxEntries = 2
  MaxFileEntries = 3
  Dirs <- MCDirs
  Files <- MCFiles
  Root = 0
  Trees <- MCTrees
  FailSets = {{}, {0}, {1}, {10}}
  Cap = 2
  NULL = NULL
SPECIFICATION Spec
INVARIANTS EntriesPlacedIfHandled LifetimesRight WrittenOnce
PROPERTY BuildEnds
CHECK_DEADLOCK FALSE
