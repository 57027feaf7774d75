CONSTANTS
  MaxDir = 1
  MaxEntries = 2
  MaxFileEntries = 2
  Dirs <- MCDirs
  Files <- MCFiles
  Root = 0
  Trees <- MCTrees
  FailSets = {{10}}
  Cap = 2
  NULL = NULL
SPECIFICATION Spec
INVARIANT EntriesPlaced
CHECK_DEADLOCK FALSE
