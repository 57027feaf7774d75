CONSTANTS
  Images <- MCImages
  Paths <- MCPaths
  PrefixOf <- MCPrefixOf
  Before = {{}, {"/b"}, {"/a", "/ba", "/bb"}}
  BadNids = {2}
  NR = 8
  Threads = {t1, t2}
  Modes = {"single", "multi", "silent"}
  Overwrite = {TRUE, FALSE}
  NULL = NULL
SPECIFICATION Spec
INVARIANTS TreeExtracted FailuresLogged
CHECK_DEADLOCK FALSE
