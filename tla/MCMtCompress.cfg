CONSTANTS
  N = 3
  Segs <- MCSegs
  Blks <- MCBlks
  Modes = {"mt", "global", "all_fragments"}
  Workers = {w1, w2}
  MaxJobs = 2
  Cap = 2
  Fails = {"segment", "fragment"}
  Spurious = {"ictx", "g_ictx"}
  NULL = NULL
SPECIFICATION Spec
INVARIANTS SegmentsInOrder ContextsOwned
PROPERTY CompressEnds
CHECK_DEADLOCK FALSE
