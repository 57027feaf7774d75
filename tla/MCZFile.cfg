SPECIFICATION Spec
CONSTANTS
    BlkSize = 4
    CblkFlag = 4
    FragSpan = 6
    TofLen = 2
    MaxSz = 12
    ChunkSz = 3
    Configs <- MCConfigs
INVARIANTS ReadBack ExtentsMapped
CHECK_DEADLOCK FALSE
