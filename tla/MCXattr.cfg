SPECIFICATION Spec
CONSTANTS
    Configs <- MCConfigs
    Bs = 16
    MaxShared = 1
    Bucket <- MCBucket
    SharedAddr = 8
INVARIANTS XattrsReadBack ItemsHeld
CHECK_DEADLOCK FALSE
