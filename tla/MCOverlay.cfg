SPECIFICATION Spec
CONSTANTS
    Configs <- MCConfigs
    Stripped <- MCStripped
    OpqName = ".opq"
INVARIANTS TreeIsTar LinksExact MergedIsOverlay
CHECK_DEADLOCK FALSE
