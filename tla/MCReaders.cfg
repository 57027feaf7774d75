CONSTANTS
    BlkSz = 128
    PathMax = 80
    Handles = {1}
    Buffers = {216, 4096}
    Spans <- MCSpans
    Configs <- MCConfigs
    Harm <- MCHarm
SPECIFICATION Spec
INVARIANTS CleanReported CleanIsUsable ExtractedIsTree AnswersRight ReaddirExact
