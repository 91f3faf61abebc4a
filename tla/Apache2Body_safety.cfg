SPECIFICATION Spec
CONSTANTS
    BodyLen = 3
    BlockSize = 2
    Names = {a, b}
    UserHooks = {}
    Find = find
    Null = null
    Requests <- ParsedRequests
    ReadSizes = {1, 2}
    ReadLimits = {1, 2}
    BrigadeLimits = {}
    TempDirs = {}
    PresetParsers <- NoPresets
INVARIANTS
    ParserInStep
    OverlimitJustified
    EosMeansWhole
    AnswerIsFinal
PROPERTIES
    TeeSpec
CHECK_DEADLOCK FALSE
