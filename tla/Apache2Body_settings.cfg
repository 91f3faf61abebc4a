SPECIFICATION Spec
CONSTANTS
    BodyLen = 2
    BlockSize = 1
    Names = {a, b}
    UserHooks = {u, v}
    Find = find
    Null = null
    Requests <- AllRequests
    ReadSizes = {1}
    ReadLimits = {}
    BrigadeLimits = {1}
    TempDirs = {"tmp"}
    PresetParsers <- Presets
PROPERTIES
    HooksKept
    CallsReturn
    ConsumerServed
CHECK_DEADLOCK FALSE
