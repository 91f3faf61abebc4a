SPECIFICATION Spec
CONSTANTS
    MaxLen = 3
    BlockSize = 2
    Unlimited = 9
    n1 = n1
    n2 = n2
    d1 = d1
    d2 = d2
    Names = {n1}
    Hooks = {}
    Find = Find
    Dirs = {d1, d2}
    Null = Null
    Requests <- NestedRequests
    ReadLimits = {}
    BrigadeLimits = {}
    PresetParsers <- NoParsers
PROPERTIES
    CallsReturn
CHECK_DEADLOCK FALSE
