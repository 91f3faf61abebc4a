SPECIFICATION Spec
CONSTANTS
    MaxLen = 5
    BlockSize = 2
    Unlimited = 9
    n1 = n1
    n2 = n2
    d1 = d1
    d2 = d2
    Names = {n1, n2}
    Hooks = {h1}
    Find = Find
    Dirs = {d1, d2}
    Null = Null
    Requests <- SomeRequests
    ReadLimits = {1, 2}
    BrigadeLimits = {3}
    PresetParsers <- SomeParsers
INVARIANTS
    ParserInStep
    OverlimitJustified
    EndMeansAll
    AnswerIsFinal
    SettingsHonoured
PROPERTIES
    CallsReturn
CHECK_DEADLOCK FALSE
