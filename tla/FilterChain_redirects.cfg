SPECIFICATION Spec
CONSTANTS
    BodyLen = 3
    MaxFilters = 3
    MaxRedirects = 1
    MaxOthers = 1
    DefaultLimit = 5
    Configs <- SomeConfigs
INVARIANTS
    BodyPassesOn
    NothingPassesBy
    HandleCanRead
    LimitFollows
CHECK_DEADLOCK FALSE
