CONSTANTS
    Types <- MCTypes
    Parsers = {"urlencoded", "own"}
    BuiltIn <- MCBuiltIn
    NoParser = "none"
    Hosts = {"apache2", "apache1", "perl"}
    WORD = 1024
    KILO = 8
    DefaultReadLimit = 200
    DefaultBrigadeLimit = 20
    Sizes <- MCSizes
    Dirs = {"tmp1", "tmp2"}
    NoDir = "unset"
    MaxGenerations = 3
    MaxBoots = 1
    MaxRegistrations = 2
    MaxDirectives = 3
SPECIFICATION Spec
INVARIANTS
    ServedAsRegistered
    LimitsAsAsked
    StartupSucceeds
CHECK_DEADLOCK FALSE
