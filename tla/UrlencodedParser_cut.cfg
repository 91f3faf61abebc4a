SPECIFICATION Spec
CONSTANTS
    Bodies <- AnyBody
    HookAnswers = {"SUCCESS", "REFUSED"}
    ReadsFail = TRUE
INVARIANTS
    ParsedAsText
PROPERTIES
    CallAdvances
CHECK_DEADLOCK FALSE
