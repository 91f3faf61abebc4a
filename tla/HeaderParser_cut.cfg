SPECIFICATION Spec
CONSTANTS
    Texts <- SomeTexts
    MaxCalls = 4
    HookAnswers = {"SUCCESS", "REFUSED"}
    ReadsFail = TRUE
INVARIANTS
    ParsedAsText
    RestGivenBack
CHECK_DEADLOCK FALSE
