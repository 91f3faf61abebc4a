SPECIFICATION Spec
CONSTANTS
    Null = Null
    Names = {"a", "A", "b"}
    Vals <- SomeVals
    Lower <- LowerOf
    Requests <- SomeRequests
    Consoles <- SomeConsoles
    Changes <- SomeChanges
    MaxTied = 1
INVARIANTS
    AnswersStand
    FailuresTold
    IterationInStep
CHECK_DEADLOCK FALSE
