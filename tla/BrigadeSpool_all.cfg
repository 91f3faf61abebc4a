SPECIFICATION Spec
CONSTANTS
    Brigades = {a, b}
    Inputs <- FewInputs
    HeapLimit = 2
    NElts = 2
    BucketLimit = 2
    ReadSize = 2
    SharedInput = FALSE
    SecondSpool = FALSE
    StaleIovecs = FALSE
    MaxBytes = 3
    MaxFiles = 2
    MaxTaken = 1
SYMMETRY Twins
INVARIANTS
    ContentKept
    TakenKept
    SoleWriter
    MemoryBounded
PROPERTIES
    ConcatAdvances
CHECK_DEADLOCK FALSE
