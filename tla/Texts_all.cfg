SPECIFICATION Spec
CONSTANTS
    WordBytes <- SomeBytes
    CharsetBytes <- SomeCharsetBytes
    MaxLen <- SomeLengths
INVARIANTS
    ReadsBack
    CharsetDivined
    CookiesKept
    AttributeFound
CHECK_DEADLOCK FALSE
