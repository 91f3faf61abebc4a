SPECIFICATION Spec
CONSTANTS
    Bodies <- AnyBody
    Boundary <- Bounds
    MaxLevel = 2
    HookActs = {"keep", "refuse"}
    ReadsFail = TRUE
    SpoolFails = TRUE
INVARIANTS
    ParsedAsText
    HooksSeeUploads
PROPERTIES
    CallAdvances
CHECK_DEADLOCK FALSE
