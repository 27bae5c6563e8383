\* The chain addINPUTRules works on.
SPECIFICATION Spec
CONSTANTS
    Interfaces = {i1, i2}
    Handlers = {h1}
    Faults = FALSE
    SetupFirst = TRUE
INVARIANT
    SpoofedSourceToNodeDropped
