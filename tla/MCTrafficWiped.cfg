\* A request that fails after another link was granted.
SPECIFICATION Spec
CONSTANTS
    Interfaces = {i1, i2}
    Handlers = {h1}
    Faults = TRUE
    SetupFirst = TRUE
INVARIANT
    SpoofedSourceAlwaysDropped
