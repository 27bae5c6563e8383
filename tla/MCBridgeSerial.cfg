\* Failing calls, agent restarts and reboots; one request per object at a time.
SPECIFICATION Spec
CONSTANTS
    Bridges = {ext, int}
    Internal = {int}
    Vlans = {v1}
    Handlers = {h1, h2}
    Requests <- AllRequests
    Serial = TRUE
    Faults = TRUE
SYMMETRY Symmetry
INVARIANTS
    TypeOK
    RunningBridgeServesDhcp
    VlanUpUnlessReported
PROPERTY
    StuckForever
