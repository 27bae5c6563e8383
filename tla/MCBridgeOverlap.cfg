\* Requests for the same bridge and link overlap; calls work, a single bridge.
SPECIFICATION Spec
CONSTANTS
    Bridges = {ext}
    Internal = {}
    Vlans = {v1}
    Handlers = {h1, h2, h3}
    Requests <- AllRequests
    Serial = FALSE
    Faults = FALSE
SYMMETRY Symmetry
INVARIANTS
    NeverLeftInactive
    PortsOfRunningBridges
