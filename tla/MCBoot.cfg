\* Two faults of any kind and two requests of a client between the agent's lives.
SPECIFICATION BootSpec
CONSTANTS
    int = int
    ext1 = ext1
    ext2 = ext2
    v1 = v1
    v2 = v2
    Bridges = {int, ext1, ext2}
    Internal = {int}
    Vlans = {v1, v2}
    Handlers = {main, h1}
    Main = main
    BridgeList <- List
    VlanOf <- Links
    Barriers <- Places
    Requests <- AllRequests
    Serial = FALSE
    Faults = FALSE
    MaxFaults = 2
    MaxRequests = 2
INVARIANT
    BootTypeOK
PROPERTIES
    ServingNodeIsWired
    AgentComesUp
\* With no fault and no request left, a node that serves does nothing more.
CHECK_DEADLOCK FALSE
