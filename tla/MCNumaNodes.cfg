\* Every way to distribute seven cores over at most two nodes.
SPECIFICATION Spec
CONSTANTS
    Cores <- SevenCores
    NumNodes = 2
    MaxUint32 = 255
INVARIANTS
    EveryCoreInOnePair
    PhysicalRangeExact
CHECK_DEADLOCK FALSE
