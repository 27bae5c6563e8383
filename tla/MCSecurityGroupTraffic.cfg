\* Failing requests and restarts once the setup is done.
SPECIFICATION Spec
CONSTANTS
    Interfaces = {i1, i2}
    Handlers = {h1, h2}
    Faults = TRUE
    SetupFirst = TRUE
SYMMETRY Symmetry
INVARIANTS
    JumpsGoDown
    SpoofedSourceDropped
    RogueDhcpDropped
    UnmatchedToGuestDropped
    HonestTrafficAccepted
