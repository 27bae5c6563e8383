\* Overlapping, duplicate and failing requests, agent restarts.
SPECIFICATION Spec
CONSTANTS
    Interfaces = {i1, i2}
    Handlers = {h1, h2}
    Faults = TRUE
    SetupFirst = FALSE
SYMMETRY Symmetry
INVARIANTS
    TypeOK
    GrantedChainsIntact
    AcceptIsLast
    HooksUnique
PROPERTIES
    OrphanedForever
    HandsOutLinksLikeALock
