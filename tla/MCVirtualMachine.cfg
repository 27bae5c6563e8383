CONSTANTS
    Names = {vm1}
    Disks = {vda}
    Interfaces = {tap1}
    Handlers = {h1, h2}
    StartAlone = TRUE
    Faults = TRUE

SPECIFICATION Spec
SYMMETRY Symmetry

INVARIANTS
    TypeOK
    AttachedDevicesInGuest
    GuestMatchesConfig
PROPERTY NoNameAddedTwice
