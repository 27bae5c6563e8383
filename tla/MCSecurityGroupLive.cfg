\* Working commands, setup first: requests end in granted links.
SPECIFICATION FairSpec
CONSTANTS
    Interfaces = {i1, i2}
    Handlers = {h1, h2}
    Faults = FALSE
    SetupFirst = TRUE
PROPERTY
    RequestGetsGranted
