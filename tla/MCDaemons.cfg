\* One guest boots twice; addresses change once; one fault.
SPECIFICATION DaemonsSpec
CONSTANTS
    g1 = g1
    g2 = g2
    a1 = a1
    a2 = a2
    unusable = unusable
    Guests = {g1, g2}
    Addresses = {a1, a2, unusable}
    FirstLease <- First
    MayLack = {g1}
    Kind <- KindOf
    MaxExchanges <- Boots
    MaxChanges = 1
    MaxFaults = 1
INVARIANTS
    DaemonsTypeOK
    BoundToOwnAddress
    ToldOwnHostname
PROPERTY
    GuestsGetAddresses
\* When every guest is bound and the bounds are used up, nothing is left to do.
CHECK_DEADLOCK FALSE
