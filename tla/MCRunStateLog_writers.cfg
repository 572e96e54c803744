SPECIFICATION BoundedSpec
CONSTANTS
    a = a
    b = b
    Nobody = Nobody
    Identity <- MCIdentity
    MaxEvents = 11
INVARIANTS
    TypeOK
    Acknowledged
    EarlierPassRevoked
PROPERTIES
    TornLogFrozen
    ImplementsLog
SYMMETRY Identities
CHECK_DEADLOCK FALSE
