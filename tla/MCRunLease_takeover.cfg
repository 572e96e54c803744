SPECIFICATION Spec
CONSTANTS
    loop = loop
    child1 = child1
    child2 = child2
    other = other
    NoSession = NoSession
    NoLease = NoLease
    Session <- MCSession
    Loop <- MCLoop
    ParentOf <- MCParentOf
    Crashable <- MCCrashable
    StaleAfter = 1
    TakeoverInUse = TRUE
INVARIANTS
    TypeOK
    OneHolder
    OneWriter
PROPERTIES
    OrderlySuccession
    ImplementsRegister
CHECK_DEADLOCK FALSE
