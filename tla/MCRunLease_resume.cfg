SPECIFICATION FairSpec
CONSTANTS
    loop = loop
    child1 = child1
    child2 = child2
    other = other
    NoSession = NoSession
    NoLease = NoLease
    Session <- MCSession
    Loop <- MCLoop
    ParentOf <- MCParentOf
    Crashable <- MCLoop
    StaleAfter = 1
    TakeoverInUse = FALSE
PROPERTY
    CrashedRunRecovers
CHECK_DEADLOCK FALSE
