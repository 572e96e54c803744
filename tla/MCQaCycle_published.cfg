SPECIFICATION Spec
CONSTANTS
    MaxCycle = 1
    MaxVersion = 2
    MaxEdits = 2
INVARIANTS
    PublishedPassVerified
CHECK_DEADLOCK FALSE
