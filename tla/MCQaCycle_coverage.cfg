SPECIFICATION Spec
CONSTANTS
    MaxCycle = 1
    MaxVersion = 2
    MaxEdits = 2
INVARIANTS
    PassCoversRequirement
CHECK_DEADLOCK FALSE
