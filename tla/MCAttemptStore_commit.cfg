SPECIFICATION Spec
CONSTANTS
    a = a
    b = b
    c = c
    Nobody = Nobody
    NoManifest = NoManifest
    Identity <- MCIdentity
    MaxAttempts = 4
    MaxGeneration = 3
INVARIANTS
    TypeOK
    ManifestNeverInvalid
    OneAttemptPerIteration
    UndisturbedCommit
PROPERTIES
    ImplementsChain
    StrandedForGood
SYMMETRY Identities
CHECK_DEADLOCK FALSE
