SPECIFICATION StartupSpec
CONSTANTS
    Processes = {p1, p2}
    Kids = {k1, k2}
    Lifetime = 1
    Publication = 3
    MaxRotation = 1
    MaxSigning = 1
    MaxTime = 5
    Newest = 3
    None = None
INVARIANTS
    StartupTyped
    UnexpiredVerify
    OneActiveKey
    ServingHasKey
    MigratedOnce
    KnownSchemaServed
PROPERTIES
    OpeningEnds
