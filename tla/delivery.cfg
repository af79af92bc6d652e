SPECIFICATION Spec
CONSTANTS
    Users = {1, 2, 3}
    Project = p1
    Projects = {p1, p2}
    Roles = {a, b}
    TheRole = a
    InitialTable <- SomeHaveAccess
    PageSize = 1
    MaxEvents = 2
    MaxFaults = 2
    Events = {1, 2}
    Stamps = {1, 2}
    Publishers = {s1, s2}
    MaxAttempts = 1
    WriterTries = 2
    None = None
    Nothing = Nothing
INVARIANTS
    TypeOK
    PublishedIsInTopic
    DuplicatesFromFailures
    CopyWithinReach
PROPERTIES
    EveryRowReachesTopic
    CopyFollows
    EventsReadInTurn
CHECK_DEADLOCK FALSE
