SPECIFICATION Spec
CONSTANTS
    Users = {u1}
    Projects = {p1, p2}
    Txs = {t1, t2}
    RoleNames = {"admin", "member"}
    AdminRole = "admin"
    Profiles = {f1, f2}
    FirstProfile = f1
    InitialAccess <- Nowhere
    Ops <- AccessFamily
    MaxEvents = 2
    None = None
SYMMETRY TxSymmetry
INVARIANTS
    TypeOK
    FeedMatchesTable
    DecidedOnce
PROPERTIES
    CursorSafe
    ImplementsSyncFeed
