SPECIFICATION Spec
CONSTANTS
    Users = {u1}
    Projects = {p1, p2}
    Txs = {t1, t2}
    RoleNames = {"admin", "member"}
    AdminRole = "admin"
    Profiles = {f1, f2}
    FirstProfile = f1
    InitialAccess <- Everywhere
    Ops <- AccountFamily
    MaxEvents = 3
    None = None
SYMMETRY TxSymmetry
INVARIANTS
    FeedMatchesTable
    DisabledIsReported
