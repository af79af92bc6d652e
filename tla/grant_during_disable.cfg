SPECIFICATION Spec
CONSTANTS
    Users = {u1}
    Projects = {p1}
    Txs = {t1, t2}
    RoleNames = {"admin", "member"}
    AdminRole = "admin"
    Profiles = {f1, f2}
    FirstProfile = f1
    InitialAccess <- Nowhere
    Ops = {"GrantAccess", "DisableAccount"}
    MaxEvents = 3
    None = None
INVARIANTS
    DisabledIsReported
