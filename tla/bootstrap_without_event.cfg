SPECIFICATION Spec
CONSTANTS
    Users = {u1}
    Projects = {p1}
    Txs = {t1}
    RoleNames = {"admin", "member"}
    AdminRole = "admin"
    Profiles = {f1, f2}
    FirstProfile = f1
    InitialAccess <- Nowhere
    Ops = {"EnsureBootstrap"}
    MaxEvents = 3
    None = None
PROPERTIES
    RolesChangeWithEvent
