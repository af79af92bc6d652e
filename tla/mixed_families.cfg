SPECIFICATION FairSpec
CONSTANTS
    Users = {u1}
    Projects = {p1}
    Txs = {t1, t2}
    RoleNames = {"admin"}
    AdminRole = "admin"
    Profiles = {f1}
    FirstProfile = f1
    InitialAccess <- Nowhere
    Ops <- MixedFamily
    MaxEvents = 2
    None = None
INVARIANTS
    AdminsStayActive
PROPERTIES
    EveryOperationEnds
