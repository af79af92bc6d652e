SPECIFICATION Spec
CONSTANTS
    Users = {u1}
    Clients = {c1, c2}
    TheProject = p1
    Projects = {p1}
    ProjectOf <- OneProject
    Codes = {k1}
    Tokens = {n1, n2, n3}
    Requests = {r1, r2}
    Ops = {"Authorize", "Exchange", "Refresh", "GrantAccess", "ActivateAccount", "RevokeAccess", "DisableAccount", "ChangePassword", "ResetPassword"}
    None = None
SYMMETRY ClientSymmetry
INVARIANTS
    TypeOK
    OneLiveToken
PROPERTIES
    DeadFamilyStaysDead
    PasswordChangeEndsFamilies
    ImplementsSignIns
