SPECIFICATION Spec
CONSTANTS
    Emails = {e1}
    Secrets = {p1, p2}
    Links = {l1, l2}
    Sessions = {s1, s2}
    Requests = {r1, r2}
    Limit = 1
    None = None
SYMMETRY AccountSymmetry
INVARIANTS
    TypeOK
    SessionsFollowPassword
    NoSessionOfDisabled
    OnlyResetsDeadlock
    ComparisonsLimited
PROPERTIES
    PasswordChangesEarned
    LinksUsedOnce
    ChangeEndsResetLinks
    AccountsKept
