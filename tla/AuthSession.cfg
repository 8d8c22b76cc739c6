SPECIFICATION Spec
CONSTANTS
    u1 = u1
    u2 = u2
    x1 = x1
    x2 = x2
    Users = {u1, u2}
    Tenants = {x1, x2}
    NoUser = NoUser
    NoTenant = NoTenant
    Claim <- MCClaim
    Permissions <- AskedRows
    Tabs = {t1}
    RequireAal2 = TRUE
    Members <- MCMembers
    Changes <- MCChanges
    MaxSessions = 2
    MaxChanges = 1
INVARIANTS
    ShownIsAuthorized
    EndedSessionRefused
    ShellMovesOn
