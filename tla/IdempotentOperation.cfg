SPECIFICATION OperationSpec
CONSTANTS
    u1 = u1
    u2 = u2
    x1 = x1
    first = first
    again = again
    other = other
    k1 = k1
    i1 = i1
    Users = {u1, u2}
    Tenants = {x1}
    NoTenant = NoTenant
    Claim <- MCClaim
    Permissions = {}
    Requests = {first, again, other}
    KeyOf <- MCKeyOf
    UserOf <- MCUserOf
    TenantOf <- MCTenantOf
    InputOf <- MCInputOf
    References = {a, b}
    Memberships <- MCMemberships
    None = None
INVARIANTS
    AnsweredAlike
    AnsweredWithOwn
    OnceUndisturbed
PROPERTY Settles
CONSTRAINT Small
CHECK_DEADLOCK FALSE
