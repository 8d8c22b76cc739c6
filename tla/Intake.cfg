SPECIFICATION Spec
CONSTANTS
    north = north
    meridian = meridian
    intake = intake
    attestor = attestor
    other = other
    Tenants = {north, meridian}
    Sessions = {intake, attestor, other}
    TenantOf <- MCTenantOf
    Permissions <- MCPermissions
    Batches <- MCBatches
    Seeded <- MCSeeded
    Units <- MCUnits
    Serials = {"1", "2"}
    Lots <- MCLots
    SentBatches <- MCSentBatches
    SentUnits <- MCSentUnits
    Requests = {q1, q2}
    MaxAttested = 1
    MaxFaults = 1
    None = None
INVARIANTS
    LinksHold
    
    AnsweredIsKept
CONSTRAINT Small
SYMMETRY Interchangeable
