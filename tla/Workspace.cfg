SPECIFICATION Spec
CONSTANTS
    northstar = northstar
    meridian = meridian
    intake = intake
    attestor = attestor
    compliance = compliance
    administrator = administrator
    Tenants = {northstar, meridian}
    Sessions = {intake, administrator}
    TenantOf <- MCTenantOf
    Permissions <- MCPermissions
    Batches <- IntakeBatches
    Units <- IntakeUnits
    BatchOf <- MCBatchOf
    Built <- IntakeBuilt
    Slots = {q1, q2}
    MaxStored = 2
    None = None
INVARIANT SyncingEnds
PROPERTY ActsOnOwnTenant
SYMMETRY Interchangeable
