SPECIFICATION Spec
CONSTANTS
    northstar = northstar
    meridian = meridian
    intake = intake
    attestor = attestor
    compliance = compliance
    administrator = administrator
    Tenants = {northstar, meridian}
    Sessions = {attestor, compliance}
    TenantOf <- MCTenantOf
    Permissions <- MCPermissions
    Batches <- ReviewBatches
    Units <- ReviewUnits
    BatchOf <- MCBatchOf
    Built <- ReviewBuilt
    Slots = {q1, q2}
    MaxStored = 3
    None = None
INVARIANT ShownWasStored
PROPERTY NoOlderThanAsked
SYMMETRY Interchangeable
