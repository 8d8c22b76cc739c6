SPECIFICATION Spec
CONSTANTS
    reviewer = reviewer
    compliance = compliance
    attestor = attestor
    owner = owner
    Users = {reviewer, compliance, attestor, owner}
    RoleOf <- MCRoleOf
    Texts = {text1}
    Cases = {case1}
    Requests = {q1}
    Idle = Idle
    Determinations <- MCDeterminations
    EvidenceTiers = {1, 4}
    Overlap = FALSE
    MaxChain = 9
    MaxCorrections = 1
    MaxVersion = 2
INVARIANTS
    CredentialCurrent
    DistinctApprovers
    TierFourOnFourEyes
    InactiveMarkDenied
    AuthorityChain
    HigherTierAttested
PROPERTY TerminalHolds
