SPECIFICATION Spec
CONSTANTS
    reviewer = reviewer
    compliance = compliance
    attestor = attestor
    owner = owner
    Users = {reviewer, compliance, attestor}
    RoleOf <- MCRoleOf
    Texts = {text1}
    Cases = {case1}
    Requests = {q1, q2}
    Idle = Idle
    Determinations <- TwoDeterminations
    EvidenceTiers = {1}
    Overlap = TRUE
    MaxChain = 9
    MaxCorrections = 1
    MaxVersion = 2
PROPERTY RevokedStaysRevoked
