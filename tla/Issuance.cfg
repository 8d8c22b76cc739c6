SPECIFICATION Spec
CONSTANTS
    Cases = {c1}
    Reviewers = {r1, r2}
INVARIANTS
    AuthorityBehind
    RegistryAgrees
    MarkOnActive
PROPERTIES
    RevivedOnlyCorrected
    AuthoritySpec
