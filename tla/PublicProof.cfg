SPECIFICATION Spec
CONSTANTS
    t4 = t4
    t4MissingSecondApproval = t4MissingSecondApproval
    notFound = notFound
    Library = {t4, t4MissingSecondApproval, notFound}
    Fixture <- MCFixture
    Initial = t4
    Lasting = {t4}
    Offered = {"active", "suspended"}
    Stages = 3
    Slots = {r1, r2}
    LogLimit = 1
    MaxChanges = 2
    MaxReplays = 1
    None = None
INVARIANTS
    ConsequencesAgree
    LoggedAsServed
PROPERTY RunEnds
