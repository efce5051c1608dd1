SPECIFICATION Spec
CONSTANTS
    Workers = {1, 2}
    Milestones = {1}
    Approvers = {1, 2}
    Required = 2
    Amount = 3
    SlaWindow = 10
    AutoApprove = TRUE
    Retention = 10
    WarnBefore = 3
    MaxVersions = 2
    MaxReleases = 1
    MaxFaults = 1
    Scopes <- MCScopes
INVARIANTS
    TypeOK
    OnlyLatestOpen
    RemindedOnce
    ClaimsEnd
    RejectedNeverPaid
    ApprovalsFresh
    BooksAgree
CHECK_DEADLOCK FALSE
