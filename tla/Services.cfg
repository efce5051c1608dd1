SPECIFICATION Spec
CONSTANTS
    Workers = {w1, w2}
    MaxFaults = 3
    Scopes <- MCScopes
    Users = {1, 2}
    Emails = {1, 2}
    MaxFailed = 2
    LockTime = 1
    RefreshTime = 1
    LinkTime = 1
    EraseWindow = 1
    KeepTime = 1
    BatchSize = 1
    Bosses = {1, 2, 3}
    TransferTime = 2
    Payers = {p1}
    EntryKeys = {1}
    EntryAmounts <- MCAmounts
    Fees = {2}
    MaxAppends = 2
    PostKeys = {1}
    KeyTime = 2
    Topics = {t1}
    Events = {e1}
    BatchTime = 1
    MaxTries = 2
    Cases = {d1}
    StageTime = 1
    EvidenceTime = 2
    WarningTime = 1
    Uploads <- MCUploads
    Infected <- MCInfected
    ScanAttempts = 2
    SweepBatch = 1
    StaleTime = 1
    GraceTime = 1
    SponsorCap = 4
    MaxFee = 2
    FeesCharged = {1, 2}
    DayTime = 2
INVARIANTS
    ServicesTypeOK
    OneLiveToken
    LockoutCounts
    OnlyPendingEmailStays
    OneOwner
    EveryEventAccounted
    EscalatedOnce
    OncePerKey
    StoredFilesKept
    UploadsScanned
    SpendBounded
PROPERTY
    ImplementsPrepaidCredit
SYMMETRY WorkerSymmetry
CHECK_DEADLOCK FALSE
