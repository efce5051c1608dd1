SPECIFICATION PaySpec
CONSTANTS
    Workers = {1, 2}
    Ids = {1, 2}
    Total = 2
    Splits <- MCSplits
    Changes <- MCChanges
    DueDates = {0, 3, 6}
    ReminderDays = 3
    MaxFaults = 1
    Pollers = {p1, p2}
    Admins = {a1, a2}
    TxHashes = {x1, x2}
    PageSize = 1
    Threshold = 1
    MaxPayments = 2
    Scopes <- MCScopes
SYMMETRY MCSymmetry
INVARIANTS
    PayTypeOK
    RowAgrees
    ReportMissesNothing
    NoTransactionLost
CHECK_DEADLOCK FALSE
