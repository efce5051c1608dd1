SPECIFICATION FairSpec
CONSTANTS
    w1 = w1
    w2 = w2
    r1 = r1
    r2 = r2
    Workers = {w1, w2}
    Replicas = {r1, r2}
    Replica <- MCReplica
    Duties <- CronDuties
    MaxEvent = 2
    Ledger <- MCLedger
    Tx <- TwoTx
    Name <- MCName
    MaxLedger = 3
    MaxRows = 5
    Lookback = 0
    FetchLimit = 2
    MaxRetries = 2
    Faults = {"handler", "crash"}
    MaxFaults = 1
PROPERTY EveryEventRouted
