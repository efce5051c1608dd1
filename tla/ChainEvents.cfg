SPECIFICATION Spec
CONSTANTS
    w1 = w1
    w2 = w2
    r1 = r1
    r2 = r2
    Workers = {w1, w2}
    Replicas = {r1, r2}
    Replica <- MCReplica
    Duties <- MCDuties
    MaxEvent = 3
    Ledger <- CutLedger
    Tx <- ThreeTx
    Name <- CutName
    MaxLedger = 2
    MaxRows = 5
    Lookback = 2
    FetchLimit = 2
    MaxRetries = 1
    Faults = {"handler", "db", "redis", "ttl", "crash"}
    MaxFaults = 1
INVARIANT TypeOK
INVARIANT CursorCoversStored
INVARIANT ProcessedMeansHandled
INVARIANT OneTokenPerJob
