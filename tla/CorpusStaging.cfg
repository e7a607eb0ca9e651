SPECIFICATION Spec
CONSTANTS
    r1 = r1
    r2 = r2
    Message <- Messages
    Archive <- Archives
    Tombstone <- Tombstones
    Topic <- Topics
    Rank <- Ranks
    ControlRank <- ControlRanks
    Malformed = Malformed
    Quarantined = Quarantined
    AnyRevision = AnyRevision
    None = None
    MaxFaults = 2
    Target = 1
    RecordLimits = {2, 9}
    MaxContext = 2
    ControlTarget = 1
    CheckpointInterval = 2
    ScanLimits = {3, 20}
    MaxParents = 2
INVARIANT CorpusIsItsInputs
CHECK_DEADLOCK FALSE
