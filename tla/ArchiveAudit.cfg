SPECIFICATION Spec
CONSTANTS
    a = a
    b = b
    c = c
    Identity = {a, b, c}
    Content <- Contents
    Expected <- Checksums
    Exposed <- Exposures
    Malformed = Malformed
    Quarantined = Quarantined
    None = None
    MaxRecords = 3
    MaxFaults = 3
    CommitEvery = 1
INVARIANTS
    TypeOK
    CompleteAuditIsExact
    CoverageIsOfItsAudit
PROPERTIES
    CompleteAuditIsFresh
    AuditFinishes
CHECK_DEADLOCK FALSE
