SPECIFICATION FairSpec
CONSTANTS
    Purger = {p1}
    m1 = m1
    m2 = m2
    r1 = r1
    AnyRevision = AnyRevision
    None = None
    Record <- Records
    Ledger <- Ledgers
    MaxFaults = 3
INVARIANTS
    TypeOK
    GenerationBound
    ReportedIsPurged
PROPERTIES
    OverwrittenIsBackedUp
    PublishesAtomically
    EveryLedgerIsPurged
