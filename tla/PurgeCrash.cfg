SPECIFICATION Spec
CONSTANTS
    Purger = {p1}
    m1 = m1
    m2 = m2
    r1 = r1
    AnyRevision = AnyRevision
    None = None
    Record <- Records
    Ledger <- TwoLedgers
    MaxFaults = 1
INVARIANT PriorRemainsPublished
