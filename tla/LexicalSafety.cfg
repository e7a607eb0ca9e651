SPECIFICATION Spec
CONSTANTS
    m1 = m1
    m2 = m2
    m3 = m3
    v1 = v1
    v2 = v2
    Message = {m1, m2, m3}
    Revision = {v1, v2}
    Unit <- Units
    Tombstone <- Tombstones
    Chain <- Chains
    Body <- Bodies
    Newline = {m3}
    AnyRevision = AnyRevision
    AnyUnit = AnyUnit
    MaxBatch = 2
    MaxCopies = 2
INVARIANTS
    FtsInSync
    NothingDeletedIsIndexed
    NoDeletedContext
    TombstonesKept
