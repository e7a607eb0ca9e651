SPECIFICATION Spec
CONSTANTS
    a = a
    b = b
    s1 = s1
    s2 = s2
    Task <- Tasked
    Client = {c1, c2}
    Carded <- Cards
    None = None
    MaxSaves = 3
    MaxFaults = 2
INVARIANTS
    SavedIsDurable
    BootstrapIsFresh
PROPERTIES
    RecordsAreKept
    RequestsEnd
CHECK_DEADLOCK FALSE
