SPECIFICATION Spec
CONSTANTS
    m1 = m1
    m2 = m2
    r1 = r1
    r2 = r2
    x = x
    y = y
    Message = {m1, m2}
    Content = {x, y}
    Unit <- Units
    Quotes <- Quoted
    Corpus <- Corpora
    Record <- Records
    AnyRevision = AnyRevision
    AnyUnit = AnyUnit
    Absent = Absent
    NoKey = NoKey
    BatchSize = 2
    ProbeSize = 8
    MaxCommands = 2
PROPERTIES
    ContextIsCovered
CHECK_DEADLOCK FALSE
