SPECIFICATION UndisturbedSpec
CONSTANTS
    r1 = r1
    r2 = r2
    w1 = w1
    w2 = w2
    Identity = {r1, r2}
    Worker = {w1, w2}
    MaxAttempts = 1
    NoIdentity = NoIdentity
PROPERTIES
    EveryRequestIsApplied
