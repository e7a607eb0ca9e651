SPECIFICATION SourceSpec
CONSTANTS
    r1 = r1
    r2 = r2
    w1 = w1
    w2 = w2
    Identity = {r1}
    Worker = {w1, w2}
    MaxAttempts = 2
    NoIdentity = NoIdentity
INVARIANTS
    RemainsRetryable
