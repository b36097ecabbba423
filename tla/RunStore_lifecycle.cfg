CONSTANTS
    None = None
    Queues = {q1}
    Workers = {w1, w2}
    IdempotencyKeys = {}
    ConcurrencyKeys = {}
    Checkpoints = {c1}
    AttemptLimits = {0, 1, 2}
    StartTimes = {None, 1}
    ParkTimes = {None, 0, 2}
    Ttl = 2
    MaxRuns = 1
    MaxTime = 5
    MaxEpoch = 4
    MaxLag = 1
SPECIFICATION Spec
INVARIANTS
    TypeOK
    AttemptBudget
    NoRetryAfterCancel
PROPERTIES
    LiveLeaseKept
    
    ImplementsLifecycle
SYMMETRY Symmetry
