CONSTANTS
    None = None
    Queues = {q1}
    Workers = {w1}
    IdempotencyKeys = {i1}
    ConcurrencyKeys = {k1}
    Checkpoints = {}
    AttemptLimits = {2}
    StartTimes = {None}
    ParkTimes = {None}
    Ttl = 1
    MaxRuns = 2
    MaxTime = 2
    MaxEpoch = 2
    MaxLag = 0
SPECIFICATION Spec
INVARIANTS
    StartedRunIsFirst
    
    IdempotencyIndex
