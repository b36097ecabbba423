\* A resumed run that is interrupted before its empty turn is persisted.
SPECIFICATION WorkerSpec
CONSTANTS
    None = None
    Queues = {q}
    Workers = {w1}
    IdempotencyKeys = {}
    ConcurrencyKeys = {}
    Checkpoints <- WorkerCheckpoints
    AttemptLimits = {2}
    StartTimes = {None}
    ParkTimes <- Deadlines
    Ttl = 1
    MaxRuns = 1
    MaxTime = 2
    MaxEpoch = 3
    MaxLag = 0
    ApprovalTimeout = 1
    Retain = 1
    MaxEvents = 2
    MaxClaimLatency = 0
    StallsBeforeTurn = FALSE
INVARIANT InputSentOnce
