\* Two slots, one run, prompt claims: the fence, the checkpoint and the answer.
SPECIFICATION WorkerSpec
CONSTANTS
    None = None
    Queues = {q}
    Workers = {w1, w2}
    IdempotencyKeys = {}
    ConcurrencyKeys = {}
    Checkpoints <- WorkerCheckpoints
    AttemptLimits = {2}
    StartTimes = {None}
    ParkTimes <- Deadlines
    Ttl = 2
    MaxRuns = 1
    MaxTime = 3
    MaxEpoch = 2
    MaxLag = 0
    ApprovalTimeout = 1
    Retain = 1
    MaxEvents = 2
    MaxClaimLatency = 0
    StallsBeforeTurn = FALSE
SYMMETRY Symmetry
INVARIANTS WorkerTypeOK  TurnIsNamed 
 
