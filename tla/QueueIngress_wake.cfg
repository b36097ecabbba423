\* Two pollers, a message that cannot be mapped, two that share a key, three copies.
SPECIFICATION Spec
CONSTANTS
    None = None
    bad = bad  m1 = m1  m2 = m2  m3 = m3
    Pollers = {p1, p2}
    Messages = {bad, m1, m2, m3}
    Unmappable = {bad}
    Keyed = {m1, m2}
    Rejecting = {m2}
    BatchSize = 2
    MaxPending = 1
    Lease = 1
    RetryAfter = 1
    MaxCopies = 3
    Sent <- MCSent
    MaxFreezes = 1
    MaxPrunes = 1
    MaxFaults = 1
INVARIANTS TypeOK AckedHasRun OneRunEach PendingBounded
PROPERTIES LeaseKept MessagesWake
CHECK_DEADLOCK FALSE
