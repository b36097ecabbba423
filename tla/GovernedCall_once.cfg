\* Two calls with one fingerprint that needs confirmation; a crash or a stall.
SPECIFICATION Spec
CONSTANTS
    None = None
    c1 = c1
    c2 = c2
    pay = pay
    list = list
    Calls = {c1, c2}
    Prints = {pay}
    Fp <- SamePrint
    Guarded = {pay}
    MaxAttempts = 4
    MaxFaults = 1
    MaxDecisions = 2
CHECK_DEADLOCK FALSE
INVARIANTS AtMostOnce ApprovalSpentOnce AnswersAreTrue OneAnswer
 
