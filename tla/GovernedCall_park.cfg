\* Two different calls that both need confirmation, and one decision.
SPECIFICATION Spec
CONSTANTS
    None = None
    c1 = c1
    c2 = c2
    pay = pay
    list = list
    Calls = {c1, c2}
    Prints = {pay, list}
    Fp <- TwoPrints
    Guarded = {pay, list}
    MaxAttempts = 2
    MaxFaults = 0
    MaxDecisions = 1
CHECK_DEADLOCK FALSE
INVARIANT HeldRunParks
