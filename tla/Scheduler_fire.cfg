\* Two replicas, one schedule, every kind of spec and policy.
SPECIFICATION Spec
CONSTANTS
    None = None
    Replicas = {p1, p2}
    Endpoints = {e1}
    Ids = {j}
    Specs <- AllSpecs
    Policies <- AllPolicies
    Deletes = FALSE
    Grace = 1
    MaxTime = 4
    MaxChanges = 3
    MaxFaults = 1
CHECK_DEADLOCK FALSE
SYMMETRY Symmetry
INVARIANTS TypeOK  
PROPERTIES FiredBeforeAdvance NeverMovesBack
