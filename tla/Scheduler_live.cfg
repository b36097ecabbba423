\* Under the fairness of the tick loop, what is due is fired.
SPECIFICATION Spec
CONSTANTS
    None = None
    Replicas = {p1, p2}
    Endpoints = {e1}
    Ids = {j}
    Specs <- RaceSpecs
    Policies <- RacePolicies
    Deletes = TRUE
    Grace = 1
    MaxTime = 3
    MaxChanges = 3
    MaxFaults = 1
CHECK_DEADLOCK FALSE
PROPERTY DueIsFired
