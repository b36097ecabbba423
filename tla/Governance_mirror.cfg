\* A control of two scopes, refreshes and writes in any order, and rivals elsewhere.
SPECIFICATION Spec
CONSTANTS
    c1 = c1
    org = org
    tenant = tenant
    Controls = {c1}
    Scopes = {org, tenant}
    ScopesOf <- TwoScopes
    Pollers = {c1}
    FailOpen = {}
    MaxStaleness = 1
    MaxRead = 1
    WriteAttempts = 2
    MaxChanges = 3
    MaxFaults = 2
INVARIANTS
    FreezeBounded
PROPERTIES
    
    FrozenStops
    UnfrozenResumes
