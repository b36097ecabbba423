\* Two approvers who must agree, a backup, an edit, two handlers, two tickers, one crash.
SPECIFICATION Spec
CONSTANTS
    Approvers = {ana, bo}
    Backups = {cy}
    Quorum = 2
    Original = original
    Edits = {edited}
    Deciders = {d1, d2}
    Tickers = {t1, t2}
    EscalateAfter = 1
    Ttl = 2
    Grace = 1
    PromptApply = TRUE
    MaxHolds = 1
    MaxVersion = 4
    MaxCrashes = 1
INVARIANTS ExecutedAsApproved EscalatedOnce
PROPERTIES ResolvedStays
CHECK_DEADLOCK FALSE
SYMMETRY Symmetry
