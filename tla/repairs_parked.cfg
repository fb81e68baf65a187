\* The finalizer beside the other scripts.
SPECIFICATION RepairsSpec
CONSTANTS
    Held <- FilingsOnly
    Obtainable <- EveryKind
    ScriptOf <- OneWorkerEach
    RefreshAll = FALSE
    ScriptsRun = 3
    MaxResets = 1
    MaxRowErrors = 1
INVARIANT ParkedLacksFacts
CHECK_DEADLOCK FALSE
