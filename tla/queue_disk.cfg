CONSTANTS
    Keys <- Mixed
    Heads = {"h1"}
    Bases = {"main"}
    Targets = {"main", "next"}
    Results = {"failed"}
    ConfigStates = {TRUE}
    Faults = {"disk", "network", "shutdown"}
    Reconciles = FALSE
    MaxJobs = 2
    MaxRestarts = 0
    Concurrency = 2
    ExternalLimit = 1
SPECIFICATION Spec
CHECK_DEADLOCK FALSE
INVARIANTS
    LaneExclusive
    CancelledIsTold
    ExternalWithinLimit
PROPERTIES
    CancellationIsFinal
