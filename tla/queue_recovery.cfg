CONSTANTS
    Keys <- OneRepo
    Heads = {"h1"}
    Bases = {"main"}
    Targets = {"main", "next"}
    Results = {"complete", "failed"}
    ConfigStates = {TRUE, FALSE}
    Faults = {"network", "crash", "revoked"}
    Reconciles = TRUE
    MaxJobs = 2
    MaxRestarts = 1
    Concurrency = 1
    ExternalLimit = 1
SPECIFICATION FairSpec
CHECK_DEADLOCK FALSE
INVARIANTS
    NoZombieSummary
    CancelledLeavesNoCheckpoint
    LiveChecksStayOpen
PROPERTIES
    EveryJobSettles
    ChecksAreRecovered
