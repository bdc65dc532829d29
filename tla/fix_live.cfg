CONSTANTS
    MaxFixes = 2
    MaxAttempts = 1
    Concurrent = 1
    MaxChanges = 0
    MaxRestarts = 0
    Origins = {"mention"}
    Deliveries = {"draft_pr"}
    Policies <- Opted
    Faults = {}
    Paths = {"run.sh"}
    Below <- NoneBelow
    Sensitive = {}
    Gitmodules = {}
    Workflows = {}
    Contents = {"old", "new"}
    Plain = {"new"}
    Binary = {}
    Secret = {}
    Heads <- OneHead
    MaxEdits = 1
    MaxFiles = 1
    MaxDeleted = 0
    WorkflowsAllowed = FALSE
SPECIFICATION FairSpec
CHECK_DEADLOCK FALSE
INVARIANTS
    NobodyIsStranded
PROPERTIES
    EveryFixSettles
