CONSTANTS
    MaxFixes = 1
    MaxAttempts = 2
    Concurrent = 1
    MaxChanges = 2
    MaxRestarts = 1
    Origins = {"auto", "dashboard", "mention"}
    Deliveries = {"draft_pr", "same_branch"}
    Policies <- AllPolicies
    Faults = {"network", "disconnect", "crash"}
    Paths <- MCPaths
    Below <- MCBelow
    Sensitive = {".env"}
    Gitmodules = {}
    Workflows = {"ci.yml"}
    Contents = {"old", "new", "key", "data", "commit"}
    Plain = {"old", "new"}
    Binary = {"data"}
    Secret = {"key"}
    Heads <- MCHeads
    MaxEdits = 3
    MaxFiles = 1
    MaxDeleted = 0
    WorkflowsAllowed = FALSE
SPECIFICATION Spec
CHECK_DEADLOCK FALSE
INVARIANTS
    ConsentBeforeWork
    PrivateStaysPrivate
PROPERTIES
    KeepsThePromise
