CONSTANTS
    Callers = {1, 2}
    Agent = 1
    NumRoutes = 3
    Missing = {2}
    MaxRequests = 4
    Retries = 1
    Kinds <- MCKinds
    Refusable = {"mode","reasoning"}
    Totals = {4, 8}
    ReserveMin = 2
    ReserveMax = 3
    MinWait = 1
    RepairMin = 2
    Grace = 2
    MaxTools = 3
    Batches = {2}
SPECIFICATION FairSpec
CHECK_DEADLOCK FALSE
INVARIANTS
    RequestsInBudget
    EndsInTime
PROPERTIES
    AgentEnds
