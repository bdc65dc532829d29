CONSTANTS
    Numbers <- One
    Heads = {"a", "b"}
    Bases = {"main"}
    Setups = {TRUE, FALSE}
    Faults = {"lost", "reordered", "overlapping", "outage", "crash"}
    MaxVersion = 3
    MaxLookups = 0
    MaxCancels = 1
    MaxFaults = 1
SPECIFICATION FairSpec
CHECK_DEADLOCK FALSE
PROPERTIES
    ListingKeepsWebhookData
    BackgroundIsNewest
    FinishedIsNotRepeated
    EventuallyCaughtUp
