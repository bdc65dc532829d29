CONSTANTS
    Numbers <- One
    Heads = {"a", "b"}
    Bases = {"main", "dev"}
    Setups = {TRUE}
    Faults = {"outage"}
    MaxVersion = 3
    MaxLookups = 1
    MaxCancels = 0
    MaxFaults = 1
SPECIFICATION Spec
CHECK_DEADLOCK FALSE
INVARIANTS
    NewestIsHeld
    ClosedStaysClosed
