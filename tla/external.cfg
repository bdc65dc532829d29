CONSTANTS
    Pulls <- PullsDef
    Heads = {1, 2}
    PerHour = 1
    MaxTracked = 2
    Concurrency = 1
    Tickets = {1}
    MaxEvents = 2
SPECIFICATION Spec
INVARIANT ReservationsMatch
INVARIANT UntrackedStaysQuiet
PROPERTY TrackedHeadsAreReviewed
