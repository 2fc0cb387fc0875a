SPECIFICATION Spec
CONSTANTS
    Clients = {c1}
    CommandLine = {}
    Workers = {w1}
    QueueCapacity = 1
    MaxTickets = 1
    Chunks = 1
    MaxPresses = 2
    MaxRequests = 1
    MaxTroubles = 1
INVARIANT RetrievedBeforeRemoved
CHECK_DEADLOCK FALSE
