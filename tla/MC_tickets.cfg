SPECIFICATION Spec
CONSTANTS
    Clients = {c1, c2}
    CommandLine = {c2}
    Workers = {w1, w2}
    QueueCapacity = 1
    MaxTickets = 1
    Chunks = 2
    MaxPresses = 4
    MaxRequests = 2
    MaxTroubles = 1
SYMMETRY Sym
INVARIANTS OneTicketPerRight RightsAreGivenBack CredentialsAreOwn
PROPERTY ImplementsGrant
CHECK_DEADLOCK FALSE
