SPECIFICATION RegistrySpec
CONSTANTS
    r1 = r1
    r2 = r2
    Registries = {r1, r2}
    Endpoints = {1, 2}
    p1 = p1
    p2 = p2
    Pins = {p1, p2}
    Requests <- MCRequests
    NoEntry = NoEntry
    NoPin = NoPin
    Peers <- MCPeers
    Trusted <- MCTrusted
    TicksPerSecond = 2
    Ttl = 2
    Period = 5
    Timeout = 1
    MaxNodes = 1
    MaxCached = 1
    MaxHops = 3
INVARIANTS ApprovalKeepsPin NoStaleListing
