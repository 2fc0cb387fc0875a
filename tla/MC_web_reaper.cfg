SPECIFICATION Spec
CONSTANTS
    Users = {u1, u2}
    Threads = {h1, h2}
    NoToken = NoToken
    MaxSessions = 1
    MaxAttempts = 1
    Window = 1
    IdleTimeout = 1
    ChallengeTtl = 1
    MaxOutstanding = 1
    MaxClock = 2
    MaxTokens = 2
    MaxChallenges = 1
INVARIANT NoDeadlock
CHECK_DEADLOCK FALSE
