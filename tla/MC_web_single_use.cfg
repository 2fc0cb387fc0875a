SPECIFICATION Spec
CONSTANTS
    Users = {u1, u2}
    Threads = {h1, h2}
    NoToken = NoToken
    MaxSessions = 1
    MaxAttempts = 1
    Window = 0
    IdleTimeout = 0
    ChallengeTtl = 0
    MaxOutstanding = 1
    MaxClock = 1
    MaxTokens = 3
    MaxChallenges = 1
INVARIANT SingleUse
CHECK_DEADLOCK FALSE
