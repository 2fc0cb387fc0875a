CONSTANTS
    MaxRounds = 2
    MaxTotal = 2
    MaxRestarts = 1
SPECIFICATION ReconfiguredSpec
INVARIANT NoRoundSkipped
CHECK_DEADLOCK FALSE
