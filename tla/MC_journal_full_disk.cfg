SPECIFICATION FaultySpec
CONSTANTS
    Rounds = 1
    FeeConfigs <- MCFeeConfigs
    EntrySize = 2
    CheckSize = 4
    MaxCheckpoints = 1
    MaxCrashes = 1
    MaxHeadErrors = 1
    MaxWriteErrors = 1
INVARIANT ReturnedEntriesSurvive
CHECK_DEADLOCK FALSE
