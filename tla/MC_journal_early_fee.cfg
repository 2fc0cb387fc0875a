SPECIFICATION Spec
CONSTANTS
    Rounds = 1
    FeeConfigs <- MCEarlyFee
    EntrySize = 2
    CheckSize = 4
    MaxCheckpoints = 2
    MaxCrashes = 2
    MaxHeadErrors = 1
    MaxWriteErrors = 0
PROPERTY NextStateRecordable
CHECK_DEADLOCK FALSE
