SPECIFICATION Spec
CONSTANTS
    Rounds = 1
    FeeConfigs <- MCFeeConfigs
    EntrySize = 2
    CheckSize = 4
    MaxCheckpoints = 2
    MaxCrashes = 2
    MaxHeadErrors = 1
    MaxWriteErrors = 0
INVARIANTS CrashesAreRecoverable ReturnedEntriesSurvive RecoveryTellsTruth
PROPERTY NextStateRecordable
CHECK_DEADLOCK FALSE
