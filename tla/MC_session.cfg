CONSTANTS
    MaxRounds = 3
    MaxTotal = 5
    MaxRestarts = 1
SPECIFICATION CooperativeSpec
INVARIANTS IndInv OneTrancheAtRisk SettledExactly FinalTransferGated FeeOnTime TurnNeverThrows
PROPERTIES OnlyForward EventuallySettled ImplementsExchange
CHECK_DEADLOCK FALSE
