SPECIFICATION Spec
CONSTANTS
    Deals <- MCDeals
    MaxPresses = 4
    MaxDrops = 1
    MaxKeys = 1
INVARIANTS SignalsMeanTheirTurn CompleteRoomsHaveReceipts ReceivedOnlyWhenSent
CHECK_DEADLOCK FALSE
