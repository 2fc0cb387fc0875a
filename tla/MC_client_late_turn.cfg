SPECIFICATION Spec
CONSTANTS
    Deals <- MCDeals
    MaxPresses = 4
    MaxDrops = 0
    MaxKeys = 1
INVARIANT ReceiptCanBeConfirmed
CHECK_DEADLOCK FALSE
