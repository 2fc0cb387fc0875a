CONSTANTS
    Threads = {t1, t2, t3}
    Rooms <- TwoRooms
    Handlers <- WhileConnected
SPECIFICATION LocksSpec
INVARIANT NoDeadlock
SYMMETRY Interchangeable
