CONSTANTS
    Others = {o1, o2}
    MaxQueuedFrames = 3
    MaxStrikes = 3
    MaxBatch = 2
    MaxInbox = 2
SPECIFICATION Spec
INVARIANTS NoLostWake LastWordDelivered
PROPERTY DeadClientsLeave
