SPECIFICATION FairSpec
CONSTANTS
    Op = {o1, o2, o3}
    Drainer = {d1}
    MaxPending = 2
    Watchdog = TRUE
    NoOp = NoOp
CHECK_DEADLOCK FALSE
INVARIANTS TypeOK PendingExact StartOrder DrainComplete
PROPERTIES SettledOnce ImplementsSerialQueue QueueProgress
