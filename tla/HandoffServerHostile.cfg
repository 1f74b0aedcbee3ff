SPECIFICATION FairSpec
CONSTANTS
    Request = {r1, r2, r3}
    Owner = {w1, w2}
    RetryOwner = {w1}
    NoOwner = NoOwner
    MaxPending = 2
    MaxBegun = 2
    MaxTimeouts = 5
    SurfaceExpires = TRUE
    Resubmit = TRUE
    CloseFails = TRUE
CHECK_DEADLOCK FALSE
INVARIANTS LineExact
PROPERTIES OwnerNeverRebound ReplayOnce EveryCallAnswered
