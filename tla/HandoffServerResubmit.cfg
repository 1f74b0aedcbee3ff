SPECIFICATION Spec
CONSTANTS
    Request = {r1, r2, r3}
    Owner = {w1, w2}
    RetryOwner = {w1}
    NoOwner = NoOwner
    MaxPending = 2
    MaxBegun = 1
    MaxTimeouts = 0
    SurfaceExpires = FALSE
    Resubmit = TRUE
    CloseFails = FALSE
CHECK_DEADLOCK FALSE
INVARIANTS OwnerPresent
