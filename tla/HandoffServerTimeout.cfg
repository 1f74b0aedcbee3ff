SPECIFICATION Spec
CONSTANTS
    Request = {r1, r2}
    Owner = {w1, w2}
    RetryOwner = {w1}
    NoOwner = NoOwner
    MaxPending = 2
    MaxBegun = 1
    MaxTimeouts = 1
    SurfaceExpires = FALSE
    Resubmit = FALSE
    CloseFails = FALSE
CHECK_DEADLOCK FALSE
INVARIANTS AuthorityExclusive
