SPECIFICATION Spec
CONSTANTS
    Request = {r1, r2, r3, r4, r5}
    Owner = {w1, w2}
    RetryOwner = {w1}
    NoOwner = NoOwner
    MaxPending = 2
    MaxBegun = 2
    MaxTimeouts = 0
    SurfaceExpires = FALSE
    Resubmit = FALSE
    CloseFails = FALSE
CHECK_DEADLOCK FALSE
SYMMETRY Symmetry
INVARIANTS TypeOK AuthorityExclusive HumanAlone OwnerPresent
PROPERTIES OnlyOwnerActs PromptCurrent
