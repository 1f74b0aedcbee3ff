SPECIFICATION Spec
CONSTANTS
    Request = {r1, r2, r3}
    Caller = {w1}
    NoCaller = NoCaller
    MaxPending = 2
    Ttl = 1
    MaxNow = 2
    MaxTimeouts = 0
    MaxLost = 1
SYMMETRY Symmetry
CHECK_DEADLOCK FALSE
PROPERTIES UsedInApprovedEpoch
