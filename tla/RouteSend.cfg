SPECIFICATION Spec
CONSTANTS
    Request = {r1, r2, r3, r4, r5}
    Caller = {w1, w2}
    NoCaller = NoCaller
    MaxPending = 2
    Ttl = 1
    MaxNow = 1
    MaxTimeouts = 1
    MaxLost = 1
SYMMETRY Symmetry
CONSTRAINT OneTrouble
CHECK_DEADLOCK FALSE
INVARIANTS TypeOK OneNotification
PROPERTIES WithdrawnNeverUsed UsedInTime UsedOnApprovedPage
