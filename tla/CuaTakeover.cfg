SPECIFICATION Spec
CONSTANTS
    MaxOps = 3
    Begin = begin
    End = end
    Window = {w1, w2}
    None = None
    MaxTries = 2
    MaxCrashes = 1
    MaxChanges = 1
CHECK_DEADLOCK FALSE
INVARIANTS DriversAccounted InputWhereSeen
PROPERTIES OperationsEnd
