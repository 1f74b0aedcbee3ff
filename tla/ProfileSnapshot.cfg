SPECIFICATION Spec
CONSTANTS
    Container = {c1, c2}
    Keep = 2
    Required = FALSE
    MaxObjects = 3
    MaxSent = 1
    MaxSignIns = 1
    MaxFaults = 1
SYMMETRY Symmetry
CHECK_DEADLOCK FALSE
INVARIANTS CurrentRestorable
PROPERTIES PointerLinear NothingRolledBack
