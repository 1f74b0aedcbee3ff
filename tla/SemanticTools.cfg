SPECIFICATION Spec
CONSTANTS
    Query = {q}
    Place = {a}
    Trip = {t}
    NoItem = NoItem
    Tools <- AllTools
    MaxFaults = 1
CHECK_DEADLOCK FALSE
INVARIANTS MemoryIsTrue
PROPERTIES SuccessIsReal SavedStaysSaved ShareLeavesNoTrace CallsEnd
