SPECIFICATION Spec
CONSTANTS
    Operation = {o1, o2, o3, o4}
    NoOperation = NoOperation
    Search = {s}
    Directions = {d1, d2}
    NoAction = NoAction
    MaxTimeouts = 1
    MaxDrops = 1
    MaxMoves = 1
    MaxChallenges = 1
    ChromeCrashes = TRUE
    EvaluationsFail = TRUE
CONSTRAINT OneStory
SYMMETRY Symmetry
CHECK_DEADLOCK FALSE
INVARIANTS TypeOK MemoryMatchesPage ReplayFenced
PROPERTIES EpochFence
