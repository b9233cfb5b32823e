SPECIFICATION Spec
CONSTANTS
    c1 = c1
    c2 = c2
    c3 = c3
    Calls = {c1, c2}
    Graphs <- MCGraphs
INVARIANTS
    CheckpointSound
    NothingTwice
PROPERTIES
    FailFast
    EndsOrRollsBack
CHECK_DEADLOCK FALSE
