SPECIFICATION Spec
CONSTANTS
    c1 = c1
    c2 = c2
    c3 = c3
    Calls = {c1}
    Graphs <- MCGraphs
INVARIANT GatesObeyed
CHECK_DEADLOCK FALSE
