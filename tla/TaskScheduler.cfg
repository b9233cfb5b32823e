\* Four tasks, two slots, a starvation threshold of one tick.
CONSTANTS
    t1 = t1
    t2 = t2
    t3 = t3
    t4 = t4
    Tasks = {t1, t2, t3, t4}
    MaxConcurrent = 2
    Threshold = 1
    MaxSequence = 5
    MaxNow = 3
SPECIFICATION Spec
INVARIANTS
    SlotDiscipline
    NoStrandedWork
PROPERTIES
    BoundedOvertaking
    QueuedIsServed
CHECK_DEADLOCK FALSE
