\* Two tasks, one replan each, locks that expire after one tick.
CONSTANTS
    r1 = r1
    r2 = r2
    t1 = t1
    t2 = t2
    Tasks = {t1, t2}
    Resources = {r1, r2}
    Free = Free
    MaxHold = 1
    Plans <- MCPlans
    MaxReplans = 1
    Expires = TRUE
SPECIFICATION Spec
INVARIANTS
    ExclusiveWrites
PROPERTIES
    NeverTaken
    ReleaseServesQueue
    EveryTaskSettles
CHECK_DEADLOCK FALSE
