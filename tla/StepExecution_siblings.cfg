\* The same tasks under a host that never expires a lock: the first step of a
\* group to finish drops the locks of its siblings.
CONSTANTS
    r1 = r1
    r2 = r2
    t1 = t1
    t2 = t2
    Tasks = {t1, t2}
    Resources = {r1, r2}
    Free = Free
    MaxHold = 1
    Plans <- MCPlans
    MaxReplans = 1
    Expires = FALSE
SPECIFICATION Spec
INVARIANT AtMostOneWriter
CHECK_DEADLOCK FALSE
