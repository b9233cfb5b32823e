SPECIFICATION Spec
CONSTANTS
    t1 = t1
    t2 = t2
    Tasks = {t1}
    MaxConcurrent = 1
    MaxRetries = 2
    MaxReplans = 1
    MaxFaults = 2
    OrderedCommits = TRUE
INVARIANTS
    StepsAreCheckpointed
    RetryBudget
    EventsAreDurable
CHECK_DEADLOCK FALSE
