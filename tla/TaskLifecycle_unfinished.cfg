SPECIFICATION Spec
CONSTANTS
    t1 = t1
    t2 = t2
    Tasks = {t1}
    MaxConcurrent = 1
    MaxRetries = 0
    MaxReplans = 0
    MaxFaults = 1
    OrderedCommits = TRUE
PROPERTIES
    UnfinishedIsResumed
CHECK_DEADLOCK FALSE
