SPECIFICATION GroupingSpec
CONSTANTS
    Repeats = TRUE
    StepIds <- MCIds
    Locks <- MCLocks
    Plans <- MCPlans
INVARIANT EachStepOnce
CHECK_DEADLOCK FALSE
