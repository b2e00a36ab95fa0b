\* ThreadLoopScheduler: the loop runs beside the main thread.
CONSTANTS
    r1 = r1
    r2 = r2
    Release <- MCRelease
    Conditions <- MCConditions
    Threaded = TRUE
    MaxJobs = 2
    MaxChanges = 1
    MaxSignals = 1
SPECIFICATION Spec
INVARIANTS FreshUnlessMissed
PROPERTIES NeverOlder
CHECK_DEADLOCK FALSE
