\* GLibEventLoopScheduler.
CONSTANTS
    r1 = r1
    r2 = r2
    Release <- MCRelease
    Conditions <- MCFewConditions
    Threaded = FALSE
    MaxJobs = 2
    MaxChanges = 1
    MaxSignals = 1
SPECIFICATION FairSpec
INVARIANTS TypeOK OneOperation ProgressHasOwner OneTimer ProgressNeverNone
PROPERTIES  ChangeShown
CHECK_DEADLOCK FALSE
