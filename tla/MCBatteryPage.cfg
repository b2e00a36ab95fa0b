CONSTANTS
    w1 = w1
    w2 = w2
    Battery <- MCBattery
    Wear <- MCWear
    Contents <- MCContents
    Days = 3
    Limit = 2
    MaxJobs = 2
    MaxSignals = 1
SPECIFICATION FairSpec
INVARIANTS ChartEndsInCard
PROPERTIES PastDaysKept FreshInTheEnd
CHECK_DEADLOCK FALSE
