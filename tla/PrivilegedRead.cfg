CONSTANTS
    ClientTimeout = 3
    ToolTimeout = 2
    HelperCap = 1
    RunnerCap = 2
    MaxSize = 3
SPECIFICATION FairSpec
INVARIANTS
    FailingDiskIsData
    
PROPERTIES
    ImplementsSmartRead
    ReadEnds
CHECK_DEADLOCK FALSE
