CONSTANTS
    ClientTimeout = 3
    ToolTimeout = 2
    HelperCap = 1
    RunnerCap = 2
    MaxSize = 3
SPECIFICATION Spec
INVARIANTS GivesUpWithTimeout
CHECK_DEADLOCK FALSE
