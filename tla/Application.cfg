CONSTANTS
    Job = {"identity", "health", "battery", "hardware", "firmware", "storage"}
    MaxStarts = 1
    MaxAwaits = 2
SPECIFICATION AppSpec
INVARIANTS   DashboardWhole
PROPERTIES PagesSettle ImplementsPort
CHECK_DEADLOCK FALSE
