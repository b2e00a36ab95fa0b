\* A failing drive, and another that cannot be read.
SPECIFICATION Spec
CONSTANT Machines <- OneMachine
INVARIANT FailingDriveCritical
CHECK_DEADLOCK FALSE
