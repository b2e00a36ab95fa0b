CONSTANTS
    Machine = {family, unknown}
    MaxCaptures = 2
SPECIFICATION Spec
INVARIANT NotesTellTheRun
 
CHECK_DEADLOCK FALSE
