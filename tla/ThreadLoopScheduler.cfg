\* start(), stop() and start() again, as the tests drive the class; the
\* application starts it once.
CONSTANTS
    Job = {j1, j2}
    MaxStarts = 2
    MaxAwaits = 1
SPECIFICATION FairSpec
INVARIANTS LoopAcceptsJobs AnsweredInOrder
PROPERTIES EveryJobAnswered ImplementsPort
CHECK_DEADLOCK FALSE
