CONSTANT Disks = 2
SPECIFICATION FairPageSpec
INVARIANTS
    CardsTellTheRun
    DeclinedOnce
PROPERTIES
    ReadyStays
    BusyEnds
