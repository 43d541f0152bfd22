\* Four descriptors, so that an entry can be deleted between two others while
\* a closed descriptor is free for reuse; two instants.
SPECIFICATION Spec
CONSTANTS
    Size = 4
    Targets = {t1}
    Garbage = Garbage
    connect_timeout = 1
    MaxTime = 1
INVARIANTS WellLinked FirstIsDueFirst
PROPERTY ImplementsPendingList
