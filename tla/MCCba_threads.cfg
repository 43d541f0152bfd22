CONSTANTS
    Threads = {0, 1}
    MaxBuff = 2
    MainScripts <- AllMain
    WorkerScripts <- AllWorker
    MaxScripts <- OneAndTwo
    MaxFaults = 1
    NoOne = NoOne
SPECIFICATION Spec
INVARIANTS LockedEventsAreWhole EntriesComeBack
CHECK_DEADLOCK FALSE
