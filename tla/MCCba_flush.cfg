CONSTANTS
    Threads = {0, 1}
    MaxBuff = 2
    MainScripts <- AllMain
    WorkerScripts <- Prints
    MaxScripts <- OneAndTwo
    MaxFaults = 0
    NoOne = NoOne
SPECIFICATION Spec
INVARIANTS EventsAreWhole
CHECK_DEADLOCK FALSE
