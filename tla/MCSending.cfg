\* The scan ends ("end", "dead"), and so do time and packets.
CONSTANTS
    connect_interval = 2
    max_pending_sockets = 2
    stats_every = 2
    bind_max_retries = 2
    BindPorts = {0, 1}
    BindIp = TRUE
    MaxTime = 8
    MaxPackets = 5
    MaxInterrupts = 1
SPECIFICATION Spec
INVARIANTS PacedInEveryWindow AttemptsAreAccounted StatsAddUp
PROPERTIES ClashIsTolerated
CHECK_DEADLOCK FALSE
