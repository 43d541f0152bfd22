\* Two pending sockets, a queue of one result, one descriptor in use before
\* the scan and one in the worker: socket_list_excess is exactly enough.  The
\* first packet is the canary's.
SPECIFICATION FairSpec
CONSTANTS
    Pill = Pill
    NoResult = NoResult
    max_pending_results = 1
    Targets = {t1}
    Canary = can
    NoCanary = NoCanary
    canary_after = 0
    max_pending_sockets = 2
    socket_list_excess = 2
    connect_timeout = 1
    BaseFds = {0}
    MaxFd = 4
    NoFd = NoFd
INVARIANTS SocketsAreListed EventsAreCurrent FdFits DrainedBeforeClose CanaryIsWatched
PROPERTIES SweepIsComplete StopsOnSigint AttemptsEnd
