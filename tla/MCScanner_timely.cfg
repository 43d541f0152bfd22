\* A reply that arrives in time while conn_thread is busy.
SPECIFICATION Spec
CONSTANTS
    Pill = Pill
    NoResult = NoResult
    max_pending_results = 1
    Targets = {t1}
    Canary = NoCanary
    NoCanary = NoCanary
    canary_after = 0
    max_pending_sockets = 2
    socket_list_excess = 2
    connect_timeout = 1
    BaseFds = {0}
    MaxFd = 4
    NoFd = NoFd
PROPERTY TimelyReplyIsKept
