\* The threads of cscan: one producer (conn_thread), one consumer
\* (process_thread).
CONSTANTS
    Producers = {p1}
    Consumers = {c1}
    Items = {a, b}
    NoItem = NoItem
    NoThread = NoThread
    Capacity = 3
SPECIFICATION FairSpec
INVARIANTS TypeOK NoLostWakeupOfProducers NoLostWakeupOfConsumers
PROPERTIES ImplementsFifo PutReturns ItemsAreTaken
