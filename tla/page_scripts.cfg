\* The scripts of a visited page, and the client of the site's server.
SPECIFICATION MCSpec
CONSTANTS
    Setups <- MCSetups
    Budget = 2
    MaxBatch = 2
    MaxBuffer = 2
    MaxVersion = 2
    v1 = v1
    Event = 3
    Visit = {v1}
    BatchSize = 2
    MaxQueueSize = 2
INVARIANTS
    TypesOK
    EachEventOnce
    QueueIsScheduled
    NothingAfterDenial
    NothingForgotten
    NeverStranded
PROPERTIES
    EventsLeave
    ConsentReachesScripts
    RetriesDeliver
