CONSTANTS
    w1 = w1
    w2 = w2
    wanted = wanted
    other = other
    Writers <- MCWriters
    Batch <- MCBatch
    Topics <- MCTopics
    Wanted <- MCWanted
    Since <- MCSince
    NoCursor = NoCursor
    NoPage = NoPage
    PageLimit = 1
    MaxDrops = 1
    MaxSeq = 3
SPECIFICATION LiveSpec
CHECK_DEADLOCK FALSE
INVARIANTS
    GapFree
    LiveMeansCaughtUp
PROPERTIES
    ImplementsFeed
    EventsArrive
