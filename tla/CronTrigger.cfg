SPECIFICATION FairSpec
CONSTANTS
    p1 = p1
    p2 = p2
    f1 = f1
    f2 = f2
    Processes <- MCOne
    Fires <- MCFires
    Fired <- MCFired
    MaxSlot = 3
    Lookback = 1
    NoFire = NoFire
CHECK_DEADLOCK FALSE
INVARIANTS
    DispatchedOnce
    ReservedMeansDispatched
    HeadersFollowJobs
PROPERTIES
    MissedSlotsAreMadeUp
    LoopKeepsUp
