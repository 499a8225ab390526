SPECIFICATION Spec
CONSTANTS
    q1 = q1
    q2 = q2
    ask = ask
    other = other
    p1 = p1
    p2 = p2
    Request <- MCRequests
    NoRun = NoRun
    Body <- MCBodies
    Process <- MCProcesses
    MaxHeld = 1
    Faults <- MCFaults
SYMMETRY MCSymmetry
CHECK_DEADLOCK FALSE
INVARIANTS
    OneRunAtATime
    OneEffectRun
    AnswersMatch
    FreedForRetry
    SlotsBoundRuns
PROPERTIES
    ReleasesOwn
