SPECIFICATION Spec
CONSTANTS
    q1 = q1
    q2 = q2
    ask = ask
    other = other
    p1 = p1
    p2 = p2
    Request <- MCRequests
    NoRun = NoRun
    Body <- MCBodies
    Process <- MCProcesses
    MaxHeld = 1
    Faults <- MCDeadline
CHECK_DEADLOCK FALSE
INVARIANTS
    NeverExecutesTwice
