SPECIFICATION FairSpec
CONSTANTS
    Steps <- MCSteps
    MaxRecoveries = 2
    MaxBeside = 1
CHECK_DEADLOCK FALSE
INVARIANTS
    FiresOnce
    CutExecutionsSurface
    SkipsAreExplained
    EveryNodeIsDecided
PROPERTIES
    VerdictsAreFinal
    JobEnds
