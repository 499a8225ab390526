SPECIFICATION RuntimeSpec
CONSTANTS
    p1 = p1
    p2 = p2
    Processes <- MCOneProcess
    MaxFences = 3
    MaxWork = 1
    MaxJobs = 1
INVARIANTS
    ReportMeansDrained
PROPERTIES
    ProcessesFollow
