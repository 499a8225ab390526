SPECIFICATION Spec
CHECK_DEADLOCK FALSE
CONSTANTS
    q1 = q1
    q2 = q2
    r1 = r1
    opQ = opQ
    opR = opR
    NoOperation = NoOperation
    Attempts <- MCAttempts
    Quiesces <- MCQuiesces
    Operations <- MCOperations
    OperationOf <- MCOperationOf
INVARIANTS
    OneHolder
    HeldBarrierFences
    LostPrivilegesAreTraced
PROPERTIES
    StaleAttemptsDoNotWrite
    ImplementsFence
