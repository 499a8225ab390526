CONSTANTS
    a1 = a1
    a2 = a2
    b1 = b1
    v = v
    keyed = keyed
    other = other
    resolution = resolution
    Attempts <- MCAttempts
    Operations <- MCOperations
    OperationOf <- MCOperationOf
    Plan <- MCPlan
    Resolvers <- MCResolvers
    NoOperation = NoOperation
    MaxEpoch = 3
SYMMETRY MCSymmetry
SPECIFICATION Spec
CHECK_DEADLOCK FALSE
INVARIANTS
    TransactionsAreExact
    ReceiptsTellTheTruth
PROPERTIES
    StepsStartFresh
