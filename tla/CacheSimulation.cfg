CONSTANTS
    Experts = {1, 2, 3, 4}
    Capacity = 2
    TopK = 1
    MaxTransfers = 2
    StepEvents = 4
    MaxCount = 1
SPECIFICATION Spec
INVARIANTS
    OracleIsUpperBound
CHECK_DEADLOCK FALSE
