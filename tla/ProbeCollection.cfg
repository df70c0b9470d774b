CONSTANTS
    None = None
    Corpus = 1
    MaxFaults = 0
SPECIFICATION Spec
INVARIANTS
    UndisturbedPasses
CHECK_DEADLOCK FALSE
