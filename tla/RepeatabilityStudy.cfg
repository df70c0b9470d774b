CONSTANTS
    None = None
    BlockRuns = 2
    RawRuns = 2
    MaxDrifts = 2
SPECIFICATION Spec
INVARIANT GuardStopsAreAudited
CHECK_DEADLOCK FALSE
