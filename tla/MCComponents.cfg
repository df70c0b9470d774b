CONSTANTS
    None = None
    Placements = {p1}
    Rates = {1, 2}
    Repeats = 2
    Pairs = 2
    MaxCompiles = 2
    Corpus = 2
    MaxFaults = 2
    Size = 2
    MaxNetFaults = 3
    Parts = 3
    Experts = {1, 2, 3}
    Capacity = 2
    TopK = 2
    MaxTransfers = 2
    StepEvents = 2
    MaxCount = 2
    Slots = 2
    Rounds = 2
    Warmups = 1
    BlockRuns = 2
    RawRuns = 2
    MaxDrifts = 6
    Cases = 2
    ReferenceRuns = 1
    ScreeningRuns = 1
    ConfirmationRuns = 1
    MaxShifts = 2
    Prompt = 2
    Predict = 3
    Depth = 2
    Captures = {3}
    Target = 2
    ModelLayers = 2
    Weights = 2
    Bank = 3
    MaxLayers = 2
    MaxShadows = 3
    MaxGraphs = 2
SPECIFICATION Spec
INVARIANTS
    TypeOK
    PublishedPlanIsTrue
    AttemptsAreTrue
    InstallIsSound
    RunIsTrue
    ResultIsTrue
    TransfersAreSound
    StudyIsEarned
    AuditIsExact
    ProbeIsFaithful
    CacheIsSound
PROPERTIES
    RecordsAreKept
    TransfersSpareDemand
    NoRetry
    ComponentsEnd
\* A plan, a complete collection, a finished run or call are left as they are.
CHECK_DEADLOCK FALSE
