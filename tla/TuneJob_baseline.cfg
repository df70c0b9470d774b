CONSTANTS
    None = None
    Partial = Partial
    Candidates <- TwoCandidates
    SearchRates = {104, 120}
    PairRates = {100, 120}
    Tokens = {"same"}
    Hosts <- OneHost
    Budget = 100
    Spacing = 1
    Preparations = {0}
    Durations = {1}
    Oversleep = {0}
SPECIFICATION Spec
INVARIANTS
    InconclusiveKeepsBaseline
CHECK_DEADLOCK FALSE
