CONSTANTS
    None = None
    Hosts <- ThereAndBack
    Challengers <- OneChallenger
    MaxEdits = 1
    Partial = Partial
    ThreadCounts <- OneCandidate
    SearchRates = {100, 120}
    PairRates = {100, 120}
    Tokens = {"same", "other"}
    Budget = 24
    Spacing = 1
    Preparations = {0, 3}
    Durations = {1, 4}
    Oversleep = {0, 3}
    Setups = {s1, s2}
    MaxDeaths = 1
    MaxRemovals = 1
    Replies = 2
    MaxSamples = 1
    MaxMishaps = 2
SPECIFICATION MCSpec
INVARIANTS
    TypesAreRight
    AcceptedIsEarned
    PublicationIsTrue
    ChallengerIsEarned
    ConsumerIsBound
    ReportIsReconstructible
    SelectedIsEarned
    JournalCovers
    ProfilesAreKept
PROPERTIES
    Paced
    MeasurementsEnd
CHECK_DEADLOCK FALSE
