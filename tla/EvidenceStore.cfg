CONSTANTS
    None = None
    p1 = p1  p2 = p2
    m1 = m1  m2 = m2
    stock1 = stock1  stock2 = stock2  warm1 = warm1  fork1 = fork1
    stock = stock  patched = patched
    Proc = {p1, p2}
    Sealer = {p2}
    Mid = {m1, m2}
    Run = {stock1, stock2, warm1, fork1}
    Candidate = {stock, patched}
    CandOf <- MCCandOf
    TokensOf <- MCTokensOf
    Warmup = {warm1}
    Fork = {fork1}
    Needed = 1
    MaxStamp = 1
SPECIFICATION MCSpec
INVARIANTS
    TypeOK
    RowsAreSound
    ForkIsCompared
    SealedIsSound
PROPERTIES
    CacheIsTrue
    CallsEnd
    ImplementsLedger
