CONSTANTS
    Sessions = {s1}
    Procs = {a, b}
    Pids = {x, y}
    Ports = {q}
    Controllers = {k}
    Budgeted = {s1}
    Systems = {"linux", "windows"}
    MaxSigint = 1
    NoProc = NoProc
    NoPid = NoPid
    NoPort = NoPort
SPECIFICATION FairSpec
INVARIANTS
    TypeOK
    ReceiptIsTrue
    ReadyMeansOwnListener
    NoRunawayOnWindows
    StopWaitsOnWindows
PROPERTIES
    SignalsStayInCustody
    SessionEnds
CHECK_DEADLOCK FALSE
