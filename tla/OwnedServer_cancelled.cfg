CONSTANTS
    Sessions = {s1}
    Procs = {a}
    Pids = {x}
    Ports = {q}
    Controllers = {}
    Budgeted = {}
    Systems = {"linux"}
    MaxSigint = 1
    NoProc = NoProc
    NoPid = NoPid
    NoPort = NoPort
SPECIFICATION Spec
INVARIANTS
    CancelledMeansStopped
CHECK_DEADLOCK FALSE
