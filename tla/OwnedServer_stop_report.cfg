CONSTANTS
    Sessions = {s1}
    Procs = {a}
    Pids = {x}
    Ports = {q}
    Controllers = {k}
    Budgeted = {}
    Systems = {"linux"}
    MaxSigint = 0
    NoProc = NoProc
    NoPid = NoPid
    NoPort = NoPort
SPECIFICATION Spec
INVARIANTS
    StopReportIsTrue
CHECK_DEADLOCK FALSE
