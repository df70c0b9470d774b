CONSTANTS
    None = None
    Size = 2
    MaxNetFaults = 1
SPECIFICATION Spec
INVARIANTS
    ResumeSucceeds
CHECK_DEADLOCK FALSE
