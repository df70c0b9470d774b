SPECIFICATION Spec
INVARIANTS
    TerminationIsOwned
CHECK_DEADLOCK FALSE
