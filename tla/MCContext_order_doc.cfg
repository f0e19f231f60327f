SPECIFICATION Spec
CONSTANTS
    N = 2
    Yields = {"value"}
INVARIANT EagerAreResolved
CHECK_DEADLOCK FALSE
