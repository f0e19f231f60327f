SPECIFICATION FairSpec
CONSTANTS
    Requests = {q1, q2, q3}
    Routes = {plain, feed}
    Continuous = {feed}
    Faults = {}
    MaxEmits = 1
    SurvivesThrow = FALSE
INVARIANTS
    StaysUp
    LostOnlyBySibling
PROPERTIES
    EveryRequestAnswered
    ImplementsPromise
CHECK_DEADLOCK FALSE
