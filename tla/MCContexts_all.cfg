SPECIFICATION MCSpec
CONSTANTS
    N = 3
    Yields = {"value", "void", "error"}
    ContextTokens = {"logger", "derived", "client", "bus", "a", "b"}
    Scenarios <- ContextScenarios
INVARIANTS
    LazyOnce
    OrderedIsResolved
    RejectsForReason
    
PROPERTIES
    SecondInstanceOnlyInFlight
    Settles
CHECK_DEADLOCK FALSE
