SPECIFICATION FairSpec
CONSTANTS
    MaxDeliveries = 2
    CorrelationIds = {c1, c2}
    UserOps = {"ack", "resend"}
    ExpectAck = TRUE
    None = None
INVARIANTS
    StoreSound
    LostOnlyWhenShared
    HandledIsDisarmed
    DiscardedOnArrival
PROPERTIES
    TimersEnd
    StoreDrains
CHECK_DEADLOCK FALSE
