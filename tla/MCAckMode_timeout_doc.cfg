SPECIFICATION Spec
CONSTANTS
    MaxDeliveries = 2
    CorrelationIds = {c1, c2}
    UserOps = {"ack"}
    ExpectAck = TRUE
    None = None
INVARIANT RejectsOnlyOnTimeout
CHECK_DEADLOCK FALSE
