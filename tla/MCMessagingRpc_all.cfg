SPECIFICATION FairSpec
CONSTANTS
    Calls = {c1, c2}
    Messages = {m1, m2}
    Transports = {"amqp", "redis", "local"}
    MaxReplies = 2
    MaxDisconnects = 1
INVARIANTS
    TypeOK
    SentOnce
    TimesOutForReason
PROPERTIES
    NothingLeftBehind
    ImplementsCall
CHECK_DEADLOCK FALSE
