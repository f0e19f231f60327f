SPECIFICATION MCSpec
CONSTANTS
    NEffects = 2
    Guarded = {2}
    Transports = {"local", "broker", "acked", "websocket"}
    MaxEvents = 3
    MaxFailures = 2
    Connections = {1, 2}
    Loads <- Traffic
INVARIANTS
    SeenInOrder
    FailuresConfined
    ServerSound
PROPERTIES
    EveryEventIsSeen
    QueuesDrain
CHECK_DEADLOCK FALSE
