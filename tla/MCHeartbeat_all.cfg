SPECIFICATION MCSpec
CONSTANTS
    quick = quick
    slow = slow
    QuickLatency = 1
    SlowLatency = 3
    Clients = {quick, slow}
    Interval = 20
    TerminateInterval = 22
    Latency <- Latencies
    NoPing = NoPing
    Peers = {p1, p2, p3}
    Mapping <- Paths
    Urls = {"/chat", "/off", "/none"}
    MaxListens = 2
    MaxMessages = 1
SYMMETRY Alike
INVARIANTS
    LivePeersKept
    SilenceBounded
    TerminatedAfterSilence
    ResponsesSound
CHECK_DEADLOCK FALSE
