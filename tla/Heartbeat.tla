------------------------------- MODULE Heartbeat -------------------------------
(***************************************************************************)
(* How @marblejs/websockets finds broken connections.  Every Interval the  *)
(* server terminates the clients whose isAlive flag is still down, lowers  *)
(* the flag of the others and pings them; per client, a timeout of         *)
(* TerminateInterval, restarted by each open, ping or pong, terminates the *)
(* connection.  Time is discrete; a peer that lives answers a ping within  *)
(* its Latency, and may send pings of its own.                             *)
(***************************************************************************)
EXTENDS Naturals

CONSTANTS
    Clients,
    Interval,           \* HEART_BEAT_INTERVAL
    TerminateInterval,  \* HEART_BEAT_TERMINATE_INTERVAL
    Latency,            \* per client: bound on the time the living peer takes to answer a ping
    NoPing              \* no ping of the server is unanswered

ASSUME HeartbeatAssumption ==
    /\ Interval \in Nat \ {0}
    /\ TerminateInterval \in Nat
    /\ TerminateInterval > Interval
    /\ Latency \in [Clients -> 0 .. Interval - 1]
    /\ NoPing \notin Nat

VARIABLES
    toTick,     \* time to the next emission of interval(HEART_BEAT_INTERVAL)
    conn,       \* "none", "open", "terminated" (until 'close' is emitted), "closed"
    isAlive,    \* the flag on the client
    idle,       \* age of the client's timeout, since it was last restarted
    ping,       \* age of the unanswered ping, or NoPing
    alive,      \* the peer and its network work
    silence     \* history: time since the peer was last heard of, while open

vars == <<toTick, conn, isAlive, idle, ping, alive, silence>>

Init ==
    /\ toTick = Interval
    /\ conn = [c \in Clients |-> "none"]
    /\ isAlive = [c \in Clients |-> FALSE]
    /\ idle = [c \in Clients |-> 0]
    /\ ping = [c \in Clients |-> NoPing]
    /\ alive = [c \in Clients |-> TRUE]
    /\ silence = [c \in Clients |-> 0]

Open(c) == conn[c] = "open"

\* Slip: the connection handler leaves the flag down.
Connect_FlagDown(c) ==
    /\ conn[c] = "none"
    /\ conn' = [conn EXCEPT ![c] = "open"]
    /\ idle' = [idle EXCEPT ![c] = 0]
    /\ silence' = [silence EXCEPT ![c] = 0]
    /\ UNCHANGED <<toTick, isAlive, ping, alive>>

\* The 'connection' handler.
Connect(c) ==
    /\ conn[c] = "none"
    /\ conn' = [conn EXCEPT ![c] = "open"]
    /\ isAlive' = [isAlive EXCEPT ![c] = TRUE]
    /\ idle' = [idle EXCEPT ![c] = 0]
    /\ silence' = [silence EXCEPT ![c] = 0]
    /\ UNCHANGED <<toTick, ping, alive>>

\* Slip: the server's own ping restarts the client's timeout.
ServerTick_RestartsTimeout ==
    /\ toTick = 0
    /\ toTick' = Interval
    /\ conn' = [c \in Clients |-> IF Open(c) /\ ~isAlive[c] THEN "terminated" ELSE conn[c]]
    /\ isAlive' = [c \in Clients |-> IF Open(c) THEN FALSE ELSE isAlive[c]]
    /\ ping' = [c \in Clients |-> IF Open(c) /\ isAlive[c] THEN 0 ELSE ping[c]]
    /\ idle' = [c \in Clients |-> IF Open(c) /\ isAlive[c] THEN 0 ELSE idle[c]]
    /\ UNCHANGED <<alive, silence>>

\* handleServerBrokenConnections on one emission of the interval, for all clients.
ServerTick ==
    /\ toTick = 0
    /\ toTick' = Interval
    /\ conn' = [c \in Clients |-> IF Open(c) /\ ~isAlive[c] THEN "terminated" ELSE conn[c]]
    /\ isAlive' = [c \in Clients |-> IF Open(c) THEN FALSE ELSE isAlive[c]]
    /\ ping' = [c \in Clients |-> IF Open(c) /\ isAlive[c] THEN 0 ELSE ping[c]]
    /\ UNCHANGED <<idle, alive, silence>>

\* Slip: what is heard restarts the timeout but does not raise the flag.
Heard_FlagDown(c) ==
    /\ Open(c) /\ alive[c]
    /\ idle' = [idle EXCEPT ![c] = 0]
    /\ silence' = [silence EXCEPT ![c] = 0]
    /\ UNCHANGED <<toTick, conn, isAlive, alive>>

\* handleClientBrokenConnection hears a pong, or a ping of the peer.
Heard(c) ==
    /\ Open(c) /\ alive[c]
    /\ isAlive' = [isAlive EXCEPT ![c] = TRUE]
    /\ idle' = [idle EXCEPT ![c] = 0]
    /\ silence' = [silence EXCEPT ![c] = 0]
    /\ UNCHANGED <<toTick, conn, alive>>

Pong(c) ==
    /\ ping[c] # NoPing
    /\ ping' = [ping EXCEPT ![c] = NoPing]
    /\ Heard(c)

PeerPing(c) ==
    /\ Heard(c)
    /\ UNCHANGED ping

\* handleClientBrokenConnection's timeout fires: the client is terminated.
ClientTimeout(c) ==
    /\ Open(c)
    /\ idle[c] = TerminateInterval
    /\ conn' = [conn EXCEPT ![c] = "terminated"]
    /\ UNCHANGED <<toTick, isAlive, idle, ping, alive, silence>>

\* The connection is closed, by the peer or after terminate().
Closed(c) ==
    /\ conn[c] \in {"open", "terminated"}
    /\ conn' = [conn EXCEPT ![c] = "closed"]
    /\ UNCHANGED <<toTick, isAlive, idle, ping, alive, silence>>

\* The peer crashes, or its network is cut, without closing the connection.
Die(c) ==
    /\ alive[c]
    /\ alive' = [alive EXCEPT ![c] = FALSE]
    /\ UNCHANGED <<toTick, conn, isAlive, idle, ping, silence>>

\* What has to happen before time goes on (timers and answers are prompt).
PongDue(c) == Open(c) /\ alive[c] /\ ping[c] = Latency[c]
TimeoutDue(c) == Open(c) /\ idle[c] = TerminateInterval

Elapse ==
    /\ toTick > 0
    /\ \A c \in Clients : ~PongDue(c) /\ ~TimeoutDue(c)
    /\ toTick' = toTick - 1
    /\ idle' = [c \in Clients |-> IF Open(c) THEN idle[c] + 1 ELSE idle[c]]
    /\ ping' = [c \in Clients |->
                  IF Open(c) /\ ping[c] # NoPing /\ alive[c] THEN ping[c] + 1 ELSE ping[c]]
    /\ silence' = [c \in Clients |-> IF Open(c) THEN silence[c] + 1 ELSE silence[c]]
    /\ UNCHANGED <<conn, isAlive, alive>>

Next ==
    \/ ServerTick
    \/ Elapse
    \/ \E c \in Clients :
         Connect(c) \/ Pong(c) \/ PeerPing(c) \/ ClientTimeout(c) \/ Closed(c) \/ Die(c)

Spec == Init /\ [][Next]_vars

-----------------------------------------------------------------------------
TypeOK ==
    /\ toTick \in 0 .. Interval
    /\ conn \in [Clients -> {"none", "open", "terminated", "closed"}]
    /\ isAlive \in [Clients -> BOOLEAN]
    /\ idle \in [Clients -> 0 .. TerminateInterval]
    /\ ping \in [Clients -> 0 .. Interval - 1 \cup {NoPing}]
    /\ \A c \in Clients : ping[c] # NoPing => ping[c] <= Latency[c]
    /\ alive \in [Clients -> BOOLEAN]
    /\ silence \in [Clients -> Nat]

\* A peer that answers pings within the margin TerminateInterval - Interval is
\* never terminated, whenever it connected relative to the interval.
WithinMargin(c) == Latency[c] < TerminateInterval - Interval
LivePeersKept == \A c \in Clients : WithinMargin(c) /\ alive[c] => conn[c] # "terminated"

\* No open connection has been silent for longer than TerminateInterval.
SilenceBounded == \A c \in Clients : Open(c) => silence[c] <= TerminateInterval

\* However slow its answers are, a peer is only terminated after a whole Interval
\* in which nothing was heard of it.
TerminatedAfterSilence == \A c \in Clients : conn[c] = "terminated" => silence[c] >= Interval
=============================================================================
