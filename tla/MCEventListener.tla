--------------------------- MODULE MCEventListener ---------------------------
(* Small instances of EventListener and of MessagingServer for TLC: a listener   *)
(* on one connection, and a server with several of them, side by side.            *)
EXTENDS EventListener, MessagingServer

VARIABLE part       \* which of the two a behaviour is about; the other one rests

\* One connection takes more messages and losses than two of them together.
Traffic ==
    LET bound(b, c, s, e, l) ==
            [broker |-> b, connections |-> c,
             sends |-> s, echoes |-> e, losses |-> l]
    IN  {bound("amqp", 1..2, 2, 0, 0), bound("amqp", {1}, 2, 1, 2),
         bound("acked", 1..2, 2, 0, 0), bound("acked", 1..2, 1, 0, 1),
         bound("acked", {1}, 2, 0, 2),
         bound("redis", 1..2, 1, 0, 1), bound("redis", 1..2, 1, 1, 0),
         bound("redis", {1}, 2, 1, 1), bound("local", {1}, 2, 1, 0)}

MCInit ==
    /\ part \in {"listener", "server"}
    /\ Init /\ ServerInit
    /\ part = "listener" => style = "bare" /\ load = CHOOSE bound \in Loads : TRUE
    /\ part = "server" => transport = CHOOSE t \in Transports : TRUE

MCNext ==
    \/ part = "listener" /\ Next /\ UNCHANGED <<serverVars, part>>
    \/ part = "server" /\ ServerNext /\ UNCHANGED <<vars, part>>

MCSpec == MCInit /\ [][MCNext]_<<vars, serverVars, part>> /\ Fairness /\ ServerFairness
=============================================================================
