----------------------------- MODULE MCHeartbeat -----------------------------
(* Small instances of Heartbeat and WebSocketServer for TLC: a quick peer and a  *)
(* slow one, and a server whose clients talk to it, side by side.               *)
EXTENDS Heartbeat, WebSocketServer, TLC

CONSTANTS quick, slow, QuickLatency, SlowLatency

\* Clients of the server are alike; those of the heartbeat differ in their latency.
Alike == Permutations(Peers)

VARIABLE part       \* which of the two a behaviour is about; the other one rests

Latencies == (quick :> QuickLatency) @@ (slow :> SlowLatency)

\* One path is mapped twice, and one to a server that is not there.
Paths == <<[path |-> "/chat", server |-> FALSE], [path |-> "/chat", server |-> TRUE],
           [path |-> "/off", server |-> FALSE]>>

MCInit == part \in {"heartbeat", "server"} /\ Init /\ WebInit

MCNext ==
    \/ part = "heartbeat" /\ Next /\ UNCHANGED <<webVars, part>>
    \/ part = "server" /\ WebNext /\ UNCHANGED <<vars, part>>

MCSpec == MCInit /\ [][MCNext]_<<vars, webVars, part>>
=============================================================================
