----------------------------- MODULE RequestReply -----------------------------
(***************************************************************************)
(* What a request/response component promises: a request that came in gets *)
(* one reply, which is begun once, completed once and never taken back,    *)
(* and every request gets it eventually.  External to any one source file: *)
(* the detailed modules are shown to implement it.                         *)
(***************************************************************************)
CONSTANT Requests

VARIABLE status     \* request -> "idle", "open", "replying" or "answered"

Init == status = [q \in Requests |-> "idle"]

Move(q, from, to) ==
    /\ status[q] = from
    /\ status' = [status EXCEPT ![q] = to]

Open(q) == Move(q, "idle", "open")
Begin(q) == Move(q, "open", "replying")
Finish(q) == Move(q, "replying", "answered")

Next == \E q \in Requests : Open(q) \/ Begin(q) \/ Finish(q)

Spec == Init /\ [][Next]_status
FairSpec == Spec /\ \A q \in Requests : WF_status(Begin(q)) /\ WF_status(Finish(q))
=============================================================================
