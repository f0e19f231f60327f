------------------------------ MODULE RemoteCall ------------------------------
(***************************************************************************)
(* What the messaging client promises of send(): a call that was begun     *)
(* ends exactly once, with a reply, a timeout or an error, and it is only  *)
(* replied to if the other side has handled a request that carried its     *)
(* message.  External to any one source file: MessagingRpc implements it.  *)
(***************************************************************************)
CONSTANT Calls

VARIABLES
    message,    \* the message each call sends (calls may share one)
    outcome,    \* "none", "waiting", "replied", "timedOut" or "failed"
    handled     \* calls whose request the other side has handled

vars == <<message, outcome, handled>>

Init ==
    /\ outcome = [c \in Calls |-> "none"]
    /\ handled = {}

Become(c, from, to) ==
    /\ outcome[c] = from
    /\ outcome' = [outcome EXCEPT ![c] = to]
    /\ UNCHANGED <<message, handled>>

Begin(c) == Become(c, "none", "waiting")

Handle(c) ==
    /\ outcome[c] # "none"
    /\ handled' = handled \cup {c}
    /\ UNCHANGED <<message, outcome>>

Reply(c) ==
    /\ \E d \in handled : message[d] = message[c]
    /\ Become(c, "waiting", "replied")

\* One lost connection may fail any number of calls at once.
Fail(hit) ==
    /\ \A c \in hit : outcome[c] = "waiting"
    /\ outcome' = [c \in Calls |-> IF c \in hit THEN "failed" ELSE outcome[c]]
    /\ UNCHANGED <<message, handled>>

TimeOut(c) == Become(c, "waiting", "timedOut")

Next ==
    \/ \E c \in Calls : Begin(c) \/ Handle(c) \/ Reply(c) \/ TimeOut(c)
    \/ \E hit \in SUBSET Calls : Fail(hit)

Spec == Init /\ [][Next]_vars
FairSpec == Spec /\ \A c \in Calls : WF_vars(Reply(c) \/ TimeOut(c))
=============================================================================
