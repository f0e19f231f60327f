------------------------------- MODULE AckMode -------------------------------
(***************************************************************************)
(* Acknowledgement mode of the AMQP consumer of @marblejs/messaging:       *)
(* the rejectUnhandled$ middleware, the EventTimerStore it registers its   *)
(* timers in, and the ackEvent / nackEvent / nackAndResendEvent tasks      *)
(* effects run on the same events.                                         *)
(*                                                                         *)
(* A delivery is one message handed to the consumer; deliveries are        *)
(* numbered in order of arrival, and a message that is redelivered, or     *)
(* that answers the same request, is a new delivery with an old            *)
(* correlation id.  The JavaScript event loop is modelled by "turn": a     *)
(* promise continuation (the unregister step of a task) is queued as a     *)
(* microtask and runs before the loop takes another macrotask, but one     *)
(* socket callback may hand over several deliveries, and one timers phase  *)
(* may run several expired timers, before the microtasks get their turn.   *)
(***************************************************************************)
EXTENDS Naturals, Sequences

CONSTANTS
    MaxDeliveries,  \* bound on the number of deliveries
    CorrelationIds, \* correlation ids the events carry (idApplier$ gives each one)
    UserOps,        \* the operations effects use on their events
    ExpectAck,      \* the strategy option that turns the ack mode on
    None            \* no correlation id yet, no timer in the store

AckOps == {"ack", "nack", "resend"}

ASSUME ConstantsAssumption ==
    /\ MaxDeliveries \in Nat
    /\ UserOps \subseteq AckOps
    /\ ExpectAck \in BOOLEAN
    /\ None \notin CorrelationIds
    /\ None \notin Nat

Deliveries == 1 .. MaxDeliveries
Ops == UserOps \cup {"reject"}      \* "reject": the handler rejectUnhandled$ registers

VARIABLES
    count,      \* how many deliveries have arrived
    key,        \* correlation id of each delivery
    timer,      \* the delivery's timeout: "unset", "armed", "fired" or "cleared"
    store,      \* EventTimerStore.store: correlation id -> the timer of a delivery
    isAcked,    \* flag on the raw message
    isNacked,   \* flag on the raw message
    settled,    \* what the broker has been told of the delivery, in this order
    stage,      \* progress of each operation's task
    turn        \* the macrotask the event loop is in

vars == <<count, key, timer, store, isAcked, isNacked, settled, stage, turn>>

Arrived(d) == d <= count

Init ==
    /\ count = 0
    /\ key = [d \in Deliveries |-> None]
    /\ timer = [d \in Deliveries |-> "unset"]
    /\ store = [k \in CorrelationIds |-> None]
    /\ isAcked = [d \in Deliveries |-> FALSE]
    /\ isNacked = [d \in Deliveries |-> FALSE]
    /\ settled = [d \in Deliveries |-> <<>>]
    /\ stage = [d \in Deliveries |-> [o \in Ops |-> "idle"]]
    /\ turn = "idle"

\* Some task waits in the microtask queue for its unregister step.
MicrotaskQueued == \E d \in Deliveries, o \in Ops : stage[d][o] = "unregister"

\* The event loop may start (or is still inside) a macrotask of kind t.
MayRun(t) == turn = t \/ ~MicrotaskQueued

Settle(d, result) == settled' = [settled EXCEPT ![d] = Append(@, result)]

\* connection.ackMessage(raw)
AckMessage(d) ==
    IF ExpectAck /\ ~isAcked[d]
    THEN /\ isAcked' = [isAcked EXCEPT ![d] = TRUE]
         /\ Settle(d, "acked")
         /\ UNCHANGED isNacked
    ELSE UNCHANGED <<isAcked, isNacked, settled>>

\* connection.nackMessage(raw, resend)
NackMessage(d, resend) ==
    IF ExpectAck /\ ~isNacked[d]
    THEN /\ isNacked' = [isNacked EXCEPT ![d] = TRUE]
         /\ Settle(d, IF resend THEN "requeued" ELSE "discarded")
         /\ UNCHANGED isAcked
    ELSE UNCHANGED <<isAcked, isNacked, settled>>

\* Fault seeded into register: the entry forgotten.
Register_NoEntry(d, k) ==
    /\ timer' = [timer EXCEPT ![d] = "armed"]
    /\ UNCHANGED store

\* EventTimerStore.register: a new timer, its entry replacing one of the same key.
Register(d, k) ==
    /\ timer' = [timer EXCEPT ![d] = "armed"]
    /\ store' = [store EXCEPT ![k] = d]

\* Faults seeded into unregister: no clearTimeout; no deletion of the entry.
Unregister_KeepsTimer(k) ==
    /\ UNCHANGED timer
    /\ store' = [store EXCEPT ![k] = None]

Unregister_KeepsEntry(k) ==
    /\ timer' = IF store[k] = None THEN timer ELSE [timer EXCEPT ![store[k]] = "cleared"]
    /\ UNCHANGED store

\* EventTimerStore.unregister: the timer found under the event's key is cleared.
Unregister(k) ==
    /\ timer' = IF store[k] = None THEN timer ELSE [timer EXCEPT ![store[k]] = "cleared"]
    /\ store' = [store EXCEPT ![k] = None]

\* Fault seeded into rejectUnhandled$: the broker call left to the timer.
RejectUnhandled_Lazy(d, k) ==
    /\ Register(d, k)
    /\ UNCHANGED <<isAcked, isNacked, settled>>

\* rejectUnhandled$ on an incoming event: building the rejection task already
\* calls nackMessage (E.tryCatch runs its thunk at once); the timer then only
\* runs the rest of that task.
RejectUnhandled(d, k) ==
    IF ExpectAck
    THEN NackMessage(d, FALSE) /\ Register(d, k)
    ELSE UNCHANGED <<isAcked, isNacked, settled, timer, store>>

\* The channel hands over the next message.
Deliver(k) ==
    /\ count < MaxDeliveries
    /\ MayRun("io")
    /\ count' = count + 1
    /\ key' = [key EXCEPT ![count + 1] = k]
    /\ RejectUnhandled(count + 1, k)
    /\ turn' = "io"
    /\ UNCHANGED stage

\* An effect runs ackEvent, nackEvent or nackAndResendEvent on an event: the
\* broker is called at once, the task goes on in the microtask queue.  Bound: an
\* effect may repeat an operation, but not while the same one is in flight.
Handle(d, o) ==
    /\ Arrived(d)
    /\ stage[d][o] \in {"idle", "done"}
    /\ CASE o = "ack" -> AckMessage(d)
         [] o = "nack" -> NackMessage(d, FALSE)
         [] o = "resend" -> NackMessage(d, TRUE)
    /\ stage' = [stage EXCEPT ![d][o] = "unregister"]
    /\ UNCHANGED <<count, key, timer, store, turn>>

\* The unregisterTask of an operation.
UnregisterTask(d, o) ==
    /\ stage[d][o] = "unregister"
    /\ stage' = [stage EXCEPT ![d][o] = "wait"]
    /\ Unregister(key[d])
    /\ turn' = "idle"
    /\ UNCHANGED <<count, key, isAcked, isNacked, settled>>

\* timeoutTask ends and the task resolves; a rejection is logged.
Resolve(d, o) ==
    /\ stage[d][o] = "wait"
    /\ MayRun("timers")
    /\ stage' = [stage EXCEPT ![d][o] = "done"]
    /\ turn' = "timers"
    /\ UNCHANGED <<count, key, timer, store, isAcked, isNacked, settled>>

\* Faults seeded into the expiry: the entry is kept; the timer repeats.
Expire_KeepsEntry(d) ==
    /\ timer[d] = "armed"
    /\ MayRun("timers")
    /\ timer' = [timer EXCEPT ![d] = "fired"]
    /\ stage' = [stage EXCEPT ![d]["reject"] = "unregister"]
    /\ turn' = "timers"
    /\ UNCHANGED <<count, key, store, isAcked, isNacked, settled>>

Expire_Repeats(d) ==
    /\ timer[d] = "armed"
    /\ MayRun("timers")
    /\ store' = [store EXCEPT ![key[d]] = None]
    /\ stage' = [stage EXCEPT ![d]["reject"] = "unregister"]
    /\ turn' = "timers"
    /\ UNCHANGED <<count, key, timer, isAcked, isNacked, settled>>

\* A timeout expires: the rejection task is started (not awaited) and the entry
\* under the key is deleted, whichever timer it holds.
Expire(d) ==
    /\ timer[d] = "armed"
    /\ MayRun("timers")
    /\ timer' = [timer EXCEPT ![d] = "fired"]
    /\ store' = [store EXCEPT ![key[d]] = None]
    /\ stage' = [stage EXCEPT ![d]["reject"] = "unregister"]
    /\ turn' = "timers"
    /\ UNCHANGED <<count, key, isAcked, isNacked, settled>>

Next ==
    \/ \E k \in CorrelationIds : Deliver(k)
    \/ \E d \in Deliveries, o \in UserOps : Handle(d, o)
    \/ \E d \in Deliveries, o \in Ops : UnregisterTask(d, o)
    \/ \E d \in Deliveries, o \in Ops : Resolve(d, o)
    \/ \E d \in Deliveries : Expire(d)

\* The event loop empties its microtask queue and, each time it enters the timers
\* phase, runs what is due there (strong fairness: operations that keep queueing
\* continuations delay the phase but cannot keep the loop from it).  It owes
\* nothing to the broker or to the effects.
Fairness ==
    /\ WF_vars(\E d \in Deliveries, o \in Ops : UnregisterTask(d, o))
    /\ \A d \in Deliveries : SF_vars(Expire(d))

Spec == Init /\ [][Next]_vars
FairSpec == Spec /\ Fairness

-----------------------------------------------------------------------------
Settlements == {"acked", "discarded", "requeued"}

SameKey(d, e) == e # d /\ Arrived(e) /\ key[e] = key[d]

TypeOK ==
    /\ count \in 0 .. MaxDeliveries
    /\ key \in [Deliveries -> CorrelationIds \cup {None}]
    /\ timer \in [Deliveries -> {"unset", "armed", "fired", "cleared"}]
    /\ store \in [CorrelationIds -> Deliveries \cup {None}]
    /\ isAcked \in [Deliveries -> BOOLEAN]
    /\ isNacked \in [Deliveries -> BOOLEAN]
    /\ settled \in [Deliveries -> Seq(Settlements)]
    /\ stage \in [Deliveries -> [Ops -> {"idle", "unregister", "wait", "done"}]]
    /\ turn \in {"idle", "io", "timers"}

\* Every entry of the timer store holds a live timer, of an event that carries
\* the entry's correlation id: clearTimeout in unregister never meets a timer
\* that has already run or that belongs to a different id.
StoreSound ==
    \A k \in CorrelationIds : store[k] # None =>
        timer[store[k]] = "armed" /\ key[store[k]] = k

\* A live timer that the store has lost (no ack can cancel it any more) was
\* overwritten by a later delivery with the same correlation id, or dropped by
\* the expiry of another one.
LostOnlyWhenShared ==
    \A d \in Deliveries : timer[d] = "armed" /\ store[key[d]] # d =>
        \E e \in Deliveries : SameKey(d, e) /\ (e > d \/ timer[e] = "fired")

\* Once an operation on an event got past its unregister step, the event's
\* rejection timer can still be live only if another event shares its id.
HandledIsDisarmed ==
    \A d \in Deliveries, o \in Ops : stage[d][o] \in {"wait", "done"} /\ timer[d] = "armed" =>
        \E e \in Deliveries : SameKey(d, e)

\* An effect has run ackEvent on the event.
AckBegun(d) == "ack" \in UserOps /\ stage[d]["ack"] # "idle"

\* In ack mode the broker is told to discard every event on arrival. An ack of its
\* effect comes second, to a delivery that is settled; however often effects repeat or
\* mix their operations, nothing else is ever told, and nackAndResendEvent never
\* requeues.
DiscardedOnArrival ==
    ExpectAck => \A d \in Deliveries : Arrived(d) =>
        settled[d] = IF AckBegun(d) THEN <<"discarded", "acked">> ELSE <<"discarded">>

\* Every timer the middleware arms runs or is cleared, also the ones the store
\* has lost.
TimersEnd == \A d \in Deliveries : timer[d] = "armed" ~> timer[d] \in {"fired", "cleared"}

\* The store holds no entry for ever: when the broker has nothing more to
\* deliver, it becomes empty and stays so.
StoreDrains == <>[](\A k \in CorrelationIds : store[k] = None)

\* messaging.ack.middleware.ts:12 says an unhandled event is rejected "when
\* `timeout` defined by the transport layer options occurs": an event no effect
\* has settled is discarded only after its timer fired.
RejectsOnlyOnTimeout ==
    \A d \in Deliveries :
        settled[d] = <<"discarded">> /\ (\A o \in UserOps : stage[d][o] = "idle") => timer[d] = "fired"
=============================================================================
