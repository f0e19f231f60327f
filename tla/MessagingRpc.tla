----------------------------- MODULE MessagingRpc -----------------------------
(***************************************************************************)
(* MessagingClient.send over the three transports of @marblejs/messaging:  *)
(* sendMessage of the AMQP, Redis and local strategies, the reply address  *)
(* each listens on, and the timeout of the client above it.                *)
(*                                                                         *)
(* A call is one subscription of what send() returned.  Subscribing twice  *)
(* (a retry, two observers) sends the same message object again: such      *)
(* calls share their message.  The other side handles every request it     *)
(* gets and replies to it 0 .. MaxReplies times; a lost message is one     *)
(* without a reply.  A "hasty" call may time out at any moment, a patient  *)
(* one when nothing is on its way any more.                                *)
(***************************************************************************)
EXTENDS Naturals

CONSTANTS
    Calls,
    Messages,
    Transports,
    MaxReplies,         \* replies to one request
    MaxDisconnects      \* connections to the broker that are lost

ASSUME RpcAssumption ==
    /\ Transports \subseteq {"amqp", "redis", "local"}
    /\ MaxReplies \in Nat
    /\ MaxDisconnects \in Nat
    /\ "none" \notin Calls

VARIABLES
    transport, message, hasty,  \* chosen once
    id,         \* correlation id a message object carries: the call that set it
    stage,      \* sendMessage: "idle", "preparing", "publishing", "cleaning" or "done"
    outcome,    \* the call: "none", "waiting", "replied", "timedOut" or "failed"
    listening,  \* calls subscribed to the replies of their connection
    sent,       \* how often the call's request was sent
    requests,   \* requests on their way
    replies,    \* replies on their way
    handled,    \* calls whose request the other side has handled
    answered,   \* those of them it has replied to
    missed,     \* calls that got a reply while they waited and did not listen
    setups,     \* AMQP: channel setups, run again for every new connection
    open,       \* reply addresses the broker delivers to: <<call, connection>>
    timers,     \* AMQP: addresses whose removal timer is running
    gen,        \* connections lost so far
    connected

choices == <<transport, message, hasty>>
wire == <<requests, replies>>
history == <<handled, answered, missed>>
channel == <<setups, open, timers, gen, connected>>
vars == <<choices, id, stage, outcome, listening, sent, wire, history, channel>>

Stages == {"idle", "preparing", "publishing", "cleaning", "done"}
Outcomes == {"none", "waiting", "replied", "timedOut", "failed"}
Addresses == Calls \X (0 .. MaxDisconnects)

Init ==
    /\ transport \in Transports
    /\ message \in [Calls -> Messages]
    /\ hasty \in SUBSET Calls
    /\ id = [m \in Messages |-> "none"]
    /\ stage = [c \in Calls |-> "idle"]
    /\ outcome = [c \in Calls |-> "none"]
    /\ listening = {}
    /\ sent = [c \in Calls |-> 0]
    /\ requests = {} /\ replies = {}
    /\ handled = {} /\ answered = {} /\ missed = {}
    /\ setups = {} /\ open = {} /\ timers = {}
    /\ gen = 0
    /\ connected = TRUE

Over(c) == outcome[c] \in {"replied", "timedOut", "failed"}
Shared(c) == \E d \in Calls \ {c} : message[d] = message[c]

\* What a call waits for ends it only once.
Settle(c, how) ==
    outcome' = IF outcome[c] = "waiting" THEN [outcome EXCEPT ![c] = how] ELSE outcome

Stage(c, next) == stage' = [stage EXCEPT ![c] = next]

Request(c, correlation) ==
    /\ requests' = requests \cup {[from |-> c, to |-> correlation, at |-> gen]}
    /\ sent' = [sent EXCEPT ![c] = @ + 1]

-----------------------------------------------------------------------------
\* Slip: the strategies do not write the correlation id.
SendMessage_NoId(c) ==
    /\ outcome[c] = "none"
    /\ outcome' = [outcome EXCEPT ![c] = "waiting"]
    /\ IF transport = "amqp" /\ ~connected THEN Stage(c, "done") ELSE Stage(c, "preparing")
    /\ listening' = IF transport = "local" \/ (transport = "amqp" /\ ~connected)
                    THEN listening \cup {c} ELSE listening
    /\ setups' = IF transport = "amqp" THEN setups \cup {c} ELSE setups
    /\ UNCHANGED <<choices, id, sent, wire, history, open, timers, gen, connected>>

\* send() is subscribed: the timeout starts, sendMessage is called.  The local and
\* the Redis strategy write the correlation id into the message object; the local
\* one listens at once, AMQP as soon as addSetup has nothing to wait for.
SendMessage(c) ==
    /\ outcome[c] = "none"
    /\ outcome' = [outcome EXCEPT ![c] = "waiting"]
    /\ id' = IF transport = "amqp" THEN id ELSE [id EXCEPT ![message[c]] = c]
    /\ IF transport = "amqp" /\ ~connected THEN Stage(c, "done") ELSE Stage(c, "preparing")
    /\ listening' = IF transport = "local" \/ (transport = "amqp" /\ ~connected)
                    THEN listening \cup {c} ELSE listening
    /\ setups' = IF transport = "amqp" THEN setups \cup {c} ELSE setups
    /\ UNCHANGED <<choices, sent, wire, history, open, timers, gen, connected>>

\* Local: the setImmediate callback hands the message object over as it is now.
Immediate(c) ==
    /\ transport = "local" /\ stage[c] = "preparing"
    /\ Stage(c, "done")
    /\ Request(c, id[message[c]])
    /\ UNCHANGED <<choices, id, outcome, listening, replies, history, channel>>

\* Redis: the reply channel is subscribed, emitMessage encodes the id of the message.
Subscribed(c) ==
    /\ transport = "redis" /\ stage[c] = "preparing"
    /\ Stage(c, "publishing")
    /\ open' = open \cup {<<c, gen>>}
    /\ Request(c, id[message[c]])
    /\ UNCHANGED <<choices, id, outcome, listening, replies, history, setups, timers, gen, connected>>

\* Redis: the publish command is acknowledged, only now the call listens.
Published(c) ==
    /\ transport = "redis" /\ stage[c] = "publishing"
    /\ Stage(c, "done")
    /\ listening' = listening \cup {c}
    /\ UNCHANGED <<choices, id, outcome, sent, wire, history, channel>>

\* Redis: a command is refused, sendMessage rejects.
Refused(c) ==
    /\ transport = "redis" /\ stage[c] \in {"preparing", "publishing"}
    /\ Stage(c, "done")
    /\ Settle(c, "failed")
    /\ UNCHANGED <<choices, id, listening, sent, wire, history, channel>>

\* Slip: modifyChannelSetup sends the request whenever it runs, without first().
OpenQueue_Resends(c) ==
    /\ connected /\ c \in setups /\ <<c, gen>> \notin open \cup timers
    /\ open' = open \cup {<<c, gen>>}
    /\ timers' = timers \cup {<<c, gen>>}
    /\ Request(c, c)
    /\ IF stage[c] = "preparing"
       THEN Stage(c, "done") /\ listening' = listening \cup {c}
       ELSE UNCHANGED <<stage, listening>>
    /\ UNCHANGED <<choices, id, outcome, replies, history, setups, gen, connected>>

\* AMQP: modifyChannelSetup runs, for addSetup or for a new connection.  It opens a
\* reply queue of its own and starts its removal timer; the request is sent the
\* first time only.  If addSetup waits for it, sendMessage goes on to listen.
OpenQueue(c) ==
    /\ connected /\ c \in setups /\ <<c, gen>> \notin open \cup timers
    /\ open' = open \cup {<<c, gen>>}
    /\ timers' = timers \cup {<<c, gen>>}
    /\ IF sent[c] = 0 THEN Request(c, c) ELSE UNCHANGED <<requests, sent>>
    /\ IF stage[c] = "preparing"
       THEN Stage(c, "done") /\ listening' = listening \cup {c}
       ELSE UNCHANGED <<stage, listening>>
    /\ UNCHANGED <<choices, id, outcome, replies, history, setups, gen, connected>>

\* Slips: the timer is shorter than the timeout of the call; it cancels the consumer
\* and keeps the setup.
RemoveSetup_TooEarly(c, g) ==
    /\ <<c, g>> \in timers
    /\ timers' = timers \ {<<c, g>>}
    /\ setups' = setups \ {c}
    /\ open' = open \ {<<c, g>>}
    /\ UNCHANGED <<choices, id, stage, outcome, listening, sent, wire, history, gen, connected>>

RemoveSetup_KeepsSetup(c, g) ==
    /\ <<c, g>> \in timers
    /\ outcome[c] # "waiting"
    /\ timers' = timers \ {<<c, g>>}
    /\ open' = open \ {<<c, g>>}
    /\ UNCHANGED <<choices, id, stage, outcome, listening, sent, wire, history, setups, gen, connected>>

\* AMQP: the removal timer, which was started after the timeout of the call and
\* runs as long: the setup is dropped and the consumer of its queue cancelled.
RemoveSetup(c, g) ==
    /\ <<c, g>> \in timers
    /\ outcome[c] # "waiting"
    /\ timers' = timers \ {<<c, g>>}
    /\ setups' = setups \ {c}
    /\ open' = open \ {<<c, g>>}
    /\ UNCHANGED <<choices, id, stage, outcome, listening, sent, wire, history, gen, connected>>

\* AMQP: the connection is lost, with all reply queues.  A setup in progress fails,
\* and addSetup with it; it stays registered.
Disconnect ==
    /\ transport = "amqp" /\ connected
    /\ gen < MaxDisconnects
    /\ connected' = FALSE
    /\ open' = {}
    /\ stage' = [c \in Calls |-> IF stage[c] = "preparing" THEN "done" ELSE stage[c]]
    /\ outcome' = [c \in Calls |-> IF stage[c] = "preparing" /\ outcome[c] = "waiting"
                                   THEN "failed" ELSE outcome[c]]
    /\ UNCHANGED <<choices, id, listening, sent, wire, history, setups, timers, gen>>

Reconnect ==
    /\ ~connected
    /\ connected' = TRUE
    /\ gen' = gen + 1
    /\ UNCHANGED <<choices, id, stage, outcome, listening, sent, wire, history, setups, open, timers>>

-----------------------------------------------------------------------------
\* The other side handles a request and replies n times to the id it carries.
Handle(r, n) ==
    /\ r \in requests
    /\ requests' = requests \ {r}
    /\ replies' = replies \cup {[to |-> r.to, at |-> r.at, from |-> r.from, nr |-> i] : i \in 1 .. n}
    /\ handled' = handled \cup {r.from}
    /\ answered' = IF n > 0 THEN answered \cup {r.from} ELSE answered
    /\ UNCHANGED <<choices, id, stage, outcome, listening, sent, missed, channel>>

Reachable(r) == transport = "local" \/ <<r.to, r.at>> \in open

\* Slip: the reply ends every call that listens, without the filter by correlation id.
Deliver_Unfiltered(r) ==
    /\ r \in replies
    /\ replies' = replies \ {r}
    /\ IF Reachable(r)
       THEN /\ outcome' = [c \in Calls |-> IF c \in listening /\ outcome[c] = "waiting"
                                           THEN "replied" ELSE outcome[c]]
            /\ listening' = {}
            /\ open' = open \ {<<r.to, r.at>>}
            /\ setups' = setups \ listening
       ELSE UNCHANGED <<listening, outcome, open, setups>>
    /\ UNCHANGED <<choices, id, stage, missed, sent, requests, handled, answered, timers, gen, connected>>

\* A reply arrives.  The call with its correlation id takes the first one it hears:
\* Redis unsubscribes the channel; AMQP removes setup and consumer, and waits for it.
Deliver(r) ==
    /\ r \in replies
    /\ replies' = replies \ {r}
    /\ IF r.to \in listening /\ Reachable(r)
       THEN /\ listening' = listening \ {r.to}
            /\ IF transport = "amqp"
               THEN Stage(r.to, "cleaning") /\ UNCHANGED outcome
               ELSE Settle(r.to, "replied") /\ UNCHANGED stage
            /\ open' = open \ {<<r.to, r.at>>}
            /\ setups' = setups \ {r.to}
            /\ UNCHANGED missed
       ELSE /\ missed' = IF outcome[r.to] = "waiting" /\ stage[r.to] # "cleaning"
                         THEN missed \cup {r.to} ELSE missed
            /\ UNCHANGED <<listening, stage, outcome, open, setups>>
    /\ UNCHANGED <<choices, id, sent, requests, handled, answered, timers, gen, connected>>

\* AMQP: the consumer is cancelled (or that failed), the reply goes to the call.
Cleaned(c) ==
    /\ stage[c] = "cleaning"
    /\ Stage(c, "done")
    /\ Settle(c, "replied")
    /\ UNCHANGED <<choices, id, listening, sent, wire, history, channel>>

\* Nothing is on its way, and nothing is about to be sent.
Quiet ==
    /\ requests = {} /\ replies = {}
    /\ \A c \in Calls : stage[c] \in {"idle", "done"}
    /\ connected /\ \A c \in setups : <<c, gen>> \in open \cup timers

\* The client's timeout; the promise of sendMessage goes on without it.
TimeOut(c) ==
    /\ outcome[c] = "waiting"
    /\ c \in hasty \/ Quiet
    /\ outcome' = [outcome EXCEPT ![c] = "timedOut"]
    /\ UNCHANGED <<choices, id, stage, listening, sent, wire, history, channel>>

Transmit(c) ==
    \/ Immediate(c) \/ Subscribed(c) \/ Published(c) \/ Refused(c)
    \/ OpenQueue(c) \/ Cleaned(c)
    \/ \E g \in 0 .. MaxDisconnects : RemoveSetup(c, g)

Next ==
    \/ \E c \in Calls : SendMessage(c) \/ Transmit(c) \/ TimeOut(c)
    \/ Disconnect \/ Reconnect
    \/ \E r \in requests, n \in 0 .. MaxReplies : Handle(r, n)
    \/ \E r \in replies : Deliver(r)

\* Commands and timers end, the connection manager reconnects, messages arrive.
Fairness ==
    /\ \A c \in Calls : WF_vars(Transmit(c)) /\ WF_vars(TimeOut(c))
    /\ WF_vars(Reconnect)
    /\ WF_vars(\E r \in requests, n \in 0 .. MaxReplies : Handle(r, n))
    /\ WF_vars(\E r \in replies : Deliver(r))

Spec == Init /\ [][Next]_vars
FairSpec == Spec /\ Fairness

-----------------------------------------------------------------------------
TypeOK ==
    /\ transport \in Transports
    /\ message \in [Calls -> Messages]
    /\ hasty \subseteq Calls
    /\ id \in [Messages -> Calls \cup {"none"}]
    /\ stage \in [Calls -> Stages]
    /\ outcome \in [Calls -> Outcomes]
    /\ listening \subseteq Calls
    /\ sent \in [Calls -> Nat]
    /\ requests \subseteq [from : Calls, to : Calls, at : 0 .. MaxDisconnects]
    /\ replies \subseteq [to : Calls, at : 0 .. MaxDisconnects, from : Calls, nr : 1 .. MaxReplies]
    /\ handled \subseteq Calls /\ answered \subseteq Calls /\ missed \subseteq Calls
    /\ setups \subseteq Calls
    /\ open \subseteq Addresses /\ timers \subseteq Addresses
    /\ gen \in 0 .. MaxDisconnects
    /\ connected \in BOOLEAN

\* However often the connection is lost and the setups run again, the request of
\* a call is sent once at most.
SentOnce == \A c \in Calls : sent[c] <= 1

\* A patient call whose request was replied to times out only because the reply
\* overtook the acknowledgement of its publish command (Redis), because a connection
\* was lost (AMQP), or because another call shares its message object (Redis, local).
TimesOutForReason ==
    \A c \in answered \ hasty :
        outcome[c] = "timedOut" =>
            \/ transport = "redis" /\ c \in missed
            \/ transport = "amqp" /\ gen > 0
            \/ transport # "amqp" /\ Shared(c)

\* A call that is over leaves nothing behind for good, no channel setup and no reply
\* address. Only a Redis call without a reply may keep its channel: it goes with the
\* first reply the call hears, also if nobody waits for that any more.
NothingLeftBehind ==
    \A c \in Calls :
        LET kept == \E g \in 0 .. MaxDisconnects : <<c, g>> \in open
        IN  /\ <>[](Over(c) => /\ c \notin setups
                               /\ kept => transport = "redis" /\ outcome[c] # "replied")
            /\ [](transport = "redis" /\ c \in listening => [](kept => c \in listening))

\* Every call that was begun ends once, and with a reply only if a request with its
\* message was handled.
Call == INSTANCE RemoteCall
ImplementsCall == Call!FairSpec
=============================================================================
