---------------------------- MODULE EventListener ----------------------------
(***************************************************************************)
(* messagingListener and webSocketListener: the incoming, outgoing and     *)
(* error stream of one connection, effects that share the outgoing one,    *)
(* and output that goes back to the listener's own channel.                *)
(*                                                                         *)
(* An event is handed to the effects one after the other, on the stack of  *)
(* its delivery.  An effect ignores it, answers at once, works on it       *)
(* asynchronously, or fails.  Transports: "local" (what the listener emits *)
(* to its own channel is delivered inside the delivery that caused it),    *)
(* "broker" (Redis, AMQP: it queues), "acked" (AMQP with expectAck: it is  *)
(* dropped) and "websocket" (output goes to the client).  Events are       *)
(* numbered in the order they come up.                                     *)
(***************************************************************************)
EXTENDS Naturals, Sequences, Functions

CONSTANTS
    NEffects,       \* effects 1 .. NEffects, in the order they are combined
    Guarded,        \* effects that handle events with act(), whose errorFn does not fail
    Transports,
    MaxEvents,
    MaxFailures

ASSUME ListenerAssumption ==
    /\ NEffects \in Nat
    /\ Guarded \subseteq 1 .. NEffects
    /\ Transports \subseteq {"local", "broker", "acked", "websocket"}
    /\ MaxEvents \in Nat
    /\ MaxFailures \in Nat

Effects == 1 .. NEffects
Events == 1 .. MaxEvents
Incoming == 0       \* where decoding and the middlewares run

VARIABLES
    transport,
    born,       \* number of events so far
    parent,     \* event -> the event whose handling emitted it (0: it came from outside)
    queue,      \* messages that wait for the connection
    stack,      \* deliveries in progress, innermost first: event and next effect
    seen,       \* effect -> events it was handed, in order
    working,    \* <<effect, event>>: asynchronous work
    lost,       \* work that was unsubscribed by an error
    streams,    \* subscribed ones of "incoming", "outgoing" and "error"
    failures    \* every error: where, the events it cost a delivery, its report

vars == <<transport, born, parent, queue, stack, seen, working, lost, streams, failures>>
events == <<born, parent, queue>>
trouble == <<lost, streams, failures>>

Streams == {"incoming", "outgoing", "error"}

Init ==
    /\ transport \in Transports
    /\ born = 0
    /\ parent = [e \in Events |-> 0]
    /\ queue = <<>>
    /\ stack = <<>>
    /\ seen = [i \in Effects |-> <<>>]
    /\ working = {}
    /\ lost = {}
    /\ streams = Streams
    /\ failures = <<>>

Idle == stack = <<>>
Closed == "incoming" \notin streams

\* A delivery begins with the first effect.
Delivery(e) == [ev |-> e, at |-> 1]
OnStack == {stack[n].ev : n \in DOMAIN stack}

\* Another event comes up, emitted while e was handled.
Spawn(e) ==
    /\ born < MaxEvents
    /\ born' = born + 1
    /\ parent' = [parent EXCEPT ![born'] = e]

\* Slip: the subscriber of the error stream is not told.
Report_Swallowed(where, cut, report) ==
    /\ Len(failures) < MaxFailures
    /\ report = "silent"
    /\ failures' = Append(failures, [where |-> where, cut |-> cut, report |-> report])
    /\ UNCHANGED streams

\* errorSubject.next: the error effect reports the error, fails itself, or is not
\* subscribed any more; only the WebSocket listener subscribes it again.
Report(where, cut, report) ==
    /\ Len(failures) < MaxFailures
    /\ report = "silent" <=> "error" \notin streams
    /\ failures' = Append(failures, [where |-> where, cut |-> cut, report |-> report])
    /\ streams' = IF report = "broken" /\ transport # "websocket"
                  THEN streams \ {"error"} ELSE streams

Reports == {"sent", "broken", "silent"}

\* A message reaches the connection from outside.
Arrive ==
    /\ ~Closed /\ Idle
    /\ Spawn(0)
    /\ queue' = Append(queue, born')
    /\ UNCHANGED <<transport, stack, seen, working, trouble>>

\* The incoming stream: decode, middlewares, eventSubject.next.
Receive ==
    /\ ~Closed /\ Idle /\ queue # <<>>
    /\ queue' = Tail(queue)
    /\ stack' = <<Delivery(Head(queue))>>
    /\ UNCHANGED <<transport, born, parent, seen, working, trouble>>

\* A message that does not decode is reported.  The WebSocket listener drops it with
\* the error; the messaging one hands it on as an unknown event.  The local bus only
\* carries what its own client has encoded.
ReceiveMalformed ==
    /\ ~Closed /\ Idle /\ queue # <<>>
    /\ transport # "local"
    /\ queue' = Tail(queue)
    /\ IF transport = "websocket"
       THEN /\ \E report \in Reports : Report(Incoming, {Head(queue)}, report)
            /\ UNCHANGED stack
       ELSE /\ \E report \in Reports : Report(Incoming, {}, report)
            /\ stack' = <<Delivery(Head(queue))>>
    /\ UNCHANGED <<transport, born, parent, seen, working, lost>>

\* A middleware fails: reported, and the incoming stream is subscribed again.  What
\* the local bus is told meanwhile meets the stopped stream.
ReceiveRejected ==
    /\ ~Closed /\ Idle /\ queue # <<>>
    /\ queue' = Tail(queue)
    /\ \E report \in Reports : Report(Incoming, {Head(queue)}, report)
    /\ UNCHANGED <<transport, born, parent, stack, seen, working, lost>>

-----------------------------------------------------------------------------
\* Slip: brokers, too, deliver a message before the listener reads on.
Output_Reenters(e, below) ==
    \/ stack' = below /\ UNCHANGED events
    \/ /\ transport \in {"local", "broker"}
       /\ Spawn(e)
       /\ stack' = <<Delivery(born')>> \o below
       /\ UNCHANGED queue

\* An event goes out: as a reply, or, without replyTo, to the listener's own channel.
Output(e, below) ==
    \/ stack' = below /\ UNCHANGED events
    \/ /\ transport = "local"
       /\ Spawn(e)
       /\ stack' = <<Delivery(born')>> \o below
       /\ UNCHANGED queue
    \/ /\ transport = "broker"
       /\ Spawn(e)
       /\ stack' = below
       /\ queue' = Append(queue, born')

After(i, e) == [seen EXCEPT ![i] = Append(@, e)]

\* Slip: the outgoing stream is not subscribed again.
Fail_NotResubscribed(i, e, sofar) ==
    /\ Len(failures) < MaxFailures
    /\ failures' = Append(failures, [where |-> i, cut |-> OnStack, report |-> "broken"])
    /\ streams' = streams \ {"outgoing", "error"}
    /\ seen' = sofar
    /\ stack' = <<>>
    /\ lost' = lost \cup working
    /\ working' = {}
    /\ UNCHANGED events

\* An error of an effect ends the stream all effects share.  It is reported, and the
\* stream subscribed again without the work in progress; effects that have not been
\* handed the events on the stack never are.  The report has no address: on the local
\* bus it comes back as an event before the stream is up again, to no effect.
Fail(i, e, sofar) ==
    /\ \E report \in Reports :
          /\ Report(i, OnStack, report)
          /\ \/ /\ transport = "local" /\ report = "sent"
                /\ Spawn(e)
                /\ seen' = [j \in Effects |-> Append(sofar[j], born')]
                /\ UNCHANGED queue
             \/ /\ ~(transport = "local" /\ report = "sent")
                /\ seen' = sofar
                /\ UNCHANGED events
    /\ stack' = <<>>
    /\ lost' = lost \cup working
    /\ working' = {}

\* The innermost delivery reaches its next effect.
Handed(i, e) ==
    /\ ~Idle /\ "outgoing" \in streams
    /\ Head(stack).ev = e /\ Head(stack).at = i
    /\ UNCHANGED transport

Rest == <<[Head(stack) EXCEPT !.at = @ + 1]>> \o Tail(stack)

Ignore(i, e) ==
    /\ Handed(i, e)
    /\ seen' = After(i, e)
    /\ stack' = Rest
    /\ UNCHANGED <<events, working, trouble>>

Answer(i, e) ==
    /\ Handed(i, e)
    /\ seen' = After(i, e)
    /\ Output(e, Rest)
    /\ UNCHANGED <<working, trouble>>

Work(i, e) ==
    /\ Handed(i, e)
    /\ seen' = After(i, e)
    /\ working' = working \cup {<<i, e>>}
    /\ stack' = Rest
    /\ UNCHANGED <<events, trouble>>

\* An effect without act() throws; with act() the error is an Answer.
FailAtOnce(i, e) ==
    /\ Handed(i, e)
    /\ i \notin Guarded
    /\ Fail(i, e, After(i, e))

\* All effects have been handed the event, or nobody listens.
Return ==
    /\ ~Idle
    /\ Head(stack).at > NEffects \/ "outgoing" \notin streams
    /\ stack' = Tail(stack)
    /\ UNCHANGED <<transport, events, seen, working, trouble>>

\* Asynchronous work ends, in a turn of its own: with an answer (of act(), when it
\* failed) or a failure.
AnswerLater(i, e) ==
    /\ Idle /\ <<i, e>> \in working
    /\ Output(e, <<>>)
    /\ working' = working \ {<<i, e>>}
    /\ UNCHANGED <<transport, seen, trouble>>

FailLater(i, e) ==
    /\ Idle /\ <<i, e>> \in working
    /\ i \notin Guarded
    /\ Fail(i, e, seen)
    /\ UNCHANGED transport

\* The connection closes: takeUntil(close$) ends every stream.
Close ==
    /\ ~Closed /\ Idle
    /\ streams' = {}
    /\ working' = {}
    /\ UNCHANGED <<transport, events, stack, seen, lost, failures>>

Deliver ==
    \/ \E i \in Effects, e \in Events :
          Ignore(i, e) \/ Answer(i, e) \/ Work(i, e) \/ FailAtOnce(i, e)
    \/ Return

Next ==
    \/ Arrive
    \/ Receive
    \/ ReceiveMalformed
    \/ ReceiveRejected
    \/ Deliver
    \/ \E i \in Effects, e \in Events : AnswerLater(i, e) \/ FailLater(i, e)
    \/ Close

\* Deliveries are synchronous, and what has come to the connection is read.
Fairness == WF_vars(Receive) /\ WF_vars(Deliver)

Spec == Init /\ [][Next]_vars
FairSpec == Spec /\ Fairness

-----------------------------------------------------------------------------
\* The events whose handling led to an event: its parent, the parent's, and so on (what
\* is in every set that holds its parent and the parents of its members).
Ancestors(e) ==
    {a \in 0 .. MaxEvents :
        \A family \in SUBSET (0 .. MaxEvents) :
            /\ parent[e] \in family
            /\ \A x \in family \ {0} : parent[x] \in family
            => a \in family}

\* Every effect is handed each event at most once and in the order they came up,
\* except that on the local bus what the listener emits itself overtakes the events
\* it was emitted for and the messages of clients that wait for their turn.
SeenInOrder ==
    \A i \in Effects : \A m, n \in DOMAIN seen[i] : m < n =>
        LET first == seen[i][m]
            then == seen[i][n]
        IN  \/ first < then
            \/ /\ transport = "local"
               /\ parent[first] # 0
               /\ then \in Ancestors(first) \/ parent[then] = 0

\* Each error is reported, unless the error effect fails on it or, for a messaging
\* listener, failed on an earlier one: a stream that failed is not subscribed again, so
\* that one bad report hides all later ones.
FailuresAreReported ==
    \A n \in DOMAIN failures : failures[n].report = "silent" =>
        /\ transport # "websocket"
        /\ \E m \in 1 .. n - 1 : failures[m].report = "broken"

\* Work in progress is lost, and a delivery cut short, only by an effect that does
\* not use act(), or by the incoming stream for the message it is about.
HarmOnlyByUnguarded ==
    /\ lost # {} => \E n \in DOMAIN failures : failures[n].where \in Effects \ Guarded
    /\ \A n \in DOMAIN failures :
          /\ failures[n].where \in Guarded => failures[n].cut = {}
          /\ failures[n].where = Incoming => \A i \in Effects :
                failures[n].cut \cap Range(seen[i]) = {}

\* An error is told and confined: no error goes unreported but behind a broken report,
\* and none costs more than the work and the delivery of effects that do not guard.
FailuresConfined == FailuresAreReported /\ HarmOnlyByUnguarded

\* An event that came up is handed to every effect, whatever failed before it, unless
\* the connection closes or an error cuts that very delivery.
EveryEventIsSeen ==
    \A e \in Events : e <= born ~>
        \/ \A i \in Effects : e \in Range(seen[i])
        \/ \E n \in DOMAIN failures : e \in failures[n].cut
        \/ Closed
=============================================================================
