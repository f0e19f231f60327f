--------------------------- MODULE MessagingServer ---------------------------
(***************************************************************************)
(* createMicroservice over AMQP or Redis, with several connections of one  *)
(* server, and the local EventBus: how connections come up, are lost and    *)
(* closed, what the status log says of them, how messages get from the       *)
(* broker to the listeners, and where the answers of the effects go.         *)
(*                                                                        *)
(* Brokers: "amqp", "acked" (AMQP with expectAck), "redis" and "local".      *)
(* Messages are numbered as they are published; the reply address and the    *)
(* correlation id of a client's request are its number. What a listener       *)
(* does with one event is EventListener's.                                  *)
(***************************************************************************)
EXTENDS Integers, SequencesExt

CONSTANTS Connections,
          Loads     \* [broker, connections, and bounds: sends of clients, echoes (answers to
                    \* the own channel), losses of connections]

ASSUME ServerAssumption == \A bound \in Loads :
    /\ bound.broker \in {"amqp", "acked", "redis", "local"}
    /\ bound.connections \subseteq Connections
    /\ bound.broker = "local" => \A j, k \in bound.connections : j = k   \* the bus's listener
    /\ {bound.sends, bound.echoes, bound.losses} \subseteq Nat

VARIABLES
    load,
    phase,      \* "none", "linked", "up", "lost", "recovering", "closing" or "closed"
    losses,
    log,        \* the status logger: [on, status: the last one it saw, line: the last one it wrote]
    sent,       \* messages published: [of: the message it answers or 0, metadata, meant: for whom]
    backlog,    \* the queue of an AMQP broker
    wire,       \* what is on its way to a connection
    arrived,    \* the message on the wire was handled and is not settled yet
    handled,    \* what the listener of a connection was handed, in order
    style,      \* how the effect of the listener answers
    said,       \* answers given: <<connection, event>>
    unsent,     \* answers that wait for the connection
    replied,    \* answers that came to a reply address
    cut,        \* <<k, n>>: the end of k cost n, or its answer
    again       \* messages that were handed out again after a loss

watched == <<phase, losses, log>>
traffic == <<sent, backlog, wire, arrived, handled, cut, again>>
answers == <<style, said, unsent, replied>>
serverVars == <<load, watched, traffic, answers>>

Styles == {"spread", "bare", "reply", "redirect"}

\* Addresses and ids besides the numbers of requests.
None == 0
Fresh == -1         \* a uuid of the server
Own == -2           \* the server's channel
Unknown == -3       \* UNKNOWN_TAG

NoMetadata == [replyTo |-> None, id |-> None]
broker == load.broker
Amqp == broker \in {"amqp", "acked"}
Redis == broker = "redis"
Local == broker = "local"

ServerInit ==
    /\ load \in Loads /\ style \in Styles
    /\ phase = [k \in Connections |-> "none"]
    /\ losses = 0
    /\ log = [on |-> ~Local, status |-> "none", line |-> "none"]
    /\ sent = <<>> /\ backlog = <<>>
    /\ wire = [k \in Connections |-> <<>>]
    /\ arrived = [k \in Connections |-> FALSE]
    /\ handled = [k \in Connections |-> <<>>]
    /\ unsent = [k \in Connections |-> <<>>]
    /\ said = {} /\ replied = {} /\ cut = {} /\ again = {}

------------------------------------------------------------------------------
(* Connections. *)

\* Mutant: what is not about connecting is filtered before repetitions are.
Logged_FilterFirst(logger, status) ==
    [logger EXCEPT !.line = IF status \in {"connect", "lost"} /\ @ = "none" THEN status ELSE @]

\* connect$ and disconnect$: a status is logged unless it repeats the one before it.
Logged(logger, status) ==
    [logger EXCEPT !.status = status,
        !.line = IF status \in {"connect", "lost"} /\ status # logger.status THEN status ELSE @]

\* serverEventsSubject.next, until the first close of any connection.
Tell(status) == log' = IF log.on THEN Logged(log, status) ELSE log

\* Redis says of a loss that the connection ended as well.
TellLost ==
    IF Redis THEN log' = IF log.on THEN Logged(Logged(log, "end"), "lost") ELSE log
    ELSE Tell("lost")

Become(k, next) == phase' = [phase EXCEPT ![k] = next]

\* listen: an AMQP connection begins to consume; the subscription of a Redis one is
\* there before anybody listens to it.
Connect(k) ==
    /\ phase[k] = "none" /\ k \in load.connections /\ ~Local
    /\ Become(k, "linked")
    /\ UNCHANGED <<load, losses, log, traffic, answers>>

\* EventBus: connected to its listener where it is made.
EventBus(k) ==
    /\ phase[k] = "none" /\ k \in load.connections /\ Local
    /\ Become(k, "up")
    /\ UNCHANGED <<load, losses, log, traffic, answers>>

\* nextTick of the constructors, behind the consume of AMQP; the listener has been
\* attached, and the subscriptions of listen.
Announced(k) ==
    /\ phase[k] = "linked"
    /\ Become(k, "up")
    /\ Tell("connect")
    /\ UNCHANGED <<load, losses, traffic, answers>>

\* What was on the wire: an AMQP broker that waits for its settlement hands it out
\* again, others have given it away.
Unwired(k) ==
    LET way == {wire[k][i] : i \in DOMAIN wire[k]}
    IN  /\ wire' = [wire EXCEPT ![k] = <<>>]
        /\ arrived' = [arrived EXCEPT ![k] = FALSE]
        /\ backlog' = IF broker = "acked" THEN wire[k] \o backlog ELSE backlog
        /\ again' = IF arrived[k] THEN again \union way ELSE again

\* A connection is lost; one that was about to consume keeps its setup but is never
\* announced.
ConnectionLost(k) ==
    /\ phase[k] \in {"up", "recovering"} \/ (Amqp /\ phase[k] = "linked")
    /\ ~Local /\ losses < load.losses
    /\ losses' = losses + 1
    /\ Become(k, "lost")
    /\ TellLost
    /\ Unwired(k)
    /\ cut' = IF broker = "acked" THEN cut ELSE cut \union {<<k, wire[k][i]>> : i \in DOMAIN wire[k]}
    /\ UNCHANGED <<load, sent, handled, answers>>

Reconnected(k) ==
    /\ phase[k] = "lost"
    /\ Become(k, "recovering")
    /\ Tell("connect")
    /\ UNCHANGED <<load, losses, traffic, answers>>

\* The setups have run again, the client has subscribed again.
Recovered(k) ==
    /\ phase[k] = "recovering"
    /\ Become(k, "up")
    /\ Tell("ready")
    /\ UNCHANGED <<load, losses, traffic, answers>>

\* close$: the streams of the listener end, and the status log of the whole server.
Ended(k) ==
    /\ Become(k, "closed")
    /\ log' = [log EXCEPT !.on = FALSE]
    /\ Unwired(k)
    /\ cut' = cut \union {<<k, unsent[k][i].of>> : i \in DOMAIN unsent[k]}
                 \union IF broker = "acked" THEN {} ELSE {<<k, wire[k][i]>> : i \in DOMAIN wire[k]}
    /\ unsent' = [unsent EXCEPT ![k] = <<>>]
    /\ UNCHANGED <<load, losses, sent, handled, style, said, replied>>

\* The bus ends at once, whichever client closes it, or its HTTP server for it.
BusClosed(k) == Local /\ phase[k] = "up" /\ Ended(k)

\* close, of a connection that listen has returned.
CloseConnection(k) ==
    /\ ~Local
    /\ phase[k] \in {"up", "lost", "recovering"} \/ (Amqp /\ phase[k] = "linked")
    /\ Become(k, "closing")
    /\ UNCHANGED <<load, losses, log, traffic, answers>>

ConnectionClosed(k) == phase[k] = "closing" /\ Ended(k)

------------------------------------------------------------------------------
(* Messages. *)

\* message$ of k hands n to the listener.
Taken(k, n) == handled' = [handled EXCEPT ![k] = Append(@, n)]

\* encodeMessage and decodeMessage: only the id travels over Redis, and is both.
Decoded(metadata) ==
    IF Redis THEN [metadata EXCEPT !.replyTo = metadata.id] ELSE metadata

\* A message for the server's channel. The bus hands it over at once, if it is not
\* deferred (setImmediate).
Publication(of, metadata, deferred) ==
    LET n == Len(sent) + 1
        reached == CASE Redis -> {k \in Connections : phase[k] \in {"linked", "up"}}
                     [] Local -> {k \in Connections : phase[k] = "up"}
                     [] OTHER -> {}
        now == Local /\ ~deferred /\ reached # {}
    IN  /\ sent' = Append(sent, [of |-> of, metadata |-> Decoded(metadata),
                                 meant |-> {k \in reached : phase[k] = "up"}])
        /\ backlog' = IF Amqp THEN Append(backlog, n) ELSE backlog
        /\ wire' = [k \in Connections |-> IF k \in reached /\ ~now THEN Append(wire[k], n) ELSE wire[k]]
        /\ IF now THEN \E k \in reached : Taken(k, n) ELSE UNCHANGED handled
        /\ UNCHANGED <<arrived, cut, again>>

\* emit and send of a MessagingClient.
ClientSends(request) ==
    LET n == Len(sent) + 1
    IN  /\ Cardinality({i \in DOMAIN sent : sent[i].of = 0}) < load.sends
        /\ Publication(0, IF request THEN [replyTo |-> n, id |-> n] ELSE NoMetadata, request)
        /\ UNCHANGED <<load, watched, answers>>

\* The AMQP broker hands its next message to one consumer, to one that has to settle
\* them only if it has none (prefetch).
Pushed(k) ==
    /\ Amqp /\ phase[k] = "up" /\ backlog # <<>>
    /\ broker = "acked" => wire[k] = <<>>
    /\ wire' = [wire EXCEPT ![k] = Append(@, Head(backlog))]
    /\ backlog' = Tail(backlog)
    /\ UNCHANGED <<load, watched, sent, arrived, handled, cut, again, answers>>

\* Nobody listens to a Redis connection that is not up or is being closed.
Handled(k) ==
    /\ wire[k] # <<>> /\ ~arrived[k]
    /\ LET n == Head(wire[k])
       IN  /\ IF Redis /\ phase[k] # "up"
              THEN cut' = cut \union {<<k, n>>} /\ UNCHANGED handled
              ELSE Taken(k, n) /\ UNCHANGED cut
    /\ IF broker = "acked"
       THEN arrived' = [arrived EXCEPT ![k] = TRUE] /\ UNCHANGED wire
       ELSE wire' = [wire EXCEPT ![k] = Tail(@)] /\ UNCHANGED arrived
    /\ UNCHANGED <<load, watched, sent, backlog, again, answers>>

\* Mutant: an event is settled when it is answered.
Settled_Answered(k) ==
    /\ arrived[k] /\ <<k, Head(wire[k])>> \in said
    /\ wire' = [wire EXCEPT ![k] = <<>>]
    /\ arrived' = [arrived EXCEPT ![k] = FALSE]
    /\ UNCHANGED <<load, watched, sent, backlog, handled, cut, again, answers>>

\* The broker learns that the event was rejected on arrival (see AckMode).
Settled(k) ==
    /\ arrived[k]
    /\ wire' = [wire EXCEPT ![k] = <<>>]
    /\ arrived' = [arrived EXCEPT ![k] = FALSE]
    /\ UNCHANGED <<load, watched, sent, backlog, handled, cut, again, answers>>

------------------------------------------------------------------------------
(* Answers. *)

\* idApplier$.
IdApplied(metadata) == [metadata EXCEPT !.id = IF @ = None THEN Fresh ELSE @]

\* composeMetadata: the event's own metadata come first.
ComposeMetadata(origin, custom) ==
    LET first(a, b) == IF a # None THEN a ELSE b
    IN  [replyTo |-> first(first(origin.replyTo, custom.replyTo), Unknown),
         id |-> first(origin.id, custom.id)]

\* The metadata of an answer: those of the event ({...event}), none, of reply(event)
\* for a new event, or of reply(own channel) for a changed one.
Answered(metadata) ==
    CASE style = "spread" -> metadata
      [] style = "bare" -> NoMetadata
      [] style = "reply" -> ComposeMetadata(NoMetadata, metadata)
      [] style = "redirect" -> ComposeMetadata(metadata, [replyTo |-> Own, id |-> None])

\* outputRouter$.
OutputRouted(metadata) ==
    [replyTo |-> IF metadata.replyTo = None THEN Own ELSE metadata.replyTo,
     id |-> IF metadata.id = None THEN Fresh ELSE metadata.id]

\* emitMessage: to the server's own channel, to a reply address, or to nobody.
Carried(k, answer) ==
    IF answer.metadata.replyTo = Own
    THEN Publication(answer.of, answer.metadata, FALSE) /\ UNCHANGED replied
    ELSE /\ replied' = IF answer.metadata.replyTo < 0 THEN replied
                       ELSE replied \union {[by |-> k, of |-> answer.of, metadata |-> answer.metadata]}
         /\ UNCHANGED <<sent, backlog, wire, arrived, handled, cut, again>>

\* What outputRouter$ makes of the answer to the n-th message.
Destination(n) == OutputRouted(Answered(IdApplied(sent[n].metadata)))

\* An effect answers an event it was handed: the listener sends that, and in ack mode
\* does not if it is for the own channel. Publishing waits until AMQP is connected.
EffectAnswers(k, n) ==
    LET answer == [of |-> n, metadata |-> Destination(n)]
        own == answer.metadata.replyTo = Own
    IN  /\ phase[k] # "closed" /\ Contains(handled[k], n)
        /\ <<k, n>> \notin said
        /\ own /\ broker # "acked" => Cardinality({x \in said : Destination(x[2]).replyTo = Own}) < load.echoes
        /\ said' = said \union {<<k, n>>}
        /\ IF Local THEN Carried(k, answer) /\ UNCHANGED unsent
           ELSE /\ unsent' = IF broker = "acked" /\ own THEN unsent
                             ELSE [unsent EXCEPT ![k] = Append(@, answer)]
                /\ UNCHANGED <<traffic, replied>>
        /\ UNCHANGED <<load, watched, style>>

Published(k) ==
    /\ unsent[k] # <<>> /\ phase[k] \in (IF Amqp THEN {"linked", "up"} ELSE {"up", "lost", "recovering", "closing"})
    /\ Carried(k, Head(unsent[k]))
    /\ unsent' = [unsent EXCEPT ![k] = Tail(@)]
    /\ UNCHANGED <<load, watched, style, said>>

------------------------------------------------------------------------------

\* What the event loop and the broker bring to an end.
ServerProgress(k) ==
    \/ Announced(k) \/ Reconnected(k) \/ Recovered(k) \/ ConnectionClosed(k)
    \/ Pushed(k) \/ Handled(k) \/ Settled(k) \/ Published(k)

ServerNext ==
    \/ \E k \in Connections :
          \/ ServerProgress(k)
          \/ Connect(k) \/ EventBus(k)
          \/ ConnectionLost(k) \/ CloseConnection(k) \/ BusClosed(k)
          \/ \E n \in 1..Len(sent) : EffectAnswers(k, n)
    \/ \E request \in BOOLEAN : ClientSends(request)

ServerSpec == ServerInit /\ [][ServerNext]_serverVars

ServerFairness == \A k \in Connections :
    /\ WF_serverVars(Announced(k)) /\ WF_serverVars(Reconnected(k)) /\ WF_serverVars(Recovered(k))
    /\ WF_serverVars(ConnectionClosed(k)) /\ WF_serverVars(Pushed(k)) /\ WF_serverVars(Handled(k))
    /\ WF_serverVars(Settled(k)) /\ WF_serverVars(Published(k))

------------------------------------------------------------------------------
(* Properties. *)

\* Until a connection is being closed, which silences the log for all of them, the last
\* line is right whenever the connections that were announced or lost agree: a
\* server that is connected is not told lost, nor the other way round. (statusLogger$)
LogAgrees ==
    LET known == {k \in Connections : phase[k] \in {"up", "lost", "recovering"}}
    IN  ~Local =>
        /\ log.on <=> \A k \in Connections : phase[k] # "closed"
        /\ log.on /\ known # {} /\ (\A k \in Connections : phase[k] # "closing") =>
              /\ (\A k \in known : phase[k] # "lost") => log.line = "connect"
              /\ (\A k \in known : phase[k] = "lost") => log.line = "lost"

Times(k, n) == Cardinality({i \in DOMAIN handled[k] : handled[k][i] = n})

\* The connections of a server share the messages of an AMQP queue, and each of them
\* is handed every message of Redis, once and in order; in ack mode a message may come again
\* when the loss of a connection overtook its settlement. (message$, consumeMessages)
HandledOnce ==
    /\ \A n \in DOMAIN sent, k \in Connections :
          /\ n \notin again => Times(k, n) <= 1
          /\ Amqp /\ n \notin again /\ Times(k, n) > 0 => \A j \in Connections \ {k} : Times(j, n) = 0
    /\ broker \in {"amqp", "redis"} => \A k \in Connections : \A i, j \in DOMAIN handled[k] :
          i < j => handled[k][i] < handled[k][j]

\* Whoever is to get a message gets it, unless its connection ends with the message
\* on the way; in ack mode even then.
NoneDropped ==
    \A n \in DOMAIN sent :
        LET got(k) == Contains(wire[k], n) \/ Times(k, n) > 0
        IN  /\ ~Amqp => \A k \in sent[n].meant : got(k) \/ <<k, n>> \in cut
            /\ Amqp => \/ Contains(backlog, n)
                       \/ \E k \in Connections : got(k) \/ (broker = "amqp" /\ <<k, n>> \in cut)

\* Answers that carry the metadata of a request, in whatever style, come to that
\* request and no others do; a server in ack mode never hears itself.
\* (reply, outputRouter$, emitMessage)
AnswersReachTheirRequest ==
    /\ \A r \in replied : r.metadata = [replyTo |-> r.of, id |-> r.of]
    /\ \A x \in said : sent[x[2]].metadata = [replyTo |-> x[2], id |-> x[2]] =>
          \/ style = "bare"
          \/ \E r \in replied : r.by = x[1] /\ r.of = x[2]
          \/ \E i \in DOMAIN unsent[x[1]] : unsent[x[1]][i].of = x[2]
          \/ phase[x[1]] = "closed" /\ <<x[1], x[2]>> \in cut
    /\ broker = "acked" => \A n \in DOMAIN sent : sent[n].of = 0

ServerSound == LogAgrees /\ HandledOnce /\ NoneDropped /\ AnswersReachTheirRequest

\* What is in the queue of a broker or on its way is handled, and what waits to be sent is sent,
\* however connections fail, until all of them are closed.
QueuesDrain ==
    LET over == \A k \in Connections : phase[k] \in {"none", "closed"}
        drained == backlog = <<>> /\ \A k \in Connections : wire[k] = <<>> /\ unsent[k] = <<>>
    IN  <>[](drained \/ over)
==============================================================================
