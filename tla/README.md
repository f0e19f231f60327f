# A TLA+ model of Marble.js

Marble.js is a reactive server framework in TypeScript: HTTP, messaging (AMQP,
Redis, an in-process bus) and WebSocket servers built from *effects*, functions
on rxjs streams, on top of a dependency container. Node runs it on one thread.
What makes it hard is what runs *between* callbacks: promise continuations,
timers, sockets, and streams that die and are subscribed again.

This directory holds TLA+ modules for the parts of it where that matters, the
TLC runs that check them, and proofs that TLAPS checks. `PROJECT.json` lists
components, runs, mutants, findings, hazards and theorems, and maps each
definition to the source lines it stands for. Paths below are relative to
`src/packages/`.

## 1. Inventory

| Component | State it keeps | Operations | What is hard | Model |
|---|---|---|---|---|
| core: context (`core/src/context`) | a map token -> factory, promise or value | `register`, `resolve`, `lookup`, derived contexts | lookups between the awaits of `resolve`; promises and `undefined` in the map; a context that falls back on one still resolving | `Context`, `DerivedContext` |
| core: effects, operators, events, logger | none of their own | combine, `act`, `matchEvent`, formatting | errors that end a shared stream | `act` and `combineEffects` in `EventListener` |
| http: resolver and responses (`http/src/router`, `/response`) | per route a subject, an error and an output subject, per response what node has written | `resolve`, the effect streams, `handleResponse`, `close$` | `writableEnded` is read before a deferred `writeHead`; resubscription loses work in flight; one rejected response ends the stream of all | `HttpResolver`, `RequestReply` |
| http: routing (`http/src/router`) | the routing table | builder, flattening, matching, parameters | who merges with whom depends on the order and the lists of groups; wildcards shift parameters | `Routing` |
| http: server, events (`http/src/server`) | the socket, the listeners on node's server and on the event stream | listen, close, server effects | listening again leaves or loses listeners | `HttpServer` |
| http: metadata storage | a map of metadata | `collect`, `get` | entries nobody removes, shared ids | `HttpServer`, `TestBed` |
| http: bodies, headers, content types | none | response factories | the length is that of another body than the one written | `Payload` |
| messaging: acknowledgement mode (`messaging/src/ack`, `/eventStore`, `/middlewares`) | the timer store, flags on raw messages | `ackEvent`, `nackEvent`, `nackAndResendEvent`, the rejection middleware | timers, continuations and deliveries interleave; ids are shared | `AckMode` |
| messaging: transports and client (`messaging/src/transport`, `/client`) | pending calls, reply queues, subscriptions | `sendMessage`, `emitMessage`, `close` | late and lost replies, timeouts, reconnects | `MessagingRpc`, `RemoteCall` (calls), `MessagingServer` (the rest) |
| messaging: server, replies, event bus (`messaging/src/server`, `/reply`, `/eventbus`) | connections, the stream of server events | listen, reconnect, close, `reply`, the output router | one log for all connections; redeliveries; whose metadata an answer carries | `MessagingServer` |
| messaging and websockets: listeners | three subscriptions per connection | decode, effects, output, error stream | which errors end what; events that loop back | `EventListener` |
| websockets: heartbeat (`websockets/src/server`) | a flag and a timeout per client | interval, ping, pong, terminate | phase of the interval against connect and answer times | `Heartbeat` |
| websockets: server, responses, operators | clients, connection handlers, sends in flight | upgrade, `sendResponse`, broadcast, status log | clients that go away during a broadcast; handlers that add up | `WebSocketServer` |
| middleware-body, -cors, -io, -logger, -multipart | the position of a RegExp; an upload in progress | parse, check, validate, describe, log | streams read twice; files side by side; errors without their request; schemas that say something else | `Payload`, `Cors`, `JsonSchema`, `Multipart`, joined in `HttpServer` |
| testing: test bed | the list of test beds | register, request, cleanup | cleanups that fail or overlap | `TestBed`, `Exchange` |
| `@integration` | | examples | | not modelled |

How they interact: a server (HTTP, messaging, WebSocket) is a *listener* created
from the container; it feeds what comes from node, the broker or the socket to
the effects, and their output back. Listeners, transports and loggers are looked
up in the container, the event bus is an eager dependency of it. The messaging
client calls a transport; the ack operations of effects go to the transport's
connection. Streams are shared: an error that is not caught next to the event
that caused it ends a stream other events use.

What makes each part correct:

- context: a dependency is made once; `resolve` leaves eager dependencies
  evaluated, and settles;
- resolver: each request gets one response; a failing effect costs no other
  request its response; the server's pipelines outlive any response;
- routing: a request gets to the route its declaration says, with the
  middlewares around it and its own parameters;
- server and test bed: they end as their owner asked, and nobody gets the
  metadata of another request;
- middlewares: what is written is what is read, a browser is let through as
  configured, a schema means what its validator does, an upload is whole or
  refused;
- acknowledgement: what each delivery is settled with, and no timer of a handled event
  that still runs, no entry that stays;
- messaging server: each message is handled once, none is dropped while its
  connection lives, an answer comes to its request, queues drain;
- heartbeat: dead peers are found within a bound, living ones are kept;
- WebSocket server: a broadcast reaches all and only those who were there;
- transports: a call ends with its own reply or a timeout, and leaves nothing
  behind;
- listeners: after an error the next event is handled as the first one was.

## 2. Plan

In order of weight; done are 1 to 10, with the proofs of 1 to 6, of 9 and 10 and,
of 8, of servers and test beds.

1. `AckMode` with `AckModeProofs`.
2. `RequestReply` (abstract), `HttpResolver` refining it, `HttpResolverProofs`.
3. `Heartbeat`, proved about in `WebSocketProofs`.
4. `Context` with `ContextProofs`, which also proves about `DerivedContext`.
5. `RemoteCall` (abstract), `MessagingRpc` refining it over three transports,
   `MessagingRpcProofs`.
6. `EventListener`, for messaging and WebSocket connections, with `EventListenerProofs`.
7. `Routing`: a tree of routes declared while it is flattened, against a reading
   of its declarations.
8. `Cors`, `Payload`, `JsonSchema`, `Multipart` (what a middleware does with one
   request), `HttpServer` (servers and the way of a request through them),
   `TestBed` with `TestBedProofs`, and `Exchange`, which composes them.
9. `MessagingServer` and `WebSocketServer`, each checked beside the module
   of the component next to it, with `MessagingServerProofs` and `WebSocketProofs`.
10. `DerivedContext`: a context made of another one, by a user or by an `EventBus`.

Every safety property of a run has its theorem now, but for those of `Routing` and `Exchange`.
The first take an induction over data, and `JsonSchema` has recursive operators, so nothing
that extends it can be proved about, `Exchange` included.

## 3. What is modelled

Every module has a block comment that says what its atomic steps are. Operators
whose name ends in a slip (`Expire_KeepsEntry`) are mutated forms of the
definition after them. They are not part of the specification; they serve to
show that each property can fail.

### AckMode

`rejectUnhandled$` (`messaging.ack.middleware.ts`), `EventTimerStore`
(`eventTimerStore.ts`), the tasks of `ack.ts`, and `ackMessage` / `nackMessage` of
`amqp.strategy.ts`.

- State: per delivery its correlation id, its timer, the two flags the strategy
  puts on the raw message and what the broker has been told of it, in order; the store
  (correlation id -> timer); the stage of each operation; the macrotask of the event loop.
- Steps: `Deliver` is the consumer's callback through the middleware; `Handle` an
  effect's call of an operation, up to its first await; `UnregisterTask` and
  `Resolve` the continuations; `Expire` the timer's callback. Continuations run
  before the next macrotask, but several deliveries, or several timers, may run
  in one.
- `Handle` calls the broker at once, since `E.tryCatch` runs its thunk while the
  task is built. So does the middleware, on arrival.

### HttpResolver and RequestReply

`http.router.resolver.ts`, `http.responseHandler.ts` and `decorateEffect`.

- State: where each request went, how often its effect has emitted, which
  requests are being worked on, which routes and which of the two response
  pipelines are subscribed, the responses between the `writableEnded` check and
  their last write, and what node has written.
- Steps: `Resolve`, `Reject` are `resolve` with and without a route; `Emit`,
  `Complete`, `Fail` (and their `Unbound` forms, without the request) are what an
  effect may decide; `WriteHead` and `End` the deferred parts of `handleResponse`;
  `Uncaught` an exception thrown in a subscriber; `Close` is `close$`.
- `Faults` chooses which faults effects have. `MaxEmits` bounds their responses.
- Matching is a choice of route; which one is `Routing`'s. Custom `output$` and
  `error$` effects, and clients that abort, are not modelled.

### Heartbeat

`websocket.server.helper.ts` and the connection handler of `websocket.server.ts`, in
discrete time. `ServerTick` is one emission of the interval for all clients,
`Heard` a ping or pong, `ClientTimeout` the per-client timeout, `Elapse` one unit
of time, which passes only when nothing is due. `Die` cuts a peer off silently.

### Context

`register`, `resolve` and `lookup` of `context.ts`.

- A binding is a number, in order of registration. `Init` chooses what is eager,
  what is async, what each factory asks for (any graph without a cycle; a cycle
  overflows the stack of the program) and what it yields.
- `LoopStep`, `LoopStart` and `LoopResume` are `resolve` between its awaits: it looks at an
  entry, evaluates its factory a microtask later, and stores what that gave. `Ask`, `Return` and
  `Raise` run factories on the stack of synchronous evaluations. `LateAsk` and
  `Finish` are what an async factory does after its promise was returned.
- A factory that asks waits for nothing: `ask` is synchronous. Order of asks within
  a factory is free. Factories that catch the errors of what they ask for are left out,
  unbound tokens and derived contexts are those of the next module.

### DerivedContext

Two containers, of which the inner one falls back on the outer one through its
`DerivedContextToken`: `contextFactory`, `lookup`, `unregisterRedundantToken`, and the
contexts of `messaging.eventBus.reader.ts`.

- The inner one is a user's (`Construct`, of a resolved outer one) or that of an
  `EventBus` (`BusConstructs`), which is made while the outer one resolves, or after it
  if the bus is bound lazily, and puts its client into the outer one. `BusListens` and
  `ListenerRaises` attach its listener, which asks for things.
- `order` holds the bindings of both, the logger first as `contextFactory` registers it;
  `entries` the two maps. `LookUp` falls back, evaluates, stores or throws; `ResolveStep`,
  `ResolveResumes` and `Settle` are `resolve` and what follows it. The look at a binding and the
  evaluation of its factory are one `ResolveStep` here: what may come in the microtask
  between them is `Context`'s subject (`LoopStep`, `LoopStart`).
- Factories are synchronous, `EventBus` excepted, and do not fail of their own: those are
  `Context`'s. The logger asks for nothing; what the effects of a bus ask for does not
  lead back to the bus. `saw` is what the last step looked up.
- `DerivedSound`: lookups throw only when the link is not evaluated yet, or for a client
  whose bus comes later; the client of an eager bus is in place; what is bound outside
  is one instance for both, but for an eager one in flight while an effect asks for it;
  a derived context uses the outer logger as soon as it is resolved, whatever it bound.

### RemoteCall and MessagingRpc

`send` of `messaging.client.ts` and `sendMessage` of the AMQP, Redis and local
strategies. `RemoteCall` is the promise of `send`: a call ends once, and with a reply
only if a request with its message was handled.

- State: the id each message object carries, where each call's `sendMessage` is and
  what its caller has got, who listens, requests and replies on their way, and for
  AMQP the channel setups, reply queues, removal timers and the connection.
- Steps: `SendMessage` up to the first await; `Immediate` (local), `Subscribed`,
  `Published`, `Refused` (Redis), `OpenQueue`, `RemoveSetup`, `Cleaned` (AMQP) what runs
  after each; `Handle` the other side; `Deliver` a reply through the filter by
  correlation id; `TimeOut` the client's timeout.
- A call is one subscription of the observable `send` returns. Subscribing twice sends
  the same message object twice, and the Redis and local strategies write their id
  *into* it; hence `message` and `id`.
- From the library (amqp-connection-manager) the model takes that `addSetup` runs its
  setup at once on a live connection and not at all on a lost one, that it rejects if
  the connection is lost meanwhile but keeps the setup, and that all setups run again
  on every new connection. The removal timer is started after the call's timeout
  and is as long, so it runs after it.
- The network loses no message. A request without a reply is the same to the caller.
  `emit`, `close` and the consumer's side are `MessagingServer`'s; replies that carry
  an error are left out.

### EventListener

`messagingListener`, `webSocketListener`, `combineEffects`, `act`, and the synchronous
`emitMessage` of the local strategy.

- State: which of the three streams are subscribed, the stack of deliveries in
  progress, what each effect has been handed, asynchronous work and what was
  lost of it, and each error with what became of its report.
- Steps: `Receive` (and `ReceiveMalformed`, `ReceiveRejected`) take a message from the
  connection; `Ignore`, `Answer`, `Work`, `FailAtOnce` are what the next effect may do
  with the innermost event; `AnswerLater`, `FailLater` end asynchronous work; `Output`
  sends an answer out, or back to the own channel; `Fail` is `processError`.
- rxjs calls the subscribers of a subject from a copy of the list: effects that are
  subscribed again during a delivery do not get its event. The `catchError` of
  the messaging listener reports before it unsubscribes, so that on the local bus the
  report reaches effects whose answers go nowhere.

### Routing

`http.router.ixbuilder.ts`, `.combiner.ts`, `.factory.ts`, `.params.factory.ts` and
`.matcher.ts`.

- `AddRoute`, `OpenGroup` and `CloseGroup` are the turns of the recursion of
  `factorizeRouting`: `stack` holds its calls in progress, each with the list it
  adds to and the table that it searches. `Finish` adds the default route; a
  redefinition of a route that is not overridable throws.
- A path is a sequence of segments and an URL a sequence of texts, since the
  expressions that `factorizeRegExpWithParams` builds never look inside one.
  `Source` is the expression as a key, `Matches` its groups. `Found` is the first item with
  the same source: groups put theirs into the list of their caller as they are, so that it
  may hold several.
- `RoutedAsDeclared` reads the tree again, route by route, without a table.

### HttpServer, TestBed and Exchange; Cors, Payload, JsonSchema, Multipart

One scenario of `Exchange` fixes the servers' configuration and the calls of
clients; the modules below it say what happens.

- `Cors`, `Payload`, `JsonSchema` and `Multipart` are operators: the headers and
  status of `cors$`, what is written and read for a body and a content type, codecs and
  their schemas, one part of a form at a time.
- `HttpServer` has the server's own steps, `Listen`, `Bound` or `BindFails`, `Close`, `Drained`,
  and those of a request, `Dispatched` (up to the first thing it waits for),
  `Collected` (a body that was read), `ReadPart`, `EndFile`, `FormRead` (multipart),
  `Answer` (the effect), `Write` and `Received`. `handlers` counts how often
  the listener is registered, so a request may run twice.
- `TestBed` adds `UseTestBed`, `Register`, and cleanups with the dependencies of each bed,
  `Finish`, `Finished` and `CleanedUp`.
- Assumed: the environment flag for metadata is set. A RegExp with the flag g matches once per
  origin. Bytes are abstract and equal when their lengths are. Streams as bodies are written
  whole. One server per address. Effects answer what the scenario says, faulty ones are
  `HttpResolver`'s. The process outlives exceptions in response streams. Forms are
  well-formed, handlers of streams emit once or fail; continuous routes come with
  multipart only. Validators see the body.

### MessagingServer

`createMicroservice`, the connections of the AMQP, Redis and local strategies (consumer's
side, `emitMessage`, `close`), `statusLogger$`, `idApplier$`, `reply`, `outputRouter$`,
`EventBus`.

- A connection is "none", "linked" (before its first status), "up", "lost", "recovering" (setup of the consumer
  under way), "closing" or "closed". `sent` are the messages of clients and answers
  that come back over the own channel, with their metadata; `backlog` the queue of an
  AMQP broker, `wire` what is on its way to a connection.
- `Handled` hands a message to the listener, `Settled` settles it in ack mode, at once as
  `AckMode` shows; `ConnectionLost` in between lets the broker send it `again`.
  `EffectAnswers` answers in one of four styles: with the event spread
  (its metadata kept), bare, through `reply`, or through `reply` to another channel. `Published` sends what waited.
- Assumed: AMQP prefetches one message in ack mode; setups stay registered when
  consuming fails; the broker comes back after a loss. Synchronous re-entrance of the local
  bus is `EventListener`'s. `createMicroservice` with the local transport throws for want of a
  context and is not a case. `error$` lines and the failure of Redis's quit are left out.

### WebSocketServer

`createWebSocketServer`, `mapToServer`, `emitEvent`, `broadcastEvent`, the operator `broadcast`,
the client lines of `statusLogger$`.

- `Upgrade` is an upgrade event through `mapToServer` and all connection handlers
  there are; `MessageComes` a message through each listener of its client, up to the sends it makes;
  `SendEnds` one callback of a send, and behind the last one of a broadcast the
  sender's own copy, which the listener sends to the client of the message once more.
- Assumed: ws 7.4.6, whose close terminates the clients of the moment and takes upgrades
  later all the same. Two mapped servers for one path would upgrade a socket twice; the
  second heartbeat interval of a second listen: neither is modelled.

## 4. Runs

| Run | Bounds | What it shows |
|---|---|---|
| `ack_all` | 2 deliveries, 2 ids, ack and resend, fair | the store is sound, and loses a live timer only when ids are shared; a handled event is disarmed; everything is discarded on arrival; timers end and the store drains |
| `ack_timeout_doc` | 2 deliveries | *violation*: unhandled events are not rejected on timeout but on arrival |
| `http_wellbehaved` | 3 requests, 2 routes, no faults, fair | pipelines stay up; only siblings on a continuous route lose requests; every other request is answered; `HttpResolver` implements `RequestReply` for them |
| `http_faulty` | 2 requests, every fault, 2 emits, fair | what can stop a pipeline; an accepted response is written although its pipeline dies |
| `heartbeat_all` | 2 clients, 20 / 22, latency 1 and 3; beside it a server with 3 clients, 2 listens, 3 paths, 1 message | the prompt peer is kept while it lives (10 s, 11 s and 500 ms in the code's units), the silence of both is bounded, only the silent are terminated; responses and broadcasts reach whom they should, clients are logged, sockets are taken |
| `ctx_all` | 3 bindings, values, `undefined` and errors, fair; beside it about 800 pairs of contexts with up to 3 bindings each in any order, with and without a bus | what is made twice, what `resolve` leaves, why it rejects, and that it settles; what a derived context finds, shares and logs with |
| `ctx_order_doc` | 2 bindings, values | *violation*: the order of bindings matters |
| `rpc_all` | 2 calls, 2 messages, each transport, 2 replies, 1 lost connection, fair | requests are sent once; an answered call times out for three reasons only; calls that are over leave nothing but the channel of a Redis call that heard no reply; `MessagingRpc` implements `RemoteCall` |
| `listener_all` | 3 events, 2 effects (one with `act`), each transport, 2 errors, fair; beside it a server over each broker, 1 or 2 connections, loads of `Traffic` | order, reports of errors, who can harm whom, and that every later event is seen; the log agrees with the connections, messages are handled once and not dropped, answers reach their requests, queues drain |
| `routing_all` | every tree of up to 4 of 7 routes and 2 groups, 12 requests | requests get to the declared route, with its middlewares and parameters |
| `exchange_all` | about 4000 scenarios, up to 2 servers, 3 calls, 3 listens, 2 closes, 2 cleanups, forms of up to 3 parts, fair | servers and beds end as asked; metadata are one's own; preflights, lengths, round trips, logs; uploads; schemas; nothing hangs |
| `upload_doc` | the forms of `exchange_all` | *violation*: PATCH is refused and PUT is parsed |

Why these bounds are enough to be interesting: the hazards of the timer store
need two deliveries, with one id or with two, and operations that overlap; those
of a pipeline a culprit and a victim, and on a continuous route a third request
that arrives after the failure; a container needs the binding `resolve` is at, one
before and one after. A call meets another one, with its message or not, a late or
second reply and one reconnect; more of them only repeat this. A listener
needs an effect before and one after another, an event in work, one that fails and one
that comes later; the second error meets an error stream that is gone. The
heartbeat needs a peer within the margin of the two
intervals and one beyond it, which also shows that clients do not interfere. The
theorems of section 6 hold for all bounds. A routing tree of four nodes has a
group within a group, a route before it and one after, and routes that are equal in one list and
in two. A broadcast needs three clients, of which one goes away, and two
listeners of one client.

`exchange_all` is a union of families, each as large as its question: lifecycles
(`Lifecycles`, `Beds`) interleave owners, clients and cleanups; `Preflights`,
`Responses`, `Requests` and `Validations` are one call each, over every
combination of the options that the code branches on; `Forms` are single uploads and
pairs that share a route. In `listener_all` and `heartbeat_all` a variable `part` says which
of two models a behaviour is about while the other rests, so the state space is the sum of the
two. `Traffic` gives several connections fewer messages, and one more.

`CHECK_DEADLOCK FALSE` is set everywhere: a server without clients, a context that
is resolved, a consumer without deliveries have nothing to do. Only
`heartbeat_all`, which checks no liveness, uses symmetry: of the server's clients.

### Fairness

- `AckMode`: the event loop empties its microtask queue (weak), and each due timer
  runs in some timers phase (strong: other timers and continuations may delay it
  for a while). Neither the broker nor effects owe anything.
- `HttpResolver`: an effect comes to a decision about each request, and promises
  and streamed bodies end (weak, per request). Requests need not come.
- `Context`: `resolve` goes on when it can; factories return, promises settle
  (weak). `Init` chooses what they do.
- `MessagingRpc`: commands and timers end, the connection manager reconnects, what is
  under way arrives (weak). Callers and lost connections are free.
- `EventListener`: messages that have come are read and synchronous deliveries go on
  (weak). Asynchronous work need not end.
- `TestBed`: servers, effects, sockets and cleanups go on (weak, as a whole: node runs every
  callback that is due, and there are finitely many). Owners and clients owe nothing.
- `MessagingServer`: each connection is announced, comes back, consumes, and is closed once that
  was asked for; messages are pushed, handled and settled (weak, per connection).
- `Heartbeat` needs none: its properties are bounds on time. `WebSocketServer`
  has safety properties only.

## 5. Where code and documentation disagree

- **Rejection on timeout** (`ack_timeout_doc`).
  `messaging.ack.middleware.ts:12` promises a rejection "when `timeout` defined by
  the transport layer options occurs". Each event is rejected when it arrives,
  as building the task already calls the broker (`ack.ts:25`); an ack comes too
  late. `DiscardOnArrival` proves it of every delivery. The tests use a mocked
  client, where nothing tells the order of the calls apart.
- **Order of eager bindings** (`ctx_order_doc`). `context.ts:72` and a test
  (`context.spec.ts:253`) say that eager dependencies are resolved and that their
  order does not matter. An *async* one that is asked for before its turn
  stays in the map as a promise that nobody awaits.
  `OrderedBindingsAreResolved` proves that ordered bindings are safe.
- **Methods of uploads** (`upload_doc`). `middleware-multipart/README.md:32` says that only POST
  and PATCH are parsed; `isProperMethod` (`multipart.util.ts:11`) takes POST and PUT.
  `UploadSound` speaks of POST, on which both agree.

Without a run of their own:

- A JSON null is announced as 0 bytes and written as the four bytes of the word:
  `http.responseHeaders.factory.spec.ts:5` expects the one, `factorizeBody` gives every JSON body
  to `stringifyJson`. Each half is tested, the two together are not. `LengthAsWritten` says
  that this and nothing else of the kind happens.
- A field beyond `maxFieldSize` is cut silently, while a file beyond its limit is refused.
- Servers that close and listen again are connected to nothing, and a second listen handles
  requests twice; the exceptions in `LifecycleSound` and `ExchangeSound` name these cases.
- An ack of a delivery that was discarded on arrival settles it a second time
  (`DiscardedOnArrival`). A Redis call without a reply keeps its channel
  (`NothingLeftBehind`). A body parser behind one that found nothing hangs
  (`NothingHangs`). Behind a wildcard parameters are shifted (`ParamsFromPath`).

## 6. Proofs

All from the named assumptions about the constants, for every value of them.

**AckModeProofs.** `TypeCorrect`; `StoreIsSound`, `TimerLoss` and
`HandledEventsAreDisarmed` from one inductive invariant (`Invariance`). None of
the three is inductive alone: expiry deletes an entry by its key, so that the
timer it held must be known to be of that key; a lost timer must keep its reason.
`DiscardOnArrival` has an invariant of its own: the flags of a delivery say which operations
have got through, so that in ack mode one that has arrived has been discarded and, once an
effect has run an ack, acked, and nothing follows.

**HttpResolverProofs.** `TypeCorrect`; `PipelineDeath` for *any* effects, from the
numbering of accepted responses: two heads for one request need two accepted
responses. `ServerStaysUp` and `LossIsConfined` for well-behaved ones,
from the invariant that a request is in one place: worked on, being sent,
answered, or lost to a sibling. `ServerKeepsPromise` is the safety part of
`ImplementsPromise`: for well-behaved effects every step is one of `RequestReply`, or none.

**WebSocketProofs**, of `Heartbeat`. `TypeCorrect`; `BrokenConnectionsEnd` and
`TerminationIsEarned` from the relation between flag, phase of the interval and
silence; `LivingPeersStay` for every latency below the margin
`TerminateInterval - Interval`, from the age of a living peer's timeout.

**ContextProofs.** `TypeCorrect`, with `TypeInvariance`: `resolve`, the stack and
the promise it awaits agree. `LazyDependenciesAreMadeOnce`: along every ranking of
the acyclic graph the stack descends, so no token is on it twice, and every entry on it is
unevaluated but perhaps that of the turn, which is eager; this is why `Return` evaluates a lazy
entry only once.
`OrderedBindingsAreResolved`: for ordered bindings the order of registration is
such a ranking, which keeps all that runs at or before the turn of
`resolve`, and the turn's own factory to `resolve` itself.
`SecondInstancesAreInFlight`: what is made is made by its turn, or for somebody who
asked, and twice only if both happen: it was asked for while its turn awaited it, or
between the look of `resolve` at its entry and the evaluation. `RejectionsHaveAReason`: an error on the stack or
in a promise has a failed factory behind it.

Of `DerivedContext`, for any bindings: `DerivedIsSound`. None of its four parts is inductive, since all speak of
what one step looked up; what they rest on is `DerivedInv` (`DerivedInvariance`). `EvaluationsOK`: the
evaluations in progress are of entries that are bound and not evaluated, descend in each context along its asks, and
once they have gone to the outer context they do not come back. So nobody below the innermost evaluation is at
the same entry (lemma `NotTwice`), and storing its value disturbs no other. `EntryOK` says what may be in an entry
and how often it was made: twice only in the outer context, of what its resolve awaits (lemma
`YieldIs`). `TurnOK`: a resolve leaves nothing eager behind it unevaluated, which is why a link that comes first is
never met unevaluated (`VoidIs`). `LoggerOK` is what `unregisterRedundantToken` leaves. `BusOK` and `ClientInv`: in good order
the resolve of the outer context stays at or before its bus until the context of the bus exists, and from then on
the client is in place; in between, places in the order rank the asks (`PlacesRank`), so nobody gets as far
as bus or client (`BusNotReached`). `DerivedAssumption` asks what `Context` asks too, that the asks of a context have no
cycle; a token once in a list, because the map of a context keeps its last binding only; a logger that is made in one
step; and that the outer context has no link, which is what makes it the outer one.

**MessagingRpcProofs.** `TypeCorrect`; `RequestsAreSentOnce`: a request is sent in the
turn in which its call leaves its first stage, or by the first run of its setup,
and `sent` tells the later runs. `Refinement`: every step is one of `RemoteCall`
or a stutter; its invariant `Conversation` says that what is under way goes between
calls with the same message, which is why a reply never ends a stranger's call.
`TimeoutsHaveAReason`: a patient call that was answered and still waits has the
reply under way to it, is being cleaned up, or has one of the three reasons already: a reply
came before it listened (Redis), a connection was lost (AMQP), another call shares its message
object (the other two).

**EventListenerProofs.** `TypeCorrect`; `EffectsSeeEventsInOrder` and
`FailuresStayConfined` from one invariant. The stack of deliveries is a chain of
events, each the answer to the one below it; the next effects to be called are what the
subscribers of the moment have left. What an effect was handed is thus bounded by what
the innermost delivery has still to hand out, and work is lost only with a subscription, which
an effect with `act` does not lose. `Ancestors` is a recursive function.

**WebSocketProofs**, of `WebSocketServer`. `WebTypeCorrect`; `ResponsesAreSound`, from a balance: for each
message and peer, the frames received, and those that sends in flight are yet to bring,
add up to what is meant for it while it stays open, and never to more. The sum counts sends, so
the lemmas are about cardinalities: what one callback takes off one set, it adds to
another. The log keeps to the sockets one connection handler at a time.

**MessagingServerProofs.** `TypeCorrect`; `ServerIsSound`, from an invariant in parts.
`WaitsOnce` and `HandledOK`: a message is in the queue, or on one wire, or was handled, once, unless
it was handed out again; `KeptOK`: it leaves one place only for the next, or is cut
off; `OrderOK`: without acknowledgements everything handled is older than what is on the wire, and
that older than the queue. `PlacedOK` makes the number of a new message new. `LogOK` ties the last
line of the log to a connection that bears it out. `SentOK` and `AnswersOK` follow an
answer: whatever the style, its destination is its own request, the own channel or
nobody (lemma `Destinations`), and stays that while it waits.

**TestBedProofs.** `TypeCorrect`; `LifecycleIsSound`, of `TestBed` and the `HttpServer` under it, from an invariant
in two halves. `HttpInv`: of the promises of `listen` only the last is pending, and only while
its socket binds (`ListenOK`), so that a server that was not opened twice has one handler; as
long as nothing has given a reason to end the response streams, a call has at most one run and
at most one response to write, which can be written, to an open stream, with nothing
to follow (`CallOK`). The responses that the program makes itself are of that kind (lemma
`ErrorWritable`), and so are those of an effect that answers once. `BedInv`: the server of a test bed listens
once, is open until its first close, and every close is that of a cleanup (`BedOK`); a bed of
a cleanup carries the number of its close (`StepOK`). Hence a refused close is not the first of its
server, and who called the first one is the other cleanup that `CleanupFailsForReason` asks for;
that the two overlap is what `CleanupOK` keeps: after a cleanup that resolved its beds are in no other.
A request's way is taken apart by the lemmas `...IsStep`, one for each handler; a step of a call
and one of a server keep the half of the other by `CallStepKeeps` and `ServerStepKeeps`.
`MetadataIsSound` rests on a third part, `MetaInv`: the metadata of a request change only until it is
answered, they are stored with the answer and not again, and nobody else touches the entry of an id
that is one request's own (`MetaOK`); the client has got what was stored, and taken it away (`OwnMeta`).
This holds because the servers of test beds listen once, so that a request has one run: a second
one would go on with the metadata after the first has stored them. Hence the assumption that a scenario whose
calls go through a test bed has test beds; the `send` of a test bed is the only one who reads metadata.

Only model-checked:

- liveness (`TimersEnd`, `StoreDrains`, `EveryRequestAnswered`, `AcceptedIsAnswered`, `Settles`,
  `NothingLeftBehind`, `EveryEventIsSeen`, `QueuesDrain`, `NothingHangs`) and the fairness in
  `ImplementsPromise` and `ImplementsCall`, which TLAPS cannot treat;
- `RoutedAsDeclared` and `ParamsFromPath`: they compare a table built step by step with a
  recursive reading of a tree, which takes an induction over data;
- `ExchangeSound`, `UploadSound` and `SchemaAgrees`, whose modules reach the recursive
  operators of `JsonSchema`.

## 7. What is not modelled

- What a broker does when it is told twice of one delivery tag: a real one closes the channel.
  `settled` records what it is told.
- Custom `output$` and `error$` effects of the HTTP listener, aborted requests.
- A context derived from a derived one; `constructContext` of an existing context, which
  tests use.
- Wording and layout of logs, reports and errors; event loggers; the TCP stub; the query of
  an URL; HTTPS options, upgrade and connection events of the HTTP server.
- Truncated forms, custom types of the body parser, validators of anything but the body.
- What the assumptions of section 3 leave out. `@integration` holds examples.

## 8. Running it

    tlc -config MCAckMode_all.cfg MCAckMode
    tlapm AckModeProofs.tla

Every run ends within three minutes on two workers.
