------------------------------ MODULE HttpServer ------------------------------
(***************************************************************************)
(* Servers of @marblejs/http from listen to close and the way of a request    *)
(* through them: createServer and its server effects, the router's response   *)
(* streams, the middlewares logger$, cors$, bodyParser$, multipart$ and        *)
(* requestValidator$, the effect, the metadata storage and handleResponse.     *)
(*                                                                          *)
(* What HttpResolver tells apart about faulty effects is not repeated: here     *)
(* an effect answers with the responses that the scenario names. A scenario     *)
(* fixes the configuration of the servers and the calls of the clients.         *)
(***************************************************************************)
EXTENDS Cors, Payload, Multipart, SequencesExt

CONSTANTS Servers, Calls,
          Scenarios,        \* see the fields used below; listens and closes bound the owner
          Validate(_, _),   \* requestValidator$s on a body: what is left, or Error
          Meta(_, _)        \* the schema they publish of it

\* Calls have a server, and only test beds, which hold one server each, send calls that ask
\* for metadata; continuous routes appear with multipart$ only, on servers that listen once.
ASSUME ScenarioAssumption ==
    /\ "none" \notin Servers
    /\ \A sc \in Scenarios :
        /\ sc.beds \in BOOLEAN
        /\ \A c \in Calls :
              /\ sc.call[c].to \in Servers /\ sc.call[c].through \in Servers \union {"none"}
              /\ Len(sc.call[c].answers) \in Nat
              /\ sc.call[c].through # "none" => sc.beds
        /\ \A s \in Servers :
              /\ sc.config[s].event \in {"none", "forwards", "fails"} /\ sc.config[s].parsers \in Nat
              /\ sc.config[s].continuous =>
                    /\ sc.config[s].multipart # <<>> /\ sc.config[s].codecs = <<>>
                    /\ sc.listens[s] <= 1

VARIABLES scenario,
          handle,     \* "none", "binding" or "open": the socket of a server
          listens,    \* the promises of its listen calls
          attached,   \* the listeners of its event stream and router are in place
          handlers,   \* how often its listener is registered for requests
          live,       \* response streams of its router that are subscribed
          closers,    \* the promises of its close calls
          effects,    \* its server effects are subscribed
          logs,       \* what they logged
          sticky,     \* see Cors
          storage,    \* request id -> metadata
          stage,      \* of a call: "idle", "open", "cut", "ended" or "settled"
          runs,       \* one per handler: [at, left: parsers, said: answers given]
          request,    \* [body, meta, upload] of the request
          outbox,     \* responses accepted and not yet written
          response,   \* what has been written
          accessLog,  \* levels of the lines of logger$
          result      \* what the client got

servers == <<handle, listens, attached, handlers, live, closers, effects, logs>>
calls == <<sticky, storage, stage, runs, request, outbox, response, accessLog, result>>
httpVars == <<scenario, servers, calls>>

Pipelines == {"output", "error"}
None == <<>>

Config(s) == scenario.config[s]
Call(c) == scenario.call[c]
To(c) == Call(c).to

HttpInit ==
    /\ scenario \in Scenarios
    /\ handle = [s \in Servers |-> "none"]
    /\ listens = [s \in Servers |-> <<>>]
    /\ attached = [s \in Servers |-> TRUE]
    /\ handlers = [s \in Servers |-> 0]
    /\ live = [s \in Servers |-> Pipelines]
    /\ closers = [s \in Servers |-> <<>>]
    /\ effects = [s \in Servers |-> TRUE]
    /\ logs = [s \in Servers |-> {}]
    /\ sticky = [s \in Servers |-> FALSE]
    /\ storage = [s \in Servers |-> <<>>]
    /\ stage = [c \in Calls |-> "idle"]
    /\ runs = [c \in Calls |-> <<>>]
    /\ request = [c \in Calls |-> [body |-> Undefined, meta |-> None, upload |-> Upload]]
    /\ outbox = [c \in Calls |-> <<>>]
    /\ response = [c \in Calls |-> None]
    /\ accessLog = [c \in Calls |-> <<>>]
    /\ result = [c \in Calls |-> None]

------------------------------------------------------------------------------
(* The server. *)

\* A server event reaches the effects; event$ of the user comes before the others
\* and ends them all when it forwards the close event, or fails.
Notify(s, event) ==
    LET heard == attached[s] /\ effects[s]
        over == \/ Config(s).event = "fails"
                \/ Config(s).event = "forwards" /\ event = "close"
    IN  /\ logs' = [logs EXCEPT ![s] = IF heard /\ ~over THEN @ \union {event} ELSE @]
        /\ effects' = [effects EXCEPT ![s] = @ /\ ~(heard /\ over)]

\* listen: the listeners are added once server.listen has not thrown, which it does
\* on a server that listens; whether the port is free shows later.
Listen(s) ==
    /\ handle[s] # "binding" /\ Len(listens[s]) < scenario.listens[s]
    /\ IF handle[s] = "open"
       THEN /\ listens' = [listens EXCEPT ![s] = Append(@, "rejected")]
            /\ UNCHANGED <<handle, handlers>>
       ELSE /\ handle' = [handle EXCEPT ![s] = "binding"]
            /\ handlers' = [handlers EXCEPT ![s] = @ + 1]
            /\ listens' = [listens EXCEPT ![s] = Append(@, "pending")]
    /\ UNCHANGED <<attached, live, closers, effects, logs>>

Settled(promises, outcome) ==
    [i \in DOMAIN promises |-> IF promises[i] = "pending" THEN outcome ELSE promises[i]]

Bound(s) ==
    /\ handle[s] = "binding"
    /\ handle' = [handle EXCEPT ![s] = "open"]
    /\ listens' = [listens EXCEPT ![s] = Settled(@, "resolved")]
    /\ Notify(s, "listening")
    /\ UNCHANGED <<attached, handlers, live, closers>>

BindFails(s) ==
    /\ handle[s] = "binding" /\ Config(s).busy
    /\ handle' = [handle EXCEPT ![s] = "none"]
    /\ listens' = [listens EXCEPT ![s] = Settled(@, "rejected")]
    /\ Notify(s, "error")
    /\ UNCHANGED <<attached, handlers, live, closers>>

Started(s) == \E i \in DOMAIN listens[s] : listens[s][i] = "resolved"

\* closeServer: a server that does not listen refuses, but only once it is drained.
Close(s) ==
    /\ Started(s) /\ handle[s] # "binding"
    /\ handle' = [handle EXCEPT ![s] = "none"]
    /\ closers' = [closers EXCEPT ![s] =
                      Append(@, IF handle[s] = "open" THEN "waiting" ELSE "refused")]
    /\ UNCHANGED <<listens, attached, handlers, live, effects, logs>>

Connected(s) == \E c \in Calls : To(c) = s /\ stage[c] \in {"open", "cut", "ended"}

\* 'close': the effects hear of it, close$ completes the router's streams, and then
\* all listeners are removed, the ones that would open them again included.
Drained(s) ==
    /\ handle[s] = "none" /\ \E i \in DOMAIN closers[s] : closers[s][i] \in {"waiting", "refused"}
    /\ ~Connected(s)
    /\ closers' = [closers EXCEPT ![s] =
                      [i \in DOMAIN @ |-> CASE @[i] = "waiting" -> "resolved"
                                            [] @[i] = "refused" -> "rejected"
                                            [] OTHER -> @[i]]]
    /\ Notify(s, "close")
    /\ live' = [live EXCEPT ![s] = IF attached[s] THEN {} ELSE @]
    /\ attached' = [attached EXCEPT ![s] = FALSE]
    /\ handlers' = [handlers EXCEPT ![s] = 0]
    /\ UNCHANGED <<handle, listens>>

------------------------------------------------------------------------------
(* A request. *)

ErrorResponse(status) ==
    [status |-> status, headers |-> <<>>,
     body |-> <<"object", [error |-> <<"string", <<"text", "message">>>>]>>]

\* collect: for requests with an id and metadata.
Collect(s, c, meta) ==
    storage' = IF Call(c).id = "" \/ meta = None THEN storage
               ELSE [storage EXCEPT ![s] = [id \in DOMAIN @ \union {Call(c).id} |->
                                               IF id = Call(c).id THEN meta ELSE @[id]]]

\* The answers to one request, each on its stream: all are collected, and those that
\* find the response open are accepted.
Emit(c, via, responses, meta) ==
    LET s == To(c)
    IN  IF via \notin live[s] \/ responses = <<>> THEN UNCHANGED <<storage, outbox>>
        ELSE /\ Collect(s, c, meta)
             /\ outbox' = IF stage[c] \in {"ended", "settled"} THEN outbox
                          ELSE [outbox EXCEPT ![c] = @ \o
                                  [i \in DOMAIN responses |-> [via |-> via, of |-> responses[i]]]]

Parseable(c) ==
    /\ Call(c).method \in {"POST", "PUT", "PATCH"}
    /\ GetContentType(Call(c).headers) \notin {"", "form-data"}

\* bodyParser$ has something to do: no earlier parser has left a body.
Parses(c, body) == Parseable(c) /\ body \in {Undefined, Null}

\* requestValidator$s, and the effect gets the request.
Enter(c, body) ==
    LET schemas == Config(To(c)).codecs
        valid == Validate(schemas, body)
    IN  [at |-> IF valid = Error THEN "over" ELSE "working",
         body |-> IF valid = Error THEN body ELSE valid,
         meta |-> [path |-> Call(c).path, body |-> Meta(schemas, body)],
         errors |-> IF valid = Error THEN <<ErrorResponse(400)>> ELSE <<>>]

\* A continuous route is one stream for all requests; processError throws for an
\* error that does not name its request, and then it is gone.
RouteGone(s) == \E c \in Calls : To(c) = s /\ \E i \in DOMAIN runs[c] : runs[c][i].at = "unbound"

\* Behind the body parsers: the route with multipart$, if it has one, and its validators.
Onward(c, body) ==
    LET same == [at |-> "over", body |-> body, meta |-> [path |-> Call(c).path], errors |-> <<>>]
    IN  CASE RouteGone(To(c)) -> [same EXCEPT !.at = "unheard"]
          [] ~RouteGone(To(c)) /\ Config(To(c)).multipart = None -> Enter(c, body)
          [] OTHER ->
                IF ShouldParseMultipart(Call(c).method, GetContentType(Call(c).headers))
                THEN [same EXCEPT !.at = "uploading"]
                ELSE [same EXCEPT !.errors = <<ErrorResponse(412)>>]

\* What an error of c leaves of the runs: a continuous route is subscribed again, and
\* whatever else is under way on it is cancelled.
Spared(c, errors) ==
    IF errors = <<>> \/ ~Config(To(c)).continuous THEN runs
    ELSE [d \in Calls |-> IF To(d) # To(c) \/ d = c THEN runs[d]
            ELSE [i \in DOMAIN runs[d] |->
                    IF runs[d][i].at \in {"uploading", "working"}
                    THEN [runs[d][i] EXCEPT !.at = "cancelled"] ELSE runs[d][i]]]

\* The listener hands the request to resolve, once per registration: logger$,
\* cors$ and, if there is nothing to parse, the rest. Without response streams no
\* route is subscribed to its subject and the request is left as it is.
Preflighted(c) ==
    /\ Call(c).method = "OPTIONS" /\ Call(c).origin # "" /\ Config(To(c)).cors # None

Copies(c, x) == [i \in 1..handlers[To(c)] |-> x]

Deaf(c) ==
    /\ stage' = [stage EXCEPT ![c] = "open"]
    /\ UNCHANGED <<sticky, storage, runs, request, outbox, response, accessLog, result>>

Malformed(c) ==
    /\ stage' = [stage EXCEPT ![c] = "open"]
    /\ Emit(c, "error", Copies(c, ErrorResponse(400)), None)
    /\ UNCHANGED <<sticky, runs, request, response, accessLog, result>>

Level(status) == IF status >= 500 THEN "error" ELSE IF status >= 400 THEN "warn" ELSE "info"

\* logger$ writes its line for every subscription when the response is finished.
LogLines(c, status, copies) ==
    IF Config(To(c)).logger THEN [i \in 1..copies |-> Level(status)] ELSE <<>>

\* Mutant: a preflight goes on to the effect.
Preflight_GoesOn(c) ==
    /\ runs' = [runs EXCEPT ![c] = Copies(c, [at |-> "working", left |-> 0, said |-> 0])]
    /\ stage' = [stage EXCEPT ![c] = "open"]
    /\ UNCHANGED <<sticky, storage, request, outbox, response, accessLog, result>>

\* cors$ answers a preflight itself, past the output stream and the storage.
PreflightAnswered(c) ==
    LET options == Config(To(c)).cors
        reply == Preflight(options, Call(c), sticky[To(c)])
    IN  /\ stage' = [stage EXCEPT ![c] = "ended"]
        /\ response' = [response EXCEPT ![c] =
               [status |-> reply.status, cors |-> reply.headers, type |-> "",
                length |-> Error, bytes |-> Nothing]]
        /\ sticky' = [sticky EXCEPT ![To(c)] =
               Sticks(options.origin, Call(c).origin, @, handlers[To(c)])]
        /\ accessLog' = [accessLog EXCEPT ![c] = LogLines(c, reply.status, handlers[To(c)])]
        /\ UNCHANGED <<storage, runs, request, outbox, result>>

Dispatched(c) ==
    LET parsers == Config(To(c)).parsers
        next == Onward(c, Undefined)
    IN  /\ stage' = [stage EXCEPT ![c] = "open"]
        /\ IF parsers > 0 /\ Parses(c, Undefined)
           THEN /\ runs' = [runs EXCEPT ![c] =
                       Copies(c, [at |-> "parsing", left |-> parsers, said |-> 0])]
                /\ request' = [request EXCEPT ![c].meta = [path |-> Call(c).path]]
                /\ UNCHANGED <<storage, outbox>>
           ELSE /\ runs' = [Spared(c, next.errors) EXCEPT ![c] =
                       Copies(c, [at |-> next.at, left |-> 0, said |-> 0])]
                /\ request' = [request EXCEPT ![c].body = next.body, ![c].meta = next.meta]
                /\ Emit(c, "error", next.errors, next.meta)
        /\ UNCHANGED <<sticky, response, accessLog, result>>

\* What sendRequest does; on a server that does not listen the connection fails.
Send(c) ==
    /\ stage[c] = "idle" /\ c \in scenario.made /\ Started(To(c))
    /\ LET s == To(c)
           bytes == Requested(Call(c).headers, Call(c).body)
       IN  CASE handle[s] # "open" \/ bytes = Error ->
                    /\ stage' = [stage EXCEPT ![c] = "settled"]
                    /\ result' = [result EXCEPT ![c] = [is |-> "rejected"]]
                    /\ UNCHANGED <<sticky, storage, runs, request, outbox, response, accessLog>>
             [] handle[s] = "open" /\ bytes # Error ->
                    CASE ~attached[s] -> Deaf(c)
                      [] attached[s] /\ Call(c).path = "malformed" -> Malformed(c)
                      [] attached[s] /\ Call(c).path # "malformed" /\ Preflighted(c) -> PreflightAnswered(c)
                      [] OTHER -> Dispatched(c)
    /\ UNCHANGED <<scenario, servers>>

\* The body of the request has arrived: the first parser reads it. A second one that
\* finds no body waits for a stream that has already ended.
Collected(c, i) ==
    /\ i \in DOMAIN runs[c] /\ runs[c][i].at = "parsing"
    /\ LET parsed == ParseBody(GetContentType(Call(c).headers),
                              Requested(Call(c).headers, Call(c).body))
           next == Onward(c, parsed)
       IN  CASE parsed = Error ->
                    /\ runs' = [runs EXCEPT ![c][i].at = "over"]
                    /\ Emit(c, "error", <<ErrorResponse(400)>>, request[c].meta)
                    /\ UNCHANGED request
             [] parsed # Error /\ runs[c][i].left > 1 /\ Parses(c, parsed) ->
                    /\ runs' = [runs EXCEPT ![c][i].at = "stuck"]
                    /\ UNCHANGED <<request, storage, outbox>>
             [] OTHER ->
                    /\ runs' = [Spared(c, next.errors) EXCEPT ![c][i].at = next.at]
                    /\ request' = [request EXCEPT ![c].body = next.body, ![c].meta = next.meta]
                    /\ Emit(c, "error", next.errors, next.meta)
    /\ UNCHANGED <<scenario, servers, stage, sticky, response, accessLog, result>>

\* An upload is refused, by a response if its request is known: on a route of its own
\* every request is.
Refuse(c, i, refusal) ==
    LET known == refusal.bound \/ ~Config(To(c)).continuous
        errors == <<ErrorResponse(refusal.status)>>
    IN  /\ runs' = [Spared(c, errors) EXCEPT ![c][i].at = IF known THEN "over" ELSE "unbound"]
        /\ IF known THEN Emit(c, "error", errors, request[c].meta) ELSE UNCHANGED <<storage, outbox>>
        /\ UNCHANGED request

Uploading(c, i, refusals, upload) ==
    /\ IF refusals # {} THEN \E refusal \in refusals : Refuse(c, i, refusal)
       ELSE /\ request' = [request EXCEPT ![c].upload = upload]
            /\ UNCHANGED <<runs, storage, outbox>>
    /\ UNCHANGED <<scenario, servers, stage, sticky, response, accessLog, result>>

\* Busboy comes to the next part of the form.
ReadPart(c, i) ==
    LET options == Config(To(c)).multipart
        n == request[c].upload.read + 1
    IN  /\ runs[c][i].at = "uploading" /\ n <= Len(Call(c).parts)
        /\ Uploading(c, i, PartRefused(options, Call(c).parts, n),
                           PartTaken(options, Call(c).parts, n, request[c].upload))

\* A file has been collected, or its handler is through with it.
EndFile(c, i, n) ==
    LET options == Config(To(c)).multipart
    IN  /\ runs[c][i].at = "uploading" /\ n \in request[c].upload.pending
        /\ Uploading(c, i, FileRefused(options, Call(c).parts[n]),
                           FileTaken(options, Call(c).parts, n, request[c].upload))

\* The form is complete, and the request goes on.
FormRead(c, i) ==
    LET next == Enter(c, FormBody(request[c].body, request[c].upload))
    IN  /\ runs[c][i].at = "uploading" /\ Uploaded(Call(c).parts, request[c].upload)
        /\ runs' = [Spared(c, next.errors) EXCEPT ![c][i].at = next.at]
        /\ request' = [request EXCEPT ![c].body = next.body, ![c].meta = next.meta]
        /\ Emit(c, "error", next.errors, next.meta)
        /\ UNCHANGED <<scenario, servers, stage, sticky, response, accessLog, result>>

Multiparts(c, i) ==
    \/ ReadPart(c, i) \/ FormRead(c, i)
    \/ \E n \in request[c].upload.pending : EndFile(c, i, n)

\* The effect gives its next answer.
Answer(c, i) ==
    /\ i \in DOMAIN runs[c] /\ runs[c][i].at = "working"
    /\ runs[c][i].said < Len(Call(c).answers)
    /\ runs' = [runs EXCEPT ![c][i].said = @ + 1]
    /\ Emit(c, "output", <<Call(c).answers[runs[c][i].said + 1]>>, request[c].meta)
    /\ UNCHANGED <<scenario, servers, stage, sticky, request, response, accessLog, result>>

\* What cors$ and logger$ have added to a response that went through a route.
Routed(c) == runs[c] # <<>>
CorsHeaders(c) ==
    IF Routed(c) /\ Config(To(c)).cors # None /\ Call(c).origin # ""
    THEN Actual(Config(To(c)).cors, Call(c)) ELSE <<>>

\* The deferred writeHead and end of an accepted response. When a head has been
\* written, or the body cannot be, it throws and with it goes the stream that the
\* response came by; the process is taken to survive that (see HttpResolver).
Write(c) ==
    /\ outbox[c] # <<>>
    /\ LET s == To(c)
           sent == Head(outbox[c])
           written == Written(sent.of, Call(c).extension, Config(s).normalize)
       IN  IF stage[c] # "open" \/ written.bytes = Error
           THEN /\ live' = [live EXCEPT ![s] = @ \ {sent.via}]
                /\ stage' = [stage EXCEPT ![c] = IF @ = "open" THEN "cut" ELSE @]
                /\ UNCHANGED <<response, accessLog>>
           ELSE /\ stage' = [stage EXCEPT ![c] = "ended"]
                /\ response' = [response EXCEPT ![c] = [cors |-> CorsHeaders(c)] @@ written]
                /\ accessLog' = [accessLog EXCEPT ![c] = LogLines(c, written.status, Len(runs[c]))]
                /\ UNCHANGED live
    /\ outbox' = [outbox EXCEPT ![c] = Tail(@)]
    /\ UNCHANGED <<scenario, handle, listens, attached, handlers, closers, effects, logs,
                   sticky, storage, runs, request, result>>

\* A client that is told a length waits for that many bytes.
Whole(c) == response[c].length \in {Error, response[c].bytes}

\* Mutant: reading metadata leaves it in the storage.
Received_Keeps(c) ==
    /\ stage[c] = "ended" /\ Whole(c)
    /\ stage' = [stage EXCEPT ![c] = "settled"]
    /\ result' = [result EXCEPT ![c] =
           [is |-> "resolved", status |-> response[c].status,
            body |-> ParseResponse(response[c].type, response[c].bytes),
            metadata |-> LET s == Call(c).through
                         IN  IF s # "none" /\ Call(c).id \in DOMAIN storage[s]
                             THEN storage[s][Call(c).id] ELSE None]]
    /\ UNCHANGED <<scenario, servers, sticky, storage, runs, request, outbox, response, accessLog>>

\* The client has the whole response. The send of a test bed takes the metadata of
\* its request from the storage of its own server; others do not ask for it.
Received(c) ==
    LET s == Call(c).through
        found == s # "none" /\ Call(c).id \in DOMAIN storage[s]
    IN  /\ stage[c] = "ended" /\ Whole(c)
        /\ stage' = [stage EXCEPT ![c] = "settled"]
        /\ result' = [result EXCEPT ![c] =
               [is |-> "resolved", status |-> response[c].status,
                body |-> ParseResponse(response[c].type, response[c].bytes),
                metadata |-> IF found THEN storage[s][Call(c).id] ELSE None]]
        /\ storage' = IF ~found THEN storage
                      ELSE [storage EXCEPT ![s] = [id \in DOMAIN @ \ {Call(c).id} |-> @[id]]]
        /\ UNCHANGED <<scenario, servers, sticky, runs, request, outbox, response, accessLog>>

\* With another length the client ends some way or other, or never.
Misread(c) ==
    /\ stage[c] = "ended" /\ ~Whole(c)
    /\ stage' = [stage EXCEPT ![c] = "settled"]
    /\ result' = [result EXCEPT ![c] = [is |-> "unspecified"]]
    /\ UNCHANGED <<scenario, servers, sticky, storage, runs, request, outbox, response, accessLog>>

------------------------------------------------------------------------------

Work(c) ==
    \/ \E i \in DOMAIN runs[c] : Collected(c, i) \/ Multiparts(c, i) \/ Answer(c, i)
    \/ Write(c)
    \/ Received(c)

------------------------------------------------------------------------------
(* Properties. *)

\* A listen that failed and one that is being closed leave their request handler
\* behind, and the next one that succeeds has two.
Relistened(s) == \E i \in DOMAIN listens[s] : i > 1 /\ listens[s][i] = "resolved"

AnswersOnce(c) ==
    /\ Len(Call(c).answers) = 1
    /\ Written(Call(c).answers[1], Call(c).extension, Config(To(c)).normalize).bytes # Error

\* While a server has not been closed, its response streams end only by an effect
\* that answers twice or with what cannot be written, or after another listen: then every
\* request may be handled twice. A server that was closed and
\* listens again takes requests and routes none. (subscribeResponse, listen)
StreamsEndForReason ==
    \A s \in Servers :
        /\ attached[s] /\ live[s] # Pipelines =>
              Relistened(s) \/ \E c \in Calls : To(c) = s /\ ~AnswersOnce(c)
        /\ ~attached[s] => \A c \in Calls : To(c) = s /\ stage[c] = "open" => ~Routed(c)

\* A server logs its close unless its user's effect has ended all effects.
CloseIsLogged ==
    \A s \in Servers :
        ~attached[s] => ("close" \in logs[s] <=> Config(s).event = "none")

Alone(c) == \A d \in Calls \ {c} : Call(d).id # Call(c).id

\* The metadata that a test bed returns are those of its own request: nothing else
\* can come of an id of its own, and nothing less when the request got to a route of
\* the test bed's server. (collect, getRequestMetadata)
MetadataIsOwn ==
    \A c \in Calls : result[c] # None /\ result[c].is = "resolved" /\ Alone(c) =>
        /\ result[c].metadata \in {None, request[c].meta}
        /\ Routed(c) /\ Call(c).id # "" /\ Call(c).through = To(c) =>
              result[c].metadata = request[c].meta

\* What stays in the storage: the metadata of a request that is not over, whose
\* client did not come back for it or asked another server, or that was collected
\* again after that (a second answer, a second handler, a shared id).
LeftInStorage(s, c) ==
    /\ To(c) = s /\ Routed(c)
    /\ \/ stage[c] # "settled"
       \/ result[c].is # "resolved"
       \/ Call(c).through # s
       \/ Len(Call(c).answers) > 1
       \/ Len(runs[c]) > 1
       \/ ~Alone(c)

MetadataSound ==
    /\ MetadataIsOwn
    /\ \A s \in Servers, id \in UNION {DOMAIN storage[t] : t \in Servers} :
          id \in DOMAIN storage[s] => \E c \in Calls : Call(c).id = id /\ LeftInStorage(s, c)
==============================================================================
