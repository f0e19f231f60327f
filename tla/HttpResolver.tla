----------------------------- MODULE HttpResolver -----------------------------
(***************************************************************************)
(* The request/response life cycle of an @marblejs/http server: resolve,   *)
(* one effect stream per route, the errorSubject and outputSubject, the    *)
(* two subscriptions that send what they emit ("pipelines"), and           *)
(* handleResponse with its deferred writeHead and end.                     *)
(*                                                                         *)
(* Effects are user code.  What they may do wrong is chosen by Faults:     *)
(*   "late"    an effect fails after it has already emitted a response     *)
(*   "silent"  an effect completes without a response                      *)
(*   "poison"  a response whose headers cannot be made or written (a body  *)
(*             that does not serialize, an invalid header)                 *)
(*   "unbound" an undecorated effect emits, or fails, without the request  *)
(* MaxEmits bounds the responses an effect emits for one request.          *)
(***************************************************************************)
EXTENDS Naturals

CONSTANTS
    Requests,
    Routes,
    Continuous,     \* routes whose effect is not decorated per request
    Faults,
    MaxEmits,
    SurvivesThrow   \* the process has an uncaughtException handler

ASSUME ResolverAssumption ==
    /\ Continuous \subseteq Routes
    /\ Faults \subseteq {"late", "silent", "poison", "unbound"}
    /\ MaxEmits \in Nat \ {0}
    /\ SurvivesThrow \in BOOLEAN
    /\ {"none", "unmatched", "malformed"} \cap Routes = {}

Pipelines == {"output", "error"}

VARIABLES
    target,     \* where resolve sent the request ("none": not arrived)
    emits,      \* responses its effect has emitted
    working,    \* requests on which the route's effect still works
    failed,     \* requests whose effect failed
    liveRoutes, \* routes whose output$ is subscribed
    live,       \* pipelines that are subscribed
    sends,      \* responses between the writableEnded check and the last write
    accepted,   \* number of responses each request had accepted for sending
    poisoned,   \* requests given a poisonous response
    heads,      \* requests whose head has been written
    ended,      \* requests whose response has been ended (writableEnded)
    process,    \* "up", "throwing" (an exception waits in the event loop), "down"
    closed      \* the server emitted 'close'

vars == <<target, emits, working, failed, liveRoutes, live, sends, accepted, poisoned,
          heads, ended, process, closed>>
sending == <<sends, accepted, poisoned>>

Init ==
    /\ target = [q \in Requests |-> "none"]
    /\ emits = [q \in Requests |-> 0]
    /\ working = {}
    /\ failed = {}
    /\ liveRoutes = Routes
    /\ live = Pipelines
    /\ sends = {}
    /\ accepted = [q \in Requests |-> 0]
    /\ poisoned = {}
    /\ heads = {}
    /\ ended = {}
    /\ process = "up"
    /\ closed = FALSE

Running == process # "down"
Arrived(q) == target[q] # "none"
Decorated(q) == target[q] \in Routes \ Continuous

\* outputSubject.next / errorSubject.next: the pipeline, while it is subscribed,
\* calls response.send, which only checks writableEnded and defers the rest.
Send(q, pipeline, poison) ==
    IF pipeline \in live /\ q \notin ended
    THEN /\ sends' = sends \cup {[req |-> q, via |-> pipeline, n |-> accepted[q],
                                  poison |-> poison, step |-> "head"]}
         /\ accepted' = [accepted EXCEPT ![q] = @ + 1]
         /\ poisoned' = IF poison THEN poisoned \cup {q} ELSE poisoned
    ELSE UNCHANGED sending

\* resolve: the matched route's subject gets the request, whoever listens.
Resolve(q, route) ==
    /\ Running /\ ~closed /\ ~Arrived(q)
    /\ target' = [target EXCEPT ![q] = route]
    /\ working' = IF route \in liveRoutes THEN working \cup {q} ELSE working
    /\ UNCHANGED <<emits, failed, liveRoutes, live, sending, heads, ended, process, closed>>

\* Faults seeded into resolve: the "return" after "route not found" forgotten, so
\* that the catch block reports a second error; the catch block left empty.
Reject_NoReturn(q, why) ==
    /\ Running /\ ~closed /\ ~Arrived(q)
    /\ target' = [target EXCEPT ![q] = why]
    /\ sends' = sends \cup [req : {q}, via : {"error"}, n : {0, 1}, poison : {FALSE}, step : {"head"}]
    /\ accepted' = [accepted EXCEPT ![q] = 2]
    /\ UNCHANGED <<emits, working, failed, liveRoutes, live, poisoned, heads, ended, process, closed>>

Reject_Silent(q, why) ==
    /\ Running /\ ~closed /\ ~Arrived(q)
    /\ target' = [target EXCEPT ![q] = why]
    /\ UNCHANGED <<emits, working, failed, liveRoutes, live, sending, heads, ended, process, closed>>

\* resolve without a route, or with a path or query that does not decode.
Reject(q, why) ==
    /\ Running /\ ~closed /\ ~Arrived(q)
    /\ target' = [target EXCEPT ![q] = why]
    /\ Send(q, "error", FALSE)
    /\ UNCHANGED <<emits, working, failed, liveRoutes, live, heads, ended, process, closed>>

\* The effect emits a response bound to its request.
Emit(q, poison) ==
    /\ Running /\ q \in working
    /\ emits[q] < MaxEmits
    /\ poison => "poison" \in Faults
    /\ emits' = [emits EXCEPT ![q] = @ + 1]
    /\ Send(q, "output", poison)
    /\ UNCHANGED <<target, working, failed, liveRoutes, live, heads, ended, process, closed>>

\* Fault seeded into the route's subscriber: the error is put on outputSubject.
EmitUnbound_ErrorsSubject(q) ==
    /\ Running /\ q \in working /\ ~Decorated(q)
    /\ "unbound" \in Faults
    /\ emits[q] < MaxEmits
    /\ emits' = [emits EXCEPT ![q] = @ + 1]
    /\ live' = live \ {"output"}
    /\ process' = "throwing"
    /\ UNCHANGED <<target, working, failed, liveRoutes, sending, heads, ended, closed>>

\* An undecorated effect emits a response without its request: "next" throws.
EmitUnbound(q) ==
    /\ Running /\ q \in working /\ ~Decorated(q)
    /\ "unbound" \in Faults
    /\ emits[q] < MaxEmits
    /\ emits' = [emits EXCEPT ![q] = @ + 1]
    /\ process' = "throwing"
    /\ UNCHANGED <<target, working, failed, liveRoutes, live, sending, heads, ended, closed>>

\* The effect has no more to say about the request.
Complete(q) ==
    /\ Running /\ q \in working
    /\ emits[q] > 0 \/ "silent" \in Faults
    /\ working' = working \ {q}
    /\ UNCHANGED <<target, emits, failed, liveRoutes, live, sending, heads, ended, process, closed>>

\* Fault seeded into the failure of an effect: decorateEffect without its
\* catchError.
Fail_NotCaught(q) ==
    /\ Running /\ q \in working
    /\ emits[q] > 0 => "late" \in Faults
    /\ working' = {p \in working : target[p] # target[q]}
    /\ failed' = failed \cup {q}
    /\ Send(q, "error", FALSE)
    /\ UNCHANGED <<target, emits, liveRoutes, live, heads, ended, process, closed>>

\* An effect (or a middleware) fails and the error carries the request.  A
\* decorated one is caught inside the request's own inner stream; otherwise
\* catchError resubscribes the route's stream, and with the old subscription
\* goes the work on every other request of the route.
Fail(q) ==
    /\ Running /\ q \in working
    /\ emits[q] > 0 => "late" \in Faults
    /\ working' = IF Decorated(q) THEN working \ {q}
                  ELSE {p \in working : target[p] # target[q]}
    /\ failed' = failed \cup {q}
    /\ Send(q, "error", FALSE)
    /\ UNCHANGED <<target, emits, liveRoutes, live, heads, ended, process, closed>>

\* An undecorated effect fails without the request: processError throws, the
\* error is logged and the route's stream is gone.
FailUnbound(q) ==
    /\ Running /\ q \in working /\ ~Decorated(q)
    /\ "unbound" \in Faults
    /\ working' = {p \in working : target[p] # target[q]}
    /\ failed' = failed \cup {q}
    /\ liveRoutes' = liveRoutes \ {target[q]}
    /\ UNCHANGED <<target, emits, live, sending, heads, ended, process, closed>>

\* The deferred task rejects: mergeMap errors, the pipeline's subscription is
\* over and its error handler throws into the event loop.
Throw(pipeline) ==
    /\ live' = live \ {pipeline}
    /\ process' = IF pipeline \in live THEN "throwing" ELSE process

\* Faults seeded into the deferred write: a dying pipeline takes the responses it
\* was sending along; the response ended before its head is written.
WriteHead_CancelsAll(s) ==
    /\ Running /\ s \in sends /\ s.step = "head"
    /\ IF s.poison \/ s.req \in heads
       THEN /\ sends' = {t \in sends : t.via # s.via}
            /\ Throw(s.via)
            /\ UNCHANGED heads
       ELSE /\ sends' = (sends \ {s}) \cup {[s EXCEPT !.step = "body"]}
            /\ heads' = heads \cup {s.req}
            /\ UNCHANGED <<live, process>>
    /\ UNCHANGED <<target, emits, working, failed, liveRoutes, accepted, poisoned, ended, closed>>

WriteHead_EndsFirst(s) ==
    /\ Running /\ s \in sends /\ s.step = "head"
    /\ sends' = sends \ {s}
    /\ ended' = ended \cup {s.req}
    /\ UNCHANGED <<target, emits, working, failed, liveRoutes, live, accepted, poisoned,
                   heads, process, closed>>

\* factorizeHeaders and writeHead: a head is written once, or the task rejects.
WriteHead(s) ==
    /\ Running /\ s \in sends /\ s.step = "head"
    /\ IF s.poison \/ s.req \in heads
       THEN /\ sends' = sends \ {s}
            /\ Throw(s.via)
            /\ UNCHANGED heads
       ELSE /\ sends' = (sends \ {s}) \cup {[s EXCEPT !.step = "body"]}
            /\ heads' = heads \cup {s.req}
            /\ UNCHANGED <<live, process>>
    /\ UNCHANGED <<target, emits, working, failed, liveRoutes, accepted, poisoned, ended, closed>>

\* endRequestAndWriteBody, or the end of a streamed body (any time later).
End(s) ==
    /\ Running /\ s \in sends /\ s.step = "body"
    /\ sends' = sends \ {s}
    /\ ended' = ended \cup {s.req}
    /\ UNCHANGED <<target, emits, working, failed, liveRoutes, live, accepted, poisoned,
                   heads, process, closed>>

\* The exception reaches the event loop.
Uncaught ==
    /\ process = "throwing"
    /\ process' = IF SurvivesThrow THEN "up" ELSE "down"
    /\ UNCHANGED <<target, emits, working, failed, liveRoutes, live, sending, heads, ended, closed>>

\* The server closes (Node emits 'close' once no connection is open): close$
\* completes every stream.  Clients do not abort in this model.
Close ==
    /\ Running /\ ~closed
    /\ \A q \in Requests : Arrived(q) => q \in ended
    /\ closed' = TRUE
    /\ liveRoutes' = {}
    /\ live' = {}
    /\ working' = {}
    /\ UNCHANGED <<target, emits, failed, sending, heads, ended, process>>

\* What the effect decides about one request.
EffectStep(q) ==
    \/ \E poison \in BOOLEAN : Emit(q, poison)
    \/ EmitUnbound(q)
    \/ Complete(q)
    \/ Fail(q)
    \/ FailUnbound(q)

Next ==
    \/ \E q \in Requests, route \in Routes : Resolve(q, route)
    \/ \E q \in Requests, why \in {"unmatched", "malformed"} : Reject(q, why)
    \/ \E q \in Requests : EffectStep(q)
    \/ \E s \in sends : WriteHead(s) \/ End(s)
    \/ Uncaught
    \/ Close

\* Effects reach a decision, and promise continuations and streamed bodies end.
Fairness ==
    /\ \A q \in Requests : WF_vars(EffectStep(q))
    /\ \A q \in Requests : WF_vars(\E s \in sends : s.req = q /\ (WriteHead(s) \/ End(s)))
    /\ WF_vars(Uncaught)

Spec == Init /\ [][Next]_vars
FairSpec == Spec /\ Fairness

-----------------------------------------------------------------------------
\* Effects that answer each request at most once, with a response that can be
\* written, or fail instead.
WellBehaved == Faults = {} /\ MaxEmits = 1

TypeOK ==
    /\ target \in [Requests -> Routes \cup {"none", "unmatched", "malformed"}]
    /\ emits \in [Requests -> 0 .. MaxEmits]
    /\ working \subseteq Requests
    /\ failed \subseteq Requests
    /\ liveRoutes \subseteq Routes
    /\ live \subseteq Pipelines
    /\ sends \subseteq [req : Requests, via : Pipelines, n : Nat, poison : BOOLEAN,
                        step : {"head", "body"}]
    /\ accepted \in [Requests -> Nat]
    /\ poisoned \subseteq Requests
    /\ heads \subseteq Requests
    /\ ended \subseteq Requests
    /\ process \in {"up", "throwing", "down"}
    /\ closed \in BOOLEAN

\* A pipeline that stopped before the server closed was stopped by a request
\* answered twice before its first answer ended, or by a response that could
\* not be written; every other request's responses are harmless to it.
PipelineDeathHasCulprit ==
    ~closed /\ live # Pipelines => \E q \in Requests : accepted[q] > 1 \/ q \in poisoned

\* Well-behaved effects, decorated or not, never stop a pipeline and never cause
\* an exception in the event loop.
StaysUp == WellBehaved => process = "up" /\ (~closed => live = Pipelines)

\* Nothing hangs or is lost with well-behaved effects, except on a route that is
\* not decorated: there a request can be dropped, by the failure of another one.
Dropped(q) ==
    /\ Arrived(q)
    /\ q \notin working \cup ended
    /\ \A s \in sends : s.req # q

LostOnlyBySibling ==
    WellBehaved => \A q \in Requests : Dropped(q) =>
        /\ target[q] \in Continuous
        /\ \E p \in failed : p # q /\ target[p] = target[q]

\* A response accepted while its request is open is always written out to the
\* end, whether or not its pipeline has died in between, unless its head fails.
AcceptedIsAnswered ==
    \A q \in Requests :
        (accepted[q] > 0 /\ q \notin poisoned) ~> (q \in ended \/ process = "down")

\* With well-behaved effects, every request that reaches a decorated route, no
\* route at all or a decoding error is answered.
EveryRequestAnswered ==
    \A q \in Requests : Arrived(q) /\ target[q] \notin Continuous ~> q \in ended

\* A server of well-behaved effects keeps the request/reply promise for every
\* request that is not on a continuous route, whatever happens on those.
Promise == INSTANCE RequestReply WITH
    status <- [q \in Requests |->
                 IF target[q] \in Continuous \cup {"none"} THEN "idle"
                 ELSE IF q \in ended THEN "answered"
                 ELSE IF q \in heads THEN "replying" ELSE "open"]
ImplementsPromise == Promise!FairSpec
=============================================================================
