------------------------------ MODULE TestBedProofs ------------------------------
(***************************************************************************)
(* Proofs about TestBed and the servers under it, for any servers, calls,  *)
(* cleanups and scenarios: any configuration, effects, requests and forms, *)
(* and any order of listening, closing, binding and draining.              *)
(***************************************************************************)
EXTENDS TestBed, TLAPS

Over == {"over", "stuck", "cancelled", "unheard", "unbound"}
Runs == [at : Over \union {"parsing", "uploading", "working"}, left : Nat, said : Nat]
Stages == {"idle", "open", "cut", "ended", "settled"}
Steps == {"none", "dependencies", "failed", "finishing", "finished"}
TaskOf(on) ==
    [on : {on}, after : SUBSET Cleanups, state : {"idle", "threw", "running", "rejected", "resolved"},
     at : [on -> Steps], closer : [on -> Nat]]
Tasks == UNION {TaskOf(on) : on \in SUBSET Servers}

\* Servers and their calls: the variables that they end by, with their types.
HttpTypes ==
    /\ scenario \in Scenarios
    /\ handle \in [Servers -> {"none", "binding", "open"}]
    /\ listens \in [Servers -> Seq({"pending", "resolved", "rejected"})]
    /\ attached \in [Servers -> BOOLEAN]
    /\ handlers \in [Servers -> Nat]
    /\ live \in [Servers -> SUBSET Pipelines]
    /\ closers \in [Servers -> Seq({"waiting", "refused", "resolved", "rejected"})]
    /\ effects \in [Servers -> BOOLEAN]
    /\ logs \in [Servers -> SUBSET {"listening", "error", "close"}]
    /\ stage \in [Calls -> Stages]
    /\ runs \in [Calls -> Seq(Runs)]
    /\ DOMAIN outbox = Calls

\* Only the last listen of a server is undecided, while its socket binds; and a server that has
\* not been bound twice has one handler.
ListenOK(s) ==
    /\ handle[s] = "binding" => Len(listens[s]) > 0 /\ listens[s][Len(listens[s])] = "pending"
    /\ \A i \in DOMAIN listens[s] : listens[s][i] = "pending" => handle[s] = "binding" /\ i = Len(listens[s])
    /\ handle[s] = "open" => Started(s)
    /\ Len(listens[s]) = 0 => handlers[s] = 0 /\ handle[s] = "none"
    /\ handle[s] = "binding" /\ Len(listens[s]) = 1 => handlers[s] <= 1
    /\ handle[s] = "open" /\ ~Relistened(s) => handlers[s] <= 1

\* A server effect that nobody ends hears of the close, once.
LogOK(s) ==
    /\ Config(s).event = "none" => effects[s]
    /\ "close" \in logs[s] <=> ~attached[s] /\ Config(s).event = "none"

\* A call has nothing more to say: its effect has answered, or it will not.
Quiet(c) == \A i \in DOMAIN runs[c] : runs[c][i].at \in Over \/ (runs[c][i].at = "working" /\ runs[c][i].said > 0)
Writable(c, answer) == Written(answer, Call(c).extension, Config(To(c)).normalize).bytes # Error

\* What is to be written for a call is one response that can be written, to an open one, and the last.
CallOK(c) ==
    /\ Len(runs[c]) <= 1
    /\ outbox[c] # <<>> =>
          /\ stage[c] = "open" /\ Quiet(c)
          /\ outbox[c] = <<Head(outbox[c])>> /\ Writable(c, Head(outbox[c]).of)
    /\ stage[c] # "open" => Quiet(c)

\* No reason yet to end the response streams of a server.
Sane(s) == attached[s] /\ ~Relistened(s) /\ \A c \in Calls : To(c) = s => AnswersOnce(c)
StreamOK(s) ==
    /\ Sane(s) => live[s] = Pipelines /\ \A c \in Calls : To(c) = s => CallOK(c)
    /\ ~attached[s] => \A c \in Calls : To(c) = s /\ stage[c] = "open" => runs[c] = <<>>
IdleOK == \A c \in Calls : stage[c] = "idle" => runs[c] = <<>>

HttpInv == HttpTypes /\ IdleOK /\ \A s \in Servers : ListenOK(s) /\ LogOK(s) /\ StreamOK(s)

\* Test beds over them.
BedTypes ==
    /\ bed \in [Servers -> {"absent", "creating", "ready"}]
    /\ instances \in Seq(Servers)
    /\ cleanup \in [Cleanups -> Tasks]

\* The server of a test bed listens once; it is open until its first close, and every close
\* is that of a cleanup. A close that has ended left no connection.
BedOK(s) ==
    /\ bed[s] # "absent" => scenario.beds
    /\ scenario.beds =>
          /\ bed[s] = "absent" => listens[s] = <<>>
          /\ Len(listens[s]) <= 1
          /\ closers[s] # <<>> => handle[s] = "none" /\ Started(s)
          /\ Started(s) /\ closers[s] = <<>> => handle[s] = "open"
          /\ \A i \in DOMAIN closers[s] :
                /\ closers[s][i] \in {"refused", "rejected"} => i # 1
                /\ closers[s][i] \in {"resolved", "rejected"} => ~attached[s] /\ ~Connected(s)
                /\ \E k \in Cleanups : s \in cleanup[k].on /\ cleanup[k].closer[s] = i
          /\ bed[s] = "ready" /\ s \notin Range(instances) => \E k \in Cleanups : cleanup[k].state = "resolved"
          /\ s \in Range(instances) => bed[s] = "ready"

\* How far a cleanup is with a bed, and the close it waits for.
StepOK(k, s) ==
    /\ bed[s] = "ready"
    /\ cleanup[k].at[s] \in {"none", "dependencies"} => cleanup[k].closer[s] = 0
    /\ cleanup[k].at[s] \in {"finishing", "finished"} => cleanup[k].closer[s] # 0
    /\ cleanup[k].closer[s] # 0 =>
          /\ cleanup[k].closer[s] \in DOMAIN closers[s]
          /\ cleanup[k].at[s] = "finished" => closers[s][cleanup[k].closer[s]] = "resolved"
          /\ cleanup[k].at[s] = "failed" => closers[s][cleanup[k].closer[s]] = "rejected"

\* What a cleanup has come to; after one that resolved its beds are forgotten.
CleanupOK(k) ==
    /\ cleanup[k].state = "idle" => cleanup[k].on = {}
    /\ cleanup[k].state # "idle" => scenario.beds
    /\ cleanup[k].state = "rejected" => \E s \in cleanup[k].on : cleanup[k].at[s] = "failed"
    /\ cleanup[k].state = "resolved" =>
          /\ \A s \in cleanup[k].on : cleanup[k].at[s] = "finished"
          /\ cleanup[k].on \intersect Range(instances) = {}
    /\ \A s \in cleanup[k].on : StepOK(k, s)
    /\ \A j \in cleanup[k].after : cleanup[j].state = "resolved" /\ cleanup[j].on \intersect cleanup[k].on = {}

BedInv == BedTypes /\ (\A s \in Servers : BedOK(s)) /\ \A k \in Cleanups : CleanupOK(k)

Inv == HttpInv /\ BedInv

------------------------------------------------------------------------------
(* What is written.                                                           *)

\* Without headers of its own a response is declared as what is computed for it.
LEMMA TypeIsComputed ==
    ASSUME NEW kind, NEW size, NEW given,
           DOMAIN kind = {"Content-Type"} /\ kind["Content-Type"] = "json",
           DOMAIN size = {"Content-Length"}, DOMAIN given = {}
    PROVE  /\ GetContentType(Normalized(Spread(kind, size), given)) = "json"
           /\ GetContentType(Spread(Spread(kind, size), given)) = "json"
<1>1. PICK computed : computed = Spread(kind, size)
  OBVIOUS
<1>2. DOMAIN computed = {"Content-Type", "Content-Length"} /\ computed["Content-Type"] = "json"
  BY <1>1 DEF Spread
<1>3. Lower("Content-Type") = "content-type" /\ Lower("Content-Length") = "content-length"
  BY DEF Lower
<1>4. GetContentType(Normalized(computed, given)) = "json"
  <2>1. {m \in DOMAIN computed : Lower(m) = "content-type"} = {"Content-Type"}
    BY <1>2, <1>3
  <2>2. (CHOOSE m \in {m \in DOMAIN computed : Lower(m) = "content-type"} : TRUE) = "Content-Type"
    BY <2>1
  <2>3. {Lower(m) : m \in DOMAIN computed \union DOMAIN given} = {"content-type", "content-length"}
    BY <1>2, <1>3
  <2>4. {m \in DOMAIN given : Lower(m) = "content-type"} = {}
    OBVIOUS
  <2>5. DOMAIN Normalized(computed, given) = {"content-type", "content-length"}
    BY <2>3 DEF Normalized
  <2>6. Normalized(computed, given)["content-type"] = "json"
    BY <2>2, <2>3, <2>4, <1>2 DEF Normalized
  <2> QED BY <2>5, <2>6, <1>3 DEF GetContentType, GetHeader
<1>5. GetContentType(Spread(computed, given)) = "json"
  BY <1>2 DEF Spread, GetContentType, GetHeader
<1> QED BY <1>1, <1>4, <1>5

\* An error response can be written, whatever the options and the path.
\* (factorizeHeaders, factorizeBody)
LEMMA ErrorWritable ==
    ASSUME NEW n \in Nat, n >= 400, NEW extension, NEW normalize
    PROVE  Written(ErrorResponse(n), extension, normalize).bytes # Error
<1>1. PICK r : r = ErrorResponse(n)
  OBVIOUS
<1>2. r.status = n /\ DOMAIN r.headers = {} /\ r.body[1] = "object"
  BY <1>1 DEF ErrorResponse
<1>3. ~(r.status < 400)
  BY <1>2
<1>4. PICK type : type = ContentTypeHeader(r, extension)
  OBVIOUS
<1>5. DOMAIN type = {"Content-Type"} /\ type["Content-Type"] = "json"
  BY <1>3, <1>4 DEF ContentTypeHeader
<1>6. PICK length : length = ContentLengthHeader(r)
  OBVIOUS
<1>7. DOMAIN length = {"Content-Length"}
  BY <1>2, <1>6 DEF ContentLengthHeader
<1>8. GetContentType(r.headers) = ""
  BY <1>2 DEF GetContentType, GetHeader, Lower
<1>9. PICK headers : headers = FactorizeHeaders(r, extension, normalize)
  OBVIOUS
<1>10. headers \in {Normalized(Spread(type, length), r.headers), Spread(Spread(type, length), r.headers)}
  <2>1. headers = IF normalize THEN Normalized(Spread(type, length), r.headers)
                  ELSE Spread(Spread(type, length), r.headers)
    BY <1>4, <1>6, <1>8, <1>9, Zenon DEF FactorizeHeaders
  <2> QED BY <2>1, Zenon
<1>11. GetContentType(headers) = "json"
  <2>1. PICK given : given = r.headers
    OBVIOUS
  <2>2. DOMAIN given = {}
    BY <1>2, <2>1
  <2>3. /\ GetContentType(Normalized(Spread(type, length), given)) = "json"
        /\ GetContentType(Spread(Spread(type, length), given)) = "json"
    BY <2>2, <1>5, <1>7, TypeIsComputed
  <2> QED BY <1>10, <2>1, <2>3
<1>12. Written(r, extension, normalize).bytes = FactorizeBody("json", r.body)
  BY <1>9, <1>11 DEF Written
<1>13. FactorizeBody("json", r.body) = <<"json", r.body>>
  BY <1>2 DEF FactorizeBody, JsonTypes, StringifyJson, Json
<1>14. <<"json", r.body>>[1] # <<"error", "">>[1]
  OBVIOUS
<1> QED BY <1>1, <1>12, <1>13, <1>14 DEF Error

------------------------------------------------------------------------------
(* The way of a request.                                                      *)

\* What is left of the runs of d when another request fails: they may have been cancelled.
Spares(d, left) ==
    /\ left \in Seq(Runs) /\ Len(left) = Len(runs[d])
    /\ \A i \in 1..Len(runs[d]) : left[i] = runs[d][i] \/ left[i].at \in Over

\* What a step of a call may change: its own state, so that what is promised of it still holds,
\* the runs of other calls that it cancels, and streams of its server that had a reason to end.
CallStep(c) ==
    /\ UNCHANGED <<scenario, handle, listens, attached, handlers, closers, effects, logs>>
    /\ stage' \in [Calls -> Stages] /\ runs' \in [Calls -> Seq(Runs)] /\ DOMAIN outbox' = Calls
    /\ live' \in [Servers -> SUBSET Pipelines]
    /\ \A d \in Calls \ {c} : stage'[d] = stage[d] /\ outbox'[d] = outbox[d] /\ Spares(d, runs'[d])
    /\ \A s \in Servers : s # To(c) \/ Sane(s) => live'[s] = live[s]
    /\ stage'[c] = "idle" => runs'[c] = <<>>
    /\ stage'[c] = "open" /\ ~attached[To(c)] => runs'[c] = <<>>
    /\ Sane(To(c)) => CallOK(c)'
    /\ stage'[c] \in {"open", "cut", "ended"} =>
          stage[c] \in {"open", "cut", "ended"} \/ handle[To(c)] = "open"

\* An error of one request leaves the others as they were, or cancels them. (processError)
LEMMA Sparing ==
    ASSUME runs \in [Calls -> Seq(Runs)], NEW c \in Calls, NEW errors
    PROVE  /\ Spared(c, errors) \in [Calls -> Seq(Runs)] /\ Spared(c, errors)[c] = runs[c]
           /\ \A d \in Calls : Spares(d, Spared(c, errors)[d])
<1>1. \A d \in Calls : Spares(d, runs[d]) /\ Len(runs[d]) \in Nat /\ DOMAIN runs[d] = 1..Len(runs[d])
  BY DEF Spares
<1>2. CASE errors = <<>> \/ ~Config(To(c)).continuous
  <2>1. Spared(c, errors) = runs
    BY <1>2 DEF Spared
  <2> QED BY <1>1, <2>1
<1>3. CASE ~(errors = <<>> \/ ~Config(To(c)).continuous)
  <2> DEFINE less(d) == [i \in DOMAIN runs[d] |->
                           IF runs[d][i].at \in {"uploading", "working"}
                           THEN [runs[d][i] EXCEPT !.at = "cancelled"] ELSE runs[d][i]]
  <2>1. Spared(c, errors) = [d \in Calls |-> IF To(d) # To(c) \/ d = c THEN runs[d] ELSE less(d)]
    BY <1>3 DEF Spared
  <2>2. ASSUME NEW d \in Calls PROVE less(d) \in Seq(Runs) /\ Spares(d, less(d))
    <3>1. PICK n \in Nat : n = Len(runs[d]) /\ DOMAIN runs[d] = 1..n
      BY <1>1, <2>2
    <3>2. ASSUME NEW i \in 1..n
          PROVE  less(d)[i] \in Runs /\ (less(d)[i] = runs[d][i] \/ less(d)[i].at \in Over)
      <4>1. PICK run \in Runs : run = runs[d][i]
        BY <2>2, <3>1, <3>2
      <4>2. [run EXCEPT !.at = "cancelled"] \in Runs /\ [run EXCEPT !.at = "cancelled"].at \in Over
        BY DEF Runs, Over
      <4>3. less(d)[i] = IF run.at \in {"uploading", "working"} THEN [run EXCEPT !.at = "cancelled"] ELSE run
        BY <3>1, <4>1
      <4> HIDE DEF less
      <4> QED BY <4>1, <4>2, <4>3
    <3>3. DOMAIN less(d) = 1..n /\ less(d) = [i \in 1..n |-> less(d)[i]]
      BY <3>1
    <3> HIDE DEF less
    <3>4. less(d) \in [1..n -> Runs]
      BY <3>2, <3>3
    <3>5. less(d) \in Seq(Runs) /\ Len(less(d)) = n
      BY <3>3, <3>4
    <3> QED BY <3>1, <3>2, <3>5 DEF Spares
  <2> HIDE DEF less
  <2> QED BY <1>1, <2>1, <2>2
<1> QED BY <1>2, <1>3

\* At most one response: what a request gets of one error or of one handler.
AtMostOne(responses) == responses = <<>> \/ responses = <<Head(responses)>>

\* A response goes to its own outbox, and only while the response is not over.
LEMMA Emission ==
    ASSUME DOMAIN outbox = Calls, NEW c \in Calls, NEW via, NEW responses, NEW meta,
           Emit(c, via, responses, meta)
    PROVE  /\ DOMAIN outbox' = Calls /\ \A d \in Calls \ {c} : outbox'[d] = outbox[d]
           /\ outbox[c] = <<>> /\ AtMostOne(responses) =>
                 \/ outbox'[c] = <<>>
                 \/ /\ responses # <<>> /\ stage[c] \notin {"ended", "settled"}
                    /\ outbox'[c] = <<[via |-> via, of |-> Head(responses)]>>
<1>1. CASE via \notin live[To(c)] \/ responses = <<>>
  BY <1>1 DEF Emit
<1>2. CASE ~(via \notin live[To(c)] \/ responses = <<>>)
  <2> DEFINE new == [i \in DOMAIN responses |-> [via |-> via, of |-> responses[i]]]
  <2>1. outbox' = IF stage[c] \in {"ended", "settled"} THEN outbox
                  ELSE [outbox EXCEPT ![c] = @ \o new]
    BY <1>2 DEF Emit
  <2>2. ASSUME AtMostOne(responses) PROVE <<>> \o new = <<[via |-> via, of |-> Head(responses)]>>
    <3>1. PICK r : responses = <<r>>
      BY <1>2, <2>2 DEF AtMostOne
    <3>2. new = <<[via |-> via, of |-> r]>>
      BY <3>1
    <3> HIDE DEF new
    <3> QED BY <3>1, <3>2
  <2> HIDE DEF new
  <2>3. CASE stage[c] \in {"ended", "settled"}
    BY <2>1, <2>3
  <2>4. CASE stage[c] \notin {"ended", "settled"}
    BY <2>1, <2>2, <2>4, <1>2
  <2> QED BY <2>3, <2>4
<1> QED BY <1>1, <1>2

\* Cancelled runs are quiet, so that a call that is left alone keeps its promise.
LEMMA SparedIsOK ==
    ASSUME NEW d \in Calls, runs[d] \in Seq(Runs), CallOK(d), Spares(d, runs'[d]),
           stage'[d] = stage[d], outbox'[d] = outbox[d], scenario' = scenario
    PROVE  CallOK(d)'
<1>1. PICK n \in Nat : n = Len(runs[d]) /\ n = Len(runs'[d]) /\ DOMAIN runs[d] = 1..n /\ DOMAIN runs'[d] = 1..n
  BY DEF Spares
<1>2. Quiet(d) => Quiet(d)'
  BY <1>1 DEF Quiet, Spares
<1>3. ASSUME NEW answer, Writable(d, answer) PROVE Writable(d, answer)'
  BY <1>3 DEF Writable, Call, Config, To
<1> QED BY <1>1, <1>2, <1>3 DEF CallOK

LEMMA SettingIsConstant ==
    ASSUME scenario' = scenario
    PROVE  /\ \A c \in Calls : To(c)' = To(c) /\ Call(c)' = Call(c) /\ AnswersOnce(c)' = AnswersOnce(c)
           /\ \A s \in Servers : Config(s)' = Config(s)
BY DEF To, Call, Config, AnswersOnce

\* A step of a call keeps everything, if it keeps what concerns the call.
LEMMA CallStepKeeps ==
    ASSUME Inv, NEW c \in Calls, CallStep(c), UNCHANGED bedVars
    PROVE  Inv'
<1>1. To(c) \in Servers
  BY ScenarioAssumption DEF Inv, HttpInv, HttpTypes, To, Call
<1>2. HttpTypes' /\ BedTypes'
  BY DEF Inv, HttpInv, HttpTypes, BedInv, BedTypes, CallStep, bedVars
<1>3. IdleOK'
  <2> SUFFICES ASSUME NEW d \in Calls, stage'[d] = "idle" PROVE runs'[d] = <<>>
    BY DEF IdleOK
  <2>1. CASE d = c
    BY <2>1 DEF CallStep
  <2>2. CASE d # c
    <3>1. runs[d] = <<>> /\ Spares(d, runs'[d])
      BY <2>2 DEF CallStep, Inv, HttpInv, IdleOK
    <3> QED BY <3>1 DEF Spares
  <2> QED BY <2>1, <2>2
<1>4. ASSUME NEW s \in Servers PROVE ListenOK(s)' /\ LogOK(s)'
  <2>1. ListenOK(s)'
    BY DEF Inv, HttpInv, ListenOK, CallStep, Started, Relistened
  <2>2. LogOK(s)'
    BY SettingIsConstant DEF Inv, HttpInv, LogOK, CallStep
  <2> QED BY <2>1, <2>2
<1>5. ASSUME NEW s \in Servers PROVE StreamOK(s)'
  <2>1. Sane(s)' => Sane(s)
    BY SettingIsConstant DEF Sane, CallStep, Relistened
  <2>2. ASSUME Sane(s) PROVE live'[s] = Pipelines /\ \A d \in Calls : To(d) = s => CallOK(d)'
    <3>1. live'[s] = Pipelines
      BY <2>2 DEF CallStep, Inv, HttpInv, StreamOK
    <3>2. ASSUME NEW d \in Calls, To(d) = s PROVE CallOK(d)'
      <4>1. CASE d = c
        BY <2>2, <3>2, <4>1 DEF CallStep
      <4>2. CASE d # c
        <5>1. CallOK(d) /\ runs[d] \in Seq(Runs)
          BY <2>2, <3>2 DEF Inv, StreamOK, HttpInv, HttpTypes
        <5>2. scenario' = scenario /\ stage'[d] = stage[d] /\ outbox'[d] = outbox[d] /\ Spares(d, runs'[d])
          BY <4>2 DEF CallStep
        <5> QED BY <5>1, <5>2, SparedIsOK
      <4> QED BY <4>1, <4>2
    <3> QED BY <3>1, <3>2
  <2>3. ASSUME ~attached'[s], NEW d \in Calls, To(d) = s, stage'[d] = "open" PROVE runs'[d] = <<>>
    <3>1. ~attached[s]
      BY <2>3 DEF CallStep
    <3>2. CASE d = c
      BY <2>3, <3>1, <3>2 DEF CallStep
    <3>3. CASE d # c
      <4>1. runs[d] = <<>> /\ Spares(d, runs'[d])
        BY <2>3, <3>1, <3>3 DEF CallStep, Inv, HttpInv, StreamOK
      <4> QED BY <4>1 DEF Spares
    <3> QED BY <3>2, <3>3
  <2>4. \A d \in Calls : To(d)' = To(d)
    BY SettingIsConstant DEF CallStep
  <2> QED BY <2>1, <2>2, <2>3, <2>4 DEF StreamOK
<1>6. ASSUME NEW s \in Servers PROVE BedOK(s)'
  <2>1. handle[s] # "open" /\ Connected(s)' => Connected(s)
    BY SettingIsConstant DEF Connected, CallStep
  <2>2. BedOK(s)
    BY DEF Inv, BedInv
  <2>3. /\ UNCHANGED <<scenario, handle, listens, attached, closers, bed, instances, cleanup>>
        /\ Started(s)' = Started(s)
    BY DEF CallStep, bedVars, Started
  <2>4. closers[s] = <<>> => DOMAIN closers[s] = {}
    OBVIOUS
  <2> QED BY <2>1, <2>2, <2>3, <2>4 DEF BedOK
<1>7. ASSUME NEW k \in Cleanups PROVE CleanupOK(k)'
  <2>1. CleanupOK(k) /\ UNCHANGED <<scenario, bed, instances, cleanup, closers>>
    BY DEF Inv, BedInv, CallStep, bedVars
  <2>2. \A s \in cleanup[k].on : StepOK(k, s) => StepOK(k, s)'
    BY <2>1 DEF StepOK
  <2> QED BY <2>1, <2>2 DEF CleanupOK
<1> QED BY <1>2, <1>3, <1>4, <1>5, <1>6, <1>7 DEF Inv, HttpInv, BedInv

\* How a request goes on: an error ends it, and only that is answered by the router.
Places == Over \union {"parsing", "uploading", "working"}
GoesOn(at, errors) ==
    /\ at \in Places
    /\ errors # <<>> => at = "over" /\ \E n \in Nat : n >= 400 /\ errors = <<ErrorResponse(n)>>

LEMMA Proceeding ==
    ASSUME NEW c \in Calls, NEW body
    PROVE  /\ GoesOn(Enter(c, body).at, Enter(c, body).errors)
           /\ GoesOn(Onward(c, body).at, Onward(c, body).errors)
<1>1. PICK refused : refused = <<ErrorResponse(400)>>
  OBVIOUS
<1>2. PICK unfit : unfit = <<ErrorResponse(412)>>
  OBVIOUS
<1>3. GoesOn("over", refused) /\ GoesOn("over", unfit)
  BY <1>1, <1>2 DEF GoesOn, Places, Over
<1>4. \A at \in Places : GoesOn(at, <<>>)
  BY DEF GoesOn
<1>5. GoesOn(Enter(c, body).at, Enter(c, body).errors)
  BY <1>1, <1>3, <1>4 DEF Enter, Places, Over
<1>6. GoesOn(Onward(c, body).at, Onward(c, body).errors)
  BY <1>2, <1>3, <1>4, <1>5 DEF Onward, Places, Over
<1> QED BY <1>5, <1>6

\* One of the runs of a call moves on, and others may be cancelled.
Moves(c, i, at) == \E errors : runs' = [Spared(c, errors) EXCEPT ![c][i].at = at]

LEMMA MovesAlone ==
    ASSUME NEW c, NEW i, NEW at, runs' = [runs EXCEPT ![c][i].at = at]
    PROVE  Moves(c, i, at)
<1>1. Spared(c, <<>>) = runs
  BY DEF Spared
<1> QED BY <1>1 DEF Moves

LEMMA Moving ==
    ASSUME runs \in [Calls -> Seq(Runs)], NEW c \in Calls, NEW i \in DOMAIN runs[c], NEW at \in Places,
           Moves(c, i, at)
    PROVE  /\ runs' \in [Calls -> Seq(Runs)] /\ \A d \in Calls \ {c} : Spares(d, runs'[d])
           /\ DOMAIN runs'[c] = DOMAIN runs[c] /\ Len(runs'[c]) = Len(runs[c]) /\ runs'[c][i].at = at
<1> PICK errors : runs' = [Spared(c, errors) EXCEPT ![c][i].at = at]
  BY DEF Moves
<1> PICK base : base = Spared(c, errors) /\ runs' = [base EXCEPT ![c][i].at = at]
  OBVIOUS
<1>1. /\ base \in [Calls -> Seq(Runs)] /\ base[c] = runs[c]
      /\ \A d \in Calls : Spares(d, base[d])
  BY Sparing
<1>2. PICK run \in Runs : run = runs[c][i]
  OBVIOUS
<1>3. [run EXCEPT !.at = at] \in Runs /\ [run EXCEPT !.at = at].at = at
  BY DEF Runs, Places
<1>4. PICK moved : moved = [run EXCEPT !.at = at]
  OBVIOUS
<1>5. runs' = [base EXCEPT ![c] = [runs[c] EXCEPT ![i] = moved]]
  BY <1>1, <1>2, <1>4
<1>6. PICK left : left = [runs[c] EXCEPT ![i] = moved]
  OBVIOUS
<1>7. left \in Seq(Runs) /\ Len(left) = Len(runs[c]) /\ DOMAIN left = DOMAIN runs[c] /\ left[i] = moved
  BY <1>3, <1>4, <1>6
<1>8. runs' = [base EXCEPT ![c] = left]
  BY <1>5, <1>6
<1>9. runs' \in [Calls -> Seq(Runs)] /\ runs'[c] = left /\ \A d \in Calls \ {c} : runs'[d] = base[d]
  BY <1>1, <1>7, <1>8
<1> QED BY <1>1, <1>3, <1>4, <1>7, <1>9

\* A call that is worked on, on a server whose streams must not end, has nothing to be written.
LEMMA WorkedOn ==
    ASSUME Inv, NEW c \in Calls, NEW i \in DOMAIN runs[c],
           runs[c][i].at \in {"parsing", "uploading"} \/ (runs[c][i].at = "working" /\ runs[c][i].said = 0)
    PROVE  /\ To(c) \in Servers /\ stage[c] # "idle"
           /\ stage[c] = "open" => attached[To(c)]
           /\ Sane(To(c)) => i = 1 /\ Len(runs[c]) = 1 /\ stage[c] = "open" /\ outbox[c] = <<>>
<1>1. To(c) \in Servers
  BY ScenarioAssumption DEF Inv, HttpInv, HttpTypes, To, Call
<1>2. runs[c] # <<>> /\ runs[c] \in Seq(Runs)
  BY DEF Inv, HttpInv, HttpTypes
<1>3. stage[c] # "idle" /\ (stage[c] = "open" => attached[To(c)])
  BY <1>1, <1>2 DEF Inv, HttpInv, IdleOK, StreamOK
<1>4. ASSUME Sane(To(c)) PROVE i = 1 /\ Len(runs[c]) = 1 /\ stage[c] = "open" /\ outbox[c] = <<>>
  <2>1. CallOK(c)
    BY <1>1, <1>4 DEF Inv, HttpInv, StreamOK
  <2>2. ~Quiet(c)
    BY <1>2 DEF Quiet, Over
  <2>3. PICK n \in Nat : n = Len(runs[c]) /\ DOMAIN runs[c] = 1..n
    BY <1>2
  <2>4. n <= 1 /\ i \in 1..n
    BY <2>1, <2>3 DEF CallOK
  <2>5. n = 1
    BY <2>4
  <2>6. i = 1
    BY <2>4, <2>5
  <2> QED BY <2>1, <2>2, <2>3, <2>5, <2>6 DEF CallOK
<1> QED BY <1>1, <1>3, <1>4

\* Such a call moves on, by itself or into an error that is answered.
LEMMA MoveIsStep ==
    ASSUME Inv, NEW c \in Calls, NEW i \in DOMAIN runs[c], runs[c][i].at \in {"parsing", "uploading"},
           NEW at, NEW answered, GoesOn(at, answered), NEW meta, Moves(c, i, at),
           Emit(c, "error", answered, meta) \/ outbox' = outbox,
           stage' = stage, UNCHANGED <<scenario, servers>>
    PROVE  CallStep(c)
<1>1. /\ runs' \in [Calls -> Seq(Runs)] /\ \A d \in Calls \ {c} : Spares(d, runs'[d])
      /\ DOMAIN runs'[c] = DOMAIN runs[c] /\ Len(runs'[c]) = Len(runs[c]) /\ runs'[c][i].at = at
  BY Moving DEF Inv, HttpInv, HttpTypes, GoesOn
<1>2. /\ To(c) \in Servers /\ stage[c] # "idle"
      /\ stage[c] = "open" => attached[To(c)]
      /\ Sane(To(c)) => i = 1 /\ Len(runs[c]) = 1 /\ stage[c] = "open" /\ outbox[c] = <<>>
  BY WorkedOn
<1>3. AtMostOne(answered)
  BY DEF GoesOn, AtMostOne
<1>4. /\ DOMAIN outbox' = Calls /\ \A d \in Calls \ {c} : outbox'[d] = outbox[d]
      /\ outbox[c] = <<>> =>
            \/ outbox'[c] = <<>>
            \/ answered # <<>> /\ outbox'[c] = <<[via |-> "error", of |-> Head(answered)]>>
  BY <1>3, Emission DEF Inv, HttpInv, HttpTypes
<1>5. ASSUME Sane(To(c)) PROVE CallOK(c)'
  <2>1. Len(runs'[c]) = 1 /\ stage'[c] = "open"
    BY <1>1, <1>2, <1>5
  <2>2. ASSUME outbox'[c] # <<>>
        PROVE  /\ outbox'[c] = <<Head(outbox'[c])>> /\ Quiet(c)' /\ Writable(c, Head(outbox[c]).of)'
    <3>1. PICK n \in Nat : n >= 400 /\ answered = <<ErrorResponse(n)>> /\ at = "over"
      BY <1>2, <1>4, <1>5, <2>2 DEF GoesOn
    <3>2. PICK answer : answer = ErrorResponse(n)
      OBVIOUS
    <3>3. outbox'[c] = <<[via |-> "error", of |-> answer]>>
      BY <1>2, <1>4, <1>5, <2>2, <3>1, <3>2
    <3>4. Writable(c, answer)'
      BY <3>1, <3>2, ErrorWritable DEF Writable
    <3>5. DOMAIN runs'[c] = {1}
      BY <1>1, <1>2, <1>5
    <3>6. Quiet(c)'
      BY <1>1, <1>2, <1>5, <3>1, <3>5 DEF Quiet, Over
    <3>7. Head(outbox'[c]).of = answer /\ outbox'[c] = <<Head(outbox'[c])>>
      BY <3>3
    <3> QED BY <3>4, <3>6, <3>7
  <2>3. Len(runs'[c]) <= 1
    BY <1>1, <2>1
  <2> QED BY <2>1, <2>2, <2>3, Zenon DEF CallOK
<1>6. /\ UNCHANGED <<scenario, handle, listens, attached, handlers, closers, effects, logs>>
      /\ live' = live /\ stage' \in [Calls -> Stages] /\ live \in [Servers -> SUBSET Pipelines]
  BY DEF servers, Inv, HttpInv, HttpTypes
<1> QED BY <1>1, <1>2, <1>4, <1>5, <1>6 DEF CallStep

\* An upload is refused with a status of an error. (multipart$)
LEMMA PartRefusals ==
    ASSUME NEW options, NEW parts, NEW n, NEW refusals, refusals = PartRefused(options, parts, n)
    PROVE  \A refusal \in refusals : refusal.status \in {412, 500}
BY DEF PartRefused

LEMMA FileRefusals ==
    ASSUME NEW options, NEW part, NEW refusals, refusals = FileRefused(options, part)
    PROVE  \A refusal \in refusals : refusal.status \in {412, 500}
BY DEF FileRefused

LEMMA CollectedIsStep ==
    ASSUME Inv, NEW c \in Calls, NEW i, Collected(c, i)
    PROVE  CallStep(c)
<1>1. /\ i \in DOMAIN runs[c] /\ runs[c][i].at \in {"parsing", "uploading"}
      /\ stage' = stage /\ UNCHANGED <<scenario, servers>>
  BY DEF Collected
<1>2. PICK parsed : parsed = ParseBody(GetContentType(Call(c).headers),
                                       Requested(Call(c).headers, Call(c).body))
  OBVIOUS
<1>3. PICK next : next = Onward(c, parsed)
  OBVIOUS
<1>4. \/ Moves(c, i, "over") /\ Emit(c, "error", <<ErrorResponse(400)>>, request[c].meta)
      \/ Moves(c, i, "stuck") /\ outbox' = outbox
      \/ Moves(c, i, next.at) /\ Emit(c, "error", next.errors, next.meta)
  <2>1. \/ /\ runs' = [runs EXCEPT ![c][i].at = "over"]
           /\ Emit(c, "error", <<ErrorResponse(400)>>, request[c].meta)
        \/ runs' = [runs EXCEPT ![c][i].at = "stuck"] /\ outbox' = outbox
        \/ /\ runs' = [Spared(c, next.errors) EXCEPT ![c][i].at = next.at]
           /\ Emit(c, "error", next.errors, next.meta)
    BY <1>2, <1>3, Zenon DEF Collected
  <2>2. runs' = [Spared(c, next.errors) EXCEPT ![c][i].at = next.at] => Moves(c, i, next.at)
    BY Zenon DEF Moves
  <2> QED BY <2>1, <2>2, MovesAlone, Zenon
<1>5. GoesOn("stuck", <<>>) /\ GoesOn("over", <<ErrorResponse(400)>>) /\ GoesOn(next.at, next.errors)
  <2>1. \E n \in Nat : n >= 400 /\ <<ErrorResponse(400)>> = <<ErrorResponse(n)>>
    <3>1. 400 \in Nat /\ 400 >= 400
      OBVIOUS
    <3> QED BY <3>1, Zenon
  <2> QED BY <2>1, <1>3, Proceeding, Zenon DEF GoesOn, Places, Over
<1>6. CASE Moves(c, i, "over") /\ Emit(c, "error", <<ErrorResponse(400)>>, request[c].meta)
  BY <1>1, <1>5, <1>6, MoveIsStep
<1>7. CASE Moves(c, i, "stuck") /\ outbox' = outbox
  BY <1>1, <1>5, <1>7, MoveIsStep
<1>8. CASE Moves(c, i, next.at) /\ Emit(c, "error", next.errors, next.meta)
  BY <1>1, <1>5, <1>8, MoveIsStep
<1> QED BY <1>4, <1>6, <1>7, <1>8

\* What only takes note of something keeps the promises of the call.
LEMMA NotingIsStep ==
    ASSUME Inv, NEW c \in Calls, UNCHANGED <<scenario, servers, stage, runs, outbox>>
    PROVE  CallStep(c)
<1>1. \A d \in Calls : Spares(d, runs'[d])
  BY DEF Spares, Inv, HttpInv, HttpTypes
<1>2. To(c) \in Servers
  BY ScenarioAssumption DEF Inv, HttpInv, HttpTypes, To, Call
<1>3. Sane(To(c)) => CallOK(c)'
  <2>1. CallOK(c)' = CallOK(c)
    BY DEF CallOK, Quiet, Writable, Call, Config, To
  <2> QED BY <1>2, <2>1 DEF Inv, HttpInv, StreamOK
<1>4. /\ UNCHANGED <<scenario, handle, listens, attached, handlers, closers, effects, logs>>
      /\ live' = live /\ stage' \in [Calls -> Stages] /\ live \in [Servers -> SUBSET Pipelines]
      /\ runs' \in [Calls -> Seq(Runs)] /\ DOMAIN outbox' = Calls
  BY DEF servers, Inv, HttpInv, HttpTypes
<1>5. /\ stage[c] = "idle" => runs[c] = <<>>
      /\ stage[c] = "open" /\ ~attached[To(c)] => runs[c] = <<>>
  BY <1>2 DEF Inv, HttpInv, IdleOK, StreamOK
<1> QED BY <1>1, <1>3, <1>4, <1>5 DEF CallStep

LEMMA UploadingIsStep ==
    ASSUME Inv, NEW c \in Calls, NEW i \in DOMAIN runs[c], runs[c][i].at = "uploading",
           NEW refusals, \A refusal \in refusals : refusal.status \in {412, 500}, NEW upload,
           Uploading(c, i, refusals, upload)
    PROVE  CallStep(c)
<1>1. /\ i \in DOMAIN runs[c] /\ runs[c][i].at \in {"parsing", "uploading"}
      /\ stage' = stage /\ UNCHANGED <<scenario, servers>>
  BY DEF Uploading
<1>2. CASE refusals = {}
  <2>1. UNCHANGED <<scenario, servers, stage, runs, outbox>>
    BY <1>2 DEF Uploading
  <2> QED BY <2>1, NotingIsStep
<1>3. CASE refusals # {}
  <2>1. PICK refusal \in refusals : Refuse(c, i, refusal)
    BY <1>3 DEF Uploading
  <2>2. PICK n \in Nat : n = refusal.status /\ n >= 400
    BY <2>1
  <2>3. PICK errors : errors = <<ErrorResponse(n)>>
    OBVIOUS
  <2>4. PICK known \in BOOLEAN : known <=> refusal.bound \/ ~Config(To(c)).continuous
    OBVIOUS
  <2>5. CASE known
    <3>1. runs' = [Spared(c, errors) EXCEPT ![c][i].at = "over"] /\ Emit(c, "error", errors, request[c].meta)
      BY <2>1, <2>2, <2>3, <2>4, <2>5, Zenon DEF Refuse
    <3>2. GoesOn("over", errors)
      BY <2>2, <2>3 DEF GoesOn, Places, Over
    <3>3. Moves(c, i, "over")
      BY <3>1, Zenon DEF Moves
    <3> QED BY <1>1, <3>1, <3>2, <3>3, MoveIsStep
  <2>6. CASE ~known
    <3>1. runs' = [Spared(c, errors) EXCEPT ![c][i].at = "unbound"] /\ outbox' = outbox
      BY <2>1, <2>2, <2>3, <2>4, <2>6, Zenon DEF Refuse
    <3>2. GoesOn("unbound", <<>>)
      BY DEF GoesOn, Places, Over
    <3>3. Moves(c, i, "unbound")
      BY <3>1, Zenon DEF Moves
    <3> QED BY <1>1, <3>1, <3>2, <3>3, MoveIsStep
  <2> QED BY <2>5, <2>6
<1> QED BY <1>2, <1>3

LEMMA MultipartsIsStep ==
    ASSUME Inv, NEW c \in Calls, NEW i \in DOMAIN runs[c], Multiparts(c, i)
    PROVE  CallStep(c)
<1>1. ASSUME ReadPart(c, i) PROVE CallStep(c)
  <2>1. PICK refusals, upload, n :
           /\ runs[c][i].at = "uploading" /\ Uploading(c, i, refusals, upload)
           /\ refusals = PartRefused(Config(To(c)).multipart, Call(c).parts, n)
    BY <1>1, Zenon DEF ReadPart
  <2>2. \A refusal \in refusals : refusal.status \in {412, 500}
    BY <2>1, PartRefusals
  <2> QED BY <2>1, <2>2, UploadingIsStep
<1>2. ASSUME NEW n, EndFile(c, i, n) PROVE CallStep(c)
  <2>1. PICK refusals, upload :
           /\ runs[c][i].at = "uploading" /\ Uploading(c, i, refusals, upload)
           /\ refusals = FileRefused(Config(To(c)).multipart, Call(c).parts[n])
    BY <1>2, Zenon DEF EndFile
  <2>2. \A refusal \in refusals : refusal.status \in {412, 500}
    BY <2>1, FileRefusals
  <2> QED BY <2>1, <2>2, UploadingIsStep
<1>3. ASSUME FormRead(c, i) PROVE CallStep(c)
  <2>1. PICK next :
           /\ next = Enter(c, FormBody(request[c].body, request[c].upload))
           /\ runs[c][i].at = "uploading"
           /\ runs' = [Spared(c, next.errors) EXCEPT ![c][i].at = next.at]
           /\ Emit(c, "error", next.errors, next.meta)
           /\ UNCHANGED <<scenario, servers, stage>>
    BY <1>3, Zenon DEF FormRead
  <2>2. Moves(c, i, next.at)
    BY <2>1, Zenon DEF Moves
  <2>3. GoesOn(next.at, next.errors)
    BY <2>1, Proceeding, Zenon
  <2>4. runs[c][i].at \in {"parsing", "uploading"} /\ stage' = stage /\ UNCHANGED <<scenario, servers>>
    BY <2>1
  <2> QED BY <2>1, <2>2, <2>3, <2>4, MoveIsStep
<1> QED BY <1>1, <1>2, <1>3 DEF Multiparts

\* The answer of an effect that answers once, with what can be written, is the last word.
LEMMA AnswerIsStep ==
    ASSUME Inv, NEW c \in Calls, NEW i, Answer(c, i)
    PROVE  CallStep(c)
<1>1. /\ i \in DOMAIN runs[c] /\ runs[c][i].at = "working" /\ runs[c][i].said < Len(Call(c).answers)
      /\ runs' = [runs EXCEPT ![c][i].said = @ + 1]
      /\ stage' = stage /\ UNCHANGED <<scenario, servers>>
  BY DEF Answer
<1>2. PICK run \in Runs : run = runs[c][i]
  BY <1>1 DEF Inv, HttpInv, HttpTypes
<1>3. PICK more : more = [run EXCEPT !.said = @ + 1]
  OBVIOUS
<1>4. more \in Runs /\ more.at = run.at /\ more.said > 0
  BY <1>3 DEF Runs
<1>5. PICK left : left = [runs[c] EXCEPT ![i] = more]
  OBVIOUS
<1>6. left \in Seq(Runs) /\ Len(left) = Len(runs[c]) /\ DOMAIN left = DOMAIN runs[c] /\ left[i] = more
  BY <1>1, <1>4, <1>5 DEF Inv, HttpInv, HttpTypes
<1>7. runs' = [runs EXCEPT ![c] = left]
  BY <1>1, <1>2, <1>3, <1>5
<1>8. runs' \in [Calls -> Seq(Runs)] /\ runs'[c] = left /\ \A d \in Calls \ {c} : Spares(d, runs'[d])
  BY <1>6, <1>7 DEF Inv, HttpInv, HttpTypes, Spares
<1>9. PICK said : said = <<Call(c).answers[runs[c][i].said + 1]>>
  OBVIOUS
<1>10. Emit(c, "output", said, request[c].meta)
  BY <1>9 DEF Answer
<1>11. AtMostOne(said)
  BY <1>9 DEF AtMostOne
<1>12. /\ DOMAIN outbox' = Calls /\ \A d \in Calls \ {c} : outbox'[d] = outbox[d]
       /\ outbox[c] = <<>> =>
             outbox'[c] = <<>> \/ outbox'[c] = <<[via |-> "output", of |-> Head(said)]>>
  BY <1>10, <1>11, Emission DEF Inv, HttpInv, HttpTypes
<1>13. To(c) \in Servers
  BY ScenarioAssumption DEF Inv, HttpInv, HttpTypes, To, Call
<1>14. ASSUME Sane(To(c)) PROVE CallOK(c)'
  <2>1. AnswersOnce(c)
    BY <1>14 DEF Sane
  <2>2. run.said = 0
    BY <1>1, <1>2, <2>1 DEF AnswersOnce, Runs
  <2>3. i = 1 /\ Len(runs[c]) = 1 /\ stage[c] = "open" /\ outbox[c] = <<>>
    BY <1>1, <1>2, <1>14, <2>2, WorkedOn
  <2>4. Len(left) = 1 /\ DOMAIN left = {1}
    BY <1>1, <1>6, <2>3
  <2>5. Len(left) <= 1
    BY <1>6, <2>4
  <2>6. Len(runs'[c]) <= 1 /\ stage'[c] = "open" /\ DOMAIN runs'[c] = {1}
    BY <1>1, <1>8, <2>3, <2>4, <2>5, Zenon
  <2>7. Quiet(c)'
    BY <1>1, <1>2, <1>4, <1>6, <1>8, <2>3, <2>6 DEF Quiet
  <2>8. PICK answer : answer = Call(c).answers[1]
    OBVIOUS
  <2>9. said = <<answer>>
    BY <1>2, <1>9, <2>2, <2>8
  <2>10. Writable(c, answer)'
    BY <1>1, <2>1, <2>8, SettingIsConstant DEF AnswersOnce, Writable
  <2>11. outbox'[c] = <<>> \/ outbox'[c] = <<[via |-> "output", of |-> answer]>>
    BY <1>12, <2>3, <2>9
  <2>12. outbox'[c] # <<>> => outbox'[c] = <<Head(outbox'[c])>> /\ Head(outbox'[c]).of = answer
    BY <2>11
  <2> QED BY <2>6, <2>7, <2>10, <2>12, Zenon DEF CallOK
<1>15. /\ UNCHANGED <<scenario, handle, listens, attached, handlers, closers, effects, logs>>
       /\ live' = live /\ stage' \in [Calls -> Stages] /\ live \in [Servers -> SUBSET Pipelines]
  BY <1>1 DEF servers, Inv, HttpInv, HttpTypes
<1>16. stage[c] # "idle" /\ (stage[c] = "open" => attached[To(c)])
  <2>1. runs[c] # <<>>
    BY <1>1
  <2> QED BY <1>13, <2>1 DEF Inv, HttpInv, IdleOK, StreamOK
<1> QED BY <1>1, <1>8, <1>12, <1>14, <1>15, <1>16 DEF CallStep

\* A step of a response changes no run.
LEMMA RunsStay ==
    ASSUME Inv, NEW c \in Calls, runs' = runs
    PROVE  /\ runs' \in [Calls -> Seq(Runs)] /\ \A d \in Calls \ {c} : Spares(d, runs'[d])
           /\ Quiet(c)' = Quiet(c) /\ To(c) \in Servers
BY ScenarioAssumption DEF Inv, HttpInv, HttpTypes, Spares, Quiet, To, Call

\* What a sane server writes ends the response and leaves nothing to write; otherwise a stream of
\* its router may end. (handleResponse)
LEMMA WriteIsStep ==
    ASSUME Inv, NEW c \in Calls, Write(c)
    PROVE  CallStep(c)
<1>1. outbox[c] # <<>> /\ outbox' = [outbox EXCEPT ![c] = Tail(@)]
      /\ UNCHANGED <<scenario, handle, listens, attached, handlers, closers, effects, logs, runs>>
  BY DEF Write
<1>2. /\ runs' \in [Calls -> Seq(Runs)] /\ \A d \in Calls \ {c} : Spares(d, runs'[d])
      /\ Quiet(c)' = Quiet(c) /\ To(c) \in Servers
  BY <1>1, RunsStay
<1>3. PICK sent : sent = Head(outbox[c])
  OBVIOUS
<1>4. \/ /\ stage[c] # "open" \/ ~Writable(c, sent.of)
         /\ live' = [live EXCEPT ![To(c)] = @ \ {sent.via}]
         /\ stage' = [stage EXCEPT ![c] = IF @ = "open" THEN "cut" ELSE @]
      \/ /\ stage[c] = "open" /\ live' = live
         /\ stage' = [stage EXCEPT ![c] = "ended"]
  BY <1>3, Zenon DEF Write, Writable
<1>5. ASSUME Sane(To(c)) PROVE live' = live /\ CallOK(c)'
  <2>1. CallOK(c)
    BY <1>2, <1>5 DEF Inv, HttpInv, StreamOK
  <2>2. /\ stage[c] = "open" /\ Quiet(c) /\ Writable(c, sent.of)
        /\ outbox[c] = <<sent>> /\ Len(runs[c]) <= 1
    BY <1>1, <1>3, <2>1 DEF CallOK
  <2>3. live' = live /\ stage' = [stage EXCEPT ![c] = "ended"]
    BY <1>4, <2>2
  <2>4. outbox'[c] = <<>>
    BY <1>1, <2>2 DEF Inv, HttpInv, HttpTypes
  <2> QED BY <1>1, <1>2, <2>2, <2>3, <2>4 DEF CallOK
<1>6. /\ stage' \in [Calls -> Stages] /\ \A d \in Calls \ {c} : stage'[d] = stage[d]
      /\ live' \in [Servers -> SUBSET Pipelines] /\ \A s \in Servers \ {To(c)} : live'[s] = live[s]
      /\ stage'[c] # "open" /\ (stage'[c] = "idle" => stage[c] = "idle")
      /\ stage'[c] \in {"open", "cut", "ended"} => stage[c] \in {"open", "cut", "ended"}
  <2>1. stage \in [Calls -> Stages] /\ live \in [Servers -> SUBSET Pipelines]
    BY DEF Inv, HttpInv, HttpTypes
  <2>2. CASE /\ live' = [live EXCEPT ![To(c)] = @ \ {sent.via}]
             /\ stage' = [stage EXCEPT ![c] = IF @ = "open" THEN "cut" ELSE @]
    BY <2>1, <2>2, <1>2 DEF Stages
  <2>3. CASE /\ stage[c] = "open" /\ live' = live
             /\ stage' = [stage EXCEPT ![c] = "ended"]
    BY <2>1, <2>3, <1>2 DEF Stages
  <2> QED BY <1>4, <2>2, <2>3
<1>7. DOMAIN outbox' = Calls /\ \A d \in Calls \ {c} : outbox'[d] = outbox[d]
  BY <1>1 DEF Inv, HttpInv, HttpTypes
<1>8. stage[c] = "idle" => runs[c] = <<>>
  BY DEF Inv, HttpInv, IdleOK
<1> QED BY <1>1, <1>2, <1>5, <1>6, <1>7, <1>8 DEF CallStep

\* The end of a request at its client.
LEMMA ReadIsStep ==
    ASSUME Inv, NEW c \in Calls, Received(c) \/ Misread(c)
    PROVE  CallStep(c)
<1>1. /\ stage[c] = "ended" /\ stage' = [stage EXCEPT ![c] = "settled"]
      /\ UNCHANGED <<scenario, servers, runs, outbox>>
  BY DEF Received, Misread
<1>2. /\ runs' \in [Calls -> Seq(Runs)] /\ \A d \in Calls \ {c} : Spares(d, runs'[d])
      /\ Quiet(c)' = Quiet(c) /\ To(c) \in Servers
  BY <1>1, RunsStay
<1>3. /\ stage' \in [Calls -> Stages] /\ stage'[c] = "settled"
      /\ \A d \in Calls \ {c} : stage'[d] = stage[d]
  BY <1>1 DEF Inv, HttpInv, HttpTypes, Stages
<1>4. ASSUME Sane(To(c)) PROVE CallOK(c)'
  <2>1. CallOK(c)
    BY <1>2, <1>4 DEF Inv, HttpInv, StreamOK
  <2>2. Quiet(c) /\ outbox[c] = <<>> /\ Len(runs[c]) <= 1
    BY <1>1, <2>1 DEF CallOK
  <2> QED BY <1>1, <1>2, <2>2 DEF CallOK
<1>5. /\ UNCHANGED <<scenario, handle, listens, attached, handlers, closers, effects, logs>>
      /\ live' = live /\ live \in [Servers -> SUBSET Pipelines] /\ outbox' = outbox /\ DOMAIN outbox' = Calls
  BY <1>1 DEF servers, Inv, HttpInv, HttpTypes
<1> QED BY <1>2, <1>3, <1>4, <1>5 DEF CallStep

\* As many runs as the server has handlers.
LEMMA Copying ==
    ASSUME Inv, NEW c \in Calls, NEW x
    PROVE  /\ To(c) \in Servers /\ DOMAIN Copies(c, x) = 1..handlers[To(c)]
           /\ \A i \in DOMAIN Copies(c, x) : Copies(c, x)[i] = x
           /\ x \in Runs => Copies(c, x) \in Seq(Runs)
           /\ handle[To(c)] = "open" /\ Sane(To(c)) => AtMostOne(Copies(c, x)) /\ Len(Copies(c, x)) <= 1
<1>1. To(c) \in Servers
  BY ScenarioAssumption DEF Inv, HttpInv, HttpTypes, To, Call
<1>2. PICK n \in Nat : n = handlers[To(c)]
  BY <1>1 DEF Inv, HttpInv, HttpTypes
<1>3. PICK copies : copies = Copies(c, x)
  OBVIOUS
<1>4. copies = [i \in 1..n |-> x]
  BY <1>2, <1>3 DEF Copies
<1>5. ASSUME handle[To(c)] = "open", Sane(To(c)) PROVE AtMostOne(copies) /\ Len(copies) <= 1
  <2>1. n <= 1
    BY <1>1, <1>2, <1>5 DEF Inv, HttpInv, ListenOK, Sane
  <2>2. CASE n = 0
    <3>1. copies = <<>>
      BY <1>4, <2>2
    <3> QED BY <3>1 DEF AtMostOne
  <2>3. CASE n = 1
    <3>1. copies = <<x>>
      BY <1>4, <2>3
    <3> QED BY <3>1 DEF AtMostOne
  <2> QED BY <2>1, <2>2, <2>3
<1>6. x \in Runs => copies \in Seq(Runs)
  BY <1>4
<1>7. DOMAIN copies = 1..n /\ \A i \in DOMAIN copies : copies[i] = x
  BY <1>4
<1> QED BY <1>1, <1>2, <1>3, <1>5, <1>6, <1>7

\* A call before it is made.
LEMMA Idle ==
    ASSUME Inv, NEW c \in Calls, stage[c] = "idle"
    PROVE  /\ To(c) \in Servers /\ runs[c] = <<>> /\ Len(runs[c]) <= 1 /\ Quiet(c)
           /\ Sane(To(c)) => outbox[c] = <<>>
<1>1. To(c) \in Servers
  BY ScenarioAssumption DEF Inv, HttpInv, HttpTypes, To, Call
<1>2. runs[c] = <<>> /\ Len(runs[c]) = 0 /\ DOMAIN runs[c] = {}
  BY DEF Inv, HttpInv, IdleOK
<1>3. Quiet(c) /\ Len(runs[c]) <= 1
  BY <1>2 DEF Quiet
<1>4. Sane(To(c)) => outbox[c] = <<>>
  BY <1>1 DEF Inv, HttpInv, StreamOK, CallOK
<1> QED BY <1>1, <1>2, <1>3, <1>4

\* What the listener does not resolve has no runs, and is answered at most once.
LEMMA UnroutedIsStep ==
    ASSUME Inv, NEW c \in Calls, stage[c] = "idle", NEW next \in {"open", "ended", "settled"},
           stage' = [stage EXCEPT ![c] = next], UNCHANGED <<scenario, servers, runs>>,
           next \in {"open", "ended"} => handle[To(c)] = "open",
           \/ outbox' = outbox
           \/ next = "open" /\ Emit(c, "error", Copies(c, ErrorResponse(400)), None)
    PROVE  CallStep(c)
<1>1. /\ runs' \in [Calls -> Seq(Runs)] /\ \A d \in Calls \ {c} : Spares(d, runs'[d])
      /\ Quiet(c)' = Quiet(c) /\ To(c) \in Servers
  BY RunsStay
<1>2. /\ stage' \in [Calls -> Stages] /\ stage'[c] = next /\ \A d \in Calls \ {c} : stage'[d] = stage[d]
  BY DEF Inv, HttpInv, HttpTypes, Stages
<1>3. PICK responses : responses = Copies(c, ErrorResponse(400))
  OBVIOUS
<1>4. PICK answer : answer = ErrorResponse(400)
  OBVIOUS
<1>5. /\ DOMAIN outbox' = Calls /\ \A d \in Calls \ {c} : outbox'[d] = outbox[d]
      /\ outbox[c] = <<>> /\ AtMostOne(responses) =>
            \/ outbox'[c] = <<>>
            \/ /\ responses # <<>> /\ next = "open"
               /\ outbox'[c] = <<[via |-> "error", of |-> Head(responses)]>>
  <2>1. CASE outbox' = outbox
    BY <2>1 DEF Inv, HttpInv, HttpTypes
  <2>2. CASE next = "open" /\ Emit(c, "error", responses, None)
    BY <2>2, Emission DEF Inv, HttpInv, HttpTypes
  <2> QED BY <1>3, <2>1, <2>2
<1>6. runs[c] = <<>> /\ Len(runs[c]) <= 1 /\ Quiet(c) /\ (Sane(To(c)) => outbox[c] = <<>>)
  BY Idle
<1>7. ASSUME Sane(To(c)) PROVE CallOK(c)'
  <2>1. ASSUME outbox'[c] # <<>>
        PROVE  next = "open" /\ outbox'[c] = <<Head(outbox'[c])>> /\ Writable(c, Head(outbox[c]).of)'
    <3>1. next = "open" \/ outbox' = outbox
      OBVIOUS
    <3>2. next = "open" /\ handle[To(c)] = "open"
      BY <1>6, <1>7, <2>1, <3>1
    <3>3. AtMostOne(responses) /\ \A i \in DOMAIN responses : responses[i] = answer
      BY <1>3, <1>4, <1>7, <3>2, Copying
    <3>4. responses # <<>> /\ outbox'[c] = <<[via |-> "error", of |-> Head(responses)]>>
      BY <1>5, <1>6, <1>7, <2>1, <3>3
    <3>5. responses = <<Head(responses)>>
      BY <3>3, <3>4 DEF AtMostOne
    <3>6. Head(responses) = answer
      BY <3>3, <3>5
    <3>7. outbox'[c] = <<Head(outbox'[c])>> /\ Head(outbox'[c]).of = answer
      BY <3>4, <3>6
    <3>8. 400 \in Nat /\ 400 >= 400
      OBVIOUS
    <3>9. Writable(c, answer)'
      BY <1>4, <3>8, ErrorWritable DEF Writable
    <3> QED BY <3>2, <3>7, <3>9
  <2>2. Quiet(c)' /\ Len(runs'[c]) <= 1
    BY <1>1, <1>6
  <2> QED BY <1>2, <2>1, <2>2, Zenon DEF CallOK
<1>8. /\ UNCHANGED <<scenario, handle, listens, attached, handlers, closers, effects, logs>>
      /\ live' = live /\ live \in [Servers -> SUBSET Pipelines]
  BY DEF servers, Inv, HttpInv, HttpTypes
<1> QED BY <1>1, <1>2, <1>5, <1>6, <1>7, <1>8 DEF CallStep

\* What it resolves has one run for every handler, and an error ends them.
LEMMA DispatchedIsStep ==
    ASSUME Inv, NEW c \in Calls, stage[c] = "idle", handle[To(c)] = "open", attached[To(c)],
           UNCHANGED <<scenario, servers>>, Dispatched(c)
    PROVE  CallStep(c)
<1>1. To(c) \in Servers /\ (Sane(To(c)) => outbox[c] = <<>>)
  BY Idle
<1>2. stage' = [stage EXCEPT ![c] = "open"]
  BY DEF Dispatched
<1>3. /\ stage' \in [Calls -> Stages] /\ stage'[c] = "open" /\ \A d \in Calls \ {c} : stage'[d] = stage[d]
  BY <1>2 DEF Inv, HttpInv, HttpTypes, Stages
<1>4. PICK run, errors, meta, aside :
        /\ run \in Runs /\ GoesOn(run.at, errors)
        /\ runs' = [Spared(c, aside) EXCEPT ![c] = Copies(c, run)]
        /\ outbox' = outbox \/ Emit(c, "error", errors, meta)
  <2>1. PICK parsers \in Nat : parsers = Config(To(c)).parsers
    BY <1>1, ScenarioAssumption DEF Inv, HttpInv, HttpTypes, Config
  <2>2. PICK next : next = Onward(c, Undefined)
    OBVIOUS
  <2>3. PICK parsing : parsing = [at |-> "parsing", left |-> parsers, said |-> 0]
    OBVIOUS
  <2>4. PICK going : going = [at |-> next.at, left |-> 0, said |-> 0]
    OBVIOUS
  <2>5. \/ runs' = [runs EXCEPT ![c] = Copies(c, parsing)] /\ outbox' = outbox
        \/ /\ runs' = [Spared(c, next.errors) EXCEPT ![c] = Copies(c, going)]
           /\ Emit(c, "error", next.errors, next.meta)
    BY <2>1, <2>2, <2>3, <2>4, Zenon DEF Dispatched
  <2>6. GoesOn(next.at, next.errors) /\ GoesOn("parsing", <<>>)
    <3>1. GoesOn("parsing", <<>>)
      BY DEF GoesOn, Places
    <3> QED BY <2>2, <3>1, Proceeding, Zenon
  <2>7. next.at \in Places
    BY <2>6 DEF GoesOn
  <2>8. parsing \in Runs /\ parsing.at = "parsing" /\ going \in Runs /\ going.at = next.at
    BY <2>1, <2>3, <2>4, <2>7 DEF Runs, Places
  <2>9. Spared(c, <<>>) = runs
    BY DEF Spared
  <2>10. CASE runs' = [runs EXCEPT ![c] = Copies(c, parsing)] /\ outbox' = outbox
    BY <2>6, <2>8, <2>9, <2>10, Zenon
  <2>11. CASE /\ runs' = [Spared(c, next.errors) EXCEPT ![c] = Copies(c, going)]
              /\ Emit(c, "error", next.errors, next.meta)
    BY <2>6, <2>8, <2>11, Zenon
  <2> QED BY <2>5, <2>10, <2>11
<1>5. PICK base, copies : base = Spared(c, aside) /\ copies = Copies(c, run)
  OBVIOUS
<1>6. base \in [Calls -> Seq(Runs)] /\ \A d \in Calls : Spares(d, base[d])
  BY <1>5, Sparing DEF Inv, HttpInv, HttpTypes
<1>7. /\ copies \in Seq(Runs) /\ \A i \in DOMAIN copies : copies[i] = run
      /\ Sane(To(c)) => Len(copies) <= 1
  BY <1>4, <1>5, Copying
<1>8. runs' = [base EXCEPT ![c] = copies]
  BY <1>4, <1>5
<1>9. /\ runs' \in [Calls -> Seq(Runs)] /\ runs'[c] = copies /\ \A d \in Calls \ {c} : Spares(d, runs'[d])
  BY <1>6, <1>7, <1>8
<1>10. AtMostOne(errors)
  BY <1>4 DEF GoesOn, AtMostOne
<1>11. /\ DOMAIN outbox' = Calls /\ \A d \in Calls \ {c} : outbox'[d] = outbox[d]
       /\ outbox[c] = <<>> =>
             \/ outbox'[c] = <<>>
             \/ errors # <<>> /\ outbox'[c] = <<[via |-> "error", of |-> Head(errors)]>>
  BY <1>4, <1>10, Emission DEF Inv, HttpInv, HttpTypes
<1>12. ASSUME Sane(To(c)) PROVE CallOK(c)'
  <2>1. ASSUME outbox'[c] # <<>>
        PROVE  /\ outbox'[c] = <<Head(outbox'[c])>> /\ Quiet(c)' /\ Writable(c, Head(outbox[c]).of)'
    <3>1. PICK n \in Nat : n >= 400 /\ errors = <<ErrorResponse(n)>> /\ run.at = "over"
      BY <1>1, <1>4, <1>11, <1>12, <2>1 DEF GoesOn
    <3>2. PICK answer : answer = ErrorResponse(n)
      OBVIOUS
    <3>3. outbox'[c] = <<[via |-> "error", of |-> answer]>>
      BY <1>1, <1>11, <1>12, <2>1, <3>1, <3>2
    <3>4. Writable(c, answer)'
      BY <3>1, <3>2, ErrorWritable DEF Writable
    <3>5. Quiet(c)'
      BY <1>7, <1>9, <3>1 DEF Quiet, Over
    <3>6. Head(outbox'[c]).of = answer /\ outbox'[c] = <<Head(outbox'[c])>>
      BY <3>3
    <3> QED BY <3>4, <3>5, <3>6
  <2>2. Len(runs'[c]) <= 1
    BY <1>7, <1>9, <1>12
  <2> QED BY <1>3, <2>1, <2>2, Zenon DEF CallOK
<1>13. /\ UNCHANGED <<scenario, handle, listens, attached, handlers, closers, effects, logs>>
       /\ live' = live /\ live \in [Servers -> SUBSET Pipelines]
  BY DEF servers, Inv, HttpInv, HttpTypes
<1> QED BY <1>3, <1>9, <1>11, <1>12, <1>13 DEF CallStep

LEMMA SendIsStep ==
    ASSUME Inv, NEW c \in Calls, Send(c)
    PROVE  CallStep(c)
<1>1. stage[c] = "idle" /\ UNCHANGED <<scenario, servers>>
  BY DEF Send
<1>2. PICK bytes : bytes = Requested(Call(c).headers, Call(c).body)
  OBVIOUS
<1>3. \/ stage' = [stage EXCEPT ![c] = "settled"] /\ UNCHANGED <<runs, outbox>>
      \/ /\ handle[To(c)] = "open"
         /\ Deaf(c) \/ Malformed(c) \/ PreflightAnswered(c) \/ (attached[To(c)] /\ Dispatched(c))
  BY <1>2, Zenon DEF Send
<1>4. CASE stage' = [stage EXCEPT ![c] = "settled"] /\ UNCHANGED <<runs, outbox>>
  BY <1>1, <1>4, UnroutedIsStep
<1>5. CASE handle[To(c)] = "open" /\ Deaf(c)
  BY <1>1, <1>5, UnroutedIsStep DEF Deaf
<1>6. CASE handle[To(c)] = "open" /\ Malformed(c)
  BY <1>1, <1>6, UnroutedIsStep DEF Malformed
<1>7. CASE handle[To(c)] = "open" /\ PreflightAnswered(c)
  BY <1>1, <1>7, UnroutedIsStep DEF PreflightAnswered
<1>8. CASE handle[To(c)] = "open" /\ attached[To(c)] /\ Dispatched(c)
  BY <1>1, <1>8, DispatchedIsStep
<1> QED BY <1>3, <1>4, <1>5, <1>6, <1>7, <1>8

\* Whatever a client and its request do.
LEMMA ClientKeeps ==
    ASSUME Inv, NEW c \in Calls, Client(c)
    PROVE  Inv'
<1>1. CallStep(c)
  BY SendIsStep, CollectedIsStep, MultipartsIsStep, AnswerIsStep, WriteIsStep, ReadIsStep
     DEF Client, Work
<1>2. UNCHANGED bedVars
  BY DEF Client
<1> QED BY <1>1, <1>2, CallStepKeeps

------------------------------------------------------------------------------
(* The servers.                                                               *)

\* Nothing happens to the servers.
LEMMA HttpStays ==
    ASSUME HttpInv, UNCHANGED httpVars
    PROVE  HttpInv'
<1>1. UNCHANGED <<scenario, handle, listens, attached, handlers, live, closers, effects, logs, stage, runs, outbox>>
  BY DEF httpVars, servers, calls
<1>2. HttpTypes' /\ IdleOK'
  BY <1>1 DEF HttpInv, HttpTypes, IdleOK
<1>3. ASSUME NEW s \in Servers PROVE ListenOK(s)' /\ LogOK(s)' /\ StreamOK(s)'
  <2>1. ListenOK(s)'
    BY <1>1 DEF HttpInv, ListenOK, Started, Relistened
  <2>2. LogOK(s)'
    BY <1>1 DEF HttpInv, LogOK, Config
  <2>3. Sane(s)' = Sane(s)
    BY <1>1 DEF Sane, Relistened, To, Call, AnswersOnce, Config
  <2>4. \A c \in Calls : CallOK(c)' = CallOK(c) /\ To(c)' = To(c)
    BY <1>1 DEF CallOK, Quiet, Writable, Call, Config, To
  <2>5. StreamOK(s)'
    BY <1>1, <2>3, <2>4 DEF HttpInv, StreamOK
  <2> QED BY <2>1, <2>2, <2>5
<1> QED BY <1>2, <1>3 DEF HttpInv

\* What a step of a server may change, and what it leaves true of that server.
ServerStep(s) ==
    /\ UNCHANGED <<scenario, calls>>
    /\ HttpTypes'
    /\ \A t \in Servers \ {s} :
          /\ handle'[t] = handle[t] /\ listens'[t] = listens[t] /\ handlers'[t] = handlers[t]
          /\ attached'[t] = attached[t] /\ live'[t] = live[t] /\ closers'[t] = closers[t]
          /\ effects'[t] = effects[t] /\ logs'[t] = logs[t]
    /\ ListenOK(s)' /\ LogOK(s)'
    /\ attached'[s] => attached[s] /\ live'[s] = live[s]
    /\ Relistened(s) => Relistened(s)'
    /\ ~attached'[s] => ~attached[s] \/ ~Connected(s)

LEMMA ServerStepKeeps ==
    ASSUME HttpInv, NEW s \in Servers, ServerStep(s)
    PROVE  HttpInv'
<1>1. UNCHANGED <<scenario, stage, runs, outbox>>
  BY DEF ServerStep, calls
<1>2. HttpTypes' /\ IdleOK'
  BY <1>1 DEF ServerStep, HttpInv, IdleOK
<1>3. ASSUME NEW t \in Servers PROVE ListenOK(t)' /\ LogOK(t)'
  <2>1. CASE t = s
    BY <2>1 DEF ServerStep
  <2>2. CASE t # s
    <3>1. handle'[t] = handle[t] /\ listens'[t] = listens[t] /\ handlers'[t] = handlers[t]
          /\ attached'[t] = attached[t] /\ effects'[t] = effects[t] /\ logs'[t] = logs[t]
      BY <2>2 DEF ServerStep
    <3>2. ListenOK(t)'
      BY <3>1 DEF HttpInv, ListenOK, Started, Relistened
    <3>3. LogOK(t)'
      BY <1>1, <3>1 DEF HttpInv, LogOK, Config
    <3> QED BY <3>2, <3>3
  <2> QED BY <2>1, <2>2
<1>4. ASSUME NEW t \in Servers PROVE StreamOK(t)'
  <2>1. attached'[t] => attached[t] /\ live'[t] = live[t]
    BY DEF ServerStep
  <2>2. Relistened(t) => Relistened(t)'
    <3>1. CASE t = s
      BY <3>1 DEF ServerStep
    <3>2. CASE t # s
      <4>1. listens'[t] = listens[t]
        BY <3>2 DEF ServerStep
      <4> QED BY <4>1 DEF Relistened
    <3> QED BY <3>1, <3>2
  <2>3. \A c \in Calls : CallOK(c)' = CallOK(c) /\ To(c)' = To(c) /\ AnswersOnce(c)' = AnswersOnce(c)
    BY <1>1 DEF CallOK, Quiet, Writable, Call, Config, To, AnswersOnce
  <2>4. Sane(t)' => Sane(t) /\ live'[t] = live[t]
    BY <2>1, <2>2, <2>3 DEF Sane
  <2>5. ASSUME ~attached'[t], NEW c \in Calls, To(c) = t, stage[c] = "open" PROVE runs[c] = <<>>
    <3>1. Connected(t)
      BY <2>5 DEF Connected
    <3>2. ~attached[t]
      BY <2>5, <3>1 DEF ServerStep
    <3> QED BY <2>5, <3>2 DEF HttpInv, StreamOK
  <2> QED BY <1>1, <2>3, <2>4, <2>5 DEF HttpInv, StreamOK
<1> QED BY <1>2, <1>3, <1>4 DEF HttpInv

\* listen: one more promise, and a handler unless it was refused.
LEMMA ListenIsStep ==
    ASSUME HttpInv, NEW s \in Servers, Listen(s), UNCHANGED <<scenario, calls>>
    PROVE  ServerStep(s)
<1>1. UNCHANGED <<scenario, calls, stage, runs, outbox, attached, live, closers, effects, logs>>
  BY DEF Listen, calls
<1>2. PICK h, l, n, m : h = handle[s] /\ l = listens[s] /\ n = Len(l) /\ m = handlers[s]
  OBVIOUS
<1>3. /\ h \in {"none", "open"} /\ l \in Seq({"pending", "resolved", "rejected"}) /\ n \in Nat /\ m \in Nat
      /\ DOMAIN l = 1..n
  BY <1>2 DEF Listen, HttpInv, HttpTypes
<1>4. \A i \in 1..n : l[i] # "pending"
  BY <1>2, <1>3 DEF HttpInv, ListenOK
<1>5. LogOK(s)'
  BY <1>1, SettingIsConstant DEF HttpInv, LogOK
<1>6. CASE h = "open"
  <2>1. UNCHANGED <<handle, handlers>> /\ listens' = [listens EXCEPT ![s] = Append(@, "rejected")]
    BY <1>2, <1>6 DEF Listen
  <2>2. PICK more : more = Append(l, "rejected")
    OBVIOUS
  <2>3. /\ more \in Seq({"pending", "resolved", "rejected"}) /\ Len(more) = n + 1 /\ DOMAIN more = 1..(n + 1)
        /\ \A i \in 1..n : more[i] = l[i]
        /\ more[n + 1] = "rejected"
    BY <1>2, <1>3, <2>2
  <2>4. /\ listens' \in [Servers -> Seq({"pending", "resolved", "rejected"})] /\ listens'[s] = more
        /\ \A t \in Servers \ {s} : listens'[t] = listens[t]
    BY <1>2, <2>1, <2>2, <2>3 DEF HttpInv, HttpTypes
  <2>5. HttpTypes'
    BY <1>1, <2>1, <2>4 DEF HttpInv, HttpTypes
  <2>6. (Started(s) => Started(s)') /\ (Relistened(s) => Relistened(s)')
    BY <1>2, <1>3, <2>3, <2>4 DEF Started, Relistened
  <2>7. \A i \in 1..(n + 1) : more[i] # "pending"
    BY <1>3, <1>4, <2>3
  <2>8. ListenOK(s)'
    BY <1>2, <1>3, <1>6, <2>1, <2>3, <2>4, <2>6, <2>7 DEF HttpInv, ListenOK
  <2> QED BY <1>1, <1>5, <2>1, <2>4, <2>5, <2>6, <2>8 DEF ServerStep
<1>7. CASE h = "none"
  <2>1. /\ handle' = [handle EXCEPT ![s] = "binding"] /\ handlers' = [handlers EXCEPT ![s] = @ + 1]
        /\ listens' = [listens EXCEPT ![s] = Append(@, "pending")]
    BY <1>2, <1>7 DEF Listen
  <2>2. PICK more : more = Append(l, "pending")
    OBVIOUS
  <2>3. /\ more \in Seq({"pending", "resolved", "rejected"}) /\ Len(more) = n + 1 /\ DOMAIN more = 1..(n + 1)
        /\ \A i \in 1..n : more[i] = l[i]
        /\ more[n + 1] = "pending"
    BY <1>2, <1>3, <2>2
  <2>4. /\ listens' \in [Servers -> Seq({"pending", "resolved", "rejected"})] /\ listens'[s] = more
        /\ \A t \in Servers \ {s} : listens'[t] = listens[t]
    BY <1>2, <2>1, <2>2, <2>3 DEF HttpInv, HttpTypes
  <2>5. /\ handle' \in [Servers -> {"none", "binding", "open"}] /\ handle'[s] = "binding"
        /\ handlers' \in [Servers -> Nat] /\ handlers'[s] = m + 1
        /\ \A t \in Servers \ {s} : handle'[t] = handle[t] /\ handlers'[t] = handlers[t]
    BY <1>2, <1>3, <2>1 DEF HttpInv, HttpTypes
  <2>6. HttpTypes'
    BY <1>1, <2>4, <2>5 DEF HttpInv, HttpTypes
  <2>7. Relistened(s) => Relistened(s)'
    BY <1>2, <1>3, <2>3, <2>4 DEF Relistened
  <2>8. \A i \in 1..(n + 1) : more[i] = "pending" => i = n + 1
    BY <1>3, <1>4, <2>3
  <2>9. n + 1 = 1 => m + 1 <= 1
    BY <1>2, <1>3 DEF HttpInv, ListenOK
  <2>10. ListenOK(s)'
    BY <1>3, <2>3, <2>4, <2>5, <2>8, <2>9 DEF ListenOK
  <2> QED BY <1>1, <1>5, <2>4, <2>5, <2>6, <2>7, <2>10 DEF ServerStep
<1> QED BY <1>3, <1>6, <1>7

\* The promises of listen when the socket has settled.
LEMMA Settling ==
    ASSUME HttpInv, NEW s \in Servers, handle[s] = "binding", NEW outcome \in {"resolved", "rejected"}
    PROVE  /\ Settled(listens[s], outcome) \in Seq({"pending", "resolved", "rejected"})
           /\ Len(Settled(listens[s], outcome)) = Len(listens[s]) /\ Len(listens[s]) \in Nat \ {0}
           /\ DOMAIN Settled(listens[s], outcome) = 1..Len(listens[s])
           /\ \A i \in 1..Len(listens[s]) :
                 /\ listens[s][i] # "pending" => Settled(listens[s], outcome)[i] = listens[s][i]
                 /\ Settled(listens[s], outcome)[i] # "pending"
           /\ Settled(listens[s], outcome)[Len(listens[s])] = outcome
           /\ \A i \in 1..Len(listens[s]) : listens[s][i] = "pending" <=> i = Len(listens[s])
<1>1. PICK l, n : l = listens[s] /\ n = Len(l)
  OBVIOUS
<1>2. /\ l \in Seq({"pending", "resolved", "rejected"}) /\ n \in Nat \ {0} /\ DOMAIN l = 1..n
      /\ \A i \in 1..n : l[i] = "pending" <=> i = n
  BY <1>1 DEF HttpInv, HttpTypes, ListenOK
<1>3. PICK settled : settled = Settled(l, outcome)
  OBVIOUS
<1>4. settled = [i \in 1..n |-> IF l[i] = "pending" THEN outcome ELSE l[i]]
  BY <1>2, <1>3 DEF Settled
<1>5. settled \in Seq({"pending", "resolved", "rejected"}) /\ Len(settled) = n /\ DOMAIN settled = 1..n
  <2>1. \A i \in 1..n : settled[i] \in {"pending", "resolved", "rejected"}
    BY <1>2, <1>4
  <2>2. settled \in [1..n -> {"pending", "resolved", "rejected"}]
    BY <1>4, <2>1
  <2> QED BY <1>2, <2>2
<1>6. \A i \in 1..n : (l[i] # "pending" => settled[i] = l[i]) /\ settled[i] # "pending"
  BY <1>4
<1>7. settled[n] = outcome
  BY <1>2, <1>4
<1> QED BY <1>1, <1>2, <1>3, <1>5, <1>6, <1>7

\* What a server event does to the effects and their log.
LEMMA Notifying ==
    ASSUME HttpInv, NEW s \in Servers, NEW event \in {"listening", "error", "close"}, Notify(s, event)
    PROVE  /\ effects' \in [Servers -> BOOLEAN] /\ logs' \in [Servers -> SUBSET {"listening", "error", "close"}]
           /\ \A t \in Servers \ {s} : effects'[t] = effects[t] /\ logs'[t] = logs[t]
           /\ Config(s).event = "none" => effects'[s]
           /\ "close" \in logs'[s] <=>
                 \/ "close" \in logs[s]
                 \/ event = "close" /\ attached[s] /\ Config(s).event = "none"
<1>1. PICK kind \in {"none", "forwards", "fails"} : kind = Config(s).event
  BY ScenarioAssumption DEF HttpInv, HttpTypes, Config
<1>2. PICK heard, over \in BOOLEAN :
        /\ heard <=> attached[s] /\ effects[s]
        /\ over <=> kind = "fails" \/ (kind = "forwards" /\ event = "close")
        /\ logs' = [logs EXCEPT ![s] = IF heard /\ ~over THEN @ \union {event} ELSE @]
        /\ effects' = [effects EXCEPT ![s] = @ /\ ~(heard /\ over)]
  <2>1. PICK heard \in BOOLEAN : heard = (attached[s] /\ effects[s])
    BY DEF HttpInv, HttpTypes
  <2>2. PICK over \in BOOLEAN : over = (kind = "fails" \/ (kind = "forwards" /\ event = "close"))
    OBVIOUS
  <2> QED BY <1>1, <2>1, <2>2, Zenon DEF Notify
<1>3. /\ effects \in [Servers -> BOOLEAN] /\ logs \in [Servers -> SUBSET {"listening", "error", "close"}]
      /\ kind = "none" => effects[s]
      /\ "close" \in logs[s] => kind = "none"
  BY <1>1 DEF HttpInv, HttpTypes, LogOK
<1>4. effects' \in [Servers -> BOOLEAN] /\ \A t \in Servers \ {s} : effects'[t] = effects[t]
  BY <1>2, <1>3
<1>5. kind = "none" => effects'[s]
  BY <1>2, <1>3
<1>6. /\ logs' \in [Servers -> SUBSET {"listening", "error", "close"}]
      /\ \A t \in Servers \ {s} : logs'[t] = logs[t]
      /\ logs'[s] = IF heard /\ ~over THEN logs[s] \union {event} ELSE logs[s]
  BY <1>2, <1>3
<1>7. "close" \in logs'[s] <=>
          "close" \in logs[s] \/ (event = "close" /\ attached[s] /\ kind = "none")
  BY <1>1, <1>2, <1>3, <1>6
<1> QED BY <1>1, <1>4, <1>5, <1>6, <1>7

LEMMA BoundIsStep ==
    ASSUME HttpInv, NEW s \in Servers, Bound(s), UNCHANGED <<scenario, calls>>
    PROVE  ServerStep(s)
<1>1. /\ handle[s] = "binding" /\ handle' = [handle EXCEPT ![s] = "open"] /\ Notify(s, "listening")
      /\ listens' = [listens EXCEPT ![s] = Settled(@, "resolved")]
      /\ UNCHANGED <<scenario, calls, stage, runs, outbox, attached, live, closers, handlers>>
  BY DEF Bound, calls
<1>2. PICK l, n : l = listens[s] /\ n = Len(l)
  OBVIOUS
<1>3. PICK settled : settled = Settled(l, "resolved")
  OBVIOUS
<1>4. /\ settled \in Seq({"pending", "resolved", "rejected"}) /\ Len(settled) = n /\ n \in Nat \ {0}
      /\ DOMAIN settled = 1..n /\ settled[n] = "resolved" /\ DOMAIN l = 1..n
      /\ \A i \in 1..n : (l[i] # "pending" => settled[i] = l[i]) /\ settled[i] # "pending"
  BY <1>1, <1>2, <1>3, Settling DEF HttpInv, HttpTypes
<1>5. /\ listens' \in [Servers -> Seq({"pending", "resolved", "rejected"})] /\ listens'[s] = settled
      /\ \A t \in Servers \ {s} : listens'[t] = listens[t]
  BY <1>1, <1>2, <1>3, <1>4 DEF HttpInv, HttpTypes
<1>6. /\ handle' \in [Servers -> {"none", "binding", "open"}] /\ handle'[s] = "open"
      /\ \A t \in Servers \ {s} : handle'[t] = handle[t]
  BY <1>1 DEF HttpInv, HttpTypes
<1>7. /\ effects' \in [Servers -> BOOLEAN] /\ logs' \in [Servers -> SUBSET {"listening", "error", "close"}]
      /\ \A t \in Servers \ {s} : effects'[t] = effects[t] /\ logs'[t] = logs[t]
      /\ Config(s).event = "none" => effects'[s]
      /\ "close" \in logs'[s] <=> "close" \in logs[s]
  BY <1>1, Notifying
<1>8. HttpTypes'
  BY <1>1, <1>5, <1>6, <1>7 DEF HttpInv, HttpTypes
<1>9. LogOK(s)'
  BY <1>1, <1>7, SettingIsConstant DEF HttpInv, LogOK
<1>10. Relistened(s) => Relistened(s)'
  BY <1>2, <1>4, <1>5 DEF Relistened
<1>11. Started(s)' /\ (n > 1 => Relistened(s)')
  BY <1>4, <1>5 DEF Started, Relistened
<1>12. n = 1 => handlers[s] <= 1
  BY <1>1, <1>2 DEF HttpInv, ListenOK
<1>13. ListenOK(s)'
  BY <1>1, <1>4, <1>5, <1>6, <1>11, <1>12 DEF ListenOK
<1> QED BY <1>1, <1>5, <1>6, <1>7, <1>8, <1>9, <1>10, <1>13 DEF ServerStep

LEMMA BindFailsIsStep ==
    ASSUME HttpInv, NEW s \in Servers, BindFails(s), UNCHANGED <<scenario, calls>>
    PROVE  ServerStep(s)
<1>1. /\ handle[s] = "binding" /\ handle' = [handle EXCEPT ![s] = "none"] /\ Notify(s, "error")
      /\ listens' = [listens EXCEPT ![s] = Settled(@, "rejected")]
      /\ UNCHANGED <<scenario, calls, stage, runs, outbox, attached, live, closers, handlers>>
  BY DEF BindFails, calls
<1>2. PICK l, n : l = listens[s] /\ n = Len(l)
  OBVIOUS
<1>3. PICK settled : settled = Settled(l, "rejected")
  OBVIOUS
<1>4. /\ settled \in Seq({"pending", "resolved", "rejected"}) /\ Len(settled) = n /\ n \in Nat \ {0}
      /\ DOMAIN settled = 1..n /\ DOMAIN l = 1..n
      /\ \A i \in 1..n : (l[i] # "pending" => settled[i] = l[i]) /\ settled[i] # "pending"
  BY <1>1, <1>2, <1>3, Settling DEF HttpInv, HttpTypes
<1>5. /\ listens' \in [Servers -> Seq({"pending", "resolved", "rejected"})] /\ listens'[s] = settled
      /\ \A t \in Servers \ {s} : listens'[t] = listens[t]
  BY <1>1, <1>2, <1>3, <1>4 DEF HttpInv, HttpTypes
<1>6. /\ handle' \in [Servers -> {"none", "binding", "open"}] /\ handle'[s] = "none"
      /\ \A t \in Servers \ {s} : handle'[t] = handle[t]
  BY <1>1 DEF HttpInv, HttpTypes
<1>7. /\ effects' \in [Servers -> BOOLEAN] /\ logs' \in [Servers -> SUBSET {"listening", "error", "close"}]
      /\ \A t \in Servers \ {s} : effects'[t] = effects[t] /\ logs'[t] = logs[t]
      /\ Config(s).event = "none" => effects'[s]
      /\ "close" \in logs'[s] <=> "close" \in logs[s]
  BY <1>1, Notifying
<1>8. HttpTypes'
  BY <1>1, <1>5, <1>6, <1>7 DEF HttpInv, HttpTypes
<1>9. LogOK(s)'
  BY <1>1, <1>7, SettingIsConstant DEF HttpInv, LogOK
<1>10. Relistened(s) => Relistened(s)'
  BY <1>2, <1>4, <1>5 DEF Relistened
<1>11. ListenOK(s)'
  BY <1>1, <1>4, <1>5, <1>6 DEF ListenOK
<1> QED BY <1>1, <1>5, <1>6, <1>7, <1>8, <1>9, <1>10, <1>11 DEF ServerStep

LEMMA CloseIsStep ==
    ASSUME HttpInv, NEW s \in Servers, Close(s), UNCHANGED <<scenario, calls>>
    PROVE  ServerStep(s)
<1>1. /\ Started(s) /\ handle' = [handle EXCEPT ![s] = "none"]
      /\ closers' = [closers EXCEPT ![s] = Append(@, IF handle[s] = "open" THEN "waiting" ELSE "refused")]
      /\ UNCHANGED <<scenario, calls, stage, runs, outbox, listens, attached, handlers, live, effects, logs>>
  BY DEF Close, calls
<1>2. /\ handle' \in [Servers -> {"none", "binding", "open"}] /\ handle'[s] = "none"
      /\ \A t \in Servers \ {s} : handle'[t] = handle[t]
  BY <1>1 DEF HttpInv, HttpTypes
<1>3. PICK promise \in {"waiting", "refused"} : closers' = [closers EXCEPT ![s] = Append(@, promise)]
  BY <1>1
<1>4. Append(closers[s], promise) \in Seq({"waiting", "refused", "resolved", "rejected"})
  BY DEF HttpInv, HttpTypes
<1>5. /\ closers' \in [Servers -> Seq({"waiting", "refused", "resolved", "rejected"})]
      /\ \A t \in Servers \ {s} : closers'[t] = closers[t]
  BY <1>3, <1>4 DEF HttpInv, HttpTypes
<1>6. HttpTypes'
  BY <1>1, <1>2, <1>5 DEF HttpInv, HttpTypes
<1>7. Len(listens[s]) # 0
  BY <1>1 DEF HttpInv, HttpTypes, Started
<1>8. handle[s] # "binding"
  BY DEF Close
<1>9. ListenOK(s)'
  BY <1>1, <1>2, <1>7, <1>8 DEF HttpInv, ListenOK
<1>10. LogOK(s)'
  BY <1>1, SettingIsConstant DEF HttpInv, LogOK
<1>11. Relistened(s)' = Relistened(s)
  BY <1>1 DEF Relistened
<1> QED BY <1>1, <1>2, <1>5, <1>6, <1>9, <1>10, <1>11 DEF ServerStep

\* The promises of close when the server is drained.
Ended(promise) == CASE promise = "waiting" -> "resolved" [] promise = "refused" -> "rejected" [] OTHER -> promise

LEMMA Draining ==
    ASSUME HttpInv, NEW s \in Servers, Drained(s)
    PROVE  /\ closers' \in [Servers -> Seq({"waiting", "refused", "resolved", "rejected"})]
           /\ \A t \in Servers \ {s} : closers'[t] = closers[t]
           /\ closers[s] # <<>> /\ closers'[s] # <<>>
           /\ DOMAIN closers'[s] = DOMAIN closers[s]
           /\ \A i \in DOMAIN closers[s] : closers'[s][i] = Ended(closers[s][i])
<1>1. PICK old, n : old = closers[s] /\ n = Len(old)
  OBVIOUS
<1>2. old \in Seq({"waiting", "refused", "resolved", "rejected"}) /\ n \in Nat /\ DOMAIN old = 1..n
  BY <1>1 DEF HttpInv, HttpTypes
<1>3. PICK new : new = [i \in 1..n |-> Ended(old[i])]
  OBVIOUS
<1>4. closers' = [closers EXCEPT ![s] = new]
  BY <1>1, <1>2, <1>3 DEF Drained, Ended
<1>5. \A i \in 1..n : Ended(old[i]) \in {"waiting", "refused", "resolved", "rejected"}
  BY <1>2 DEF Ended
<1>6. new \in Seq({"waiting", "refused", "resolved", "rejected"}) /\ DOMAIN new = 1..n
  <2>1. new \in [1..n -> {"waiting", "refused", "resolved", "rejected"}]
    BY <1>3, <1>5
  <2> QED BY <1>2, <2>1
<1>7. /\ closers' \in [Servers -> Seq({"waiting", "refused", "resolved", "rejected"})] /\ closers'[s] = new
      /\ \A t \in Servers \ {s} : closers'[t] = closers[t]
  BY <1>4, <1>6 DEF HttpInv, HttpTypes
<1>8. PICK i \in 1..n : TRUE
  BY <1>1, <1>2 DEF Drained
<1>9. old # <<>> /\ new # <<>>
  BY <1>2, <1>6, <1>8
<1> QED BY <1>1, <1>2, <1>3, <1>6, <1>7, <1>9

LEMMA DrainedIsStep ==
    ASSUME HttpInv, NEW s \in Servers, Drained(s), UNCHANGED <<scenario, calls>>
    PROVE  ServerStep(s)
<1>1. /\ handle[s] = "none" /\ ~Connected(s) /\ Notify(s, "close")
      /\ live' = [live EXCEPT ![s] = IF attached[s] THEN {} ELSE @]
      /\ attached' = [attached EXCEPT ![s] = FALSE] /\ handlers' = [handlers EXCEPT ![s] = 0]
      /\ UNCHANGED <<scenario, calls, stage, runs, outbox, handle, listens>>
  BY DEF Drained, calls
<1>2. /\ closers' \in [Servers -> Seq({"waiting", "refused", "resolved", "rejected"})]
      /\ \A t \in Servers \ {s} : closers'[t] = closers[t]
  BY Draining
<1>3. /\ live' \in [Servers -> SUBSET Pipelines] /\ attached' \in [Servers -> BOOLEAN]
      /\ handlers' \in [Servers -> Nat] /\ ~attached'[s] /\ handlers'[s] = 0
      /\ \A t \in Servers \ {s} : live'[t] = live[t] /\ attached'[t] = attached[t] /\ handlers'[t] = handlers[t]
  BY <1>1 DEF HttpInv, HttpTypes
<1>4. /\ effects' \in [Servers -> BOOLEAN] /\ logs' \in [Servers -> SUBSET {"listening", "error", "close"}]
      /\ \A t \in Servers \ {s} : effects'[t] = effects[t] /\ logs'[t] = logs[t]
      /\ Config(s).event = "none" => effects'[s]
      /\ "close" \in logs'[s] <=> "close" \in logs[s] \/ (attached[s] /\ Config(s).event = "none")
  BY <1>1, Notifying
<1>5. HttpTypes'
  BY <1>1, <1>2, <1>3, <1>4 DEF HttpInv, HttpTypes
<1>6. Config(s)' = Config(s)
  BY <1>1, SettingIsConstant
<1>7. LogOK(s)'
  BY <1>3, <1>4, <1>6 DEF HttpInv, LogOK
<1>8. Relistened(s)' = Relistened(s) /\ Started(s)' = Started(s)
  BY <1>1 DEF Relistened, Started
<1>9. ListenOK(s)'
  BY <1>1, <1>3, <1>8 DEF HttpInv, ListenOK
<1> QED BY <1>1, <1>2, <1>3, <1>4, <1>5, <1>7, <1>8, <1>9 DEF ServerStep

------------------------------------------------------------------------------
(* The test beds.                                                             *)

\* What concerns a bed and its server is as it was, and no cleanup takes anything back.
CleanupsGoOn ==
    \A k \in Cleanups :
        /\ cleanup[k].state = "resolved" => cleanup'[k].state = "resolved"
        /\ \A s \in cleanup[k].on :
              /\ s \in cleanup'[k].on
              /\ cleanup[k].closer[s] # 0 => cleanup'[k].closer[s] = cleanup[k].closer[s]

BedKept(s) ==
    /\ scenario' = scenario /\ bed'[s] = bed[s]
    /\ handle'[s] = handle[s] /\ listens'[s] = listens[s] /\ closers'[s] = closers[s]
    /\ attached'[s] = attached[s] /\ Connected(s)' = Connected(s)
    /\ s \in Range(instances') => s \in Range(instances)
    /\ s \in Range(instances) /\ s \notin Range(instances') => \E k \in Cleanups : cleanup'[k].state = "resolved"

LEMMA BedStays ==
    ASSUME NEW s \in Servers, closers[s] \in Seq({"waiting", "refused", "resolved", "rejected"}),
           BedOK(s), BedKept(s), CleanupsGoOn
    PROVE  BedOK(s)'
<1>1. /\ scenario' = scenario /\ bed'[s] = bed[s]
      /\ handle'[s] = handle[s] /\ listens'[s] = listens[s] /\ closers'[s] = closers[s]
      /\ attached'[s] = attached[s] /\ Connected(s)' = Connected(s) /\ Started(s)' = Started(s)
  BY DEF BedKept, Started
<1>2. bed[s] # "absent" => scenario.beds
  BY DEF BedOK
<1> SUFFICES ASSUME scenario.beds PROVE BedOK(s)'
  BY <1>1, <1>2 DEF BedOK
<1>3. ASSUME NEW i \in DOMAIN closers[s]
      PROVE  /\ closers[s][i] \in {"refused", "rejected"} => i # 1
             /\ closers[s][i] \in {"resolved", "rejected"} => ~attached[s] /\ ~Connected(s)
             /\ \E k \in Cleanups : s \in cleanup'[k].on /\ cleanup'[k].closer[s] = i
  <2>1. PICK k \in Cleanups : s \in cleanup[k].on /\ cleanup[k].closer[s] = i
    BY <1>3 DEF BedOK
  <2>2. i # 0
    BY <1>3
  <2>3. s \in cleanup'[k].on /\ cleanup'[k].closer[s] = i
    BY <2>1, <2>2 DEF CleanupsGoOn
  <2> QED BY <1>3, <2>3 DEF BedOK
<1>4. bed[s] = "ready" /\ s \notin Range(instances') => \E k \in Cleanups : cleanup'[k].state = "resolved"
  BY DEF BedOK, BedKept, CleanupsGoOn
<1>5. s \in Range(instances') => bed[s] = "ready"
  BY DEF BedOK, BedKept
<1>6. /\ bed[s] = "absent" => listens[s] = <<>>
      /\ Len(listens[s]) <= 1
      /\ closers[s] # <<>> => handle[s] = "none" /\ Started(s)
      /\ Started(s) /\ closers[s] = <<>> => handle[s] = "open"
  BY DEF BedOK
<1> QED BY <1>1, <1>2, <1>3, <1>4, <1>5, <1>6 DEF BedOK

\* What concerns a cleanup is as it was.
ClosersKept(s) ==
    \A i \in DOMAIN closers[s] :
        /\ i \in DOMAIN closers'[s]
        /\ closers[s][i] \in {"resolved", "rejected"} => closers'[s][i] = closers[s][i]
Surroundings ==
    /\ scenario' = scenario
    /\ \A s \in Servers : ClosersKept(s) /\ (bed[s] = "ready" => bed'[s] = "ready")
    /\ \A j \in Cleanups : cleanup[j].state = "resolved" => cleanup'[j] = cleanup[j]

LEMMA TaskTypes ==
    ASSUME BedTypes, NEW k \in Cleanups
    PROVE  /\ cleanup[k] = [on |-> cleanup[k].on, after |-> cleanup[k].after, state |-> cleanup[k].state,
                            at |-> cleanup[k].at, closer |-> cleanup[k].closer]
           /\ cleanup[k].on \in SUBSET Servers /\ cleanup[k].after \in SUBSET Cleanups
           /\ cleanup[k].state \in {"idle", "threw", "running", "rejected", "resolved"}
           /\ cleanup[k].at \in [cleanup[k].on -> Steps] /\ cleanup[k].closer \in [cleanup[k].on -> Nat]
<1>1. PICK on \in SUBSET Servers : cleanup[k] \in TaskOf(on)
  BY DEF BedTypes, Tasks
<1> QED BY <1>1 DEF TaskOf

LEMMA StepStays ==
    ASSUME BedTypes, NEW k \in Cleanups, NEW s \in cleanup[k].on, StepOK(k, s), Surroundings,
           cleanup'[k].at[s] = cleanup[k].at[s], cleanup'[k].closer[s] = cleanup[k].closer[s]
    PROVE  StepOK(k, s)'
<1>1. s \in Servers
  BY TaskTypes
<1>2. bed'[s] = "ready" /\ ClosersKept(s)
  BY <1>1 DEF Surroundings, StepOK
<1> QED BY <1>2 DEF StepOK, ClosersKept

LEMMA CleanupStays ==
    ASSUME BedTypes, NEW k \in Cleanups, CleanupOK(k), Surroundings, cleanup'[k] = cleanup[k],
           \A s \in cleanup[k].on : s \in Range(instances') => s \in Range(instances)
    PROVE  CleanupOK(k)'
<1>1. \A s \in cleanup[k].on : StepOK(k, s)'
  BY StepStays DEF CleanupOK
<1>2. cleanup[k].after \in SUBSET Cleanups
  BY TaskTypes
<1>3. ASSUME NEW j \in cleanup[k].after
      PROVE  cleanup'[j].state = "resolved" /\ cleanup'[j].on \intersect cleanup[k].on = {}
  <2>1. cleanup[j].state = "resolved" /\ cleanup[j].on \intersect cleanup[k].on = {}
    BY <1>3 DEF CleanupOK
  <2> QED BY <1>2, <1>3, <2>1 DEF Surroundings
<1>4. scenario' = scenario
  BY DEF Surroundings
<1>5. cleanup[k].state = "resolved" => cleanup[k].on \intersect Range(instances') = {}
  BY DEF CleanupOK
<1> QED BY <1>1, <1>3, <1>4, <1>5 DEF CleanupOK

\* Where there are no beds, nothing concerns them.
LEMMA NoBeds ==
    ASSUME BedInv, ~scenario.beds, UNCHANGED <<scenario, bedVars>>
    PROVE  BedInv'
<1>1. UNCHANGED <<bed, instances, cleanup>>
  BY DEF bedVars
<1>2. BedTypes'
  BY <1>1 DEF BedInv, BedTypes
<1>3. ASSUME NEW s \in Servers PROVE BedOK(s)'
  BY <1>1 DEF BedInv, BedOK
<1>4. \A k \in Cleanups : cleanup[k].state = "idle" /\ cleanup[k].on = {} /\ cleanup[k].after = {}
  <2> TAKE k \in Cleanups
  <2>1. \A j \in Cleanups : cleanup[j].state = "idle"
    BY DEF BedInv, CleanupOK
  <2>2. cleanup[k].after \in SUBSET Cleanups
    BY TaskTypes DEF BedInv
  <2> QED BY <2>1, <2>2 DEF BedInv, CleanupOK
<1>5. ASSUME NEW k \in Cleanups PROVE CleanupOK(k)'
  BY <1>1, <1>4 DEF CleanupOK
<1> QED BY <1>2, <1>3, <1>5 DEF BedInv

LEMMA OwnKeeps ==
    ASSUME Inv, NEW s \in Servers, Own(s)
    PROVE  Inv'
<1>1. HttpInv /\ BedInv
  BY DEF Inv
<1>2. ~scenario.beds /\ UNCHANGED <<scenario, calls, bedVars>> /\ (Listen(s) \/ Close(s))
  BY DEF Own
<1>3. ServerStep(s)
  BY <1>1, <1>2, ListenIsStep, CloseIsStep
<1>4. HttpInv' /\ BedInv'
  BY <1>1, <1>2, <1>3, ServerStepKeeps, NoBeds
<1> QED BY <1>4 DEF Inv

\* What a step of one server leaves of the beds of the others.
LEMMA OthersStay ==
    ASSUME HttpInv, BedInv, NEW s \in Servers, ServerStep(s), NEW t \in Servers, t # s,
           bed'[t] = bed[t], t \in Range(instances') <=> t \in Range(instances), CleanupsGoOn
    PROVE  BedOK(t)'
<1>1. /\ scenario' = scenario /\ handle'[t] = handle[t] /\ listens'[t] = listens[t]
      /\ closers'[t] = closers[t] /\ attached'[t] = attached[t] /\ stage' = stage
  BY DEF ServerStep, calls
<1>2. Connected(t)' = Connected(t)
  BY <1>1 DEF Connected, To, Call
<1>3. BedKept(t)
  BY <1>1, <1>2 DEF BedKept
<1>4. BedOK(t) /\ closers[t] \in Seq({"waiting", "refused", "resolved", "rejected"})
  BY DEF BedInv, HttpInv, HttpTypes
<1> QED BY <1>3, <1>4, BedStays

LEMMA OnlyOne ==
    ASSUME NEW n \in Nat, n # 0, n <= 1
    PROVE  n = 1
OBVIOUS

LEMMA SocketKeeps ==
    ASSUME Inv, NEW s \in Servers, Socket(s)
    PROVE  Inv'
<1>1. HttpInv /\ BedInv
  BY DEF Inv
<1>2. UNCHANGED <<scenario, calls, bedVars>> /\ (Bound(s) \/ BindFails(s) \/ Drained(s))
  BY DEF Socket
<1>3. ServerStep(s)
  BY <1>1, <1>2, BoundIsStep, BindFailsIsStep, DrainedIsStep
<1>4. HttpInv'
  BY <1>1, <1>3, ServerStepKeeps
<1>5. CASE ~scenario.beds
  <2>1. BedInv'
    BY <1>1, <1>2, <1>5, NoBeds
  <2> QED BY <1>4, <2>1 DEF Inv
<1>6. CASE scenario.beds
  <2>1. UNCHANGED <<bed, instances, cleanup, scenario, stage>> /\ CleanupsGoOn
    BY <1>2 DEF bedVars, calls, CleanupsGoOn
  <2>2. BedTypes'
    BY <1>1, <2>1 DEF BedInv, BedTypes
  <2>3. ASSUME NEW t \in Servers, t # s PROVE BedOK(t)'
    BY <1>1, <1>3, <2>1, <2>3, OthersStay
  <2>4. BedOK(s) /\ Connected(s)' = Connected(s) /\ closers[s] \in Seq({"waiting", "refused", "resolved", "rejected"})
    BY <1>1, <2>1 DEF BedInv, HttpInv, HttpTypes, Connected, To, Call
  <2>5. BedOK(s)' /\ ClosersKept(s)
    <3>1. CASE Bound(s) \/ BindFails(s)
      <4>1. PICK outcome \in {"resolved", "rejected"} :
              /\ handle[s] = "binding" /\ handle'[s] = (IF outcome = "resolved" THEN "open" ELSE "none")
              /\ listens'[s] = Settled(listens[s], outcome) /\ UNCHANGED <<closers, attached>>
        BY <1>1, <3>1 DEF Bound, BindFails, HttpInv, HttpTypes
      <4>2. Len(listens[s]) = 1 /\ closers[s] = <<>> /\ bed[s] # "absent"
        <5>1. PICK n \in Nat : n # 0 /\ n = Len(listens[s])
          BY <1>1, <4>1, Settling
        <5>2. n <= 1
          BY <1>6, <2>4, <5>1 DEF BedOK
        <5>3. Len(listens[s]) = 1
          BY <5>1, <5>2, OnlyOne
        <5>4. listens[s] # <<>>
          BY <5>3
        <5> QED BY <1>6, <2>4, <4>1, <5>3, <5>4 DEF BedOK
      <4>3. Len(listens'[s]) = 1 /\ DOMAIN listens'[s] = 1..1 /\ listens'[s][1] = outcome
        BY <1>1, <4>1, <4>2, Settling
      <4>4. Started(s)' <=> outcome = "resolved"
        BY <4>3 DEF Started
      <4>5. Len(listens'[s]) <= 1
        BY <4>3
      <4>6. DOMAIN closers[s] = {}
        BY <4>2
      <4> QED BY <1>6, <2>1, <2>4, <4>1, <4>2, <4>4, <4>5, <4>6 DEF BedOK, ClosersKept
    <3>2. CASE Drained(s)
      <4>1. /\ UNCHANGED <<handle, listens>> /\ handle[s] = "none" /\ ~Connected(s) /\ ~attached'[s]
        BY <1>1, <3>2 DEF Drained, HttpInv, HttpTypes
      <4>2. /\ closers[s] # <<>> /\ closers'[s] # <<>> /\ DOMAIN closers'[s] = DOMAIN closers[s]
            /\ \A i \in DOMAIN closers[s] : closers'[s][i] = Ended(closers[s][i])
        BY <1>1, <3>2, Draining
      <4>3. ClosersKept(s)
        BY <4>2 DEF ClosersKept, Ended
      <4>4. Started(s)' = Started(s)
        BY <4>1 DEF Started
      <4>5. ASSUME NEW i \in DOMAIN closers'[s] PROVE closers'[s][i] \in {"refused", "rejected"} => i # 1
        <5>1. closers[s][i] \in {"refused", "rejected", "waiting", "resolved"}
          BY <2>4, <4>2, <4>5
        <5>2. closers'[s][i] \in {"refused", "rejected"} => closers[s][i] \in {"refused", "rejected"}
          BY <4>2, <4>5, <5>1 DEF Ended
        <5> QED BY <1>6, <2>4, <4>2, <4>5, <5>2 DEF BedOK
      <4> QED BY <1>6, <2>1, <2>4, <4>1, <4>2, <4>3, <4>4, <4>5 DEF BedOK
    <3> QED BY <1>2, <3>1, <3>2
  <2>6. Surroundings
    <3>1. ASSUME NEW t \in Servers, t # s PROVE ClosersKept(t)
      BY <1>3, <3>1 DEF ServerStep, ClosersKept
    <3> QED BY <2>1, <2>5, <3>1 DEF Surroundings
  <2>7. ASSUME NEW k \in Cleanups PROVE CleanupOK(k)'
    BY <1>1, <2>1, <2>6, CleanupStays DEF BedInv
  <2>8. BedInv'
    BY <2>2, <2>3, <2>5, <2>7 DEF BedInv
  <2> QED BY <1>4, <2>8 DEF Inv
<1> QED BY <1>5, <1>6

\* A bed starts its server; it is none of any cleanup yet.
LEMMA UseTestBedKeeps ==
    ASSUME Inv, NEW s \in Servers, UseTestBed(s)
    PROVE  Inv'
<1>1. HttpInv /\ BedInv
  BY DEF Inv
<1>2. /\ scenario.beds /\ bed[s] = "absent" /\ bed' = [bed EXCEPT ![s] = "creating"]
      /\ Listen(s) /\ UNCHANGED <<scenario, calls, instances, cleanup>>
  BY DEF UseTestBed
<1>3. ServerStep(s)
  BY <1>1, <1>2, ListenIsStep
<1>4. HttpInv'
  BY <1>1, <1>3, ServerStepKeeps
<1>5. UNCHANGED <<instances, cleanup, scenario, closers, attached>> /\ CleanupsGoOn
  BY <1>2 DEF Listen, CleanupsGoOn
<1>6. /\ bed' \in [Servers -> {"absent", "creating", "ready"}] /\ bed'[s] = "creating"
      /\ \A t \in Servers \ {s} : bed'[t] = bed[t]
  BY <1>1, <1>2 DEF BedInv, BedTypes
<1>7. BedTypes'
  BY <1>1, <1>5, <1>6 DEF BedInv, BedTypes
<1>8. ASSUME NEW t \in Servers, t # s PROVE BedOK(t)'
  BY <1>1, <1>3, <1>5, <1>6, <1>8, OthersStay
<1>9. listens[s] = <<>> /\ s \notin Range(instances)
  BY <1>1, <1>2 DEF BedInv, BedOK
<1>10. handle[s] = "none" /\ ~Started(s)
  BY <1>1, <1>9 DEF HttpInv, ListenOK, Started
<1>11. closers[s] = <<>> /\ DOMAIN closers[s] = {}
  <2>1. closers[s] = <<>>
    BY <1>1, <1>2, <1>10 DEF BedInv, BedOK
  <2> QED BY <2>1
<1>12. listens'[s] = <<"pending">>
  BY <1>1, <1>2, <1>9, <1>10 DEF Listen, HttpInv, HttpTypes
<1>13. Len(listens'[s]) <= 1 /\ ~Started(s)'
  BY <1>12 DEF Started
<1>14. BedOK(s)'
  BY <1>2, <1>5, <1>6, <1>9, <1>11, <1>13 DEF BedOK
<1>15. Surroundings
  BY <1>5, <1>6, <1>2 DEF Surroundings, ClosersKept
<1>16. ASSUME NEW k \in Cleanups PROVE CleanupOK(k)'
  BY <1>1, <1>5, <1>15, CleanupStays DEF BedInv
<1>17. BedInv'
  BY <1>7, <1>8, <1>14, <1>16 DEF BedInv
<1> QED BY <1>4, <1>17 DEF Inv

LEMMA RangeOfAppend ==
    ASSUME NEW S, NEW list \in Seq(S), NEW e \in S
    PROVE  Range(Append(list, e)) = Range(list) \union {e}
<1>1. PICK n \in Nat : n = Len(list) /\ DOMAIN list = 1..n
  OBVIOUS
<1>2. PICK more : more = Append(list, e)
  OBVIOUS
<1>3. DOMAIN more = 1..(n + 1) /\ more[n + 1] = e /\ \A i \in 1..n : more[i] = list[i]
  BY <1>1, <1>2
<1>4. {more[i] : i \in 1..(n + 1)} = {list[i] : i \in 1..n} \union {e}
  <2>1. 1..(n + 1) = 1..n \union {n + 1}
    BY <1>1
  <2> QED BY <1>3, <2>1
<1> QED BY <1>1, <1>2, <1>3, <1>4 DEF Range

LEMMA RangeInSet ==
    ASSUME NEW S, NEW list \in Seq(S)
    PROVE  Range(list) \in SUBSET S
BY DEF Range

\* A bed is registered when its server listens.
LEMMA RegisterKeeps ==
    ASSUME Inv, NEW s \in Servers, Register(s)
    PROVE  Inv'
<1>1. HttpInv /\ BedInv
  BY DEF Inv
<1>2. /\ bed[s] = "creating" /\ Started(s) /\ bed' = [bed EXCEPT ![s] = "ready"]
      /\ instances' = Append(instances, s) /\ UNCHANGED <<httpVars, cleanup>>
  BY DEF Register
<1>3. HttpInv'
  BY <1>1, <1>2, HttpStays
<1>4. UNCHANGED <<cleanup, scenario, handle, listens, closers, attached, stage>> /\ CleanupsGoOn
  BY <1>2 DEF httpVars, servers, calls, CleanupsGoOn
<1>5. /\ bed' \in [Servers -> {"absent", "creating", "ready"}] /\ bed'[s] = "ready"
      /\ \A t \in Servers \ {s} : bed'[t] = bed[t]
  BY <1>1, <1>2 DEF BedInv, BedTypes
<1>6. Range(instances') = Range(instances) \union {s} /\ instances' \in Seq(Servers)
  BY <1>1, <1>2, RangeOfAppend DEF BedInv, BedTypes
<1>7. BedTypes'
  BY <1>1, <1>4, <1>5, <1>6 DEF BedInv, BedTypes
<1>8. \A t \in Servers : Connected(t)' = Connected(t) /\ Started(t)' = Started(t)
  BY <1>4 DEF Connected, To, Call, Started
<1>9. ASSUME NEW t \in Servers, t # s PROVE BedOK(t)'
  <2>1. BedOK(t) /\ closers[t] \in Seq({"waiting", "refused", "resolved", "rejected"})
    BY <1>1 DEF BedInv, HttpInv, HttpTypes
  <2>2. BedKept(t)
    BY <1>4, <1>5, <1>6, <1>8, <1>9 DEF BedKept
  <2> QED BY <1>4, <2>1, <2>2, BedStays
<1>10. BedOK(s)'
  BY <1>1, <1>2, <1>4, <1>5, <1>6, <1>8 DEF BedInv, BedOK
<1>11. Surroundings
  BY <1>2, <1>4, <1>5 DEF Surroundings, ClosersKept
<1>12. ASSUME NEW k \in Cleanups PROVE CleanupOK(k)'
  <2>1. s \notin cleanup[k].on
    BY <1>1, <1>2 DEF BedInv, CleanupOK, StepOK
  <2>2. CleanupOK(k) /\ \A t \in cleanup[k].on : t \in Range(instances') => t \in Range(instances)
    BY <1>1, <1>6, <2>1 DEF BedInv
  <2> QED BY <1>1, <1>4, <1>11, <2>2, CleanupStays DEF BedInv
<1>13. BedInv'
  BY <1>7, <1>9, <1>10, <1>12 DEF BedInv
<1> QED BY <1>3, <1>13 DEF Inv

\* One step of a cleanup with one of its beds.
TaskStep(k, s, step, number, state) ==
    /\ cleanup' \in [Cleanups -> Tasks] /\ \A j \in Cleanups \ {k} : cleanup'[j] = cleanup[j]
    /\ cleanup'[k].on = cleanup[k].on /\ cleanup'[k].after = cleanup[k].after /\ cleanup'[k].state = state
    /\ cleanup'[k].at[s] = step /\ cleanup'[k].closer[s] = number
    /\ \A t \in cleanup[k].on \ {s} :
          cleanup'[k].at[t] = cleanup[k].at[t] /\ cleanup'[k].closer[t] = cleanup[k].closer[t]

LEMMA TaskSteps ==
    ASSUME BedTypes, NEW k \in Cleanups, NEW s \in cleanup[k].on, NEW step \in Steps, NEW number \in Nat,
           NEW state \in {"running", "threw", "idle", "rejected", "resolved"}, NEW at, NEW closer, NEW task,
           at = [cleanup[k].at EXCEPT ![s] = step], closer = [cleanup[k].closer EXCEPT ![s] = number],
           task = [on |-> cleanup[k].on, after |-> cleanup[k].after, state |-> state, at |-> at, closer |-> closer],
           cleanup' = [cleanup EXCEPT ![k] = task]
    PROVE  TaskStep(k, s, step, number, state)
<1>1. /\ cleanup[k].on \in SUBSET Servers /\ cleanup[k].after \in SUBSET Cleanups
      /\ cleanup[k].at \in [cleanup[k].on -> Steps] /\ cleanup[k].closer \in [cleanup[k].on -> Nat]
  BY TaskTypes
<1>2. at \in [cleanup[k].on -> Steps] /\ closer \in [cleanup[k].on -> Nat]
  BY <1>1
<1>3. task \in TaskOf(cleanup[k].on)
  BY <1>1, <1>2 DEF TaskOf
<1>4. task \in Tasks
  BY <1>1, <1>3 DEF Tasks
<1>5. cleanup' \in [Cleanups -> Tasks] /\ cleanup'[k] = task /\ \A j \in Cleanups \ {k} : cleanup'[j] = cleanup[j]
  BY <1>4 DEF BedTypes
<1>6. /\ task.on = cleanup[k].on /\ task.after = cleanup[k].after /\ task.state = state
      /\ task.at = at /\ task.closer = closer
  OBVIOUS
<1>7. /\ at[s] = step /\ closer[s] = number
      /\ \A t \in cleanup[k].on \ {s} : at[t] = cleanup[k].at[t] /\ closer[t] = cleanup[k].closer[t]
  BY <1>1
<1> QED BY <1>5, <1>6, <1>7 DEF TaskStep

\* A bed that is still being cleaned up moves on; the cleanup rejects if it fails.
LEMMA TaskStepKeeps ==
    ASSUME BedInv, NEW k \in Cleanups, NEW s \in cleanup[k].on, NEW step \in Steps, NEW number, NEW state,
           cleanup[k].at[s] \in {"dependencies", "finishing"}, TaskStep(k, s, step, number, state),
           state = cleanup[k].state \/ (state = "rejected" /\ step = "failed"),
           cleanup[k].closer[s] # 0 => number = cleanup[k].closer[s], StepOK(k, s)',
           scenario' = scenario, bed' = bed, instances' = instances,
           \A t \in Servers : ClosersKept(t)
    PROVE  BedTypes' /\ CleanupsGoOn /\ \A j \in Cleanups : CleanupOK(j)'
<1>1. CleanupOK(k) /\ cleanup[k].state \notin {"idle", "resolved"}
  <2>1. CleanupOK(k)
    BY DEF BedInv
  <2> QED BY <2>1 DEF CleanupOK
<1>2. BedTypes'
  BY DEF BedInv, BedTypes, TaskStep
<1>3. Surroundings
  BY <1>1 DEF Surroundings, TaskStep
<1>4. CleanupsGoOn
  <2> SUFFICES ASSUME NEW j \in Cleanups
               PROVE  /\ cleanup[j].state = "resolved" => cleanup'[j].state = "resolved"
                      /\ \A t \in cleanup[j].on :
                            /\ t \in cleanup'[j].on
                            /\ cleanup[j].closer[t] # 0 => cleanup'[j].closer[t] = cleanup[j].closer[t]
    BY DEF CleanupsGoOn
  <2>1. CASE j = k
    BY <1>1, <2>1 DEF TaskStep
  <2>2. CASE j # k
    BY <2>2 DEF TaskStep
  <2> QED BY <2>1, <2>2
<1>5. ASSUME NEW j \in Cleanups, j # k PROVE CleanupOK(j)'
  <2>1. cleanup'[j] = cleanup[j]
    BY <1>5 DEF TaskStep
  <2> QED BY <1>3, <2>1, CleanupStays DEF BedInv
<1>6. CleanupOK(k)'
  <2>1. \A t \in cleanup[k].on : StepOK(k, t)'
    <3> TAKE t \in cleanup[k].on
    <3>1. CASE t = s
      BY <3>1
    <3>2. CASE t # s
      <4>1. StepOK(k, t)
        BY <1>1 DEF CleanupOK
      <4>2. cleanup'[k].at[t] = cleanup[k].at[t] /\ cleanup'[k].closer[t] = cleanup[k].closer[t]
        BY <3>2 DEF TaskStep
      <4> QED BY <1>3, <4>1, <4>2, StepStays DEF BedInv
    <3> QED BY <3>1, <3>2
  <2>2. cleanup'[k].state = "rejected" => \E t \in cleanup[k].on : cleanup'[k].at[t] = "failed"
    <3>1. CASE step = "failed"
      BY <3>1 DEF TaskStep
    <3>2. CASE step # "failed"
      BY <1>1, <3>2 DEF TaskStep, CleanupOK
    <3> QED BY <3>1, <3>2
  <2>3. \A j \in cleanup[k].after : cleanup'[j] = cleanup[j]
    <3>1. cleanup[k].after \in SUBSET Cleanups
      BY TaskTypes DEF BedInv
    <3> QED BY <1>1, <1>3, <3>1 DEF CleanupOK, Surroundings
  <2>4. /\ cleanup'[k].on = cleanup[k].on /\ cleanup'[k].after = cleanup[k].after
        /\ cleanup'[k].state \notin {"idle", "resolved"}
    BY <1>1 DEF TaskStep
  <2>5. scenario.beds
    BY <1>1 DEF CleanupOK
  <2> QED BY <1>1, <2>1, <2>2, <2>3, <2>4, <2>5 DEF CleanupOK
<1> QED BY <1>2, <1>4, <1>5, <1>6

\* Steps of cleanups that leave the servers alone.
LEMMA BedsStay ==
    ASSUME HttpInv, BedInv, UNCHANGED httpVars, CleanupsGoOn, bed' = bed,
           \A s \in Servers : s \in Range(instances') => s \in Range(instances),
           instances' # instances => \E k \in Cleanups : cleanup'[k].state = "resolved"
    PROVE  /\ \A s \in Servers : BedOK(s)'
           /\ \A s \in Servers : ClosersKept(s)
<1>1. UNCHANGED <<scenario, handle, listens, closers, attached, stage>>
  BY DEF httpVars, servers, calls
<1>2. ASSUME NEW s \in Servers PROVE BedOK(s)'
  <2>1. BedOK(s) /\ closers[s] \in Seq({"waiting", "refused", "resolved", "rejected"})
    BY DEF BedInv, HttpInv, HttpTypes
  <2>2. Connected(s)' = Connected(s)
    BY <1>1 DEF Connected, To, Call
  <2>3. BedKept(s)
    BY <1>1, <2>2 DEF BedKept
  <2> QED BY <2>1, <2>3, BedStays
<1> QED BY <1>1, <1>2 DEF ClosersKept

\* One bed of a cleanup comes to an end of its steps: its number stays, the state may change.
LEMMA TaskMoves ==
    ASSUME BedTypes, NEW k \in Cleanups, NEW s \in cleanup[k].on, NEW step \in Steps,
           NEW state \in {"running", "threw", "idle", "rejected", "resolved"},
           \/ cleanup' = [cleanup EXCEPT ![k].at[s] = step, ![k].state = state]
           \/ cleanup' = [cleanup EXCEPT ![k].at[s] = step] /\ state = cleanup[k].state
    PROVE  TaskStep(k, s, step, cleanup[k].closer[s], state)
<1>1. PICK on, after, before, at, closer :
        /\ on = cleanup[k].on /\ after = cleanup[k].after /\ before = cleanup[k].state
        /\ at = cleanup[k].at /\ closer = cleanup[k].closer
  OBVIOUS
<1>2. PICK old : old = cleanup[k]
  OBVIOUS
<1>3. /\ old = [on |-> on, after |-> after, state |-> before, at |-> at, closer |-> closer]
      /\ closer \in [on -> Nat]
  BY <1>1, <1>2, TaskTypes
<1>4. PICK moved : moved = [at EXCEPT ![s] = step]
  OBVIOUS
<1>5. PICK first : first = [old EXCEPT !.at = moved]
  OBVIOUS
<1>6. first = [on |-> on, after |-> after, state |-> before, at |-> moved, closer |-> closer]
  BY <1>3, <1>5
<1>7. PICK task : task = [on |-> on, after |-> after, state |-> state, at |-> moved, closer |-> closer]
  OBVIOUS
<1>8. [first EXCEPT !.state = state] = task
  BY <1>6, <1>7
<1>9. cleanup' = [cleanup EXCEPT ![k] = task]
  <2>1. CASE cleanup' = [cleanup EXCEPT ![k].at[s] = step, ![k].state = state]
    <3>1. cleanup' = [cleanup EXCEPT ![k] = [[old EXCEPT !.at = moved] EXCEPT !.state = state]]
      BY <1>1, <1>2, <1>4, <2>1
    <3> QED BY <1>5, <1>8, <3>1
  <2>2. CASE cleanup' = [cleanup EXCEPT ![k].at[s] = step] /\ state = cleanup[k].state
    <3>1. cleanup' = [cleanup EXCEPT ![k] = [old EXCEPT !.at = moved]]
      BY <1>1, <1>2, <1>4, <2>2
    <3>2. first = task
      BY <1>1, <1>6, <1>7, <2>2
    <3> QED BY <1>5, <3>1, <3>2
  <2> QED BY <2>1, <2>2
<1>10. [closer EXCEPT ![s] = closer[s]] = closer
  BY <1>3
<1>11. PICK number : number = cleanup[k].closer[s]
  OBVIOUS
<1>12. number \in Nat /\ closer = [cleanup[k].closer EXCEPT ![s] = number]
  BY <1>1, <1>3, <1>10, <1>11
<1>13. TaskStep(k, s, step, number, state)
  <2>1. moved = [cleanup[k].at EXCEPT ![s] = step]
    BY <1>1, <1>4
  <2>2. task = [on |-> cleanup[k].on, after |-> cleanup[k].after, state |-> state, at |-> moved, closer |-> closer]
    BY <1>1, <1>7
  <2> QED BY ONLY BedTypes, k \in Cleanups, s \in cleanup[k].on, step \in Steps,
                  state \in {"running", "threw", "idle", "rejected", "resolved"},
                  <1>9, <1>12, <2>1, <2>2, TaskSteps
<1> QED BY <1>11, <1>13

LEMMA DependencyFailsKeeps ==
    ASSUME Inv, NEW k \in Cleanups, NEW s \in cleanup[k].on, DependencyFails(k, s)
    PROVE  Inv'
<1>1. HttpInv /\ BedInv
  BY DEF Inv
<1>2. /\ cleanup[k].at[s] = "dependencies" /\ UNCHANGED <<httpVars, bed, instances>>
      /\ cleanup' = [cleanup EXCEPT ![k].at[s] = "failed", ![k].state = "rejected"]
  BY DEF DependencyFails, At
<1>3. HttpInv' /\ scenario' = scenario /\ closers' = closers
  BY <1>1, <1>2, HttpStays DEF httpVars, servers
<1>4. StepOK(k, s) /\ cleanup[k].closer[s] = 0
  BY <1>1, <1>2 DEF BedInv, CleanupOK, StepOK
<1>5. TaskStep(k, s, "failed", 0, "rejected")
  BY <1>1, <1>2, <1>4, TaskMoves DEF BedInv, Steps
<1>6. StepOK(k, s)'
  BY <1>2, <1>4, <1>5 DEF StepOK, TaskStep
<1>7. \A t \in Servers : ClosersKept(t)
  BY <1>3 DEF ClosersKept
<1>8. BedTypes' /\ CleanupsGoOn /\ \A j \in Cleanups : CleanupOK(j)'
  BY <1>1, <1>2, <1>3, <1>4, <1>5, <1>6, <1>7, TaskStepKeeps DEF Steps
<1>9. \A t \in Servers : BedOK(t)'
  BY <1>1, <1>2, <1>8, BedsStay
<1>10. BedInv'
  BY <1>8, <1>9 DEF BedInv
<1> QED BY <1>3, <1>10 DEF Inv

\* The close of a bed's server has ended: its outcome is that of the step.
LEMMA FinishedKeeps ==
    ASSUME Inv, NEW k \in Cleanups, NEW s \in cleanup[k].on, Finished(k, s)
    PROVE  Inv'
<1>1. HttpInv /\ BedInv
  BY DEF Inv
<1>2. /\ cleanup[k].at[s] = "finishing" /\ UNCHANGED <<httpVars, bed, instances>>
  BY DEF Finished, At
<1>3. HttpInv' /\ scenario' = scenario /\ closers' = closers
  BY <1>1, <1>2, HttpStays DEF httpVars, servers
<1>4. PICK number \in Nat : number = cleanup[k].closer[s]
  BY <1>1, TaskTypes DEF BedInv
<1>5. StepOK(k, s) /\ number # 0 /\ number \in DOMAIN closers[s]
  BY <1>1, <1>2, <1>4 DEF BedInv, CleanupOK, StepOK
<1>6. PICK step \in {"finished", "failed"}, state \in {"running", "threw", "idle", "rejected", "resolved"} :
        /\ TaskStep(k, s, step, number, state)
        /\ step = "finished" => closers[s][number] = "resolved" /\ state = cleanup[k].state
        /\ step = "failed" => closers[s][number] = "rejected" /\ state = "rejected"
  <2>1. cleanup[k].state \in {"running", "threw", "idle", "rejected", "resolved"}
    BY <1>1, TaskTypes DEF BedInv
  <2>2. CASE closers[s][number] = "resolved" /\ cleanup' = [cleanup EXCEPT ![k].at[s] = "finished"]
    <3>1. TaskStep(k, s, "finished", number, cleanup[k].state)
      BY <1>1, <1>4, <2>1, <2>2, TaskMoves DEF BedInv, Steps
    <3> QED BY <2>1, <2>2, <3>1
  <2>3. CASE /\ closers[s][number] = "rejected"
             /\ cleanup' = [cleanup EXCEPT ![k].at[s] = "failed", ![k].state = "rejected"]
    <3>1. TaskStep(k, s, "failed", number, "rejected")
      BY <1>1, <1>4, <2>3, TaskMoves DEF BedInv, Steps
    <3> QED BY <2>3, <3>1
  <2> QED BY <1>4, <2>2, <2>3 DEF Finished
<1>7. StepOK(k, s)'
  <2>1. cleanup'[k].at[s] = step /\ cleanup'[k].closer[s] = number
    BY <1>6 DEF TaskStep
  <2>2. bed'[s] = "ready"
    BY <1>2, <1>5 DEF StepOK
  <2> QED BY <1>3, <1>5, <1>6, <2>1, <2>2 DEF StepOK
<1>8. \A t \in Servers : ClosersKept(t)
  BY <1>3 DEF ClosersKept
<1>9. BedTypes' /\ CleanupsGoOn /\ \A j \in Cleanups : CleanupOK(j)'
  BY <1>1, <1>2, <1>3, <1>4, <1>6, <1>7, <1>8, TaskStepKeeps DEF Steps
<1>10. \A t \in Servers : BedOK(t)'
  BY <1>1, <1>2, <1>9, BedsStay
<1>11. BedInv'
  BY <1>9, <1>10 DEF BedInv
<1> QED BY <1>3, <1>11 DEF Inv


\* A bed of a cleanup waits for the close that it has called.
LEMMA TaskFinishes ==
    ASSUME BedTypes, NEW k \in Cleanups, NEW s \in cleanup[k].on, NEW number \in Nat,
           cleanup' = [cleanup EXCEPT ![k].at[s] = "finishing", ![k].closer[s] = number]
    PROVE  TaskStep(k, s, "finishing", number, cleanup[k].state)
<1>1. PICK on, after, state, at, closer :
        /\ on = cleanup[k].on /\ after = cleanup[k].after /\ state = cleanup[k].state
        /\ at = cleanup[k].at /\ closer = cleanup[k].closer
  OBVIOUS
<1>2. PICK old : old = cleanup[k]
  OBVIOUS
<1>3. /\ old = [on |-> on, after |-> after, state |-> state, at |-> at, closer |-> closer]
      /\ state \in {"running", "threw", "idle", "rejected", "resolved"}
  BY <1>1, <1>2, TaskTypes
<1>4. PICK moved, counted : moved = [at EXCEPT ![s] = "finishing"] /\ counted = [closer EXCEPT ![s] = number]
  OBVIOUS
<1>5. PICK first : first = [old EXCEPT !.at = moved]
  OBVIOUS
<1>6. first = [on |-> on, after |-> after, state |-> state, at |-> moved, closer |-> closer]
  BY <1>3, <1>5
<1>7. PICK task : task = [on |-> on, after |-> after, state |-> state, at |-> moved, closer |-> counted]
  OBVIOUS
<1>8. [first EXCEPT !.closer = counted] = task
  BY <1>6, <1>7
<1>9. cleanup' = [cleanup EXCEPT ![k] = task]
  <2>1. first.closer = closer
    BY <1>6
  <2>2. cleanup' = [cleanup EXCEPT ![k] = [first EXCEPT !.closer[s] = number]]
    BY <1>1, <1>2, <1>4, <1>5
  <2> QED BY <1>4, <1>8, <2>1, <2>2
<1>10. TaskStep(k, s, "finishing", number, state)
  <2>1. moved = [cleanup[k].at EXCEPT ![s] = "finishing"] /\ counted = [cleanup[k].closer EXCEPT ![s] = number]
    BY <1>1, <1>4
  <2>2. task = [on |-> cleanup[k].on, after |-> cleanup[k].after, state |-> state, at |-> moved, closer |-> counted]
    BY <1>1, <1>7
  <2>3. "finishing" \in Steps
    BY DEF Steps
  <2> QED BY ONLY BedTypes, k \in Cleanups, s \in cleanup[k].on, number \in Nat,
                  <1>3, <1>9, <2>1, <2>2, <2>3, TaskSteps
<1> QED BY <1>1, <1>10

\* The promise of a close is one more, and the first is not refused.
LEMMA Closing ==
    ASSUME HttpInv, NEW s \in Servers, Close(s), closers[s] = <<>> => handle[s] = "open",
           NEW n \in Nat, n = Len(closers[s])
    PROVE  /\ DOMAIN closers[s] = 1..n /\ DOMAIN closers'[s] = 1..(n + 1)
           /\ \A i \in 1..n : closers'[s][i] = closers[s][i]
           /\ closers'[s][n + 1] \in {"waiting", "refused"}
           /\ closers'[s][n + 1] = "refused" => n + 1 # 1
<1>1. PICK old : old = closers[s]
  OBVIOUS
<1>2. old \in Seq({"waiting", "refused", "resolved", "rejected"}) /\ DOMAIN old = 1..n /\ n = Len(old)
  BY <1>1 DEF HttpInv, HttpTypes
<1>3. PICK promise : promise = IF handle[s] = "open" THEN "waiting" ELSE "refused"
  OBVIOUS
<1>4. closers'[s] = Append(old, promise)
  BY <1>1, <1>3 DEF Close, HttpInv, HttpTypes
<1>5. promise \in {"waiting", "refused"} /\ (promise = "refused" => old # <<>>)
  BY <1>1, <1>3
<1>6. old # <<>> => n # 0
  BY <1>2
<1>7. /\ DOMAIN Append(old, promise) = 1..(n + 1) /\ Append(old, promise)[n + 1] = promise
      /\ \A i \in 1..n : Append(old, promise)[i] = old[i]
  BY <1>2
<1>8. n # 0 => n + 1 # 1
  OBVIOUS
<1> QED BY <1>1, <1>2, <1>4, <1>5, <1>6, <1>7, <1>8

\* A bed closes its server and waits for that close.
LEMMA FinishKeeps ==
    ASSUME Inv, NEW k \in Cleanups, NEW s \in cleanup[k].on, Finish(k, s)
    PROVE  Inv'
<1>1. HttpInv /\ BedInv
  BY DEF Inv
<1>2. s \in Servers
  BY <1>1, TaskTypes DEF BedInv
<1>3. PICK n \in Nat : n = Len(closers[s])
  BY <1>1, <1>2 DEF HttpInv, HttpTypes
<1>4. /\ cleanup[k].at[s] = "dependencies" /\ Close(s) /\ UNCHANGED <<scenario, calls, bed, instances>>
      /\ cleanup' = [cleanup EXCEPT ![k].at[s] = "finishing", ![k].closer[s] = n + 1]
  BY <1>3 DEF Finish, At
<1>5. ServerStep(s)
  BY <1>1, <1>2, <1>4, CloseIsStep
<1>6. HttpInv'
  BY <1>1, <1>2, <1>5, ServerStepKeeps
<1>7. CleanupOK(k) /\ StepOK(k, s)
  BY <1>1 DEF BedInv, CleanupOK
<1>8. bed[s] = "ready" /\ cleanup[k].closer[s] = 0
  BY <1>4, <1>7 DEF StepOK
<1>9. scenario.beds /\ BedOK(s)
  BY <1>1, <1>2, <1>8 DEF BedInv, BedOK
<1>10. /\ Started(s) /\ UNCHANGED <<listens, attached, stage>> /\ handle'[s] = "none"
       /\ closers[s] = <<>> => handle[s] = "open"
  <2>1. Started(s) /\ UNCHANGED <<listens, attached, stage>> /\ handle' = [handle EXCEPT ![s] = "none"]
    BY <1>4 DEF Close, calls
  <2> QED BY <1>1, <1>2, <1>9, <2>1 DEF HttpInv, HttpTypes, BedOK
<1>11. /\ DOMAIN closers[s] = 1..n /\ DOMAIN closers'[s] = 1..(n + 1)
       /\ \A i \in 1..n : closers'[s][i] = closers[s][i]
       /\ closers'[s][n + 1] \in {"waiting", "refused"}
       /\ closers'[s][n + 1] = "refused" => n + 1 # 1
  BY <1>1, <1>2, <1>3, <1>4, <1>10, Closing
<1>12. 1..(n + 1) = 1..n \union {n + 1} /\ n + 1 # 0 /\ n + 1 \in Nat
  OBVIOUS
<1>13. TaskStep(k, s, "finishing", n + 1, cleanup[k].state)
  BY <1>1, <1>4, <1>12, TaskFinishes DEF BedInv
<1>14. StepOK(k, s)'
  <2>1. cleanup'[k].at[s] = "finishing" /\ cleanup'[k].closer[s] = n + 1 /\ bed'[s] = "ready"
    BY <1>4, <1>8, <1>13 DEF TaskStep
  <2>2. n + 1 \in DOMAIN closers'[s]
    BY <1>11, <1>12
  <2> QED BY <1>12, <2>1, <2>2 DEF StepOK
<1>15. ASSUME NEW t \in Servers PROVE ClosersKept(t)
  <2>1. CASE t = s
    BY <1>11, <1>12, <2>1 DEF ClosersKept
  <2>2. CASE t # s
    BY <1>5, <2>2 DEF ClosersKept, ServerStep
  <2> QED BY <2>1, <2>2
<1>16. BedTypes' /\ CleanupsGoOn /\ \A j \in Cleanups : CleanupOK(j)'
  BY <1>1, <1>4, <1>8, <1>13, <1>14, <1>15, TaskStepKeeps DEF Steps
<1>17. ASSUME NEW t \in Servers, t # s PROVE BedOK(t)'
  BY <1>1, <1>2, <1>4, <1>5, <1>16, <1>17, OthersStay
<1>18. BedOK(s)'
  <2>1. /\ scenario' = scenario /\ bed'[s] = "ready" /\ listens'[s] = listens[s] /\ attached'[s] = attached[s]
        /\ Started(s)' /\ Connected(s)' = Connected(s)
    BY <1>4, <1>8, <1>10 DEF Started, Connected, To, Call
  <2>2. closers'[s] # <<>>
    BY <1>11, <1>12
  <2>3. ASSUME NEW i \in DOMAIN closers'[s]
        PROVE  /\ closers'[s][i] \in {"refused", "rejected"} => i # 1
               /\ closers'[s][i] \in {"resolved", "rejected"} => ~attached[s] /\ ~Connected(s)
               /\ \E j \in Cleanups : s \in cleanup'[j].on /\ cleanup'[j].closer[s] = i
    <3>1. CASE i \in 1..n
      <4>1. i \in DOMAIN closers[s] /\ closers'[s][i] = closers[s][i] /\ i # 0
        BY <1>11, <3>1
      <4>2. PICK j \in Cleanups : s \in cleanup[j].on /\ cleanup[j].closer[s] = i
        BY <1>9, <4>1 DEF BedOK
      <4>3. s \in cleanup'[j].on /\ cleanup'[j].closer[s] = i
        BY <1>16, <4>1, <4>2 DEF CleanupsGoOn
      <4> QED BY <1>9, <4>1, <4>3 DEF BedOK
    <3>2. CASE i = n + 1
      <4>1. s \in cleanup'[k].on /\ cleanup'[k].closer[s] = i
        BY <1>13, <3>2 DEF TaskStep
      <4> QED BY <1>11, <3>2, <4>1
    <3> QED BY <1>11, <1>12, <2>3, <3>1, <3>2
  <2>4. s \notin Range(instances') => \E j \in Cleanups : cleanup'[j].state = "resolved"
    <3>1. instances' = instances
      BY <1>4
    <3> QED BY <1>8, <1>9, <1>16, <3>1 DEF BedOK, CleanupsGoOn
  <2>5. Len(listens[s]) <= 1
    BY <1>9 DEF BedOK
  <2> QED BY <1>9, <1>10, <2>1, <2>2, <2>3, <2>4, <2>5 DEF BedOK
<1>19. BedInv'
  BY <1>16, <1>17, <1>18 DEF BedInv
<1> QED BY <1>6, <1>19 DEF Inv


\* A cleanup takes all beds that are registered: none of them is that of one that has resolved.
LEMMA CleanUpKeeps ==
    ASSUME Inv, NEW k \in Cleanups, CleanUp(k)
    PROVE  Inv'
<1>1. HttpInv /\ BedInv
  BY DEF Inv
<1>2. PICK throws \in BOOLEAN :
        cleanup' = [cleanup EXCEPT ![k] =
          [on |-> Range(instances),
           after |-> {j \in Cleanups : cleanup[j].state = "resolved"},
           state |-> IF throws THEN "threw" ELSE "running",
           at |-> [s \in Range(instances) |-> IF throws THEN "none" ELSE "dependencies"],
           closer |-> [s \in Range(instances) |-> 0]]]
  BY DEF CleanUp
<1>3. scenario.beds /\ cleanup[k].state = "idle" /\ UNCHANGED <<httpVars, bed, instances>>
  BY DEF CleanUp
<1>4. HttpInv' /\ scenario' = scenario /\ closers' = closers
  BY <1>1, <1>3, HttpStays DEF httpVars, servers
<1>5. PICK on, after, state, at, closer, task :
        /\ on = Range(instances) /\ after = {j \in Cleanups : cleanup[j].state = "resolved"}
        /\ state = IF throws THEN "threw" ELSE "running"
        /\ at = [s \in on |-> IF throws THEN "none" ELSE "dependencies"] /\ closer = [s \in on |-> 0]
        /\ task = [on |-> on, after |-> after, state |-> state, at |-> at, closer |-> closer]
  OBVIOUS
<1>6. cleanup' = [cleanup EXCEPT ![k] = task]
  BY <1>2, <1>5
<1>7. /\ on \in SUBSET Servers /\ after \in SUBSET Cleanups /\ state \in {"threw", "running"}
      /\ at \in [on -> {"none", "dependencies"}] /\ closer \in [on -> {0}]
  <2>1. on \in SUBSET Servers
    BY <1>1, <1>5, RangeInSet DEF BedInv, BedTypes
  <2> QED BY <1>5, <2>1
<1>8. task \in Tasks
  <2>1. at \in [on -> Steps] /\ closer \in [on -> Nat]
    BY <1>7 DEF Steps
  <2>2. task \in TaskOf(on)
    BY <1>5, <1>7, <2>1 DEF TaskOf
  <2> QED BY <1>7, <2>2 DEF Tasks
<1>9. cleanup' \in [Cleanups -> Tasks] /\ cleanup'[k] = task /\ \A j \in Cleanups \ {k} : cleanup'[j] = cleanup[j]
  BY <1>1, <1>6, <1>8 DEF BedInv, BedTypes
<1>10. task.on = on /\ task.after = after /\ task.state = state /\ task.at = at /\ task.closer = closer
  BY <1>5
<1>11. BedTypes'
  BY <1>1, <1>3, <1>9 DEF BedInv, BedTypes
<1>12. cleanup[k].on = {}
  BY <1>1, <1>3 DEF BedInv, CleanupOK
<1>13. CleanupsGoOn
  BY <1>3, <1>9, <1>12 DEF CleanupsGoOn
<1>14. Surroundings
  BY <1>3, <1>4, <1>9 DEF Surroundings, ClosersKept
<1>15. ASSUME NEW j \in Cleanups, j # k PROVE CleanupOK(j)'
  BY <1>1, <1>3, <1>9, <1>14, <1>15, CleanupStays DEF BedInv
<1>16. CleanupOK(k)'
  <2>1. ASSUME NEW s \in on PROVE StepOK(k, s)'
    <3>1. s \in Servers /\ BedOK(s)
      BY <1>1, <1>7, <2>1 DEF BedInv
    <3>2. bed'[s] = "ready"
      BY <1>3, <1>5, <2>1, <3>1 DEF BedOK
    <3>3. at[s] \in {"none", "dependencies"} /\ closer[s] = 0
      BY <1>7, <2>1
    <3> QED BY <1>9, <1>10, <3>2, <3>3 DEF StepOK
  <2>2. ASSUME NEW j \in after PROVE cleanup'[j].state = "resolved" /\ cleanup'[j].on \intersect on = {}
    <3>1. j \in Cleanups /\ cleanup[j].state = "resolved" /\ CleanupOK(j)
      BY <1>1, <1>5, <2>2 DEF BedInv
    <3>2. cleanup'[j] = cleanup[j]
      BY <1>3, <1>9, <3>1
    <3>3. cleanup[j].on \intersect Range(instances) = {}
      BY <3>1 DEF CleanupOK
    <3> QED BY <1>5, <3>1, <3>2, <3>3
  <2>3. scenario'.beds
    BY <1>3, <1>4
  <2> QED BY <1>7, <1>9, <1>10, <2>1, <2>2, <2>3 DEF CleanupOK
<1>17. \A s \in Servers : BedOK(s)'
  BY <1>1, <1>3, <1>13, BedsStay
<1>18. BedInv'
  BY <1>11, <1>15, <1>16, <1>17 DEF BedInv
<1> QED BY <1>4, <1>18 DEF Inv

\* A cleanup that resolves leaves no bed registered.
LEMMA CleanedUpKeeps ==
    ASSUME Inv, NEW k \in Cleanups, CleanedUp(k)
    PROVE  Inv'
<1>1. HttpInv /\ BedInv
  BY DEF Inv
<1>2. /\ cleanup[k].state = "running" /\ \A s \in cleanup[k].on : cleanup[k].at[s] = "finished"
      /\ cleanup' = [cleanup EXCEPT ![k].state = "resolved"] /\ instances' = <<>>
      /\ UNCHANGED <<httpVars, bed>>
  BY DEF CleanedUp, Running
<1>3. HttpInv' /\ scenario' = scenario /\ closers' = closers
  BY <1>1, <1>2, HttpStays DEF httpVars, servers
<1>4. PICK on, after, state, at, closer :
        /\ on = cleanup[k].on /\ after = cleanup[k].after /\ state = cleanup[k].state
        /\ at = cleanup[k].at /\ closer = cleanup[k].closer
  OBVIOUS
<1>5. PICK old : old = cleanup[k]
  OBVIOUS
<1>6. /\ old = [on |-> on, after |-> after, state |-> state, at |-> at, closer |-> closer]
      /\ on \in SUBSET Servers /\ after \in SUBSET Cleanups /\ at \in [on -> Steps] /\ closer \in [on -> Nat]
  BY <1>1, <1>4, <1>5, TaskTypes DEF BedInv
<1>7. PICK task : task = [on |-> on, after |-> after, state |-> "resolved", at |-> at, closer |-> closer]
  OBVIOUS
<1>8. [old EXCEPT !.state = "resolved"] = task
  BY <1>6, <1>7
<1>9. cleanup' = [cleanup EXCEPT ![k] = task]
  BY <1>2, <1>5, <1>8
<1>10. task \in Tasks
  <2>1. task \in TaskOf(on)
    BY <1>6, <1>7 DEF TaskOf
  <2> QED BY <1>6, <2>1 DEF Tasks
<1>11. cleanup' \in [Cleanups -> Tasks] /\ cleanup'[k] = task /\ \A j \in Cleanups \ {k} : cleanup'[j] = cleanup[j]
  BY <1>1, <1>9, <1>10 DEF BedInv, BedTypes
<1>12. /\ cleanup'[k].on = cleanup[k].on /\ cleanup'[k].after = cleanup[k].after /\ cleanup'[k].state = "resolved"
       /\ cleanup'[k].at = cleanup[k].at /\ cleanup'[k].closer = cleanup[k].closer
  BY <1>4, <1>7, <1>11
<1>13. instances' \in Seq(Servers) /\ Range(instances') = {}
  BY <1>2 DEF Range
<1>14. BedTypes'
  BY <1>1, <1>2, <1>11, <1>13 DEF BedInv, BedTypes
<1>15. CleanupsGoOn
  <2> SUFFICES ASSUME NEW j \in Cleanups
               PROVE  /\ cleanup[j].state = "resolved" => cleanup'[j].state = "resolved"
                      /\ \A s \in cleanup[j].on :
                            /\ s \in cleanup'[j].on
                            /\ cleanup[j].closer[s] # 0 => cleanup'[j].closer[s] = cleanup[j].closer[s]
    BY DEF CleanupsGoOn
  <2>1. CASE j = k
    BY <1>12, <2>1
  <2>2. CASE j # k
    BY <1>11, <2>2
  <2> QED BY <2>1, <2>2
<1>16. Surroundings
  BY <1>2, <1>3, <1>11 DEF Surroundings, ClosersKept
<1>17. ASSUME NEW j \in Cleanups, j # k PROVE CleanupOK(j)'
  BY <1>1, <1>11, <1>13, <1>16, <1>17, CleanupStays DEF BedInv
<1>18. CleanupOK(k)'
  <2>1. CleanupOK(k)
    BY <1>1 DEF BedInv
  <2>2. \A s \in cleanup[k].on : StepOK(k, s)'
    BY <1>1, <1>12, <1>16, <2>1, StepStays DEF BedInv, CleanupOK
  <2>3. scenario'.beds
    BY <1>2, <1>3, <2>1 DEF CleanupOK
  <2>4. ASSUME NEW j \in cleanup[k].after
        PROVE  cleanup'[j].state = "resolved" /\ cleanup'[j].on \intersect cleanup[k].on = {}
    <3>1. cleanup[j].state = "resolved" /\ cleanup[j].on \intersect cleanup[k].on = {}
      BY <2>1, <2>4 DEF CleanupOK
    <3>2. j \in Cleanups /\ j # k
      BY <1>2, <1>4, <1>6, <2>4, <3>1
    <3> QED BY <1>11, <3>1, <3>2
  <2> QED BY <1>2, <1>12, <1>13, <2>2, <2>3, <2>4 DEF CleanupOK
<1>19. \A s \in Servers : BedOK(s)'
  BY <1>1, <1>2, <1>12, <1>13, <1>15, BedsStay
<1>20. BedInv'
  BY <1>14, <1>17, <1>18, <1>19 DEF BedInv
<1> QED BY <1>3, <1>20 DEF Inv


------------------------------------------------------------------------------
(* The invariant.                                                             *)

\* Of nothing, nothing is at any step.
LEMMA EmptyTask ==
    ASSUME NEW S
    PROVE  <<>> \in [{} -> S]
<1>1. PICK empty : empty = <<>>
  OBVIOUS
<1>2. empty \in Seq(S) /\ Len(empty) = 0
  BY <1>1
<1>3. DOMAIN empty = {}
  BY <1>2
<1>4. empty \in [1..0 -> S]
  BY <1>2
<1>5. 1..0 = {}
  OBVIOUS
<1> QED BY <1>1, <1>4, <1>5

\* Nothing listens, nothing is asked for, and no bed is made.
LEMMA InitKeeps ==
    ASSUME Init
    PROVE  Inv
<1>1. /\ scenario \in Scenarios
      /\ handle = [s \in Servers |-> "none"] /\ listens = [s \in Servers |-> <<>>]
      /\ attached = [s \in Servers |-> TRUE] /\ handlers = [s \in Servers |-> 0]
      /\ live = [s \in Servers |-> Pipelines] /\ closers = [s \in Servers |-> <<>>]
      /\ effects = [s \in Servers |-> TRUE] /\ logs = [s \in Servers |-> {}]
      /\ stage = [c \in Calls |-> "idle"] /\ runs = [c \in Calls |-> <<>>] /\ outbox = [c \in Calls |-> <<>>]
  BY DEF Init, HttpInit
<1>2. PICK empty : empty = <<>>
  OBVIOUS
<1>3. /\ bed = [s \in Servers |-> "absent"] /\ instances = empty
      /\ cleanup = [k \in Cleanups |->
                      [on |-> {}, after |-> {}, state |-> "idle", at |-> empty, closer |-> empty]]
  BY <1>2 DEF Init
<1>4. /\ \A S : empty \in Seq(S)
      /\ Len(empty) = 0 /\ DOMAIN empty = {} /\ Range(empty) = {}
  BY <1>2 DEF Range
<1>5. HttpTypes
  BY <1>1, <1>2, <1>4 DEF HttpTypes, Stages
<1>6. IdleOK
  BY <1>1 DEF IdleOK
<1>7. ASSUME NEW s \in Servers PROVE ListenOK(s) /\ LogOK(s) /\ StreamOK(s) /\ BedOK(s)
  <2>1. /\ handle[s] = "none" /\ listens[s] = empty /\ attached[s] /\ handlers[s] = 0 /\ live[s] = Pipelines
        /\ closers[s] = empty /\ effects[s] /\ logs[s] = {} /\ bed[s] = "absent"
    BY <1>1, <1>2, <1>3
  <2>2. ~Started(s)
    BY <1>4, <2>1 DEF Started
  <2>3. ListenOK(s)
    BY <1>4, <2>1, <2>2 DEF ListenOK
  <2>4. LogOK(s)
    BY <2>1 DEF LogOK
  <2>5. ASSUME NEW c \in Calls PROVE CallOK(c)
    <3>1. runs[c] = empty /\ outbox[c] = empty /\ stage[c] = "idle"
      BY <1>1, <1>2
    <3>2. Quiet(c)
      BY <1>4, <3>1 DEF Quiet
    <3> QED BY <1>2, <1>4, <3>1, <3>2 DEF CallOK
  <2>6. StreamOK(s)
    BY <2>1, <2>5 DEF StreamOK
  <2>7. BedOK(s)
    BY <1>2, <1>3, <1>4, <2>1, <2>2 DEF BedOK
  <2> QED BY <2>3, <2>4, <2>6, <2>7
<1>8. BedTypes
  <2>1. [on |-> {}, after |-> {}, state |-> "idle", at |-> empty, closer |-> empty] \in TaskOf({})
    BY <1>2, EmptyTask DEF TaskOf
  <2>2. [on |-> {}, after |-> {}, state |-> "idle", at |-> empty, closer |-> empty] \in Tasks
    BY <2>1 DEF Tasks
  <2> QED BY <1>3, <1>4, <2>2 DEF BedTypes
<1>9. ASSUME NEW k \in Cleanups PROVE CleanupOK(k)
  <2>1. cleanup[k] = [on |-> {}, after |-> {}, state |-> "idle", at |-> empty, closer |-> empty]
    BY <1>3
  <2>2. cleanup[k].on = {} /\ cleanup[k].after = {} /\ cleanup[k].state = "idle"
    BY <2>1
  <2> QED BY <2>2 DEF CleanupOK
<1> QED BY <1>5, <1>6, <1>7, <1>8, <1>9 DEF Inv, HttpInv, BedInv

\* A step in which nothing happens.
LEMMA StutterKeeps ==
    ASSUME Inv, UNCHANGED vars
    PROVE  Inv'
<1>1. HttpInv /\ BedInv
  BY DEF Inv
<1>2. UNCHANGED httpVars /\ UNCHANGED <<bed, instances, cleanup>>
  BY DEF vars, bedVars
<1>3. HttpInv' /\ scenario' = scenario /\ closers' = closers
  BY <1>1, <1>2, HttpStays DEF httpVars, servers
<1>4. CleanupsGoOn /\ Surroundings
  BY <1>2, <1>3 DEF CleanupsGoOn, Surroundings, ClosersKept
<1>5. BedTypes'
  BY <1>1, <1>2 DEF BedInv, BedTypes
<1>6. \A s \in Servers : BedOK(s)'
  BY <1>1, <1>2, <1>4, BedsStay
<1>7. \A k \in Cleanups : CleanupOK(k)'
  BY <1>1, <1>2, <1>4, CleanupStays DEF BedInv
<1>8. BedInv'
  BY <1>5, <1>6, <1>7 DEF BedInv
<1> QED BY <1>3, <1>8 DEF Inv

\* Servers, calls and test beds keep the invariant in whatever order they take their steps:
\* createServer, listen and close, resolve and handleResponse, useTestBed and cleanup
\* (http.server.ts, http.router.ts, http.responseHandler.ts, testBedContainer.ts).
THEOREM Invariance == Spec => []Inv
<1>1. Init => Inv
  BY InitKeeps
<1>2. Inv /\ [Next]_vars => Inv'
  <2> SUFFICES ASSUME Inv, [Next]_vars PROVE Inv'
    OBVIOUS
  <2>1. CASE \E s \in Servers : Own(s) \/ Socket(s) \/ UseTestBed(s) \/ Register(s)
    BY <2>1, OwnKeeps, SocketKeeps, UseTestBedKeeps, RegisterKeeps
  <2>2. CASE \E c \in Calls : Client(c)
    BY <2>2, ClientKeeps
  <2>3. ASSUME NEW k \in Cleanups, CleanUp(k) PROVE Inv'
    BY <2>3, CleanUpKeeps
  <2>4. ASSUME NEW k \in Cleanups, CleanupStep(k) PROVE Inv'
    <3>1. ASSUME NEW s \in cleanup[k].on, DependencyFails(k, s) \/ Finish(k, s) \/ Finished(k, s) PROVE Inv'
      BY <3>1, DependencyFailsKeeps, FinishKeeps, FinishedKeeps
    <3>2. CASE CleanedUp(k)
      BY <3>2, CleanedUpKeeps
    <3> QED BY <2>4, <3>1, <3>2 DEF CleanupStep
  <2>5. CASE UNCHANGED vars
    BY <2>5, StutterKeeps
  <2> QED BY <2>1, <2>2, <2>3, <2>4, <2>5 DEF Next
<1> QED BY <1>1, <1>2, PTL DEF Spec


\* The close that a cleanup has waited for: it was called on the bed's server, and the server
\* has not been opened since.
LEMMA ClosedBy ==
    ASSUME Inv, NEW k \in Cleanups, NEW s \in cleanup[k].on, cleanup[k].closer[s] # 0
    PROVE  /\ s \in Servers /\ scenario.beds /\ handle[s] = "none" /\ 1 \in DOMAIN closers[s]
           /\ cleanup[k].closer[s] \in DOMAIN closers[s]
           /\ cleanup[k].at[s] = "failed" => closers[s][cleanup[k].closer[s]] = "rejected"
           /\ cleanup[k].at[s] = "finished" => closers[s][cleanup[k].closer[s]] = "resolved"
<1>1. HttpInv /\ BedInv
  BY DEF Inv
<1>2. s \in Servers
  BY <1>1, TaskTypes DEF BedInv
<1>3. StepOK(k, s)
  BY <1>1 DEF BedInv, CleanupOK
<1>4. BedOK(s) /\ bed[s] = "ready"
  BY <1>1, <1>2, <1>3 DEF BedInv, StepOK
<1>5. PICK i : i = cleanup[k].closer[s]
  OBVIOUS
<1>6. i \in DOMAIN closers[s]
  BY <1>3, <1>5 DEF StepOK
<1>7. closers[s] # <<>> /\ 1 \in DOMAIN closers[s]
  <2>1. PICK list : list = closers[s]
    OBVIOUS
  <2>2. list \in Seq({"waiting", "refused", "resolved", "rejected"})
    BY <1>1, <1>2, <2>1 DEF HttpInv, HttpTypes
  <2> QED BY <1>6, <2>1, <2>2
<1>8. scenario.beds /\ handle[s] = "none"
  BY <1>4, <1>7 DEF BedOK
<1> QED BY <1>2, <1>3, <1>5, <1>6, <1>7, <1>8 DEF StepOK

LEMMA StreamsEnd ==
    ASSUME Inv
    PROVE  StreamsEndForReason /\ CloseIsLogged
<1>1. ASSUME NEW s \in Servers PROVE LogOK(s) /\ StreamOK(s)
  BY DEF Inv, HttpInv
<1>2. CloseIsLogged
  BY <1>1 DEF CloseIsLogged, LogOK
<1>3. ASSUME NEW s \in Servers, attached[s], live[s] # Pipelines
      PROVE  Relistened(s) \/ \E c \in Calls : To(c) = s /\ ~AnswersOnce(c)
  BY <1>1, <1>3 DEF StreamOK, Sane
<1>4. ASSUME NEW s \in Servers, ~attached[s], NEW c \in Calls, To(c) = s, stage[c] = "open"
      PROVE  ~Routed(c)
  BY <1>1, <1>4 DEF StreamOK, Routed
<1> QED BY <1>2, <1>3, <1>4 DEF StreamsEndForReason

\* A close that was refused is not the first: another cleanup has called that one, and neither
\* of the two had resolved when the other began, for then they would have no bed in common.
LEMMA RejectionHasReason ==
    ASSUME Inv
    PROVE  CleanupFailsForReason
<1>1. \A k \in Cleanups : CleanupOK(k)
  BY DEF Inv, BedInv
<1>2. ASSUME NEW k \in Cleanups, NEW s \in cleanup[k].on,
             cleanup[k].at[s] = "failed", cleanup[k].closer[s] # 0
      PROVE  \E j \in Cleanups \ {k} : s \in cleanup[j].on /\ Overlap(j, k)
  <2>1. PICK i : i = cleanup[k].closer[s]
    OBVIOUS
  <2>2. s \in Servers /\ scenario.beds /\ 1 \in DOMAIN closers[s] /\ i \in DOMAIN closers[s] /\ closers[s][i] = "rejected"
    BY <1>2, <2>1, ClosedBy
  <2>3. BedOK(s)
    BY <2>2 DEF Inv, BedInv
  <2>4. i # 1
    BY <2>2, <2>3 DEF BedOK
  <2>5. PICK j \in Cleanups : s \in cleanup[j].on /\ cleanup[j].closer[s] = 1
    BY <2>2, <2>3 DEF BedOK
  <2>6. j # k
    BY <2>1, <2>4, <2>5
  <2>7. j \notin cleanup[k].after
    BY <1>1, <1>2, <2>5 DEF CleanupOK
  <2>8. k \notin cleanup[j].after
    BY <1>1, <1>2, <2>5 DEF CleanupOK
  <2> QED BY <2>5, <2>6, <2>7, <2>8 DEF Overlap
<1>3. ASSUME NEW k \in Cleanups, cleanup[k].state = "rejected"
      PROVE  \E s \in cleanup[k].on : cleanup[k].at[s] = "failed"
  BY <1>1, <1>3 DEF CleanupOK
<1> QED BY <1>2, <1>3 DEF CleanupFailsForReason

LEMMA BedsEndClosed ==
    ASSUME Inv
    PROVE  ClosedUnlessFailed /\ ForgottenOnlyIfLate
<1>1. /\ \A k \in Cleanups : CleanupOK(k)
      /\ \A s \in Servers : BedOK(s)
      /\ stage \in [Calls -> Stages]
  BY DEF Inv, HttpInv, HttpTypes, BedInv
<1>2. ASSUME NEW k \in Cleanups, NEW s \in cleanup[k].on,
             cleanup[k].at[s] \in {"failed", "finished"}, handle[s] = "open"
      PROVE  cleanup[k].at[s] = "failed" /\ cleanup[k].closer[s] = 0
  <2>1. cleanup[k].closer[s] = 0
    BY <1>2, ClosedBy
  <2>2. StepOK(k, s)
    BY <1>1 DEF CleanupOK
  <2> QED BY <1>2, <2>1, <2>2 DEF StepOK
<1>3. ASSUME NEW k \in Cleanups, NEW s \in cleanup[k].on, cleanup[k].state = "resolved"
      PROVE  /\ handle[s] = "none" /\ ~attached[s]
             /\ \A c \in Calls : To(c) = s => stage[c] \in {"idle", "settled"}
  <2>1. cleanup[k].at[s] = "finished" /\ StepOK(k, s)
    BY <1>1, <1>3 DEF CleanupOK
  <2>2. cleanup[k].closer[s] # 0
    BY <2>1 DEF StepOK
  <2>3. PICK i : i = cleanup[k].closer[s]
    OBVIOUS
  <2>4. /\ s \in Servers /\ scenario.beds /\ handle[s] = "none"
        /\ i \in DOMAIN closers[s] /\ closers[s][i] = "resolved"
    BY <2>1, <2>2, <2>3, ClosedBy
  <2>5. ~attached[s] /\ ~Connected(s)
    BY <1>1, <2>4 DEF BedOK
  <2> QED BY <1>1, <2>4, <2>5 DEF Connected, Stages
<1>4. ASSUME NEW s \in Servers, bed[s] = "ready", s \notin Range(instances)
      PROVE  \E k \in Cleanups : cleanup[k].state = "resolved" /\ (handle[s] = "open" => s \notin cleanup[k].on)
  <2>1. PICK k \in Cleanups : cleanup[k].state = "resolved"
    BY <1>1, <1>4 DEF BedOK
  <2>2. s \in cleanup[k].on => handle[s] = "none"
    BY <1>3, <2>1
  <2> QED BY <2>1, <2>2
<1>5. ClosedUnlessFailed
  BY <1>2, <1>3 DEF ClosedUnlessFailed
<1>6. ForgottenOnlyIfLate
  BY <1>4 DEF ForgottenOnlyIfLate
<1> QED BY <1>5, <1>6

\* Servers and test beds end as their owners asked: response streams last until a server is
\* closed unless an effect answers otherwise than once or the server listens twice, a close is
\* logged, cleanup rejects for a reason, closes what it names and forgets nothing else
\* (subscribeResponse, closeServer, serverEvent$ of http.server.ts; cleanup of testBedContainer.ts).
THEOREM LifecycleIsSound == Spec => []LifecycleSound
<1>1. Inv => LifecycleSound
  BY StreamsEnd, RejectionHasReason, BedsEndClosed DEF LifecycleSound
<1> QED BY <1>1, Invariance, PTL


\* What the owners, clients and beds do keeps every variable of these in its type (http.server.ts,
\* http.responseHandler.ts, testBedContainer.ts).
THEOREM TypeCorrect == Spec => [](HttpTypes /\ BedTypes)
<1>1. Inv => HttpTypes /\ BedTypes
  BY DEF Inv, HttpInv, BedInv
<1> QED BY <1>1, Invariance, PTL

------------------------------------------------------------------------------
(* The metadata of requests.                                                  *)

Stored(c) == Call(c).id \in DOMAIN storage[To(c)]
Named(c) == Call(c).id # ""

\* A server that has started and not been closed hands every request to some handler.
HandlerOK(s) == attached[s] /\ listens[s] # <<>> => handlers[s] > 0

\* Whatever a storage keeps is of a request to its server that got to a route.
KeptOK ==
    \A s \in Servers : \A id \in DOMAIN storage[s] :
        \E c \in Calls : Call(c).id = id /\ To(c) = s /\ Routed(c)

\* Who asks no test bed gets no metadata.
Resolved(c) == result[c] # None /\ result[c].is = "resolved"
CallerOK(c) ==
    /\ result[c] # None <=> stage[c] = "settled"
    /\ Resolved(c) /\ Call(c).through = "none" => result[c].metadata = None

\* A response of a request with an id is to be written, or has been and is not read yet.
Accepted(c) ==
    /\ Routed(c) /\ Named(c) /\ stage[c] # "settled"
    /\ outbox[c] # <<>> \/ stage[c] = "ended"

\* What the client of a request with an id of its own has got, and left.
OwnMeta(c) ==
    /\ result[c].metadata \in {None, request[c].meta}
    /\ Call(c).through = To(c) =>
          /\ Routed(c) /\ Named(c) => result[c].metadata = request[c].meta
          /\ Len(Call(c).answers) <= 1 => ~Stored(c)

\* The metadata of a request change until it is answered, and it is stored with the answer: no
\* one else stores it or takes it away.
MetaOK(c) ==
    /\ Len(runs[c]) <= 1
    /\ stage[c] = "idle" => outbox[c] = <<>>
    /\ stage[c] # "open" \/ outbox[c] # <<>> => Quiet(c)
    /\ Routed(c) => request[c].meta # None
    /\ Alone(c) =>
          /\ Stored(c) => Quiet(c) /\ storage[To(c)][Call(c).id] = request[c].meta
          /\ Accepted(c) => Stored(c)
          /\ Resolved(c) => OwnMeta(c)

MetaTypes ==
    /\ DOMAIN storage = Servers /\ DOMAIN result = Calls
    /\ DOMAIN request = Calls /\ \A c \in Calls : DOMAIN request[c] = {"body", "meta", "upload"}

\* The servers of test beds listen once, so that each of their requests has one run at most.
MetaInv ==
    /\ MetaTypes
    /\ \A s \in Servers : HandlerOK(s)
    /\ KeptOK
    /\ \A c \in Calls : CallerOK(c) /\ (scenario.beds => MetaOK(c))

\* The entry of an id in a storage is left as it is.
SameEntry(s, id) ==
    /\ id \in DOMAIN storage'[s] <=> id \in DOMAIN storage[s]
    /\ id \in DOMAIN storage[s] => storage'[s][id] = storage[s][id]

\* What a step of a call may change in requests, storages and results.
MetaStep(c) ==
    /\ MetaTypes'
    /\ \A d \in Calls \ {c} : request'[d] = request[d] /\ result'[d] = result[d]
    /\ \A s \in Servers : \A id : id # Call(c).id => SameEntry(s, id)
    /\ \A s \in Servers : Call(c).id \in DOMAIN storage'[s] =>
          Call(c).id \in DOMAIN storage[s] \/ (s = To(c) /\ Routed(c)')
    /\ Routed(c) => Routed(c)'
    /\ CallerOK(c)'
    /\ scenario.beds => MetaOK(c)'

\* A call that is left alone has its metadata left alone, unless the other has the same id.
LEMMA MetaIsKept ==
    ASSUME HttpTypes, MetaInv, NEW c \in Calls, CallStep(c), MetaStep(c), NEW d \in Calls, d # c
    PROVE  /\ Routed(d)' = Routed(d) /\ CallerOK(d)'
           /\ scenario.beds => MetaOK(d)'
<1>1. /\ scenario' = scenario /\ stage'[d] = stage[d] /\ outbox'[d] = outbox[d] /\ Spares(d, runs'[d])
      /\ request'[d] = request[d] /\ result'[d] = result[d] /\ runs[d] \in Seq(Runs)
  BY DEF CallStep, MetaStep, HttpTypes
<1>2. PICK n \in Nat : n = Len(runs[d]) /\ n = Len(runs'[d]) /\ DOMAIN runs[d] = 1..n /\ DOMAIN runs'[d] = 1..n
  BY <1>1 DEF Spares
<1>3. Quiet(d) => Quiet(d)'
  BY <1>1, <1>2 DEF Quiet, Spares
<1>4. Routed(d)' = Routed(d)
  <2>1. runs'[d] \in Seq(Runs)
    BY <1>1 DEF Spares
  <2> QED BY <1>1, <1>2, <2>1 DEF Routed
<1>5. /\ Call(d)' = Call(d) /\ To(d)' = To(d) /\ Named(d)' = Named(d) /\ Alone(d)' = Alone(d)
  BY <1>1 DEF Call, To, Named, Alone
<1>6. Resolved(d)' = Resolved(d) /\ CallerOK(d)'
  <2>1. CallerOK(d)
    BY DEF MetaInv
  <2> QED BY <1>1, <1>5, <2>1 DEF CallerOK, Resolved
<1>7. Accepted(d)' = Accepted(d)
  BY <1>1, <1>4, <1>5 DEF Accepted
<1>8. ASSUME Alone(d) PROVE SameEntry(To(d), Call(d).id)
  <2>1. To(d) \in Servers
    BY ScenarioAssumption DEF HttpTypes, To, Call
  <2>2. Call(d).id # Call(c).id
    BY <1>8 DEF Alone
  <2> QED BY <2>1, <2>2 DEF MetaStep
<1>9. ASSUME scenario.beds PROVE MetaOK(d)'
  <2>1. MetaOK(d)
    BY <1>9 DEF MetaInv
  <2>2. Len(runs'[d]) <= 1 /\ (Routed(d)' => request'[d].meta # None)
        /\ (stage'[d] = "idle" => outbox'[d] = <<>>)
        /\ (stage'[d] # "open" \/ outbox'[d] # <<>> => Quiet(d)')
    BY <1>1, <1>2, <1>3, <1>4, <2>1 DEF MetaOK
  <2>3. ASSUME Alone(d)
        PROVE  /\ Stored(d)' => Quiet(d)' /\ storage'[To(d)'][Call(d)'.id] = request'[d].meta
               /\ Accepted(d)' => Stored(d)'
               /\ Resolved(d)' => OwnMeta(d)'
    <3>1. /\ Stored(d)' = Stored(d)
          /\ Stored(d) => storage'[To(d)][Call(d).id] = storage[To(d)][Call(d).id]
      BY <1>5, <1>8, <2>3 DEF Stored, SameEntry
    <3>2. OwnMeta(d) => OwnMeta(d)'
      BY <1>1, <1>4, <1>5, <3>1 DEF OwnMeta
    <3> QED BY <1>1, <1>3, <1>5, <1>6, <1>7, <2>1, <2>3, <3>1, <3>2 DEF MetaOK
  <2> QED BY <1>5, <2>2, <2>3 DEF MetaOK
<1> QED BY <1>4, <1>6, <1>9

\* A step of a call keeps what is known of the metadata.
LEMMA MetaStepKeeps ==
    ASSUME HttpTypes, MetaInv, NEW c \in Calls, CallStep(c), MetaStep(c)
    PROVE  MetaInv'
<1>1. UNCHANGED <<scenario, listens, attached, handlers>>
  BY DEF CallStep
<1>2. \A s \in Servers : HandlerOK(s)'
  BY <1>1 DEF MetaInv, HandlerOK
<1>3. ASSUME NEW d \in Calls PROVE CallerOK(d)' /\ (scenario.beds => MetaOK(d)')
  <2>1. CASE d = c
    BY <2>1 DEF MetaStep
  <2>2. CASE d # c
    BY <2>2, MetaIsKept
  <2> QED BY <2>1, <2>2
<1>4. \A d \in Calls : Call(d)' = Call(d) /\ To(d)' = To(d)
  BY <1>1 DEF Call, To
<1>5. \A d \in Calls : Routed(d) => Routed(d)'
  <2> SUFFICES ASSUME NEW d \in Calls, Routed(d) PROVE Routed(d)'
    OBVIOUS
  <2>1. CASE d = c
    BY <2>1 DEF MetaStep
  <2>2. CASE d # c
    BY <2>2, MetaIsKept
  <2> QED BY <2>1, <2>2
<1>6. ASSUME NEW s \in Servers, NEW id \in DOMAIN storage'[s]
      PROVE  \E d \in Calls : Call(d)'.id = id /\ To(d)' = s /\ Routed(d)'
  <2>1. CASE id \in DOMAIN storage[s]
    BY <1>4, <1>5, <2>1 DEF MetaInv, KeptOK
  <2>2. CASE id \notin DOMAIN storage[s]
    <3>1. id = Call(c).id
      BY <1>6, <2>2 DEF MetaStep, SameEntry
    <3>2. s = To(c) /\ Routed(c)'
      BY <1>6, <2>2, <3>1 DEF MetaStep
    <3> QED BY <1>4, <3>1, <3>2
  <2> QED BY <2>1, <2>2
<1>7. KeptOK'
  BY <1>6 DEF KeptOK
<1>8. MetaTypes'
  BY DEF MetaStep
<1> QED BY <1>1, <1>2, <1>3, <1>7, <1>8 DEF MetaInv

\* An id of its own is in the storage only for a request that got to a route.
LEMMA StoredIsRouted ==
    ASSUME HttpTypes, MetaInv, NEW c \in Calls, Alone(c), NEW s \in Servers, Call(c).id \in DOMAIN storage[s]
    PROVE  s = To(c) /\ Routed(c)
<1>1. PICK d \in Calls : Call(d).id = Call(c).id /\ To(d) = s /\ Routed(d)
  BY DEF MetaInv, KeptOK
<1>2. d = c
  BY <1>1 DEF Alone
<1> QED BY <1>1, <1>2

\* What collect does to the storages.
LEMMA Collecting ==
    ASSUME MetaInv, NEW c \in Calls, NEW s \in Servers, NEW meta, Collect(s, c, meta)
    PROVE  /\ DOMAIN storage' = Servers
           /\ \A t \in Servers : \A id : t # s \/ id # Call(c).id => SameEntry(t, id)
           /\ \/ storage' = storage
              \/ Call(c).id \in DOMAIN storage'[s] /\ storage'[s][Call(c).id] = meta
           /\ Named(c) /\ meta # None =>
                 Call(c).id \in DOMAIN storage'[s] /\ storage'[s][Call(c).id] = meta
           /\ meta = None => storage' = storage
<1>1. \/ storage' = storage /\ ~(Named(c) /\ meta # None)
      \/ /\ meta # None
         /\ storage' = [storage EXCEPT ![s] = [id \in DOMAIN @ \union {Call(c).id} |->
                                                  IF id = Call(c).id THEN meta ELSE @[id]]]
  BY Zenon DEF Collect, Named
<1>2. CASE storage' = storage /\ ~(Named(c) /\ meta # None)
  BY <1>2 DEF MetaInv, MetaTypes, SameEntry
<1>3. CASE /\ meta # None
           /\ storage' = [storage EXCEPT ![s] = [id \in DOMAIN @ \union {Call(c).id} |->
                                                    IF id = Call(c).id THEN meta ELSE @[id]]]
  <2>1. PICK kept : kept = storage[s]
    OBVIOUS
  <2>2. PICK more : more = [id \in DOMAIN kept \union {Call(c).id} |->
                              IF id = Call(c).id THEN meta ELSE kept[id]]
    OBVIOUS
  <2>3. storage' = [storage EXCEPT ![s] = more]
    BY <1>3, <2>1, <2>2
  <2>4. DOMAIN storage' = Servers /\ storage'[s] = more /\ \A t \in Servers \ {s} : storage'[t] = storage[t]
    BY <2>3 DEF MetaInv, MetaTypes
  <2>5. Call(c).id \in DOMAIN more /\ more[Call(c).id] = meta
    BY <2>2
  <2>6. ASSUME NEW id, id # Call(c).id
        PROVE  (id \in DOMAIN more <=> id \in DOMAIN kept) /\ (id \in DOMAIN kept => more[id] = kept[id])
    BY <2>2, <2>6
  <2>7. ASSUME NEW t \in Servers, NEW id, t # s \/ id # Call(c).id PROVE SameEntry(t, id)
    <3>1. CASE t # s
      BY <2>4, <3>1 DEF SameEntry
    <3>2. CASE t = s
      <4>1. id # Call(c).id
        BY <2>7, <3>2
      <4> QED BY <2>1, <2>4, <2>6, <3>2, <4>1 DEF SameEntry
    <3> QED BY <3>1, <3>2
  <2> QED BY <1>3, <2>4, <2>5, <2>7
<1> QED BY <1>1, <1>2, <1>3

\* A request of a test bed on its way: it has one run, whose metadata stay as they are once it is
\* quiet, and which is quiet once it is answered, unless its effect answers more than once.
OnItsWay(c, responses, meta) ==
    /\ meta # None /\ Len(runs'[c]) <= 1
    /\ responses # <<>> => Quiet(c)'
    /\ Quiet(c) /\ Routed(c) =>
          /\ Quiet(c)' /\ meta = request[c].meta
          /\ responses # <<>> => ~(Len(Call(c).answers) <= 1)

LEMMA OnItsWayKeeps ==
    ASSUME Inv, MetaInv, NEW c \in Calls, CallStep(c), scenario.beds,
           NEW via, NEW responses, NEW meta, OnItsWay(c, responses, meta),
           Emit(c, via, responses, meta) \/ (responses = <<>> /\ UNCHANGED <<storage, outbox>>),
           result' = result, request'[c].meta = meta, Routed(c)',
           (stage' = stage /\ Routed(c)) \/ (stage[c] = "idle" /\ stage'[c] = "open")
    PROVE  MetaOK(c)'
<1>1. HttpTypes /\ To(c) \in Servers /\ MetaOK(c) /\ CallerOK(c) /\ Call(c)' = Call(c) /\ To(c)' = To(c)
      /\ Named(c)' = Named(c) /\ Alone(c)' = Alone(c)
  BY ScenarioAssumption DEF Inv, HttpInv, HttpTypes, MetaInv, CallStep, To, Call, Named, Alone
<1>2. stage[c] = "idle" => ~Routed(c)
  BY DEF Inv, HttpInv, IdleOK, Routed
<1>3. \/ UNCHANGED <<storage, outbox>>
      \/ responses # <<>> /\ Collect(To(c), c, meta)
  BY Zenon DEF Emit
<1>4. \/ storage' = storage /\ outbox' = outbox
      \/ responses # <<>> /\ (Named(c) => Stored(c)')
  BY <1>1, <1>3, Collecting DEF OnItsWay, Stored
<1>5. stage'[c] # "open" \/ outbox'[c] # <<>> => Quiet(c)'
  BY <1>1, <1>2, <1>3 DEF OnItsWay, MetaOK
<1>6. stage'[c] # "idle"
  BY <1>2
<1>7. ASSUME Alone(c), Stored(c)'
      PROVE  Quiet(c)' /\ storage'[To(c)][Call(c).id] = meta
  <2>1. Stored(c) => Quiet(c)' /\ storage[To(c)][Call(c).id] = meta
    BY <1>1, <1>7, StoredIsRouted DEF MetaOK, OnItsWay, Stored
  <2>2. CASE storage' = storage
    BY <1>1, <1>7, <2>1, <2>2 DEF Stored
  <2>3. CASE storage' # storage
    <3>1. responses # <<>> /\ Collect(To(c), c, meta)
      BY <1>3, <2>3
    <3>2. storage'[To(c)][Call(c).id] = meta
      BY <1>1, <2>3, <3>1, Collecting
    <3> QED BY <3>1, <3>2 DEF OnItsWay
  <2> QED BY <2>2, <2>3
<1>8. ASSUME Alone(c), Accepted(c)' PROVE Stored(c)'
  <2>1. CASE storage' = storage /\ outbox' = outbox
    <3>1. Accepted(c)
      BY <1>1, <1>2, <1>8, <2>1 DEF Accepted, MetaOK
    <3> QED BY <1>1, <1>8, <2>1, <3>1 DEF MetaOK, Stored
  <2>2. CASE responses # <<>> /\ (Named(c) => Stored(c)')
    BY <1>1, <1>8, <2>2 DEF Accepted
  <2> QED BY <1>4, <2>1, <2>2
<1>9. ASSUME Alone(c), Resolved(c)' PROVE OwnMeta(c)'
  <2>1. Resolved(c) /\ result'[c] = result[c]
    BY <1>9 DEF Resolved
  <2>2. stage[c] = "settled"
    BY <1>1, <2>1 DEF Resolved, CallerOK
  <2>3. Routed(c) /\ stage' = stage /\ Quiet(c) /\ meta = request[c].meta /\ OwnMeta(c)
    BY <1>1, <1>9, <2>1, <2>2 DEF MetaOK, OnItsWay
  <2>4. ASSUME Len(Call(c).answers) <= 1 PROVE Stored(c)' = Stored(c)
    <3>1. storage' = storage
      BY <1>3, <2>3, <2>4 DEF OnItsWay
    <3> QED BY <1>1, <3>1 DEF Stored
  <2> QED BY <1>1, <2>1, <2>3, <2>4 DEF OwnMeta
<1> QED BY <1>1, <1>5, <1>6, <1>7, <1>8, <1>9 DEF MetaOK, OnItsWay

\* The request of a call has these metadata then.
Noted(c, meta) ==
    /\ DOMAIN request' = Calls /\ \A d \in Calls : DOMAIN request'[d] = {"body", "meta", "upload"}
    /\ \A d \in Calls \ {c} : request'[d] = request[d]
    /\ request'[c].meta = meta

LEMMA RequestNoted ==
    ASSUME MetaTypes, NEW c \in Calls, NEW body, NEW meta, NEW upload
    PROVE  /\ request' = [request EXCEPT ![c].body = body, ![c].meta = meta] => Noted(c, meta)
           /\ request' = [request EXCEPT ![c].meta = meta] => Noted(c, meta)
           /\ request' = [request EXCEPT ![c].upload = upload] => Noted(c, request[c].meta)
           /\ request' = request => Noted(c, request[c].meta)
<1>1. PICK old : old = request[c]
  OBVIOUS
<1>2. DOMAIN request = Calls /\ DOMAIN old = {"body", "meta", "upload"}
      /\ \A d \in Calls : DOMAIN request[d] = {"body", "meta", "upload"}
  BY <1>1 DEF MetaTypes
<1>3. ASSUME NEW new, DOMAIN new = {"body", "meta", "upload"}, request' = [request EXCEPT ![c] = new]
      PROVE  Noted(c, new.meta)
  BY <1>2, <1>3 DEF Noted
<1>4. ASSUME request' = [request EXCEPT ![c].body = body, ![c].meta = meta] PROVE Noted(c, meta)
  <2>1. PICK first : first = [old EXCEPT !.body = body]
    OBVIOUS
  <2>2. PICK new : new = [first EXCEPT !.meta = meta]
    OBVIOUS
  <2>3. DOMAIN new = {"body", "meta", "upload"} /\ new.meta = meta
    BY <1>2, <2>1, <2>2
  <2>4. request' = [request EXCEPT ![c] = new]
    BY <1>1, <1>2, <1>4, <2>1, <2>2
  <2> QED BY <1>3, <2>3, <2>4
<1>5. ASSUME request' = [request EXCEPT ![c].meta = meta] PROVE Noted(c, meta)
  <2>1. PICK new : new = [old EXCEPT !.meta = meta]
    OBVIOUS
  <2>2. DOMAIN new = {"body", "meta", "upload"} /\ new.meta = meta
    BY <1>2, <2>1
  <2>3. request' = [request EXCEPT ![c] = new]
    BY <1>1, <1>5, <2>1
  <2> QED BY <1>3, <2>2, <2>3
<1>6. ASSUME request' = [request EXCEPT ![c].upload = upload] PROVE Noted(c, request[c].meta)
  <2>1. PICK new : new = [old EXCEPT !.upload = upload]
    OBVIOUS
  <2>2. DOMAIN new = {"body", "meta", "upload"} /\ new.meta = request[c].meta
    BY <1>1, <1>2, <2>1
  <2>3. request' = [request EXCEPT ![c] = new]
    BY <1>1, <1>6, <2>1
  <2> QED BY <1>3, <2>2, <2>3
<1>7. request' = request => Noted(c, request[c].meta)
  BY <1>2 DEF Noted
<1> QED BY <1>4, <1>5, <1>6, <1>7

LEMMA OnItsWayIsMetaStep ==
    ASSUME Inv, MetaInv, NEW c \in Calls, CallStep(c),
           NEW via, NEW responses, NEW meta, scenario.beds => OnItsWay(c, responses, meta),
           Emit(c, via, responses, meta) \/ (responses = <<>> /\ UNCHANGED <<storage, outbox>>),
           result' = result, Noted(c, meta), Routed(c)',
           (stage' = stage /\ Routed(c)) \/ (stage[c] = "idle" /\ stage'[c] = "open")
    PROVE  MetaStep(c)
<1>1. MetaTypes /\ To(c) \in Servers /\ CallerOK(c) /\ Call(c)' = Call(c) /\ To(c)' = To(c)
  BY ScenarioAssumption DEF Inv, HttpInv, HttpTypes, MetaInv, CallStep, To, Call
<1>2. storage' = storage \/ Collect(To(c), c, meta)
  BY Zenon DEF Emit
<1>3. /\ DOMAIN storage' = Servers
      /\ \A t \in Servers : \A id : t # To(c) \/ id # Call(c).id => SameEntry(t, id)
  <2>1. CASE storage' = storage
    BY <1>1, <2>1 DEF MetaTypes, SameEntry
  <2>2. CASE Collect(To(c), c, meta)
    BY <1>1, <2>2, Collecting
  <2> QED BY <1>2, <2>1, <2>2
<1>4. MetaTypes'
  BY <1>1, <1>3 DEF MetaTypes, Noted
<1>5. \A s \in Servers : Call(c).id \in DOMAIN storage'[s] =>
          Call(c).id \in DOMAIN storage[s] \/ (s = To(c) /\ Routed(c)')
  BY <1>3 DEF SameEntry
<1>6. CallerOK(c)'
  BY <1>1 DEF CallerOK, Resolved
<1>7. scenario.beds => MetaOK(c)'
  <2>1. request'[c].meta = meta
    BY DEF Noted
  <2> QED BY <2>1, OnItsWayKeeps
<1> QED BY <1>3, <1>4, <1>5, <1>6, <1>7 DEF MetaStep, Noted

\* A request that goes on has metadata.
LEMMA MetaIsSome ==
    ASSUME NEW c \in Calls, NEW body
    PROVE  /\ Enter(c, body).meta # None /\ Onward(c, body).meta # None
           /\ [path |-> Call(c).path] # None
<1>1. PICK empty : empty = <<>>
  OBVIOUS
<1>2. DOMAIN empty = {}
  <2>1. empty \in Seq({}) /\ Len(empty) = 0
    BY <1>1
  <2> QED BY <2>1
<1>3. \A x : [path |-> x] # empty
  <2> SUFFICES ASSUME NEW x PROVE [path |-> x] # empty
    OBVIOUS
  <2>1. DOMAIN [path |-> x] = {"path"}
    OBVIOUS
  <2> QED BY <1>2, <2>1
<1>4. \A x, y : [path |-> x, body |-> y] # empty
  <2> SUFFICES ASSUME NEW x, NEW y PROVE [path |-> x, body |-> y] # empty
    OBVIOUS
  <2>1. DOMAIN [path |-> x, body |-> y] = {"path", "body"}
    OBVIOUS
  <2> QED BY <1>2, <2>1
<1>5. Enter(c, body).meta # empty
  BY <1>4 DEF Enter
<1>6. Onward(c, body).meta # empty
  BY <1>3, <1>5 DEF Onward
<1> QED BY <1>1, <1>3, <1>5, <1>6 DEF None

\* A run that moves on was not quiet, and is once there is an error to answer.
LEMMA MoveIsMetaStep ==
    ASSUME Inv, MetaInv, NEW c \in Calls, NEW i \in DOMAIN runs[c], runs[c][i].at \in {"parsing", "uploading"},
           NEW at, NEW answered, GoesOn(at, answered), NEW meta, scenario.beds => meta # None, Moves(c, i, at),
           Emit(c, "error", answered, meta) \/ (answered = <<>> /\ UNCHANGED <<storage, outbox>>),
           Noted(c, meta), stage' = stage, result' = result, CallStep(c)
    PROVE  MetaStep(c)
<1>1. /\ DOMAIN runs'[c] = DOMAIN runs[c] /\ Len(runs'[c]) = Len(runs[c]) /\ runs'[c][i].at = at
      /\ runs[c] \in Seq(Runs) /\ runs'[c] \in Seq(Runs)
  BY Moving DEF Inv, HttpInv, HttpTypes, GoesOn
<1>2. Routed(c) /\ Routed(c)' /\ ~Quiet(c)
  BY <1>1 DEF Routed, Quiet, Over
<1>3. ASSUME scenario.beds PROVE OnItsWay(c, answered, meta)
  <2>1. PICK n \in Nat : n = Len(runs[c]) /\ DOMAIN runs[c] = 1..n
    BY <1>1
  <2>2. n <= 1
    BY <1>3, <2>1 DEF MetaInv, MetaOK
  <2>3. DOMAIN runs'[c] = {i}
    BY <1>1, <2>1, <2>2
  <2>4. answered # <<>> => Quiet(c)'
    BY <1>1, <2>3 DEF GoesOn, Quiet, Over
  <2> QED BY <1>1, <1>2, <1>3, <2>1, <2>2, <2>4 DEF OnItsWay
<1>4. /\ Inv /\ MetaInv /\ c \in Calls /\ CallStep(c)
      /\ Emit(c, "error", answered, meta) \/ (answered = <<>> /\ UNCHANGED <<storage, outbox>>)
      /\ result' = result /\ Noted(c, meta)
      /\ (stage' = stage /\ Routed(c)) \/ (stage[c] = "idle" /\ stage'[c] = "open")
  BY <1>2
<1> QED BY ONLY <1>2, <1>3, <1>4, OnItsWayIsMetaStep

\* What is known of the metadata of a request that has a run.
LEMMA RoutedHasMeta ==
    ASSUME Inv, MetaInv, NEW c \in Calls, NEW i \in DOMAIN runs[c]
    PROVE  Routed(c) /\ (scenario.beds => request[c].meta # None)
<1>1. Routed(c)
  BY DEF Inv, HttpInv, HttpTypes, Routed
<1> QED BY <1>1 DEF MetaInv, MetaOK

LEMMA CollectedIsMetaStep ==
    ASSUME Inv, MetaInv, NEW c \in Calls, NEW i, Collected(c, i)
    PROVE  MetaStep(c)
<1>1. /\ i \in DOMAIN runs[c] /\ runs[c][i].at \in {"parsing", "uploading"}
      /\ stage' = stage /\ result' = result /\ CallStep(c) /\ MetaTypes
  BY CollectedIsStep DEF Collected, MetaInv
<1>2. PICK parsed : parsed = ParseBody(GetContentType(Call(c).headers),
                                       Requested(Call(c).headers, Call(c).body))
  OBVIOUS
<1>3. PICK next : next = Onward(c, parsed)
  OBVIOUS
<1>4. \/ /\ Moves(c, i, "over") /\ Emit(c, "error", <<ErrorResponse(400)>>, request[c].meta)
         /\ Noted(c, request[c].meta)
      \/ Moves(c, i, "stuck") /\ UNCHANGED <<storage, outbox>> /\ Noted(c, request[c].meta)
      \/ Moves(c, i, next.at) /\ Emit(c, "error", next.errors, next.meta) /\ Noted(c, next.meta)
  <2>1. \/ /\ runs' = [runs EXCEPT ![c][i].at = "over"] /\ request' = request
           /\ Emit(c, "error", <<ErrorResponse(400)>>, request[c].meta)
        \/ runs' = [runs EXCEPT ![c][i].at = "stuck"] /\ UNCHANGED <<request, storage, outbox>>
        \/ /\ runs' = [Spared(c, next.errors) EXCEPT ![c][i].at = next.at]
           /\ request' = [request EXCEPT ![c].body = next.body, ![c].meta = next.meta]
           /\ Emit(c, "error", next.errors, next.meta)
    BY <1>2, <1>3, Zenon DEF Collected
  <2>2. runs' = [Spared(c, next.errors) EXCEPT ![c][i].at = next.at] => Moves(c, i, next.at)
    BY Zenon DEF Moves
  <2>3. request' = request => Noted(c, request[c].meta)
    BY <1>1, RequestNoted
  <2>4. request' = [request EXCEPT ![c].body = next.body, ![c].meta = next.meta] => Noted(c, next.meta)
    BY <1>1, RequestNoted
  <2>5. UNCHANGED <<request, storage, outbox>> => request' = request /\ UNCHANGED <<storage, outbox>>
    OBVIOUS
  <2> QED BY <2>1, <2>2, <2>3, <2>4, <2>5, MovesAlone, Zenon
<1>5. GoesOn("stuck", <<>>) /\ GoesOn("over", <<ErrorResponse(400)>>) /\ GoesOn(next.at, next.errors)
  <2>1. \E n \in Nat : n >= 400 /\ <<ErrorResponse(400)>> = <<ErrorResponse(n)>>
    <3>1. 400 \in Nat /\ 400 >= 400
      OBVIOUS
    <3> QED BY <3>1, Zenon
  <2> QED BY <2>1, <1>3, Proceeding, Zenon DEF GoesOn, Places, Over
<1>6. (scenario.beds => request[c].meta # None) /\ next.meta # None
  BY <1>1, <1>3, RoutedHasMeta, MetaIsSome
<1>7. CASE /\ Moves(c, i, "over") /\ Emit(c, "error", <<ErrorResponse(400)>>, request[c].meta)
           /\ Noted(c, request[c].meta)
  BY <1>1, <1>5, <1>6, <1>7, MoveIsMetaStep
<1>8. CASE Moves(c, i, "stuck") /\ UNCHANGED <<storage, outbox>> /\ Noted(c, request[c].meta)
  BY <1>1, <1>5, <1>6, <1>8, MoveIsMetaStep
<1>9. CASE Moves(c, i, next.at) /\ Emit(c, "error", next.errors, next.meta) /\ Noted(c, next.meta)
  BY <1>1, <1>5, <1>6, <1>9, MoveIsMetaStep
<1> QED BY <1>4, <1>7, <1>8, <1>9

LEMMA UploadingIsMetaStep ==
    ASSUME Inv, MetaInv, NEW c \in Calls, NEW i \in DOMAIN runs[c], runs[c][i].at = "uploading",
           NEW refusals, \A refusal \in refusals : refusal.status \in {412, 500}, NEW upload,
           Uploading(c, i, refusals, upload)
    PROVE  MetaStep(c)
<1>1. /\ runs[c][i].at \in {"parsing", "uploading"} /\ stage' = stage /\ result' = result
      /\ CallStep(c) /\ MetaTypes
  BY UploadingIsStep DEF Uploading, MetaInv
<1>2. Routed(c) /\ (scenario.beds => request[c].meta # None)
  BY RoutedHasMeta
<1>3. CASE refusals = {}
  <2>1. UNCHANGED <<scenario, runs, storage, outbox>> /\ request' = [request EXCEPT ![c].upload = upload]
    BY <1>3 DEF Uploading
  <2>2. Noted(c, request[c].meta)
    BY <1>1, <2>1, RequestNoted
  <2>3. ASSUME scenario.beds PROVE OnItsWay(c, <<>>, request[c].meta)
    <3>1. Len(runs[c]) <= 1
      BY <2>3 DEF MetaInv, MetaOK
    <3> QED BY <1>2, <2>1, <2>3, <3>1 DEF OnItsWay, Quiet
  <2>4. /\ Inv /\ MetaInv /\ c \in Calls /\ UNCHANGED <<storage, outbox>> /\ Routed(c)'
        /\ stage' = stage /\ Routed(c)
    BY <1>1, <1>2, <2>1 DEF Routed
  <2> QED BY ONLY <1>1, <2>2, <2>3, <2>4, OnItsWayIsMetaStep
<1>4. CASE refusals # {}
  <2>1. PICK refusal \in refusals : Refuse(c, i, refusal)
    BY <1>4 DEF Uploading
  <2>2. PICK n \in Nat : n = refusal.status /\ n >= 400
    BY <2>1
  <2>3. PICK errors : errors = <<ErrorResponse(n)>>
    OBVIOUS
  <2>4. PICK known \in BOOLEAN : known <=> refusal.bound \/ ~Config(To(c)).continuous
    OBVIOUS
  <2>5. Noted(c, request[c].meta)
    <3>1. request' = request
      BY <2>1, Zenon DEF Refuse
    <3> QED BY <1>1, <3>1, RequestNoted
  <2>6. CASE known
    <3>1. runs' = [Spared(c, errors) EXCEPT ![c][i].at = "over"] /\ Emit(c, "error", errors, request[c].meta)
      BY <2>1, <2>2, <2>3, <2>4, <2>6, Zenon DEF Refuse
    <3>2. GoesOn("over", errors)
      BY <2>2, <2>3 DEF GoesOn, Places, Over
    <3>3. Moves(c, i, "over")
      BY <3>1, Zenon DEF Moves
    <3> QED BY <1>1, <1>2, <2>5, <3>1, <3>2, <3>3, MoveIsMetaStep
  <2>7. CASE ~known
    <3>1. runs' = [Spared(c, errors) EXCEPT ![c][i].at = "unbound"] /\ UNCHANGED <<storage, outbox>>
      BY <2>1, <2>2, <2>3, <2>4, <2>7, Zenon DEF Refuse
    <3>2. GoesOn("unbound", <<>>)
      BY DEF GoesOn, Places, Over
    <3>3. Moves(c, i, "unbound")
      BY <3>1, Zenon DEF Moves
    <3> QED BY <1>1, <1>2, <2>5, <3>1, <3>2, <3>3, MoveIsMetaStep
  <2> QED BY <2>6, <2>7
<1> QED BY <1>3, <1>4

LEMMA MultipartsIsMetaStep ==
    ASSUME Inv, MetaInv, NEW c \in Calls, NEW i \in DOMAIN runs[c], Multiparts(c, i)
    PROVE  MetaStep(c)
<1>1. ASSUME ReadPart(c, i) PROVE MetaStep(c)
  <2>1. PICK refusals, upload, n :
           /\ runs[c][i].at = "uploading" /\ Uploading(c, i, refusals, upload)
           /\ refusals = PartRefused(Config(To(c)).multipart, Call(c).parts, n)
    BY <1>1, Zenon DEF ReadPart
  <2>2. \A refusal \in refusals : refusal.status \in {412, 500}
    BY <2>1, PartRefusals
  <2> QED BY <2>1, <2>2, UploadingIsMetaStep
<1>2. ASSUME NEW n, EndFile(c, i, n) PROVE MetaStep(c)
  <2>1. PICK refusals, upload :
           /\ runs[c][i].at = "uploading" /\ Uploading(c, i, refusals, upload)
           /\ refusals = FileRefused(Config(To(c)).multipart, Call(c).parts[n])
    BY <1>2, Zenon DEF EndFile
  <2>2. \A refusal \in refusals : refusal.status \in {412, 500}
    BY <2>1, FileRefusals
  <2> QED BY <2>1, <2>2, UploadingIsMetaStep
<1>3. ASSUME FormRead(c, i) PROVE MetaStep(c)
  <2>1. PICK next :
           /\ next = Enter(c, FormBody(request[c].body, request[c].upload))
           /\ runs[c][i].at = "uploading"
           /\ runs' = [Spared(c, next.errors) EXCEPT ![c][i].at = next.at]
           /\ request' = [request EXCEPT ![c].body = next.body, ![c].meta = next.meta]
           /\ Emit(c, "error", next.errors, next.meta)
           /\ stage' = stage /\ UNCHANGED result
    BY <1>3, Zenon DEF FormRead
  <2>2. Moves(c, i, next.at)
    BY <2>1, Zenon DEF Moves
  <2>3. GoesOn(next.at, next.errors) /\ next.meta # None
    BY <2>1, Proceeding, MetaIsSome, Zenon
  <2>4. Noted(c, next.meta)
    BY <2>1, RequestNoted DEF MetaInv
  <2>5. CallStep(c)
    BY <1>3, MultipartsIsStep DEF Multiparts
  <2>6. runs[c][i].at \in {"parsing", "uploading"} /\ stage' = stage /\ result' = result
    BY <2>1
  <2> QED BY <2>1, <2>2, <2>3, <2>4, <2>5, <2>6, MoveIsMetaStep
<1> QED BY <1>1, <1>2, <1>3 DEF Multiparts

\* An effect that answers leaves the metadata as they are, and goes on after a first answer only
\* if it answers more than once.
LEMMA AnswerIsMetaStep ==
    ASSUME Inv, MetaInv, NEW c \in Calls, NEW i, Answer(c, i)
    PROVE  MetaStep(c)
<1>1. /\ i \in DOMAIN runs[c] /\ runs[c][i].at = "working" /\ runs[c][i].said < Len(Call(c).answers)
      /\ runs' = [runs EXCEPT ![c][i].said = @ + 1]
      /\ stage' = stage /\ UNCHANGED <<scenario, servers>> /\ request' = request /\ result' = result
      /\ CallStep(c) /\ MetaTypes
  BY AnswerIsStep DEF Answer, MetaInv
<1>2. PICK run \in Runs : run = runs[c][i]
  BY <1>1 DEF Inv, HttpInv, HttpTypes
<1>3. PICK more : more = [run EXCEPT !.said = @ + 1]
  OBVIOUS
<1>4. more \in Runs /\ more.at = run.at /\ more.said > 0 /\ run.said \in Nat
  BY <1>3 DEF Runs
<1>5. PICK left : left = [runs[c] EXCEPT ![i] = more]
  OBVIOUS
<1>6. left \in Seq(Runs) /\ Len(left) = Len(runs[c]) /\ DOMAIN left = DOMAIN runs[c] /\ left[i] = more
  BY <1>1, <1>4, <1>5 DEF Inv, HttpInv, HttpTypes
<1>7. runs' = [runs EXCEPT ![c] = left]
  BY <1>1, <1>2, <1>3, <1>5
<1>8. runs'[c] = left
  BY <1>6, <1>7 DEF Inv, HttpInv, HttpTypes
<1>9. PICK said : said = <<Call(c).answers[runs[c][i].said + 1]>>
  OBVIOUS
<1>10. Emit(c, "output", said, request[c].meta)
  BY <1>9 DEF Answer
<1>11. Routed(c) /\ (scenario.beds => request[c].meta # None)
  BY <1>1, RoutedHasMeta
<1>12. Routed(c)'
  <2>1. left # <<>>
    BY <1>1, <1>6
  <2> QED BY <1>8, <2>1 DEF Routed
<1>13. ASSUME scenario.beds PROVE OnItsWay(c, said, request[c].meta)
  <2>1. PICK n \in Nat : n = Len(runs[c]) /\ DOMAIN runs[c] = 1..n
    BY DEF Inv, HttpInv, HttpTypes
  <2>2. n <= 1
    BY <1>13, <2>1 DEF MetaInv, MetaOK
  <2>3. DOMAIN runs'[c] = {i} /\ Len(runs'[c]) <= 1
    BY <1>1, <1>6, <1>8, <2>1, <2>2
  <2>4. Quiet(c)'
    BY <1>1, <1>2, <1>4, <1>6, <1>8, <2>3 DEF Quiet
  <2>5. ASSUME Quiet(c) PROVE ~(Len(Call(c).answers) <= 1)
    <3>1. run.said > 0
      BY <1>1, <1>2, <2>5 DEF Quiet, Over
    <3>2. PICK m \in Nat : m = Len(Call(c).answers)
      BY ScenarioAssumption DEF Inv, HttpInv, HttpTypes, Call
    <3>3. run.said < m
      BY <1>1, <1>2, <3>2
    <3> QED BY <1>4, <3>1, <3>2, <3>3
  <2> QED BY <1>11, <1>13, <2>3, <2>4, <2>5 DEF OnItsWay
<1>14. Noted(c, request[c].meta)
  BY <1>1, RequestNoted
<1>15. Inv /\ MetaInv /\ c \in Calls
  OBVIOUS
<1> QED BY ONLY <1>1, <1>10, <1>11, <1>12, <1>13, <1>14, <1>15, OnItsWayIsMetaStep

\* A result is something.
LEMMA ResultIsSome ==
    ASSUME NEW r, "is" \in DOMAIN r
    PROVE  r # None
<1>1. PICK empty : empty = <<>>
  OBVIOUS
<1>2. empty \in Seq({}) /\ Len(empty) = 0
  BY <1>1
<1>3. DOMAIN empty = {}
  BY <1>2
<1> QED BY <1>1, <1>3 DEF None

\* What is not resolved to a route leaves no metadata.
LEMMA UnroutedIsMetaStep ==
    ASSUME Inv, MetaInv, NEW c \in Calls, stage[c] = "idle", CallStep(c),
           NEW next \in {"open", "ended", "settled"}, stage' = [stage EXCEPT ![c] = next],
           UNCHANGED <<scenario, runs, request, storage>>,
           \/ next # "settled" /\ result' = result
           \/ next = "settled" /\ result' = [result EXCEPT ![c] = [is |-> "rejected"]]
    PROVE  MetaStep(c)
<1>1. /\ HttpTypes /\ MetaTypes /\ To(c) \in Servers /\ CallerOK(c) /\ Call(c)' = Call(c) /\ To(c)' = To(c)
      /\ Alone(c)' = Alone(c)
  BY ScenarioAssumption DEF Inv, HttpInv, HttpTypes, MetaInv, To, Call, Alone
<1>2. stage'[c] = next
  BY <1>1 DEF HttpTypes
<1>3. ~Routed(c) /\ ~Routed(c)' /\ Quiet(c)' /\ Len(runs'[c]) <= 1
  BY Idle DEF Routed, Quiet
<1>4. /\ DOMAIN result' = Calls /\ \A d \in Calls \ {c} : result'[d] = result[d]
      /\ ~Resolved(c)' /\ (result'[c] # None <=> next = "settled")
  <2>1. PICK rejected : rejected = [is |-> "rejected"]
    OBVIOUS
  <2>2. rejected # None /\ rejected.is # "resolved"
    BY <2>1, ResultIsSome
  <2>3. result[c] = None
    BY <1>1 DEF CallerOK
  <2>4. CASE next # "settled" /\ result' = result
    BY <1>1, <2>3, <2>4 DEF MetaTypes, Resolved
  <2>5. CASE next = "settled" /\ result' = [result EXCEPT ![c] = rejected]
    BY <1>1, <2>2, <2>5 DEF MetaTypes, Resolved
  <2> QED BY <2>1, <2>4, <2>5
<1>5. CallerOK(c)'
  BY <1>2, <1>4 DEF CallerOK
<1>6. Alone(c) => ~Stored(c)'
  <2>1. Alone(c) => ~Stored(c)
    BY <1>1, <1>3, StoredIsRouted DEF Stored
  <2> QED BY <1>1, <2>1 DEF Stored
<1>7. MetaOK(c)'
  BY <1>1, <1>2, <1>3, <1>4, <1>6 DEF MetaOK, Accepted
<1>8. MetaTypes' /\ \A s \in Servers : \A id : SameEntry(s, id)
  BY <1>1, <1>4 DEF MetaTypes, SameEntry
<1> QED BY <1>3, <1>4, <1>5, <1>7, <1>8 DEF MetaStep, SameEntry

\* What is written leaves the metadata alone.
LEMMA WriteIsMetaStep ==
    ASSUME Inv, MetaInv, NEW c \in Calls, Write(c)
    PROVE  MetaStep(c)
<1>1. /\ outbox[c] # <<>> /\ CallStep(c)
      /\ scenario' = scenario /\ runs' = runs /\ request' = request /\ storage' = storage /\ result' = result
  BY WriteIsStep DEF Write
<1>2. /\ HttpTypes /\ MetaTypes /\ To(c) \in Servers /\ CallerOK(c) /\ Call(c)' = Call(c) /\ To(c)' = To(c)
      /\ Alone(c)' = Alone(c) /\ Named(c)' = Named(c)
  BY <1>1, ScenarioAssumption DEF Inv, HttpInv, HttpTypes, MetaInv, To, Call, Alone, Named
<1>3. \/ stage[c] # "open" /\ stage'[c] = stage[c]
      \/ stage[c] = "open" /\ stage'[c] \in {"cut", "ended"}
  <2>1. \/ stage' = [stage EXCEPT ![c] = IF @ = "open" THEN "cut" ELSE @]
        \/ stage[c] = "open" /\ stage' = [stage EXCEPT ![c] = "ended"]
    BY Zenon DEF Write
  <2> QED BY <1>2, <2>1 DEF HttpTypes
<1>4. Routed(c)' = Routed(c) /\ Quiet(c)' = Quiet(c) /\ Stored(c)' = Stored(c) /\ Resolved(c)' = Resolved(c)
      /\ OwnMeta(c)' = OwnMeta(c)
  BY <1>1, <1>2 DEF Routed, Quiet, Stored, Resolved, OwnMeta
<1>5. CallerOK(c)'
  BY <1>1, <1>2, <1>3, <1>4 DEF CallerOK
<1>6. ASSUME scenario.beds PROVE MetaOK(c)'
  <2>1. MetaOK(c)
    BY <1>6 DEF MetaInv
  <2>2. stage[c] # "idle" /\ Quiet(c)
    BY <1>1, <2>1 DEF MetaOK
  <2>3. Accepted(c)' => Accepted(c)
    BY <1>1, <1>2, <1>3, <1>4 DEF Accepted
  <2> QED BY <1>1, <1>2, <1>3, <1>4, <2>1, <2>2, <2>3 DEF MetaOK
<1>7. MetaTypes' /\ \A s \in Servers : \A id : SameEntry(s, id)
  BY <1>1, <1>2 DEF MetaTypes, SameEntry
<1> QED BY <1>1, <1>4, <1>5, <1>6, <1>7 DEF MetaStep, SameEntry

LEMMA MisreadIsMetaStep ==
    ASSUME Inv, MetaInv, NEW c \in Calls, Misread(c)
    PROVE  MetaStep(c)
<1>1. PICK lost : lost = [is |-> "unspecified"]
  OBVIOUS
<1>2. /\ stage[c] = "ended" /\ CallStep(c) /\ stage' = [stage EXCEPT ![c] = "settled"]
      /\ result' = [result EXCEPT ![c] = lost]
      /\ scenario' = scenario /\ runs' = runs /\ request' = request /\ storage' = storage /\ outbox' = outbox
  BY <1>1, ReadIsStep DEF Misread
<1>3. /\ HttpTypes /\ MetaTypes /\ Call(c)' = Call(c) /\ To(c)' = To(c) /\ Alone(c)' = Alone(c)
  BY <1>2 DEF Inv, HttpInv, MetaInv, To, Call, Alone
<1>4. lost # None /\ lost.is # "resolved"
  BY <1>1, ResultIsSome
<1>5. /\ DOMAIN result' = Calls /\ \A d \in Calls \ {c} : result'[d] = result[d]
      /\ result'[c] # None /\ ~Resolved(c)' /\ stage'[c] = "settled"
  BY <1>2, <1>3, <1>4 DEF HttpTypes, MetaTypes, Resolved
<1>6. Routed(c)' = Routed(c) /\ Quiet(c)' = Quiet(c) /\ Stored(c)' = Stored(c)
  BY <1>2, <1>3 DEF Routed, Quiet, Stored
<1>7. CallerOK(c)'
  BY <1>5 DEF CallerOK
<1>8. ASSUME scenario.beds PROVE MetaOK(c)'
  <2>1. MetaOK(c)
    BY <1>8 DEF MetaInv
  <2> QED BY <1>2, <1>3, <1>5, <1>6, <2>1 DEF MetaOK, Accepted
<1>9. MetaTypes' /\ \A s \in Servers : \A id : SameEntry(s, id)
  BY <1>2, <1>3, <1>5 DEF MetaTypes, SameEntry
<1> QED BY <1>2, <1>5, <1>6, <1>7, <1>8, <1>9 DEF MetaStep, SameEntry

\* The send of a test bed finds what was stored with the response, and takes it.
LEMMA ReceivedIsMetaStep ==
    ASSUME Inv, MetaInv, NEW c \in Calls, Received(c)
    PROVE  MetaStep(c)
<1>1. PICK s : s = Call(c).through
  OBVIOUS
<1>2. PICK found \in BOOLEAN : found <=> s # "none" /\ Call(c).id \in DOMAIN storage[s]
  OBVIOUS
<1>3. PICK got : got = [is |-> "resolved", status |-> response[c].status,
                        body |-> ParseResponse(response[c].type, response[c].bytes),
                        metadata |-> IF found THEN storage[s][Call(c).id] ELSE None]
  OBVIOUS
<1>4. /\ stage[c] = "ended" /\ CallStep(c) /\ stage' = [stage EXCEPT ![c] = "settled"]
      /\ result' = [result EXCEPT ![c] = got]
      /\ storage' = IF ~found THEN storage
                    ELSE [storage EXCEPT ![s] = [id \in DOMAIN @ \ {Call(c).id} |-> @[id]]]
      /\ scenario' = scenario /\ runs' = runs /\ request' = request /\ outbox' = outbox
  <2>1. result' = [result EXCEPT ![c] = got]
    BY <1>1, <1>2, <1>3, Zenon DEF Received
  <2>2. storage' = IF ~found THEN storage
                   ELSE [storage EXCEPT ![s] = [id \in DOMAIN @ \ {Call(c).id} |-> @[id]]]
    BY <1>1, <1>2, Zenon DEF Received
  <2> QED BY <2>1, <2>2, ReadIsStep DEF Received
<1>5. /\ HttpTypes /\ MetaTypes /\ To(c) \in Servers /\ Call(c)' = Call(c) /\ To(c)' = To(c)
      /\ Alone(c)' = Alone(c) /\ Named(c)' = Named(c)
      /\ s \in Servers \union {"none"} /\ "none" \notin Servers /\ (s # "none" => scenario.beds)
  BY <1>1, <1>4, ScenarioAssumption DEF Inv, HttpInv, HttpTypes, MetaInv, To, Call, Alone, Named
<1>6. got # None /\ got.is = "resolved" /\ got.metadata = IF found THEN storage[s][Call(c).id] ELSE None
  <2>1. "is" \in DOMAIN got
    BY <1>3
  <2> QED BY <1>3, <2>1, ResultIsSome
<1>7. /\ DOMAIN result' = Calls /\ \A d \in Calls \ {c} : result'[d] = result[d]
      /\ result'[c] = got /\ stage'[c] = "settled"
  BY <1>4, <1>5 DEF HttpTypes, MetaTypes
<1>8. Routed(c)' = Routed(c) /\ Quiet(c)' = Quiet(c)
  BY <1>4 DEF Routed, Quiet
<1>9. /\ DOMAIN storage' = Servers
      /\ \A t \in Servers : \A id : t # s \/ id # Call(c).id => SameEntry(t, id)
      /\ \A t \in Servers : DOMAIN storage'[t] \subseteq DOMAIN storage[t]
      /\ Call(c).id \in DOMAIN storage'[To(c)] => storage'[To(c)][Call(c).id] = storage[To(c)][Call(c).id]
      /\ s = To(c) => Call(c).id \notin DOMAIN storage'[s]
  <2>1. CASE ~found
    BY <1>2, <1>4, <1>5, <2>1 DEF MetaTypes, SameEntry
  <2>2. CASE found
    <3>1. PICK kept : kept = storage[s]
      OBVIOUS
    <3>2. PICK less : less = [id \in DOMAIN kept \ {Call(c).id} |-> kept[id]]
      OBVIOUS
    <3>3. s \in Servers /\ storage' = [storage EXCEPT ![s] = less]
      BY <1>2, <1>4, <1>5, <2>2, <3>1, <3>2
    <3>4. /\ DOMAIN storage' = Servers /\ storage'[s] = less
          /\ \A t \in Servers \ {s} : storage'[t] = storage[t]
      BY <1>5, <3>3 DEF MetaTypes
    <3>5. DOMAIN less = DOMAIN kept \ {Call(c).id} /\ \A id \in DOMAIN less : less[id] = kept[id]
      BY <3>2
    <3>6. ASSUME NEW t \in Servers, NEW id, t # s \/ id # Call(c).id PROVE SameEntry(t, id)
      BY <3>1, <3>4, <3>5, <3>6 DEF SameEntry
    <3>7. ASSUME NEW t \in Servers PROVE DOMAIN storage'[t] \subseteq DOMAIN storage[t]
      BY <3>1, <3>4, <3>5, <3>7
    <3> QED BY <1>5, <3>1, <3>4, <3>5, <3>6, <3>7
  <2> QED BY <2>1, <2>2
<1>10. Stored(c)' => Stored(c) /\ storage'[To(c)][Call(c).id] = storage[To(c)][Call(c).id]
  BY <1>5, <1>9 DEF Stored
<1>11. CallerOK(c)'
  BY <1>1, <1>2, <1>5, <1>6, <1>7 DEF CallerOK, Resolved
<1>12. ASSUME scenario.beds PROVE MetaOK(c)'
  <2>1. MetaOK(c)
    BY <1>12 DEF MetaInv
  <2>2. ASSUME Alone(c) PROVE OwnMeta(c)'
    <3>1. ASSUME found PROVE s = To(c) /\ storage[s][Call(c).id] = request[c].meta
      <4>1. s \in Servers /\ Call(c).id \in DOMAIN storage[s]
        BY <1>2, <1>5, <3>1
      <4>2. s = To(c)
        BY <1>5, <2>2, <4>1, StoredIsRouted
      <4> QED BY <2>1, <2>2, <4>1, <4>2 DEF MetaOK, Stored
    <3>2. ASSUME s = To(c), Routed(c), Named(c) PROVE found
      <4>1. Stored(c)
        BY <1>4, <2>1, <2>2, <3>2 DEF MetaOK, Accepted
      <4> QED BY <1>2, <1>5, <3>2, <4>1 DEF Stored
    <3>3. s = To(c) => ~Stored(c)'
      BY <1>5, <1>9 DEF Stored
    <3> QED BY <1>1, <1>4, <1>5, <1>6, <1>7, <1>8, <3>1, <3>2, <3>3 DEF OwnMeta
  <2> QED BY <1>4, <1>5, <1>7, <1>8, <1>10, <2>1, <2>2 DEF MetaOK, Accepted
<1>13. MetaTypes'
  BY <1>4, <1>5, <1>7, <1>9 DEF MetaTypes
<1> QED BY <1>4, <1>7, <1>8, <1>9, <1>11, <1>12, <1>13 DEF MetaStep, SameEntry

\* A request that is resolved has a run and metadata, and an error is answered with them.
LEMMA DispatchedIsMetaStep ==
    ASSUME Inv, MetaInv, NEW c \in Calls, stage[c] = "idle", handle[To(c)] = "open", attached[To(c)],
           Started(To(c)), UNCHANGED <<scenario, servers>>, Dispatched(c)
    PROVE  MetaStep(c)
<1>1. To(c) \in Servers /\ ~Routed(c) /\ CallStep(c) /\ MetaTypes /\ HttpTypes
  BY Idle, DispatchedIsStep DEF Routed, MetaInv, Inv, HttpInv
<1>2. stage' = [stage EXCEPT ![c] = "open"] /\ result' = result
  BY DEF Dispatched
<1>3. stage'[c] = "open"
  BY <1>1, <1>2 DEF HttpTypes
<1>4. PICK run, errors, meta, aside :
        /\ run \in Runs /\ GoesOn(run.at, errors) /\ meta # None /\ Noted(c, meta)
        /\ runs' = [Spared(c, aside) EXCEPT ![c] = Copies(c, run)]
        /\ Emit(c, "error", errors, meta) \/ (errors = <<>> /\ UNCHANGED <<storage, outbox>>)
  <2>1. PICK parsers \in Nat : parsers = Config(To(c)).parsers
    BY <1>1, ScenarioAssumption DEF HttpTypes, Config
  <2>2. PICK next : next = Onward(c, Undefined)
    OBVIOUS
  <2>3. PICK parsing : parsing = [at |-> "parsing", left |-> parsers, said |-> 0]
    OBVIOUS
  <2>4. PICK going : going = [at |-> next.at, left |-> 0, said |-> 0]
    OBVIOUS
  <2>5. PICK path : path = [path |-> Call(c).path]
    OBVIOUS
  <2>6. \/ /\ runs' = [runs EXCEPT ![c] = Copies(c, parsing)] /\ UNCHANGED <<storage, outbox>>
           /\ request' = [request EXCEPT ![c].meta = path]
        \/ /\ runs' = [Spared(c, next.errors) EXCEPT ![c] = Copies(c, going)]
           /\ request' = [request EXCEPT ![c].body = next.body, ![c].meta = next.meta]
           /\ Emit(c, "error", next.errors, next.meta)
    BY <2>1, <2>2, <2>3, <2>4, <2>5, Zenon DEF Dispatched
  <2>7. GoesOn(next.at, next.errors) /\ GoesOn("parsing", <<>>)
    <3>1. GoesOn("parsing", <<>>)
      BY DEF GoesOn, Places
    <3> QED BY <2>2, <3>1, Proceeding, Zenon
  <2>8. next.at \in Places
    BY <2>7 DEF GoesOn
  <2>9. parsing \in Runs /\ parsing.at = "parsing" /\ going \in Runs /\ going.at = next.at
    BY <2>1, <2>3, <2>4, <2>8 DEF Runs, Places
  <2>10. Spared(c, <<>>) = runs
    BY DEF Spared
  <2>11. path # None /\ next.meta # None
    BY <2>2, <2>5, MetaIsSome
  <2>12. request' = [request EXCEPT ![c].meta = path] => Noted(c, path)
    BY <1>1, RequestNoted
  <2>13. request' = [request EXCEPT ![c].body = next.body, ![c].meta = next.meta] => Noted(c, next.meta)
    BY <1>1, RequestNoted
  <2>14. CASE /\ runs' = [runs EXCEPT ![c] = Copies(c, parsing)] /\ UNCHANGED <<storage, outbox>>
              /\ request' = [request EXCEPT ![c].meta = path]
    BY <2>7, <2>9, <2>10, <2>11, <2>12, <2>14, Zenon
  <2>15. CASE /\ runs' = [Spared(c, next.errors) EXCEPT ![c] = Copies(c, going)]
              /\ request' = [request EXCEPT ![c].body = next.body, ![c].meta = next.meta]
              /\ Emit(c, "error", next.errors, next.meta)
    BY <2>7, <2>9, <2>11, <2>13, <2>15, Zenon
  <2> QED BY <2>6, <2>14, <2>15
<1>5. PICK base, copies : base = Spared(c, aside) /\ copies = Copies(c, run)
  OBVIOUS
<1>6. base \in [Calls -> Seq(Runs)]
  BY <1>1, <1>5, Sparing DEF HttpTypes
<1>7. PICK n \in Nat : n = handlers[To(c)]
  BY <1>1 DEF HttpTypes
<1>8. copies \in Seq(Runs) /\ DOMAIN copies = 1..n /\ \A i \in DOMAIN copies : copies[i] = run
  BY <1>4, <1>5, <1>7, Copying
<1>9. runs'[c] = copies
  <2>1. runs' = [base EXCEPT ![c] = copies]
    BY <1>4, <1>5
  <2> QED BY <1>6, <2>1
<1>10. n > 0
  <2>1. listens[To(c)] # <<>>
    <3>1. DOMAIN listens[To(c)] # {}
      BY DEF Started
    <3> QED BY <1>1, <3>1 DEF HttpTypes
  <2> QED BY <1>1, <1>7, <2>1 DEF MetaInv, HandlerOK
<1>11. Routed(c)'
  BY <1>8, <1>9, <1>10 DEF Routed
<1>12. ASSUME scenario.beds PROVE n <= 1
  <2>1. Len(listens[To(c)]) <= 1 /\ ListenOK(To(c))
    BY <1>1, <1>12 DEF Inv, HttpInv, BedInv, BedOK
  <2>2. PICK list : list = listens[To(c)] /\ list \in Seq({"pending", "resolved", "rejected"})
    BY <1>1 DEF HttpTypes
  <2>3. \A i \in DOMAIN list : ~(i > 1)
    BY <2>1, <2>2
  <2>4. ~Relistened(To(c))
    BY <2>2, <2>3 DEF Relistened
  <2> QED BY <1>7, <2>1, <2>4 DEF ListenOK
<1>13. ASSUME scenario.beds PROVE OnItsWay(c, errors, meta)
  <2>1. Len(runs'[c]) <= 1
    BY <1>8, <1>9, <1>12, <1>13
  <2>2. errors # <<>> => Quiet(c)'
    BY <1>4, <1>8, <1>9 DEF GoesOn, Quiet, Over
  <2> QED BY <1>1, <1>4, <2>1, <2>2 DEF OnItsWay
<1>14. Inv /\ MetaInv /\ c \in Calls /\ stage[c] = "idle"
  OBVIOUS
<1> QED BY ONLY <1>1, <1>2, <1>3, <1>4, <1>11, <1>13, <1>14, OnItsWayIsMetaStep

LEMMA SendIsMetaStep ==
    ASSUME Inv, MetaInv, NEW c \in Calls, Send(c)
    PROVE  MetaStep(c)
<1>1. stage[c] = "idle" /\ Started(To(c)) /\ UNCHANGED <<scenario, servers>> /\ CallStep(c)
  BY SendIsStep DEF Send
<1>2. PICK bytes : bytes = Requested(Call(c).headers, Call(c).body)
  OBVIOUS
<1>3. \/ /\ stage' = [stage EXCEPT ![c] = "settled"] /\ UNCHANGED <<sticky, storage, runs, request, outbox, response, accessLog>>
         /\ result' = [result EXCEPT ![c] = [is |-> "rejected"]]
      \/ /\ handle[To(c)] = "open"
         /\ Deaf(c) \/ Malformed(c) \/ PreflightAnswered(c) \/ (attached[To(c)] /\ Dispatched(c))
  BY <1>2, Zenon DEF Send
<1>4. CASE /\ stage' = [stage EXCEPT ![c] = "settled"] /\ UNCHANGED <<sticky, storage, runs, request, outbox, response, accessLog>>
           /\ result' = [result EXCEPT ![c] = [is |-> "rejected"]]
  BY <1>1, <1>4, UnroutedIsMetaStep
<1>5. CASE Deaf(c)
  BY <1>1, <1>5, UnroutedIsMetaStep DEF Deaf
<1>6. CASE Malformed(c)
  <2>1. storage' = storage \/ Collect(To(c), c, None)
    BY <1>6, Zenon DEF Malformed, Emit
  <2>2. To(c) \in Servers
    BY Idle, <1>1
  <2>3. storage' = storage
    BY <2>1, <2>2, Collecting
  <2> QED BY <1>1, <1>6, <2>3, UnroutedIsMetaStep DEF Malformed
<1>7. CASE PreflightAnswered(c)
  <2>1. stage' = [stage EXCEPT ![c] = "ended"] /\ UNCHANGED <<storage, runs, request, outbox, result>>
    BY <1>7 DEF PreflightAnswered
  <2> QED BY <1>1, <2>1, UnroutedIsMetaStep
<1>8. CASE handle[To(c)] = "open" /\ attached[To(c)] /\ Dispatched(c)
  BY <1>1, <1>8, DispatchedIsMetaStep
<1> QED BY <1>3, <1>4, <1>5, <1>6, <1>7, <1>8

\* Whatever a client and its request do.
LEMMA ClientKeepsMeta ==
    ASSUME Inv, MetaInv, NEW c \in Calls, Client(c)
    PROVE  MetaInv'
<1>1. CallStep(c)
  BY SendIsStep, CollectedIsStep, MultipartsIsStep, AnswerIsStep, WriteIsStep, ReadIsStep
     DEF Client, Work
<1>2. MetaStep(c)
  BY SendIsMetaStep, CollectedIsMetaStep, MultipartsIsMetaStep, AnswerIsMetaStep, WriteIsMetaStep,
     ReceivedIsMetaStep, MisreadIsMetaStep DEF Client, Work
<1>3. HttpTypes
  BY DEF Inv, HttpInv
<1> QED BY <1>1, <1>2, <1>3, MetaStepKeeps

\* Steps of servers and beds do nothing to the calls.
LEMMA CallsStay ==
    ASSUME MetaInv, UNCHANGED <<scenario, calls>>, \A s \in Servers : HandlerOK(s)'
    PROVE  MetaInv'
<1>1. UNCHANGED <<scenario, storage, stage, runs, request, outbox, result>>
  BY DEF calls
<1>2. MetaTypes' /\ KeptOK'
  BY <1>1 DEF MetaInv, MetaTypes, KeptOK, Routed, To, Call
<1>3. ASSUME NEW c \in Calls PROVE CallerOK(c)' /\ (scenario'.beds => MetaOK(c)')
  <2>1. Call(c)' = Call(c) /\ To(c)' = To(c) /\ Alone(c)' = Alone(c)
    BY <1>1 DEF To, Call, Alone
  <2>2. Routed(c)' = Routed(c) /\ Quiet(c)' = Quiet(c) /\ Stored(c)' = Stored(c) /\ Resolved(c)' = Resolved(c)
        /\ OwnMeta(c)' = OwnMeta(c) /\ Accepted(c)' = Accepted(c) /\ CallerOK(c)' = CallerOK(c)
    BY <1>1, <2>1 DEF Routed, Quiet, Stored, Resolved, OwnMeta, Accepted, CallerOK, Named
  <2>3. MetaOK(c)' = MetaOK(c)
    BY <1>1, <2>1, <2>2 DEF MetaOK
  <2> QED BY <1>1, <2>2, <2>3 DEF MetaInv
<1> QED BY <1>2, <1>3 DEF MetaInv

\* A server gets a handler with its first listen, and loses it as it is closed.
LEMMA HandlersStay ==
    ASSUME HttpInv, MetaInv, NEW s \in Servers,
           Listen(s) \/ Bound(s) \/ BindFails(s) \/ Close(s) \/ Drained(s)
    PROVE  \A t \in Servers : HandlerOK(t)'
<1>1. \A t \in Servers : HandlerOK(t)
  BY DEF MetaInv
<1>2. PICK l, m : l = listens[s] /\ m = handlers[s]
  OBVIOUS
<1>3. /\ l \in Seq({"pending", "resolved", "rejected"}) /\ m \in Nat /\ handle[s] \in {"none", "binding", "open"}
      /\ handle[s] # "none" => l # <<>>
  <2>1. ListenOK(s)
    BY DEF HttpInv
  <2>2. handle[s] = "open" => l # <<>>
    BY <1>2, <2>1 DEF ListenOK, Started
  <2> QED BY <1>2, <2>1, <2>2 DEF HttpInv, HttpTypes, ListenOK
<1>4. ASSUME attached' = attached,
             \A t \in Servers \ {s} : listens'[t] = listens[t] /\ handlers'[t] = handlers[t],
             (handlers'[s] = m /\ l # <<>>) \/ handlers'[s] > 0
      PROVE  \A t \in Servers : HandlerOK(t)'
  <2> SUFFICES ASSUME NEW t \in Servers PROVE HandlerOK(t)'
    OBVIOUS
  <2>1. CASE t = s
    BY <1>1, <1>2, <1>4, <2>1 DEF HandlerOK
  <2>2. CASE t # s
    BY <1>1, <1>4, <2>2 DEF HandlerOK
  <2> QED BY <2>1, <2>2
<1>5. CASE Listen(s)
  <2>1. attached' = attached
    BY <1>5 DEF Listen
  <2>2. CASE handle[s] = "open"
    <3>1. handlers' = handlers /\ listens' = [listens EXCEPT ![s] = Append(@, "rejected")]
      BY <1>5, <2>2 DEF Listen
    <3>2. \A t \in Servers \ {s} : listens'[t] = listens[t] /\ handlers'[t] = handlers[t]
      BY <3>1 DEF HttpInv, HttpTypes
    <3> QED BY <1>2, <1>3, <1>4, <2>1, <2>2, <3>1, <3>2
  <2>3. CASE handle[s] # "open"
    <3>1. /\ handlers' = [handlers EXCEPT ![s] = @ + 1]
          /\ listens' = [listens EXCEPT ![s] = Append(@, "pending")]
      BY <1>5, <2>3 DEF Listen
    <3>2. /\ \A t \in Servers \ {s} : listens'[t] = listens[t] /\ handlers'[t] = handlers[t]
          /\ handlers'[s] > 0
      BY <1>2, <1>3, <3>1 DEF HttpInv, HttpTypes
    <3> QED BY <1>4, <2>1, <3>2
  <2> QED BY <2>2, <2>3
<1>6. CASE Bound(s) \/ BindFails(s)
  <2>1. PICK outcome : listens' = [listens EXCEPT ![s] = Settled(@, outcome)]
    BY <1>6 DEF Bound, BindFails
  <2>2. attached' = attached /\ handlers' = handlers /\ handle[s] = "binding"
    BY <1>6 DEF Bound, BindFails
  <2>3. \A t \in Servers \ {s} : listens'[t] = listens[t] /\ handlers'[t] = handlers[t]
    BY <2>1, <2>2 DEF HttpInv, HttpTypes
  <2> QED BY <1>2, <1>3, <1>4, <2>2, <2>3
<1>7. CASE Close(s)
  BY <1>1, <1>7 DEF Close, HandlerOK
<1>8. CASE Drained(s)
  <2>1. listens' = listens /\ attached' = [attached EXCEPT ![s] = FALSE] /\ handlers' = [handlers EXCEPT ![s] = 0]
    BY <1>8 DEF Drained
  <2> QED BY <1>1, <2>1 DEF HttpInv, HttpTypes, HandlerOK
<1> QED BY <1>5, <1>6, <1>7, <1>8

\* Steps of owners, sockets and beds.
LEMMA OthersKeepMeta ==
    ASSUME Inv, MetaInv,
           \/ \E s \in Servers : Own(s) \/ Socket(s) \/ UseTestBed(s) \/ Register(s)
           \/ \E k \in Cleanups : CleanUp(k) \/ CleanupStep(k)
           \/ UNCHANGED vars
    PROVE  MetaInv'
<1>1. HttpInv /\ BedInv
  BY DEF Inv
<1>2. \/ UNCHANGED httpVars
      \/ /\ UNCHANGED <<scenario, calls>>
         /\ \E s \in Servers : Listen(s) \/ Bound(s) \/ BindFails(s) \/ Close(s) \/ Drained(s)
  <2>1. ASSUME NEW s \in Servers, Own(s) \/ Socket(s) \/ UseTestBed(s)
        PROVE  UNCHANGED <<scenario, calls>> /\ (Listen(s) \/ Bound(s) \/ BindFails(s) \/ Close(s) \/ Drained(s))
    BY <2>1, Zenon DEF Own, Socket, UseTestBed
  <2>2. ASSUME NEW s \in Servers, Register(s) PROVE UNCHANGED httpVars
    BY <2>2 DEF Register
  <2>3. ASSUME NEW k \in Cleanups, CleanUp(k) PROVE UNCHANGED httpVars
    BY <2>3 DEF CleanUp
  <2>4. ASSUME NEW k \in Cleanups, CleanupStep(k)
        PROVE  \/ UNCHANGED httpVars
               \/ UNCHANGED <<scenario, calls>> /\ \E s \in Servers : Close(s)
    <3>1. ASSUME NEW s \in cleanup[k].on, Finish(k, s)
          PROVE  s \in Servers /\ Close(s) /\ UNCHANGED <<scenario, calls>>
      <4>1. s \in Servers
        BY <1>1, <3>1, TaskTypes DEF BedInv
      <4> QED BY <3>1, <4>1 DEF Finish
    <3>2. ASSUME NEW s \in cleanup[k].on, DependencyFails(k, s) \/ Finished(k, s) PROVE UNCHANGED httpVars
      BY <3>2 DEF DependencyFails, Finished
    <3>3. CleanedUp(k) => UNCHANGED httpVars
      BY DEF CleanedUp
    <3> QED BY <2>4, <3>1, <3>2, <3>3 DEF CleanupStep
  <2>5. UNCHANGED vars => UNCHANGED httpVars
    BY DEF vars
  <2> QED BY <2>1, <2>2, <2>3, <2>4, <2>5
<1>3. CASE UNCHANGED httpVars
  <2>1. UNCHANGED <<scenario, calls, attached, listens, handlers>>
    BY <1>3 DEF httpVars, servers
  <2>2. \A s \in Servers : HandlerOK(s)'
    BY <2>1 DEF MetaInv, HandlerOK
  <2> QED BY <2>1, <2>2, CallsStay
<1>4. CASE /\ UNCHANGED <<scenario, calls>>
           /\ \E s \in Servers : Listen(s) \/ Bound(s) \/ BindFails(s) \/ Close(s) \/ Drained(s)
  BY <1>1, <1>4, HandlersStay, CallsStay
<1> QED BY <1>2, <1>3, <1>4

\* Nothing is stored before a call is made.
LEMMA InitKeepsMeta ==
    ASSUME Init
    PROVE  MetaInv
<1>1. PICK empty : empty = <<>>
  OBVIOUS
<1>2. DOMAIN empty = {} /\ Len(empty) = 0
  <2>1. empty \in Seq({}) /\ Len(empty) = 0
    BY <1>1
  <2> QED BY <2>1
<1>3. PICK blank : blank = [body |-> Undefined, meta |-> None, upload |-> Upload]
  OBVIOUS
<1>4. DOMAIN blank = {"body", "meta", "upload"}
  BY <1>3, Zenon
<1>5. /\ listens = [s \in Servers |-> empty] /\ storage = [s \in Servers |-> empty]
      /\ stage = [c \in Calls |-> "idle"] /\ runs = [c \in Calls |-> empty] /\ outbox = [c \in Calls |-> empty]
      /\ result = [c \in Calls |-> None] /\ scenario \in Scenarios
  BY <1>1 DEF Init, HttpInit
<1>6. request = [c \in Calls |-> blank]
  BY <1>3, Zenon DEF Init, HttpInit
<1>7. MetaTypes
  BY <1>4, <1>5, <1>6 DEF MetaTypes
<1>8. \A s \in Servers : HandlerOK(s)
  BY <1>1, <1>5 DEF HandlerOK
<1>9. KeptOK
  BY <1>2, <1>5 DEF KeptOK
<1>10. ASSUME NEW c \in Calls PROVE CallerOK(c) /\ MetaOK(c)
  <2>1. stage[c] = "idle" /\ runs[c] = empty /\ outbox[c] = empty /\ result[c] = None /\ To(c) \in Servers
    BY <1>5, ScenarioAssumption DEF To, Call
  <2>2. ~Routed(c) /\ Quiet(c) /\ ~Stored(c) /\ ~Resolved(c) /\ ~Accepted(c)
    BY <1>1, <1>2, <1>5, <2>1 DEF Routed, Quiet, Stored, Resolved, Accepted
  <2> QED BY <1>1, <1>2, <2>1, <2>2 DEF CallerOK, MetaOK
<1> QED BY <1>7, <1>8, <1>9, <1>10 DEF MetaInv

\* The metadata that a test bed returns are those of its own request, all of them if the request
\* got to a route of its server, and the storage keeps only what no one has come back for
\* (collect of http.requestMetadata.storage.ts and its getRequestMetadata, which the send of
\* http.testBed.request.ts calls; handleResponse and the middlewares on the way).
THEOREM MetadataIsSound == Spec => []MetadataSound
<1>1. Init => Inv /\ MetaInv
  BY InitKeeps, InitKeepsMeta
<1>2. Inv /\ MetaInv /\ [Next]_vars => MetaInv'
  <2> SUFFICES ASSUME Inv, MetaInv, [Next]_vars PROVE MetaInv'
    OBVIOUS
  <2>1. CASE \E c \in Calls : Client(c)
    BY <2>1, ClientKeepsMeta
  <2>2. CASE \/ \E s \in Servers : Own(s) \/ Socket(s) \/ UseTestBed(s) \/ Register(s)
             \/ \E k \in Cleanups : CleanUp(k) \/ CleanupStep(k)
             \/ UNCHANGED vars
    BY <2>2, OthersKeepMeta
  <2> QED BY <2>1, <2>2 DEF Next
<1>3. Inv /\ MetaInv => MetadataSound
  <2> SUFFICES ASSUME Inv, MetaInv PROVE MetadataSound
    OBVIOUS
  <2>1. ASSUME NEW c \in Calls
        PROVE  /\ To(c) \in Servers /\ CallerOK(c) /\ (scenario.beds => MetaOK(c))
               /\ Call(c).through \in Servers \union {"none"} /\ "none" \notin Servers
               /\ Call(c).through # "none" => scenario.beds
               /\ Len(Call(c).answers) \in Nat /\ Len(runs[c]) \in Nat
               /\ stage[c] \in Stages
    BY ScenarioAssumption DEF Inv, HttpInv, HttpTypes, MetaInv, To, Call
  <2>2. ASSUME NEW c \in Calls, result[c] # None, result[c].is = "resolved", Alone(c)
        PROVE  /\ result[c].metadata \in {None, request[c].meta}
               /\ Routed(c) /\ Call(c).id # "" /\ Call(c).through = To(c) =>
                     result[c].metadata = request[c].meta
    <3>1. CASE Call(c).through = "none"
      BY <2>1, <2>2, <3>1 DEF CallerOK, Resolved
    <3>2. CASE Call(c).through # "none"
      <4>1. OwnMeta(c)
        BY <2>1, <2>2, <3>2 DEF MetaOK, Resolved
      <4>2. Named(c) <=> Call(c).id # ""
        BY Zenon DEF Named
      <4> QED BY <4>1, <4>2, Zenon DEF OwnMeta
    <3> QED BY <3>1, <3>2
  <2>3. MetadataIsOwn
    BY <2>2, Zenon DEF MetadataIsOwn
  <2>4. ASSUME NEW s \in Servers, NEW id \in DOMAIN storage[s]
        PROVE  \E c \in Calls : Call(c).id = id /\ LeftInStorage(s, c)
    <3>1. PICK c \in Calls : Call(c).id = id /\ To(c) = s /\ Routed(c)
      BY <2>4 DEF MetaInv, KeptOK
    <3>2. ASSUME stage[c] = "settled", result[c].is = "resolved", Call(c).through = s,
                 ~(Len(Call(c).answers) > 1), Alone(c)
          PROVE  FALSE
      <4>1. scenario.beds /\ MetaOK(c) /\ Resolved(c)
        BY <2>1, <3>2 DEF CallerOK, Resolved
      <4>2. Len(Call(c).answers) <= 1
        BY <2>1, <3>2
      <4>3. ~Stored(c)
        BY <3>1, <3>2, <4>1, <4>2 DEF MetaOK, OwnMeta
      <4> QED BY <2>4, <3>1, <4>3 DEF Stored
    <3>3. LeftInStorage(s, c)
      BY <3>1, <3>2 DEF LeftInStorage
    <3> QED BY <3>1, <3>3
  <2> QED BY <2>3, <2>4 DEF MetadataSound
<1> QED BY <1>1, <1>2, <1>3, Invariance, PTL DEF Spec

=============================================================================
