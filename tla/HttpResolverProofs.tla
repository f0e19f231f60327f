-------------------------- MODULE HttpResolverProofs --------------------------
(***************************************************************************)
(* Proofs about HttpResolver, for every set of requests and routes.  The   *)
(* types come first; then, for any effects, that a dead pipeline has a     *)
(* culprit; then, for well-behaved effects, the invariant that a request   *)
(* is in at most one place (worked on, being sent, or answered), from      *)
(* which the pipelines survive and losses are confined to the siblings of  *)
(* a failed request on an undecorated route.                               *)
(***************************************************************************)
EXTENDS HttpResolver, TLAPS

SendRecords == [req : Requests, via : Pipelines, n : Nat, poison : BOOLEAN,
                step : {"head", "body"}]

\* The part of the state Send writes keeps its type.
SendingOK ==
    /\ sends \subseteq SendRecords
    /\ accepted \in [Requests -> Nat]
    /\ poisoned \subseteq Requests

\* Handing a response to a pipeline keeps the sending variables well typed.
LEMMA SendType ==
    ASSUME SendingOK, NEW q \in Requests, NEW p \in Pipelines, NEW b \in BOOLEAN, Send(q, p, b)
    PROVE  SendingOK'
<1>1. CASE p \in live /\ q \notin ended
  <2>1. [req |-> q, via |-> p, n |-> accepted[q], poison |-> b, step |-> "head"] \in SendRecords
    BY DEF SendRecords, SendingOK
  <2> QED BY <1>1, <2>1 DEF Send, SendingOK
<1>2. CASE ~(p \in live /\ q \notin ended)
  BY <1>2 DEF Send, SendingOK, sending
<1> QED BY <1>1, <1>2

\* The type invariant is established and kept by every action.
THEOREM TypeCorrect == Spec => []TypeOK
<1>1. Init => TypeOK
  <2> SUFFICES ASSUME Init PROVE TypeOK
    OBVIOUS
  <2>1. emits \in [Requests -> 0 .. MaxEmits]
    BY ResolverAssumption DEF Init
  <2>2. sends = {}
    BY DEF Init
  <2> QED BY <2>1, <2>2 DEF Init, TypeOK, Pipelines
<1>2. ASSUME TypeOK, [Next]_vars PROVE TypeOK'
  <2> USE ResolverAssumption, <1>2 DEF TypeOK
  <2>0. SendingOK /\ (SendingOK' => /\ sends' \subseteq [req : Requests, via : Pipelines, n : Nat,
                                                        poison : BOOLEAN, step : {"head", "body"}]
                                    /\ accepted' \in [Requests -> Nat]
                                    /\ poisoned' \subseteq Requests)
    BY DEF SendingOK, SendRecords
  <2>1. ASSUME NEW q \in Requests, NEW route \in Routes, Resolve(q, route) PROVE TypeOK'
    BY <2>1 DEF Resolve, sending
  <2>2. ASSUME NEW q \in Requests, NEW why \in {"unmatched", "malformed"}, Reject(q, why)
        PROVE  TypeOK'
    <3>1. SendingOK'
      BY <2>0, <2>2, SendType DEF Reject, Pipelines
    <3> QED BY <2>0, <2>2, <3>1 DEF Reject
  <2>3. ASSUME NEW q \in Requests, EffectStep(q) PROVE TypeOK'
    <3>1. ASSUME NEW b \in BOOLEAN, Emit(q, b) PROVE TypeOK'
      <4>1. SendingOK'
        BY <2>0, <3>1, SendType DEF Emit, Pipelines
      <4> QED BY <2>0, <3>1, <4>1 DEF Emit
    <3>2. CASE EmitUnbound(q)
      BY <3>2 DEF EmitUnbound, sending
    <3>3. CASE Complete(q)
      BY <3>3 DEF Complete, sending
    <3>4. CASE Fail(q)
      <4>1. SendingOK'
        BY <2>0, <3>4, SendType DEF Fail, Pipelines
      <4> QED BY <2>0, <3>4, <4>1 DEF Fail
    <3>5. CASE FailUnbound(q)
      BY <3>5 DEF FailUnbound, sending
    <3> QED BY <2>3, <3>1, <3>2, <3>3, <3>4, <3>5 DEF EffectStep
  <2>4. ASSUME NEW s \in sends, WriteHead(s) PROVE TypeOK'
    <3>1. [s EXCEPT !.step = "body"] \in SendRecords /\ s.req \in Requests
      BY DEF SendRecords
    <3>2. SendingOK' /\ heads' \subseteq Requests
      BY <2>0, <2>4, <3>1 DEF WriteHead, SendingOK
    <3>3. live' \subseteq Pipelines /\ process' \in {"up", "throwing", "down"}
      BY <2>4 DEF WriteHead, Throw
    <3> QED BY <2>0, <2>4, <3>2, <3>3 DEF WriteHead
  <2>5. ASSUME NEW s \in sends, End(s) PROVE TypeOK'
    BY <2>5 DEF End
  <2>6. CASE Uncaught
    BY <2>6 DEF Uncaught, sending
  <2>7. CASE Close
    BY <2>7 DEF Close, sending
  <2>8. CASE UNCHANGED vars
    BY <2>8 DEF vars
  <2> QED BY <1>2, <2>1, <2>2, <2>3, <2>4, <2>5, <2>6, <2>7, <2>8 DEF Next
<1> QED BY <1>1, <1>2, PTL DEF Spec
-----------------------------------------------------------------------------
\* Responses in flight are told apart by their number, which is below the count
\* of accepted ones; a head is only written for an accepted response; a response
\* that waits for its head behind a written one is a second one.
Numbered ==
    /\ \A s \in sends : s.n < accepted[s.req] /\ (s.poison => s.req \in poisoned)
    /\ \A s, t \in sends : s.req = t.req /\ s.n = t.n => s = t

SecondHead ==
    /\ \A q \in heads : accepted[q] > 0
    /\ \A s \in sends : s.step = "head" /\ s.req \in heads => accepted[s.req] > 1

PInv == TypeOK /\ Numbered /\ SecondHead /\ PipelineDeathHasCulprit

\* Accepting one more response keeps the numbering.
LEMMA SendKeeps ==
    ASSUME PInv, NEW q \in Requests, NEW p \in Pipelines, NEW b \in BOOLEAN, Send(q, p, b),
           UNCHANGED <<heads, live, closed>>, SendingOK'
    PROVE  (Numbered /\ SecondHead /\ PipelineDeathHasCulprit)'
<1>1. CASE p \in live /\ q \notin ended
  <2> DEFINE r == [req |-> q, via |-> p, n |-> accepted[q], poison |-> b, step |-> "head"]
  <2>1. /\ sends' = sends \cup {r}
        /\ accepted' = [accepted EXCEPT ![q] = @ + 1]
        /\ poisoned \subseteq poisoned' /\ (b => q \in poisoned')
    BY <1>1 DEF Send
  <2>2. r.req = q /\ r.n = accepted[q] /\ r.poison = b
    OBVIOUS
  <2> HIDE DEF r
  <2>3. \A s \in sends : s.req \in Requests /\ s.n \in Nat /\ s.n < accepted[s.req]
                        /\ (s.poison => s.req \in poisoned)
    BY DEF PInv, TypeOK, Numbered
  <2>4. \A c \in Requests : accepted[c] \in Nat /\ accepted'[c] = IF c = q THEN accepted[c] + 1
                                                                ELSE accepted[c]
    BY <2>1 DEF PInv, TypeOK
  <2>5. Numbered'
    BY <2>1, <2>2, <2>3, <2>4 DEF PInv, Numbered
  <2>6. SecondHead'
    BY <2>1, <2>2, <2>3, <2>4 DEF PInv, TypeOK, SecondHead
  <2>7. PipelineDeathHasCulprit'
    BY <2>1, <2>4 DEF PInv, PipelineDeathHasCulprit
  <2> QED BY <2>5, <2>6, <2>7
<1>2. CASE ~(p \in live /\ q \notin ended)
  BY <1>2 DEF Send, sending, PInv, Numbered, SecondHead, PipelineDeathHasCulprit
<1> QED BY <1>1, <1>2

\* Writing a head, or failing to, keeps the invariant: the response that stops a
\* pipeline is poisonous or a second one.
LEMMA WriteHeadKeeps ==
    ASSUME PInv, NEW s \in sends, WriteHead(s)
    PROVE  (Numbered /\ SecondHead /\ PipelineDeathHasCulprit)'
<1>0. /\ s.step = "head" /\ s.req \in Requests /\ UNCHANGED <<accepted, poisoned, closed>>
      /\ s.n < accepted[s.req] /\ (s.poison => s.req \in poisoned)
  BY DEF WriteHead, PInv, TypeOK, Numbered
<1>1. CASE s.poison \/ s.req \in heads
  <2>1. sends' = sends \ {s} /\ heads' = heads /\ live' = live \ {s.via}
    BY <1>1 DEF WriteHead, Throw
  <2>2. accepted[s.req] > 1 \/ s.req \in poisoned
    BY <1>0, <1>1 DEF PInv, SecondHead
  <2>3. PipelineDeathHasCulprit'
    BY <1>0, <2>2 DEF PipelineDeathHasCulprit
  <2> QED BY <1>0, <2>1, <2>3 DEF PInv, Numbered, SecondHead
<1>2. CASE ~(s.poison \/ s.req \in heads)
  <2> DEFINE r == [s EXCEPT !.step = "body"]
  <2>1. sends' = (sends \ {s}) \cup {r} /\ heads' = heads \cup {s.req} /\ UNCHANGED live
    BY <1>2 DEF WriteHead
  <2>2. r.req = s.req /\ r.n = s.n /\ r.poison = s.poison /\ r.step = "body"
    BY DEF PInv, TypeOK
  <2> HIDE DEF r
  <2>3. \A t \in sends : t.req = s.req /\ t # s => accepted[s.req] > 1
    <3>1. \A t \in sends : t.n \in Nat /\ t.n < accepted[t.req] /\ accepted[t.req] \in Nat
      BY DEF PInv, TypeOK, Numbered
    <3>2. \A t \in sends : t.req = s.req /\ t # s => t.n # s.n
      BY DEF PInv, Numbered
    <3> QED BY <3>1, <3>2
  <2>4. Numbered'
    BY <1>0, <2>1, <2>2 DEF PInv, Numbered
  <2>5. SecondHead'
    BY <1>0, <2>1, <2>2, <2>3 DEF PInv, TypeOK, SecondHead
  <2>6. PipelineDeathHasCulprit'
    BY <1>0, <2>1 DEF PInv, PipelineDeathHasCulprit
  <2> QED BY <2>4, <2>5, <2>6
<1> QED BY <1>1, <1>2

\* The invariant about pipelines holds for any effects.
THEOREM PipelineInvariance == Spec => []PInv
<1>1. Init /\ TypeOK => PInv
  BY DEF Init, PInv, Numbered, SecondHead, PipelineDeathHasCulprit
<1>2. ASSUME PInv, TypeOK', [Next]_vars PROVE PInv'
  <2>0. SendingOK'
    BY <1>2 DEF SendingOK, SendRecords, TypeOK
  <2>1. ASSUME UNCHANGED <<sends, accepted, poisoned, heads, closed, live>> PROVE PInv'
    BY <1>2, <2>1 DEF PInv, Numbered, SecondHead, PipelineDeathHasCulprit
  <2>2. ASSUME NEW q \in Requests, NEW p \in Pipelines, NEW b \in BOOLEAN, Send(q, p, b),
               UNCHANGED <<heads, live, closed>>
        PROVE  PInv'
    BY <1>2, <2>0, <2>2, SendKeeps DEF PInv
  <2>3. ASSUME NEW q \in Requests, NEW route \in Routes, Resolve(q, route) PROVE PInv'
    BY <2>1, <2>3 DEF Resolve, sending
  <2>4. ASSUME NEW q \in Requests, NEW why \in {"unmatched", "malformed"}, Reject(q, why)
        PROVE  PInv'
    BY <2>2, <2>4 DEF Reject, Pipelines
  <2>5. ASSUME NEW q \in Requests, EffectStep(q) PROVE PInv'
    <3>1. ASSUME NEW b \in BOOLEAN, Emit(q, b) PROVE PInv'
      BY <2>2, <3>1 DEF Emit, Pipelines
    <3>2. CASE EmitUnbound(q) \/ Complete(q) \/ FailUnbound(q)
      BY <2>1, <3>2 DEF EmitUnbound, Complete, FailUnbound, sending
    <3>3. CASE Fail(q)
      BY <2>2, <3>3 DEF Fail, Pipelines
    <3> QED BY <2>5, <3>1, <3>2, <3>3 DEF EffectStep
  <2>6. ASSUME NEW s \in sends, WriteHead(s) PROVE PInv'
    BY <1>2, <2>6, WriteHeadKeeps DEF PInv
  <2>7. ASSUME NEW s \in sends, End(s) PROVE PInv'
    BY <1>2, <2>7 DEF End, PInv, Numbered, SecondHead, PipelineDeathHasCulprit
  <2>8. CASE Uncaught
    BY <2>1, <2>8 DEF Uncaught, sending
  <2>9. CASE Close
    BY <1>2, <2>9 DEF Close, sending, PInv, Numbered, SecondHead, PipelineDeathHasCulprit
  <2>10. CASE UNCHANGED vars
    BY <2>1, <2>10 DEF vars
  <2> QED BY <1>2, <2>3, <2>4, <2>5, <2>6, <2>7, <2>8, <2>9, <2>10 DEF Next
<1> QED BY <1>1, <1>2, TypeCorrect, PTL DEF Spec

\* A pipeline dies only of a request answered twice or of an unwritable response.
THEOREM PipelineDeath == Spec => []PipelineDeathHasCulprit
  BY PipelineInvariance, PTL DEF PInv
-----------------------------------------------------------------------------
\* With well-behaved effects a request is in one place at a time: not arrived,
\* worked on with nothing emitted, being sent, or ended; and nothing has failed
\* that the streams depend on.
OnePlace(q) ==
    /\ accepted[q] \in {0, 1}
    /\ ~Arrived(q) => accepted[q] = 0 /\ q \notin working
    /\ q \in working => accepted[q] = emits[q] /\ ~closed /\ target[q] \in Routes
    /\ q \notin working /\ ~Arrived(q) => emits[q] = 0
    /\ q \in ended => accepted[q] = 1
    /\ accepted[q] = 1 /\ q \notin ended => \E s \in sends : s.req = q

Healthy ==
    /\ poisoned = {}
    /\ process = "up"
    /\ ~closed => live = Pipelines /\ liveRoutes = Routes

WInv ==
    /\ PInv
    /\ WellBehaved => Healthy /\ LostOnlyBySibling /\ \A q \in Requests : OnePlace(q)

\* The first response of a request is accepted while the server is open.
LEMMA FirstAnswer ==
    ASSUME WInv, WellBehaved, ~closed, NEW q \in Requests, accepted[q] = 0,
           NEW p \in Pipelines, Send(q, p, FALSE)
    PROVE  /\ \A s \in sends : s \in sends'
           /\ \E s \in sends' : s.req = q
           /\ accepted' = [accepted EXCEPT ![q] = 1]
           /\ poisoned' = poisoned
<1>1. p \in live /\ q \notin ended
  BY DEF WInv, Healthy, OnePlace
<1> DEFINE r == [req |-> q, via |-> p, n |-> accepted[q], poison |-> FALSE, step |-> "head"]
<1>2. sends' = sends \cup {r} /\ r.req = q
  BY <1>1 DEF Send
<1> HIDE DEF r
<1>3. accepted' = [accepted EXCEPT ![q] = 1] /\ poisoned' = poisoned
  BY <1>1 DEF Send, WInv, PInv, TypeOK
<1> QED BY <1>2, <1>3

\* With well-behaved effects no head fails.
LEMMA HeadsSucceed ==
    ASSUME WInv, WellBehaved, NEW s \in sends, WriteHead(s)
    PROVE  /\ UNCHANGED <<live, process>>
           /\ \A q \in Requests : (\E t \in sends : t.req = q) => (\E t \in sends' : t.req = q)
<1>1. s.req \in Requests /\ s.step = "head" /\ ~s.poison
  BY DEF WriteHead, WInv, PInv, TypeOK, Numbered, Healthy
<1>2. s.req \notin heads
  BY <1>1 DEF WInv, PInv, SecondHead, OnePlace
<1> DEFINE r == [s EXCEPT !.step = "body"]
<1>3. sends' = (sends \ {s}) \cup {r} /\ UNCHANGED <<live, process>>
  BY <1>1, <1>2 DEF WriteHead
<1>4. r.req = s.req
  BY DEF WInv, PInv, TypeOK
<1> HIDE DEF r
<1> QED BY <1>3, <1>4

\* The server of well-behaved effects: every action keeps the invariant.
LEMMA WellBehavedStep ==
    ASSUME WInv, PInv', WellBehaved, [Next]_vars
    PROVE  (Healthy /\ LostOnlyBySibling /\ \A q \in Requests : OnePlace(q))'
<1> DEFINE Good == Healthy /\ LostOnlyBySibling /\ \A q \in Requests : OnePlace(q)
<1>0. /\ Good /\ TypeOK /\ TypeOK' /\ Faults = {} /\ MaxEmits = 1
      /\ \A s \in sends : s.req \in Requests
  BY DEF WInv, PInv, WellBehaved, TypeOK
<1>1. ASSUME NEW q \in Requests, NEW route \in Routes, Resolve(q, route) PROVE Good'
  <2>1. /\ ~Arrived(q) /\ ~closed /\ working' = working \cup {q}
        /\ target' = [target EXCEPT ![q] = route]
        /\ UNCHANGED <<emits, failed, liveRoutes, live, sends, accepted, poisoned, ended,
                       process, closed>>
    BY <1>0, <1>1 DEF Resolve, Healthy, sending
  <2>2. \A c \in Requests : target'[c] = IF c = q THEN route ELSE target[c]
    BY <1>0, <2>1 DEF TypeOK
  <2>3. emits[q] = 0 /\ accepted[q] = 0 /\ target[q] = "none" /\ route # "none"
    BY <1>0, <2>1, ResolverAssumption DEF OnePlace, Arrived
  <2>4. \A c \in Requests : OnePlace(c)'
    BY <1>0, <2>1, <2>2, <2>3 DEF OnePlace, Arrived
  <2>5. LostOnlyBySibling'
    BY <1>0, <2>1, <2>2, <2>3 DEF LostOnlyBySibling, Dropped, Arrived, TypeOK
  <2> QED BY <1>0, <2>1, <2>4, <2>5 DEF Healthy
<1>2. ASSUME NEW q \in Requests, NEW why \in {"unmatched", "malformed"}, Reject(q, why)
      PROVE  Good'
  <2>1. /\ ~Arrived(q) /\ ~closed /\ Send(q, "error", FALSE)
        /\ target' = [target EXCEPT ![q] = why]
        /\ UNCHANGED <<emits, working, failed, liveRoutes, live, ended, process, closed>>
    BY <1>2 DEF Reject
  <2>2. accepted[q] = 0 /\ q \notin working /\ target[q] = "none"
    BY <1>0, <2>1 DEF OnePlace, Arrived
  <2>3. /\ \A s \in sends : s \in sends'
        /\ \E s \in sends' : s.req = q
        /\ accepted' = [accepted EXCEPT ![q] = 1]
        /\ poisoned' = poisoned
    BY <2>1, <2>2, FirstAnswer DEF Pipelines
  <2>4. \A c \in Requests : target'[c] = IF c = q THEN why ELSE target[c]
    BY <1>0, <2>1 DEF TypeOK
  <2>5. \A c \in Requests : accepted'[c] = IF c = q THEN 1 ELSE accepted[c]
    BY <1>0, <2>3 DEF TypeOK
  <2>6. \A c \in Requests : OnePlace(c)'
    BY <1>0, <2>1, <2>2, <2>3, <2>4, <2>5 DEF OnePlace, Arrived
  <2>7. LostOnlyBySibling'
    BY <1>0, <2>1, <2>2, <2>3, <2>4 DEF LostOnlyBySibling, Dropped, Arrived, TypeOK
  <2> QED BY <1>0, <2>1, <2>3, <2>6, <2>7 DEF Healthy
<1>3. ASSUME NEW q \in Requests, NEW b \in BOOLEAN, Emit(q, b) PROVE Good'
  <2>1. /\ q \in working /\ emits[q] = 0 /\ Send(q, "output", FALSE)
        /\ emits' = [emits EXCEPT ![q] = 1]
        /\ UNCHANGED <<target, working, failed, liveRoutes, live, ended, process, closed>>
    <3>1. q \in working /\ emits[q] < MaxEmits /\ b = FALSE /\ emits[q] \in 0 .. MaxEmits
      BY <1>0, <1>3 DEF Emit, TypeOK
    <3>2. emits[q] = 0
      BY <1>0, <3>1
    <3>3. Send(q, "output", FALSE)
      BY <1>3, <3>1 DEF Emit
    <3>4. /\ emits' = [emits EXCEPT ![q] = emits[q] + 1]
          /\ UNCHANGED <<target, working, failed, liveRoutes, live, ended, process, closed>>
      BY <1>3 DEF Emit
    <3>5. emits' = [emits EXCEPT ![q] = 1]
      BY <3>2, <3>4
    <3> QED BY <3>1, <3>2, <3>3, <3>4, <3>5
  <2>2. accepted[q] = 0 /\ ~closed /\ Arrived(q)
    BY <1>0, <2>1 DEF OnePlace
  <2>3. /\ \A s \in sends : s \in sends'
        /\ \E s \in sends' : s.req = q
        /\ accepted' = [accepted EXCEPT ![q] = 1]
        /\ poisoned' = poisoned
    BY <2>1, <2>2, FirstAnswer DEF Pipelines
  <2>4. \A c \in Requests : /\ accepted'[c] = IF c = q THEN 1 ELSE accepted[c]
                           /\ emits'[c] = IF c = q THEN 1 ELSE emits[c]
    BY <1>0, <2>1, <2>3 DEF TypeOK
  <2>5. \A c \in Requests : OnePlace(c)'
    BY <1>0, <2>1, <2>2, <2>3, <2>4 DEF OnePlace, Arrived
  <2>6. LostOnlyBySibling'
    BY <1>0, <2>1, <2>3 DEF LostOnlyBySibling, Dropped, Arrived, TypeOK
  <2> QED BY <1>0, <2>1, <2>3, <2>5, <2>6 DEF Healthy
<1>4. ASSUME NEW q \in Requests, Complete(q) PROVE Good'
  <2>1. /\ q \in working /\ emits[q] = 1 /\ working' = working \ {q}
        /\ UNCHANGED <<target, emits, failed, liveRoutes, live, sends, accepted, poisoned,
                       ended, process, closed>>
    BY <1>0, <1>4 DEF Complete, TypeOK, sending
  <2>2. Arrived(q) /\ (q \in ended \/ \E s \in sends : s.req = q)
    BY <1>0, <2>1 DEF OnePlace
  <2>3. \A c \in Requests : OnePlace(c)'
    BY <1>0, <2>1, <2>2 DEF OnePlace, Arrived
  <2>4. LostOnlyBySibling'
    BY <1>0, <2>1, <2>2 DEF LostOnlyBySibling, Dropped, Arrived
  <2> QED BY <1>0, <2>1, <2>3, <2>4 DEF Healthy
<1>5. ASSUME NEW q \in Requests, Fail(q) PROVE Good'
  <2>1. /\ q \in working /\ emits[q] = 0 /\ Send(q, "error", FALSE)
        /\ failed' = failed \cup {q}
        /\ working' \subseteq working
        /\ \A c \in working : c \in working' \/ c = q
                            \/ (~Decorated(q) /\ target[c] = target[q])
        /\ UNCHANGED <<target, emits, liveRoutes, live, ended, process, closed>>
    <3>1. emits[q] \in 0 .. 1 /\ ~(emits[q] > 0)
      BY <1>0, <1>5 DEF Fail, TypeOK
    <3>2. emits[q] = 0
      BY <3>1
    <3> QED BY <1>5, <3>2 DEF Fail
  <2>2. accepted[q] = 0 /\ ~closed /\ Arrived(q)
    BY <1>0, <2>1 DEF OnePlace
  <2>3. /\ \A s \in sends : s \in sends'
        /\ \E s \in sends' : s.req = q
        /\ accepted' = [accepted EXCEPT ![q] = 1]
        /\ poisoned' = poisoned
    BY <2>1, <2>2, FirstAnswer DEF Pipelines
  <2>4. q \notin working'
    BY <1>5 DEF Fail
  <2>5. \A c \in Requests : accepted'[c] = IF c = q THEN 1 ELSE accepted[c]
    BY <1>0, <2>3 DEF TypeOK
  <2>6. \A c \in Requests : OnePlace(c)'
    BY <1>0, <2>1, <2>2, <2>3, <2>4, <2>5 DEF OnePlace, Arrived
  <2>7. target[q] \in Routes
    BY <1>0, <2>1 DEF OnePlace
  <2>8. LostOnlyBySibling'
    <3> SUFFICES ASSUME NEW c \in Requests, Dropped(c)'
                 PROVE  target[c] \in Continuous /\ \E p \in failed' : p # c /\ target[p] = target[c]
      BY <2>1 DEF LostOnlyBySibling
    <3>1. c # q /\ Arrived(c) /\ c \notin ended /\ \A s \in sends : s.req # c
      BY <2>1, <2>3 DEF Dropped, Arrived
    <3>2. CASE c \in working
      BY <2>1, <2>7, <3>1, <3>2 DEF Dropped, Decorated
    <3>3. CASE c \notin working
      BY <1>0, <2>1, <3>1, <3>3 DEF LostOnlyBySibling, Dropped
    <3> QED BY <3>2, <3>3
  <2> QED BY <1>0, <2>1, <2>3, <2>6, <2>8 DEF Healthy
<1>6. ASSUME NEW q \in Requests, EmitUnbound(q) \/ FailUnbound(q) PROVE FALSE
  BY <1>0, <1>6 DEF EmitUnbound, FailUnbound
<1>7. ASSUME NEW s \in sends, WriteHead(s) PROVE Good'
  <2>1. /\ UNCHANGED <<target, emits, working, failed, liveRoutes, live, accepted, poisoned,
                       ended, process, closed>>
        /\ \A q \in Requests : (\E t \in sends : t.req = q) => (\E t \in sends' : t.req = q)
    BY <1>7, HeadsSucceed DEF WriteHead
  <2>2. \A c \in Requests : OnePlace(c)'
    BY <1>0, <2>1 DEF OnePlace, Arrived
  <2>3. LostOnlyBySibling'
    <3> SUFFICES ASSUME NEW c \in Requests, Dropped(c)' PROVE Dropped(c)
      BY <1>0, <2>1 DEF LostOnlyBySibling
    <3> QED BY <2>1 DEF Dropped, Arrived
  <2> QED BY <1>0, <2>1, <2>2, <2>3 DEF Healthy
<1>8. ASSUME NEW s \in sends, End(s) PROVE Good'
  <2>1. /\ UNCHANGED <<target, emits, working, failed, liveRoutes, live, accepted, poisoned,
                       process, closed>>
        /\ sends' = sends \ {s} /\ ended' = ended \cup {s.req}
    BY <1>8 DEF End
  <2>2. accepted[s.req] = 1
    BY <1>0 DEF OnePlace, WInv, PInv, Numbered, TypeOK
  <2>3. \A c \in Requests : OnePlace(c)'
    BY <1>0, <2>1, <2>2 DEF OnePlace, Arrived
  <2>4. LostOnlyBySibling'
    BY <1>0, <2>1 DEF LostOnlyBySibling, Dropped, Arrived
  <2> QED BY <1>0, <2>1, <2>3, <2>4 DEF Healthy
<1>9. ASSUME Uncaught PROVE FALSE
  BY <1>0, <1>9 DEF Uncaught, Healthy
<1>10. ASSUME Close PROVE Good'
  <2>1. /\ \A q \in Requests : Arrived(q) => q \in ended
        /\ closed' = TRUE /\ working' = {}
        /\ UNCHANGED <<target, emits, failed, sends, accepted, poisoned, ended, process>>
    BY <1>10 DEF Close, sending
  <2>2. \A c \in Requests : OnePlace(c)'
    BY <1>0, <2>1 DEF OnePlace, Arrived
  <2>3. LostOnlyBySibling'
    BY <2>1 DEF LostOnlyBySibling, Dropped, Arrived
  <2> QED BY <1>0, <2>1, <2>2, <2>3 DEF Healthy
<1>11. ASSUME UNCHANGED vars PROVE Good'
  BY <1>0, <1>11 DEF vars, Healthy, LostOnlyBySibling, Dropped, OnePlace, Arrived
<1> QED BY <1>1, <1>2, <1>3, <1>4, <1>5, <1>6, <1>7, <1>8, <1>9, <1>10, <1>11
        DEF Next, EffectStep

\* The two invariants together.
THEOREM WellBehavedInvariance == Spec => []WInv
<1>1. Init /\ PInv => WInv
  <2> SUFFICES ASSUME Init, PInv PROVE WInv
    OBVIOUS
  <2>1. \A q \in Requests : OnePlace(q)
    <3> SUFFICES ASSUME NEW q \in Requests PROVE OnePlace(q)
      OBVIOUS
    <3>1. target[q] = "none" /\ accepted[q] = 0 /\ emits[q] = 0 /\ q \notin working \cup ended
      BY DEF Init
    <3> QED BY <3>1 DEF OnePlace, Arrived
  <2>2. LostOnlyBySibling
    BY DEF Init, LostOnlyBySibling, Dropped, Arrived
  <2> QED BY <2>1, <2>2 DEF Init, WInv, Healthy
<1>2. WInv /\ PInv' /\ [Next]_vars => WInv'
  BY WellBehavedStep DEF WInv, WellBehaved
<1> QED BY <1>1, <1>2, PipelineInvariance, PTL DEF Spec

\* Well-behaved effects never stop a pipeline nor throw into the event loop.
THEOREM ServerStaysUp == Spec => []StaysUp
<1>1. WInv => StaysUp
  BY DEF WInv, Healthy, StaysUp
<1> QED BY <1>1, WellBehavedInvariance, PTL

\* A request is lost only on an undecorated route, by another one's failure.
THEOREM LossIsConfined == Spec => []LostOnlyBySibling
<1>1. WInv => LostOnlyBySibling
  BY DEF WInv, LostOnlyBySibling
<1> QED BY <1>1, WellBehavedInvariance, PTL
-----------------------------------------------------------------------------
\* With well-behaved effects what is being sent has not ended, and a response whose
\* body is being written has its head written.
SendsOpen ==
    \A s \in sends : s.req \notin ended /\ (s.step = "body" => s.req \in heads)

WellSent == WInv /\ (WellBehaved => SendsOpen)

\* A request then has at most one response in flight.
LEMMA OneResponse ==
    ASSUME WInv, WellBehaved, NEW s \in sends, NEW t \in sends, s.req = t.req
    PROVE  s = t
<1>1. s.req \in Requests /\ s.n \in Nat /\ t.n \in Nat /\ s.n < accepted[s.req] /\ t.n < accepted[t.req]
  BY DEF WInv, PInv, TypeOK, Numbered
<1>2. accepted[s.req] \in {0, 1}
  BY <1>1 DEF WInv, OnePlace
<1>3. s.n = t.n
  BY <1>1, <1>2
<1> QED BY <1>3 DEF WInv, PInv, Numbered

\* Handing over a response of a request that has not ended keeps SendsOpen.
LEMMA SendOpen ==
    ASSUME SendsOpen, NEW q, NEW p, NEW b, Send(q, p, b), UNCHANGED <<ended, heads>>
    PROVE  SendsOpen'
BY DEF Send, SendsOpen, sending

\* Every action keeps SendsOpen.
LEMMA SendsOpenStep == ASSUME WInv, WellBehaved, SendsOpen, [Next]_vars PROVE SendsOpen'
<1>1. ASSUME UNCHANGED <<sends, heads, ended>> PROVE SendsOpen'
  BY <1>1 DEF SendsOpen
<1>2. ASSUME NEW q \in Requests, NEW route \in Routes, Resolve(q, route) PROVE SendsOpen'
  BY <1>1, <1>2 DEF Resolve, sending
<1>3. ASSUME NEW q \in Requests, NEW why \in {"unmatched", "malformed"}, Reject(q, why)
      PROVE  SendsOpen'
  BY <1>3, SendOpen DEF Reject
<1>4. ASSUME NEW q \in Requests, EffectStep(q) PROVE SendsOpen'
  <2>1. ASSUME NEW b \in BOOLEAN, Emit(q, b) PROVE SendsOpen'
    BY <2>1, SendOpen DEF Emit
  <2>2. CASE EmitUnbound(q) \/ Complete(q) \/ FailUnbound(q)
    BY <1>1, <2>2 DEF EmitUnbound, Complete, FailUnbound, sending
  <2>3. CASE Fail(q)
    BY <2>3, SendOpen DEF Fail
  <2> QED BY <1>4, <2>1, <2>2, <2>3 DEF EffectStep
<1>5. ASSUME NEW s \in sends, WriteHead(s) PROVE SendsOpen'
  <2> DEFINE r == [s EXCEPT !.step = "body"]
  <2>1. r.req = s.req
    BY DEF WInv, PInv, TypeOK
  <2>2. \/ sends' = sends \ {s} /\ heads' = heads
        \/ sends' = (sends \ {s}) \cup {r} /\ heads' = heads \cup {s.req}
    <3>1. CASE s.poison \/ s.req \in heads
      BY <1>5, <3>1 DEF WriteHead
    <3>2. CASE ~(s.poison \/ s.req \in heads)
      BY <1>5, <3>2 DEF WriteHead
    <3> QED BY <3>1, <3>2
  <2>3. ended' = ended
    BY <1>5 DEF WriteHead
  <2> HIDE DEF r
  <2> QED BY <2>1, <2>2, <2>3 DEF SendsOpen
<1>6. ASSUME NEW s \in sends, End(s) PROVE SendsOpen'
  <2>1. sends' = sends \ {s} /\ ended' = ended \cup {s.req} /\ heads' = heads
    BY <1>6 DEF End
  <2>2. \A t \in sends' : t.req # s.req
    BY <2>1, OneResponse
  <2> QED BY <2>1, <2>2 DEF SendsOpen
<1>7. CASE Uncaught \/ Close \/ UNCHANGED vars
  BY <1>1, <1>7 DEF Uncaught, Close, vars, sending
<1> QED BY <1>2, <1>3, <1>4, <1>5, <1>6, <1>7 DEF Next

\* SendsOpen holds along every behaviour of well-behaved effects.
LEMMA WellSentInvariance == Spec => []WellSent
<1>1. Init /\ WInv => WellSent
  BY DEF Init, WellSent, SendsOpen
<1>2. WellSent /\ WInv' /\ [Next]_vars => WellSent'
  BY SendsOpenStep DEF WellSent, WellBehaved
<1> QED BY <1>1, <1>2, WellBehavedInvariance, PTL DEF Spec

\* Where a request is in its life, as the abstract specification sees it.
Status == [q \in Requests |->
             IF target[q] \in Continuous \cup {"none"} THEN "idle"
             ELSE IF q \in ended THEN "answered"
             ELSE IF q \in heads THEN "replying" ELSE "open"]

\* One request moves on, the others stay.
LEMMA Moves ==
    ASSUME NEW q \in Requests, NEW to, Status'[q] = to,
           \A c \in Requests : c # q => Status'[c] = Status[c]
    PROVE  Status' = [Status EXCEPT ![q] = to]
BY DEF Status

\* Every step of the server is a step of RequestReply, or none.
LEMMA StepRefines ==
    ASSUME WellSent, WellBehaved, [Next]_vars
    PROVE  [Promise!Next]_Status
<1>0. /\ WInv /\ SendsOpen /\ TypeOK /\ \A c \in Requests : OnePlace(c)
  BY DEF WellSent, WInv, PInv
<1>1. ASSUME UNCHANGED <<target, ended, heads>> PROVE Status' = Status
  BY <1>1 DEF Status
<1>2. ASSUME NEW q \in Requests, NEW to \in Routes \cup {"unmatched", "malformed"},
             ~Arrived(q), target' = [target EXCEPT ![q] = to], UNCHANGED <<heads, ended>>
      PROVE  Status' = Status \/ Promise!Open(q)
  <2>1. /\ target'[q] = to /\ to # "none"
        /\ \A c \in Requests : c # q => target'[c] = target[c]
    BY <1>0, <1>2, ResolverAssumption DEF TypeOK
  <2>2. q \notin ended /\ q \notin heads /\ Status[q] = "idle"
    <3>1. target[q] = "none" /\ accepted[q] = 0
      BY <1>0, <1>2 DEF OnePlace, Arrived
    <3> QED BY <1>0, <3>1 DEF OnePlace, WInv, PInv, SecondHead, Status
  <2>3. \A c \in Requests : c # q => Status'[c] = Status[c]
    BY <1>2, <2>1 DEF Status
  <2>4. CASE to \in Continuous
    <3>1. Status'[q] = "idle"
      BY <2>1, <2>4 DEF Status
    <3> QED BY <2>2, <2>3, <3>1 DEF Status
  <2>5. CASE to \notin Continuous
    <3>1. Status'[q] = "open"
      BY <1>2, <2>1, <2>2, <2>5 DEF Status
    <3>2. Status' = [Status EXCEPT ![q] = "open"]
      BY <2>3, <3>1, Moves
    <3> QED BY <2>2, <3>2 DEF Promise!Open, Promise!Move, Status
  <2> QED BY <2>4, <2>5
<1>3. ASSUME NEW q \in Requests, NEW route \in Routes, Resolve(q, route)
      PROVE  Status' = Status \/ Promise!Open(q)
  BY <1>2, <1>3 DEF Resolve
<1>4. ASSUME NEW q \in Requests, NEW why \in {"unmatched", "malformed"}, Reject(q, why)
      PROVE  Status' = Status \/ Promise!Open(q)
  BY <1>2, <1>4 DEF Reject
<1>5. ASSUME NEW q \in Requests, EffectStep(q) PROVE Status' = Status
  BY <1>1, <1>5 DEF EffectStep, Emit, EmitUnbound, Complete, Fail, FailUnbound
<1>6. ASSUME NEW s \in sends, WriteHead(s) PROVE Status' = Status \/ Promise!Begin(s.req)
  <2>1. s.req \in Requests /\ s.step = "head" /\ ~s.poison /\ s.req \notin ended
    BY <1>0, <1>6 DEF WriteHead, WInv, PInv, TypeOK, Numbered, Healthy, SendsOpen
  <2>2. accepted[s.req] = 1
    BY <1>0, <2>1 DEF OnePlace, WInv, PInv, TypeOK, Numbered
  <2>3. s.req \notin heads
    BY <1>0, <2>1, <2>2 DEF WInv, PInv, SecondHead
  <2>4. heads' = heads \cup {s.req} /\ UNCHANGED <<target, ended>>
    BY <1>6, <2>1, <2>3 DEF WriteHead
  <2>5. \A c \in Requests : c # s.req => Status'[c] = Status[c]
    BY <2>4 DEF Status
  <2>6. CASE target[s.req] \in Continuous \cup {"none"}
    BY <2>4, <2>6 DEF Status
  <2>7. CASE target[s.req] \notin Continuous \cup {"none"}
    <3>1. Status[s.req] = "open" /\ Status'[s.req] = "replying"
      BY <2>1, <2>3, <2>4, <2>7 DEF Status
    <3>2. Status' = [Status EXCEPT ![s.req] = "replying"]
      BY <2>1, <2>5, <3>1, Moves
    <3> QED BY <3>1, <3>2 DEF Promise!Begin, Promise!Move, Status
  <2> QED BY <2>6, <2>7
<1>7. ASSUME NEW s \in sends, End(s) PROVE Status' = Status \/ Promise!Finish(s.req)
  <2>1. /\ s.req \in Requests /\ s.req \notin ended /\ s.req \in heads
        /\ ended' = ended \cup {s.req} /\ UNCHANGED <<target, heads>>
    BY <1>0, <1>7 DEF End, TypeOK, SendsOpen
  <2>2. \A c \in Requests : c # s.req => Status'[c] = Status[c]
    BY <2>1 DEF Status
  <2>3. CASE target[s.req] \in Continuous \cup {"none"}
    BY <2>1, <2>3 DEF Status
  <2>4. CASE target[s.req] \notin Continuous \cup {"none"}
    <3>1. Status[s.req] = "replying" /\ Status'[s.req] = "answered"
      BY <2>1, <2>4 DEF Status
    <3>2. Status' = [Status EXCEPT ![s.req] = "answered"]
      BY <2>1, <2>2, <3>1, Moves
    <3> QED BY <3>1, <3>2 DEF Promise!Finish, Promise!Move, Status
  <2> QED BY <2>3, <2>4
<1>8. CASE Uncaught \/ Close \/ UNCHANGED vars
  <2>1. Status' = Status
    BY <1>1, <1>8 DEF Uncaught, Close, vars
  <2> QED BY <2>1
<1>9. \A s \in sends : s.req \in Requests
  BY <1>0 DEF TypeOK
<1> QED BY <1>3, <1>4, <1>5, <1>6, <1>7, <1>8, <1>9 DEF Next, Promise!Next

\* With well-behaved effects the resolver implements the abstract request and reply,
\* for every request that is not on a continuous route: a reply is begun once,
\* completed once, and never taken back.
THEOREM ServerKeepsPromise == ASSUME WellBehaved PROVE Spec => Promise!Spec
<1>1. Init => Promise!Init
  BY DEF Init, Promise!Init
<1>2. ASSUME WellSent, [Next]_vars PROVE [Promise!Next]_Status
  BY <1>2, StepRefines
<1> QED BY <1>1, <1>2, WellSentInvariance, PTL DEF Spec, Promise!Spec, Status
=============================================================================
