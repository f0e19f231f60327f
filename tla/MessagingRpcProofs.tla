-------------------------- MODULE MessagingRpcProofs --------------------------
(***************************************************************************)
(* Type correctness of MessagingRpc, that requests are sent once, that     *)
(* patient calls time out only for a reason, and that every step of it is  *)
(* a step of RemoteCall or a stutter: for any number of calls, of messages *)
(* they share, of replies and of lost connections.                         *)
(***************************************************************************)
EXTENDS MessagingRpc, TLAPS

\* The variables whose type no other fact is needed for.
BasicTypes ==
    /\ transport \in Transports
    /\ message \in [Calls -> Messages]
    /\ hasty \subseteq Calls
    /\ id \in [Messages -> Calls \cup {"none"}]
    /\ stage \in [Calls -> Stages]
    /\ outcome \in [Calls -> Outcomes]
    /\ listening \subseteq Calls
    /\ handled \subseteq Calls /\ answered \subseteq Calls /\ missed \subseteq Calls
    /\ setups \subseteq Calls
    /\ gen \in 0 .. MaxDisconnects
    /\ connected \in BOOLEAN

WireTypes ==
    /\ requests \subseteq [from : Calls, to : Calls, at : 0 .. MaxDisconnects]
    /\ replies \subseteq [to : Calls, at : 0 .. MaxDisconnects, from : Calls, nr : 1 .. MaxReplies]
    /\ open \subseteq Addresses /\ timers \subseteq Addresses

\* What has a trace has begun; a message that was sent carries the id of a call
\* that sends it; a lost connection is counted when it is restored.
Begun ==
    /\ \A c \in Calls : stage[c] # "idle" => outcome[c] # "none"
    /\ \A c \in setups \cup listening : outcome[c] # "none"
    /\ \A c \in Calls : transport # "amqp" /\ outcome[c] # "none" =>
          id[message[c]] \in Calls /\ message[id[message[c]]] = message[c]
    /\ ~connected => gen < MaxDisconnects

\* AMQP sends while it sets up, the others in the step that leaves "preparing".
SendingOnce ==
    /\ sent \in [Calls -> 0 .. 1]
    /\ transport # "amqp" => setups = {}
    /\ \A c \in Calls : transport # "amqp" /\ stage[c] \in {"idle", "preparing"} => sent[c] = 0

\* Whatever is on its way goes from a call to one that sends the same message.
Conversation ==
    /\ \A r \in requests : outcome[r.from] # "none" /\ message[r.to] = message[r.from]
    /\ \A r \in replies : r.from \in handled /\ message[r.to] = message[r.from]
    /\ \A c \in Calls : stage[c] = "cleaning" => \E d \in handled : message[d] = message[c]

Inv == BasicTypes /\ WireTypes /\ Begun /\ SendingOnce /\ Conversation

\* The kinds of steps, as the proofs split them.
Step ==
    \/ \E c \in Calls : SendMessage(c)
    \/ \E c \in Calls : Immediate(c)
    \/ \E c \in Calls : Subscribed(c)
    \/ \E c \in Calls : Published(c)
    \/ \E c \in Calls : Refused(c)
    \/ \E c \in Calls : OpenQueue(c)
    \/ \E c \in Calls : Cleaned(c)
    \/ \E c \in Calls : \E g \in 0 .. MaxDisconnects : RemoveSetup(c, g)
    \/ \E c \in Calls : TimeOut(c)
    \/ Disconnect
    \/ Reconnect
    \/ \E r \in requests, n \in 0 .. MaxReplies : Handle(r, n)
    \/ \E r \in replies : Deliver(r)

\* Next is one of these steps.
LEMMA NextIsStep ==
    ASSUME Next
    PROVE  Step
BY DEF Next, Step, Transmit

USE DEF choices, wire, history, channel, Stages, Outcomes, Addresses

\* The simple types are inductive, given that a lost connection leaves room in gen.
LEMMA BasicTypesStep ==
    ASSUME BasicTypes, WireTypes, Begun, Step
    PROVE  BasicTypes'
<1>1. CASE \E c \in Calls : SendMessage(c)
  <2>. PICK c \in Calls : SendMessage(c)
    BY <1>1
  <2>. QED BY DEF SendMessage, Stage, BasicTypes
<1>2. CASE \E c \in Calls : Immediate(c)
  BY <1>2 DEF Immediate, Stage, Request, BasicTypes
<1>3. CASE \E c \in Calls : Subscribed(c)
  BY <1>3 DEF Subscribed, Stage, Request, BasicTypes
<1>4. CASE \E c \in Calls : Published(c)
  BY <1>4 DEF Published, Stage, BasicTypes
<1>5. CASE \E c \in Calls : Refused(c)
  BY <1>5 DEF Refused, Stage, Settle, BasicTypes
<1>6. CASE \E c \in Calls : OpenQueue(c)
  BY <1>6 DEF OpenQueue, Stage, Request, BasicTypes
<1>7. CASE \E c \in Calls : Cleaned(c)
  BY <1>7 DEF Cleaned, Stage, Settle, BasicTypes
<1>8. CASE \E c \in Calls : \E g \in 0 .. MaxDisconnects : RemoveSetup(c, g)
  BY <1>8 DEF RemoveSetup, BasicTypes
<1>9. CASE \E c \in Calls : TimeOut(c)
  BY <1>9 DEF TimeOut, BasicTypes
<1>10. CASE Disconnect
  BY <1>10 DEF Disconnect, BasicTypes
<1>11. CASE Reconnect
  BY <1>11, RpcAssumption DEF Reconnect, BasicTypes, Begun
<1>12. CASE \E r \in requests, n \in 0 .. MaxReplies : Handle(r, n)
  BY <1>12 DEF Handle, BasicTypes, WireTypes
<1>13. CASE \E r \in replies : Deliver(r)
  BY <1>13 DEF Deliver, Stage, Settle, BasicTypes, WireTypes
<1>. QED BY <1>1, <1>2, <1>3, <1>4, <1>5, <1>6, <1>7, <1>8, <1>9, <1>10, <1>11, <1>12,
   <1>13 DEF Step

\* What is on its way has an address, since a message that is sent has an id.
LEMMA WireTypesStep ==
    ASSUME BasicTypes, WireTypes, Begun, Step
    PROVE  WireTypes'
<1>1. CASE \E c \in Calls : SendMessage(c)
  BY <1>1 DEF SendMessage, WireTypes
<1>2. CASE \E c \in Calls : Immediate(c)
  <2>1. PICK c \in Calls : Immediate(c)
    BY <1>2
  <2>2. id[message[c]] \in Calls
    BY <2>1 DEF Immediate, Begun
  <2>. QED BY <2>1, <2>2 DEF Immediate, Request, BasicTypes, WireTypes
<1>3. CASE \E c \in Calls : Subscribed(c)
  <2>1. PICK c \in Calls : Subscribed(c)
    BY <1>3
  <2>2. id[message[c]] \in Calls
    BY <2>1 DEF Subscribed, Begun
  <2>. QED BY <2>1, <2>2 DEF Subscribed, Request, BasicTypes, WireTypes
<1>4. CASE \E c \in Calls : Published(c)
  BY <1>4 DEF Published, WireTypes
<1>5. CASE \E c \in Calls : Refused(c)
  BY <1>5 DEF Refused, WireTypes
<1>6. CASE \E c \in Calls : OpenQueue(c)
  BY <1>6 DEF OpenQueue, Request, BasicTypes, WireTypes
<1>7. CASE \E c \in Calls : Cleaned(c)
  BY <1>7 DEF Cleaned, WireTypes
<1>8. CASE \E c \in Calls : \E g \in 0 .. MaxDisconnects : RemoveSetup(c, g)
  BY <1>8 DEF RemoveSetup, WireTypes
<1>9. CASE \E c \in Calls : TimeOut(c)
  BY <1>9 DEF TimeOut, WireTypes
<1>10. CASE Disconnect
  BY <1>10 DEF Disconnect, WireTypes
<1>11. CASE Reconnect
  BY <1>11 DEF Reconnect, WireTypes
<1>12. CASE \E r \in requests, n \in 0 .. MaxReplies : Handle(r, n)
  <2>1. PICK r \in requests, n \in 0 .. MaxReplies : Handle(r, n)
    BY <1>12
  <2>2. 1 .. n \subseteq 1 .. MaxReplies
    BY RpcAssumption
  <2>. QED BY <2>1, <2>2 DEF Handle, WireTypes
<1>13. CASE \E r \in replies : Deliver(r)
  BY <1>13 DEF Deliver, WireTypes
<1>. QED BY <1>1, <1>2, <1>3, <1>4, <1>5, <1>6, <1>7, <1>8, <1>9, <1>10, <1>11, <1>12,
   <1>13 DEF Step

\* Calls that have a trace have begun, and the id on a message they share is one of
\* theirs: whoever sends the message again writes his own.
LEMMA BegunStep ==
    ASSUME BasicTypes, WireTypes, Begun, Step
    PROVE  Begun'
<1>1. CASE \E c \in Calls : SendMessage(c)
  <2>1. PICK c \in Calls : SendMessage(c)
    BY <1>1
  <2>2. \A d \in Calls : stage'[d] # "idle" => outcome'[d] # "none"
    BY <2>1 DEF SendMessage, Stage, BasicTypes, Begun
  <2>3. \A d \in setups' \cup listening' : outcome'[d] # "none"
    BY <2>1 DEF SendMessage, BasicTypes, Begun
  <2>4. ASSUME NEW d \in Calls, transport # "amqp", outcome'[d] # "none"
        PROVE  id'[message[d]] \in Calls /\ message[id'[message[d]]] = message[d]
    <3>1. CASE message[d] = message[c]
      BY <2>1, <2>4, <3>1 DEF SendMessage, BasicTypes
    <3>2. CASE message[d] # message[c]
      BY <2>1, <2>4, <3>2 DEF SendMessage, BasicTypes, Begun
    <3>. QED BY <3>1, <3>2
  <2>. QED BY <2>1, <2>2, <2>3, <2>4 DEF SendMessage, Begun
<1>2. CASE \E c \in Calls : Immediate(c)
  BY <1>2 DEF Immediate, Stage, BasicTypes, Begun
<1>3. CASE \E c \in Calls : Subscribed(c)
  BY <1>3 DEF Subscribed, Stage, BasicTypes, Begun
<1>4. CASE \E c \in Calls : Published(c)
  BY <1>4 DEF Published, Stage, BasicTypes, Begun
<1>5. CASE \E c \in Calls : Refused(c)
  BY <1>5 DEF Refused, Stage, Settle, BasicTypes, Begun
<1>6. CASE \E c \in Calls : OpenQueue(c)
  BY <1>6 DEF OpenQueue, Stage, BasicTypes, Begun
<1>7. CASE \E c \in Calls : Cleaned(c)
  BY <1>7 DEF Cleaned, Stage, Settle, BasicTypes, Begun
<1>8. CASE \E c \in Calls : \E g \in 0 .. MaxDisconnects : RemoveSetup(c, g)
  BY <1>8 DEF RemoveSetup, BasicTypes, Begun
<1>9. CASE \E c \in Calls : TimeOut(c)
  BY <1>9 DEF TimeOut, BasicTypes, Begun
<1>10. CASE Disconnect
  BY <1>10, RpcAssumption DEF Disconnect, BasicTypes, Begun
<1>11. CASE Reconnect
  BY <1>11 DEF Reconnect, BasicTypes, Begun
<1>12. CASE \E r \in requests, n \in 0 .. MaxReplies : Handle(r, n)
  BY <1>12 DEF Handle, Begun
<1>13. CASE \E r \in replies : Deliver(r)
  <2>1. PICK r \in replies : Deliver(r)
    BY <1>13
  <2>2. \A d \in Calls : stage'[d] # "idle" => outcome'[d] # "none"
    <3>1. r.to \in Calls
      BY DEF WireTypes
    <3>. QED BY <2>1, <3>1 DEF Deliver, Stage, Settle, BasicTypes, Begun, WireTypes
  <2>. QED BY <2>1, <2>2 DEF Deliver, Settle, Stage, BasicTypes, Begun, WireTypes
<1>. QED BY <1>1, <1>2, <1>3, <1>4, <1>5, <1>6, <1>7, <1>8, <1>9, <1>10, <1>11, <1>12,
   <1>13 DEF Step

\* A request is sent in the one step that leaves "preparing", or, with AMQP, only
\* if it was not sent before, however often its setup runs.
LEMMA SendingOnceStep ==
    ASSUME BasicTypes, WireTypes, Begun, SendingOnce, Step
    PROVE  SendingOnce'
<1>1. CASE \E c \in Calls : SendMessage(c)
  <2>1. PICK c \in Calls : SendMessage(c)
    BY <1>1
  <2>2. stage[c] = "idle"
    BY <2>1 DEF SendMessage, Begun
  <2>. QED BY <2>1, <2>2 DEF SendMessage, Stage, BasicTypes, SendingOnce
<1>2. CASE \E c \in Calls : Immediate(c)
  BY <1>2 DEF Immediate, Stage, Request, BasicTypes, SendingOnce
<1>3. CASE \E c \in Calls : Subscribed(c)
  BY <1>3 DEF Subscribed, Stage, Request, BasicTypes, SendingOnce
<1>4. CASE \E c \in Calls : Published(c)
  BY <1>4 DEF Published, Stage, BasicTypes, SendingOnce
<1>5. CASE \E c \in Calls : Refused(c)
  BY <1>5 DEF Refused, Stage, BasicTypes, SendingOnce
<1>6. CASE \E c \in Calls : OpenQueue(c)
  <2>1. PICK c \in Calls : OpenQueue(c)
    BY <1>6
  <2>2. transport = "amqp"
    BY <2>1 DEF OpenQueue, SendingOnce
  <2>3. sent' = sent \/ (sent[c] = 0 /\ sent' = [sent EXCEPT ![c] = @ + 1])
    BY <2>1 DEF OpenQueue, Request
  <2>4. sent' \in [Calls -> 0 .. 1]
    BY <2>3 DEF SendingOnce
  <2>5. transport' = transport /\ setups' = setups
    BY <2>1 DEF OpenQueue
  <2>. QED BY <2>2, <2>4, <2>5 DEF SendingOnce
<1>7. CASE \E c \in Calls : Cleaned(c)
  BY <1>7 DEF Cleaned, Stage, BasicTypes, SendingOnce
<1>8. CASE \E c \in Calls : \E g \in 0 .. MaxDisconnects : RemoveSetup(c, g)
  BY <1>8 DEF RemoveSetup, BasicTypes, SendingOnce
<1>9. CASE \E c \in Calls : TimeOut(c)
  BY <1>9 DEF TimeOut, BasicTypes, SendingOnce
<1>10. CASE Disconnect
  BY <1>10 DEF Disconnect, BasicTypes, SendingOnce
<1>11. CASE Reconnect
  BY <1>11 DEF Reconnect, SendingOnce
<1>12. CASE \E r \in requests, n \in 0 .. MaxReplies : Handle(r, n)
  BY <1>12 DEF Handle, SendingOnce
<1>13. CASE \E r \in replies : Deliver(r)
  BY <1>13 DEF Deliver, Stage, BasicTypes, SendingOnce, WireTypes
<1>. QED BY <1>1, <1>2, <1>3, <1>4, <1>5, <1>6, <1>7, <1>8, <1>9, <1>10, <1>11, <1>12,
   <1>13 DEF Step

\* What is on its way stays between calls that send the same message.
LEMMA ConversationStep ==
    ASSUME BasicTypes, WireTypes, Begun, Conversation, Step
    PROVE  Conversation'
<1>1. CASE \E c \in Calls : SendMessage(c)
  BY <1>1 DEF SendMessage, Stage, BasicTypes, WireTypes, Conversation
<1>2. CASE \E c \in Calls : Immediate(c)
  <2>1. PICK c \in Calls : Immediate(c)
    BY <1>2
  <2>2. outcome[c] # "none" /\ message[id[message[c]]] = message[c]
    BY <2>1 DEF Immediate, Begun
  <2>. QED BY <2>1, <2>2 DEF Immediate, Request, Stage, BasicTypes, WireTypes, Conversation
<1>3. CASE \E c \in Calls : Subscribed(c)
  <2>1. PICK c \in Calls : Subscribed(c)
    BY <1>3
  <2>2. outcome[c] # "none" /\ message[id[message[c]]] = message[c]
    BY <2>1 DEF Subscribed, Begun
  <2>. QED BY <2>1, <2>2 DEF Subscribed, Request, Stage, BasicTypes, WireTypes, Conversation
<1>4. CASE \E c \in Calls : Published(c)
  BY <1>4 DEF Published, Stage, BasicTypes, Conversation
<1>5. CASE \E c \in Calls : Refused(c)
  BY <1>5 DEF Refused, Stage, Settle, BasicTypes, WireTypes, Conversation
<1>6. CASE \E c \in Calls : OpenQueue(c)
  <2>1. PICK c \in Calls : OpenQueue(c)
    BY <1>6
  <2>2. outcome[c] # "none"
    BY <2>1 DEF OpenQueue, Begun
  <2>. QED BY <2>1, <2>2 DEF OpenQueue, Request, Stage, BasicTypes, WireTypes, Conversation
<1>7. CASE \E c \in Calls : Cleaned(c)
  BY <1>7 DEF Cleaned, Stage, Settle, BasicTypes, WireTypes, Conversation
<1>8. CASE \E c \in Calls : \E g \in 0 .. MaxDisconnects : RemoveSetup(c, g)
  BY <1>8 DEF RemoveSetup, Conversation
<1>9. CASE \E c \in Calls : TimeOut(c)
  BY <1>9 DEF TimeOut, BasicTypes, WireTypes, Conversation
<1>10. CASE Disconnect
  BY <1>10 DEF Disconnect, BasicTypes, WireTypes, Conversation
<1>11. CASE Reconnect
  BY <1>11 DEF Reconnect, Conversation
<1>12. CASE \E r \in requests, n \in 0 .. MaxReplies : Handle(r, n)
  <2>1. PICK r \in requests, n \in 0 .. MaxReplies : Handle(r, n)
    BY <1>12
  <2>2. message[r.to] = message[r.from]
    BY DEF Conversation
  <2>. QED BY <2>1, <2>2 DEF Handle, Conversation
<1>13. CASE \E r \in replies : Deliver(r)
  <2>1. PICK r \in replies : Deliver(r)
    BY <1>13
  <2>2. r.from \in handled /\ message[r.to] = message[r.from] /\ r.to \in Calls
    BY DEF Conversation, WireTypes
  <2>3. \A c \in Calls : outcome[c] # "none" => outcome'[c] # "none"
    BY <2>1, <2>2 DEF Deliver, Stage, Settle, BasicTypes
  <2>4. \A q \in requests' : outcome'[q.from] # "none" /\ message'[q.to] = message'[q.from]
    BY <2>1, <2>3 DEF Deliver, WireTypes, Conversation
  <2>5. \A q \in replies' : q.from \in handled' /\ message'[q.to] = message'[q.from]
    BY <2>1 DEF Deliver, Conversation
  <2>6. \A c \in Calls : stage'[c] = "cleaning" => \E d \in handled' : message'[d] = message'[c]
    BY <2>1, <2>2 DEF Deliver, Stage, BasicTypes, Conversation
  <2>. QED BY <2>4, <2>5, <2>6 DEF Conversation
<1>. QED BY <1>1, <1>2, <1>3, <1>4, <1>5, <1>6, <1>7, <1>8, <1>9, <1>10, <1>11, <1>12,
   <1>13 DEF Step

\* A step that changes nothing keeps the invariant.
LEMMA StutterKeepsInv ==
    ASSUME Inv, UNCHANGED vars
    PROVE  Inv'
BY DEF Inv, vars, BasicTypes, WireTypes, Begun, SendingOnce, Conversation

\* The inductive invariant of the three transports.
THEOREM Invariance == Spec => []Inv
<1>1. Init => Inv
  <2>. SUFFICES ASSUME Init PROVE Inv
    OBVIOUS
  <2>1. BasicTypes /\ WireTypes
    BY RpcAssumption DEF Init, BasicTypes, WireTypes
  <2>2. Begun
    BY DEF Init, Begun
  <2>3. SendingOnce
    BY DEF Init, SendingOnce
  <2>4. Conversation
    BY DEF Init, Conversation
  <2>. QED BY <2>1, <2>2, <2>3, <2>4 DEF Inv
<1>2. Inv /\ [Next]_vars => Inv'
  <2>. SUFFICES ASSUME Inv, [Next]_vars PROVE Inv'
    OBVIOUS
  <2>1. CASE UNCHANGED vars
    BY <2>1, StutterKeepsInv
  <2>2. CASE Next
    BY <2>2, NextIsStep, BasicTypesStep, WireTypesStep, BegunStep, SendingOnceStep,
       ConversationStep DEF Inv
  <2>. QED BY <2>1, <2>2
<1>. QED BY <1>1, <1>2, PTL DEF Spec

\* Every variable keeps its type.
THEOREM TypeCorrect == Spec => []TypeOK
<1>1. Inv => TypeOK
  BY DEF Inv, BasicTypes, WireTypes, SendingOnce, TypeOK
<1>. QED BY <1>1, Invariance, PTL

\* No request is sent twice, however often connections are lost and setups run again.
THEOREM RequestsAreSentOnce == Spec => []SentOnce
<1>1. Inv => SentOnce
  <2>. SUFFICES ASSUME Inv, NEW c \in Calls PROVE sent[c] <= 1
    BY DEF SentOnce
  <2>1. sent[c] \in 0 .. 1
    BY DEF Inv, SendingOnce
  <2>. QED BY <2>1
<1>. QED BY <1>1, Invariance, PTL

\* A step of the transports is a step of the abstract call, or changes none of its
\* variables.
LEMMA StepRefines ==
    ASSUME Inv, Step
    PROVE  [Call!Next]_Call!vars
<1>. USE DEF Call!vars, Call!Next
<1>1. CASE \E c \in Calls : SendMessage(c)
  BY <1>1 DEF SendMessage, Call!Begin, Call!Become
<1>2. CASE \E c \in Calls : Immediate(c) \/ Subscribed(c) \/ Published(c) \/ OpenQueue(c)
  BY <1>2 DEF Immediate, Subscribed, Published, OpenQueue
<1>3. CASE \E c \in Calls : Refused(c)
  <2>1. PICK c \in Calls : Refused(c)
    BY <1>3
  <2>2. CASE outcome[c] = "waiting"
    <3>1. Call!Fail({c})
      BY <2>1, <2>2 DEF Refused, Settle, Call!Fail, Inv, BasicTypes
    <3>. QED BY <3>1
  <2>3. CASE outcome[c] # "waiting"
    BY <2>1, <2>3 DEF Refused, Settle
  <2>. QED BY <2>2, <2>3
<1>4. CASE \E c \in Calls : Cleaned(c)
  <2>1. PICK c \in Calls : Cleaned(c)
    BY <1>4
  <2>2. \E d \in handled : message[d] = message[c]
    BY <2>1 DEF Cleaned, Inv, Conversation
  <2>. QED BY <2>1, <2>2 DEF Cleaned, Settle, Call!Reply, Call!Become
<1>5. CASE \E c \in Calls : \E g \in 0 .. MaxDisconnects : RemoveSetup(c, g)
  BY <1>5 DEF RemoveSetup
<1>6. CASE \E c \in Calls : TimeOut(c)
  BY <1>6 DEF TimeOut, Call!TimeOut, Call!Become
<1>7. CASE Disconnect
  <2>. DEFINE hit == {c \in Calls : stage[c] = "preparing" /\ outcome[c] = "waiting"}
  <2>1. Call!Fail(hit)
    BY <1>7 DEF Disconnect, Call!Fail
  <2>. QED BY <2>1
<1>8. CASE Reconnect
  BY <1>8 DEF Reconnect
<1>9. CASE \E r \in requests, n \in 0 .. MaxReplies : Handle(r, n)
  <2>1. PICK r \in requests, n \in 0 .. MaxReplies : Handle(r, n)
    BY <1>9
  <2>2. r.from \in Calls /\ outcome[r.from] # "none"
    BY DEF Inv, WireTypes, Conversation
  <2>3. Call!Handle(r.from)
    BY <2>1, <2>2 DEF Handle, Call!Handle
  <2>. QED BY <2>2, <2>3
<1>10. CASE \E r \in replies : Deliver(r)
  <2>1. PICK r \in replies : Deliver(r)
    BY <1>10
  <2>2. r.to \in Calls /\ \E d \in handled : message[d] = message[r.to]
    BY DEF Inv, WireTypes, Conversation
  <2>3. Call!Reply(r.to) \/ outcome' = outcome
    BY <2>1, <2>2 DEF Deliver, Settle, Call!Reply, Call!Become
  <2>. QED BY <2>1, <2>2, <2>3 DEF Deliver
<1>. QED BY <1>1, <1>2, <1>3, <1>4, <1>5, <1>6, <1>7, <1>8, <1>9, <1>10 DEF Step

\* The three transports below the client keep the safety part of the abstract call:
\* it ends once, and is replied to only if its message was handled.
THEOREM Refinement == Spec => Call!Spec
<1>1. Init => Call!Init
  BY DEF Init, Call!Init
<1>2. Inv /\ [Next]_vars => [Call!Next]_Call!vars
  <2>. SUFFICES ASSUME Inv, [Next]_vars PROVE [Call!Next]_Call!vars
    OBVIOUS
  <2>1. CASE UNCHANGED vars
    BY <2>1 DEF vars, Call!vars
  <2>2. CASE Next
    BY <2>2, NextIsStep, StepRefines
  <2>. QED BY <2>1, <2>2
<1>. QED BY <1>1, <1>2, Invariance, PTL DEF Spec, Call!Spec

-----------------------------------------------------------------------------
\* When a call may time out although its request was replied to.
Excused(c) ==
    \/ transport = "redis" /\ c \in missed
    \/ transport = "amqp" /\ gen > 0
    \/ transport # "amqp" /\ Shared(c)

\* AMQP: messages go to the reply address of the call that sent them, once it has begun.
Addressed == transport = "amqp" =>
    /\ \A r \in requests \cup replies : r.to = r.from
    /\ \A c \in Calls : outcome[c] = "none" => sent[c] = 0

\* Calls that were replied to have begun.
AnsweredBegun == \A c \in answered : outcome[c] # "none"

\* AMQP, on the first connection: a call that sent its request listens at its address
\* until it gets a reply or gives up.
AddressKept ==
    transport = "amqp" /\ gen = 0 =>
        /\ \A r \in requests \cup replies : r.at = 0 /\ sent[r.from] = 1
        /\ \A a \in open \cup timers : sent[a[1]] = 1
        /\ connected => \A c \in Calls :
              /\ c \in setups /\ sent[c] = 0 => stage[c] = "preparing"
              /\ sent[c] = 1 /\ outcome[c] = "waiting" =>
                    stage[c] = "cleaning" \/ (c \in listening /\ <<c, 0>> \in open)

\* Local: a call listens as long as it waits.
ListensLocally == transport = "local" => \A c \in Calls : outcome[c] = "waiting" => c \in listening

\* A patient call that was replied to has the reply on its way; one that timed out has
\* sent nothing that is still to be handled, and will not.
Tracked(c) ==
    ~Excused(c) =>
        /\ outcome[c] = "timedOut" =>
              /\ c \notin answered
              /\ stage[c] # "preparing"
              /\ transport = "amqp" /\ c \in setups => sent[c] = 1
              /\ \A r \in requests : r.from # c
        /\ outcome[c] = "waiting" /\ c \in answered /\ (transport = "amqp" => connected) =>
              stage[c] = "cleaning" \/ \E r \in replies : r.to = c

RepliesReach ==
    /\ AnsweredBegun /\ Addressed /\ AddressKept /\ ListensLocally
    /\ \A c \in Calls \ hasty : Tracked(c)

\* Who is replied to sent a request.
LEMMA AnsweredBegunStep ==
    ASSUME BasicTypes, Conversation, AnsweredBegun, Step
    PROVE  AnsweredBegun'
<1>1. CASE \E c \in Calls : SendMessage(c)
  BY <1>1 DEF SendMessage, AnsweredBegun
<1>2. CASE \E c \in Calls : Immediate(c)
  BY <1>2 DEF Immediate, AnsweredBegun
<1>3. CASE \E c \in Calls : Subscribed(c)
  BY <1>3 DEF Subscribed, AnsweredBegun
<1>4. CASE \E c \in Calls : Published(c)
  BY <1>4 DEF Published, AnsweredBegun
<1>5. CASE \E c \in Calls : Refused(c)
  BY <1>5 DEF Refused, Settle, AnsweredBegun
<1>6. CASE \E c \in Calls : OpenQueue(c)
  BY <1>6 DEF OpenQueue, AnsweredBegun
<1>7. CASE \E c \in Calls : Cleaned(c)
  BY <1>7 DEF Cleaned, Settle, AnsweredBegun
<1>8. CASE \E c \in Calls : \E g \in 0 .. MaxDisconnects : RemoveSetup(c, g)
  BY <1>8 DEF RemoveSetup, AnsweredBegun
<1>9. CASE \E c \in Calls : TimeOut(c)
  BY <1>9 DEF TimeOut, AnsweredBegun
<1>10. CASE Disconnect
  BY <1>10 DEF Disconnect, BasicTypes, AnsweredBegun
<1>11. CASE Reconnect
  BY <1>11 DEF Reconnect, AnsweredBegun
<1>12. CASE \E r \in requests, n \in 0 .. MaxReplies : Handle(r, n)
  BY <1>12 DEF Handle, Conversation, AnsweredBegun
<1>13. CASE \E r \in replies : Deliver(r)
  BY <1>13 DEF Deliver, Settle, BasicTypes, AnsweredBegun
<1>. QED BY <1>1, <1>2, <1>3, <1>4, <1>5, <1>6, <1>7, <1>8, <1>9, <1>10, <1>11, <1>12,
   <1>13 DEF Step

\* A request carries the id of its call, and so do its replies.
LEMMA AddressedStep ==
    ASSUME Begun, SendingOnce, Addressed, Step
    PROVE  Addressed'
<1>1. CASE \E c \in Calls : SendMessage(c)
  BY <1>1 DEF SendMessage, Addressed
<1>2. CASE \E c \in Calls : Immediate(c)
  BY <1>2 DEF Immediate, Addressed
<1>3. CASE \E c \in Calls : Subscribed(c)
  BY <1>3 DEF Subscribed, Addressed
<1>4. CASE \E c \in Calls : Published(c)
  BY <1>4 DEF Published, Addressed
<1>5. CASE \E c \in Calls : Refused(c)
  BY <1>5 DEF Refused, Addressed
<1>6. CASE \E c \in Calls : OpenQueue(c)
  BY <1>6 DEF OpenQueue, Request, Begun, Addressed, SendingOnce
<1>7. CASE \E c \in Calls : Cleaned(c)
  BY <1>7 DEF Cleaned, Settle, Addressed
<1>8. CASE \E c \in Calls : \E g \in 0 .. MaxDisconnects : RemoveSetup(c, g)
  BY <1>8 DEF RemoveSetup, Addressed
<1>9. CASE \E c \in Calls : TimeOut(c)
  BY <1>9 DEF TimeOut, Addressed
<1>10. CASE Disconnect
  BY <1>10 DEF Disconnect, Addressed
<1>11. CASE Reconnect
  BY <1>11 DEF Reconnect, Addressed
<1>12. CASE \E r \in requests, n \in 0 .. MaxReplies : Handle(r, n)
  BY <1>12 DEF Handle, Addressed
<1>13. CASE \E r \in replies : Deliver(r)
  BY <1>13 DEF Deliver, Addressed
<1>. QED BY <1>1, <1>2, <1>3, <1>4, <1>5, <1>6, <1>7, <1>8, <1>9, <1>10, <1>11, <1>12,
   <1>13 DEF Step

\* The address of a call is there before its request is sent, and stays while it waits.
LEMMA AddressKeptStep ==
    ASSUME BasicTypes, WireTypes, SendingOnce, Addressed, AddressKept, Step
    PROVE  AddressKept'
<1>1. CASE \E c \in Calls : SendMessage(c)
  BY <1>1 DEF SendMessage, Stage, BasicTypes, Addressed, AddressKept
<1>2. CASE \E c \in Calls : Immediate(c)
  BY <1>2 DEF Immediate, AddressKept
<1>3. CASE \E c \in Calls : Subscribed(c)
  BY <1>3 DEF Subscribed, AddressKept
<1>4. CASE \E c \in Calls : Published(c)
  BY <1>4 DEF Published, AddressKept
<1>5. CASE \E c \in Calls : Refused(c)
  BY <1>5 DEF Refused, AddressKept
<1>6. CASE \E c \in Calls : OpenQueue(c)
  BY <1>6 DEF OpenQueue, Stage, Request, BasicTypes, WireTypes, SendingOnce, AddressKept
<1>7. CASE \E c \in Calls : Cleaned(c)
  BY <1>7 DEF Cleaned, Stage, Settle, BasicTypes, AddressKept
<1>8. CASE \E c \in Calls : \E g \in 0 .. MaxDisconnects : RemoveSetup(c, g)
  BY <1>8 DEF RemoveSetup, AddressKept
<1>9. CASE \E c \in Calls : TimeOut(c)
  BY <1>9 DEF TimeOut, AddressKept
<1>10. CASE Disconnect
  BY <1>10 DEF Disconnect, AddressKept
<1>11. CASE Reconnect
  BY <1>11 DEF Reconnect, BasicTypes, AddressKept
<1>12. CASE \E r \in requests, n \in 0 .. MaxReplies : Handle(r, n)
  BY <1>12 DEF Handle, AddressKept
<1>13. CASE \E r \in replies : Deliver(r)
  BY <1>13 DEF Deliver, Stage, BasicTypes, AddressKept
<1>. QED BY <1>1, <1>2, <1>3, <1>4, <1>5, <1>6, <1>7, <1>8, <1>9, <1>10, <1>11, <1>12,
   <1>13 DEF Step

\* The local strategy listens from the first step to the reply.
LEMMA ListensLocallyStep ==
    ASSUME BasicTypes, ListensLocally, Step
    PROVE  ListensLocally'
<1>1. CASE \E c \in Calls : SendMessage(c)
  BY <1>1 DEF SendMessage, ListensLocally
<1>2. CASE \E c \in Calls : Immediate(c)
  BY <1>2 DEF Immediate, ListensLocally
<1>3. CASE \E c \in Calls : Subscribed(c)
  BY <1>3 DEF Subscribed, ListensLocally
<1>4. CASE \E c \in Calls : Published(c)
  BY <1>4 DEF Published, ListensLocally
<1>5. CASE \E c \in Calls : Refused(c)
  BY <1>5 DEF Refused, ListensLocally
<1>6. CASE \E c \in Calls : OpenQueue(c)
  BY <1>6 DEF OpenQueue, ListensLocally
<1>7. CASE \E c \in Calls : Cleaned(c)
  BY <1>7 DEF Cleaned, Settle, ListensLocally
<1>8. CASE \E c \in Calls : \E g \in 0 .. MaxDisconnects : RemoveSetup(c, g)
  BY <1>8 DEF RemoveSetup, ListensLocally
<1>9. CASE \E c \in Calls : TimeOut(c)
  BY <1>9 DEF TimeOut, ListensLocally
<1>10. CASE Disconnect
  BY <1>10 DEF Disconnect, ListensLocally
<1>11. CASE Reconnect
  BY <1>11 DEF Reconnect, ListensLocally
<1>12. CASE \E r \in requests, n \in 0 .. MaxReplies : Handle(r, n)
  BY <1>12 DEF Handle, ListensLocally
<1>13. CASE \E r \in replies : Deliver(r)
  BY <1>13 DEF Deliver, Settle, BasicTypes, ListensLocally
<1>. QED BY <1>1, <1>2, <1>3, <1>4, <1>5, <1>6, <1>7, <1>8, <1>9, <1>10, <1>11, <1>12,
   <1>13 DEF Step

\* A call that is not excused is kept track of.
LEMMA TrackedStep ==
    ASSUME Inv, RepliesReach, NEW d \in Calls \ hasty, Step
    PROVE  Tracked(d)'
<1>1. CASE \E c \in Calls : SendMessage(c)
  BY <1>1 DEF SendMessage, Stage, Inv, BasicTypes, RepliesReach, AnsweredBegun, Tracked,
     Excused, Shared
<1>2. CASE \E c \in Calls : Immediate(c)
  BY <1>2 DEF Immediate, Stage, Request, RepliesReach, Tracked, Excused, Shared
<1>3. CASE \E c \in Calls : Subscribed(c)
  BY <1>3 DEF Subscribed, Stage, Request, RepliesReach, Tracked, Excused, Shared
<1>4. CASE \E c \in Calls : Published(c)
  BY <1>4 DEF Published, Stage, RepliesReach, Tracked, Excused, Shared
<1>5. CASE \E c \in Calls : Refused(c)
  BY <1>5 DEF Refused, Stage, Settle, RepliesReach, Tracked, Excused, Shared
<1>6. CASE \E c \in Calls : OpenQueue(c)
  BY <1>6 DEF OpenQueue, Stage, Request, Inv, BasicTypes, SendingOnce, RepliesReach, Tracked,
     Excused
<1>7. CASE \E c \in Calls : Cleaned(c)
  BY <1>7 DEF Cleaned, Stage, Settle, Inv, BasicTypes, RepliesReach, Tracked, Excused, Shared
<1>8. CASE \E c \in Calls : \E g \in 0 .. MaxDisconnects : RemoveSetup(c, g)
  BY <1>8 DEF RemoveSetup, RepliesReach, Tracked, Excused, Shared
<1>9. CASE \E c \in Calls : TimeOut(c)
  <2>1. PICK c \in Calls : TimeOut(c)
    BY <1>9
  <2>2. /\ outcome[c] = "waiting"
        /\ c \in hasty \/ Quiet
        /\ outcome' = [outcome EXCEPT ![c] = "timedOut"]
        /\ UNCHANGED <<transport, message, stage, setups, missed, gen, answered, requests, replies,
                       sent, connected>>
    BY <2>1 DEF TimeOut
  <2>3. Excused(d)' <=> Excused(d)
    BY <2>2 DEF Excused, Shared
  <2>4. CASE d # c
    BY <2>2, <2>3, <2>4 DEF RepliesReach, Tracked
  <2>5. CASE d = c
    <3>1. /\ requests = {} /\ replies = {} /\ stage[d] \in {"idle", "done"} /\ connected
          /\ d \in setups => <<d, gen>> \in open \cup timers
      BY <2>2, <2>5 DEF Quiet
    <3>2. ~Excused(d) => d \notin answered
      BY <2>2, <2>5, <3>1 DEF RepliesReach, Tracked
    <3>3. ASSUME ~Excused(d), transport = "amqp", d \in setups PROVE sent[d] = 1
      <4>1. gen = 0
        BY <3>3, RpcAssumption DEF Excused, Inv, BasicTypes
      <4>2. <<d, gen>>[1] = d
        OBVIOUS
      <4>. QED BY <3>1, <3>3, <4>1, <4>2 DEF RepliesReach, AddressKept
    <3>4. outcome'[d] = "timedOut"
      BY <2>2, <2>5 DEF Inv, BasicTypes
    <3>. QED BY <2>2, <2>3, <3>1, <3>2, <3>3, <3>4 DEF Tracked
  <2>. QED BY <2>4, <2>5
<1>10. CASE Disconnect
  BY <1>10 DEF Disconnect, RepliesReach, Tracked, Excused
<1>11. CASE Reconnect
  BY <1>11 DEF Reconnect, Inv, BasicTypes, RepliesReach, Tracked, Excused, Shared
<1>12. CASE \E r \in requests, n \in 0 .. MaxReplies : Handle(r, n)
  <2>1. PICK r \in requests, n \in 0 .. MaxReplies : Handle(r, n)
    BY <1>12
  <2>2. /\ requests' = requests \ {r}
        /\ replies' = replies \cup
              {[to |-> r.to, at |-> r.at, from |-> r.from, nr |-> i] : i \in 1 .. n}
        /\ answered' = IF n > 0 THEN answered \cup {r.from} ELSE answered
        /\ UNCHANGED <<transport, message, outcome, stage, setups, missed, gen, sent, connected>>
    BY <2>1 DEF Handle
  <2>3. Excused(d)' <=> Excused(d)
    BY <2>2 DEF Excused, Shared
  <2>4. ~Excused(d) /\ r.from = d => r.to = d
    <3>1. r.to \in Calls /\ message[r.to] = message[r.from]
      BY DEF Inv, WireTypes, Conversation
    <3>. QED BY <3>1 DEF Excused, Shared, RepliesReach, Addressed
  <2>5. ASSUME ~Excused(d), r.from = d, n > 0 PROVE \E q \in replies' : q.to = d
    <3>1. 1 \in 1 .. n
      BY <2>5, RpcAssumption
    <3>2. [to |-> r.to, at |-> r.at, from |-> r.from, nr |-> 1] \in replies'
      BY <2>2, <3>1
    <3>. QED BY <2>4, <2>5, <3>2
  <2>6. ~Excused(d) /\ outcome[d] = "timedOut" => r.from # d
    BY DEF RepliesReach, Tracked
  <2>7. Tracked(d)
    BY DEF RepliesReach
  <2>. QED BY <2>2, <2>3, <2>5, <2>6, <2>7 DEF Tracked
<1>13. CASE \E r \in replies : Deliver(r)
  <2>1. PICK r \in replies : Deliver(r)
    BY <1>13
  <2>2. /\ replies' = replies \ {r} /\ r.to \in Calls
        /\ UNCHANGED <<transport, message, sent, requests, answered, gen, connected>>
        /\ missed \subseteq missed' /\ setups' \subseteq setups
    BY <2>1 DEF Deliver, Inv, WireTypes
  <2>3. Excused(d) => Excused(d)'
    BY <2>2 DEF Excused, Shared
  <2>4. /\ stage'[d] \in {stage[d], "cleaning"}
        /\ outcome'[d] \in {outcome[d], "replied"}
    BY <2>1, <2>2 DEF Deliver, Stage, Settle, Inv, BasicTypes
  <2>5. Tracked(d)
    BY DEF RepliesReach
  <2>6. ASSUME ~Excused(d)', outcome'[d] = "waiting", d \in answered, transport = "amqp" => connected
        PROVE  stage'[d] = "cleaning" \/ \E q \in replies' : q.to = d
    <3>1. outcome[d] = "waiting"
      BY <2>4, <2>6
    <3>2. CASE stage[d] = "cleaning"
      BY <2>4, <3>2
    <3>3. CASE \E q \in replies : q.to = d /\ q # r
      BY <2>2, <3>3
    <3>4. CASE r.to = d /\ stage[d] # "cleaning"
      <4>1. CASE d \in listening /\ Reachable(r)
        BY <2>1, <2>6, <3>1, <3>4, <4>1 DEF Deliver, Stage, Settle, Inv, BasicTypes
      <4>2. CASE ~(d \in listening /\ Reachable(r))
        <5>1. d \in missed'
          BY <2>1, <3>1, <3>4, <4>2 DEF Deliver
        <5>2. transport # "redis"
          BY <2>2, <2>6, <5>1 DEF Excused
        <5>3. transport # "local"
          BY <3>1, <4>2 DEF RepliesReach, ListensLocally, Reachable
        <5>4. transport = "amqp" /\ gen = 0
          <6>1. transport = "amqp"
            BY <5>2, <5>3, RpcAssumption DEF Inv, BasicTypes
          <6>. QED BY <2>3, <2>6, <6>1, RpcAssumption DEF Excused, Inv, BasicTypes
        <5>5. r.from = d /\ r.at = 0 /\ sent[d] = 1
          BY <3>4, <5>4 DEF RepliesReach, Addressed, AddressKept
        <5>6. d \in listening /\ <<d, 0>> \in open
          BY <2>6, <3>1, <3>4, <5>4, <5>5 DEF RepliesReach, AddressKept
        <5>. QED BY <3>4, <4>2, <5>5, <5>6 DEF Reachable
      <4>. QED BY <4>1, <4>2
    <3>. QED BY <2>3, <2>5, <2>6, <3>1, <3>2, <3>3, <3>4 DEF Tracked
  <2>. QED BY <2>2, <2>3, <2>4, <2>5, <2>6 DEF Tracked
<1>. QED BY <1>1, <1>2, <1>3, <1>4, <1>5, <1>6, <1>7, <1>8, <1>9, <1>10, <1>11, <1>12,
   <1>13 DEF Step

\* A step that changes nothing keeps track as well.
LEMMA StutterKeepsReach ==
    ASSUME RepliesReach, UNCHANGED vars
    PROVE  RepliesReach'
BY DEF RepliesReach, vars, AnsweredBegun, Addressed, AddressKept, ListensLocally, Tracked,
       Excused, Shared

\* A patient call whose request was replied to times out only if the reply overtook the
\* subscription (sendMessage of the Redis strategy), the connection was lost (AMQP), or
\* its message was sent again: with any number of calls, replies and other messages.
THEOREM TimeoutsHaveAReason == Spec => []TimesOutForReason
<1>1. Init => RepliesReach
  BY DEF Init, RepliesReach, AnsweredBegun, Addressed, AddressKept, ListensLocally, Tracked
<1>2. Inv /\ RepliesReach /\ [Next]_vars => RepliesReach'
  <2>. SUFFICES ASSUME Inv, RepliesReach, [Next]_vars PROVE RepliesReach'
    OBVIOUS
  <2>1. CASE UNCHANGED vars
    BY <2>1, StutterKeepsReach
  <2>2. CASE Next
    <3>1. Step /\ hasty' = hasty
      BY <2>2, NextIsStep DEF Step, SendMessage, Immediate, Subscribed, Published, Refused,
         OpenQueue, Cleaned, RemoveSetup, TimeOut, Disconnect, Reconnect, Handle, Deliver
    <3>2. AnsweredBegun' /\ Addressed' /\ AddressKept' /\ ListensLocally'
      BY <3>1, AnsweredBegunStep, AddressedStep, AddressKeptStep, ListensLocallyStep
         DEF Inv, RepliesReach
    <3>3. \A c \in Calls \ hasty : Tracked(c)'
      BY <3>1, TrackedStep
    <3>. QED BY <3>1, <3>2, <3>3 DEF RepliesReach
  <2>. QED BY <2>1, <2>2
<1>3. Inv /\ RepliesReach => TimesOutForReason
  BY DEF Inv, BasicTypes, RepliesReach, Tracked, Excused, TimesOutForReason
<1>. QED BY <1>1, <1>2, <1>3, Invariance, PTL DEF Spec

=============================================================================
