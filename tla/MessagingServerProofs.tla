------------------------- MODULE MessagingServerProofs -------------------------
(***************************************************************************)
(* Proofs about MessagingServer, for any connections, any number of        *)
(* messages, answers and losses, and every broker.  A message is in one    *)
(* place at a time, so that nobody handles it twice but for what a loss     *)
(* brings again; it leaves no place without getting to the next one or      *)
(* being cut off; and an answer keeps the address of its request wherever   *)
(* it waits.                                                              *)
(***************************************************************************)
EXTENDS MessagingServer, FiniteSetTheorems, TLAPS

Phases == {"none", "linked", "up", "lost", "recovering", "closing", "closed"}
Lines == {"none", "connect", "lost", "end", "ready"}
Metadata == [replyTo : Int, id : Int]
Answers == [of : Nat, metadata : Metadata]
Sendings == [of : Nat, metadata : Metadata, meant : SUBSET Connections]

\* The variables of the server, with their types.
TypeOK ==
    /\ load \in Loads /\ style \in Styles
    /\ phase \in [Connections -> Phases]
    /\ losses \in Nat
    /\ log \in [on : BOOLEAN, status : Lines, line : Lines]
    /\ sent \in Seq(Sendings)
    /\ backlog \in Seq(Nat)
    /\ wire \in [Connections -> Seq(Nat)]
    /\ arrived \in [Connections -> BOOLEAN]
    /\ handled \in [Connections -> Seq(Nat)]
    /\ unsent \in [Connections -> Seq(Answers)]
    /\ said \subseteq Connections \X Nat
    /\ replied \subseteq [by : Connections, of : Nat, metadata : Metadata]
    /\ cut \subseteq Connections \X Nat
    /\ again \subseteq Nat

\* n is at most once in s, s rises, and all of s comes before all of t.
Once(s, n) == \A i, j \in DOMAIN s : s[i] = n /\ s[j] = n => i = j
Rising(s) == \A i, j \in DOMAIN s : i < j => s[i] < s[j]
Before(s, t) == \A x, y : Contains(s, x) /\ Contains(t, y) => x < y

\* Connections are what the load says, and a broker that waits for settlements has at most
\* one message on the wire, which stays there after it was handled.
LinkOK ==
    /\ \A k \in Connections : phase[k] # "none" => k \in load.connections
    /\ Local => \A k \in Connections : phase[k] \in {"none", "up", "closed"}
    /\ \A k \in Connections : arrived[k] =>
          broker = "acked" /\ wire[k] # <<>> /\ Contains(handled[k], Head(wire[k]))
    /\ broker = "acked" => \A k \in Connections : Len(wire[k]) <= 1
    /\ ~Amqp => backlog = <<>>

\* The last line of the log is borne out by some connection, until one is being closed.
LogOK ==
    ~Local =>
       /\ log.on <=> \A k \in Connections : phase[k] # "closed"
       /\ log.on =>
             /\ log.status = "connect" => log.line = "connect"
             /\ log.status = "lost" => log.line = "lost"
             /\ log.line \in {"none", "connect", "lost"}
             /\ log.line = "connect" => \E k \in Connections : phase[k] \in {"up", "recovering", "closing"}
             /\ log.line = "lost" => \E k \in Connections : phase[k] \in {"lost", "closing"}
             /\ log.line = "none" => \A k \in Connections : phase[k] \in {"none", "linked", "closing"}

\* Only what was sent is anywhere.
PlacedOK ==
    \A n : \/ n \in DOMAIN sent
           \/ /\ ~Contains(backlog, n)
              /\ \A k \in Connections : ~Contains(wire[k], n) /\ ~Contains(handled[k], n)

\* A message waits in one place, once.
WaitsOnce(n) ==
    /\ Once(backlog, n)
    /\ \A k \in Connections : Once(wire[k], n) /\ ~(Contains(backlog, n) /\ Contains(wire[k], n))
    /\ Amqp => \A j, k \in Connections : Contains(wire[j], n) /\ Contains(wire[k], n) => j = k

\* What was not handed out again is handled once, and does not wait any longer.
HandledOK(n) ==
    n \notin again =>
       /\ \A k \in Connections :
             /\ Once(handled[k], n) /\ ~(Contains(backlog, n) /\ Contains(handled[k], n))
             /\ Contains(wire[k], n) /\ Contains(handled[k], n) => arrived[k]
       /\ Amqp => \A j, k \in Connections :
             Contains(handled[k], n) /\ (Contains(wire[j], n) \/ Contains(handled[j], n)) => j = k

\* A message waits, was handled or was cut off.
KeptOK(n) ==
    /\ ~Amqp => \A k \in sent[n].meant : Contains(wire[k], n) \/ Contains(handled[k], n) \/ <<k, n>> \in cut
    /\ Amqp => \/ Contains(backlog, n)
               \/ \E k \in Connections :
                     Contains(wire[k], n) \/ Contains(handled[k], n) \/ (broker = "amqp" /\ <<k, n>> \in cut)

MessagesOK == \A n \in DOMAIN sent : WaitsOnce(n) /\ HandledOK(n) /\ KeptOK(n)

\* Without acknowledgements messages stay in order from the queue to the listener.
OrderOK ==
    broker \in {"amqp", "redis"} =>
       /\ Rising(backlog)
       /\ \A k \in Connections :
             /\ Rising(handled[k]) /\ Rising(wire[k])
             /\ Before(handled[k], wire[k]) /\ Before(wire[k], backlog) /\ Before(handled[k], backlog)

\* What goes to the server's channel: an event, a request, or an answer that nobody asked for.
Request(n) == [replyTo |-> n, id |-> n]
SentOK ==
    \A n \in DOMAIN sent :
       /\ sent[n].metadata \in {NoMetadata, Request(n), [replyTo |-> Own, id |-> Fresh],
                                [replyTo |-> Fresh, id |-> Fresh]}
       /\ broker = "acked" => sent[n].of = 0

\* An answer to a request has come to it, waits, or was cut off; what waits is addressed to
\* where it was meant to go.
SaidOK(k, n) ==
    /\ n \in DOMAIN sent
    /\ sent[n].metadata = Request(n) /\ style # "bare" =>
          \/ \E r \in replied : r.by = k /\ r.of = n
          \/ \E i \in DOMAIN unsent[k] : unsent[k][i].of = n
          \/ phase[k] = "closed" /\ <<k, n>> \in cut
UnsentOK(answer) ==
    /\ answer.of \in DOMAIN sent /\ answer.metadata = Destination(answer.of)
    /\ broker = "acked" => answer.metadata.replyTo # Own
AnswersOK ==
    /\ \A x \in said : SaidOK(x[1], x[2])
    /\ \A k \in Connections : \A i \in DOMAIN unsent[k] : UnsentOK(unsent[k][i])
    /\ \A r \in replied : r.metadata = Request(r.of)

Inv == TypeOK /\ LinkOK /\ LogOK /\ PlacedOK /\ MessagesOK /\ OrderOK /\ SentOK /\ AnswersOK

------------------------------------------------------------------------------
(* Sequences of messages. *)

LEMMA NothingIn == \A n : ~Contains(<<>>, n) /\ Once(<<>>, n) /\ Rising(<<>>)
BY DEF Contains, Once, Rising

LEMMA InAppended ==
    ASSUME NEW s \in Seq(Nat), NEW x \in Nat, NEW n
    PROVE  /\ Append(s, x) \in Seq(Nat)
           /\ Contains(Append(s, x), n) <=> Contains(s, n) \/ n = x
           /\ Once(s, n) /\ ~(n = x /\ Contains(s, n)) => Once(Append(s, x), n)
<1>1. /\ Append(s, x) \in Seq(Nat) /\ Len(Append(s, x)) = Len(s) + 1 /\ Len(s) \in Nat
      /\ Append(s, x)[Len(s) + 1] = x /\ \A i \in 1 .. Len(s) : Append(s, x)[i] = s[i]
  OBVIOUS
<1>2. DOMAIN s = 1 .. Len(s) /\ DOMAIN Append(s, x) = 1 .. (Len(s) + 1)
  BY <1>1
<1>3. Contains(Append(s, x), n) <=> Contains(s, n) \/ n = x
  BY <1>1, <1>2 DEF Contains
<1>4. Once(s, n) /\ ~(n = x /\ Contains(s, n)) => Once(Append(s, x), n)
  BY <1>1, <1>2 DEF Contains, Once
<1> QED BY <1>1, <1>3, <1>4

LEMMA InTail ==
    ASSUME NEW s \in Seq(Nat), s # <<>>, NEW n
    PROVE  /\ Head(s) \in Nat /\ Tail(s) \in Seq(Nat)
           /\ Contains(s, n) <=> Contains(Tail(s), n) \/ n = Head(s)
           /\ Once(s, n) => Once(Tail(s), n) /\ ~(n = Head(s) /\ Contains(Tail(s), n))
<1>1. /\ Head(s) = s[1] /\ Len(s) \in Nat /\ Len(s) >= 1 /\ Tail(s) \in Seq(Nat) /\ Len(Tail(s)) = Len(s) - 1
      /\ \A i \in 1 .. (Len(s) - 1) : Tail(s)[i] = s[i + 1]
  OBVIOUS
<1>2. DOMAIN s = 1 .. Len(s) /\ DOMAIN Tail(s) = 1 .. (Len(s) - 1)
  BY <1>1
<1>3. Contains(s, n) <=> Contains(Tail(s), n) \/ n = Head(s)
  <2>1. ASSUME NEW i \in 1 .. Len(s), i # 1 PROVE i - 1 \in 1 .. (Len(s) - 1) /\ Tail(s)[i - 1] = s[i]
    <3>1. i - 1 \in 1 .. (Len(s) - 1) /\ i - 1 + 1 = i
      BY <1>1, <2>1
    <3>2. Tail(s)[i - 1] = s[i - 1 + 1]
      BY <1>1, <3>1
    <3> QED BY <3>1, <3>2
  <2> QED BY <1>1, <2>1 DEF Contains
<1>4. ASSUME Once(s, n) PROVE Once(Tail(s), n) /\ ~(n = Head(s) /\ Contains(Tail(s), n))
  <2>1. ASSUME NEW i \in 1 .. (Len(s) - 1)
        PROVE  i + 1 \in 1 .. Len(s) /\ i + 1 # 1 /\ Tail(s)[i] = s[i + 1]
    BY <1>1, <2>1
  <2>2. Once(Tail(s), n)
    <3>1. ASSUME NEW i \in 1 .. (Len(s) - 1), NEW j \in 1 .. (Len(s) - 1), Tail(s)[i] = n, Tail(s)[j] = n
          PROVE  i = j
      <4>1. s[i + 1] = n /\ s[j + 1] = n /\ i + 1 \in 1 .. Len(s) /\ j + 1 \in 1 .. Len(s)
        BY <2>1, <3>1
      <4>2. i + 1 = j + 1
        BY <1>2, <1>4, <4>1 DEF Once
      <4> QED BY <4>2
    <3> QED BY <1>2, <3>1 DEF Once
  <2>3. ASSUME n = s[1], NEW i \in 1 .. (Len(s) - 1), Tail(s)[i] = n PROVE FALSE
    BY <1>1, <1>2, <1>4, <2>1, <2>3 DEF Once
  <2> QED BY <1>1, <1>2, <2>2, <2>3 DEF Contains
<1> QED BY <1>1, <1>3, <1>4

LEMMA InConcatenation ==
    ASSUME NEW s \in Seq(Nat), NEW t \in Seq(Nat), NEW n
    PROVE  /\ s \o t \in Seq(Nat)
           /\ Contains(s \o t, n) <=> Contains(s, n) \/ Contains(t, n)
           /\ Once(s, n) /\ Once(t, n) /\ ~(Contains(s, n) /\ Contains(t, n)) => Once(s \o t, n)
<1>1. /\ s \o t \in Seq(Nat) /\ Len(s \o t) = Len(s) + Len(t) /\ Len(s) \in Nat /\ Len(t) \in Nat
      /\ DOMAIN s = 1 .. Len(s) /\ DOMAIN t = 1 .. Len(t) /\ DOMAIN (s \o t) = 1 .. (Len(s) + Len(t))
  OBVIOUS
<1>2. \A i \in 1 .. Len(s) : (s \o t)[i] = s[i]
  OBVIOUS
<1>3. \A i \in 1 .. Len(t) : (s \o t)[Len(s) + i] = t[i]
  OBVIOUS
<1>4. ASSUME NEW i \in 1 .. (Len(s) + Len(t))
      PROVE  i \in 1 .. Len(s) \/ \E j \in 1 .. Len(t) : i = Len(s) + j
  <2>1. i \in 1 .. Len(s) \/ (i - Len(s) \in 1 .. Len(t) /\ i = Len(s) + (i - Len(s)))
    BY <1>1
  <2> QED BY <2>1
<1>5. Contains(s \o t, n) <=> Contains(s, n) \/ Contains(t, n)
  <2>1. Contains(s \o t, n) => Contains(s, n) \/ Contains(t, n)
    BY <1>1, <1>2, <1>3, <1>4 DEF Contains
  <2>2. Contains(s, n) => Contains(s \o t, n)
    BY <1>1, <1>2 DEF Contains
  <2>3. Contains(t, n) => Contains(s \o t, n)
    <3>1. ASSUME NEW j \in 1 .. Len(t) PROVE Len(s) + j \in 1 .. Len(s \o t)
      BY <1>1
    <3> QED BY <1>3, <3>1 DEF Contains
  <2> QED BY <2>1, <2>2, <2>3
<1>6. ASSUME Once(s, n), Once(t, n), ~(Contains(s, n) /\ Contains(t, n)) PROVE Once(s \o t, n)
  <2> SUFFICES ASSUME NEW i \in 1 .. (Len(s) + Len(t)), NEW j \in 1 .. (Len(s) + Len(t)),
                      (s \o t)[i] = n, (s \o t)[j] = n
               PROVE  i = j
    BY <1>1 DEF Once
  <2>1. CASE i \in 1 .. Len(s) /\ j \in 1 .. Len(s)
    BY <1>1, <1>2, <1>6, <2>1 DEF Once
  <2>2. CASE i \in 1 .. Len(s) /\ j \notin 1 .. Len(s)
    <3>1. PICK l \in 1 .. Len(t) : j = Len(s) + l
      BY <1>4, <2>2
    <3>2. s[i] = n /\ t[l] = n
      BY <1>2, <1>3, <2>2, <3>1
    <3> QED BY <1>6, <2>2, <3>2 DEF Contains
  <2>3. CASE i \notin 1 .. Len(s) /\ j \in 1 .. Len(s)
    <3>1. PICK l \in 1 .. Len(t) : i = Len(s) + l
      BY <1>4, <2>3
    <3>2. s[j] = n /\ t[l] = n
      BY <1>2, <1>3, <2>3, <3>1
    <3> QED BY <1>6, <2>3, <3>2 DEF Contains
  <2>4. CASE i \notin 1 .. Len(s) /\ j \notin 1 .. Len(s)
    <3>1. PICK l \in 1 .. Len(t) : i = Len(s) + l
      BY <1>4, <2>4
    <3>2. PICK m \in 1 .. Len(t) : j = Len(s) + m
      BY <1>4, <2>4
    <3>3. t[l] = n /\ t[m] = n
      BY <1>3, <3>1, <3>2
    <3>4. l = m
      BY <1>1, <1>6, <3>3 DEF Once
    <3> QED BY <3>1, <3>2, <3>4
  <2> QED BY <2>1, <2>2, <2>3, <2>4
<1> QED BY <1>1, <1>5, <1>6

LEMMA RisingAppended ==
    ASSUME NEW s \in Seq(Nat), NEW x \in Nat, Rising(s), \A y : Contains(s, y) => y < x
    PROVE  Rising(Append(s, x))
<1>1. /\ DOMAIN Append(s, x) = 1 .. (Len(s) + 1) /\ DOMAIN s = 1 .. Len(s) /\ Len(s) \in Nat
      /\ Append(s, x)[Len(s) + 1] = x /\ \A i \in 1 .. Len(s) : Append(s, x)[i] = s[i]
  OBVIOUS
<1>2. \A i \in 1 .. Len(s) : s[i] < x
  BY DEF Contains
<1> QED BY <1>1, <1>2 DEF Rising

LEMMA RisingTail ==
    ASSUME NEW s \in Seq(Nat), s # <<>>, Rising(s)
    PROVE  Rising(Tail(s)) /\ \A y : Contains(Tail(s), y) => Head(s) < y
<1>1. /\ Head(s) = s[1] /\ Len(s) \in Nat /\ Len(s) >= 1 /\ Len(Tail(s)) = Len(s) - 1
      /\ DOMAIN s = 1 .. Len(s) /\ DOMAIN Tail(s) = 1 .. (Len(s) - 1)
      /\ \A i \in 1 .. (Len(s) - 1) : Tail(s)[i] = s[i + 1] /\ i + 1 \in 1 .. Len(s)
  OBVIOUS
<1>2. Rising(Tail(s))
  BY <1>1 DEF Rising
<1>3. ASSUME NEW i \in 1 .. (Len(s) - 1) PROVE s[1] < Tail(s)[i]
  BY <1>1 DEF Rising
<1> QED BY <1>1, <1>2, <1>3 DEF Contains

------------------------------------------------------------------------------
(* Where nothing changes. *)

LEMMA Kinds ==
    ASSUME TypeOK
    PROVE  /\ broker \in {"amqp", "acked", "redis", "local"}
           /\ Local => \A j, k \in load.connections : j = k
BY ServerAssumption DEF TypeOK, broker, Local

LEMMA SentTyped ==
    ASSUME TypeOK, NEW n \in DOMAIN sent
    PROVE  n \in 1 .. Len(sent) /\ n \in Nat /\ sent[n].meant \subseteq Connections /\ sent[n].of \in Nat
<1>1. sent[n] \in Sendings /\ n \in 1 .. Len(sent) /\ Len(sent) \in Nat
  BY DEF TypeOK
<1> QED BY <1>1 DEF Sendings

LEMMA UnsentTyped ==
    ASSUME TypeOK, NEW k \in Connections, NEW i \in DOMAIN unsent[k]
    PROVE  unsent[k] \in Seq(Answers) /\ unsent[k][i] \in Answers /\ unsent[k][i].of \in Nat
<1>1. unsent[k] \in Seq(Answers) /\ unsent[k][i] \in Answers
  BY DEF TypeOK
<1> QED BY <1>1 DEF Answers

\* Messages that do not move stay as they are.
LEMMA TrafficRests ==
    ASSUME PlacedOK, MessagesOK, OrderOK, SentOK, UNCHANGED <<load, traffic>>
    PROVE  PlacedOK' /\ MessagesOK' /\ OrderOK' /\ SentOK'
<1> USE DEF traffic
<1>1. PlacedOK'
  BY DEF PlacedOK
<1>2. MessagesOK'
  BY DEF MessagesOK, WaitsOnce, HandledOK, KeptOK, Amqp, broker
<1>3. OrderOK'
  BY DEF OrderOK, broker
<1>4. SentOK'
  BY DEF SentOK, broker
<1> QED BY <1>1, <1>2, <1>3, <1>4

\* An answer goes where its message said, whatever is sent later.
LEMMA DestinationStays ==
    ASSUME NEW n, style' = style, sent'[n] = sent[n]
    PROVE  Destination(n)' = Destination(n)
BY DEF Destination, OutputRouted, Answered, ComposeMetadata, IdApplied

\* Answers that are not touched stay as they are: more is sent, more is cut off, and what is
\* closed stays closed.
LEMMA AnswersRest ==
    ASSUME AnswersOK, UNCHANGED <<load, style, said, unsent, replied>>,
           \A n \in DOMAIN sent : n \in DOMAIN sent' /\ sent'[n] = sent[n],
           cut \subseteq cut', \A k \in Connections : phase[k] = "closed" => phase'[k] = "closed",
           said \subseteq Connections \X Nat
    PROVE  AnswersOK'
<1>1. ASSUME NEW x \in said PROVE SaidOK(x[1], x[2])'
  <2>1. SaidOK(x[1], x[2]) /\ x[1] \in Connections
    BY DEF AnswersOK
  <2> QED BY <2>1 DEF SaidOK
<1>2. ASSUME NEW k \in Connections, NEW i \in DOMAIN unsent[k] PROVE UnsentOK(unsent[k][i])'
  <2>1. PICK answer : answer = unsent[k][i]
    OBVIOUS
  <2>2. UnsentOK(answer)
    BY <2>1 DEF AnswersOK
  <2>3. answer.of \in DOMAIN sent
    BY <2>2 DEF UnsentOK
  <2>4. Destination(answer.of)' = Destination(answer.of)
    BY <2>3, DestinationStays
  <2>5. UnsentOK(answer)'
    BY <2>2, <2>3, <2>4 DEF UnsentOK, broker
  <2> QED BY <2>1, <2>5 DEF UnsentOK
<1> QED BY <1>1, <1>2 DEF AnswersOK

------------------------------------------------------------------------------
(* Connections and the log. *)

\* A line about connecting, or about a loss, is written unless it is there already.
LEMMA LoggedLine ==
    ASSUME NEW logger \in [on : BOOLEAN, status : Lines, line : Lines]
    PROVE  /\ \A s \in {"connect", "lost"} : (logger.status = s => logger.line = s) =>
                 Logged(logger, s) = [on |-> logger.on, status |-> s, line |-> s]
           /\ \A s \in {"end", "ready"} :
                 Logged(logger, s) = [on |-> logger.on, status |-> s, line |-> logger.line]
<1>1. ASSUME NEW s, NEW l, l = IF s \in {"connect", "lost"} /\ s # logger.status THEN s ELSE logger.line
      PROVE  Logged(logger, s) = [on |-> logger.on, status |-> s, line |-> l]
  <2>1. Logged(logger, s) = [logger EXCEPT !.status = s, !.line = l]
    BY <1>1 DEF Logged
  <2> QED BY <2>1
<1>2. ASSUME NEW s \in {"connect", "lost"}, logger.status = s => logger.line = s
      PROVE  Logged(logger, s) = [on |-> logger.on, status |-> s, line |-> s]
  BY <1>1, <1>2
<1>3. ASSUME NEW s \in {"end", "ready"}
      PROVE  Logged(logger, s) = [on |-> logger.on, status |-> s, line |-> logger.line]
  BY <1>1, <1>3
<1> QED BY <1>2, <1>3

\* What is told of a status.
LEMMA Told ==
    ASSUME TypeOK, LogOK, ~Local, NEW s \in {"connect", "lost", "end", "ready"}, Tell(s)
    PROVE  log' = IF ~log.on THEN log
                  ELSE [on |-> log.on, status |-> s, line |-> IF s \in {"connect", "lost"} THEN s ELSE log.line]
<1>1. log \in [on : BOOLEAN, status : Lines, line : Lines]
  BY DEF TypeOK
<1>2. log.on => (log.status = "connect" => log.line = "connect") /\ (log.status = "lost" => log.line = "lost")
  BY DEF LogOK
<1>3. CASE s \in {"connect", "lost"}
  BY <1>1, <1>2, <1>3, LoggedLine DEF Tell
<1>4. CASE s \in {"end", "ready"}
  BY <1>1, <1>4, LoggedLine DEF Tell
<1> QED BY <1>3, <1>4

LEMMA ToldLost ==
    ASSUME TypeOK, LogOK, ~Local, TellLost
    PROVE  log' = IF ~log.on THEN log ELSE [on |-> log.on, status |-> "lost", line |-> "lost"]
<1>1. log \in [on : BOOLEAN, status : Lines, line : Lines]
  BY DEF TypeOK
<1>2. CASE Redis
  <2>1. PICK l : l = Logged(log, "end")
    OBVIOUS
  <2>2. l = [on |-> log.on, status |-> "end", line |-> log.line]
    BY <1>1, <2>1, LoggedLine
  <2>3. l \in [on : BOOLEAN, status : Lines, line : Lines] /\ l.status # "lost" /\ l.on = log.on
    BY <1>1, <2>2 DEF Lines
  <2>4. Logged(l, "lost") = [on |-> log.on, status |-> "lost", line |-> "lost"]
    BY <2>3, LoggedLine
  <2> QED BY <1>2, <2>1, <2>4 DEF TellLost
<1>3. CASE ~Redis
  BY <1>3, Told DEF TellLost
<1> QED BY <1>2, <1>3

\* A step of a connection that moves no message.
LEMMA PhaseKeeps ==
    ASSUME Inv, NEW k \in Connections, NEW next \in Phases \ {"none", "closed"}, Become(k, next),
           UNCHANGED <<load, losses, traffic, answers>>,
           phase[k] # "closed", phase[k] = "none" => k \in load.connections,
           Local => next = "up", log' \in [on : BOOLEAN, status : Lines, line : Lines], LogOK'
    PROVE  Inv'
<1> USE DEF Become
<1>1. TypeOK'
  BY DEF Inv, TypeOK, traffic, answers, Phases
<1>2. LinkOK'
  BY DEF Inv, LinkOK, TypeOK, traffic, Local, Amqp, broker
<1>3. PlacedOK' /\ MessagesOK' /\ OrderOK' /\ SentOK'
  BY TrafficRests DEF Inv
<1>4. AnswersOK'
  BY AnswersRest DEF Inv, TypeOK, traffic, answers
<1> QED BY <1>1, <1>2, <1>3, <1>4 DEF Inv

LEMMA ConnectKeeps == ASSUME Inv, NEW k \in Connections, Connect(k) PROVE Inv'
<1>1. LogOK'
  BY DEF Inv, TypeOK, LogOK, Connect, Become, Local, broker
<1> QED BY <1>1, PhaseKeeps DEF Connect, Inv, TypeOK, Phases

LEMMA EventBusKeeps == ASSUME Inv, NEW k \in Connections, EventBus(k) PROVE Inv'
<1>1. LogOK'
  BY DEF LogOK, EventBus, Local, broker
<1> QED BY <1>1, PhaseKeeps DEF EventBus, Inv, TypeOK, Phases

LEMMA AnnouncedKeeps == ASSUME Inv, NEW k \in Connections, Announced(k) PROVE Inv'
<1>1. ~Local /\ TypeOK /\ LogOK /\ phase[k] = "linked"
  BY DEF Inv, LinkOK, Announced
<1>2. log' = IF ~log.on THEN log ELSE [on |-> log.on, status |-> "connect", line |-> "connect"]
  BY <1>1, Told DEF Announced
<1>3. LogOK' /\ log' \in [on : BOOLEAN, status : Lines, line : Lines]
  BY <1>1, <1>2 DEF LogOK, TypeOK, Announced, Become, Local, broker, Lines
<1> QED BY <1>1, <1>3, PhaseKeeps DEF Announced, Phases

LEMMA ReconnectedKeeps == ASSUME Inv, NEW k \in Connections, Reconnected(k) PROVE Inv'
<1>1. ~Local /\ TypeOK /\ LogOK /\ phase[k] = "lost"
  BY DEF Inv, LinkOK, Reconnected
<1>2. log' = IF ~log.on THEN log ELSE [on |-> log.on, status |-> "connect", line |-> "connect"]
  BY <1>1, Told DEF Reconnected
<1>3. LogOK' /\ log' \in [on : BOOLEAN, status : Lines, line : Lines]
  BY <1>1, <1>2 DEF LogOK, TypeOK, Reconnected, Become, Local, broker, Lines
<1> QED BY <1>1, <1>3, PhaseKeeps DEF Reconnected, Phases

LEMMA RecoveredKeeps == ASSUME Inv, NEW k \in Connections, Recovered(k) PROVE Inv'
<1>1. ~Local /\ TypeOK /\ LogOK /\ phase[k] = "recovering"
  BY DEF Inv, LinkOK, Recovered
<1>2. log' = IF ~log.on THEN log ELSE [on |-> log.on, status |-> "ready", line |-> log.line]
  BY <1>1, Told DEF Recovered
<1>3. LogOK' /\ log' \in [on : BOOLEAN, status : Lines, line : Lines]
  BY <1>1, <1>2 DEF LogOK, TypeOK, Recovered, Become, Local, broker, Lines
<1> QED BY <1>1, <1>3, PhaseKeeps DEF Recovered, Phases

LEMMA CloseConnectionKeeps == ASSUME Inv, NEW k \in Connections, CloseConnection(k) PROVE Inv'
<1>1. LogOK'
  BY DEF Inv, TypeOK, LogOK, CloseConnection, Become, Local, broker
<1>2. phase[k] # "closed" /\ phase[k] # "none" /\ ~Local
  BY DEF CloseConnection
<1> QED BY <1>1, <1>2, PhaseKeeps DEF CloseConnection, Inv, TypeOK, Phases

LEMMA StutterKeeps == ASSUME Inv, UNCHANGED serverVars PROVE Inv'
<1> USE DEF serverVars, watched, answers
<1>1. TypeOK'
  BY DEF Inv, TypeOK, traffic
<1>2. LinkOK' /\ LogOK'
  BY DEF Inv, LinkOK, LogOK, traffic, Local, Amqp, broker
<1>3. PlacedOK' /\ MessagesOK' /\ OrderOK' /\ SentOK'
  BY TrafficRests DEF Inv
<1>4. AnswersOK'
  BY AnswersRest DEF Inv, TypeOK, traffic
<1> QED BY <1>1, <1>2, <1>3, <1>4 DEF Inv

LEMMA InitInv == ServerInit => Inv
<1> SUFFICES ASSUME ServerInit PROVE Inv
  OBVIOUS
<1> USE DEF ServerInit
<1>1. TypeOK
  BY DEF TypeOK, Phases, Lines
<1>2. LinkOK /\ LogOK
  <2>1. LinkOK
    BY DEF LinkOK
  <2>2. LogOK
    BY DEF LogOK
  <2> QED BY <2>1, <2>2
<1>3. PlacedOK /\ MessagesOK /\ SentOK /\ AnswersOK
  BY NothingIn DEF PlacedOK, MessagesOK, SentOK, AnswersOK
<1>4. OrderOK
  BY NothingIn DEF OrderOK, Before
<1> QED BY <1>1, <1>2, <1>3, <1>4 DEF Inv

------------------------------------------------------------------------------
(* A connection is lost, or ends. *)

\* Where the wire of k went: back to a broker that waits for settlements, or nowhere.
LEMMA UnwiredMoves ==
    ASSUME TypeOK, NEW k \in Connections, Unwired(k), NEW n
    PROVE  /\ wire' \in [Connections -> Seq(Nat)] /\ arrived' \in [Connections -> BOOLEAN]
           /\ backlog' \in Seq(Nat) /\ again' \subseteq Nat /\ again \subseteq again'
           /\ wire'[k] = <<>> /\ ~arrived'[k]
           /\ \A j \in Connections \ {k} : wire'[j] = wire[j] /\ arrived'[j] = arrived[j]
           /\ broker # "acked" => backlog' = backlog
           /\ broker = "acked" =>
                 /\ Contains(backlog', n) <=> Contains(wire[k], n) \/ Contains(backlog, n)
                 /\ Once(wire[k], n) /\ Once(backlog, n) /\ ~(Contains(wire[k], n) /\ Contains(backlog, n))
                       => Once(backlog', n)
           /\ arrived[k] /\ Contains(wire[k], n) => n \in again'
<1>1. wire[k] \in Seq(Nat) /\ backlog \in Seq(Nat) /\ again \subseteq Nat
  BY DEF TypeOK
<1>2. /\ wire' = [wire EXCEPT ![k] = <<>>] /\ arrived' = [arrived EXCEPT ![k] = FALSE]
      /\ backlog' = IF broker = "acked" THEN wire[k] \o backlog ELSE backlog
      /\ again' = IF arrived[k] THEN again \union {wire[k][i] : i \in DOMAIN wire[k]} ELSE again
  BY DEF Unwired
<1>3. /\ wire' \in [Connections -> Seq(Nat)] /\ arrived' \in [Connections -> BOOLEAN]
      /\ wire'[k] = <<>> /\ ~arrived'[k]
      /\ \A j \in Connections \ {k} : wire'[j] = wire[j] /\ arrived'[j] = arrived[j]
  BY <1>2 DEF TypeOK
<1>4. again' \subseteq Nat /\ again \subseteq again'
  <2>1. \A i \in DOMAIN wire[k] : wire[k][i] \in Nat
    BY <1>1
  <2> QED BY <1>1, <1>2, <2>1
<1>5. arrived[k] /\ Contains(wire[k], n) => n \in again'
  BY <1>1, <1>2 DEF Contains
<1>6. backlog' \in Seq(Nat) /\ (broker # "acked" => backlog' = backlog)
  BY <1>1, <1>2, InConcatenation
<1>7. broker = "acked" =>
         /\ Contains(backlog', n) <=> Contains(wire[k], n) \/ Contains(backlog, n)
         /\ Once(wire[k], n) /\ Once(backlog, n) /\ ~(Contains(wire[k], n) /\ Contains(backlog, n))
               => Once(backlog', n)
  BY <1>1, <1>2, InConcatenation
<1> QED BY <1>3, <1>4, <1>5, <1>6, <1>7

\* No message is lost but what is cut off, and what was handled already comes again.
LEMMA UnwiredKeeps ==
    ASSUME Inv, NEW k \in Connections, Unwired(k), UNCHANGED <<load, sent, handled>>, cut \subseteq cut',
           broker # "acked" => \A i \in DOMAIN wire[k] : <<k, wire[k][i]>> \in cut'
    PROVE  /\ PlacedOK' /\ MessagesOK' /\ OrderOK' /\ SentOK'
           /\ \A j \in Connections : arrived'[j] =>
                 broker = "acked" /\ wire'[j] # <<>> /\ Contains(handled'[j], Head(wire'[j]))
           /\ broker = "acked" => \A j \in Connections : Len(wire'[j]) <= 1
           /\ ~Amqp => backlog' = <<>>
<1> USE DEF Inv
<1>1. /\ wire'[k] = <<>> /\ ~arrived'[k] /\ again \subseteq again'
      /\ \A j \in Connections \ {k} : wire'[j] = wire[j] /\ arrived'[j] = arrived[j]
      /\ broker # "acked" => backlog' = backlog
  BY UnwiredMoves
<1>2. ASSUME NEW n, broker = "acked"
      PROVE  /\ Contains(backlog', n) <=> Contains(wire[k], n) \/ Contains(backlog, n)
             /\ WaitsOnce(n) => Once(backlog', n)
  <2>1. WaitsOnce(n) => Once(wire[k], n) /\ Once(backlog, n) /\ ~(Contains(wire[k], n) /\ Contains(backlog, n))
    BY DEF WaitsOnce
  <2> QED BY <1>2, <2>1, UnwiredMoves
<1>3. \A n : arrived[k] /\ Contains(wire[k], n) => n \in again'
  BY UnwiredMoves
<1>4. \A n : ~Contains(wire'[k], n) /\ Once(wire'[k], n)
  BY <1>1, NothingIn
<1>5. ASSUME NEW n, broker # "acked", Contains(wire[k], n) PROVE <<k, n>> \in cut'
  BY <1>5 DEF Contains, TypeOK
<1>6. PlacedOK'
  <2> SUFFICES ASSUME NEW n, n \notin DOMAIN sent
               PROVE  ~Contains(backlog', n) /\ \A j \in Connections : ~Contains(wire'[j], n) /\ ~Contains(handled[j], n)
    BY DEF PlacedOK
  <2>1. ~Contains(backlog, n) /\ \A j \in Connections : ~Contains(wire[j], n) /\ ~Contains(handled[j], n)
    BY DEF PlacedOK
  <2> QED BY <1>1, <1>2, <1>4, <2>1
<1>7. ASSUME NEW n \in DOMAIN sent PROVE WaitsOnce(n)' /\ HandledOK(n)' /\ KeptOK(n)'
  <2>1. WaitsOnce(n) /\ HandledOK(n) /\ KeptOK(n)
    BY DEF MessagesOK
  <2>2. CASE broker = "acked"
    <3>1. WaitsOnce(n)'
      BY <1>1, <1>2, <1>4, <2>1, <2>2 DEF WaitsOnce, Amqp, broker
    <3>2. HandledOK(n)'
      <4> SUFFICES ASSUME n \notin again' PROVE HandledOK(n)'
        BY DEF HandledOK
      <4>1. n \notin again
        BY <1>1
      <4>2. Contains(wire[k], n) => \A j \in Connections : ~Contains(handled[j], n)
        BY <1>3, <2>1, <2>2, <4>1 DEF HandledOK, Amqp
      <4> QED BY <1>1, <1>2, <1>4, <2>1, <2>2, <4>1, <4>2 DEF HandledOK, Amqp, broker
    <3>3. KeptOK(n)'
      BY <1>1, <1>2, <2>1, <2>2 DEF KeptOK, Amqp, broker
    <3> QED BY <3>1, <3>2, <3>3
  <2>3. CASE broker # "acked"
    <3>1. WaitsOnce(n)'
      BY <1>1, <1>4, <2>1, <2>3 DEF WaitsOnce, Amqp, broker
    <3>2. HandledOK(n)'
      BY <1>1, <1>4, <2>1, <2>3 DEF HandledOK, Amqp, broker
    <3>3. KeptOK(n)'
      <4>1. \A j \in Connections : Contains(wire[j], n) => Contains(wire'[j], n) \/ <<j, n>> \in cut'
        BY <1>1, <1>5, <2>3
      <4>2. CASE Amqp
        BY <1>1, <2>1, <2>3, <4>1, <4>2, Kinds DEF KeptOK, Amqp, broker
      <4>3. CASE ~Amqp
        <5> SUFFICES ASSUME NEW j \in sent[n].meant
                     PROVE  Contains(wire'[j], n) \/ Contains(handled[j], n) \/ <<j, n>> \in cut'
          BY <4>3 DEF KeptOK, Amqp, broker
        <5>1. j \in Connections
          BY SentTyped
        <5> QED BY <2>1, <4>1, <4>3, <5>1 DEF KeptOK
      <4> QED BY <4>2, <4>3
    <3> QED BY <3>1, <3>2, <3>3
  <2> QED BY <2>2, <2>3
<1>8. MessagesOK'
  BY <1>7 DEF MessagesOK
<1>9. OrderOK'
  BY <1>1, <1>4, NothingIn DEF OrderOK, Before, broker
<1>10. SentOK'
  BY DEF SentOK, broker
<1>11. /\ \A j \in Connections : arrived'[j] =>
             broker = "acked" /\ wire'[j] # <<>> /\ Contains(handled'[j], Head(wire'[j]))
       /\ broker = "acked" => \A j \in Connections : Len(wire'[j]) <= 1
       /\ ~Amqp => backlog' = <<>>
  <2>1. Len(<<>>) <= 1
    OBVIOUS
  <2> QED BY <1>1, <2>1 DEF LinkOK, Amqp
<1> QED BY <1>6, <1>8, <1>9, <1>10, <1>11

LEMMA ConnectionLostKeeps == ASSUME Inv, NEW k \in Connections, ConnectionLost(k) PROVE Inv'
<1> USE DEF Inv
<1>1. /\ phase[k] \in {"up", "recovering", "linked"} /\ ~Local /\ losses' = losses + 1
      /\ phase' = [phase EXCEPT ![k] = "lost"] /\ TellLost /\ Unwired(k)
      /\ cut' = IF broker = "acked" THEN cut ELSE cut \union {<<k, wire[k][i]>> : i \in DOMAIN wire[k]}
      /\ UNCHANGED <<load, sent, handled, style, said, unsent, replied>>
  BY DEF ConnectionLost, Become, answers
<1>2. log' = IF ~log.on THEN log ELSE [on |-> log.on, status |-> "lost", line |-> "lost"]
  BY <1>1, ToldLost
<1>3. LogOK' /\ log' \in [on : BOOLEAN, status : Lines, line : Lines]
  BY <1>1, <1>2 DEF LogOK, TypeOK, Local, broker, Lines
<1>4. cut \subseteq cut' /\ (broker # "acked" => \A i \in DOMAIN wire[k] : <<k, wire[k][i]>> \in cut')
  BY <1>1
<1>5. /\ wire' \in [Connections -> Seq(Nat)] /\ arrived' \in [Connections -> BOOLEAN]
      /\ backlog' \in Seq(Nat) /\ again' \subseteq Nat
  BY <1>1, UnwiredMoves
<1>6. cut' \subseteq Connections \X Nat
  BY <1>1 DEF TypeOK
<1>7. TypeOK'
  <2>1. phase' \in [Connections -> Phases] /\ losses' \in Nat
    BY <1>1 DEF TypeOK, Phases
  <2> QED BY <1>1, <1>3, <1>5, <1>6, <2>1 DEF TypeOK
<1>8. /\ PlacedOK' /\ MessagesOK' /\ OrderOK' /\ SentOK'
      /\ \A j \in Connections : arrived'[j] =>
            broker = "acked" /\ wire'[j] # <<>> /\ Contains(handled'[j], Head(wire'[j]))
      /\ broker = "acked" => \A j \in Connections : Len(wire'[j]) <= 1
      /\ ~Amqp => backlog' = <<>>
  BY <1>1, <1>4, UnwiredKeeps
<1>9. LinkOK'
  BY <1>1, <1>8 DEF LinkOK, TypeOK, Local, Amqp, broker
<1>10. AnswersOK'
  <2>1. \A j \in Connections : phase[j] = "closed" => phase'[j] = "closed"
    BY <1>1 DEF TypeOK
  <2> QED BY <1>1, <1>4, <2>1, AnswersRest DEF TypeOK
<1> QED BY <1>3, <1>7, <1>8, <1>9, <1>10

\* The answers that wait for a connection end with it, and the log of the server.
LEMMA EndedKeeps == ASSUME Inv, NEW k \in Connections, phase[k] \in {"up", "closing"}, Ended(k) PROVE Inv'
<1> USE DEF Inv
<1>1. /\ phase' = [phase EXCEPT ![k] = "closed"] /\ log' = [log EXCEPT !.on = FALSE] /\ Unwired(k)
      /\ cut' = cut \union {<<k, unsent[k][i].of>> : i \in DOMAIN unsent[k]}
                    \union IF broker = "acked" THEN {} ELSE {<<k, wire[k][i]>> : i \in DOMAIN wire[k]}
      /\ unsent' = [unsent EXCEPT ![k] = <<>>]
      /\ UNCHANGED <<load, losses, sent, handled, style, said, replied>>
  BY DEF Ended, Become
<1>2. LogOK'
  BY <1>1 DEF LogOK, TypeOK, Local, broker
<1>3. cut \subseteq cut' /\ (broker # "acked" => \A i \in DOMAIN wire[k] : <<k, wire[k][i]>> \in cut')
  BY <1>1
<1>4. /\ wire' \in [Connections -> Seq(Nat)] /\ arrived' \in [Connections -> BOOLEAN]
      /\ backlog' \in Seq(Nat) /\ again' \subseteq Nat
  BY <1>1, UnwiredMoves
<1>5. cut' \subseteq Connections \X Nat
  <2>1. ASSUME NEW i \in DOMAIN unsent[k] PROVE unsent[k][i].of \in Nat
    BY UnsentTyped
  <2>2. ASSUME NEW i \in DOMAIN wire[k] PROVE wire[k][i] \in Nat
    BY DEF TypeOK
  <2> QED BY <1>1, <2>1, <2>2 DEF TypeOK
<1>6. unsent' \in [Connections -> Seq(Answers)]
  BY <1>1 DEF TypeOK
<1>7. TypeOK'
  BY <1>1, <1>4, <1>5, <1>6 DEF TypeOK, Phases
<1>8. /\ PlacedOK' /\ MessagesOK' /\ OrderOK' /\ SentOK'
      /\ \A j \in Connections : arrived'[j] =>
            broker = "acked" /\ wire'[j] # <<>> /\ Contains(handled'[j], Head(wire'[j]))
      /\ broker = "acked" => \A j \in Connections : Len(wire'[j]) <= 1
      /\ ~Amqp => backlog' = <<>>
  BY <1>1, <1>3, UnwiredKeeps
<1>9. LinkOK'
  BY <1>1, <1>8 DEF LinkOK, TypeOK, Local, Amqp, broker
<1>10. AnswersOK'
  <2>1. ASSUME NEW x \in said PROVE SaidOK(x[1], x[2])'
    <3>1. SaidOK(x[1], x[2]) /\ x[1] \in Connections
      BY DEF AnswersOK, TypeOK
    <3>2. CASE x[1] = k
      BY <1>1, <3>1, <3>2 DEF SaidOK, TypeOK
    <3>3. CASE x[1] # k
      BY <1>1, <3>1, <3>3 DEF SaidOK, TypeOK
    <3> QED BY <3>2, <3>3
  <2>2. ASSUME NEW j \in Connections, NEW i \in DOMAIN unsent'[j] PROVE UnsentOK(unsent[j][i])'
    <3>1. j # k /\ unsent'[j] = unsent[j]
      BY <1>1, <2>2 DEF TypeOK
    <3>2. PICK answer : answer = unsent[j][i]
      OBVIOUS
    <3>3. UnsentOK(answer)
      BY <2>2, <3>1, <3>2 DEF AnswersOK
    <3>4. Destination(answer.of)' = Destination(answer.of)
      BY <1>1, DestinationStays
    <3>5. UnsentOK(answer)'
      BY <1>1, <3>3, <3>4 DEF UnsentOK, broker
    <3> QED BY <3>1, <3>2, <3>5 DEF UnsentOK
  <2> QED BY <1>1, <2>1, <2>2 DEF AnswersOK
<1> QED BY <1>2, <1>7, <1>8, <1>9, <1>10

LEMMA ClosedKeeps == ASSUME Inv, NEW k \in Connections, BusClosed(k) \/ ConnectionClosed(k) PROVE Inv'
BY EndedKeeps DEF BusClosed, ConnectionClosed

------------------------------------------------------------------------------
(* A message goes from the queue to the listener. *)

\* A step of messages that concerns no connection and no answer.
LEMMA MessagesMove ==
    ASSUME Inv, UNCHANGED <<load, watched, sent, answers>>, cut \subseteq cut', cut' \subseteq Connections \X Nat,
           backlog' \in Seq(Nat), wire' \in [Connections -> Seq(Nat)], arrived' \in [Connections -> BOOLEAN],
           handled' \in [Connections -> Seq(Nat)], again' \subseteq Nat,
           LinkOK', PlacedOK', MessagesOK', OrderOK'
    PROVE  Inv'
<1> USE DEF watched, answers
<1>1. TypeOK'
  BY DEF Inv, TypeOK
<1>2. LogOK' /\ SentOK'
  BY DEF Inv, LogOK, SentOK, Local, broker
<1>3. AnswersOK'
  BY AnswersRest DEF Inv, TypeOK
<1> QED BY <1>1, <1>2, <1>3 DEF Inv

LEMMA PushedKeeps == ASSUME Inv, NEW k \in Connections, Pushed(k) PROVE Inv'
<1> USE DEF Inv
<1>1. PICK h : h = Head(backlog)
  OBVIOUS
<1>2. /\ Amqp /\ phase[k] = "up" /\ backlog # <<>> /\ (broker = "acked" => wire[k] = <<>>)
      /\ wire' = [wire EXCEPT ![k] = Append(@, h)] /\ backlog' = Tail(backlog)
      /\ UNCHANGED <<load, watched, sent, arrived, handled, cut, again, answers>>
  BY <1>1 DEF Pushed
<1>3. wire[k] \in Seq(Nat) /\ backlog \in Seq(Nat) /\ h \in Nat
  BY <1>1, <1>2, InTail DEF TypeOK
<1>4. /\ wire' \in [Connections -> Seq(Nat)] /\ backlog' \in Seq(Nat)
      /\ wire'[k] = Append(wire[k], h) /\ \A j \in Connections \ {k} : wire'[j] = wire[j]
  BY <1>2, <1>3 DEF TypeOK
<1>5. ASSUME NEW n
      PROVE  /\ Contains(wire'[k], n) <=> Contains(wire[k], n) \/ n = h
             /\ Once(wire[k], n) /\ ~(n = h /\ Contains(wire[k], n)) => Once(wire'[k], n)
             /\ Contains(backlog, n) <=> Contains(backlog', n) \/ n = h
             /\ Once(backlog, n) => Once(backlog', n) /\ ~(n = h /\ Contains(backlog', n))
  BY <1>1, <1>2, <1>3, <1>4, InAppended, InTail
<1>6. PlacedOK'
  <2> SUFFICES ASSUME NEW n, n \notin DOMAIN sent
               PROVE  ~Contains(backlog', n) /\ \A j \in Connections : ~Contains(wire'[j], n) /\ ~Contains(handled[j], n)
    BY <1>2 DEF PlacedOK
  <2>1. ~Contains(backlog, n) /\ \A j \in Connections : ~Contains(wire[j], n) /\ ~Contains(handled[j], n)
    BY DEF PlacedOK
  <2> QED BY <1>4, <1>5, <2>1
<1>7. ASSUME NEW n \in DOMAIN sent PROVE WaitsOnce(n)' /\ HandledOK(n)' /\ KeptOK(n)'
  <2>1. WaitsOnce(n) /\ HandledOK(n) /\ KeptOK(n)
    BY DEF MessagesOK
  <2>2. WaitsOnce(n)'
    BY <1>2, <1>4, <1>5, <2>1 DEF WaitsOnce, Amqp, broker
  <2>3. HandledOK(n)'
    BY <1>2, <1>4, <1>5, <2>1 DEF HandledOK, Amqp, broker
  <2>4. KeptOK(n)'
    BY <1>2, <1>4, <1>5, <2>1 DEF KeptOK, Amqp, broker
  <2> QED BY <2>2, <2>3, <2>4
<1>8. MessagesOK'
  BY <1>2, <1>7 DEF MessagesOK
<1>9. OrderOK'
  <2> SUFFICES ASSUME broker = "amqp" PROVE OrderOK'
    BY <1>2 DEF OrderOK, Amqp, broker
  <2>1. /\ Rising(backlog)
        /\ \A j \in Connections :
              /\ Rising(handled[j]) /\ Rising(wire[j])
              /\ Before(handled[j], wire[j]) /\ Before(wire[j], backlog) /\ Before(handled[j], backlog)
    BY DEF OrderOK
  <2>2. Rising(backlog') /\ \A y : Contains(backlog', y) => h < y
    BY <1>1, <1>2, <1>3, <2>1, RisingTail
  <2>3. Rising(wire'[k])
    <3>1. \A y : Contains(wire[k], y) => y < h
      BY <1>5, <2>1 DEF Before
    <3> QED BY <1>3, <1>4, <2>1, <3>1, RisingAppended
  <2>4. \A j \in Connections : Before(wire'[j], backlog') /\ Before(handled[j], backlog') /\ Before(handled[j], wire'[j])
    BY <1>4, <1>5, <2>1, <2>2 DEF Before
  <2>5. \A j \in Connections : Rising(wire'[j])
    BY <1>4, <2>1, <2>3
  <2> QED BY <1>2, <2>1, <2>2, <2>4, <2>5 DEF OrderOK
<1>10. LinkOK'
  <2>1. broker = "acked" => Len(wire'[k]) <= 1
    BY <1>2, <1>3, <1>4
  <2>2. ~arrived[k]
    BY <1>2 DEF LinkOK
  <2> QED BY <1>2, <1>4, <2>1, <2>2 DEF LinkOK, watched, Local, Amqp, broker
<1> QED BY <1>2, <1>4, <1>6, <1>8, <1>9, <1>10, MessagesMove DEF TypeOK

\* The message h at the head of the wire is taken by the listener or, by a Redis connection
\* that is not up, cut off.
LEMMA HandledKeeps == ASSUME Inv, NEW k \in Connections, Handled(k) PROVE Inv'
<1> USE DEF Inv
<1>1. PICK h : h = Head(wire[k])
  OBVIOUS
<1>2. /\ wire[k] # <<>> /\ ~arrived[k]
      /\ \/ Redis /\ cut' = cut \union {<<k, h>>} /\ handled' = handled
         \/ ~(Redis /\ phase[k] # "up") /\ handled' = [handled EXCEPT ![k] = Append(@, h)] /\ cut' = cut
      /\ \/ broker = "acked" /\ arrived' = [arrived EXCEPT ![k] = TRUE] /\ wire' = wire
         \/ broker # "acked" /\ wire' = [wire EXCEPT ![k] = Tail(@)] /\ arrived' = arrived
      /\ UNCHANGED <<load, watched, sent, backlog, again, answers>>
  BY <1>1 DEF Handled, Taken
<1>3. wire[k] \in Seq(Nat) /\ handled[k] \in Seq(Nat) /\ backlog \in Seq(Nat) /\ h \in Nat
  BY <1>1, <1>2, InTail DEF TypeOK
<1>4. Contains(wire[k], h)
  BY <1>1, <1>2, <1>3, InTail
<1>5. /\ handled' \in [Connections -> Seq(Nat)] /\ \A j \in Connections \ {k} : handled'[j] = handled[j]
      /\ \/ handled'[k] = Append(handled[k], h)
         \/ Redis /\ handled'[k] = handled[k] /\ <<k, h>> \in cut'
  <2>1. CASE Redis /\ cut' = cut \union {<<k, h>>} /\ handled' = handled
    BY <2>1 DEF TypeOK
  <2>2. CASE handled' = [handled EXCEPT ![k] = Append(@, h)]
    BY <1>3, <2>2 DEF TypeOK
  <2> QED BY <1>2, <2>1, <2>2
<1>6. ASSUME NEW n
      PROVE  /\ Contains(handled[k], n) => Contains(handled'[k], n)
             /\ Contains(handled'[k], n) => Contains(handled[k], n) \/ n = h
             /\ Contains(handled'[k], h) \/ (Redis /\ <<k, h>> \in cut')
             /\ Once(handled[k], n) /\ ~(n = h /\ Contains(handled[k], n)) => Once(handled'[k], n)
  <2>1. CASE handled'[k] = Append(handled[k], h)
    <3>1. ASSUME NEW m
          PROVE  /\ Contains(handled'[k], m) <=> Contains(handled[k], m) \/ m = h
                 /\ Once(handled[k], m) /\ ~(m = h /\ Contains(handled[k], m)) => Once(handled'[k], m)
      <4>1. /\ Contains(Append(handled[k], h), m) <=> Contains(handled[k], m) \/ m = h
            /\ Once(handled[k], m) /\ ~(m = h /\ Contains(handled[k], m)) => Once(Append(handled[k], h), m)
        BY <1>3, InAppended
      <4> QED BY <2>1, <4>1
    <3> QED BY <3>1
  <2>2. CASE Redis /\ handled'[k] = handled[k] /\ <<k, h>> \in cut'
    BY <2>2
  <2> QED BY <1>5, <2>1, <2>2
<1>7. /\ wire' \in [Connections -> Seq(Nat)] /\ \A j \in Connections \ {k} : wire'[j] = wire[j]
      /\ arrived' \in [Connections -> BOOLEAN] /\ \A j \in Connections \ {k} : arrived'[j] = arrived[j]
      /\ \/ broker = "acked" /\ arrived'[k] /\ wire'[k] = wire[k]
         \/ broker # "acked" /\ ~arrived'[k] /\ wire'[k] = Tail(wire[k])
  <2>1. CASE broker = "acked"
    BY <1>2, <2>1 DEF TypeOK
  <2>2. CASE broker # "acked"
    <3>1. Tail(wire[k]) \in Seq(Nat)
      BY <1>2, <1>3, InTail
    <3> QED BY <1>2, <2>2, <3>1 DEF TypeOK
  <2> QED BY <2>1, <2>2
<1>8. ASSUME NEW n
      PROVE  /\ Contains(wire[k], n) <=> Contains(wire'[k], n) \/ n = h
             /\ broker # "acked" /\ Once(wire[k], n) => ~(n = h /\ Contains(wire'[k], n))
             /\ Once(wire[k], n) => Once(wire'[k], n)
  <2>1. CASE broker = "acked"
    BY <1>4, <1>7, <2>1
  <2>2. CASE broker # "acked"
    <3>1. /\ Contains(wire[k], n) <=> Contains(Tail(wire[k]), n) \/ n = h
          /\ Once(wire[k], n) => Once(Tail(wire[k]), n) /\ ~(n = h /\ Contains(Tail(wire[k]), n))
      BY <1>1, <1>2, <1>3, InTail
    <3> QED BY <1>7, <2>2, <3>1
  <2> QED BY <2>1, <2>2
<1>9. PlacedOK'
  <2> SUFFICES ASSUME NEW n, n \notin DOMAIN sent
               PROVE  ~Contains(backlog, n) /\ \A j \in Connections : ~Contains(wire'[j], n) /\ ~Contains(handled'[j], n)
    BY <1>2 DEF PlacedOK
  <2>1. ~Contains(backlog, n) /\ \A j \in Connections : ~Contains(wire[j], n) /\ ~Contains(handled[j], n)
    BY DEF PlacedOK
  <2> QED BY <1>4, <1>5, <1>6, <1>7, <1>8, <2>1
<1>10. ASSUME NEW n \in DOMAIN sent PROVE WaitsOnce(n)' /\ HandledOK(n)' /\ KeptOK(n)'
  <2>1. WaitsOnce(n) /\ HandledOK(n) /\ KeptOK(n)
    BY DEF MessagesOK
  <2>2. WaitsOnce(n)'
    BY <1>2, <1>7, <1>8, <2>1 DEF WaitsOnce, Amqp, broker
  <2>3. HandledOK(n)'
    <3> SUFFICES ASSUME n \notin again PROVE HandledOK(n)'
      BY <1>2 DEF HandledOK
    <3>1. n = h => ~Contains(handled[k], n) /\ ~Contains(backlog, n)
      BY <1>2, <1>4, <2>1 DEF HandledOK, WaitsOnce
    <3>2. \A j \in Connections : Once(handled'[j], n) /\ ~(Contains(backlog, n) /\ Contains(handled'[j], n))
      BY <1>5, <1>6, <2>1, <3>1 DEF HandledOK
    <3>3. \A j \in Connections : Contains(wire'[j], n) /\ Contains(handled'[j], n) => arrived'[j]
      <4>1. \A j \in Connections : Contains(wire[j], n) /\ Contains(handled[j], n) => arrived[j]
        BY <2>1 DEF HandledOK
      <4>2. Once(wire[k], n)
        BY <2>1 DEF WaitsOnce
      <4>3. Contains(wire'[k], n) /\ Contains(handled'[k], n) => arrived'[k]
        BY <1>2, <1>6, <1>7, <1>8, <4>1, <4>2
      <4> QED BY <1>5, <1>7, <4>1, <4>3
    <3>4. Amqp /\ n = h => \A j \in Connections \ {k} : ~Contains(wire[j], n) /\ ~Contains(handled[j], n)
      BY <1>4, <2>1 DEF HandledOK, WaitsOnce
    <3>5. Amqp => \A i, j \in Connections :
              Contains(handled'[j], n) /\ (Contains(wire'[i], n) \/ Contains(handled'[i], n)) => i = j
      BY <1>5, <1>6, <1>7, <1>8, <2>1, <3>1, <3>4 DEF HandledOK
    <3> QED BY <1>2, <3>2, <3>3, <3>5 DEF HandledOK, Amqp, broker
  <2>4. KeptOK(n)'
    <3>1. \A j \in Connections : Contains(wire[j], n) =>
              Contains(wire'[j], n) \/ Contains(handled'[j], n) \/ (Redis /\ <<j, n>> \in cut')
      BY <1>6, <1>7, <1>8
    <3>2. \A j \in Connections : Contains(handled[j], n) => Contains(handled'[j], n)
      BY <1>5, <1>6
    <3>3. cut \subseteq cut'
      BY <1>2
    <3>4. CASE Amqp
      BY <1>2, <2>1, <3>1, <3>2, <3>3, <3>4 DEF KeptOK, Amqp, Redis, broker
    <3>5. CASE ~Amqp
      <4> SUFFICES ASSUME NEW j \in sent[n].meant
                   PROVE  Contains(wire'[j], n) \/ Contains(handled'[j], n) \/ <<j, n>> \in cut'
        BY <1>2, <3>5 DEF KeptOK, Amqp, broker
      <4>1. j \in Connections
        BY SentTyped
      <4> QED BY <2>1, <3>1, <3>2, <3>3, <3>5, <4>1 DEF KeptOK
    <3> QED BY <3>4, <3>5
  <2> QED BY <2>2, <2>3, <2>4
<1>11. MessagesOK'
  BY <1>2, <1>10 DEF MessagesOK
<1>12. OrderOK'
  <2> SUFFICES ASSUME broker \in {"amqp", "redis"} PROVE OrderOK'
    BY <1>2 DEF OrderOK, broker
  <2>1. /\ Rising(backlog)
        /\ \A j \in Connections :
              /\ Rising(handled[j]) /\ Rising(wire[j])
              /\ Before(handled[j], wire[j]) /\ Before(wire[j], backlog) /\ Before(handled[j], backlog)
    BY DEF OrderOK
  <2>2. Rising(wire'[k]) /\ \A y : Contains(wire'[k], y) => h < y
    BY <1>1, <1>2, <1>3, <1>7, <2>1, RisingTail
  <2>3. Rising(handled'[k])
    <3>1. \A y : Contains(handled[k], y) => y < h
      BY <1>4, <2>1 DEF Before
    <3> QED BY <1>3, <1>5, <2>1, <3>1, RisingAppended
  <2>4. \A j \in Connections : Before(wire'[j], backlog) /\ Before(handled'[j], backlog) /\ Before(handled'[j], wire'[j])
    BY <1>4, <1>5, <1>6, <1>7, <1>8, <2>1, <2>2 DEF Before
  <2>5. \A j \in Connections : Rising(wire'[j]) /\ Rising(handled'[j])
    BY <1>5, <1>7, <2>1, <2>2, <2>3
  <2> QED BY <1>2, <2>1, <2>4, <2>5 DEF OrderOK
<1>13. LinkOK'
  <2>1. broker = "acked" => Contains(handled'[k], h)
    BY <1>6 DEF Redis
  <2> QED BY <1>1, <1>2, <1>5, <1>7, <2>1 DEF LinkOK, watched, Local, Amqp, broker
<1>14. cut \subseteq cut' /\ cut' \subseteq Connections \X Nat
  BY <1>2, <1>3 DEF TypeOK
<1> QED BY <1>2, <1>5, <1>7, <1>9, <1>11, <1>12, <1>13, <1>14, MessagesMove DEF TypeOK

\* What is settled was handled.
LEMMA SettledKeeps == ASSUME Inv, NEW k \in Connections, Settled(k) PROVE Inv'
<1> USE DEF Inv
<1>1. /\ arrived[k] /\ wire' = [wire EXCEPT ![k] = <<>>] /\ arrived' = [arrived EXCEPT ![k] = FALSE]
      /\ UNCHANGED <<load, watched, sent, backlog, handled, cut, again, answers>>
  BY DEF Settled
<1>2. broker = "acked" /\ wire[k] # <<>> /\ Contains(handled[k], Head(wire[k])) /\ Len(wire[k]) <= 1
  BY <1>1 DEF LinkOK
<1>3. \A n : Contains(wire[k], n) => Contains(handled[k], n)
  <2>1. wire[k] \in Seq(Nat)
    BY DEF TypeOK
  <2>2. \A i \in 1 .. Len(wire[k]) : wire[k][i] = Head(wire[k])
    BY <1>2, <2>1
  <2> QED BY <1>2, <2>2 DEF Contains
<1>4. /\ wire' \in [Connections -> Seq(Nat)] /\ arrived' \in [Connections -> BOOLEAN]
      /\ wire'[k] = <<>> /\ ~arrived'[k]
      /\ \A j \in Connections \ {k} : wire'[j] = wire[j] /\ arrived'[j] = arrived[j]
  BY <1>1 DEF TypeOK
<1>5. \A n : ~Contains(wire'[k], n) /\ Once(wire'[k], n)
  BY <1>4, NothingIn
<1>6. PlacedOK'
  BY <1>1, <1>4, <1>5 DEF PlacedOK
<1>7. ASSUME NEW n \in DOMAIN sent PROVE WaitsOnce(n)' /\ HandledOK(n)' /\ KeptOK(n)'
  <2>1. WaitsOnce(n) /\ HandledOK(n) /\ KeptOK(n)
    BY DEF MessagesOK
  <2>2. WaitsOnce(n)'
    BY <1>1, <1>4, <1>5, <2>1 DEF WaitsOnce, Amqp, broker
  <2>3. HandledOK(n)'
    BY <1>1, <1>4, <1>5, <2>1 DEF HandledOK, Amqp, broker
  <2>4. KeptOK(n)'
    BY <1>1, <1>2, <1>3, <1>4, <2>1 DEF KeptOK, Amqp, broker
  <2> QED BY <2>2, <2>3, <2>4
<1>8. MessagesOK'
  BY <1>1, <1>7 DEF MessagesOK
<1>9. OrderOK'
  BY <1>1, <1>2 DEF OrderOK, broker
<1>10. LinkOK'
  <2>1. Len(<<>>) <= 1
    OBVIOUS
  <2> QED BY <1>1, <1>4, <2>1 DEF LinkOK, watched, Local, Amqp, broker
<1> QED BY <1>1, <1>4, <1>6, <1>8, <1>9, <1>10, MessagesMove DEF TypeOK

------------------------------------------------------------------------------
(* Something is published. *)

\* The message n = q is appended to the queue of AMQP, or to the wire of some connections, or
\* handed to a listener of the bus.
Sends(n, q) ==
    /\ n = Len(sent) + 1 /\ q \in Sendings /\ sent' = Append(sent, q)
    /\ backlog' = IF Amqp THEN Append(backlog, n) ELSE backlog
    /\ \A k \in Connections :
          \/ /\ wire'[k] = wire[k] /\ handled'[k] = handled[k]
             /\ ~Amqp => k \notin q.meant
          \/ /\ wire'[k] = Append(wire[k], n) /\ handled'[k] = handled[k]
             /\ ~Amqp
          \/ /\ wire'[k] = wire[k] /\ handled'[k] = Append(handled[k], n)
             /\ Local
    /\ wire' \in [Connections -> Seq(Nat)] /\ handled' \in [Connections -> Seq(Nat)]
    /\ UNCHANGED <<load, arrived, cut, again>>

LEMMA PublicationSends ==
    ASSUME TypeOK, LinkOK, NEW of \in Nat, NEW metadata, Decoded(metadata) \in Metadata, NEW deferred \in BOOLEAN,
           Publication(of, metadata, deferred), UNCHANGED load
    PROVE  \E n, q : Sends(n, q) /\ q.metadata = Decoded(metadata) /\ q.of = of
<1>1. PICK n : n = Len(sent) + 1
  OBVIOUS
<1>2. PICK reached : reached = CASE Redis -> {k \in Connections : phase[k] \in {"linked", "up"}}
                                 [] Local -> {k \in Connections : phase[k] = "up"}
                                 [] OTHER -> {}
  OBVIOUS
<1>3. PICK now \in BOOLEAN : now <=> Local /\ ~deferred /\ reached # {}
  OBVIOUS
<1>4. PICK q : q = [of |-> of, metadata |-> Decoded(metadata), meant |-> {k \in reached : phase[k] = "up"}]
  OBVIOUS
<1>5. /\ sent' = Append(sent, q)
      /\ backlog' = IF Amqp THEN Append(backlog, n) ELSE backlog
      /\ wire' = [k \in Connections |-> IF k \in reached /\ ~now THEN Append(wire[k], n) ELSE wire[k]]
      /\ IF now THEN \E k \in reached : handled' = [handled EXCEPT ![k] = Append(@, n)] ELSE handled' = handled
      /\ UNCHANGED <<arrived, cut, again>>
  BY <1>1, <1>2, <1>3, <1>4 DEF Publication, Taken
<1>6. reached \subseteq Connections /\ n \in Nat
  BY <1>1, <1>2 DEF TypeOK
<1>7. /\ Amqp => reached = {}
      /\ Local => \A j, k \in reached : phase[j] = "up" /\ j = k
  <2>1. Amqp => reached = {}
    BY <1>2 DEF Amqp, Redis, Local
  <2>2. ASSUME Local PROVE reached = {k \in Connections : phase[k] = "up"}
    BY <1>2, <2>2 DEF Redis, Local
  <2> QED BY <2>1, <2>2, Kinds DEF LinkOK
<1>8. q \in Sendings /\ q.metadata = Decoded(metadata) /\ q.of = of /\ q.meant \subseteq reached
  BY <1>4, <1>6 DEF Sendings
<1>9. wire' \in [Connections -> Seq(Nat)] /\ handled' \in [Connections -> Seq(Nat)]
  <2>1. \A k \in Connections : wire[k] \in Seq(Nat) /\ handled[k] \in Seq(Nat)
    BY DEF TypeOK
  <2>2. \A k \in Connections : Append(wire[k], n) \in Seq(Nat) /\ Append(handled[k], n) \in Seq(Nat)
    BY <1>6, <2>1
  <2>3. wire' \in [Connections -> Seq(Nat)]
    BY <1>5, <2>1, <2>2
  <2>4. handled' \in [Connections -> Seq(Nat)]
    <3>1. CASE now
      <4>1. PICK k \in Connections : handled' = [handled EXCEPT ![k] = Append(@, n)]
        BY <1>5, <1>6, <3>1
      <4>2. handled' = [handled EXCEPT ![k] = Append(handled[k], n)]
        BY <4>1
      <4> QED BY <2>2, <4>2 DEF TypeOK
    <3>2. CASE ~now
      BY <1>5, <3>2 DEF TypeOK
    <3> QED BY <3>1, <3>2
  <2> QED BY <2>3, <2>4
<1>10. ASSUME NEW k \in Connections
       PROVE  \/ wire'[k] = wire[k] /\ handled'[k] = handled[k] /\ (~Amqp => k \notin q.meant)
              \/ wire'[k] = Append(wire[k], n) /\ handled'[k] = handled[k] /\ ~Amqp
              \/ wire'[k] = wire[k] /\ handled'[k] = Append(handled[k], n) /\ Local
  <2>1. CASE k \notin reached
    <3>1. handled'[k] = handled[k]
      BY <1>5, <1>6, <2>1 DEF TypeOK
    <3> QED BY <1>5, <1>8, <2>1, <3>1
  <2>2. CASE k \in reached /\ ~now
    BY <1>5, <1>7, <2>2
  <2>3. CASE k \in reached /\ now
    <3>1. PICK j \in reached : handled' = [handled EXCEPT ![j] = Append(@, n)]
      BY <1>5, <2>3
    <3>2. j = k /\ Local
      BY <1>3, <1>7, <2>3
    <3>3. handled'[k] = Append(handled[k], n)
      BY <3>1, <3>2 DEF TypeOK
    <3> QED BY <1>5, <2>3, <3>2, <3>3
  <2> QED BY <2>1, <2>2, <2>3
<1>11. Sends(n, q)
  BY <1>1, <1>5, <1>8, <1>9, <1>10 DEF Sends
<1> QED BY <1>8, <1>11

\* What is new is nowhere before it is published, and then in one place at each connection.
LEMMA SentAppears ==
    ASSUME Inv, NEW n, NEW q, Sends(n, q)
    PROVE  /\ n \in Nat /\ n \notin DOMAIN sent /\ DOMAIN sent' = DOMAIN sent \union {n} /\ sent' \in Seq(Sendings)
           /\ sent'[n] = q /\ \A m \in DOMAIN sent : sent'[m] = sent[m] /\ m \in Nat /\ m < n
           /\ ~Contains(backlog, n) /\ \A k \in Connections : ~Contains(wire[k], n) /\ ~Contains(handled[k], n)
<1>1. n = Len(sent) + 1 /\ q \in Sendings /\ sent' = Append(sent, q) /\ sent \in Seq(Sendings)
  BY DEF Sends, Inv, TypeOK
<1>2. /\ Len(sent) \in Nat /\ n \in Nat /\ DOMAIN sent = 1 .. Len(sent) /\ DOMAIN sent' = 1 .. n /\ sent' \in Seq(Sendings)
      /\ sent'[n] = q /\ \A m \in 1 .. Len(sent) : sent'[m] = sent[m]
  BY <1>1
<1>3. n \notin DOMAIN sent
  BY <1>1, <1>2
<1>4. ~Contains(backlog, n) /\ \A k \in Connections : ~Contains(wire[k], n) /\ ~Contains(handled[k], n)
  BY <1>3 DEF Inv, PlacedOK
<1>5. \A m \in DOMAIN sent : m \in Nat /\ m < n
  BY <1>1, <1>2
<1>6. DOMAIN sent' = DOMAIN sent \union {n}
  BY <1>1, <1>2
<1> QED BY <1>2, <1>3, <1>4, <1>5, <1>6

\* Where the messages are after one was published.
LEMMA SentPlaces ==
    ASSUME Inv, NEW n, NEW q, Sends(n, q), NEW m, NEW k \in Connections
    PROVE  /\ m # n => /\ Contains(backlog', m) <=> Contains(backlog, m)
                       /\ Contains(wire'[k], m) <=> Contains(wire[k], m)
                       /\ Contains(handled'[k], m) <=> Contains(handled[k], m)
           /\ Once(backlog, m) => Once(backlog', m)
           /\ Once(wire[k], m) => Once(wire'[k], m)
           /\ Once(handled[k], m) => Once(handled'[k], m)
           /\ ~(Contains(wire'[k], n) /\ Contains(handled'[k], n))
           /\ Amqp => Contains(backlog', n) /\ wire'[k] = wire[k] /\ handled'[k] = handled[k]
           /\ ~Amqp => /\ backlog' = backlog
                       /\ k \in q.meant => Contains(wire'[k], n) \/ Contains(handled'[k], n)
<1>1. /\ n \in Nat /\ ~Contains(backlog, n) /\ ~Contains(wire[k], n) /\ ~Contains(handled[k], n)
      /\ backlog \in Seq(Nat) /\ wire[k] \in Seq(Nat) /\ handled[k] \in Seq(Nat)
  BY SentAppears DEF Inv, TypeOK
<1>2. ASSUME NEW s \in Seq(Nat), ~Contains(s, n), NEW l
      PROVE  /\ l # n => (Contains(Append(s, n), l) <=> Contains(s, l))
             /\ Once(s, l) => Once(Append(s, n), l)
             /\ Contains(Append(s, n), n)
  <2>1. /\ Contains(Append(s, n), l) <=> Contains(s, l) \/ l = n
        /\ Once(s, l) /\ ~(l = n /\ Contains(s, l)) => Once(Append(s, n), l)
    BY <1>1, InAppended
  <2>2. Contains(Append(s, n), n)
    BY <1>1, InAppended
  <2> QED BY <1>2, <2>1, <2>2
<1>3. /\ m # n => (Contains(backlog', m) <=> Contains(backlog, m))
      /\ Once(backlog, m) => Once(backlog', m)
      /\ Amqp => Contains(backlog', n)
      /\ ~Amqp => backlog' = backlog
  BY <1>1, <1>2 DEF Sends
<1>4. CASE wire'[k] = wire[k] /\ handled'[k] = handled[k] /\ (~Amqp => k \notin q.meant)
  BY <1>1, <1>3, <1>4
<1>5. CASE wire'[k] = Append(wire[k], n) /\ handled'[k] = handled[k] /\ ~Amqp
  BY <1>1, <1>2, <1>3, <1>5
<1>6. CASE wire'[k] = wire[k] /\ handled'[k] = Append(handled[k], n) /\ Local
  <2>1. ~Amqp
    BY <1>6 DEF Amqp, Local
  <2> QED BY <1>1, <1>2, <1>3, <1>6, <2>1
<1> QED BY <1>4, <1>5, <1>6 DEF Sends

LEMMA SendsKeeps ==
    ASSUME Inv, NEW n, NEW q, Sends(n, q), phase' = phase,
           q.metadata \in {NoMetadata, Request(n), [replyTo |-> Own, id |-> Fresh], [replyTo |-> Fresh, id |-> Fresh]},
           broker = "acked" => q.of = 0
    PROVE  /\ sent' \in Seq(Sendings) /\ backlog' \in Seq(Nat)
           /\ LinkOK' /\ PlacedOK' /\ MessagesOK' /\ OrderOK' /\ SentOK'
<1> USE DEF Inv
<1>1. /\ n \in Nat /\ n \notin DOMAIN sent /\ DOMAIN sent' = DOMAIN sent \union {n} /\ sent' \in Seq(Sendings)
      /\ sent'[n] = q /\ \A m \in DOMAIN sent : sent'[m] = sent[m] /\ m \in Nat /\ m < n
      /\ ~Contains(backlog, n) /\ \A k \in Connections : ~Contains(wire[k], n) /\ ~Contains(handled[k], n)
  BY SentAppears
<1>2. UNCHANGED <<load, arrived, cut, again>>
  BY DEF Sends
<1>3. ASSUME NEW m, NEW k \in Connections
      PROVE  /\ m # n => /\ Contains(backlog', m) <=> Contains(backlog, m)
                         /\ Contains(wire'[k], m) <=> Contains(wire[k], m)
                         /\ Contains(handled'[k], m) <=> Contains(handled[k], m)
             /\ Once(backlog, m) => Once(backlog', m)
             /\ Once(wire[k], m) => Once(wire'[k], m)
             /\ Once(handled[k], m) => Once(handled'[k], m)
             /\ ~(Contains(wire'[k], n) /\ Contains(handled'[k], n))
             /\ Amqp => Contains(backlog', n) /\ wire'[k] = wire[k] /\ handled'[k] = handled[k]
             /\ ~Amqp => /\ backlog' = backlog
                         /\ k \in q.meant => Contains(wire'[k], n) \/ Contains(handled'[k], n)
  BY SentPlaces
<1>4. /\ backlog \in Seq(Nat) /\ backlog' \in Seq(Nat)
      /\ \A m : /\ m # n => (Contains(backlog', m) <=> Contains(backlog, m))
                /\ Once(backlog, m) => Once(backlog', m)
      /\ Amqp => Contains(backlog', n) /\ backlog' = Append(backlog, n)
      /\ ~Amqp => backlog' = backlog
  <2>1. backlog \in Seq(Nat) /\ backlog' = IF Amqp THEN Append(backlog, n) ELSE backlog
    BY DEF Sends, TypeOK
  <2>2. \A m : /\ Contains(Append(backlog, n), m) <=> Contains(backlog, m) \/ m = n
               /\ Once(backlog, m) => Once(Append(backlog, n), m)
    BY <1>1, <2>1, InAppended
  <2>3. Append(backlog, n) \in Seq(Nat)
    BY <1>1, <2>1
  <2> QED BY <2>1, <2>2, <2>3
<1>5. \A m \in DOMAIN sent : m # n
  BY <1>1
<1>6. PlacedOK'
  <2> SUFFICES ASSUME NEW m, m \notin DOMAIN sent'
               PROVE  ~Contains(backlog', m) /\ \A k \in Connections : ~Contains(wire'[k], m) /\ ~Contains(handled'[k], m)
    BY DEF PlacedOK
  <2>1. m # n /\ m \notin DOMAIN sent
    BY <1>1
  <2>2. ~Contains(backlog, m) /\ \A k \in Connections : ~Contains(wire[k], m) /\ ~Contains(handled[k], m)
    BY <2>1 DEF PlacedOK
  <2> QED BY <1>3, <1>4, <2>1, <2>2
<1>7. ASSUME NEW m \in DOMAIN sent PROVE WaitsOnce(m)' /\ HandledOK(m)' /\ KeptOK(m)'
  <2>1. WaitsOnce(m) /\ HandledOK(m) /\ KeptOK(m) /\ m # n
    BY <1>5 DEF MessagesOK
  <2>2. WaitsOnce(m)'
    BY <1>2, <1>3, <1>4, <2>1 DEF WaitsOnce, Amqp, broker
  <2>3. HandledOK(m)'
    BY <1>2, <1>3, <1>4, <2>1 DEF HandledOK, Amqp, broker
  <2>4. KeptOK(m)'
    <3>1. sent'[m] = sent[m] /\ sent[m].meant \subseteq Connections
      BY <1>1, SentTyped
    <3>2. \A k \in Connections : /\ Contains(wire'[k], m) <=> Contains(wire[k], m)
                                 /\ Contains(handled'[k], m) <=> Contains(handled[k], m)
      BY <1>3, <2>1
    <3>3. Contains(backlog', m) <=> Contains(backlog, m)
      BY <1>4, <2>1
    <3>4. (Amqp' <=> Amqp) /\ broker' = broker /\ cut' = cut
      BY <1>2 DEF Amqp, broker
    <3>5. CASE Amqp
      BY <2>1, <3>2, <3>3, <3>4, <3>5 DEF KeptOK
    <3>6. CASE ~Amqp
      BY <2>1, <3>1, <3>2, <3>4, <3>6 DEF KeptOK
    <3> QED BY <3>5, <3>6
  <2> QED BY <2>2, <2>3, <2>4
<1>8. WaitsOnce(n)' /\ HandledOK(n)' /\ KeptOK(n)'
  <2>1. Once(backlog, n) /\ \A k \in Connections : Once(wire[k], n) /\ Once(handled[k], n)
    BY <1>1 DEF Once, Contains
  <2>2. WaitsOnce(n)'
    BY <1>1, <1>2, <1>3, <1>4, <2>1 DEF WaitsOnce, Amqp, broker
  <2>3. HandledOK(n)'
    BY <1>1, <1>2, <1>3, <1>4, <2>1 DEF HandledOK, Amqp, broker
  <2>4. KeptOK(n)'
    <3>1. q.meant \subseteq Connections
      BY DEF Sends, Sendings
    <3> QED BY <1>1, <1>2, <1>3, <1>4, <3>1 DEF KeptOK, Amqp, broker
  <2> QED BY <2>2, <2>3, <2>4
<1>9. MessagesOK'
  BY <1>1, <1>7, <1>8 DEF MessagesOK
<1>10. OrderOK'
  <2> SUFFICES ASSUME broker \in {"amqp", "redis"} PROVE OrderOK'
    BY <1>2 DEF OrderOK, broker
  <2>1. /\ Rising(backlog)
        /\ \A k \in Connections :
              /\ Rising(handled[k]) /\ Rising(wire[k])
              /\ Before(handled[k], wire[k]) /\ Before(wire[k], backlog) /\ Before(handled[k], backlog)
    BY DEF OrderOK
  <2>2. \A m : /\ Contains(backlog, m) => m < n
               /\ \A k \in Connections : Contains(wire[k], m) \/ Contains(handled[k], m) => m < n
    BY <1>1 DEF PlacedOK
  <2>3. CASE broker = "amqp"
    <3>1. Amqp /\ backlog' = Append(backlog, n) /\ \A k \in Connections : wire'[k] = wire[k] /\ handled'[k] = handled[k]
      BY <1>3, <1>4, <2>3 DEF Amqp
    <3>2. Rising(backlog')
      BY <1>1, <1>4, <2>1, <2>2, <3>1, RisingAppended
    <3>3. \A k \in Connections : Before(wire[k], backlog') /\ Before(handled[k], backlog')
      BY <1>4, <2>1, <2>2 DEF Before
    <3> QED BY <2>1, <3>1, <3>2, <3>3 DEF OrderOK
  <2>4. CASE broker = "redis"
    <3>1. ~Amqp /\ ~Local
      BY <2>4 DEF Amqp, Local
    <3>2. backlog' = backlog /\ \A m : ~Contains(backlog, m)
      BY <1>4, <3>1, NothingIn DEF LinkOK
    <3>3. \A k \in Connections : handled'[k] = handled[k] /\ (wire'[k] = wire[k] \/ wire'[k] = Append(wire[k], n))
      BY <3>1 DEF Sends
    <3>4. \A k \in Connections : Rising(wire'[k])
      <4> SUFFICES ASSUME NEW k \in Connections PROVE Rising(Append(wire[k], n))
        BY <2>1, <3>3
      <4>1. wire[k] \in Seq(Nat) /\ Rising(wire[k]) /\ \A m : Contains(wire[k], m) => m < n
        BY <2>1, <2>2 DEF TypeOK
      <4> QED BY <1>1, <4>1, RisingAppended
    <3>5. \A k \in Connections : Before(handled'[k], wire'[k])
      BY <1>3, <2>1, <2>2, <3>3 DEF Before
    <3> QED BY <2>1, <3>2, <3>3, <3>4, <3>5 DEF OrderOK, Before
  <2> QED BY <2>3, <2>4
<1>11. SentOK'
  <2>1. ASSUME NEW m \in DOMAIN sent'
        PROVE  /\ sent'[m].metadata \in {NoMetadata, Request(m), [replyTo |-> Own, id |-> Fresh],
                                         [replyTo |-> Fresh, id |-> Fresh]}
               /\ broker = "acked" => sent'[m].of = 0
    BY <1>1 DEF SentOK
  <2> QED BY <1>2, <2>1 DEF SentOK, broker, Request
<1>12. LinkOK'
  <2>1. ASSUME NEW k \in Connections, arrived[k]
        PROVE  wire'[k] = wire[k] /\ handled'[k] = handled[k]
    BY <1>3, <2>1 DEF LinkOK, Amqp
  <2>2. broker = "acked" => \A k \in Connections : wire'[k] = wire[k]
    BY <1>3 DEF Amqp
  <2> QED BY <1>2, <1>4, <2>1, <2>2 DEF LinkOK, Local, Amqp, broker
<1> QED BY <1>1, <1>4, <1>6, <1>9, <1>10, <1>11, <1>12

\* An answer goes to the request it answers, to the server's channel, or to nobody.
LEMMA Destinations ==
    ASSUME Inv, NEW n \in DOMAIN sent
    PROVE  /\ Destination(n) \in {[replyTo |-> Own, id |-> Fresh], [replyTo |-> Fresh, id |-> Fresh],
                                  [replyTo |-> Unknown, id |-> Fresh], Request(n)}
           /\ sent[n].metadata = Request(n) /\ style # "bare" => Destination(n) = Request(n)
           /\ n \in Nat \ {0}
<1> USE DEF Inv, None, Fresh, Own, Unknown
<1>1. n \in Nat \ {0}
  BY DEF TypeOK
<1>2. PICK metadata : metadata = sent[n].metadata
  OBVIOUS
<1>3. PICK applied : applied = IdApplied(metadata)
  OBVIOUS
<1>4. Destination(n) = OutputRouted(Answered(applied)) /\ style \in {"spread", "bare", "reply", "redirect"}
  BY <1>2, <1>3 DEF Destination, TypeOK, Styles
<1>5. ASSUME NEW r \in Int, NEW i \in Int, metadata = [replyTo |-> r, id |-> i]
      PROVE  applied = [replyTo |-> r, id |-> IF i = 0 THEN -1 ELSE i]
  BY <1>3, <1>5 DEF IdApplied
<1>6. ASSUME NEW r \in Int, NEW i \in Int, i # 0, applied = [replyTo |-> r, id |-> i]
      PROVE  /\ style = "spread" => Destination(n) = [replyTo |-> IF r = 0 THEN -2 ELSE r, id |-> i]
             /\ style = "bare" => Destination(n) = [replyTo |-> -2, id |-> -1]
             /\ style = "reply" => Destination(n) = [replyTo |-> IF r = 0 THEN -3 ELSE r, id |-> i]
             /\ style = "redirect" => Destination(n) = [replyTo |-> IF r = 0 THEN -2 ELSE r, id |-> i]
  <2>1. CASE style = "spread"
    BY <1>4, <1>6, <2>1 DEF Answered, OutputRouted
  <2>2. CASE style = "bare"
    BY <1>4, <2>2 DEF Answered, OutputRouted, NoMetadata
  <2>3. CASE style = "reply"
    <3>1. Answered(applied) = [replyTo |-> IF r = 0 THEN -3 ELSE r, id |-> i]
      BY <1>6, <2>3 DEF Answered, ComposeMetadata, NoMetadata
    <3> QED BY <1>4, <1>6, <2>3, <3>1 DEF OutputRouted
  <2>4. CASE style = "redirect"
    <3>1. Answered(applied) = [replyTo |-> IF r = 0 THEN -2 ELSE r, id |-> i]
      BY <1>6, <2>4 DEF Answered, ComposeMetadata
    <3> QED BY <1>4, <1>6, <2>4, <3>1 DEF OutputRouted
  <2> QED BY <1>4, <2>1, <2>2, <2>3, <2>4
<1>7. CASE metadata = Request(n)
  <2>1. applied = [replyTo |-> n, id |-> n]
    BY <1>1, <1>5, <1>7 DEF Request
  <2> QED BY <1>1, <1>2, <1>4, <1>6, <2>1 DEF Request
<1>8. CASE metadata = NoMetadata
  <2>1. applied = [replyTo |-> 0, id |-> -1] /\ metadata # Request(n)
    BY <1>1, <1>5, <1>8 DEF Request, NoMetadata
  <2> QED BY <1>1, <1>2, <1>4, <1>6, <2>1
<1>9. CASE metadata = [replyTo |-> Own, id |-> Fresh] \/ metadata = [replyTo |-> Fresh, id |-> Fresh]
  <2>1. /\ applied = [replyTo |-> -2, id |-> -1] \/ applied = [replyTo |-> -1, id |-> -1]
        /\ metadata # Request(n)
    BY <1>1, <1>5, <1>9 DEF Request
  <2> QED BY <1>1, <1>2, <1>4, <1>6, <2>1
<1> QED BY <1>2, <1>7, <1>8, <1>9 DEF SentOK

\* Metadata of what is published keep their kind on the way.
LEMMA DecodedKinds ==
    ASSUME NEW n \in Nat
    PROVE  /\ Decoded(NoMetadata) = NoMetadata /\ Decoded(Request(n)) = Request(n)
           /\ Decoded([replyTo |-> Own, id |-> Fresh]) \in
                 {[replyTo |-> Own, id |-> Fresh], [replyTo |-> Fresh, id |-> Fresh]}
           /\ {NoMetadata, Request(n), [replyTo |-> Own, id |-> Fresh], [replyTo |-> Fresh, id |-> Fresh]} \subseteq Metadata
BY DEF Decoded, NoMetadata, Request, Own, Fresh, None, Metadata

\* An answer that is carried to its address is sent to the channel, or has come to its request.
LEMMA CarriedKeeps ==
    ASSUME Inv, NEW k \in Connections, NEW answer, UnsentOK(answer), Carried(k, answer), UNCHANGED <<load, watched>>
    PROVE  /\ sent' \in Seq(Sendings) /\ backlog' \in Seq(Nat)
           /\ wire' \in [Connections -> Seq(Nat)] /\ handled' \in [Connections -> Seq(Nat)]
           /\ UNCHANGED <<arrived, cut, again>>
           /\ LinkOK' /\ PlacedOK' /\ MessagesOK' /\ OrderOK' /\ SentOK'
           /\ \A n \in DOMAIN sent : n \in DOMAIN sent' /\ sent'[n] = sent[n]
           /\ replied \subseteq replied' /\ replied' \subseteq [by : Connections, of : Nat, metadata : Metadata]
           /\ \A r \in replied' : r.metadata = Request(r.of)
           /\ sent[answer.of].metadata = Request(answer.of) /\ style # "bare" =>
                 \E r \in replied' : r.by = k /\ r.of = answer.of
<1> USE DEF Inv
<1>1. PICK of \in DOMAIN sent : of = answer.of
  BY DEF UnsentOK
<1>2. PICK metadata : metadata = answer.metadata
  OBVIOUS
<1>3. /\ metadata = Destination(of) /\ of \in Nat \ {0}
      /\ metadata \in {[replyTo |-> Own, id |-> Fresh], [replyTo |-> Fresh, id |-> Fresh],
                       [replyTo |-> Unknown, id |-> Fresh], Request(of)}
      /\ sent[of].metadata = Request(of) /\ style # "bare" => metadata = Request(of)
      /\ broker = "acked" => metadata.replyTo # Own
  BY <1>1, <1>2, Destinations DEF UnsentOK
<1>4. CASE metadata.replyTo = Own
  <2>1. metadata = [replyTo |-> Own, id |-> Fresh] /\ metadata # Request(of)
    BY <1>3, <1>4 DEF Request, Own, Fresh, Unknown
  <2>2. Publication(of, metadata, FALSE) /\ replied' = replied
    BY <1>1, <1>2, <1>4 DEF Carried
  <2>3. Decoded(metadata) \in {[replyTo |-> Own, id |-> Fresh], [replyTo |-> Fresh, id |-> Fresh]}
        /\ Decoded(metadata) \in Metadata
    BY <1>3, <2>1, DecodedKinds
  <2>4. PICK n, q : Sends(n, q) /\ q.metadata = Decoded(metadata) /\ q.of = of
    BY <1>3, <2>2, <2>3, PublicationSends
  <2>5. /\ sent' \in Seq(Sendings) /\ backlog' \in Seq(Nat)
        /\ LinkOK' /\ PlacedOK' /\ MessagesOK' /\ OrderOK' /\ SentOK'
    BY <1>3, <1>4, <2>3, <2>4, SendsKeeps DEF watched
  <2>6. \A m \in DOMAIN sent : m \in DOMAIN sent' /\ sent'[m] = sent[m]
    BY <2>4, SentAppears
  <2>7. /\ wire' \in [Connections -> Seq(Nat)] /\ handled' \in [Connections -> Seq(Nat)]
        /\ UNCHANGED <<arrived, cut, again>>
    BY <2>4 DEF Sends
  <2> QED BY <1>1, <1>3, <2>1, <2>2, <2>5, <2>6, <2>7 DEF TypeOK, AnswersOK
<1>5. CASE metadata.replyTo # Own
  <2>1. /\ UNCHANGED <<sent, backlog, wire, arrived, handled, cut, again>>
        /\ replied' = IF metadata.replyTo < 0 THEN replied
                      ELSE replied \union {[by |-> k, of |-> of, metadata |-> metadata]}
    BY <1>1, <1>2, <1>5 DEF Carried
  <2>2. /\ metadata.replyTo < 0 => metadata # Request(of)
        /\ ~(metadata.replyTo < 0) => metadata = Request(of)
    BY <1>3 DEF Request, Own, Fresh, Unknown
  <2>3. PlacedOK' /\ MessagesOK' /\ OrderOK' /\ SentOK'
    BY <2>1, TrafficRests DEF traffic
  <2>4. LinkOK'
    BY <2>1 DEF LinkOK, watched, Local, Amqp, broker
  <2>5. replied \subseteq [by : Connections, of : Nat, metadata : Metadata] /\ \A r \in replied : r.metadata = Request(r.of)
    BY DEF TypeOK, AnswersOK
  <2>6. CASE metadata.replyTo < 0
    BY <1>1, <1>3, <2>1, <2>2, <2>3, <2>4, <2>5, <2>6 DEF TypeOK
  <2>7. CASE ~(metadata.replyTo < 0)
    <3>1. PICK r : r = [by |-> k, of |-> of, metadata |-> metadata]
      OBVIOUS
    <3>2. /\ r \in [by : Connections, of : Nat, metadata : Metadata] /\ r.by = k /\ r.of = of
          /\ r.metadata = Request(r.of)
      BY <1>3, <2>2, <2>7, <3>1, DecodedKinds
    <3>3. replied' = replied \union {r}
      BY <2>1, <2>7, <3>1
    <3> QED BY <1>1, <2>1, <2>3, <2>4, <2>5, <3>2, <3>3 DEF TypeOK
  <2> QED BY <2>6, <2>7
<1> QED BY <1>4, <1>5

LEMMA ClientSendsKeeps == ASSUME Inv, NEW request \in BOOLEAN, ClientSends(request) PROVE Inv'
<1> USE DEF Inv
<1>1. PICK metadata : metadata = IF request THEN [replyTo |-> Len(sent) + 1, id |-> Len(sent) + 1] ELSE NoMetadata
  OBVIOUS
<1>2. Publication(0, metadata, request) /\ UNCHANGED <<load, watched, answers>>
  BY <1>1 DEF ClientSends
<1>3. Len(sent) + 1 \in Nat
  BY DEF TypeOK
<1>4. /\ Decoded(metadata) \in {NoMetadata, Request(Len(sent) + 1)} /\ Decoded(metadata) \in Metadata
  BY <1>1, <1>3, DecodedKinds DEF Request
<1>5. PICK n, q : Sends(n, q) /\ q.metadata = Decoded(metadata) /\ q.of = 0
  BY <1>2, <1>4, PublicationSends
<1>6. n = Len(sent) + 1
  BY <1>5 DEF Sends
<1>7. /\ sent' \in Seq(Sendings) /\ backlog' \in Seq(Nat)
      /\ LinkOK' /\ PlacedOK' /\ MessagesOK' /\ OrderOK' /\ SentOK'
  BY <1>2, <1>4, <1>5, <1>6, SendsKeeps DEF watched
<1>8. \A m \in DOMAIN sent : m \in DOMAIN sent' /\ sent'[m] = sent[m]
  BY <1>5, SentAppears
<1>9. /\ wire' \in [Connections -> Seq(Nat)] /\ handled' \in [Connections -> Seq(Nat)]
      /\ UNCHANGED <<arrived, cut, again>>
  BY <1>5 DEF Sends
<1>10. TypeOK'
  BY <1>2, <1>7, <1>9 DEF TypeOK, watched, answers
<1>11. LogOK'
  BY <1>2 DEF LogOK, watched, Local, broker
<1>12. AnswersOK'
  BY <1>2, <1>8, <1>9, AnswersRest DEF TypeOK, watched, answers
<1> QED BY <1>7, <1>10, <1>11, <1>12

\* What was said stays accounted for while more is sent and comes to its request.
LEMMA SaidStays ==
    ASSUME NEW k, NEW n, SaidOK(k, n), style' = style, phase' = phase, cut' = cut, replied \subseteq replied',
           n \in DOMAIN sent' /\ sent'[n] = sent[n],
           sent[n].metadata = Request(n) /\ style # "bare" =>
              \A i \in DOMAIN unsent[k] : unsent[k][i].of = n =>
                 (\E j \in DOMAIN unsent'[k] : unsent'[k][j].of = n) \/ \E r \in replied' : r.by = k /\ r.of = n
    PROVE  SaidOK(k, n)'
BY DEF SaidOK, Request

\* An effect answers: at once over the bus, later, or in ack mode not at all to itself.
LEMMA EffectAnswersKeeps ==
    ASSUME Inv, NEW k \in Connections, NEW n \in 1 .. Len(sent), EffectAnswers(k, n) PROVE Inv'
<1> USE DEF Inv
<1>1. PICK answer : answer = [of |-> n, metadata |-> Destination(n)]
  OBVIOUS
<1>2. answer.of = n /\ answer.metadata = Destination(n) /\ n \in DOMAIN sent /\ n \in Nat
  BY <1>1 DEF TypeOK
<1>3. /\ said' = said \union {<<k, n>>} /\ UNCHANGED <<load, watched, style>>
      /\ IF Local THEN Carried(k, answer) /\ unsent' = unsent
         ELSE /\ unsent' = IF broker = "acked" /\ answer.metadata.replyTo = Own THEN unsent
                           ELSE [unsent EXCEPT ![k] = Append(@, answer)]
              /\ UNCHANGED <<traffic, replied>>
  BY <1>1 DEF EffectAnswers
<1>4. said' \subseteq Connections \X Nat /\ LogOK'
  BY <1>2, <1>3 DEF TypeOK, LogOK, watched, Local, broker
<1>5. ASSUME NEW other, UnsentOK(other), \A m \in DOMAIN sent : m \in DOMAIN sent' /\ sent'[m] = sent[m]
      PROVE  UnsentOK(other)'
  <2>1. other.of \in DOMAIN sent
    BY <1>5 DEF UnsentOK
  <2>2. Destination(other.of)' = Destination(other.of)
    BY <1>3, <1>5, <2>1, DestinationStays
  <2> QED BY <1>3, <1>5, <2>1, <2>2 DEF UnsentOK, broker
<1>6. CASE Local
  <2>1. UnsentOK(answer) /\ Carried(k, answer) /\ unsent' = unsent
    BY <1>2, <1>3, <1>6 DEF UnsentOK, Local
  <2>2. /\ sent' \in Seq(Sendings) /\ backlog' \in Seq(Nat)
        /\ wire' \in [Connections -> Seq(Nat)] /\ handled' \in [Connections -> Seq(Nat)]
        /\ UNCHANGED <<arrived, cut, again>>
        /\ LinkOK' /\ PlacedOK' /\ MessagesOK' /\ OrderOK' /\ SentOK'
        /\ \A m \in DOMAIN sent : m \in DOMAIN sent' /\ sent'[m] = sent[m]
        /\ replied \subseteq replied' /\ replied' \subseteq [by : Connections, of : Nat, metadata : Metadata]
        /\ \A r \in replied' : r.metadata = Request(r.of)
        /\ sent[answer.of].metadata = Request(answer.of) /\ style # "bare" =>
              \E r \in replied' : r.by = k /\ r.of = answer.of
    BY <1>3, <2>1, CarriedKeeps
  <2>3. TypeOK'
    BY <1>3, <1>4, <2>1, <2>2 DEF TypeOK, watched
  <2>4. ASSUME NEW x \in said' PROVE SaidOK(x[1], x[2])'
    <3>1. CASE x \in said
      <4>1. PICK j, m : j = x[1] /\ m = x[2]
        OBVIOUS
      <4>2. SaidOK(j, m) /\ m \in DOMAIN sent
        BY <3>1, <4>1 DEF AnswersOK, SaidOK
      <4>3. SaidOK(j, m)'
        BY <1>3, <2>1, <2>2, <4>2, SaidStays DEF watched
      <4> QED BY <4>1, <4>3
    <3>2. CASE x = <<k, n>>
      <4>1. SaidOK(k, n)'
        BY <1>2, <1>3, <2>2 DEF SaidOK, Request
      <4> QED BY <3>2, <4>1
    <3> QED BY <1>3, <3>1, <3>2
  <2>5. ASSUME NEW j \in Connections, NEW i \in DOMAIN unsent[j] PROVE UnsentOK(unsent[j][i])'
    <3>1. PICK other : other = unsent[j][i]
      OBVIOUS
    <3>2. UnsentOK(other)
      BY <3>1 DEF AnswersOK
    <3>3. UnsentOK(other)'
      BY <1>5, <2>2, <3>2
    <3> QED BY <2>1, <3>1, <3>3 DEF UnsentOK
  <2>6. AnswersOK'
    BY <2>1, <2>2, <2>4, <2>5 DEF AnswersOK, Request
  <2> QED BY <1>4, <2>2, <2>3, <2>6
<1>7. CASE ~Local
  <2>1. UNCHANGED <<traffic, replied>>
    BY <1>3, <1>7
  <2>2. PlacedOK' /\ MessagesOK' /\ OrderOK' /\ SentOK'
    BY <1>3, <2>1, TrafficRests
  <2>3. LinkOK'
    BY <1>3, <2>1 DEF LinkOK, watched, traffic, Local, Amqp, broker
  <2>4. answer \in Answers /\ unsent[k] \in Seq(Answers)
    <3>1. Destination(n) \in Metadata
      BY <1>2, Destinations, DecodedKinds DEF Metadata, Own, Fresh, Unknown
    <3> QED BY <1>1, <1>2, <3>1 DEF Answers, TypeOK
  <2>5. /\ unsent' \in [Connections -> Seq(Answers)]
        /\ \A j \in Connections \ {k} : unsent'[j] = unsent[j]
        /\ \/ unsent'[k] = unsent[k] /\ broker = "acked" /\ answer.metadata.replyTo = Own
           \/ unsent'[k] = Append(unsent[k], answer) /\ ~(broker = "acked" /\ answer.metadata.replyTo = Own)
    <3>1. CASE broker = "acked" /\ answer.metadata.replyTo = Own
      BY <1>3, <1>7, <3>1 DEF TypeOK
    <3>2. CASE ~(broker = "acked" /\ answer.metadata.replyTo = Own)
      <4>1. unsent' = [unsent EXCEPT ![k] = Append(unsent[k], answer)] /\ Append(unsent[k], answer) \in Seq(Answers)
        BY <1>3, <1>7, <2>4, <3>2
      <4> QED BY <3>2, <4>1 DEF TypeOK
    <3> QED BY <3>1, <3>2
  <2>6. TypeOK'
    BY <1>3, <1>4, <2>1, <2>5 DEF TypeOK, watched, traffic
  <2>7. /\ Len(unsent[k]) \in Nat /\ DOMAIN unsent[k] = 1 .. Len(unsent[k])
        /\ DOMAIN Append(unsent[k], answer) = 1 .. (Len(unsent[k]) + 1)
        /\ Append(unsent[k], answer)[Len(unsent[k]) + 1] = answer
        /\ \A i \in 1 .. Len(unsent[k]) : Append(unsent[k], answer)[i] = unsent[k][i]
    BY <2>4
  <2>8. /\ \A j \in Connections : \A i \in DOMAIN unsent[j] : i \in DOMAIN unsent'[j] /\ unsent'[j][i] = unsent[j][i]
        /\ ~(broker = "acked" /\ answer.metadata.replyTo = Own) => \E i \in DOMAIN unsent'[k] : unsent'[k][i] = answer
        /\ \A j \in Connections : \A i \in DOMAIN unsent'[j] : 
              \/ i \in DOMAIN unsent[j] /\ unsent'[j][i] = unsent[j][i]
              \/ unsent'[j][i] = answer /\ ~(broker = "acked" /\ answer.metadata.replyTo = Own)
    <3>1. Len(unsent[k]) + 1 \in 1 .. (Len(unsent[k]) + 1)
      BY <2>7
    <3>2. \A i \in 1 .. (Len(unsent[k]) + 1) : i \in 1 .. Len(unsent[k]) \/ i = Len(unsent[k]) + 1
      BY <2>7
    <3>3. CASE unsent'[k] = unsent[k] /\ broker = "acked" /\ answer.metadata.replyTo = Own
      BY <2>5, <3>3
    <3>4. CASE unsent'[k] = Append(unsent[k], answer) /\ ~(broker = "acked" /\ answer.metadata.replyTo = Own)
      <4>1. \A i \in DOMAIN unsent[k] : i \in DOMAIN unsent'[k] /\ unsent'[k][i] = unsent[k][i]
        BY <2>7, <3>4
      <4>2. \E i \in DOMAIN unsent'[k] : unsent'[k][i] = answer
        BY <2>7, <3>1, <3>4
      <4>3. \A i \in DOMAIN unsent'[k] : (i \in DOMAIN unsent[k] /\ unsent'[k][i] = unsent[k][i]) \/ unsent'[k][i] = answer
        BY <2>7, <3>2, <3>4
      <4> QED BY <2>5, <3>4, <4>1, <4>2, <4>3
    <3> QED BY <2>5, <3>3, <3>4
  <2>9. ASSUME NEW x \in said' PROVE SaidOK(x[1], x[2])'
    <3>1. CASE x \in said
      <4>1. PICK j \in Connections, m \in Nat : j = x[1] /\ m = x[2]
        BY <3>1 DEF TypeOK
      <4>2. SaidOK(j, m) /\ m \in DOMAIN sent
        BY <3>1, <4>1 DEF AnswersOK, SaidOK
      <4>3. SaidOK(j, m)'
        BY <1>3, <2>1, <2>8, <4>2, SaidStays DEF watched, traffic
      <4> QED BY <4>1, <4>3
    <3>2. CASE x = <<k, n>>
      <4>1. ASSUME sent[n].metadata = Request(n), style # "bare" PROVE \E i \in DOMAIN unsent'[k] : unsent'[k][i].of = n
        <5>1. answer.metadata = Request(n) /\ answer.metadata.replyTo # Own
          BY <1>2, <4>1, Destinations DEF Request, Own
        <5> QED BY <1>2, <2>8, <5>1
      <4>2. SaidOK(k, n)'
        BY <1>2, <1>3, <2>1, <4>1 DEF SaidOK, Request, traffic
      <4> QED BY <3>2, <4>2
    <3> QED BY <1>3, <3>1, <3>2
  <2>10. ASSUME NEW j \in Connections, NEW i \in DOMAIN unsent'[j] PROVE UnsentOK(unsent[j][i])'
    <3>1. PICK other : other = unsent'[j][i]
      OBVIOUS
    <3>2. UnsentOK(other)
      <4>1. CASE i \in DOMAIN unsent[j] /\ unsent'[j][i] = unsent[j][i]
        BY <3>1, <4>1 DEF AnswersOK
      <4>2. CASE other = answer /\ ~(broker = "acked" /\ answer.metadata.replyTo = Own)
        BY <1>2, <4>2 DEF UnsentOK
      <4> QED BY <2>8, <3>1, <4>1, <4>2
    <3>3. UnsentOK(other)'
      BY <1>5, <2>1, <3>2 DEF traffic
    <3> QED BY <3>1, <3>3 DEF UnsentOK
  <2>11. AnswersOK'
    BY <2>1, <2>9, <2>10 DEF AnswersOK, Request
  <2> QED BY <1>4, <2>2, <2>3, <2>6, <2>11
<1> QED BY <1>6, <1>7

\* The first answer that waits is carried to its address.
LEMMA PublishedKeeps == ASSUME Inv, NEW k \in Connections, Published(k) PROVE Inv'
<1> USE DEF Inv
<1>1. PICK answer : answer = Head(unsent[k])
  OBVIOUS
<1>2. /\ unsent[k] # <<>> /\ Carried(k, answer) /\ unsent' = [unsent EXCEPT ![k] = Tail(@)]
      /\ UNCHANGED <<load, watched, style, said>>
  BY <1>1 DEF Published
<1>3. unsent[k] \in Seq(Answers)
  BY DEF TypeOK
<1>4. /\ Len(unsent[k]) \in Nat /\ 1 \in 1 .. Len(unsent[k]) /\ answer = unsent[k][1] /\ DOMAIN unsent[k] = 1 .. Len(unsent[k])
      /\ Tail(unsent[k]) \in Seq(Answers) /\ DOMAIN Tail(unsent[k]) = 1 .. (Len(unsent[k]) - 1)
      /\ \A i \in 1 .. (Len(unsent[k]) - 1) : Tail(unsent[k])[i] = unsent[k][i + 1] /\ i + 1 \in 1 .. Len(unsent[k])
  BY <1>1, <1>2, <1>3
<1>5. \A i \in 1 .. Len(unsent[k]) : i = 1 \/ (i - 1 \in DOMAIN Tail(unsent[k]) /\ Tail(unsent[k])[i - 1] = unsent[k][i])
  <2>1. ASSUME NEW i \in 1 .. Len(unsent[k]), i # 1
        PROVE  i - 1 \in 1 .. (Len(unsent[k]) - 1) /\ i - 1 + 1 = i
    BY <1>4, <2>1
  <2> QED BY <1>4, <2>1
<1>6. /\ unsent' \in [Connections -> Seq(Answers)] /\ unsent'[k] = Tail(unsent[k])
      /\ \A j \in Connections \ {k} : unsent'[j] = unsent[j]
  BY <1>2, <1>4 DEF TypeOK
<1>7. UnsentOK(answer)
  BY <1>4 DEF AnswersOK
<1>8. /\ sent' \in Seq(Sendings) /\ backlog' \in Seq(Nat)
      /\ wire' \in [Connections -> Seq(Nat)] /\ handled' \in [Connections -> Seq(Nat)]
      /\ UNCHANGED <<arrived, cut, again>>
      /\ LinkOK' /\ PlacedOK' /\ MessagesOK' /\ OrderOK' /\ SentOK'
      /\ \A m \in DOMAIN sent : m \in DOMAIN sent' /\ sent'[m] = sent[m]
      /\ replied \subseteq replied' /\ replied' \subseteq [by : Connections, of : Nat, metadata : Metadata]
      /\ \A r \in replied' : r.metadata = Request(r.of)
      /\ sent[answer.of].metadata = Request(answer.of) /\ style # "bare" =>
            \E r \in replied' : r.by = k /\ r.of = answer.of
  BY <1>2, <1>7, CarriedKeeps
<1>9. TypeOK' /\ LogOK'
  BY <1>2, <1>6, <1>8 DEF TypeOK, LogOK, watched, Local, broker
<1>10. ASSUME NEW x \in said PROVE SaidOK(x[1], x[2])'
  <2>1. PICK j \in Connections, n \in Nat : j = x[1] /\ n = x[2]
    BY DEF TypeOK
  <2>2. SaidOK(j, n) /\ n \in DOMAIN sent
    BY <2>1 DEF AnswersOK, SaidOK
  <2>3. ASSUME sent[n].metadata = Request(n), style # "bare", NEW i \in DOMAIN unsent[j], unsent[j][i].of = n
        PROVE  (\E l \in DOMAIN unsent'[j] : unsent'[j][l].of = n) \/ \E r \in replied' : r.by = j /\ r.of = n
    <3>1. CASE j # k
      BY <1>6, <2>3, <3>1
    <3>2. CASE j = k /\ i = 1
      BY <1>4, <1>8, <2>3, <3>2
    <3>3. CASE j = k /\ i # 1
      BY <1>4, <1>5, <1>6, <2>3, <3>3
    <3> QED BY <3>1, <3>2, <3>3
  <2>4. SaidOK(j, n)'
    BY <1>2, <1>8, <2>2, <2>3, SaidStays DEF watched
  <2> QED BY <2>1, <2>4
<1>11. ASSUME NEW j \in Connections, NEW i \in DOMAIN unsent'[j] PROVE UnsentOK(unsent[j][i])'
  <2>1. PICK other : other = unsent'[j][i]
    OBVIOUS
  <2>2. \E l \in DOMAIN unsent[j] : other = unsent[j][l]
    BY <1>4, <1>6, <2>1
  <2>3. UnsentOK(other)
    BY <2>2 DEF AnswersOK
  <2>4. other.of \in DOMAIN sent
    BY <2>3 DEF UnsentOK
  <2>5. Destination(other.of)' = Destination(other.of)
    BY <1>2, <1>8, <2>4, DestinationStays
  <2>6. UnsentOK(other)'
    BY <1>2, <1>8, <2>3, <2>4, <2>5 DEF UnsentOK, broker
  <2> QED BY <2>1, <2>6 DEF UnsentOK
<1>12. AnswersOK'
  BY <1>2, <1>8, <1>10, <1>11 DEF AnswersOK, Request
<1> QED BY <1>8, <1>9, <1>12

------------------------------------------------------------------------------
(* What was handled is counted. *)

LEMMA TimesCounts ==
    ASSUME NEW k, NEW n, handled[k] \in Seq(Nat)
    PROVE  /\ Times(k, n) \in Nat /\ (Times(k, n) > 0 <=> Contains(handled[k], n))
           /\ Once(handled[k], n) => Times(k, n) <= 1
<1> DEFINE S == {i \in DOMAIN handled[k] : handled[k][i] = n}
<1>1. IsFiniteSet(S)
  <2>1. DOMAIN handled[k] = 1 .. Len(handled[k]) /\ Len(handled[k]) \in Int /\ 1 \in Int
    OBVIOUS
  <2>2. IsFiniteSet(1 .. Len(handled[k]))
    BY <2>1, FS_Interval
  <2>3. S \in SUBSET (1 .. Len(handled[k]))
    BY <2>1
  <2> QED BY <2>2, <2>3, FS_Subset
<1>2. Times(k, n) = Cardinality(S) /\ Times(k, n) \in Nat
  BY <1>1, FS_CardinalityType DEF Times
<1>3. S = {} <=> ~Contains(handled[k], n)
  BY DEF Contains
<1>4. Times(k, n) = 0 <=> S = {}
  BY <1>1, <1>2, FS_EmptySet
<1>5. ASSUME Once(handled[k], n) PROVE Times(k, n) <= 1
  <2>1. CASE S = {}
    BY <1>2, <1>4, <2>1
  <2>2. CASE S # {}
    <3>1. PICK i \in DOMAIN handled[k] : handled[k][i] = n
      BY <2>2
    <3>2. S = {i}
      BY <1>5, <3>1 DEF Once
    <3>3. Cardinality(S) = 1
      BY <3>2, FS_Singleton
    <3> QED BY <1>2, <3>3
  <2> QED BY <2>1, <2>2
<1> QED BY <1>2, <1>3, <1>4, <1>5

------------------------------------------------------------------------------
(* What the server promises. *)

\* The inductive invariant holds in every state that the server, its brokers and its clients
\* can get to.
THEOREM Invariance == ServerSpec => []Inv
<1>1. ASSUME Inv, [ServerNext]_serverVars PROVE Inv'
  <2>1. ASSUME NEW k \in Connections, ServerProgress(k) PROVE Inv'
    <3>1. CASE Announced(k) \/ Reconnected(k) \/ Recovered(k) \/ ConnectionClosed(k)
      BY <1>1, <3>1, AnnouncedKeeps, ReconnectedKeeps, RecoveredKeeps, ClosedKeeps
    <3>2. CASE Pushed(k) \/ Handled(k) \/ Settled(k) \/ Published(k)
      BY <1>1, <3>2, PushedKeeps, HandledKeeps, SettledKeeps, PublishedKeeps
    <3> QED BY <2>1, <3>1, <3>2 DEF ServerProgress
  <2>2. ASSUME NEW k \in Connections,
               Connect(k) \/ EventBus(k) \/ ConnectionLost(k) \/ CloseConnection(k) \/ BusClosed(k)
        PROVE  Inv'
    BY <1>1, <2>2, ConnectKeeps, EventBusKeeps, ConnectionLostKeeps, CloseConnectionKeeps, ClosedKeeps
  <2>3. ASSUME NEW k \in Connections, NEW n \in 1 .. Len(sent), EffectAnswers(k, n) PROVE Inv'
    BY <1>1, <2>3, EffectAnswersKeeps
  <2>4. ASSUME NEW request \in BOOLEAN, ClientSends(request) PROVE Inv'
    BY <1>1, <2>4, ClientSendsKeeps
  <2>5. CASE UNCHANGED serverVars
    BY <1>1, <2>5, StutterKeeps
  <2> QED BY <1>1, <2>1, <2>2, <2>3, <2>4, <2>5 DEF ServerNext
<1> QED BY InitInv, <1>1, PTL DEF ServerSpec

\* Every variable of the server keeps its type.
THEOREM TypeCorrect == ServerSpec => []TypeOK
<1>1. Inv => TypeOK
  BY DEF Inv
<1> QED BY Invariance, <1>1, PTL

\* The last line of the log is right; a message is handled once, in order, but for what a loss
\* brings again, and no message is dropped but by the end of its connection; and answers come
\* to the request they answer and to nobody else, however connections come and go.
\* (statusLogger$, message$, consumeMessages, reply, outputRouter$, emitMessage)
THEOREM ServerIsSound == ServerSpec => []ServerSound
<1>1. ASSUME Inv PROVE LogAgrees
  <2>1. TypeOK /\ LogOK
    BY <1>1 DEF Inv
  <2> SUFFICES ASSUME ~Local PROVE LogAgrees
    BY DEF LogAgrees
  <2>2. log.on <=> \A k \in Connections : phase[k] # "closed"
    BY <2>1 DEF LogOK
  <2>3. ASSUME log.on, NEW j \in Connections, phase[j] \in {"up", "lost", "recovering"},
               \A k \in Connections : phase[k] # "closing"
        PROVE  /\ (\A k \in Connections : phase[k] # "lost") => log.line = "connect"
               /\ (\A k \in Connections : phase[k] \notin {"up", "recovering"}) => log.line = "lost"
    BY <2>1, <2>3 DEF LogOK
  <2> QED BY <2>2, <2>3 DEF LogAgrees
<1>2. ASSUME Inv, NEW k \in Connections, NEW n
      PROVE  /\ Times(k, n) \in Nat /\ (Times(k, n) > 0 <=> Contains(handled[k], n))
             /\ Once(handled[k], n) => Times(k, n) <= 1
  <2>1. handled[k] \in Seq(Nat)
    BY <1>2 DEF Inv, TypeOK
  <2> QED BY <2>1, TimesCounts
<1>3. ASSUME Inv PROVE HandledOnce
  <2>1. ASSUME NEW n \in DOMAIN sent, n \notin again, NEW k \in Connections
        PROVE  /\ Times(k, n) <= 1
               /\ Amqp /\ Times(k, n) > 0 => \A j \in Connections \ {k} : Times(j, n) = 0
    <3>1. /\ \A j \in Connections : Once(handled[j], n)
          /\ Amqp => \A i, j \in Connections : Contains(handled[i], n) /\ Contains(handled[j], n) => i = j
      BY <1>3, <2>1 DEF Inv, MessagesOK, HandledOK
    <3>2. \A j \in Connections : /\ Times(j, n) \in Nat /\ (Times(j, n) > 0 <=> Contains(handled[j], n))
                                 /\ Once(handled[j], n) => Times(j, n) <= 1
      BY <1>2, <1>3
    <3> QED BY <3>1, <3>2
  <2>2. broker \in {"amqp", "redis"} => \A k \in Connections : \A i, j \in DOMAIN handled[k] :
            i < j => handled[k][i] < handled[k][j]
    BY <1>3 DEF Inv, OrderOK, Rising
  <2> QED BY <2>1, <2>2 DEF HandledOnce
<1>4. ASSUME Inv PROVE NoneDropped
  <2> SUFFICES ASSUME NEW n \in DOMAIN sent
               PROVE  LET got(k) == Contains(wire[k], n) \/ Times(k, n) > 0
                      IN  /\ ~Amqp => \A k \in sent[n].meant : got(k) \/ <<k, n>> \in cut
                          /\ Amqp => \/ Contains(backlog, n)
                                     \/ \E k \in Connections : got(k) \/ (broker = "amqp" /\ <<k, n>> \in cut)
    BY DEF NoneDropped
  <2>1. KeptOK(n) /\ sent[n].meant \subseteq Connections
    BY <1>4, SentTyped DEF Inv, MessagesOK
  <2>2. \A k \in Connections : Times(k, n) > 0 <=> Contains(handled[k], n)
    BY <1>2, <1>4
  <2> QED BY <2>1, <2>2 DEF KeptOK
<1>5. ASSUME Inv PROVE AnswersReachTheirRequest
  <2>1. ASSUME NEW x \in said, sent[x[2]].metadata = Request(x[2])
        PROVE  \/ style = "bare"
               \/ \E r \in replied : r.by = x[1] /\ r.of = x[2]
               \/ \E i \in DOMAIN unsent[x[1]] : unsent[x[1]][i].of = x[2]
               \/ phase[x[1]] = "closed" /\ <<x[1], x[2]>> \in cut
    BY <1>5, <2>1 DEF Inv, AnswersOK, SaidOK
  <2>2. \A r \in replied : r.metadata = Request(r.of)
    BY <1>5 DEF Inv, AnswersOK
  <2>3. broker = "acked" => \A n \in DOMAIN sent : sent[n].of = 0
    BY <1>5 DEF Inv, SentOK
  <2> QED BY <2>1, <2>2, <2>3 DEF AnswersReachTheirRequest, Request
<1>6. Inv => ServerSound
  BY <1>1, <1>3, <1>4, <1>5 DEF ServerSound
<1> QED BY Invariance, <1>6, PTL
=============================================================================
