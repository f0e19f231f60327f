---------------------------- MODULE WebSocketProofs ----------------------------
(***************************************************************************)
(* Proofs about both sides of a WebSocket server.                          *)
(*                                                                         *)
(* Heartbeat, for every set of clients, every interval, every longer       *)
(* terminate interval and every latency shorter than the interval.  Two    *)
(* inductive invariants: one ties the flag and the timeout of a client to  *)
(* its silence, the other bounds the timeout of a living peer by the phase *)
(* of the server's interval.                                               *)
(*                                                                         *)
(* WebSocketServer, for any peers, any mapping and any number of listens   *)
(* and messages.  The frames a peer got and those that are due to it are   *)
(* conserved: a send that ends is a frame received or, at a peer that went *)
(* away, lost, and the last send of a broadcast turns into the one that    *)
(* the listener makes to its own client.                                   *)
(***************************************************************************)
EXTENDS Heartbeat, WebSocketServer, FiniteSets, FiniteSetTheorems, TLAPS

------------------------------------------------------------------------------
(* The heartbeat. *)


\* The type invariant is established and kept by every action; time stops at
\* the timeouts and the latency, which bounds the ages.
THEOREM TypeCorrect == Spec => []TypeOK
<1> USE HeartbeatAssumption
<1>1. Init => TypeOK
  BY DEF Init, TypeOK
<1>2. ASSUME TypeOK, [Next]_vars PROVE TypeOK'
  <2> USE <1>2 DEF TypeOK
  <2>1. CASE ServerTick
    <3>1. /\ ping' \in [Clients -> 0 .. Interval - 1 \cup {NoPing}]
          /\ \A c \in Clients : ping'[c] # NoPing => ping'[c] <= Latency[c]
      BY <2>1 DEF ServerTick
    <3>2. isAlive' \in [Clients -> BOOLEAN]
      BY <2>1 DEF ServerTick
    <3>3. conn' \in [Clients -> {"none", "open", "terminated", "closed"}]
      BY <2>1 DEF ServerTick
    <3>4. toTick' \in 0 .. Interval /\ UNCHANGED <<idle, alive, silence>>
      BY <2>1 DEF ServerTick
    <3> QED BY <3>1, <3>2, <3>3, <3>4
  <2>2. CASE Elapse
    <3>1. idle' \in [Clients -> 0 .. TerminateInterval]
      BY <2>2 DEF Elapse, TimeoutDue, Open
    <3>2. /\ ping' \in [Clients -> 0 .. Interval - 1 \cup {NoPing}]
          /\ \A c \in Clients : ping'[c] # NoPing => ping'[c] <= Latency[c]
      <4>1. \A c \in Clients : ping'[c] = IF Open(c) /\ ping[c] # NoPing /\ alive[c]
                                         THEN ping[c] + 1 ELSE ping[c]
        BY <2>2 DEF Elapse
      <4>2. \A c \in Clients : Open(c) /\ alive[c] /\ ping[c] # NoPing => ping[c] < Latency[c]
        BY <2>2 DEF Elapse, PongDue
      <4>3. \A c \in Clients : /\ ping'[c] \in 0 .. Interval - 1 \cup {NoPing}
                               /\ ping'[c] # NoPing => ping'[c] <= Latency[c]
        BY <4>1, <4>2
      <4> QED BY <2>2, <4>3 DEF Elapse
    <3>3. toTick' \in 0 .. Interval /\ silence' \in [Clients -> Nat]
      BY <2>2 DEF Elapse
    <3> QED BY <2>2, <3>1, <3>2, <3>3 DEF Elapse
  <2>3. ASSUME NEW c \in Clients, Connect(c) PROVE TypeOK'
    BY <2>3 DEF Connect
  <2>4. ASSUME NEW c \in Clients, Heard(c), ping' = ping \/ ping' = [ping EXCEPT ![c] = NoPing]
        PROVE  TypeOK'
    BY <2>4 DEF Heard
  <2>5. ASSUME NEW c \in Clients, ClientTimeout(c) PROVE TypeOK'
    BY <2>5 DEF ClientTimeout
  <2>6. ASSUME NEW c \in Clients, Closed(c) PROVE TypeOK'
    BY <2>6 DEF Closed
  <2>7. ASSUME NEW c \in Clients, Die(c) PROVE TypeOK'
    BY <2>7 DEF Die
  <2>8. CASE UNCHANGED vars
    BY <2>8 DEF vars
  <2> QED BY <2>1, <2>2, <2>3, <2>4, <2>5, <2>6, <2>7, <2>8 DEF Next, Pong, PeerPing
<1> QED BY <1>1, <1>2, PTL DEF Spec

-----------------------------------------------------------------------------
\* What the flag and the timeout of a client say of its silence.
SilenceOf(c) ==
    /\ Open(c) => idle[c] = silence[c]
    /\ Open(c) /\ ~isAlive[c] => silence[c] >= Interval - toTick
    /\ conn[c] = "terminated" => silence[c] >= Interval

SilenceInv == \A c \in Clients : SilenceOf(c)

\* Every reachable state satisfies SilenceInv: the flag of a client is down only
\* if nothing was heard of it since the last emission of the interval.
THEOREM SilenceInvariance == Spec => []SilenceInv
<1> USE HeartbeatAssumption
<1>1. Init => SilenceInv
  BY DEF Init, SilenceInv, SilenceOf, Open
<1>2. ASSUME TypeOK, SilenceInv, [Next]_vars PROVE SilenceInv'
  <2> SUFFICES ASSUME NEW x \in Clients PROVE SilenceOf(x)'
    BY DEF SilenceInv
  <2> USE <1>2 DEF TypeOK, SilenceOf, Open
  <2>0. SilenceOf(x)
    BY DEF SilenceInv
  <2>1. CASE ServerTick
    BY <2>0, <2>1 DEF ServerTick
  <2>2. CASE Elapse
    BY <2>0, <2>2 DEF Elapse
  <2>3. ASSUME NEW c \in Clients, Connect(c) PROVE SilenceOf(x)'
    BY <2>0, <2>3 DEF Connect
  <2>4. ASSUME NEW c \in Clients, Heard(c) PROVE SilenceOf(x)'
    BY <2>0, <2>4 DEF Heard
  <2>5. ASSUME NEW c \in Clients, ClientTimeout(c) PROVE SilenceOf(x)'
    BY <2>0, <2>5 DEF ClientTimeout
  <2>6. ASSUME NEW c \in Clients, Closed(c) PROVE SilenceOf(x)'
    BY <2>0, <2>6 DEF Closed
  <2>7. ASSUME NEW c \in Clients, Die(c) PROVE SilenceOf(x)'
    BY <2>0, <2>7 DEF Die
  <2>8. CASE UNCHANGED vars
    BY <2>0, <2>8 DEF vars
  <2> QED BY <2>1, <2>2, <2>3, <2>4, <2>5, <2>6, <2>7, <2>8 DEF Next, Pong, PeerPing
<1> QED BY <1>1, <1>2, TypeCorrect, PTL DEF Spec

\* No open connection has been silent for longer than TerminateInterval: the
\* timeout's age is the silence.
THEOREM BrokenConnectionsEnd == Spec => []SilenceBounded
<1>1. TypeOK /\ SilenceInv => SilenceBounded
  BY HeartbeatAssumption DEF TypeOK, SilenceInv, SilenceOf, SilenceBounded
<1> QED BY <1>1, TypeCorrect, SilenceInvariance, PTL

\* A client is only terminated after a whole Interval without a sign of life.
THEOREM TerminationIsEarned == Spec => []TerminatedAfterSilence
<1>1. SilenceInv => TerminatedAfterSilence
  BY DEF SilenceInv, SilenceOf, TerminatedAfterSilence
<1> QED BY <1>1, SilenceInvariance, PTL

-----------------------------------------------------------------------------
\* A living peer: before the server's ping its timeout is younger than the time
\* since the last emission; from the ping to the pong the age of the ping is that
\* time, and the timeout is at most Interval older.
LifeOf(c) == WithinMargin(c) =>
    /\ conn[c] = "none" => ping[c] = NoPing
    /\ alive[c] => conn[c] # "terminated"
    /\ Open(c) /\ alive[c] /\ ping[c] = NoPing => isAlive[c] /\ idle[c] <= Interval - toTick
    /\ Open(c) /\ alive[c] /\ ping[c] # NoPing =>
         ping[c] = Interval - toTick /\ idle[c] <= Interval + ping[c]

LifeInv == \A c \in Clients : LifeOf(c)

\* Every reachable state satisfies LifeInv: within the margin, a pong arrives before
\* the next emission and before the timeout.
THEOREM LifeInvariance == Spec => []LifeInv
<1> USE HeartbeatAssumption
<1>1. Init => LifeInv
  BY DEF Init, LifeInv, LifeOf, Open
<1>2. ASSUME TypeOK, LifeInv, [Next]_vars PROVE LifeInv'
  <2> SUFFICES ASSUME NEW x \in Clients PROVE LifeOf(x)'
    BY DEF LifeInv
  <2> USE <1>2 DEF TypeOK, LifeOf, WithinMargin, Open
  <2>0. LifeOf(x)
    BY DEF LifeInv
  <2>1. CASE ServerTick
    BY <2>0, <2>1 DEF ServerTick
  <2>2. CASE Elapse
    BY <2>0, <2>2 DEF Elapse, PongDue
  <2>3. ASSUME NEW c \in Clients, Connect(c) PROVE LifeOf(x)'
    BY <2>0, <2>3 DEF Connect
  <2>4. ASSUME NEW c \in Clients, Pong(c) PROVE LifeOf(x)'
    BY <2>0, <2>4 DEF Pong, Heard
  <2>5. ASSUME NEW c \in Clients, PeerPing(c) PROVE LifeOf(x)'
    BY <2>0, <2>5 DEF PeerPing, Heard
  <2>6. ASSUME NEW c \in Clients, ClientTimeout(c) PROVE LifeOf(x)'
    BY <2>0, <2>6 DEF ClientTimeout
  <2>7. ASSUME NEW c \in Clients, Closed(c) PROVE LifeOf(x)'
    BY <2>0, <2>7 DEF Closed
  <2>8. ASSUME NEW c \in Clients, Die(c) PROVE LifeOf(x)'
    BY <2>0, <2>8 DEF Die
  <2>9. CASE UNCHANGED vars
    BY <2>0, <2>9 DEF vars
  <2> QED BY <2>1, <2>2, <2>3, <2>4, <2>5, <2>6, <2>7, <2>8, <2>9 DEF Next
<1> QED BY <1>1, <1>2, TypeCorrect, PTL DEF Spec

\* A peer that answers within the margin is never terminated.
THEOREM LivingPeersStay == Spec => []LivePeersKept
<1>1. LifeInv => LivePeersKept
  BY DEF LifeInv, LifeOf, LivePeersKept
<1> QED BY <1>1, LifeInvariance, PTL

------------------------------------------------------------------------------
(* The server and its responses. *)


Listeners == 1 .. MaxListens
Sends == [to : Peers, of : Messages, by : Listeners, cast : BOOLEAN]
Sent == [from : Peers, kind : {"response", "broadcast"}, audience : SUBSET Peers]

\* The variables of the server, with their types.
WebTypeOK ==
    /\ registered \in 0 .. MaxListens
    /\ ready \in [Peers -> {"none", "left", "destroyed", "open", "closing", "closed"}]
    /\ url \in [Peers -> {<<>>} \cup (Urls \X BOOLEAN)]
    /\ copies \in [Peers -> 0 .. MaxListens]
    /\ messages \in Seq(Sent)
    /\ sends \subseteq Sends
    /\ received \in [Peers \X Messages -> Nat]
    /\ serving \in {"yes", "closing", "closed"}
    /\ journal \in [Peers -> [connected : Nat, closed : Nat]]

\* The listeners whose broadcast of m is on its way to p, those whose event for m is on its
\* way to the sender once more, and those whose broadcast of m is on its way to anybody.
Casts(p, m) == {i \in Listeners : [to |-> p, of |-> m, by |-> i, cast |-> TRUE] \in sends}
Echoes(p, m) == {i \in Listeners : [to |-> p, of |-> m, by |-> i, cast |-> FALSE] \in sends}
Left(m) == {i \in Listeners : \E s \in sends : s.cast /\ s.of = m /\ s.by = i}

\* The frames of m that are still due to p: the sender is owed one for each broadcast that
\* is not over.
Due(p, m) ==
    Cardinality(Casts(p, m)) + Cardinality(Echoes(p, m)) +
    IF p = messages[m].from THEN Cardinality(Left(m)) ELSE 0

\* A listener does not answer its client before its broadcast is over.
SendsOK ==
    /\ \A s \in sends : s.of \in DOMAIN messages /\ (~s.cast => s.to = messages[s.of].from)
    /\ \A s, t \in sends : s.cast /\ ~t.cast /\ s.of = t.of => s.by # t.by

\* Whoever hears of a message, its sender included, was connected.
MessagesOK ==
    \A m \in DOMAIN messages :
       /\ m \in Messages /\ messages[m].from \in messages[m].audience
       /\ \A p \in messages[m].audience : ready[p] \in {"open", "closing", "closed"}

\* What a peer got of a message and what is due to it add up to what is meant for it.
FrameOK(p, m) ==
    IF m \in DOMAIN messages /\ p \in messages[m].audience
    THEN /\ received[<<p, m>>] + Due(p, m) <= Meant(p, m)
         /\ ready[p] = "open" => received[<<p, m>>] + Due(p, m) = Meant(p, m)
    ELSE /\ received[<<p, m>>] = 0
         /\ \A s \in sends : s.of = m => s.to # p

FramesOK == \A m \in Messages, p \in Peers : FrameOK(p, m)

\* The lines about a client, by its listeners and the state of its socket.
LoggedOK(p) ==
    /\ ready[p] = "none" => copies[p] = 0
    /\ ready[p] # "closed" => journal[p].closed = 0
    /\ journal[p].closed \in {0, copies[p]}
    /\ journal[p].connected \in {0, copies[p]}
    /\ journal[p].closed > 0 => journal[p].connected > 0
    /\ serving # "closed" =>
           /\ journal[p].connected = copies[p]
           /\ ready[p] = "closed" => journal[p].closed = copies[p]

LogOK == \A p \in Peers : LoggedOK(p)

Inv == WebTypeOK /\ SendsOK /\ MessagesOK /\ FramesOK /\ LogOK /\ SocketsSettled

------------------------------------------------------------------------------
(* Sets of listeners and their sizes. *)

\* Any set of listeners is finite, and has a size.
LEMMA Countable ==
    ASSUME NEW S, S \subseteq Listeners
    PROVE  IsFiniteSet(S) /\ Cardinality(S) \in Nat
<1>1. MaxListens \in Int /\ 1 \in Int
  BY MappingAssumption
<1>2. IsFiniteSet(Listeners)
  BY <1>1, FS_Interval DEF Listeners
<1>3. IsFiniteSet(S)
  BY <1>2, FS_Subset
<1> QED BY <1>3, FS_CardinalityType

\* One listener more or less makes a difference of one.
LEMMA OneListener ==
    ASSUME NEW S, S \subseteq Listeners, NEW i \in Listeners
    PROVE  /\ i \in S => Cardinality(S \ {i}) = Cardinality(S) - 1
           /\ i \notin S => Cardinality(S \cup {i}) = Cardinality(S) + 1
<1>1. IsFiniteSet(S)
  BY Countable
<1> QED BY <1>1, FS_AddElement, FS_RemoveElement

\* As many sends as there are listeners.
LEMMA AllListeners ==
    ASSUME NEW n \in 0 .. MaxListens
    PROVE  1 .. n \subseteq Listeners /\ Cardinality(1 .. n) = n
<1>1. n \in Int /\ 1 \in Int /\ n >= 0 /\ n <= MaxListens /\ MaxListens \in Nat
  BY MappingAssumption
<1>2. Cardinality(1 .. n) = IF 1 > n THEN 0 ELSE n - 1 + 1
  BY <1>1, FS_Interval
<1> QED BY <1>1, <1>2 DEF Listeners

\* What is due to a peer is a number.
LEMMA DueIsNat ==
    ASSUME NEW p, NEW m
    PROVE  /\ Cardinality(Casts(p, m)) \in Nat /\ Cardinality(Echoes(p, m)) \in Nat
           /\ Cardinality(Left(m)) \in Nat /\ Due(p, m) \in Nat
<1>1. Casts(p, m) \subseteq Listeners /\ Echoes(p, m) \subseteq Listeners /\ Left(m) \subseteq Listeners
  BY DEF Casts, Echoes, Left
<1>2. Cardinality(Casts(p, m)) \in Nat /\ Cardinality(Echoes(p, m)) \in Nat /\ Cardinality(Left(m)) \in Nat
  BY <1>1, Countable
<1> QED BY <1>2 DEF Due

------------------------------------------------------------------------------
(* The server and its clients. *)

LEMMA MessageTyped ==
    ASSUME messages \in Seq(Sent), NEW m \in DOMAIN messages
    PROVE  /\ m \in Nat /\ messages[m].from \in Peers /\ messages[m].audience \subseteq Peers
           /\ messages[m].kind \in {"response", "broadcast"}
<1>1. messages[m] \in Sent /\ m \in Nat
  OBVIOUS
<1> QED BY <1>1 DEF Sent

\* A line about one client, as often as it has listeners, until the server is closed.
LEMMA NoteLogs ==
    ASSUME journal \in [Peers -> [connected : Nat, closed : Nat]], NEW q \in Peers, NEW k \in Nat,
           NEW line \in {"connected", "closed"}, Note(q, line, k)
    PROVE  /\ journal' \in [Peers -> [connected : Nat, closed : Nat]]
           /\ \A p \in Peers \ {q} : journal'[p] = journal[p]
           /\ line = "connected" =>
                 /\ journal'[q].closed = journal[q].closed
                 /\ journal'[q].connected = journal[q].connected + IF serving = "closed" THEN 0 ELSE k
           /\ line = "closed" =>
                 /\ journal'[q].connected = journal[q].connected
                 /\ journal'[q].closed = journal[q].closed + IF serving = "closed" THEN 0 ELSE k
<1>1. CASE serving = "closed"
  BY <1>1 DEF Note
<1>2. journal[q] \in [connected : Nat, closed : Nat]
  OBVIOUS
<1>3. CASE serving # "closed" /\ line = "connected"
  <2> DEFINE entry == [journal[q] EXCEPT !.connected = @ + k]
  <2>1. entry = [connected |-> journal[q].connected + k, closed |-> journal[q].closed]
    BY <1>2
  <2>2. journal' = [journal EXCEPT ![q] = entry]
    BY <1>3 DEF Note
  <2> HIDE DEF entry
  <2> QED BY <1>2, <1>3, <2>1, <2>2
<1>4. CASE serving # "closed" /\ line = "closed"
  <2> DEFINE entry == [journal[q] EXCEPT !.closed = @ + k]
  <2>1. entry = [connected |-> journal[q].connected, closed |-> journal[q].closed + k]
    BY <1>2
  <2>2. journal' = [journal EXCEPT ![q] = entry]
    BY <1>4 DEF Note
  <2> HIDE DEF entry
  <2> QED BY <1>2, <1>4, <2>1, <2>2
<1> QED BY <1>1, <1>3, <1>4

\* Where no message comes in and no send ends, what is due stays due, as long as no client
\* of a message opens again and the listeners of its sender stay.
LEMMA FramesStay ==
    ASSUME SendsOK, FramesOK, UNCHANGED <<messages, sends, received>>,
           \A m \in DOMAIN messages : copies'[messages[m].from] = copies[messages[m].from],
           \A m \in DOMAIN messages : \A p \in messages[m].audience :
               ready'[p] = "open" => ready[p] = "open"
    PROVE  SendsOK' /\ FramesOK'
<1>1. SendsOK'
  BY DEF SendsOK
<1>2. ASSUME NEW m \in Messages, NEW p \in Peers PROVE FrameOK(p, m)'
  <2>1. FrameOK(p, m)
    BY <1>2 DEF FramesOK
  <2>2. Due(p, m)' = Due(p, m)
    BY DEF Due, Casts, Echoes, Left
  <2>3. m \in DOMAIN messages => Meant(p, m)' = Meant(p, m)
    BY DEF Meant
  <2> QED BY <2>1, <2>2, <2>3 DEF FrameOK
<1> QED BY <1>1, <1>2 DEF FramesOK

LEMMA InitInv == WebInit => Inv
<1> SUFFICES ASSUME WebInit PROVE Inv
  OBVIOUS
<1> USE DEF WebInit
<1>1. WebTypeOK
  BY MappingAssumption DEF WebTypeOK
<1>2. SendsOK /\ MessagesOK /\ LogOK /\ SocketsSettled
  BY DEF SendsOK, MessagesOK, LogOK, LoggedOK, SocketsSettled
<1>3. FramesOK
  <2>1. DOMAIN messages = {}
    OBVIOUS
  <2> QED BY <2>1 DEF FramesOK, FrameOK
<1> QED BY <1>1, <1>2, <1>3 DEF Inv

LEMMA StutterKeeps == ASSUME Inv, UNCHANGED webVars PROVE Inv'
<1> USE DEF Inv, webVars
<1>1. SendsOK' /\ FramesOK'
  BY FramesStay
<1>2. WebTypeOK' /\ MessagesOK' /\ LogOK' /\ SocketsSettled'
  BY DEF WebTypeOK, MessagesOK, LogOK, LoggedOK, SocketsSettled
<1> QED BY <1>1, <1>2

LEMMA ListenAgainKeeps == ASSUME Inv, ListenAgain PROVE Inv'
<1> USE DEF Inv, ListenAgain
<1>1. SendsOK' /\ FramesOK'
  BY FramesStay
<1>2. WebTypeOK'
  BY MappingAssumption DEF WebTypeOK
<1>3. MessagesOK' /\ LogOK' /\ SocketsSettled'
  BY DEF MessagesOK, LogOK, LoggedOK, SocketsSettled
<1> QED BY <1>1, <1>2, <1>3

\* Only a socket that no message has met is upgraded.
LEMMA UpgradeKeeps ==
    ASSUME Inv, NEW q \in Peers, NEW path \in Urls, NEW websocket \in BOOLEAN, Upgrade(q, path, websocket)
    PROVE  Inv'
<1> USE DEF Inv
<1>1. /\ ready[q] = "none" /\ url' = [url EXCEPT ![q] = <<path, websocket>>]
      /\ UNCHANGED <<registered, messages, sends, received, serving>>
  BY DEF Upgrade
<1>2. PICK state \in {"destroyed", "open", "left"} :
          /\ ready' = [ready EXCEPT ![q] = state]
          /\ state = "open" => /\ copies' = [copies EXCEPT ![q] = registered]
                              /\ Note(q, "connected", registered)
          /\ state # "open" => UNCHANGED <<copies, journal>>
          /\ state = "left" => \/ ~websocket
                              \/ \A i \in DOMAIN Mapping : Mapping[i].path = path => ~Mapping[i].server
  BY DEF Upgrade
<1>3. \A m \in DOMAIN messages : messages[m].from # q /\ q \notin messages[m].audience
  BY <1>1 DEF MessagesOK
<1>4. SendsOK' /\ FramesOK'
  <2>1. \A m \in DOMAIN messages : copies'[messages[m].from] = copies[messages[m].from]
    <3> SUFFICES ASSUME NEW m \in DOMAIN messages PROVE copies'[messages[m].from] = copies[messages[m].from]
      OBVIOUS
    <3> QED BY <1>2, <1>3, MessageTyped DEF WebTypeOK
  <2>2. \A m \in DOMAIN messages : \A p \in messages[m].audience : ready'[p] = ready[p]
    <3> SUFFICES ASSUME NEW m \in DOMAIN messages, NEW p \in messages[m].audience PROVE ready'[p] = ready[p]
      OBVIOUS
    <3> QED BY <1>2, <1>3, MessageTyped DEF WebTypeOK
  <2> QED BY <1>1, <2>1, <2>2, FramesStay
<1>5. MessagesOK'
  BY <1>1, <1>2, <1>3 DEF MessagesOK, WebTypeOK
<1>6. WebTypeOK'
  <2>1. ready' \in [Peers -> {"none", "left", "destroyed", "open", "closing", "closed"}]
    BY <1>2 DEF WebTypeOK
  <2>2. url' \in [Peers -> {<<>>} \cup (Urls \X BOOLEAN)]
    BY <1>1 DEF WebTypeOK
  <2>3. copies' \in [Peers -> 0 .. MaxListens]
    BY <1>2 DEF WebTypeOK
  <2>4. journal' \in [Peers -> [connected : Nat, closed : Nat]]
    <3>1. CASE state = "open"
      <4>1. registered \in Nat
        BY MappingAssumption DEF WebTypeOK
      <4> QED BY <1>2, <3>1, <4>1, NoteLogs DEF WebTypeOK
    <3> QED BY <1>2, <3>1 DEF WebTypeOK
  <2> QED BY <1>1, <2>1, <2>2, <2>3, <2>4 DEF WebTypeOK
<1>7. LogOK'
  <2> SUFFICES ASSUME NEW p \in Peers PROVE LoggedOK(p)'
    BY DEF LogOK
  <2>1. CASE p # q \/ state # "open"
    BY <1>1, <1>2, <2>1 DEF LogOK, LoggedOK, WebTypeOK, Note
  <2>2. CASE p = q /\ state = "open"
    <3>1. registered \in Nat /\ Note(q, "connected", registered)
      BY <1>2, <2>2, MappingAssumption DEF WebTypeOK
    <3>2. /\ journal'[q].closed = journal[q].closed
          /\ journal'[q].connected = journal[q].connected + IF serving = "closed" THEN 0 ELSE registered
      BY <3>1, NoteLogs DEF WebTypeOK
    <3>3. journal[q].closed = 0 /\ journal[q].connected = 0
      BY <1>1 DEF LogOK, LoggedOK
    <3>4. ready'[q] = "open" /\ copies'[q] = registered
      BY <1>2, <2>2 DEF WebTypeOK
    <3> QED BY <1>1, <2>2, <3>1, <3>2, <3>3, <3>4 DEF LoggedOK
  <2> QED BY <2>1, <2>2
<1>8. SocketsSettled'
  BY <1>1, <1>2 DEF SocketsSettled, WebTypeOK
<1> QED BY <1>4, <1>5, <1>6, <1>7, <1>8

LEMMA ClientClosesKeeps == ASSUME Inv, NEW q \in Peers, ClientCloses(q) PROVE Inv'
<1> USE DEF Inv, ClientCloses
<1>1. SendsOK' /\ FramesOK'
  <2>1. \A p \in Peers : ready'[p] = "open" => ready[p] = "open"
    BY DEF WebTypeOK
  <2>2. \A m \in DOMAIN messages : messages[m].audience \subseteq Peers
    BY MessageTyped DEF WebTypeOK
  <2> QED BY <2>1, <2>2, FramesStay
<1>2. WebTypeOK'
  BY DEF WebTypeOK
<1>3. MessagesOK' /\ SocketsSettled'
  BY DEF MessagesOK, SocketsSettled, WebTypeOK
<1>4. LogOK'
  BY DEF LogOK, LoggedOK, WebTypeOK
<1> QED BY <1>1, <1>2, <1>3, <1>4

\* A client that closes is logged once per listener, and closes once.
LEMMA ClientClosedKeeps == ASSUME Inv, NEW q \in Peers, ClientClosed(q) PROVE Inv'
<1> USE DEF Inv, ClientClosed
<1>1. SendsOK' /\ FramesOK'
  <2>1. \A p \in Peers : ready'[p] = "open" => ready[p] = "open"
    BY DEF WebTypeOK
  <2>2. \A m \in DOMAIN messages : messages[m].audience \subseteq Peers
    BY MessageTyped DEF WebTypeOK
  <2> QED BY <2>1, <2>2, FramesStay
<1>2. copies[q] \in Nat /\ Note(q, "closed", copies[q])
  BY MappingAssumption DEF WebTypeOK
<1>3. /\ journal' \in [Peers -> [connected : Nat, closed : Nat]]
      /\ \A p \in Peers \ {q} : journal'[p] = journal[p]
      /\ journal'[q].connected = journal[q].connected
      /\ journal'[q].closed = journal[q].closed + IF serving = "closed" THEN 0 ELSE copies[q]
  BY <1>2, NoteLogs DEF WebTypeOK
<1>4. WebTypeOK'
  BY <1>3 DEF WebTypeOK
<1>5. MessagesOK' /\ SocketsSettled'
  BY DEF MessagesOK, SocketsSettled, WebTypeOK
<1>6. LogOK'
  <2> SUFFICES ASSUME NEW p \in Peers PROVE LoggedOK(p)'
    BY DEF LogOK
  <2>1. CASE p # q
    BY <1>3, <2>1 DEF LogOK, LoggedOK, WebTypeOK
  <2>2. CASE p = q
    <3>1. journal[q].closed = 0 /\ ready'[q] = "closed"
      BY DEF LogOK, LoggedOK, WebTypeOK
    <3>2. LoggedOK(q) /\ journal[q].connected \in Nat
      BY DEF LogOK, WebTypeOK
    <3> QED BY <1>2, <1>3, <2>2, <3>1, <3>2 DEF LoggedOK
  <2> QED BY <2>1, <2>2
<1> QED BY <1>1, <1>4, <1>5, <1>6

LEMMA ServerClosesKeeps == ASSUME Inv, ServerCloses PROVE Inv'
<1> USE DEF Inv, ServerCloses
<1>1. SendsOK' /\ FramesOK'
  <2>1. \A p \in Peers : ready'[p] = "open" => ready[p] = "open"
    BY DEF WebTypeOK
  <2>2. \A m \in DOMAIN messages : messages[m].audience \subseteq Peers
    BY MessageTyped DEF WebTypeOK
  <2> QED BY <2>1, <2>2, FramesStay
<1>2. WebTypeOK'
  BY DEF WebTypeOK
<1>3. MessagesOK'
  <2> SUFFICES ASSUME NEW m \in DOMAIN messages, NEW p \in messages[m].audience
               PROVE  ready'[p] \in {"open", "closing", "closed"}
    BY DEF MessagesOK
  <2> QED BY MessageTyped DEF MessagesOK, WebTypeOK
<1>5. SocketsSettled'
  BY DEF SocketsSettled, WebTypeOK
<1>4. LogOK'
  BY DEF LogOK, LoggedOK, WebTypeOK
<1> QED BY <1>1, <1>2, <1>3, <1>4, <1>5

LEMMA ServerClosedKeeps == ASSUME Inv, ServerClosed PROVE Inv'
<1> USE DEF Inv, ServerClosed
<1>1. SendsOK' /\ FramesOK'
  BY FramesStay
<1>2. WebTypeOK' /\ MessagesOK' /\ LogOK' /\ SocketsSettled'
  BY DEF WebTypeOK, MessagesOK, LogOK, LoggedOK, SocketsSettled
<1> QED BY <1>1, <1>2

------------------------------------------------------------------------------
(* A message comes in. *)

Opened == {p \in Peers : ready[p] = "open"}

\* What the listeners 1 .. n send for message m of q: a broadcast goes to each client that is
\* open, a response to q.
Answers(q, kind, m, n) ==
    UNION {IF kind = "broadcast" THEN BroadcastEvent(m, i) ELSE EmitEvent(q, m, i, FALSE) : i \in 1 .. n}

LEMMA AnswersSent ==
    ASSUME NEW q \in Opened, NEW kind \in {"response", "broadcast"}, NEW m, NEW n
    PROVE  /\ \A s \in Answers(q, kind, m, n) :
                 \E p \in Opened, i \in 1 .. n :
                    s = [to |-> IF kind = "broadcast" THEN p ELSE q, of |-> m, by |-> i, cast |-> kind = "broadcast"]
           /\ kind = "broadcast" => \A p \in Opened, i \in 1 .. n :
                 [to |-> p, of |-> m, by |-> i, cast |-> TRUE] \in Answers(q, kind, m, n)
           /\ kind # "broadcast" => \A i \in 1 .. n :
                 [to |-> q, of |-> m, by |-> i, cast |-> FALSE] \in Answers(q, kind, m, n)
<1>1. \A p \in Opened : Joined(p) /\ p \in Peers
  BY DEF Opened, Joined
<1>2. ASSUME NEW p \in Peers, NEW i, NEW c
      PROVE  EmitEvent(p, m, i, c) =
                 IF p \in Opened THEN {[to |-> p, of |-> m, by |-> i, cast |-> c]} ELSE {}
  BY DEF EmitEvent, Opened
<1>3. CASE kind = "broadcast"
  <2>1. ASSUME NEW i \in 1 .. n, NEW s \in BroadcastEvent(m, i)
        PROVE  \E p \in Opened : s = [to |-> p, of |-> m, by |-> i, cast |-> TRUE]
    <3>1. PICK p \in Peers : s \in EmitEvent(p, m, i, TRUE)
      BY <2>1 DEF BroadcastEvent
    <3>2. EmitEvent(p, m, i, TRUE) = IF p \in Opened THEN {[to |-> p, of |-> m, by |-> i, cast |-> TRUE]} ELSE {}
      BY <1>2
    <3> QED BY <3>1, <3>2
  <2>2. ASSUME NEW p \in Opened, NEW i \in 1 .. n
        PROVE  [to |-> p, of |-> m, by |-> i, cast |-> TRUE] \in BroadcastEvent(m, i)
    <3>1. p \in {r \in Peers : Joined(r)}
      BY <1>1
    <3>2. EmitEvent(p, m, i, TRUE) = {[to |-> p, of |-> m, by |-> i, cast |-> TRUE]}
      BY <1>1, <1>2
    <3> QED BY <3>1, <3>2 DEF BroadcastEvent
  <2>3. \A s : s \in Answers(q, kind, m, n) <=> \E i \in 1 .. n : s \in BroadcastEvent(m, i)
    BY <1>3 DEF Answers
  <2>4. ASSUME NEW s \in Answers(q, kind, m, n)
        PROVE  \E p \in Opened, i \in 1 .. n : s = [to |-> p, of |-> m, by |-> i, cast |-> TRUE]
    BY <2>1, <2>3, <2>4
  <2>5. ASSUME NEW p \in Opened, NEW i \in 1 .. n
        PROVE  [to |-> p, of |-> m, by |-> i, cast |-> TRUE] \in Answers(q, kind, m, n)
    BY <2>2, <2>3
  <2> QED BY <1>3, <2>4, <2>5
<1>4. CASE kind # "broadcast"
  <2>1. \A s : s \in Answers(q, kind, m, n) <=> \E i \in 1 .. n : s \in EmitEvent(q, m, i, FALSE)
    BY <1>4 DEF Answers
  <2>2. \A i : EmitEvent(q, m, i, FALSE) = {[to |-> q, of |-> m, by |-> i, cast |-> FALSE]}
    BY <1>1, <1>2
  <2>3. (kind = "broadcast") = FALSE
    BY <1>4
  <2>4. ASSUME NEW s \in Answers(q, kind, m, n)
        PROVE  \E p \in Opened, i \in 1 .. n :
                  s = [to |-> IF kind = "broadcast" THEN p ELSE q, of |-> m, by |-> i, cast |-> kind = "broadcast"]
    <3>1. PICK i \in 1 .. n : s \in EmitEvent(q, m, i, FALSE)
      BY <2>1, <2>4
    <3>2. EmitEvent(q, m, i, FALSE) = {[to |-> q, of |-> m, by |-> i, cast |-> FALSE]}
      BY <2>2
    <3>3. s = [to |-> q, of |-> m, by |-> i, cast |-> FALSE]
      BY <3>1, <3>2
    <3> QED BY <1>4, <2>3, <3>3
  <2>5. \A i \in 1 .. n : [to |-> q, of |-> m, by |-> i, cast |-> FALSE] \in Answers(q, kind, m, n)
    BY <2>1, <2>2
  <2> QED BY <1>4, <2>4, <2>5
<1> QED BY <1>3, <1>4

\* What a new message leaves to be sent is what is meant for each of its audience.
LEMMA MessageAdded ==
    ASSUME Inv, NEW q \in Peers, NEW kind \in {"response", "broadcast"},
           NEW m \in Messages, m = Len(messages) + 1,
           NEW n \in 0 .. MaxListens, n = copies[q],
           NEW open, open = Opened, q \in open, NEW new, new = Answers(q, kind, m, n),
           NEW message, message = [from |-> q, kind |-> kind, audience |-> open],
           messages' = Append(messages, message), sends' = sends \cup new,
           UNCHANGED <<registered, ready, url, copies, received, serving, journal>>
    PROVE  Inv'
<1>1. /\ messages \in Seq(Sent) /\ message \in Sent /\ messages' \in Seq(Sent)
      /\ m \in Nat /\ DOMAIN messages = 1 .. (m - 1) /\ DOMAIN messages' = 1 .. m
      /\ \A k \in DOMAIN messages : messages'[k] = messages[k]
      /\ messages'[m] = message
  <2>1. message \in Sent
    BY DEF Sent, Opened
  <2>2. messages \in Seq(Sent)
    BY DEF Inv, WebTypeOK
  <2> QED BY <2>1, <2>2
<1>2. n \in Nat /\ 1 .. n \subseteq Listeners /\ Cardinality(1 .. n) = n
  BY AllListeners, MappingAssumption
<1>3. \A s \in sends : s.of \in DOMAIN messages /\ s.of # m
  BY <1>1 DEF Inv, SendsOK
<1>4. /\ \A s \in new : \E p \in open, i \in 1 .. n :
             s = [to |-> IF kind = "broadcast" THEN p ELSE q, of |-> m, by |-> i, cast |-> kind = "broadcast"]
      /\ kind = "broadcast" => \A p \in open, i \in 1 .. n : [to |-> p, of |-> m, by |-> i, cast |-> TRUE] \in new
      /\ kind # "broadcast" => \A i \in 1 .. n : [to |-> q, of |-> m, by |-> i, cast |-> FALSE] \in new
  BY AnswersSent
<1>5. /\ open \subseteq Peers /\ \A p \in open : ready[p] = "open"
      /\ \A p \in Peers : ready[p] = "open" => p \in open
  BY DEF Opened
<1>6. ASSUME NEW s \in new
      PROVE  /\ s \in Sends /\ s.of = m /\ s.by \in 1 .. n /\ s.to \in open
             /\ s.cast = (kind = "broadcast") /\ (~s.cast => s.to = q)
  <2>1. PICK p \in open, i \in 1 .. n :
             s = [to |-> IF kind = "broadcast" THEN p ELSE q, of |-> m, by |-> i, cast |-> kind = "broadcast"]
    BY <1>4
  <2> QED BY <1>2, <1>5, <2>1 DEF Sends
<1>7. WebTypeOK'
  BY <1>1, <1>6 DEF Inv, WebTypeOK
<1>8. SendsOK'
  <2>1. ASSUME NEW s \in sends'
        PROVE  s.of \in DOMAIN messages' /\ (~s.cast => s.to = messages'[s.of].from)
    BY <1>1, <1>3, <1>6 DEF Inv, SendsOK
  <2>2. ASSUME NEW s \in sends', NEW r \in sends', s.cast, ~r.cast, s.of = r.of PROVE s.by # r.by
    <3>1. CASE s \in sends /\ r \in sends
      BY <2>2, <3>1 DEF Inv, SendsOK
    <3>2. CASE s \in new /\ r \in new
      BY <1>6, <2>2, <3>2
    <3> QED BY <1>3, <1>6, <2>2, <3>1, <3>2
  <2> QED BY <2>1, <2>2 DEF SendsOK
<1>9. MessagesOK'
  BY <1>1, <1>5 DEF Inv, MessagesOK
<1>10. LogOK' /\ SocketsSettled'
  BY DEF Inv, LogOK, LoggedOK, SocketsSettled
<1>11. ASSUME NEW p \in Peers, NEW k \in Messages, k # m PROVE FrameOK(p, k)'
  <2>1. FrameOK(p, k)
    BY DEF Inv, FramesOK
  <2>2. \A s \in sends' : s.of = k => s \in sends
    BY <1>6, <1>11
  <2>3. Casts(p, k)' = Casts(p, k) /\ Echoes(p, k)' = Echoes(p, k) /\ Left(k)' = Left(k)
    BY <2>2 DEF Casts, Echoes, Left
  <2>4. k \in DOMAIN messages' <=> k \in DOMAIN messages
    BY <1>1, <1>11 DEF Messages
  <2>5. CASE k \in DOMAIN messages
    <3>1. messages'[k] = messages[k]
      BY <1>1, <2>5
    <3>2. Due(p, k)' = Due(p, k) /\ Meant(p, k)' = Meant(p, k)
      BY <2>3, <3>1 DEF Due, Meant
    <3> QED BY <2>1, <2>2, <2>4, <2>5, <3>1, <3>2 DEF FrameOK
  <2>6. CASE k \notin DOMAIN messages
    BY <2>1, <2>2, <2>4, <2>6 DEF FrameOK
  <2> QED BY <2>5, <2>6
<1>12. ASSUME NEW p \in Peers PROVE FrameOK(p, m)'
  <2>1. FrameOK(p, m) /\ m \notin DOMAIN messages
    BY <1>1 DEF Inv, FramesOK
  <2>2. received'[<<p, m>>] = 0
    BY <2>1 DEF FrameOK
  <2>3. m \in DOMAIN messages' /\ messages'[m].from = q /\ messages'[m].kind = kind /\ messages'[m].audience = open
    BY <1>1
  <2>4. CASE p \notin open
    <3>1. \A s \in sends' : s.of = m => s.to # p
      BY <1>3, <1>6, <2>4
    <3> QED BY <2>2, <2>3, <2>4, <3>1 DEF FrameOK
  <2>5. CASE p \in open
    <3>1. Casts(p, m)' = IF kind = "broadcast" THEN 1 .. n ELSE {}
      <4>1. ASSUME NEW i \in Listeners
            PROVE  [to |-> p, of |-> m, by |-> i, cast |-> TRUE] \in sends' <=> kind = "broadcast" /\ i \in 1 .. n
        BY <1>3, <1>4, <1>6, <2>5
      <4> QED BY <1>2, <4>1 DEF Casts
    <3>2. Echoes(p, m)' = IF kind = "broadcast" \/ p # q THEN {} ELSE 1 .. n
      <4>1. ASSUME NEW i \in Listeners
            PROVE  [to |-> p, of |-> m, by |-> i, cast |-> FALSE] \in sends'
                       <=> kind # "broadcast" /\ p = q /\ i \in 1 .. n
        BY <1>3, <1>4, <1>6, <2>5
      <4> QED BY <1>2, <4>1 DEF Echoes
    <3>3. Left(m)' = IF kind = "broadcast" THEN 1 .. n ELSE {}
      <4>1. ASSUME NEW i \in Listeners
            PROVE  (\E s \in sends' : s.cast /\ s.of = m /\ s.by = i) <=> kind = "broadcast" /\ i \in 1 .. n
        <5>1. ASSUME kind = "broadcast", i \in 1 .. n PROVE \E s \in sends' : s.cast /\ s.of = m /\ s.by = i
          <6>1. [to |-> p, of |-> m, by |-> i, cast |-> TRUE] \in sends'
            BY <1>4, <2>5, <5>1
          <6> QED BY <6>1
        <5> QED BY <1>3, <1>6, <5>1
      <4> QED BY <1>2, <4>1 DEF Left
    <3>4. Cardinality({}) = 0
      BY FS_EmptySet
    <3>5. Due(p, m)' = IF kind = "broadcast" THEN (IF p = q THEN 2 * n ELSE n) ELSE (IF p = q THEN n ELSE 0)
      <4>1. Due(p, m)' = Cardinality(Casts(p, m)') + Cardinality(Echoes(p, m)') +
                         IF p = q THEN Cardinality(Left(m)') ELSE 0
        BY <2>3 DEF Due
      <4>2. CASE kind = "broadcast"
        <5>1. Casts(p, m)' = 1 .. n /\ Echoes(p, m)' = {} /\ Left(m)' = 1 .. n
          BY <3>1, <3>2, <3>3, <4>2
        <5>2. Cardinality(Casts(p, m)') = n /\ Cardinality(Echoes(p, m)') = 0 /\ Cardinality(Left(m)') = n
          BY <1>2, <3>4, <5>1
        <5> QED BY <1>2, <4>1, <4>2, <5>2
      <4>3. CASE kind # "broadcast"
        <5>1. Casts(p, m)' = {} /\ Echoes(p, m)' = (IF p # q THEN {} ELSE 1 .. n) /\ Left(m)' = {}
          BY <3>1, <3>2, <3>3, <4>3
        <5>2. /\ Cardinality(Casts(p, m)') = 0 /\ Cardinality(Left(m)') = 0
              /\ Cardinality(Echoes(p, m)') = IF p # q THEN 0 ELSE n
          BY <1>2, <3>4, <5>1
        <5> QED BY <1>2, <4>1, <4>3, <5>2
      <4> QED BY <4>2, <4>3
    <3>6. Meant(p, m)' = Due(p, m)'
      BY <2>3, <3>5 DEF Meant
    <3>7. Due(p, m)' \in Nat
      BY <1>2, <3>5
    <3> QED BY <2>2, <2>3, <2>5, <3>6, <3>7 DEF FrameOK
  <2> QED BY <2>4, <2>5
<1>13. FramesOK'
  BY <1>11, <1>12 DEF FramesOK
<1> QED BY <1>7, <1>8, <1>9, <1>10, <1>13 DEF Inv

LEMMA MessageComesKeeps ==
    ASSUME Inv, NEW q \in Peers, NEW kind \in {"response", "broadcast"}, MessageComes(q, kind)
    PROVE  Inv'
<1>1. PICK m, n, open, new, message :
          /\ m = Len(messages) + 1 /\ n = copies[q] /\ open = Opened /\ new = Answers(q, kind, m, n)
          /\ message = [from |-> q, kind |-> kind, audience |-> open]
  OBVIOUS
<1>2. /\ m \in Messages /\ q \in open
      /\ messages' = Append(messages, message) /\ sends' = sends \cup new
      /\ UNCHANGED <<registered, ready, url, copies, received, serving, journal>>
  BY <1>1 DEF MessageComes, Opened, Answers
<1>3. n \in 0 .. MaxListens
  BY <1>1 DEF Inv, WebTypeOK
<1> QED BY <1>1, <1>2, <1>3, MessageAdded

------------------------------------------------------------------------------
(* A send ends. *)

\* One send s goes and, when it was the last of its broadcast, the one of the listener to the
\* sender f of the message comes: what is due to any peer but s.to does not grow, and shrinks
\* only for a sender that went away; to s.to it shrinks by the one that went.
Goes(s, m, i, f, echo, echoed) ==
    /\ m = s.of /\ i = s.by /\ f = messages[m].from
    /\ echo = [to |-> f, of |-> m, by |-> i, cast |-> FALSE]
    /\ echoed \in BOOLEAN /\ echoed = (BroadcastOver(s) /\ ready[f] = "open")
    /\ sends' = (sends \ {s}) \cup (IF echoed THEN {echo} ELSE {})
    /\ messages' = messages

LEMMA DueAfterSend ==
    ASSUME Inv, NEW s \in sends, NEW m, NEW i, NEW f, NEW echo, NEW echoed, Goes(s, m, i, f, echo, echoed),
           NEW p \in Peers
    PROVE  /\ Due(p, m)' <= Due(p, m) - IF p = s.to THEN 1 ELSE 0
           /\ ready[p] = "open" => Due(p, m)' = Due(p, m) - IF p = s.to THEN 1 ELSE 0
<1> USE DEF Goes
<1> DEFINE c == Cardinality(Casts(p, m))
           e == Cardinality(Echoes(p, m))
           l == Cardinality(Left(m))
<1>1. /\ s \in Sends /\ i \in Listeners /\ m \in DOMAIN messages /\ f \in Peers
      /\ s = [to |-> s.to, of |-> m, by |-> i, cast |-> s.cast] /\ s.cast \in BOOLEAN
  <2>1. s \in Sends /\ m \in DOMAIN messages /\ messages \in Seq(Sent)
    BY DEF Inv, WebTypeOK, SendsOK
  <2> QED BY <2>1, MessageTyped DEF Sends
<1>2. c \in Nat /\ e \in Nat /\ l \in Nat /\ Due(p, m) = c + e + IF p = f THEN l ELSE 0
  BY DueIsNat DEF Due
<1>3. Due(p, m)' = Cardinality(Casts(p, m)') + Cardinality(Echoes(p, m)') +
                   IF p = f THEN Cardinality(Left(m)') ELSE 0
  BY DEF Due
<1>4. Casts(p, m) \subseteq Listeners /\ Echoes(p, m) \subseteq Listeners /\ Left(m) \subseteq Listeners
  BY DEF Casts, Echoes, Left
<1>5. CASE ~s.cast
  <2>1. echoed = FALSE /\ sends' = sends \ {s} /\ s.to = f
    BY <1>5 DEF BroadcastOver, Inv, SendsOK
  <2>2. s = [to |-> f, of |-> m, by |-> i, cast |-> FALSE]
    BY <1>1, <1>5, <2>1
  <2>3. Casts(p, m)' = Casts(p, m)
    BY <2>1, <2>2 DEF Casts
  <2>4. Left(m)' = Left(m)
    BY <1>5, <2>1 DEF Left
  <2>5. CASE p = f
    <3>1. i \in Echoes(p, m) /\ Echoes(p, m)' = Echoes(p, m) \ {i}
      <4>1. ASSUME NEW j \in Listeners
            PROVE  [to |-> p, of |-> m, by |-> j, cast |-> FALSE] \in sends'
                       <=> j # i /\ [to |-> p, of |-> m, by |-> j, cast |-> FALSE] \in sends
        <5>1. CASE j = i
          <6>1. [to |-> p, of |-> m, by |-> j, cast |-> FALSE] = s
            BY <2>1, <2>2, <2>5, <5>1
          <6> QED BY <2>1, <2>2, <2>5, <5>1, <6>1
        <5>2. CASE j # i
          <6>1. [to |-> p, of |-> m, by |-> j, cast |-> FALSE] # s
            BY <2>1, <2>2, <2>5, <5>2
          <6> QED BY <2>1, <2>2, <2>5, <5>2, <6>1
        <5> QED BY <5>1, <5>2
      <4>2. i \in Echoes(p, m)
        BY <1>1, <2>1, <2>2, <2>5 DEF Echoes
      <4> QED BY <4>1, <4>2 DEF Echoes
    <3>2. Cardinality(Echoes(p, m)') = e - 1
      BY <1>1, <1>4, <3>1, OneListener
    <3> QED BY <1>2, <1>3, <2>1, <2>3, <2>4, <2>5, <3>2
  <2>6. CASE p # f
    <3>1. Echoes(p, m)' = Echoes(p, m)
      BY <2>1, <2>2, <2>6 DEF Echoes
    <3> QED BY <1>2, <1>3, <2>1, <2>3, <2>6, <3>1
  <2> QED BY <2>5, <2>6
<1>6. CASE s.cast
  <2>1. s = [to |-> s.to, of |-> m, by |-> i, cast |-> TRUE]
    BY <1>1, <1>6
  <2>2. Cardinality(Casts(p, m)') = c - IF p = s.to THEN 1 ELSE 0
    <3>1. CASE p = s.to
      <4>1. i \in Casts(p, m) /\ Casts(p, m)' = Casts(p, m) \ {i}
        <5>1. ASSUME NEW j \in Listeners
              PROVE  [to |-> p, of |-> m, by |-> j, cast |-> TRUE] \in sends'
                         <=> j # i /\ [to |-> p, of |-> m, by |-> j, cast |-> TRUE] \in sends
          <6>1. CASE j = i
            <7>1. [to |-> p, of |-> m, by |-> j, cast |-> TRUE] = s
              BY <1>1, <2>1, <3>1, <6>1
            <7> QED BY <1>1, <2>1, <3>1, <6>1, <7>1
          <6>2. CASE j # i
            <7>1. [to |-> p, of |-> m, by |-> j, cast |-> TRUE] # s
              BY <1>1, <2>1, <3>1, <6>2
            <7> QED BY <1>1, <2>1, <3>1, <6>2, <7>1
          <6> QED BY <6>1, <6>2
        <5>2. i \in Casts(p, m)
          BY <1>1, <2>1, <3>1 DEF Casts
        <5> QED BY <5>1, <5>2 DEF Casts
      <4> QED BY <1>1, <1>4, <3>1, <4>1, OneListener
    <3>2. CASE p # s.to
      <4>1. Casts(p, m)' = Casts(p, m)
        BY <2>1, <3>2 DEF Casts
      <4> QED BY <1>2, <3>2, <4>1
    <3> QED BY <3>1, <3>2
  <2>3. Cardinality(Echoes(p, m)') = e + IF echoed /\ p = f THEN 1 ELSE 0
    <3>1. CASE echoed /\ p = f
      <4>1. i \notin Echoes(p, m)
        BY <1>1, <1>6 DEF Echoes, Inv, SendsOK
      <4>2. Echoes(p, m)' = Echoes(p, m) \cup {i}
        BY <1>1, <2>1, <3>1 DEF Echoes
      <4> QED BY <1>1, <1>4, <3>1, <4>1, <4>2, OneListener
    <3>2. CASE ~(echoed /\ p = f)
      <4>1. Echoes(p, m)' = Echoes(p, m)
        BY <2>1, <3>2 DEF Echoes
      <4> QED BY <1>2, <3>2, <4>1
    <3> QED BY <3>1, <3>2
  <2>4. Cardinality(Left(m)') = l - IF BroadcastOver(s) THEN 1 ELSE 0
    <3>1. i \in Left(m)
      BY <1>1, <1>6 DEF Left
    <3>2. CASE BroadcastOver(s)
      <4>1. Left(m)' = Left(m) \ {i}
        <5>1. ASSUME NEW j \in Listeners
              PROVE  (\E r \in sends' : r.cast /\ r.of = m /\ r.by = j)
                         <=> j # i /\ \E r \in sends : r.cast /\ r.of = m /\ r.by = j
          <6>1. ASSUME NEW r \in sends', r.cast, r.of = m PROVE r \in sends /\ r # s /\ r.by # i
            BY <3>2, <6>1 DEF BroadcastOver
          <6>2. ASSUME NEW r \in sends, r.cast, r.of = m, r.by # i PROVE r \in sends'
            BY <6>2
          <6> QED BY <6>1, <6>2
        <5> QED BY <5>1 DEF Left
      <4> QED BY <1>1, <1>4, <3>1, <3>2, <4>1, OneListener
    <3>3. CASE ~BroadcastOver(s)
      <4>1. sends' = sends \ {s}
        BY <3>3
      <4>2. PICK r \in sends \ {s} : r.cast /\ r.of = m /\ r.by = i
        BY <1>6, <3>3 DEF BroadcastOver
      <4>3. Left(m)' = Left(m)
        BY <1>1, <1>6, <4>1, <4>2 DEF Left
      <4> QED BY <1>2, <3>3, <4>3
    <3> QED BY <3>2, <3>3
  <2> HIDE DEF c, e, l
  <2>5. echoed => BroadcastOver(s)
    OBVIOUS
  <2>6. BroadcastOver(s) /\ ready[f] = "open" => echoed
    OBVIOUS
  <2>7. CASE p # f
    BY <1>2, <1>3, <2>2, <2>3, <2>7
  <2>8. CASE p = f
    BY <1>2, <1>3, <2>2, <2>3, <2>4, <2>5, <2>6, <2>8
  <2> QED BY <2>7, <2>8
<1> QED BY <1>1, <1>5, <1>6

\* A frame that is sent to a client that is open is received, one that is sent to a client
\* that is closing may be, and what is sent again goes to the sender of the message.
LEMMA SendGone ==
    ASSUME Inv, NEW s \in sends, NEW m, NEW i, NEW f, NEW echo, NEW echoed, Goes(s, m, i, f, echo, echoed),
           NEW n \in 0 .. 1, ready[s.to] = "open" => n = 1,
           received' = [received EXCEPT ![<<s.to, m>>] = @ + n],
           UNCHANGED <<registered, ready, url, copies, serving, journal>>
    PROVE  Inv'
<1>0. \A p \in Peers :
         /\ Due(p, m)' <= Due(p, m) - IF p = s.to THEN 1 ELSE 0
         /\ ready[p] = "open" => Due(p, m)' = Due(p, m) - IF p = s.to THEN 1 ELSE 0
  BY DueAfterSend
<1> USE DEF Goes
<1>1. /\ s \in Sends /\ s.to \in Peers /\ i \in Listeners /\ m \in Messages /\ m \in DOMAIN messages
      /\ f \in Peers /\ f \in messages[m].audience /\ echo \in Sends
  <2>1. s \in Sends /\ m \in DOMAIN messages /\ messages \in Seq(Sent) /\ f \in messages[m].audience
    BY DEF Inv, WebTypeOK, SendsOK, MessagesOK
  <2> QED BY <2>1, MessageTyped DEF Sends
<1>2. ASSUME NEW r \in sends', r \notin sends
      PROVE  echoed /\ r = echo /\ s.cast /\ r.to = f /\ r.of = m /\ r.by = i /\ r.cast = FALSE
  <2>1. echoed /\ r = echo
    BY <1>2
  <2> QED BY <2>1 DEF BroadcastOver
<1>3. WebTypeOK'
  <2>1. received' \in [Peers \X Messages -> Nat]
    BY <1>1 DEF Inv, WebTypeOK
  <2> QED BY <1>1, <2>1 DEF Inv, WebTypeOK
<1>4. SendsOK'
  <2>1. ASSUME NEW r \in sends'
        PROVE  r.of \in DOMAIN messages' /\ (~r.cast => r.to = messages'[r.of].from)
    BY <1>1, <1>2 DEF Inv, SendsOK
  <2>2. ASSUME NEW r \in sends', NEW t \in sends', r.cast, ~t.cast, r.of = t.of PROVE r.by # t.by
    <3>1. r # echo
      BY <2>2
    <3>2. r \in sends /\ r # s
      BY <2>2, <3>1
    <3>3. CASE t \in sends
      BY <2>2, <3>2, <3>3 DEF Inv, SendsOK
    <3>4. CASE t \notin sends
      <4>1. t.of = m /\ t.by = i /\ BroadcastOver(s)
        BY <1>2, <3>4
      <4>2. r \in sends \ {s}
        BY <3>2
      <4> QED BY <2>2, <4>1, <4>2 DEF BroadcastOver
    <3> QED BY <3>3, <3>4
  <2> QED BY <2>1, <2>2 DEF SendsOK
<1>5. MessagesOK' /\ LogOK' /\ SocketsSettled'
  BY DEF Inv, MessagesOK, LogOK, LoggedOK, SocketsSettled
<1>6. ASSUME NEW p \in Peers, NEW k \in Messages, k # m PROVE FrameOK(p, k)'
  <2>1. FrameOK(p, k) /\ received'[<<p, k>>] = received[<<p, k>>]
    BY <1>1, <1>6 DEF Inv, FramesOK, WebTypeOK
  <2>2. \A r : r.of = k => (r \in sends' <=> r \in sends)
    BY <1>2, <1>6
  <2>3. Casts(p, k)' = Casts(p, k) /\ Echoes(p, k)' = Echoes(p, k)
    BY <2>2 DEF Casts, Echoes
  <2>4. Left(k)' = Left(k)
    BY <2>2 DEF Left
  <2>5. Due(p, k)' = Due(p, k) /\ Meant(p, k)' = Meant(p, k)
    BY <2>3, <2>4 DEF Due, Meant
  <2> QED BY <2>1, <2>2, <2>5 DEF FrameOK
<1>7. ASSUME NEW p \in Peers PROVE FrameOK(p, m)'
  <2> DEFINE gone == IF p = s.to THEN 1 ELSE 0
  <2>1. FrameOK(p, m) /\ received[<<p, m>>] \in Nat
    BY <1>1 DEF Inv, FramesOK, WebTypeOK
  <2>2. received'[<<p, m>>] = received[<<p, m>>] + IF p = s.to THEN n ELSE 0
    <3>1. received \in [Peers \X Messages -> Nat] /\ <<p, m>> \in Peers \X Messages
      BY <1>1 DEF Inv, WebTypeOK
    <3>2. CASE p = s.to
      BY <3>1, <3>2
    <3>3. CASE p # s.to
      <4>1. <<p, m>> # <<s.to, m>>
        BY <3>3
      <4> QED BY <2>1, <3>1, <3>3, <4>1
    <3> QED BY <3>2, <3>3
  <2>3. CASE p \notin messages[m].audience
    <3>1. p # s.to /\ p # f
      BY <1>1, <2>1, <2>3 DEF FrameOK
    <3>2. received[<<p, m>>] = 0 /\ \A r \in sends : r.of = m => r.to # p
      BY <2>1, <2>3 DEF FrameOK
    <3>3. \A r \in sends' : r.of = m => r.to # p
      BY <1>2, <3>1, <3>2
    <3> QED BY <2>2, <2>3, <3>1, <3>2, <3>3 DEF FrameOK
  <2>4. CASE p \in messages[m].audience
    <3>1. /\ received[<<p, m>>] + Due(p, m) <= Meant(p, m)
          /\ ready[p] = "open" => received[<<p, m>>] + Due(p, m) = Meant(p, m)
      BY <1>1, <2>1, <2>4 DEF FrameOK
    <3>2. /\ Due(p, m)' <= Due(p, m) - gone
          /\ ready[p] = "open" => Due(p, m)' = Due(p, m) - gone
      BY <1>0
    <3>3. Due(p, m) \in Nat /\ Due(p, m)' \in Nat /\ Meant(p, m) \in Nat /\ Meant(p, m)' = Meant(p, m)
      <4>1. Due(p, m) \in Nat
        BY DueIsNat
      <4>2. Due(p, m)' \in Nat
        <5>1. /\ Casts(p, m)' \subseteq Listeners /\ Echoes(p, m)' \subseteq Listeners
              /\ Left(m)' \subseteq Listeners
          BY DEF Casts, Echoes, Left
        <5>2. /\ Cardinality(Casts(p, m)') \in Nat /\ Cardinality(Echoes(p, m)') \in Nat
              /\ Cardinality(Left(m)') \in Nat
          BY <5>1, Countable
        <5> QED BY <5>2 DEF Due
      <4>3. Meant(p, m)' = Meant(p, m)
        BY DEF Meant
      <4>4. copies[f] \in Nat
        BY <1>1, MappingAssumption DEF Inv, WebTypeOK
      <4>5. Meant(p, m) \in Nat
        BY <4>4 DEF Meant
      <4> QED BY <4>1, <4>2, <4>3, <4>5
    <3>4. /\ received'[<<p, m>>] + Due(p, m)' <= Meant(p, m)'
          /\ ready[p] = "open" => received'[<<p, m>>] + Due(p, m)' = Meant(p, m)'
      <4>1. CASE p = s.to
        BY <2>1, <2>2, <3>1, <3>2, <3>3, <4>1
      <4>2. CASE p # s.to
        BY <2>1, <2>2, <3>1, <3>2, <3>3, <4>2
      <4> QED BY <4>1, <4>2
    <3> QED BY <1>1, <2>4, <3>4 DEF FrameOK
  <2> QED BY <2>3, <2>4
<1>8. FramesOK'
  BY <1>6, <1>7 DEF FramesOK
<1> QED BY <1>3, <1>4, <1>5, <1>8 DEF Inv

LEMMA SendEndsKeeps == ASSUME Inv, NEW s \in sends, SendEnds(s) PROVE Inv'
<1>1. PICK m, i, f, echo, echoed :
          /\ m = s.of /\ i = s.by /\ f = messages[m].from
          /\ echo = [to |-> f, of |-> m, by |-> i, cast |-> FALSE]
          /\ echoed = (BroadcastOver(s) /\ ready[f] = "open")
  OBVIOUS
<1>2. sends' = (sends \ {s}) \cup (IF echoed THEN {echo} ELSE {})
  BY <1>1 DEF SendEnds, EmitEvent
<1>3. PICK n \in 0 .. 1 : /\ ready[s.to] = "open" => n = 1
                         /\ received' = [received EXCEPT ![<<s.to, m>>] = @ + n]
  BY <1>1 DEF SendEnds
<1>4. UNCHANGED <<registered, ready, url, copies, messages, serving, journal>>
  BY DEF SendEnds
<1>5. Goes(s, m, i, f, echo, echoed)
  BY <1>1, <1>2, <1>4 DEF Goes
<1> QED BY <1>3, <1>4, <1>5, SendGone

------------------------------------------------------------------------------
(* Theorems. *)

\* The invariant holds throughout: frames are conserved between what was received, what is
\* due and what is meant, and the log keeps up with the sockets.
THEOREM WebInvariance == WebSpec => []Inv
<1>1. ASSUME Inv, [WebNext]_webVars PROVE Inv'
  <2>1. CASE ListenAgain \/ ServerCloses \/ ServerClosed
    BY <1>1, <2>1, ListenAgainKeeps, ServerClosesKeeps, ServerClosedKeeps
  <2>2. ASSUME NEW p \in Peers, NEW path \in Urls, NEW websocket \in BOOLEAN, Upgrade(p, path, websocket)
        PROVE  Inv'
    BY <1>1, <2>2, UpgradeKeeps
  <2>3. ASSUME NEW p \in Peers, ClientCloses(p) \/ ClientClosed(p) PROVE Inv'
    BY <1>1, <2>3, ClientClosesKeeps, ClientClosedKeeps
  <2>4. ASSUME NEW p \in Peers, NEW kind \in {"response", "broadcast"}, MessageComes(p, kind) PROVE Inv'
    BY <1>1, <2>4, MessageComesKeeps
  <2>5. ASSUME NEW s \in sends, SendEnds(s) PROVE Inv'
    BY <1>1, <2>5, SendEndsKeeps
  <2>6. CASE UNCHANGED webVars
    BY <1>1, <2>6, StutterKeeps
  <2> QED BY <1>1, <2>1, <2>2, <2>3, <2>4, <2>5, <2>6 DEF WebNext
<1> QED BY InitInv, <1>1, PTL DEF WebSpec

\* Every variable of the server keeps its type.
THEOREM WebTypeCorrect == WebSpec => []WebTypeOK
<1>1. Inv => WebTypeOK
  BY DEF Inv
<1> QED BY WebInvariance, <1>1, PTL

\* Who is open gets every frame that is meant for him, and nobody more than that, whoever goes
\* away while a broadcast is under way; each client that is handled is logged as it comes and
\* goes; and only what is not for a WebSocket server is left alone. (broadcast, sendResponse,
\* statusLogger$, mapToServer)
THEOREM ResponsesAreSound == WebSpec => []ResponsesSound
<1>1. ASSUME Inv PROVE FramesReach
  <2> SUFFICES ASSUME NEW m \in DOMAIN messages, NEW p \in Peers
               PROVE  /\ received[<<p, m>>] <= IF p \in messages[m].audience THEN Meant(p, m) ELSE 0
                      /\ p \in messages[m].audience /\ ready[p] = "open" /\ (\A s \in sends : s.of # m) =>
                            received[<<p, m>>] = Meant(p, m)
    BY DEF FramesReach
  <2>1. m \in Messages /\ messages[m].from \in Peers
    BY <1>1, MessageTyped DEF Inv, WebTypeOK, MessagesOK
  <2>2. FrameOK(p, m) /\ received[<<p, m>>] \in Nat
    BY <1>1, <2>1 DEF Inv, FramesOK, WebTypeOK
  <2>3. Due(p, m) \in Nat /\ ((\A s \in sends : s.of # m) => Due(p, m) = 0)
    <3>1. Due(p, m) \in Nat
      BY DueIsNat
    <3>2. ASSUME \A s \in sends : s.of # m PROVE Due(p, m) = 0
      <4>1. Casts(p, m) = {} /\ Echoes(p, m) = {} /\ Left(m) = {}
        BY <3>2 DEF Casts, Echoes, Left
      <4> QED BY <4>1, FS_EmptySet DEF Due
    <3> QED BY <3>1, <3>2
  <2>4. Meant(p, m) \in Nat
    <3>1. copies[messages[m].from] \in Nat
      BY <1>1, <2>1, MappingAssumption DEF Inv, WebTypeOK
    <3> QED BY <3>1 DEF Meant
  <2> QED BY <2>2, <2>3, <2>4 DEF FrameOK
<1>2. ASSUME Inv PROVE ClientsLogged
  <2> SUFFICES ASSUME NEW p \in Peers
               PROVE  /\ journal[p].connected \in {0, copies[p]} /\ journal[p].closed \in {0, copies[p]}
                      /\ journal[p].closed > 0 => ready[p] = "closed" /\ journal[p].connected > 0
                      /\ serving # "closed" =>
                            /\ journal[p].connected = copies[p]
                            /\ ready[p] = "closed" => journal[p].closed = copies[p]
    BY DEF ClientsLogged
  <2> QED BY <1>2 DEF Inv, LogOK, LoggedOK
<1>3. Inv => ResponsesSound
  BY <1>1, <1>2 DEF Inv, ResponsesSound
<1> QED BY WebInvariance, <1>3, PTL
=============================================================================
