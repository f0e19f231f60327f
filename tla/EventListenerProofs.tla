-------------------------- MODULE EventListenerProofs --------------------------
(***************************************************************************)
(* Proofs about EventListener, for any number of effects and events and    *)
(* every transport.  What was handed to the effects is in order because    *)
(* what is on the stack, and what waits, may still be handed to them: the  *)
(* invariant relates the three, and on the local bus the events of the     *)
(* stack are each emitted for the one below.  The same invariant keeps     *)
(* what waits apart from what was handled and from what an error dropped.  *)
(***************************************************************************)
EXTENDS EventListener, TLAPS

Deliveries == [ev : Events, at : Nat]
Failures == [where : 0 .. NEffects, cut : SUBSET Events, report : Reports]

\* The variables of the listener, with their types.
TypeOK ==
    /\ transport \in Transports
    /\ born \in 0 .. MaxEvents
    /\ parent \in [Events -> 0 .. MaxEvents]
    /\ queue \in Seq(Events)
    /\ stack \in Seq(Deliveries)
    /\ seen \in [Effects -> Seq(Events)]
    /\ working \subseteq Effects \X Events
    /\ lost \subseteq Effects \X Events
    /\ streams \subseteq Streams
    /\ failures \in Seq(Failures)

\* The events on a stack of deliveries, and those that some effect was handed or may
\* still be handed by it.
EventsOf(deliveries) == {deliveries[k].ev : k \in DOMAIN deliveries}
Known(handed, deliveries) ==
    EventsOf(deliveries) \cup UNION {Range(handed[i]) : i \in Effects}

\* An effect may be handed "then" after "first".
Follows(first, then) ==
    \/ first < then
    \/ /\ transport = "local"
       /\ parent[first] # 0
       /\ then \in Ancestors(first) \/ parent[then] = 0

\* What waits may follow what is known.
Waits(first, then) == first < then \/ (transport = "local" /\ parent[first] # 0)

\* Events come up one after the other, each for an earlier one; those that wait, are
\* worked on, or were dropped by the incoming stream are apart.
EventsOK ==
    /\ \A e \in Events : parent[e] < e /\ (e > born => parent[e] = 0)
    /\ \A m, n \in DOMAIN queue : m < n => queue[m] < queue[n]
    /\ \A n \in DOMAIN queue :
          queue[n] <= born /\ (transport = "local" => parent[queue[n]] = 0)
    /\ \A w \in working : w[2] <= born
    /\ \A n \in DOMAIN failures : failures[n].where = Incoming =>
          /\ \A e \in failures[n].cut : e <= born
          /\ failures[n].cut \cap Range(queue) = {}

\* What the effects were handed, and the stack that hands them more.
HandedOK(handed, deliveries) ==
    /\ handed \in [Effects -> Seq(Events)]
    /\ deliveries \in Seq(Deliveries)
    /\ \A y \in Known(handed, deliveries) :
          /\ y <= born
          /\ \A n \in DOMAIN queue : Waits(y, queue[n])
          /\ \A n \in DOMAIN failures : failures[n].where = Incoming => y \notin failures[n].cut
    /\ \A i \in Effects : \A m, n \in DOMAIN handed[i] :
          m < n => Follows(handed[i][m], handed[i][n])
    /\ \A k \in DOMAIN deliveries : \A i \in Effects : i >= deliveries[k].at =>
          \A y \in Range(handed[i]) : Follows(y, deliveries[k].ev)
    /\ \A j, k \in DOMAIN deliveries : j < k =>
          /\ transport = "local"
          /\ parent[deliveries[j].ev] # 0
          /\ deliveries[k].ev \in Ancestors(deliveries[j].ev)

\* Errors are accounted for: the error stream is only missing after it failed, and work
\* is only lost to an effect that does not guard.
ErrorsOK ==
    /\ Closed => Idle /\ working = {}
    /\ "error" \in streams \/ Closed \/
          (transport # "websocket" /\ \E n \in DOMAIN failures : failures[n].report = "broken")
    /\ FailuresAreReported
    /\ lost # {} => \E n \in DOMAIN failures : failures[n].where \in Effects \ Guarded
    /\ \A n \in DOMAIN failures : failures[n].where \notin Guarded

Inv == TypeOK /\ EventsOK /\ HandedOK(seen, stack) /\ ErrorsOK

-----------------------------------------------------------------------------
\* Sequences.

\* Appending to a sequence.
LEMMA Appended ==
    ASSUME NEW S, NEW s \in Seq(S), NEW x \in S
    PROVE  /\ Append(s, x) \in Seq(S)
           /\ Len(s) \in Nat /\ DOMAIN s = 1 .. Len(s)
           /\ DOMAIN Append(s, x) = 1 .. Len(s) + 1
           /\ \A n \in DOMAIN s : Append(s, x)[n] = s[n]
           /\ Append(s, x)[Len(s) + 1] = x
           /\ Range(Append(s, x)) = Range(s) \cup {x}
<1>1. /\ Append(s, x) \in Seq(S)
      /\ Len(s) \in Nat /\ DOMAIN s = 1 .. Len(s)
      /\ DOMAIN Append(s, x) = 1 .. Len(s) + 1
      /\ \A n \in DOMAIN s : Append(s, x)[n] = s[n]
      /\ Append(s, x)[Len(s) + 1] = x
  OBVIOUS
<1>2. Range(Append(s, x)) = Range(s) \cup {x}
  <2>1. Range(Append(s, x)) \subseteq Range(s) \cup {x}
    BY <1>1 DEF Range
  <2>2. Len(s) + 1 \in DOMAIN Append(s, x) /\ \A n \in DOMAIN s : n \in DOMAIN Append(s, x)
    BY <1>1
  <2>3. Range(s) \cup {x} \subseteq Range(Append(s, x))
    BY <1>1, <2>2 DEF Range
  <2> QED BY <2>1, <2>3
<1> QED BY <1>1, <1>2

\* Pushing on a sequence.
LEMMA Pushed ==
    ASSUME NEW S, NEW x \in S, NEW s \in Seq(S)
    PROVE  /\ <<x>> \o s \in Seq(S)
           /\ Len(s) \in Nat /\ DOMAIN s = 1 .. Len(s)
           /\ DOMAIN (<<x>> \o s) = 1 .. Len(s) + 1
           /\ (<<x>> \o s)[1] = x
           /\ \A n \in 2 .. Len(s) + 1 : (<<x>> \o s)[n] = s[n - 1]
OBVIOUS

\* Popping a sequence.
LEMMA Popped ==
    ASSUME NEW S, NEW s \in Seq(S), s # <<>>
    PROVE  /\ Head(s) \in S /\ Head(s) = s[1] /\ 1 \in DOMAIN s
           /\ Tail(s) \in Seq(S)
           /\ Len(s) \in Nat \ {0} /\ DOMAIN s = 1 .. Len(s)
           /\ DOMAIN Tail(s) = 1 .. Len(s) - 1
           /\ \A n \in DOMAIN Tail(s) : Tail(s)[n] = s[n + 1] /\ n + 1 \in DOMAIN s
           /\ Range(Tail(s)) \subseteq Range(s)
<1>1. /\ Head(s) \in S /\ Head(s) = s[1] /\ 1 \in DOMAIN s
      /\ Tail(s) \in Seq(S)
      /\ Len(s) \in Nat \ {0} /\ DOMAIN s = 1 .. Len(s)
      /\ DOMAIN Tail(s) = 1 .. Len(s) - 1
      /\ \A n \in DOMAIN Tail(s) : Tail(s)[n] = s[n + 1] /\ n + 1 \in DOMAIN s
  OBVIOUS
<1>2. Range(Tail(s)) \subseteq Range(s)
  BY <1>1 DEF Range
<1> QED BY <1>1, <1>2

-----------------------------------------------------------------------------
\* New events.

\* A new event takes the next number.
LEMMA Spawned ==
    ASSUME TypeOK, NEW e \in 0 .. MaxEvents, e <= born, Spawn(e)
    PROVE  /\ born \in Nat /\ born' = born + 1 /\ born' \in Events /\ born' \in 0 .. MaxEvents
           /\ parent' \in [Events -> 0 .. MaxEvents]
           /\ parent'[born'] = e
           /\ \A x \in Events : x # born' => parent'[x] = parent[x]
           /\ \A x \in Events : x <= born <=> x < born'
           /\ \A x \in Events : x <= born => x # born' /\ x <= born'
<1>1. born \in Nat /\ MaxEvents \in Nat /\ born < MaxEvents /\ born' = born + 1
  BY ListenerAssumption DEF TypeOK, Spawn
<1>2. born' \in Events /\ born' \in 0 .. MaxEvents
  BY <1>1 DEF Events
<1>3. parent' = [parent EXCEPT ![born'] = e]
  BY DEF Spawn
<1> QED BY <1>1, <1>2, <1>3 DEF TypeOK, Events

\* It leaves the ancestors of the others as they are.
LEMMA AncestorsKept ==
    ASSUME TypeOK, EventsOK, NEW e \in 0 .. MaxEvents, e <= born, Spawn(e),
           NEW x \in Events, x <= born, NEW a \in Ancestors(x)
    PROVE  a \in Ancestors(x)'
<1>0. /\ born \in Nat /\ MaxEvents \in Nat
      /\ \A y \in Events : y <= born => parent'[y] = parent[y]
      /\ \A y \in Events : parent[y] \in Nat /\ parent[y] < y
      /\ \A y \in Events : y \in Nat
  <2>1. \A y \in Events : y <= born => parent'[y] = parent[y]
    BY Spawned
  <2>2. ASSUME NEW y \in Events PROVE parent[y] \in Nat /\ parent[y] < y /\ y \in Nat
    <3>1. y \in Nat
      BY DEF Events
    <3>2. parent[y] < y
      BY DEF EventsOK
    <3>3. parent[y] \in Nat
      BY DEF TypeOK
    <3> QED BY <3>1, <3>2, <3>3
  <2> QED BY <2>1, <2>2, ListenerAssumption DEF TypeOK
<1>1. SUFFICES ASSUME NEW family \in SUBSET (0 .. MaxEvents), parent'[x] \in family,
                      \A y \in family \ {0} : parent'[y] \in family
               PROVE  a \in family
  BY DEF Ancestors
<1> DEFINE old == {y \in family : y <= born}
<1>2. old \in SUBSET (0 .. MaxEvents)
  OBVIOUS
<1>3. parent[x] \in old
  BY <1>0, <1>1
<1>4. ASSUME NEW y \in old \ {0} PROVE parent[y] \in old
  <2>1. y \in Events /\ y <= born /\ y \in family
    BY <1>0, <1>1 DEF Events
  <2>2. parent'[y] = parent[y] /\ parent[y] \in family /\ parent[y] \in Nat /\ parent[y] < y
    BY <1>0, <1>1, <1>4, <2>1
  <2> QED BY <1>0, <2>1, <2>2
<1> HIDE DEF old
<1>5. a \in old
  BY <1>2, <1>3, <1>4 DEF Ancestors
<1> QED BY <1>5 DEF old

\* The ancestors of the new one are the event it is emitted for and its ancestors.
LEMMA AncestorsOfNew ==
    ASSUME TypeOK, EventsOK, NEW e \in Events, e <= born, Spawn(e), NEW new, new = born'
    PROVE  /\ e \in Ancestors(new)'
           /\ \A a \in Ancestors(e)' : a \in Ancestors(new)'
<1>0. parent'[new] = e /\ e # 0 /\ e \in 0 .. MaxEvents
  BY Spawned, ListenerAssumption DEF Events
<1> QED BY <1>0 DEF Ancestors

\* Nor does it change what may follow what.
LEMMA FollowsKept ==
    ASSUME TypeOK, EventsOK, NEW e \in 0 .. MaxEvents, e <= born, Spawn(e), transport' = transport,
           NEW x \in Events, x <= born, NEW y \in Events, y <= born, Follows(y, x)
    PROVE  Follows(y, x)'
<1>1. parent'[x] = parent[x] /\ parent'[y] = parent[y]
  BY Spawned
<1>2. x \in Ancestors(y) => x \in Ancestors(y)'
  BY AncestorsKept
<1> QED BY <1>1, <1>2 DEF Follows

-----------------------------------------------------------------------------
\* What the effects were handed.

\* Its events, and those of the stack, have come up.
LEMMA KnownType ==
    ASSUME NEW h \in [Effects -> Seq(Events)], NEW d \in Seq(Deliveries)
    PROVE  /\ Known(h, d) \subseteq Events
           /\ \A i \in Effects : \A m \in DOMAIN h[i] : h[i][m] \in Events /\ h[i][m] \in Known(h, d)
           /\ \A i \in Effects : Range(h[i]) \subseteq Known(h, d)
           /\ \A k \in DOMAIN d : d[k].ev \in Events /\ d[k].ev \in Known(h, d)
<1>1. \A i \in Effects : \A m \in DOMAIN h[i] : h[i][m] \in Events
  <2>1. \A i \in Effects : h[i] \in Seq(Events)
    OBVIOUS
  <2> QED BY <2>1
<1>2. \A k \in DOMAIN d : d[k].ev \in Events
  <2>1. \A k \in DOMAIN d : d[k] \in Deliveries
    OBVIOUS
  <2> QED BY <2>1 DEF Deliveries
<1> QED BY <1>1, <1>2 DEF Known, EventsOf, Range

\* Dropped events that no effect knows of, and a shorter queue, disturb nothing.
LEMMA HandedKept ==
    ASSUME NEW h, NEW d, HandedOK(h, d), UNCHANGED <<transport, born, parent>>,
           \A n \in DOMAIN queue' : \E m \in DOMAIN queue : queue'[n] = queue[m],
           \A n \in DOMAIN failures' : failures'[n].where = Incoming =>
              failures'[n].cut \cap Known(h, d) = {}
    PROVE  HandedOK(h, d)'
<1>1. \A y, x : Follows(y, x)' <=> Follows(y, x)
  BY DEF Follows, Ancestors
<1>2. \A x : Ancestors(x)' = Ancestors(x)
  BY DEF Ancestors
<1>3. \A y, x : Waits(y, x)' <=> Waits(y, x)
  BY DEF Waits
<1>4. \A y \in Known(h, d) :
          /\ y <= born'
          /\ \A n \in DOMAIN queue' : Waits(y, queue'[n])
          /\ \A n \in DOMAIN failures' : failures'[n].where = Incoming => y \notin failures'[n].cut
  BY DEF HandedOK
<1> QED BY <1>1, <1>2, <1>3, <1>4 DEF HandedOK

\* Nor does a new event, which may follow all others and, on the local bus, is emitted
\* for one of them or queues.
LEMMA HandedSpawn ==
    ASSUME TypeOK, EventsOK, NEW h, NEW d, HandedOK(h, d),
           NEW e \in 0 .. MaxEvents, e <= born, Spawn(e), transport' = transport,
           queue' \in {queue, Append(queue, born')},
           \A n \in DOMAIN failures' : failures'[n].where = Incoming =>
              failures'[n].cut \cap Known(h, d) = {}
    PROVE  HandedOK(h, d)'
<1>0. /\ h \in [Effects -> Seq(Events)] /\ d \in Seq(Deliveries)
      /\ born \in Nat /\ born' = born + 1 /\ born' \in Events
      /\ \A x \in Events : x <= born => parent'[x] = parent[x]
      /\ Known(h, d) \subseteq Events
      /\ \A x \in Events : x \in Nat
  <2>1. h \in [Effects -> Seq(Events)] /\ d \in Seq(Deliveries)
    BY DEF HandedOK
  <2>2. /\ born \in Nat /\ born' = born + 1 /\ born' \in Events
        /\ \A x \in Events : x <= born => parent'[x] = parent[x]
    BY Spawned
  <2>3. Known(h, d) \subseteq Events
    BY <2>1, KnownType
  <2> QED BY <2>1, <2>2, <2>3 DEF Events
<1>1. ASSUME NEW y \in Known(h, d) PROVE y \in Events /\ y <= born /\ y < born' /\ y <= born'
  <2>1. y \in Nat /\ y <= born
    BY <1>0 DEF HandedOK
  <2> QED BY <1>0, <2>1
<1>2. \A y, x \in Known(h, d) : Follows(y, x) => Follows(y, x)'
  BY <1>1, FollowsKept
<1>3. \A x \in Known(h, d) : \A a \in Ancestors(x) : a \in Ancestors(x)'
  BY <1>1, AncestorsKept
<1>4. ASSUME NEW y \in Known(h, d), NEW n \in DOMAIN queue' PROVE Waits(y, queue[n])'
  <2>1. queue'[n] = born' \/ (n \in DOMAIN queue /\ queue'[n] = queue[n])
    <3>1. CASE queue' = queue
      BY <3>1, <1>4
    <3>2. CASE queue' = Append(queue, born')
      <4>1. /\ Len(queue) \in Nat /\ DOMAIN queue = 1 .. Len(queue)
            /\ DOMAIN queue' = 1 .. Len(queue) + 1
            /\ \A m \in DOMAIN queue : queue'[m] = queue[m]
            /\ queue'[Len(queue) + 1] = born'
        BY <1>0, <3>2, Appended DEF TypeOK
      <4>2. n \in DOMAIN queue \/ n = Len(queue) + 1
        BY <1>4, <4>1
      <4> QED BY <4>1, <4>2
    <3> QED BY <3>1, <3>2
  <2>2. CASE queue'[n] = born'
    BY <1>1, <2>2 DEF Waits
  <2>3. CASE n \in DOMAIN queue /\ queue'[n] = queue[n]
    <3>1. Waits(y, queue[n]) /\ parent'[y] = parent[y]
      BY <1>0, <1>1, <2>3 DEF HandedOK
    <3> QED BY <2>3, <3>1 DEF Waits
  <2> QED BY <2>1, <2>2, <2>3
<1>5. \A y \in Known(h, d) :
          /\ y <= born'
          /\ \A n \in DOMAIN queue' : Waits(y, queue[n])'
          /\ \A n \in DOMAIN failures' : failures'[n].where = Incoming => y \notin failures'[n].cut
  <2>1. ASSUME NEW y \in Known(h, d), NEW n \in DOMAIN failures', failures'[n].where = Incoming
        PROVE  y \notin failures'[n].cut
    BY <2>1
  <2> QED BY <1>1, <1>4, <2>1
<1>6. ASSUME NEW i \in Effects, NEW m \in DOMAIN h[i], NEW n \in DOMAIN h[i], m < n
      PROVE  Follows(h[i][m], h[i][n])'
  <2>1. Follows(h[i][m], h[i][n]) /\ h[i][m] \in Known(h, d) /\ h[i][n] \in Known(h, d)
    BY <1>0, <1>6, KnownType DEF HandedOK
  <2> QED BY <1>2, <2>1
<1>7. ASSUME NEW k \in DOMAIN d, NEW i \in Effects, i >= d[k].at, NEW y \in Range(h[i])
      PROVE  Follows(y, d[k].ev)'
  <2>1. Follows(y, d[k].ev) /\ y \in Known(h, d) /\ d[k].ev \in Known(h, d)
    BY <1>0, <1>7, KnownType DEF HandedOK
  <2> QED BY <1>2, <2>1
<1>8. ASSUME NEW j \in DOMAIN d, NEW k \in DOMAIN d, j < k
      PROVE  /\ transport' = "local" /\ parent'[d[j].ev] # 0
             /\ d[k].ev \in Ancestors(d[j].ev)'
  <2>1. /\ transport = "local" /\ parent[d[j].ev] # 0 /\ d[k].ev \in Ancestors(d[j].ev)
        /\ d[j].ev \in Known(h, d)
    BY <1>0, <1>8, KnownType DEF HandedOK
  <2>2. parent'[d[j].ev] = parent[d[j].ev]
    BY <1>0, <1>1, <2>1
  <2> QED BY <1>3, <2>1, <2>2
<1> QED BY <1>0, <1>5, <1>6, <1>7, <1>8 DEF HandedOK

\* On the local bus the new event may be delivered above the one it is emitted for.
LEMMA HandedPush ==
    ASSUME TypeOK, EventsOK, NEW h, NEW d, HandedOK(h, d),
           NEW e \in Events, e <= born, Spawn(e), UNCHANGED <<transport, queue, failures>>,
           transport = "local", d # <<>> => d[1].ev = e,
           NEW new, new = born'
    PROVE  HandedOK(h, <<Delivery(new)>> \o d)'
<1> DEFINE more == <<Delivery(new)>> \o d
<1>0. /\ h \in [Effects -> Seq(Events)] /\ d \in Seq(Deliveries)
      /\ new \in Events /\ parent'[new] = e /\ new = born + 1
      /\ e # 0 /\ e \in 0 .. MaxEvents /\ born \in Nat
      /\ \A y \in Known(h, d) : y \in Events /\ y <= born /\ y < new
  <2>1. e # 0 /\ e \in 0 .. MaxEvents /\ (\A x \in Events : x \in Nat)
    BY ListenerAssumption DEF Events
  <2>2. new \in Events /\ parent'[new] = e /\ new = born + 1 /\ born \in Nat
    BY <2>1, Spawned
  <2>3. /\ h \in [Effects -> Seq(Events)] /\ d \in Seq(Deliveries)
        /\ \A y \in Known(h, d) : y <= born
    BY DEF HandedOK
  <2>4. \A y \in Known(h, d) : y \in Events /\ y \in Nat
    BY <2>1, <2>3, KnownType
  <2>5. \A y \in Known(h, d) : y < new
    BY <2>2, <2>3, <2>4
  <2> QED BY <2>1, <2>2, <2>3, <2>4, <2>5
<1>1. HandedOK(h, d)'
  <2>1. \A n \in DOMAIN failures' : failures'[n].where = Incoming =>
           failures'[n].cut \cap Known(h, d) = {}
    BY DEF HandedOK
  <2> QED BY <1>0, <2>1, HandedSpawn
<1>2. Delivery(new) \in Deliveries /\ Delivery(new).ev = new /\ Delivery(new).at = 1
  BY <1>0 DEF Delivery, Deliveries
<1>3. /\ more \in Seq(Deliveries)
      /\ Len(d) \in Nat /\ DOMAIN d = 1 .. Len(d) /\ DOMAIN more = 1 .. Len(d) + 1
      /\ more[1] = Delivery(new)
      /\ \A n \in 2 .. Len(d) + 1 : more[n] = d[n - 1]
  BY <1>0, <1>2, Pushed
<1> HIDE DEF more
<1>4. ASSUME NEW k \in DOMAIN more
      PROVE  \/ k = 1 /\ more[k].ev = new /\ more[k].at = 1
             \/ k - 1 \in DOMAIN d /\ more[k] = d[k - 1]
  <2>1. CASE k = 1
    BY <1>2, <1>3, <2>1
  <2>2. CASE k # 1
    <3>1. k \in 2 .. Len(d) + 1 /\ k - 1 \in 1 .. Len(d)
      BY <1>3, <2>2
    <3> QED BY <1>3, <3>1
  <2> QED BY <2>1, <2>2
<1>5. Known(h, more) \subseteq Known(h, d) \cup {new}
  BY <1>4 DEF Known, EventsOf
<1>6. ASSUME NEW y \in Known(h, more)
      PROVE  /\ y <= born'
             /\ \A n \in DOMAIN queue' : Waits(y, queue[n])'
             /\ \A n \in DOMAIN failures' : failures'[n].where = Incoming => y \notin failures'[n].cut
  <2>1. CASE y \in Known(h, d)
    BY <1>1, <2>1 DEF HandedOK
  <2>2. CASE y = new
    <3>0. new = born' /\ UNCHANGED <<transport, queue, failures>>
      OBVIOUS
    <3>1. \A n \in DOMAIN failures : failures[n].where = Incoming => new \notin failures[n].cut
      BY <1>0 DEF EventsOK
    <3> QED BY <1>0, <2>2, <3>1 DEF Waits
  <2> QED BY <1>5, <2>1, <2>2
<1>7. ASSUME NEW k \in DOMAIN more, NEW i \in Effects, i >= more[k].at, NEW y \in Range(h[i])
      PROVE  Follows(y, more[k].ev)'
  <2>1. CASE more[k].ev = new
    <3>1. y < new
      BY <1>0, KnownType
    <3> QED BY <2>1, <3>1 DEF Follows
  <2>2. CASE k - 1 \in DOMAIN d /\ more[k] = d[k - 1]
    BY <1>1, <1>7, <2>2 DEF HandedOK
  <2> QED BY <1>4, <2>1, <2>2
<1>8. ASSUME NEW j \in DOMAIN more, NEW k \in DOMAIN more, j < k
      PROVE  /\ transport' = "local" /\ parent'[more[j].ev] # 0
             /\ more[k].ev \in Ancestors(more[j].ev)'
  <2>1. k - 1 \in DOMAIN d /\ more[k] = d[k - 1]
    BY <1>3, <1>4, <1>8
  <2>2. CASE j = 1
    <3>1. more[j].ev = new /\ d # <<>> /\ d[1].ev = e /\ 1 \in DOMAIN d
      BY <1>3, <1>4, <2>1, <2>2
    <3>2. e \in Ancestors(new)' /\ \A a \in Ancestors(e)' : a \in Ancestors(new)'
      BY AncestorsOfNew
    <3>3. k - 1 = 1 \/ 1 < k - 1
      BY <1>3, <2>1
    <3>4. 1 < k - 1 => d[k - 1].ev \in Ancestors(d[1].ev)'
      BY <1>1, <2>1, <3>1 DEF HandedOK
    <3> QED BY <1>0, <2>1, <3>1, <3>2, <3>3, <3>4
  <2>3. CASE j # 1
    <3>1. j - 1 \in DOMAIN d /\ more[j] = d[j - 1] /\ j - 1 < k - 1
      BY <1>3, <1>4, <1>8, <2>3
    <3> QED BY <1>1, <2>1, <3>1 DEF HandedOK
  <2> QED BY <2>2, <2>3
<1>9. /\ h \in [Effects -> Seq(Events)]
      /\ \A i \in Effects : \A m, n \in DOMAIN h[i] : m < n => Follows(h[i][m], h[i][n])'
  BY <1>1 DEF HandedOK
<1>10. HandedOK(h, more)'
  BY <1>3, <1>6, <1>7, <1>8, <1>9 DEF HandedOK
<1> QED BY <1>10 DEF more

\* Without deliveries there is less to relate.
LEMMA HandedCleared ==
    ASSUME NEW h, NEW d, HandedOK(h, d)
    PROVE  HandedOK(h, <<>>)
<1>1. <<>> \in Seq(Deliveries) /\ DOMAIN <<>> = {}
  OBVIOUS
<1>2. Known(h, <<>>) \subseteq Known(h, d)
  BY <1>1 DEF Known, EventsOf
<1> QED BY <1>1, <1>2 DEF HandedOK

\* What waits is not known.
LEMMA HeadUnknown ==
    ASSUME TypeOK, EventsOK, NEW h, NEW d, HandedOK(h, d), queue # <<>>
    PROVE  Head(queue) \notin Known(h, d) /\ Head(queue) \in Events /\ Head(queue) <= born
<1>0. queue \in Seq(Events)
  BY DEF TypeOK
<1>1. Head(queue) \in Events /\ Head(queue) = queue[1] /\ 1 \in DOMAIN queue /\ queue[1] \in Nat
  <2>1. Head(queue) \in Events /\ Head(queue) = queue[1] /\ 1 \in DOMAIN queue
    BY <1>0, Popped
  <2> QED BY <2>1 DEF Events
<1>2. ~Waits(queue[1], queue[1])
  BY <1>1 DEF EventsOK, Waits
<1> QED BY <1>1, <1>2 DEF HandedOK, EventsOK

\* The innermost delivery hands its event to an effect and goes on to the next.
LEMMA HandOn ==
    ASSUME TypeOK, HandedOK(seen, stack), NEW i \in Effects, NEW e, Handed(i, e)
    PROVE  /\ HandedOK(After(i, e), Rest)
           /\ Rest # <<>> => Rest[1].ev = e
           /\ e \in Events /\ e <= born
<1> DEFINE h == After(i, e)
           r == Rest
           first == [Head(stack) EXCEPT !.at = @ + 1]
<1>1. /\ stack \in Seq(Deliveries) /\ stack # <<>> /\ seen \in [Effects -> Seq(Events)]
      /\ Head(stack).ev = e /\ Head(stack).at = i
  BY DEF TypeOK, Handed, Idle
<1>2. /\ Head(stack) \in Deliveries /\ Head(stack) = stack[1] /\ 1 \in DOMAIN stack
      /\ Tail(stack) \in Seq(Deliveries)
      /\ Len(stack) \in Nat \ {0} /\ DOMAIN stack = 1 .. Len(stack)
      /\ DOMAIN Tail(stack) = 1 .. Len(stack) - 1
      /\ \A n \in DOMAIN Tail(stack) : Tail(stack)[n] = stack[n + 1]
  BY <1>1, Popped
<1>3. first \in Deliveries /\ first.ev = e /\ first.at = i + 1 /\ e \in Events /\ i \in Nat
  BY <1>1, <1>2 DEF Deliveries, Effects
<1>4. r = <<first>> \o Tail(stack)
  BY DEF Rest
<1> HIDE DEF first
<1>5. /\ r \in Seq(Deliveries) /\ r[1] = first
      /\ Len(Tail(stack)) \in Nat /\ DOMAIN Tail(stack) = 1 .. Len(Tail(stack))
      /\ DOMAIN r = 1 .. Len(Tail(stack)) + 1
      /\ \A n \in 2 .. Len(Tail(stack)) + 1 : r[n] = Tail(stack)[n - 1]
  BY <1>2, <1>3, <1>4, Pushed
<1> HIDE DEF r
<1>6. DOMAIN r = DOMAIN stack
  BY <1>2, <1>5
<1>7. \A k \in DOMAIN stack : k # 1 => r[k] = stack[k] /\ 1 < k
  BY <1>2, <1>5
<1>8. \A k \in DOMAIN stack : r[k].ev = stack[k].ev
  BY <1>1, <1>2, <1>3, <1>5, <1>7
<1>9. /\ \A j \in Effects : j # i => h[j] = seen[j]
      /\ h[i] = Append(seen[i], e) /\ seen[i] \in Seq(Events)
      /\ h \in [Effects -> Seq(Events)]
  BY <1>1, <1>3, Appended DEF After
<1> HIDE DEF h
<1>10. /\ Len(seen[i]) \in Nat /\ DOMAIN seen[i] = 1 .. Len(seen[i])
       /\ DOMAIN h[i] = 1 .. Len(seen[i]) + 1
       /\ \A n \in DOMAIN seen[i] : h[i][n] = seen[i][n]
       /\ h[i][Len(seen[i]) + 1] = e
       /\ Range(h[i]) = Range(seen[i]) \cup {e}
  BY <1>3, <1>9, Appended
<1>11. e \in Known(seen, stack)
  BY <1>1, <1>2 DEF Known, EventsOf
<1>12. Known(h, r) \subseteq Known(seen, stack)
  <2>1. EventsOf(r) \subseteq Known(seen, stack)
    BY <1>6, <1>8 DEF Known, EventsOf
  <2>2. \A j \in Effects : Range(h[j]) \subseteq Known(seen, stack)
    BY <1>9, <1>10, <1>11 DEF Known
  <2> QED BY <2>1, <2>2 DEF Known
<1>13. ASSUME NEW j \in Effects, NEW m \in DOMAIN h[j], NEW n \in DOMAIN h[j], m < n
       PROVE  Follows(h[j][m], h[j][n])
  <2>1. CASE j # i
    BY <1>9, <1>13, <2>1 DEF HandedOK
  <2>2. CASE j = i
    <3>1. m \in DOMAIN seen[i] /\ h[i][m] = seen[i][m]
      BY <1>10, <1>13, <2>2
    <3>2. CASE n \in DOMAIN seen[i]
      BY <1>10, <1>13, <2>2, <3>1, <3>2 DEF HandedOK
    <3>3. CASE n \notin DOMAIN seen[i]
      <4>1. h[i][n] = e
        BY <1>10, <1>13, <2>2, <3>3
      <4>2. i >= stack[1].at /\ seen[i][m] \in Range(seen[i])
        BY <1>1, <1>2, <1>3, <3>1 DEF Range
      <4>3. Follows(seen[i][m], stack[1].ev)
        BY <1>2, <4>2 DEF HandedOK
      <4> QED BY <1>1, <1>2, <2>2, <3>1, <4>1, <4>3
    <3> QED BY <3>2, <3>3
  <2> QED BY <2>1, <2>2
<1>14. ASSUME NEW k \in DOMAIN r, NEW j \in Effects, j >= r[k].at, NEW y \in Range(h[j])
       PROVE  Follows(y, r[k].ev)
  <2>1. k \in DOMAIN stack /\ r[k].ev = stack[k].ev
    BY <1>6, <1>8
  <2>2. j >= stack[k].at
    BY <1>1, <1>2, <1>3, <1>5, <1>7, <1>14, <2>1 DEF Effects
  <2>3. CASE y \in Range(seen[j])
    BY <2>1, <2>2, <2>3 DEF HandedOK
  <2>4. CASE y \notin Range(seen[j])
    <3>1. y = e /\ j = i
      BY <1>9, <1>10, <1>14, <2>4
    <3>2. k # 1
      BY <1>3, <1>5, <1>14, <3>1
    <3>3. /\ transport = "local" /\ parent[stack[1].ev] # 0
          /\ stack[k].ev \in Ancestors(stack[1].ev)
      BY <1>2, <1>7, <2>1, <3>2 DEF HandedOK
    <3> QED BY <1>1, <1>2, <2>1, <3>1, <3>3 DEF Follows
  <2> QED BY <2>3, <2>4
<1>15. ASSUME NEW j \in DOMAIN r, NEW k \in DOMAIN r, j < k
       PROVE  /\ transport = "local" /\ parent[r[j].ev] # 0
              /\ r[k].ev \in Ancestors(r[j].ev)
  BY <1>6, <1>8, <1>15 DEF HandedOK
<1>16. \A y \in Known(h, r) :
          /\ y <= born
          /\ \A n \in DOMAIN queue : Waits(y, queue[n])
          /\ \A n \in DOMAIN failures : failures[n].where = Incoming => y \notin failures[n].cut
  BY <1>12 DEF HandedOK
<1>17. HandedOK(h, r)
  BY <1>5, <1>9, <1>13, <1>14, <1>15, <1>16 DEF HandedOK
<1>18. r[1].ev = e /\ e <= born
  BY <1>3, <1>5, <1>11 DEF HandedOK
<1> QED BY <1>3, <1>17, <1>18 DEF h, r

\* The report of an error on the local bus is an event to all effects.
LEMMA HandedTold ==
    ASSUME TypeOK, EventsOK, NEW h, HandedOK(h, <<>>),
           NEW e \in Events, e <= born, Spawn(e), UNCHANGED <<transport, queue>>,
           transport = "local",
           \A n \in DOMAIN failures' : failures'[n].where = Incoming =>
              n \in DOMAIN failures /\ failures'[n] = failures[n],
           NEW told, told = [j \in Effects |-> Append(h[j], born')]
    PROVE  HandedOK(told, <<>>)'
<1>0. /\ h \in [Effects -> Seq(Events)] /\ <<>> \in Seq(Deliveries) /\ DOMAIN <<>> = {}
      /\ born' \in Events /\ parent'[born'] = e /\ born' = born + 1
      /\ e # 0 /\ e \in 0 .. MaxEvents /\ born \in Nat
      /\ \A y \in Known(h, <<>>) : y \in Events /\ y < born'
  <2>1. e # 0 /\ e \in 0 .. MaxEvents /\ (\A x \in Events : x \in Nat)
    BY ListenerAssumption DEF Events
  <2>2. born' \in Events /\ parent'[born'] = e /\ born' = born + 1 /\ born \in Nat
    BY <2>1, Spawned
  <2>3. h \in [Effects -> Seq(Events)] /\ <<>> \in Seq(Deliveries) /\ DOMAIN <<>> = {}
        /\ \A y \in Known(h, <<>>) : y <= born
    BY DEF HandedOK
  <2>4. \A y \in Known(h, <<>>) : y \in Events /\ y \in Nat
    BY <2>1, <2>3, KnownType
  <2>5. \A y \in Known(h, <<>>) : y < born'
    BY <2>2, <2>3, <2>4
  <2> QED BY <2>1, <2>2, <2>3, <2>4, <2>5
<1>1. HandedOK(h, <<>>)'
  <2>1. \A n \in DOMAIN failures' : failures'[n].where = Incoming =>
           failures'[n].cut \cap Known(h, <<>>) = {}
    BY DEF HandedOK
  <2> QED BY <1>0, <2>1, HandedSpawn
<1>2. ASSUME NEW j \in Effects
      PROVE  /\ told[j] \in Seq(Events)
             /\ Len(h[j]) \in Nat /\ DOMAIN h[j] = 1 .. Len(h[j])
             /\ DOMAIN told[j] = 1 .. Len(h[j]) + 1
             /\ \A n \in DOMAIN h[j] : told[j][n] = h[j][n]
             /\ told[j][Len(h[j]) + 1] = born'
             /\ Range(told[j]) = Range(h[j]) \cup {born'}
  <2>1. h[j] \in Seq(Events) /\ told[j] = Append(h[j], born')
    BY <1>0
  <2> QED BY <1>0, <2>1, Appended
<1>3. told \in [Effects -> Seq(Events)]
  BY <1>2
<1>4. Known(told, <<>>) \subseteq Known(h, <<>>) \cup {born'}
  BY <1>0, <1>2 DEF Known, EventsOf
<1>5. ASSUME NEW y \in Known(told, <<>>)
      PROVE  /\ y <= born'
             /\ \A n \in DOMAIN queue' : Waits(y, queue[n])'
             /\ \A n \in DOMAIN failures' : failures'[n].where = Incoming => y \notin failures'[n].cut
  <2>1. CASE y \in Known(h, <<>>)
    BY <1>1, <2>1 DEF HandedOK
  <2>2. CASE y = born'
    <3>1. \A n \in DOMAIN failures : failures[n].where = Incoming => y \notin failures[n].cut
      BY <1>0, <2>2 DEF EventsOK
    <3> QED BY <1>0, <2>2, <3>1 DEF Waits
  <2> QED BY <1>4, <2>1, <2>2
<1>6. ASSUME NEW j \in Effects, NEW m \in DOMAIN told[j], NEW n \in DOMAIN told[j], m < n
      PROVE  Follows(told[j][m], told[j][n])'
  <2>1. m \in DOMAIN h[j] /\ told[j][m] = h[j][m]
    BY <1>2, <1>6
  <2>2. CASE n \in DOMAIN h[j]
    BY <1>1, <1>2, <1>6, <2>1, <2>2 DEF HandedOK
  <2>3. CASE n \notin DOMAIN h[j]
    <3>1. told[j][n] = born'
      BY <1>2, <1>6, <2>3
    <3>2. h[j][m] < born'
      BY <1>0, <2>1, KnownType
    <3> QED BY <2>1, <3>1, <3>2 DEF Follows
  <2> QED BY <2>2, <2>3
<1> QED BY <1>0, <1>3, <1>5, <1>6 DEF HandedOK

-----------------------------------------------------------------------------
\* Events and errors, step by step.

\* What a step may do to the queue: the new event is put in, or the first taken out.
Queues == queue' \in {queue, Append(queue, born')}
Takes == queue # <<>> /\ queue' = Tail(queue)

\* What waits has come up,
LEMMA QueueFacts ==
    ASSUME TypeOK, EventsOK, NEW n \in DOMAIN queue
    PROVE  /\ queue[n] \in Events /\ queue[n] \in Nat /\ queue[n] <= born
           /\ transport = "local" => parent[queue[n]] = 0
<1>1. queue[n] \in Events
  <2>1. queue \in Seq(Events)
    BY DEF TypeOK
  <2> QED BY <2>1
<1> QED BY <1>1 DEF EventsOK, Events

\* one after the other.
LEMMA QueueAscends ==
    ASSUME EventsOK, NEW m \in DOMAIN queue, NEW n \in DOMAIN queue, m < n
    PROVE  queue[m] < queue[n]
BY DEF EventsOK

\* A new event takes its place behind all others.
LEMMA EventsSpawn ==
    ASSUME TypeOK, EventsOK, NEW e \in 0 .. MaxEvents, e <= born, Spawn(e), transport' = transport,
           Queues,
           queue' = queue \/ transport # "local" \/ e = 0,
           \A w \in working' : w[2] \in Nat /\ w[2] <= born,
           \A n \in DOMAIN failures' : failures'[n].where = Incoming =>
              n \in DOMAIN failures /\ failures'[n] = failures[n]
    PROVE  /\ EventsOK'
           /\ born' \in 0 .. MaxEvents /\ parent' \in [Events -> 0 .. MaxEvents]
           /\ queue' \in Seq(Events)
<1>0. /\ born \in Nat /\ born' = born + 1 /\ born' \in Events /\ born' \in 0 .. MaxEvents
      /\ parent' \in [Events -> 0 .. MaxEvents] /\ parent'[born'] = e
      /\ \A x \in Events : x # born' => parent'[x] = parent[x]
      /\ \A x \in Events : x <= born => x # born'
      /\ queue \in Seq(Events) /\ e \in Nat
  <2>1. queue \in Seq(Events) /\ e \in Nat
    BY DEF TypeOK
  <2> QED BY <2>1, Spawned
<1>1. \A x \in Events : x \in Nat
  BY DEF Events
<1>2. /\ Len(queue) \in Nat /\ DOMAIN queue = 1 .. Len(queue)
      /\ DOMAIN Append(queue, born') = 1 .. Len(queue) + 1
      /\ \A n \in DOMAIN queue : Append(queue, born')[n] = queue[n]
      /\ Append(queue, born')[Len(queue) + 1] = born'
      /\ Range(Append(queue, born')) = Range(queue) \cup {born'}
      /\ Append(queue, born') \in Seq(Events)
  BY <1>0, Appended
<1>3. ASSUME NEW n \in DOMAIN queue
      PROVE  /\ queue[n] \in Nat /\ queue[n] < born' /\ queue[n] <= born'
             /\ parent'[queue[n]] = parent[queue[n]]
             /\ transport = "local" => parent[queue[n]] = 0
  <2>1. /\ queue[n] \in Events /\ queue[n] \in Nat /\ queue[n] <= born
        /\ transport = "local" => parent[queue[n]] = 0
    BY QueueFacts
  <2> QED BY <1>0, <2>1
<1>4. ASSUME NEW x \in Events PROVE parent'[x] < x /\ (x > born' => parent'[x] = 0)
  <2>1. CASE x = born'
    BY <1>0, <2>1
  <2>2. CASE x # born'
    BY <1>0, <1>1, <2>2 DEF EventsOK
  <2> QED BY <2>1, <2>2
<1>5. /\ queue' \in Seq(Events)
      /\ \A m, n \in DOMAIN queue' : m < n => queue'[m] < queue'[n]
      /\ \A n \in DOMAIN queue' :
            queue'[n] <= born' /\ (transport' = "local" => parent'[queue'[n]] = 0)
  <2>1. CASE queue' = queue
    <3>1. \A m, n \in DOMAIN queue' : m < n => queue'[m] < queue'[n]
      BY <2>1, QueueAscends
    <3>2. ASSUME NEW n \in DOMAIN queue'
          PROVE  queue'[n] <= born' /\ (transport' = "local" => parent'[queue'[n]] = 0)
      <4>1. n \in DOMAIN queue /\ queue'[n] = queue[n]
        BY <2>1, <3>2
      <4> QED BY <1>3, <4>1
    <3>3. queue' \in Seq(Events)
      BY <1>0, <2>1
    <3> QED BY <3>1, <3>2, <3>3
  <2>2. CASE queue' = Append(queue, born') /\ (transport # "local" \/ e = 0)
    <3>0. DOMAIN queue' = 1 .. Len(queue) + 1 /\ queue' = Append(queue, born')
      BY <1>2, <2>2
    <3>1. ASSUME NEW n \in DOMAIN queue' PROVE n \in DOMAIN queue \/ n = Len(queue) + 1
      <4>1. n \in 1 .. Len(queue) + 1
        BY <3>0, <3>1
      <4> QED BY <1>2, <4>1
    <3>2. ASSUME NEW m \in DOMAIN queue', NEW n \in DOMAIN queue', m < n
          PROVE  queue'[m] < queue'[n]
      <4>1. m \in DOMAIN queue
        <5>1. m \in 1 .. Len(queue) + 1 /\ n \in 1 .. Len(queue) + 1
          BY <3>0, <3>2
        <5> QED BY <1>2, <3>2, <5>1
      <4>2. CASE n \in DOMAIN queue
        <5>1. queue[m] < queue[n]
          BY <3>2, <4>1, <4>2, QueueAscends
        <5> QED BY <1>2, <2>2, <4>1, <4>2, <5>1
      <4>3. CASE n = Len(queue) + 1
        BY <1>2, <1>3, <2>2, <4>1, <4>3
      <4> QED BY <3>1, <4>2, <4>3
    <3>3. ASSUME NEW n \in DOMAIN queue'
          PROVE  queue'[n] <= born' /\ (transport' = "local" => parent'[queue'[n]] = 0)
      <4>1. CASE n \in DOMAIN queue
        BY <1>2, <1>3, <2>2, <4>1
      <4>2. CASE n = Len(queue) + 1
        <5>1. queue'[n] = born'
          BY <1>2, <2>2, <4>2
        <5>2. parent'[born'] = e /\ born' <= born' /\ (transport' = "local" => e = 0)
          BY <1>0, <2>2
        <5> QED BY <5>1, <5>2
      <4> QED BY <3>1, <4>1, <4>2
    <3> QED BY <1>2, <2>2, <3>2, <3>3
  <2> QED BY <2>1, <2>2 DEF Queues
<1>6. Range(queue') \subseteq Range(queue) \cup {born'}
  BY <1>2 DEF Queues
<1>8. \A w \in working' : w[2] <= born'
  BY <1>0
<1>7. ASSUME NEW n \in DOMAIN failures', failures'[n].where = Incoming
      PROVE  /\ \A x \in failures'[n].cut : x <= born'
             /\ failures'[n].cut \cap Range(queue') = {}
  <2>1. n \in DOMAIN failures /\ failures'[n] = failures[n]
    BY <1>7
  <2>2. failures[n].cut \subseteq Events
    <3>1. failures[n] \in Failures
      BY <2>1 DEF TypeOK
    <3> QED BY <3>1 DEF Failures
  <2>3. /\ \A x \in failures[n].cut : x <= born
        /\ failures[n].cut \cap Range(queue) = {}
    BY <1>7, <2>1 DEF EventsOK
  <2>4. ASSUME NEW x \in failures[n].cut PROVE x # born' /\ x <= born'
    <3>1. x \in Events /\ x \in Nat /\ x <= born
      BY <1>1, <2>2, <2>3
    <3> QED BY <1>0, <3>1
  <2>5. failures[n].cut \cap Range(queue') = {}
    <3>1. failures[n].cut \cap Range(queue) = {} /\ born' \notin failures[n].cut
      BY <2>3, <2>4
    <3> QED BY <1>6, <3>1
  <2> QED BY <2>1, <2>4, <2>5
<1> QED BY <1>0, <1>4, <1>5, <1>7, <1>8 DEF EventsOK

\* Nothing new, and perhaps a message read or dropped.
LEMMA EventsKept ==
    ASSUME TypeOK, EventsOK, UNCHANGED <<transport, born, parent>>,
           queue' = queue \/ Takes,
           \A w \in working' : w[2] <= born,
           \A n \in DOMAIN failures' : failures'[n].where = Incoming =>
              \/ n \in DOMAIN failures /\ failures'[n] = failures[n]
              \/ Takes /\ failures'[n].cut \subseteq {Head(queue)}
    PROVE  /\ EventsOK'
           /\ queue' \in Seq(Events)
           /\ \A n \in DOMAIN queue' : \E m \in DOMAIN queue : queue'[n] = queue[m]
<1>0. queue \in Seq(Events) /\ \A x \in Events : x \in Nat
  BY DEF TypeOK, Events
<1>1. ASSUME Takes
      PROVE  /\ queue' = Tail(queue)
             /\ Head(queue) = queue[1] /\ 1 \in DOMAIN queue
             /\ Tail(queue) \in Seq(Events)
             /\ Len(queue) \in Nat \ {0} /\ DOMAIN queue = 1 .. Len(queue)
             /\ DOMAIN Tail(queue) = 1 .. Len(queue) - 1
             /\ \A n \in DOMAIN Tail(queue) : Tail(queue)[n] = queue[n + 1] /\ n + 1 \in DOMAIN queue
             /\ Range(Tail(queue)) \subseteq Range(queue)
  BY <1>0, <1>1, Popped DEF Takes
<1>2. /\ queue' \in Seq(Events)
      /\ \A n \in DOMAIN queue' : \E m \in DOMAIN queue : queue'[n] = queue[m]
      /\ Range(queue') \subseteq Range(queue)
      /\ \A m, n \in DOMAIN queue' : m < n => queue'[m] < queue'[n]
  <2>1. CASE queue' = queue
    <3>1. \A m, n \in DOMAIN queue : m < n => queue[m] < queue[n]
      BY QueueAscends
    <3> QED BY <1>0, <2>1, <3>1
  <2>2. CASE Takes
    <3>1. ASSUME NEW m \in DOMAIN queue', NEW n \in DOMAIN queue', m < n
          PROVE  queue'[m] < queue'[n]
      <4>1. /\ queue'[m] = queue[m + 1] /\ queue'[n] = queue[n + 1]
            /\ m + 1 \in DOMAIN queue /\ n + 1 \in DOMAIN queue /\ m + 1 < n + 1
        <5>1. m \in Nat /\ n \in Nat /\ m \in DOMAIN Tail(queue) /\ n \in DOMAIN Tail(queue)
          BY <1>1, <2>2, <3>1
        <5> QED BY <1>1, <2>2, <3>1, <5>1
      <4>2. queue[m + 1] < queue[n + 1]
        BY <4>1, QueueAscends
      <4> QED BY <4>1, <4>2
    <3> QED BY <1>1, <2>2, <3>1
  <2> QED BY <2>1, <2>2
<1>3. ASSUME NEW n \in DOMAIN queue'
      PROVE  queue'[n] <= born' /\ (transport' = "local" => parent'[queue'[n]] = 0)
  BY <1>2 DEF EventsOK
<1>4. ASSUME NEW n \in DOMAIN failures', failures'[n].where = Incoming
      PROVE  /\ \A x \in failures'[n].cut : x <= born'
             /\ failures'[n].cut \cap Range(queue') = {}
  <2>1. CASE n \in DOMAIN failures /\ failures'[n] = failures[n]
    BY <1>2, <1>4, <2>1 DEF EventsOK
  <2>2. CASE Takes /\ failures'[n].cut \subseteq {Head(queue)}
    <3>1. Head(queue) \notin Range(Tail(queue))
      <4>1. ASSUME NEW m \in DOMAIN Tail(queue) PROVE Tail(queue)[m] # queue[1]
        <5>0. m \in Nat /\ 1 <= m
          BY <1>1, <2>2, <4>1
        <5>1. Tail(queue)[m] = queue[m + 1] /\ m + 1 \in DOMAIN queue
          BY <1>1, <2>2, <4>1
        <5>2. 1 < m + 1
          BY <5>0
        <5>3. queue[1] \in Nat /\ queue[m + 1] \in Nat
          BY <1>1, <2>2, <5>1, QueueFacts
        <5>4. queue[1] < queue[m + 1]
          <6>1. 1 \in DOMAIN queue
            BY <1>1, <2>2
          <6> QED BY <5>1, <5>2, <6>1, QueueAscends
        <5> QED BY <5>1, <5>3, <5>4
      <4> QED BY <1>1, <2>2, <4>1 DEF Range
    <3>2. Head(queue) <= born
      BY <1>1, <2>2 DEF EventsOK
    <3>3. Range(queue') = Range(Tail(queue)) /\ born' = born
      BY <2>2 DEF Takes
    <3> QED BY <2>2, <3>1, <3>2, <3>3
  <2> QED BY <1>4, <2>1, <2>2
<1> QED BY <1>2, <1>3, <1>4 DEF EventsOK

\* An error is reported, and remembered.
LEMMA Reported ==
    ASSUME TypeOK, ErrorsOK, ~Closed, NEW where \in (0 .. NEffects) \ Guarded,
           NEW cut \in SUBSET Events, NEW report \in Reports, Report(where, cut, report),
           transport' = transport
    PROVE  /\ failures' \in Seq(Failures)
           /\ Len(failures) \in Nat /\ DOMAIN failures = 1 .. Len(failures)
           /\ DOMAIN failures' = 1 .. Len(failures) + 1
           /\ \A n \in DOMAIN failures : failures'[n] = failures[n]
           /\ failures'[Len(failures) + 1] = [where |-> where, cut |-> cut, report |-> report]
           /\ streams' \subseteq Streams /\ ~Closed'
           /\ "error" \in streams' \/
                 (transport' # "websocket" /\ \E n \in DOMAIN failures' : failures'[n].report = "broken")
           /\ FailuresAreReported'
           /\ \A n \in DOMAIN failures' : failures'[n].where \notin Guarded
<1> DEFINE new == [where |-> where, cut |-> cut, report |-> report]
<1>1. new \in Failures /\ new.report = report /\ new.where = where
  BY DEF Failures
<1>2. failures' = Append(failures, new) /\ failures \in Seq(Failures)
  BY DEF Report, TypeOK
<1> HIDE DEF new
<1>3. /\ failures' \in Seq(Failures)
      /\ Len(failures) \in Nat /\ DOMAIN failures = 1 .. Len(failures)
      /\ DOMAIN failures' = 1 .. Len(failures) + 1
      /\ \A n \in DOMAIN failures : failures'[n] = failures[n]
      /\ failures'[Len(failures) + 1] = new
  BY <1>1, <1>2, Appended
<1>4. \A n \in DOMAIN failures' : n \in DOMAIN failures \/ n = Len(failures) + 1
  BY <1>3
<1>5. streams' = IF report = "broken" /\ transport # "websocket" THEN streams \ {"error"} ELSE streams
  BY DEF Report
<1>6. streams' \subseteq Streams /\ ~Closed'
  BY <1>5 DEF TypeOK, Closed
<1>7. "error" \in streams' \/
         (transport' # "websocket" /\ \E n \in DOMAIN failures' : failures'[n].report = "broken")
  <2>1. CASE report = "broken" /\ transport # "websocket"
    <3>1. Len(failures) + 1 \in DOMAIN failures'
      BY <1>3
    <3> QED BY <1>1, <1>3, <2>1, <3>1
  <2>2. CASE ~(report = "broken" /\ transport # "websocket")
    <3>1. streams' = streams
      BY <1>5, <2>2
    <3>2. CASE "error" \in streams
      BY <3>1, <3>2
    <3>3. CASE transport # "websocket" /\ \E n \in DOMAIN failures : failures[n].report = "broken"
      <4>1. PICK n \in DOMAIN failures : failures[n].report = "broken"
        BY <3>3
      <4>2. n \in DOMAIN failures' /\ failures'[n].report = "broken"
        BY <1>3, <4>1
      <4> QED BY <3>3, <4>2
    <3> QED BY <3>2, <3>3 DEF ErrorsOK
  <2> QED BY <2>1, <2>2
<1>8. ASSUME NEW n \in DOMAIN failures', failures'[n].report = "silent"
      PROVE  transport' # "websocket" /\ \E m \in 1 .. n - 1 : failures'[m].report = "broken"
  <2>1. CASE n \in DOMAIN failures
    <3>1. PICK m \in 1 .. n - 1 : failures[m].report = "broken"
      BY <1>3, <1>8, <2>1 DEF ErrorsOK, FailuresAreReported
    <3>2. m \in DOMAIN failures
      BY <1>3, <2>1
    <3> QED BY <1>3, <1>8, <2>1, <3>1, <3>2 DEF ErrorsOK, FailuresAreReported
  <2>2. CASE n = Len(failures) + 1
    <3>1. "error" \notin streams
      BY <1>1, <1>3, <1>8, <2>2 DEF Report
    <3>2. PICK m \in DOMAIN failures : failures[m].report = "broken"
      BY <3>1 DEF ErrorsOK
    <3>3. m \in 1 .. n - 1
      BY <1>3, <2>2, <3>2
    <3> QED BY <1>3, <3>1, <3>2, <3>3 DEF ErrorsOK
  <2> QED BY <1>4, <2>1, <2>2
<1>9. \A n \in DOMAIN failures' : failures'[n].where \notin Guarded
  BY <1>1, <1>3, <1>4 DEF ErrorsOK
<1> QED BY <1>3, <1>6, <1>7, <1>8, <1>9 DEF FailuresAreReported, new

-----------------------------------------------------------------------------
\* Answers and failures of effects.

\* What the effects were handed and what is on the stack after a step.
LEMMA HandedNow ==
    ASSUME NEW h, NEW d, HandedOK(h, d)', seen' = h, stack' = d
    PROVE  HandedOK(seen, stack)'
<1>1. Known(seen, stack)' = Known(h, d)'
  BY DEF Known, EventsOf
<1> QED BY <1>1 DEF HandedOK

\* Work is on events that have come up.
LEMMA WorkFacts ==
    ASSUME TypeOK, EventsOK
    PROVE  \A w \in working : w[2] \in Events /\ w[2] \in Nat /\ w[2] <= born
<1>1. \A w \in working : w[2] \in Events
  BY DEF TypeOK
<1> QED BY <1>1 DEF EventsOK, Events

\* The incoming stream never dropped what is known.
LEMMA DroppedUnknown ==
    ASSUME NEW h, NEW d, HandedOK(h, d), failures' = failures
    PROVE  \A n \in DOMAIN failures' : failures'[n].where = Incoming =>
              failures'[n].cut \cap Known(h, d) = {}
BY DEF HandedOK

\* Without an error nothing changes about errors.
LEMMA ErrorsKept ==
    ASSUME ErrorsOK, UNCHANGED <<transport, trouble>>, ~Closed
    PROVE  ErrorsOK'
BY DEF ErrorsOK, trouble, FailuresAreReported, Closed

\* An answer goes to the client, to the top of the stack, or to the end of the queue.
LEMMA OutputKeeps ==
    ASSUME TypeOK, EventsOK, NEW h, NEW d, HandedOK(h, d), seen' = h,
           NEW e \in Events, e <= born, d # <<>> => d[1].ev = e, Output(e, d),
           UNCHANGED <<transport, failures>>,
           \A w \in working' : w[2] \in Nat /\ w[2] <= born
    PROVE  /\ EventsOK' /\ HandedOK(seen, stack)'
           /\ born' \in 0 .. MaxEvents /\ parent' \in [Events -> 0 .. MaxEvents]
           /\ queue' \in Seq(Events)
<1>0. \A n \in DOMAIN failures' : failures'[n].where = Incoming =>
         /\ n \in DOMAIN failures /\ failures'[n] = failures[n]
         /\ failures'[n].cut \cap Known(h, d) = {}
  BY DroppedUnknown
<1>1. e \in 0 .. MaxEvents /\ e # 0
  BY ListenerAssumption DEF Events
<1>2. CASE stack' = d /\ UNCHANGED events
  <2>1. UNCHANGED <<transport, born, parent>> /\ queue' = queue
    BY <1>2 DEF events
  <2>2. /\ EventsOK' /\ queue' \in Seq(Events)
        /\ \A n \in DOMAIN queue' : \E m \in DOMAIN queue : queue'[n] = queue[m]
    BY <1>0, <2>1, EventsKept
  <2>3. HandedOK(h, d)'
    BY <1>0, <2>1, <2>2, HandedKept
  <2>4. born' \in 0 .. MaxEvents /\ parent' \in [Events -> 0 .. MaxEvents]
    BY <2>1 DEF TypeOK
  <2> QED BY <1>2, <2>2, <2>3, <2>4, HandedNow
<1>3. CASE /\ transport = "local" /\ Spawn(e) /\ UNCHANGED queue
           /\ stack' = <<Delivery(born')>> \o d
  <2>1. Queues /\ queue' = queue
    BY <1>3 DEF Queues
  <2>2. /\ EventsOK' /\ queue' \in Seq(Events)
        /\ born' \in 0 .. MaxEvents /\ parent' \in [Events -> 0 .. MaxEvents]
    BY <1>0, <1>1, <1>3, <2>1, EventsSpawn
  <2>3. PICK new : new = born'
    OBVIOUS
  <2>4. HandedOK(h, <<Delivery(new)>> \o d)'
    BY <1>3, <2>3, HandedPush
  <2>5. stack' = <<Delivery(new)>> \o d
    BY <1>3, <2>3
  <2>6. PICK more : more = <<Delivery(new)>> \o d
    OBVIOUS
  <2>7. HandedOK(h, more)'
    BY <2>4, <2>6
  <2> QED BY <2>2, <2>5, <2>6, <2>7, HandedNow
<1>4. CASE /\ transport = "broker" /\ Spawn(e) /\ stack' = d
           /\ queue' = Append(queue, born')
  <2>1. Queues /\ transport # "local"
    BY <1>4 DEF Queues
  <2>2. /\ EventsOK' /\ queue' \in Seq(Events)
        /\ born' \in 0 .. MaxEvents /\ parent' \in [Events -> 0 .. MaxEvents]
    BY <1>0, <1>1, <1>4, <2>1, EventsSpawn
  <2>3. HandedOK(h, d)'
    BY <1>0, <1>1, <1>4, HandedSpawn
  <2> QED BY <1>4, <2>2, <2>3, HandedNow
<1> QED BY <1>2, <1>3, <1>4 DEF Output

\* A failure is reported, takes the work with it, and empties the stack.
LEMMA FailKeeps ==
    ASSUME TypeOK, EventsOK, ErrorsOK, ~Closed, NEW h, NEW d, HandedOK(h, d),
           NEW i \in Effects \ Guarded, NEW e \in Events, e <= born, Fail(i, e, h),
           transport' = transport
    PROVE  Inv'
<1>1. PICK report \in Reports :
          /\ Report(i, OnStack, report)
          /\ \/ /\ transport = "local" /\ Spawn(e) /\ UNCHANGED queue
                /\ seen' = [j \in Effects |-> Append(h[j], born')]
             \/ seen' = h /\ UNCHANGED events
  BY DEF Fail
<1>2. stack' = <<>> /\ lost' = lost \cup working /\ working' = {}
  BY DEF Fail
<1>3. i \in (0 .. NEffects) \ Guarded /\ i # Incoming /\ i \in Effects
  BY ListenerAssumption DEF Effects, Incoming
<1>4. OnStack \in SUBSET Events
  <2>1. \A n \in DOMAIN stack : stack[n] \in Deliveries
    BY DEF TypeOK
  <2> QED BY <2>1 DEF OnStack, Deliveries
<1>5. /\ failures' \in Seq(Failures)
      /\ Len(failures) \in Nat /\ DOMAIN failures = 1 .. Len(failures)
      /\ DOMAIN failures' = 1 .. Len(failures) + 1
      /\ \A n \in DOMAIN failures : failures'[n] = failures[n]
      /\ failures'[Len(failures) + 1].where = i
      /\ streams' \subseteq Streams /\ ~Closed'
      /\ "error" \in streams' \/
            (transport' # "websocket" /\ \E n \in DOMAIN failures' : failures'[n].report = "broken")
      /\ FailuresAreReported'
      /\ \A n \in DOMAIN failures' : failures'[n].where \notin Guarded
  <2>1. [where |-> i, cut |-> OnStack, report |-> report].where = i
    OBVIOUS
  <2> QED BY <1>1, <1>3, <1>4, <2>1, Reported
<1>6. Len(failures) + 1 \in DOMAIN failures'
  BY <1>5
<1>7. ErrorsOK'
  BY <1>2, <1>3, <1>5, <1>6 DEF ErrorsOK
<1>8. \A n \in DOMAIN failures' : failures'[n].where = Incoming =>
         n \in DOMAIN failures /\ failures'[n] = failures[n]
  <2>1. ASSUME NEW n \in DOMAIN failures', failures'[n].where = Incoming PROVE n \in DOMAIN failures
    <3>1. n # Len(failures) + 1
      BY <1>3, <1>5, <2>1
    <3> QED BY <1>5, <3>1
  <2> QED BY <1>5, <2>1
<1>9. HandedOK(h, <<>>)
  BY HandedCleared
<1>10. \A n \in DOMAIN failures' : failures'[n].where = Incoming =>
          failures'[n].cut \cap Known(h, <<>>) = {}
  BY <1>8, <1>9 DEF HandedOK
<1>11. \A w \in working' : w[2] \in Nat /\ w[2] <= born
  BY <1>2
<1>12. e \in 0 .. MaxEvents
  BY ListenerAssumption DEF Events
<1>13. /\ EventsOK' /\ HandedOK(seen, stack)'
       /\ born' \in 0 .. MaxEvents /\ parent' \in [Events -> 0 .. MaxEvents]
       /\ queue' \in Seq(Events)
  <2>1. CASE /\ transport = "local" /\ Spawn(e) /\ UNCHANGED queue
             /\ seen' = [j \in Effects |-> Append(h[j], born')]
    <3>1. Queues /\ queue' = queue
      BY <2>1 DEF Queues
    <3>2. /\ EventsOK' /\ queue' \in Seq(Events)
          /\ born' \in 0 .. MaxEvents /\ parent' \in [Events -> 0 .. MaxEvents]
      BY <1>8, <1>11, <1>12, <2>1, <3>1, EventsSpawn
    <3>3. PICK told : told = [j \in Effects |-> Append(h[j], born')]
      OBVIOUS
    <3>4. HandedOK(told, <<>>)'
      BY <1>8, <1>9, <2>1, <3>3, HandedTold
    <3> QED BY <1>2, <2>1, <3>2, <3>3, <3>4, HandedNow
  <2>2. CASE seen' = h /\ UNCHANGED events
    <3>1. UNCHANGED <<transport, born, parent>> /\ queue' = queue
      BY <2>2 DEF events
    <3>2. /\ EventsOK' /\ queue' \in Seq(Events)
          /\ \A n \in DOMAIN queue' : \E m \in DOMAIN queue : queue'[n] = queue[m]
      BY <1>8, <1>11, <3>1, EventsKept
    <3>3. HandedOK(h, <<>>)'
      BY <1>9, <1>10, <3>1, <3>2, HandedKept
    <3>4. born' \in 0 .. MaxEvents /\ parent' \in [Events -> 0 .. MaxEvents]
      BY <3>1 DEF TypeOK
    <3> QED BY <1>2, <2>2, <3>2, <3>3, <3>4, HandedNow
  <2> QED BY <1>1, <2>1, <2>2
<1>14. TypeOK'
  <2>1. seen' \in [Effects -> Seq(Events)] /\ stack' \in Seq(Deliveries)
    BY <1>13 DEF HandedOK
  <2>2. working' \subseteq Effects \X Events /\ lost' \subseteq Effects \X Events
    BY <1>2 DEF TypeOK
  <2> QED BY <1>5, <1>13, <2>1, <2>2 DEF TypeOK
<1> QED BY <1>7, <1>13, <1>14 DEF Inv

-----------------------------------------------------------------------------
\* The invariant, action by action.

LEMMA InitInv == Init => Inv
<1> SUFFICES ASSUME Init PROVE Inv
  OBVIOUS
<1>1. TypeOK
  <2>1. 0 \in 0 .. MaxEvents
    BY ListenerAssumption
  <2> QED BY <2>1 DEF Init, TypeOK
<1>2. EventsOK
  BY DEF Init, EventsOK, Events
<1>3. HandedOK(seen, stack)
  <2>1. Known(seen, stack) = {}
    BY DEF Init, Known, EventsOf, Range
  <2> QED BY <1>1, <2>1 DEF Init, HandedOK, TypeOK
<1>4. ErrorsOK
  BY DEF Init, ErrorsOK, FailuresAreReported, Closed, Streams
<1> QED BY <1>1, <1>2, <1>3, <1>4 DEF Inv

\* A message arrives: it has no parent and waits.
LEMMA ArriveKeeps == ASSUME Inv, Arrive PROVE Inv'
<1>0. TypeOK /\ EventsOK /\ HandedOK(seen, stack) /\ ErrorsOK
  BY DEF Inv
<1>1. /\ ~Closed /\ Spawn(0) /\ queue' = Append(queue, born')
      /\ UNCHANGED <<transport, stack, seen, working, trouble>>
  BY DEF Arrive
<1>2. 0 \in 0 .. MaxEvents /\ 0 <= born /\ failures' = failures /\ Queues
  BY <1>0, <1>1, ListenerAssumption DEF TypeOK, trouble, Queues
<1>3. PICK h, d : h = seen /\ d = stack
  OBVIOUS
<1>4. HandedOK(h, d)
  BY <1>0, <1>3
<1>5. /\ EventsOK' /\ queue' \in Seq(Events)
      /\ born' \in 0 .. MaxEvents /\ parent' \in [Events -> 0 .. MaxEvents]
  BY <1>0, <1>1, <1>2, EventsSpawn, WorkFacts
<1>6. HandedOK(h, d)'
  BY <1>0, <1>1, <1>2, <1>4, HandedSpawn, DroppedUnknown
<1>7. HandedOK(seen, stack)'
  BY <1>1, <1>3, <1>6, HandedNow
<1>8. ErrorsOK'
  BY <1>0, <1>1, ErrorsKept
<1> QED BY <1>0, <1>1, <1>5, <1>7, <1>8 DEF Inv, TypeOK, trouble

\* A delivery may begin with what is first in the queue: it follows all that is known.
LEMMA HandedBegin ==
    ASSUME TypeOK, EventsOK, NEW h, HandedOK(h, <<>>), queue # <<>>,
           NEW first, first = Head(queue), UNCHANGED <<transport, born, parent>>,
           queue' = Tail(queue),
           \A n \in DOMAIN failures' : failures'[n].where = Incoming =>
              \/ n \in DOMAIN failures /\ failures'[n] = failures[n]
              \/ failures'[n].cut = {}
    PROVE  HandedOK(h, <<Delivery(first)>>)'
<1> DEFINE d == <<Delivery(first)>>
<1>0. Takes /\ queue \in Seq(Events)
  BY DEF Takes, TypeOK
<1>1. /\ first \in Events /\ first = queue[1] /\ 1 \in DOMAIN queue
      /\ Len(queue) \in Nat /\ DOMAIN queue = 1 .. Len(queue)
      /\ DOMAIN Tail(queue) = 1 .. Len(queue) - 1
      /\ \A n \in DOMAIN Tail(queue) : Tail(queue)[n] = queue[n + 1] /\ n + 1 \in DOMAIN queue
  BY <1>0, Popped
<1>2. \A n \in DOMAIN queue' : \E m \in DOMAIN queue : queue'[n] = queue[m]
  BY <1>1
<1>3. HandedOK(h, <<>>)'
  <2>1. \A n \in DOMAIN failures' : failures'[n].where = Incoming =>
           failures'[n].cut \cap Known(h, <<>>) = {}
    BY DEF HandedOK
  <2> QED BY <1>2, <2>1, HandedKept
<1>4. /\ d \in Seq(Deliveries) /\ DOMAIN d = {1}
      /\ d[1].ev = first /\ DOMAIN <<>> = {}
  BY <1>1 DEF Delivery, Deliveries
<1>5. Known(h, d) \subseteq Known(h, <<>>) \cup {first}
  <2> HIDE DEF d
  <2> QED BY <1>4 DEF Known, EventsOf
<1>6. ASSUME NEW y \in Known(h, <<>>) PROVE Follows(y, first)
  <2>1. Waits(y, queue[1])
    BY <1>1 DEF HandedOK
  <2>2. transport = "local" => parent[queue[1]] = 0
    BY <1>1, QueueFacts
  <2> QED BY <1>1, <2>1, <2>2 DEF Follows, Waits
<1>7. \A y, x : Follows(y, x)' <=> Follows(y, x)
  BY DEF Follows, Ancestors
<1>8. /\ first <= born'
      /\ \A n \in DOMAIN queue' : Waits(first, queue[n])'
      /\ \A n \in DOMAIN failures' : failures'[n].where = Incoming => first \notin failures'[n].cut
  <2>1. first <= born'
    BY <1>1, QueueFacts
  <2>2. ASSUME NEW n \in DOMAIN queue' PROVE Waits(first, queue[n])'
    <3>1. n \in 1 .. Len(queue) - 1 /\ queue'[n] = queue[n + 1] /\ n + 1 \in DOMAIN queue
      BY <1>1, <2>2
    <3>2. 1 < n + 1
      BY <1>1, <3>1
    <3>3. queue[1] < queue[n + 1]
      BY <1>1, <3>1, <3>2, QueueAscends
    <3> QED BY <1>1, <3>1, <3>3 DEF Waits
  <2>3. ASSUME NEW n \in DOMAIN failures', failures'[n].where = Incoming
        PROVE  first \notin failures'[n].cut
    <3>1. first \in Range(queue)
      BY <1>1 DEF Range
    <3>2. CASE n \in DOMAIN failures /\ failures'[n] = failures[n]
      BY <2>3, <3>1, <3>2 DEF EventsOK
    <3>3. CASE failures'[n].cut = {}
      BY <3>3
    <3> QED BY <2>3, <3>2, <3>3
  <2> QED BY <2>1, <2>2, <2>3
<1> HIDE DEF d
<1>9. \A y \in Known(h, d) :
         /\ y <= born'
         /\ \A n \in DOMAIN queue' : Waits(y, queue[n])'
         /\ \A n \in DOMAIN failures' : failures'[n].where = Incoming => y \notin failures'[n].cut
  BY <1>3, <1>5, <1>8 DEF HandedOK
<1>10. \A k \in DOMAIN d : \A i \in Effects : i >= d[k].at =>
          \A y \in Range(h[i]) : Follows(y, d[k].ev)'
  BY <1>4, <1>6, <1>7 DEF Known
<1>11. /\ h \in [Effects -> Seq(Events)]
       /\ \A i \in Effects : \A m, n \in DOMAIN h[i] : m < n => Follows(h[i][m], h[i][n])'
  BY <1>3 DEF HandedOK
<1>12. \A j, k \in DOMAIN d : ~(j < k)
  BY <1>4
<1>13. HandedOK(h, d)'
  BY <1>4, <1>9, <1>10, <1>11, <1>12 DEF HandedOK
<1> QED BY <1>13 DEF d

\* The incoming stream takes a message out of the queue.
LEMMA TakeKeeps ==
    ASSUME TypeOK, EventsOK, Takes, UNCHANGED <<transport, born, parent, working>>,
           \A n \in DOMAIN failures' : failures'[n].where = Incoming =>
              \/ n \in DOMAIN failures /\ failures'[n] = failures[n]
              \/ failures'[n].cut \subseteq {Head(queue)}
    PROVE  /\ EventsOK'
           /\ queue' \in Seq(Events)
           /\ \A n \in DOMAIN queue' : \E m \in DOMAIN queue : queue'[n] = queue[m]
BY EventsKept, WorkFacts

\* A message is delivered.
LEMMA ReceiveKeeps == ASSUME Inv, Receive PROVE Inv'
<1>0. TypeOK /\ EventsOK /\ HandedOK(seen, stack) /\ ErrorsOK
  BY DEF Inv
<1>1. /\ ~Closed /\ stack = <<>> /\ queue # <<>> /\ queue' = Tail(queue)
      /\ stack' = <<Delivery(Head(queue))>>
      /\ UNCHANGED <<transport, born, parent, seen, working, trouble>>
  BY DEF Receive, Idle
<1>2. Takes /\ failures' = failures
  BY <1>1 DEF Takes, trouble
<1>3. PICK h, first : h = seen /\ first = Head(queue)
  OBVIOUS
<1>4. HandedOK(h, <<>>)
  BY <1>0, <1>1, <1>3
<1>5. EventsOK' /\ queue' \in Seq(Events)
  BY <1>0, <1>1, <1>2, TakeKeeps
<1>6. HandedOK(h, <<Delivery(first)>>)'
  BY <1>0, <1>1, <1>2, <1>3, <1>4, HandedBegin
<1>7. PICK d : d = <<Delivery(first)>>
  OBVIOUS
<1>8. HandedOK(h, d)'
  BY <1>6, <1>7
<1>9. HandedOK(seen, stack)'
  BY <1>1, <1>3, <1>7, <1>8, HandedNow
<1>10. stack' \in Seq(Deliveries)
  BY <1>9 DEF HandedOK
<1>11. ErrorsOK'
  BY <1>0, <1>1, ErrorsKept
<1> QED BY <1>0, <1>1, <1>5, <1>9, <1>10, <1>11 DEF Inv, TypeOK, trouble

\* The incoming stream reports an error: what it drops it has handed to nobody.
LEMMA IncomingReports ==
    ASSUME TypeOK, EventsOK, ErrorsOK, ~Closed, queue # <<>>, NEW cut \in SUBSET {Head(queue)},
           NEW report \in Reports, Report(Incoming, cut, report),
           UNCHANGED <<transport, lost>>
    PROVE  /\ failures' \in Seq(Failures) /\ streams' \subseteq Streams
           /\ ErrorsOK'
           /\ \A n \in DOMAIN failures' : failures'[n].where = Incoming =>
                 \/ n \in DOMAIN failures /\ failures'[n] = failures[n]
                 \/ failures'[n].cut = cut
<1>1. Incoming \in (0 .. NEffects) \ Guarded
  BY ListenerAssumption DEF Incoming
<1>2. cut \in SUBSET Events
  <2>1. queue \in Seq(Events)
    BY DEF TypeOK
  <2>2. Head(queue) \in Events
    BY <2>1, Popped
  <2> QED BY <2>2
<1>3. /\ failures' \in Seq(Failures)
      /\ Len(failures) \in Nat /\ DOMAIN failures = 1 .. Len(failures)
      /\ DOMAIN failures' = 1 .. Len(failures) + 1
      /\ \A n \in DOMAIN failures : failures'[n] = failures[n]
      /\ failures'[Len(failures) + 1] = [where |-> Incoming, cut |-> cut, report |-> report]
      /\ streams' \subseteq Streams /\ ~Closed'
      /\ "error" \in streams' \/
            (transport' # "websocket" /\ \E n \in DOMAIN failures' : failures'[n].report = "broken")
      /\ FailuresAreReported'
      /\ \A n \in DOMAIN failures' : failures'[n].where \notin Guarded
  BY <1>1, <1>2, Reported
<1>4. failures'[Len(failures) + 1].cut = cut
  BY <1>3
<1>5. \A n \in DOMAIN failures' : n \in DOMAIN failures \/ n = Len(failures) + 1
  BY <1>3
<1>6. lost' # {} => \E n \in DOMAIN failures' : failures'[n].where \in Effects \ Guarded
  <2> SUFFICES ASSUME lost' # {} PROVE \E n \in DOMAIN failures' : failures'[n].where \in Effects \ Guarded
    OBVIOUS
  <2>1. PICK n \in DOMAIN failures : failures[n].where \in Effects \ Guarded
    BY DEF ErrorsOK
  <2>2. n \in DOMAIN failures' /\ failures'[n] = failures[n]
    BY <1>3
  <2> QED BY <2>1, <2>2
<1>7. ErrorsOK'
  BY <1>3, <1>6 DEF ErrorsOK
<1> QED BY <1>3, <1>4, <1>5, <1>7

\* A message that a middleware rejects, or that does not decode, is dropped.
LEMMA DropKeeps ==
    ASSUME Inv, ~Closed, queue # <<>>, queue' = Tail(queue),
           NEW report \in Reports, Report(Incoming, {Head(queue)}, report),
           UNCHANGED <<transport, born, parent, stack, seen, working, lost>>
    PROVE  Inv'
<1>0. TypeOK /\ EventsOK /\ HandedOK(seen, stack) /\ ErrorsOK /\ Takes
  BY DEF Inv, Takes
<1>1. PICK h, d : h = seen /\ d = stack
  OBVIOUS
<1>2. HandedOK(h, d)
  BY <1>0, <1>1
<1>3. PICK cut : cut = {Head(queue)}
  OBVIOUS
<1>4. /\ failures' \in Seq(Failures) /\ streams' \subseteq Streams /\ ErrorsOK'
      /\ \A n \in DOMAIN failures' : failures'[n].where = Incoming =>
            \/ n \in DOMAIN failures /\ failures'[n] = failures[n]
            \/ failures'[n].cut = cut
  <2>1. cut \in SUBSET {Head(queue)} /\ Report(Incoming, cut, report)
    BY <1>3
  <2> QED BY <1>0, <2>1, IncomingReports
<1>5. /\ EventsOK' /\ queue' \in Seq(Events)
      /\ \A n \in DOMAIN queue' : \E m \in DOMAIN queue : queue'[n] = queue[m]
  BY <1>0, <1>3, <1>4, TakeKeeps
<1>6. \A n \in DOMAIN failures' : failures'[n].where = Incoming =>
         failures'[n].cut \cap Known(h, d) = {}
  <2>1. Head(queue) \notin Known(h, d)
    BY <1>0, <1>2, HeadUnknown
  <2>2. \A n \in DOMAIN failures : failures[n].where = Incoming => failures[n].cut \cap Known(h, d) = {}
    BY <1>2 DEF HandedOK
  <2> QED BY <1>3, <1>4, <2>1, <2>2
<1>7. HandedOK(h, d)'
  BY <1>2, <1>5, <1>6, HandedKept
<1>8. HandedOK(seen, stack)'
  BY <1>1, <1>7, HandedNow
<1> QED BY <1>0, <1>4, <1>5, <1>8 DEF Inv, TypeOK

LEMMA ReceiveRejectedKeeps == ASSUME Inv, ReceiveRejected PROVE Inv'
BY DropKeeps DEF ReceiveRejected

\* A message that does not decode is dropped, or delivered as an unknown event.
LEMMA ReceiveMalformedKeeps == ASSUME Inv, ReceiveMalformed PROVE Inv'
<1>0. TypeOK /\ EventsOK /\ HandedOK(seen, stack) /\ ErrorsOK
  BY DEF Inv
<1>1. /\ ~Closed /\ stack = <<>> /\ queue # <<>> /\ queue' = Tail(queue)
      /\ UNCHANGED <<transport, born, parent, seen, working, lost>>
  BY DEF ReceiveMalformed, Idle
<1>2. CASE transport = "websocket"
  BY <1>1, <1>2, DropKeeps DEF ReceiveMalformed
<1>3. CASE transport # "websocket"
  <2>1. PICK report \in Reports : Report(Incoming, {}, report)
    BY <1>3 DEF ReceiveMalformed
  <2>2. stack' = <<Delivery(Head(queue))>> /\ Takes
    BY <1>1, <1>3 DEF ReceiveMalformed, Takes
  <2>3. /\ failures' \in Seq(Failures) /\ streams' \subseteq Streams /\ ErrorsOK'
        /\ \A n \in DOMAIN failures' : failures'[n].where = Incoming =>
              \/ n \in DOMAIN failures /\ failures'[n] = failures[n]
              \/ failures'[n].cut = {}
    BY <1>0, <1>1, <2>1, IncomingReports
  <2>4. EventsOK' /\ queue' \in Seq(Events)
    BY <1>0, <1>1, <2>2, <2>3, TakeKeeps
  <2>5. PICK h, first : h = seen /\ first = Head(queue)
    OBVIOUS
  <2>6. HandedOK(h, <<>>)
    BY <1>0, <1>1, <2>5
  <2>7. HandedOK(h, <<Delivery(first)>>)'
    BY <1>0, <1>1, <2>3, <2>5, <2>6, HandedBegin
  <2>8. PICK d : d = <<Delivery(first)>>
    OBVIOUS
  <2>9. HandedOK(h, d)'
    BY <2>7, <2>8
  <2>10. HandedOK(seen, stack)'
    BY <1>1, <2>2, <2>5, <2>8, <2>9, HandedNow
  <2>11. stack' \in Seq(Deliveries)
    BY <2>10 DEF HandedOK
  <2> QED BY <1>0, <1>1, <2>3, <2>4, <2>10, <2>11 DEF Inv, TypeOK
<1> QED BY <1>2, <1>3

\* Where an event is handed to an effect, the connection is open.
LEMMA HandedOpen == ASSUME ErrorsOK, ~Idle PROVE ~Closed
BY DEF ErrorsOK

\* An effect ignores its event, answers it, or begins to work on it.
LEMMA HandKeeps ==
    ASSUME Inv, NEW i \in Effects, NEW e \in Events, Handed(i, e), seen' = After(i, e),
           Output(e, Rest), UNCHANGED trouble, working' \subseteq working \cup {<<i, e>>}
    PROVE  Inv'
<1>0. TypeOK /\ EventsOK /\ HandedOK(seen, stack) /\ ErrorsOK
  BY DEF Inv
<1>1. PICK h, d : h = After(i, e) /\ d = Rest
  OBVIOUS
<1>2. HandedOK(h, d) /\ (d # <<>> => d[1].ev = e) /\ e <= born
  BY <1>0, <1>1, HandOn
<1>3. transport' = transport /\ ~Closed /\ failures' = failures /\ e \in Nat
  BY <1>0, HandedOpen DEF Handed, trouble, Events
<1>4. \A w \in working' : w[2] \in Nat /\ w[2] <= born
  <2>1. ASSUME NEW w \in working' PROVE w \in working \/ w = <<i, e>>
    BY <2>1
  <2>2. <<i, e>>[2] = e
    OBVIOUS
  <2> QED BY <1>0, <1>2, <1>3, <2>1, <2>2, WorkFacts
<1>5. Output(e, d) /\ seen' = h
  BY <1>1
<1>6. /\ EventsOK' /\ HandedOK(seen, stack)'
      /\ born' \in 0 .. MaxEvents /\ parent' \in [Events -> 0 .. MaxEvents]
      /\ queue' \in Seq(Events)
  BY <1>0, <1>2, <1>3, <1>4, <1>5, OutputKeeps
<1>7. stack' \in Seq(Deliveries) /\ seen' \in [Effects -> Seq(Events)]
  BY <1>6 DEF HandedOK
<1>8. ErrorsOK'
  BY <1>0, <1>3, ErrorsKept
<1>9. working' \subseteq Effects \X Events
  BY <1>0 DEF TypeOK
<1> QED BY <1>0, <1>3, <1>6, <1>7, <1>8, <1>9 DEF Inv, TypeOK, trouble

LEMMA IgnoreKeeps == ASSUME Inv, NEW i \in Effects, NEW e \in Events, Ignore(i, e) PROVE Inv'
BY HandKeeps DEF Ignore, Output

LEMMA AnswerKeeps == ASSUME Inv, NEW i \in Effects, NEW e \in Events, Answer(i, e) PROVE Inv'
BY HandKeeps DEF Answer

LEMMA WorkKeeps == ASSUME Inv, NEW i \in Effects, NEW e \in Events, Work(i, e) PROVE Inv'
BY HandKeeps DEF Work, Output

\* An effect fails while it is handed its event,
LEMMA FailAtOnceKeeps == ASSUME Inv, NEW i \in Effects, NEW e \in Events, FailAtOnce(i, e) PROVE Inv'
<1>0. TypeOK /\ EventsOK /\ HandedOK(seen, stack) /\ ErrorsOK
  BY DEF Inv
<1>1. /\ Handed(i, e) /\ i \in Effects \ Guarded /\ Fail(i, e, After(i, e))
      /\ transport' = transport /\ ~Idle
  BY DEF FailAtOnce, Handed
<1>2. PICK h, d : h = After(i, e) /\ d = Rest
  OBVIOUS
<1>3. HandedOK(h, d) /\ e <= born
  BY <1>0, <1>1, <1>2, HandOn
<1>4. ~Closed
  BY <1>0, <1>1, HandedOpen
<1>5. Fail(i, e, h)
  BY <1>1, <1>2
<1> QED BY <1>0, <1>1, <1>3, <1>4, <1>5, FailKeeps

\* or later, while it works on it,
LEMMA FailLaterKeeps == ASSUME Inv, NEW i \in Effects, NEW e \in Events, FailLater(i, e) PROVE Inv'
<1>0. TypeOK /\ EventsOK /\ HandedOK(seen, stack) /\ ErrorsOK
  BY DEF Inv
<1>1. <<i, e>> \in working /\ i \in Effects \ Guarded /\ Fail(i, e, seen) /\ transport' = transport
  BY DEF FailLater
<1>2. PICK h, d : h = seen /\ d = stack
  OBVIOUS
<1>3. HandedOK(h, d)
  BY <1>0, <1>2
<1>4. e <= born
  <2>1. <<i, e>>[2] = e
    OBVIOUS
  <2> QED BY <1>0, <1>1, <2>1, WorkFacts
<1>5. ~Closed
  BY <1>0, <1>1 DEF ErrorsOK
<1>6. Fail(i, e, h)
  BY <1>1, <1>2
<1> QED BY <1>0, <1>1, <1>3, <1>4, <1>5, <1>6, FailKeeps

\* or answers it then.
LEMMA AnswerLaterKeeps == ASSUME Inv, NEW i \in Effects, NEW e \in Events, AnswerLater(i, e) PROVE Inv'
<1>0. TypeOK /\ EventsOK /\ HandedOK(seen, stack) /\ ErrorsOK
  BY DEF Inv
<1>1. /\ <<i, e>> \in working /\ stack = <<>> /\ Output(e, <<>>)
      /\ working' = working \ {<<i, e>>}
      /\ UNCHANGED <<transport, seen, trouble>>
  BY DEF AnswerLater, Idle
<1>2. PICK h : h = seen
  OBVIOUS
<1>3. HandedOK(h, <<>>) /\ seen' = h
  BY <1>0, <1>1, <1>2
<1>4. e <= born
  <2>1. <<i, e>>[2] = e
    OBVIOUS
  <2> QED BY <1>0, <1>1, <2>1, WorkFacts
<1>5. ~Closed /\ failures' = failures
  BY <1>0, <1>1 DEF ErrorsOK, trouble
<1>6. \A w \in working' : w[2] \in Nat /\ w[2] <= born
  BY <1>0, <1>1, WorkFacts
<1>7. /\ EventsOK' /\ HandedOK(seen, stack)'
      /\ born' \in 0 .. MaxEvents /\ parent' \in [Events -> 0 .. MaxEvents]
      /\ queue' \in Seq(Events)
  BY <1>0, <1>1, <1>3, <1>4, <1>5, <1>6, OutputKeeps
<1>8. stack' \in Seq(Deliveries) /\ seen' \in [Effects -> Seq(Events)]
  BY <1>7 DEF HandedOK
<1>9. ErrorsOK'
  BY <1>0, <1>1, <1>5, ErrorsKept
<1> QED BY <1>0, <1>1, <1>7, <1>8, <1>9 DEF Inv, TypeOK, trouble

\* A delivery is over.
LEMMA ReturnKeeps == ASSUME Inv, Return PROVE Inv'
<1>0. TypeOK /\ EventsOK /\ HandedOK(seen, stack) /\ ErrorsOK
  BY DEF Inv
<1>1. /\ stack # <<>> /\ stack' = Tail(stack) /\ ~Idle
      /\ UNCHANGED <<transport, events, seen, working, trouble>>
  BY DEF Return, Idle
<1>2. UNCHANGED <<transport, born, parent>> /\ queue' = queue /\ failures' = failures
  BY <1>1 DEF events, trouble
<1>3. PICK h, d : h = seen /\ d = Tail(stack)
  OBVIOUS
<1>4. HandedOK(h, d)
  <2>1. /\ d \in Seq(Deliveries)
        /\ \A n \in DOMAIN d : n \in Nat /\ d[n] = stack[n + 1] /\ n + 1 \in DOMAIN stack
    <3>1. stack \in Seq(Deliveries)
      BY <1>0 DEF TypeOK
    <3> QED BY <1>1, <1>3, <3>1, Popped
  <2>2. Known(h, d) \subseteq Known(seen, stack)
    BY <1>3, <2>1 DEF Known, EventsOf
  <2>3. \A k \in DOMAIN d : \A i \in Effects : i >= d[k].at => \A y \in Range(h[i]) : Follows(y, d[k].ev)
    BY <1>0, <1>3, <2>1 DEF HandedOK
  <2>4. ASSUME NEW j \in DOMAIN d, NEW k \in DOMAIN d, j < k
        PROVE  /\ transport = "local"
               /\ parent[d[j].ev] # 0
               /\ d[k].ev \in Ancestors(d[j].ev)
    <3>1. j + 1 < k + 1 /\ j + 1 \in DOMAIN stack /\ k + 1 \in DOMAIN stack
      BY <2>1, <2>4
    <3> QED BY <1>0, <2>1, <3>1 DEF HandedOK
  <2> QED BY <1>0, <1>3, <2>1, <2>2, <2>3, <2>4 DEF HandedOK
<1>5. /\ EventsOK' /\ queue' \in Seq(Events)
      /\ \A n \in DOMAIN queue' : \E m \in DOMAIN queue : queue'[n] = queue[m]
  BY <1>0, <1>1, <1>2, EventsKept, WorkFacts
<1>6. HandedOK(h, d)'
  BY <1>2, <1>4, <1>5, HandedKept, DroppedUnknown
<1>7. HandedOK(seen, stack)'
  BY <1>1, <1>3, <1>6, HandedNow
<1>8. stack' \in Seq(Deliveries)
  BY <1>7 DEF HandedOK
<1>9. ErrorsOK'
  BY <1>0, <1>1, ErrorsKept, HandedOpen
<1> QED BY <1>0, <1>1, <1>2, <1>5, <1>7, <1>8, <1>9 DEF Inv, TypeOK, trouble

\* The connection closes.
LEMMA CloseKeeps == ASSUME Inv, Close PROVE Inv'
<1>0. TypeOK /\ EventsOK /\ HandedOK(seen, stack) /\ ErrorsOK
  BY DEF Inv
<1>1. /\ Idle /\ streams' = {} /\ working' = {}
      /\ UNCHANGED <<transport, events, stack, seen, lost, failures>>
  BY DEF Close
<1>2. UNCHANGED <<transport, born, parent>> /\ queue' = queue
  BY <1>1 DEF events
<1>3. PICK h, d : h = seen /\ d = stack
  OBVIOUS
<1>4. /\ EventsOK' /\ queue' \in Seq(Events)
      /\ \A n \in DOMAIN queue' : \E m \in DOMAIN queue : queue'[n] = queue[m]
  BY <1>0, <1>1, <1>2, EventsKept
<1>5. HandedOK(h, d)'
  BY <1>0, <1>1, <1>2, <1>3, <1>4, HandedKept, DroppedUnknown
<1>6. HandedOK(seen, stack)'
  BY <1>1, <1>3, <1>5, HandedNow
<1>7. ErrorsOK'
  BY <1>0, <1>1 DEF ErrorsOK, FailuresAreReported, Closed, Idle
<1> QED BY <1>0, <1>1, <1>2, <1>4, <1>6, <1>7 DEF Inv, TypeOK

\* Stuttering.
LEMMA StutterKeeps == ASSUME Inv, UNCHANGED vars PROVE Inv'
<1>0. TypeOK /\ EventsOK /\ HandedOK(seen, stack) /\ ErrorsOK
  BY DEF Inv
<1>1. UNCHANGED <<transport, born, parent, queue, stack, seen, working, lost, streams, failures>>
  BY DEF vars
<1>2. TypeOK'
  BY <1>0, <1>1 DEF TypeOK
<1>3. EventsOK'
  BY <1>0, <1>1, EventsKept, WorkFacts
<1>4. PICK h, d : h = seen /\ d = stack
  OBVIOUS
<1>5. HandedOK(h, d)'
  BY <1>0, <1>1, <1>4, HandedKept, DroppedUnknown
<1>6. HandedOK(seen, stack)'
  BY <1>1, <1>4, <1>5, HandedNow
<1>7. ErrorsOK'
  BY <1>0, <1>1 DEF ErrorsOK, FailuresAreReported, Closed, Idle
<1> QED BY <1>2, <1>3, <1>6, <1>7 DEF Inv

\* The invariant holds throughout: what is handed, what is on the stack and what waits
\* stay in order, and every error is accounted for, whatever the transport and however
\* the deliveries nest.
THEOREM Invariance == Spec => []Inv
<1>1. ASSUME Inv, [Next]_vars PROVE Inv'
  <2>1. CASE Arrive
    BY <1>1, <2>1, ArriveKeeps
  <2>2. CASE Receive
    BY <1>1, <2>2, ReceiveKeeps
  <2>3. CASE ReceiveMalformed
    BY <1>1, <2>3, ReceiveMalformedKeeps
  <2>4. CASE ReceiveRejected
    BY <1>1, <2>4, ReceiveRejectedKeeps
  <2>5. CASE Deliver
    BY <1>1, <2>5, IgnoreKeeps, AnswerKeeps, WorkKeeps, FailAtOnceKeeps, ReturnKeeps DEF Deliver
  <2>6. CASE \E i \in Effects, e \in Events : AnswerLater(i, e) \/ FailLater(i, e)
    BY <1>1, <2>6, AnswerLaterKeeps, FailLaterKeeps
  <2>7. CASE Close
    BY <1>1, <2>7, CloseKeeps
  <2>8. CASE UNCHANGED vars
    BY <1>1, <2>8, StutterKeeps
  <2> QED BY <1>1, <2>1, <2>2, <2>3, <2>4, <2>5, <2>6, <2>7, <2>8 DEF Next
<1> QED BY InitInv, <1>1, PTL DEF Spec

\* Every variable of the listener keeps its type.
THEOREM TypeCorrect == Spec => []TypeOK
<1>1. Inv => TypeOK
  BY DEF Inv
<1> QED BY Invariance, <1>1, PTL

\* Every effect is handed events in the order they came up, but for what the listener
\* emits itself on the local bus (combineEffects over the shared stream, and the
\* transports' delivery of what is emitted).
THEOREM EffectsSeeEventsInOrder == Spec => []SeenInOrder
<1>1. Inv => SeenInOrder
  <2> SUFFICES ASSUME Inv, NEW i \in Effects, NEW m \in DOMAIN seen[i], NEW n \in DOMAIN seen[i], m < n
               PROVE  Follows(seen[i][m], seen[i][n])
    BY DEF SeenInOrder, Follows
  <2> QED BY DEF Inv, HandedOK
<1> QED BY Invariance, <1>1, PTL

\* An error is told and confined: it goes unreported only behind a report that broke the
\* error stream, work is lost only to an effect without act(), and what the incoming
\* stream drops no effect was ever handed.
THEOREM FailuresStayConfined == Spec => []FailuresConfined
<1>1. Inv => FailuresConfined
  <2> SUFFICES ASSUME Inv PROVE FailuresConfined
    OBVIOUS
  <2>1. FailuresAreReported /\ (lost # {} => \E n \in DOMAIN failures : failures[n].where \in Effects \ Guarded)
        /\ \A n \in DOMAIN failures : failures[n].where \notin Guarded
    BY DEF Inv, ErrorsOK
  <2>2. ASSUME NEW n \in DOMAIN failures, failures[n].where = Incoming, NEW i \in Effects
        PROVE  failures[n].cut \cap Range(seen[i]) = {}
    <3>1. \A y \in Known(seen, stack) : y \notin failures[n].cut
      BY <2>2 DEF Inv, HandedOK
    <3> QED BY <3>1 DEF Known
  <2> QED BY <2>1, <2>2 DEF FailuresConfined, HarmOnlyByUnguarded
<1> QED BY Invariance, <1>1, PTL
=============================================================================
