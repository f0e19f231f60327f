---------------------------- MODULE AckModeProofs ----------------------------
(***************************************************************************)
(* Proofs about AckMode, for every bound, set of correlation ids and set   *)
(* of operations.  The inductive invariant is the type invariant together  *)
(* with Arrivals (what has not arrived has no timer and no task), the      *)
(* store's soundness and the statement about lost timers; that a handled   *)
(* event's timer is disarmed unless its id is shared follows step by step  *)
(* from the last one.                                                      *)
(***************************************************************************)
EXTENDS AckMode, TLAPS, SequenceTheorems

\* What has not arrived yet has neither a timer nor a task; an event whose
\* timer was armed has a correlation id; a queued task belongs to an arrival.
Arrivals ==
    \A d \in Deliveries :
        /\ Arrived(d) => key[d] \in CorrelationIds
        /\ ~Arrived(d) => timer[d] = "unset"
        /\ ~Arrived(d) => \A o \in Ops : stage[d][o] = "idle"

IInv == TypeOK /\ Arrivals /\ StoreSound /\ LostOnlyWhenShared /\ HandledIsDisarmed

-----------------------------------------------------------------------------
\* What ackMessage and nackMessage touch keeps its type.
FlagsOK ==
    /\ isAcked \in [Deliveries -> BOOLEAN]
    /\ isNacked \in [Deliveries -> BOOLEAN]
    /\ settled \in [Deliveries -> Seq(Settlements)]

\* One more settlement is a longer sequence of settlements.
LEMMA SettleFlags ==
    ASSUME FlagsOK, NEW d \in Deliveries, NEW r \in Settlements, Settle(d, r)
    PROVE  settled' \in [Deliveries -> Seq(Settlements)]
<1>1. settled \in [Deliveries -> Seq(Settlements)] /\ settled[d] \in Seq(Settlements)
  BY DEF FlagsOK
<1>2. Append(settled[d], r) \in Seq(Settlements)
  BY <1>1
<1> QED BY <1>1, <1>2 DEF Settle

\* ackMessage leaves flags and settlements well typed.
LEMMA AckFlags ==
    ASSUME FlagsOK, NEW d \in Deliveries, AckMessage(d)
    PROVE  FlagsOK'
<1>1. CASE ExpectAck /\ ~isAcked[d]
  <2>1. settled' \in [Deliveries -> Seq(Settlements)]
    <3>1. "acked" \in Settlements
      BY DEF Settlements
    <3> QED BY <1>1, <3>1, SettleFlags DEF AckMessage
  <2> QED BY <1>1, <2>1 DEF FlagsOK, AckMessage
<1>2. CASE ~(ExpectAck /\ ~isAcked[d])
  BY <1>2 DEF FlagsOK, AckMessage
<1> QED BY <1>1, <1>2

\* So does nackMessage, with and without requeue.
LEMMA NackFlags ==
    ASSUME FlagsOK, NEW d \in Deliveries, NEW resend \in BOOLEAN, NackMessage(d, resend)
    PROVE  FlagsOK'
<1>1. CASE ExpectAck /\ ~isNacked[d]
  <2>1. settled' \in [Deliveries -> Seq(Settlements)]
    <3>1. (IF resend THEN "requeued" ELSE "discarded") \in Settlements
      BY DEF Settlements
    <3> QED BY <1>1, <3>1, SettleFlags DEF NackMessage
  <2> QED BY <1>1, <2>1 DEF FlagsOK, NackMessage
<1>2. CASE ~(ExpectAck /\ ~isNacked[d])
  BY <1>2 DEF FlagsOK, NackMessage
<1> QED BY <1>1, <1>2

\* The number of the delivery that arrives next is a delivery, so far absent.
LEMMA NextArrival ==
    ASSUME count \in 0 .. MaxDeliveries, count < MaxDeliveries
    PROVE  count + 1 \in Deliveries /\ ~Arrived(count + 1)
  BY ConstantsAssumption DEF Deliveries, Arrived

\* The type invariant is established and kept by every action.
THEOREM TypeCorrect == Spec => []TypeOK
<1>1. Init => TypeOK
  BY ConstantsAssumption DEF Init, TypeOK, Deliveries, Ops
<1>2. ASSUME TypeOK, [Next]_vars PROVE TypeOK'
  <2> USE ConstantsAssumption, <1>2 DEF TypeOK
  <2>0. FlagsOK
    BY DEF FlagsOK
  <2>1. ASSUME NEW k \in CorrelationIds, Deliver(k) PROVE TypeOK'
    <3>1. count + 1 \in Deliveries /\ count' \in 0 .. MaxDeliveries
      BY <2>1, NextArrival DEF Deliver
    <3>2. FlagsOK'
      BY <2>0, <2>1, <3>1, NackFlags DEF Deliver, RejectUnhandled, FlagsOK
    <3>3. /\ timer' \in [Deliveries -> {"unset", "armed", "fired", "cleared"}]
          /\ store' \in [CorrelationIds -> Deliveries \cup {None}]
      <4>1. Register(count + 1, k) \/ UNCHANGED <<timer, store>>
        BY <2>1 DEF Deliver, RejectUnhandled
      <4>2. ASSUME NEW d \in Deliveries, Register(d, k)
            PROVE  /\ timer' \in [Deliveries -> {"unset", "armed", "fired", "cleared"}]
                   /\ store' \in [CorrelationIds -> Deliveries \cup {None}]
        BY <4>2 DEF Register
      <4> QED BY <3>1, <4>1, <4>2
    <3> QED BY <2>1, <3>1, <3>2, <3>3 DEF Deliver, FlagsOK
  <2>2. ASSUME NEW d \in Deliveries, NEW o \in UserOps, Handle(d, o) PROVE TypeOK'
    <3>1. o \in Ops /\ o \in {"ack", "nack", "resend"}
      BY DEF Ops, AckOps
    <3>2. AckMessage(d) \/ NackMessage(d, TRUE) \/ NackMessage(d, FALSE)
      BY <2>2, <3>1 DEF Handle
    <3>3. FlagsOK'
      BY <2>0, <3>2, AckFlags, NackFlags
    <3> QED BY <2>2, <3>1, <3>3 DEF Handle, FlagsOK
  <2>3. ASSUME NEW d \in Deliveries, NEW o \in Ops, UnregisterTask(d, o) PROVE TypeOK'
    BY <2>3 DEF UnregisterTask, Unregister
  <2>4. ASSUME NEW d \in Deliveries, NEW o \in Ops, Resolve(d, o) PROVE TypeOK'
    BY <2>4 DEF Resolve
  <2>5. ASSUME NEW d \in Deliveries, Expire(d) PROVE TypeOK'
    BY <2>5 DEF Expire, Ops
  <2>6. CASE UNCHANGED vars
    BY <2>6 DEF vars
  <2> QED BY <1>2, <2>1, <2>2, <2>3, <2>4, <2>5, <2>6 DEF Next
<1> QED BY <1>1, <1>2, PTL DEF Spec
-----------------------------------------------------------------------------
\* What has arrived stays, with its id, when the next delivery arrives.
LEMMA DeliverFrame ==
    ASSUME TypeOK, Arrivals, NEW k \in CorrelationIds, Deliver(k),
           NEW n, n = count + 1
    PROVE  /\ n \in Deliveries /\ ~Arrived(n)
           /\ key' = [key EXCEPT ![n] = k]
           /\ stage' = stage
           /\ Register(n, k) \/ UNCHANGED <<timer, store>>
           /\ \A d \in Deliveries : Arrived(d)' <=> (Arrived(d) \/ d = n)
           /\ \A d \in Deliveries : Arrived(d) => d # n /\ n > d
<1>1. n \in Deliveries /\ ~Arrived(n)
  BY NextArrival DEF Deliver, TypeOK
<1>2. Register(n, k) \/ UNCHANGED <<timer, store>>
  BY DEF Deliver, RejectUnhandled
<1>3. \A d \in Deliveries : Arrived(d)' <=> (Arrived(d) \/ d = n)
  BY ConstantsAssumption DEF Deliver, TypeOK, Arrived, Deliveries
<1>4. \A d \in Deliveries : Arrived(d) => d # n /\ n > d
  BY ConstantsAssumption DEF TypeOK, Arrived, Deliveries
<1> QED BY <1>1, <1>2, <1>3, <1>4 DEF Deliver

\* Deliver keeps the invariant.
LEMMA DeliverKeeps ==
    ASSUME IInv, TypeOK', NEW k \in CorrelationIds, Deliver(k)
    PROVE  IInv'
<1>0. PICK n \in Deliveries : n = count + 1
  BY NextArrival DEF Deliver, IInv, TypeOK
<1>1. /\ n \in Deliveries /\ ~Arrived(n)
      /\ key' = [key EXCEPT ![n] = k]
      /\ stage' = stage
      /\ Register(n, k) \/ UNCHANGED <<timer, store>>
      /\ \A d \in Deliveries : Arrived(d)' <=> (Arrived(d) \/ d = n)
      /\ \A d \in Deliveries : Arrived(d) => d # n /\ n > d
  BY <1>0, DeliverFrame DEF IInv
<1> USE ConstantsAssumption, <1>1
<1>2. timer[n] = "unset" /\ \A d \in Deliveries : timer[d] = "armed" => Arrived(d)
  BY DEF IInv, Arrivals
<1>3. \A d \in Deliveries : d # n => timer'[d] = timer[d] /\ key'[d] = key[d]
  BY DEF IInv, TypeOK, Register
<1>4. Arrivals'
  BY <1>3 DEF IInv, TypeOK, Arrivals
<1>5. StoreSound'
  BY <1>2 DEF IInv, TypeOK, StoreSound, Register
<1>6. \A d, e \in Deliveries : SameKey(d, e) /\ Arrived(d) => SameKey(d, e)'
  BY <1>3 DEF SameKey
<1>7. LostOnlyWhenShared'
  <2> SUFFICES ASSUME NEW d \in Deliveries, timer'[d] = "armed", store'[key'[d]] # d
               PROVE  \E e \in Deliveries : SameKey(d, e)' /\ (e > d \/ timer'[e] = "fired")
    BY DEF LostOnlyWhenShared
  <2>1. d # n /\ key'[n] = k
    BY <1>2 DEF IInv, TypeOK, Register
  <2>2. timer[d] = "armed" /\ Arrived(d) /\ key'[d] = key[d] /\ key[d] \in CorrelationIds
    BY <1>2, <1>3, <2>1 DEF IInv, Arrivals
  <2>3. CASE store[key[d]] # d
    <3>1. PICK e \in Deliveries : SameKey(d, e) /\ (e > d \/ timer[e] = "fired")
      BY <2>2, <2>3 DEF IInv, LostOnlyWhenShared
    <3>2. e # n
      BY <3>1 DEF SameKey
    <3> QED BY <1>3, <1>6, <2>2, <3>1, <3>2
  <2>4. CASE store[key[d]] = d
    <3>1. key[d] = k
      BY <2>2, <2>4 DEF IInv, TypeOK, Register
    <3>2. SameKey(d, n)'
      BY <2>1, <2>2, <3>1 DEF SameKey
    <3> QED BY <2>2, <3>2
  <2> QED BY <2>3, <2>4
<1>8. HandledIsDisarmed'
  <2> SUFFICES ASSUME NEW d \in Deliveries, NEW o \in Ops,
                      stage[d][o] \in {"wait", "done"}, timer'[d] = "armed"
               PROVE  \E e \in Deliveries : SameKey(d, e)'
    BY DEF HandledIsDisarmed
  <2>1. Arrived(d) /\ timer[d] = "armed"
    BY <1>3 DEF IInv, Arrivals
  <2> QED BY <1>6, <2>1 DEF IInv, HandledIsDisarmed
<1> QED BY <1>4, <1>5, <1>7, <1>8 DEF IInv
\* Handle and Resolve touch no timer and no entry, and advance no task past its
\* unregister step that was not past it already.
LEMMA StageOnlyKeeps ==
    ASSUME IInv, TypeOK', UNCHANGED <<count, key, timer, store>>,
           NEW d \in Deliveries, Arrived(d), NEW o \in Ops,
           NEW s \in {"unregister", "done"}, s = "done" => stage[d][o] = "wait",
           stage' = [stage EXCEPT ![d][o] = s]
    PROVE  IInv'
<1>1. Arrivals'
  BY DEF IInv, TypeOK, Arrivals, Arrived
<1>2. StoreSound' /\ LostOnlyWhenShared'
  BY DEF IInv, StoreSound, LostOnlyWhenShared, SameKey, Arrived
<1>3. ASSUME NEW c \in Deliveries, NEW p \in Ops, stage'[c][p] \in {"wait", "done"}
      PROVE  stage[c][p] \in {"wait", "done"}
  BY <1>3 DEF IInv, TypeOK
<1>4. HandledIsDisarmed'
  BY <1>3 DEF IInv, HandledIsDisarmed, SameKey, Arrived
<1> QED BY <1>1, <1>2, <1>4 DEF IInv

\* The unregister step keeps the invariant.
LEMMA UnregisterKeeps ==
    ASSUME IInv, TypeOK', NEW c \in Deliveries, NEW p \in Ops, UnregisterTask(c, p)
    PROVE  IInv'
<1> USE ConstantsAssumption
<1> DEFINE k == key[c]
<1>1. Arrived(c) /\ k \in CorrelationIds
  BY DEF UnregisterTask, IInv, Arrivals
<1>2. UNCHANGED <<count, key>> /\ \A d, e \in Deliveries : SameKey(d, e)' <=> SameKey(d, e)
  BY DEF UnregisterTask, SameKey, Arrived
<1>3. \A d \in Deliveries : timer'[d] = IF store[k] = d THEN "cleared" ELSE timer[d]
  BY <1>1 DEF UnregisterTask, Unregister, IInv, TypeOK, Deliveries
<1>4. \A j \in CorrelationIds : store'[j] = IF j = k THEN None ELSE store[j]
  BY <1>1 DEF UnregisterTask, Unregister, IInv, TypeOK
<1>5. Arrivals'
  <2>1. \A d \in Deliveries : store[k] = d => Arrived(d)
    <3>1. \A d \in Deliveries : d # None
      BY DEF Deliveries
    <3> QED BY <1>1, <3>1 DEF IInv, StoreSound, Arrivals
  <2>2. \A d \in Deliveries : Arrived(d)' <=> Arrived(d)
    BY <1>2 DEF Arrived
  <2>3. \A d \in Deliveries, o \in Ops : ~Arrived(d) => stage'[d][o] = "idle"
    BY <1>1 DEF UnregisterTask, IInv, TypeOK, Arrivals
  <2> QED BY <1>2, <1>3, <2>1, <2>2, <2>3 DEF Arrivals, IInv
<1>6. StoreSound'
  <2> SUFFICES ASSUME NEW j \in CorrelationIds, store'[j] # None
               PROVE  timer'[store'[j]] = "armed" /\ key'[store'[j]] = j
    BY DEF StoreSound
  <2>1. j # k /\ store'[j] = store[j] /\ store[j] \in Deliveries
    BY <1>4 DEF IInv, TypeOK
  <2>2. timer[store[j]] = "armed" /\ key[store[j]] = j
    BY <2>1 DEF IInv, StoreSound
  <2>3. store[k] # store[j]
    BY <1>1, <2>1, <2>2 DEF IInv, StoreSound
  <2> QED BY <1>2, <1>3, <2>1, <2>2, <2>3
<1> HIDE DEF k
<1>7. LostOnlyWhenShared'
  <2> SUFFICES ASSUME NEW d \in Deliveries, timer'[d] = "armed", store'[key'[d]] # d
               PROVE  \E e \in Deliveries : SameKey(d, e)' /\ (e > d \/ timer'[e] = "fired")
    BY DEF LostOnlyWhenShared
  <2>1. timer[d] = "armed" /\ store[k] # d /\ key'[d] = key[d]
    BY <1>2, <1>3
  <2>2. key[d] \in CorrelationIds
    BY <2>1 DEF IInv, Arrivals
  <2>3. store[key[d]] # d
    BY <1>4, <2>1, <2>2
  <2>4. PICK e \in Deliveries : SameKey(d, e) /\ (e > d \/ timer[e] = "fired")
    BY <2>1, <2>3 DEF IInv, LostOnlyWhenShared
  <2>5. timer[e] = "fired" => timer'[e] = "fired"
    BY <1>1, <1>3 DEF IInv, StoreSound, Deliveries, k
  <2> QED BY <1>2, <2>4, <2>5
<1>8. HandledIsDisarmed'
  <2> SUFFICES ASSUME NEW d \in Deliveries, NEW o \in Ops,
                      stage'[d][o] \in {"wait", "done"}, timer'[d] = "armed"
               PROVE  \E e \in Deliveries : SameKey(d, e)'
    BY DEF HandledIsDisarmed
  <2>1. timer[d] = "armed" /\ store[k] # d
    BY <1>3
  <2>2. CASE d = c
    BY <1>2, <2>1, <2>2 DEF IInv, LostOnlyWhenShared, k
  <2>3. CASE d # c
    <3>1. stage[d][o] \in {"wait", "done"}
      BY <2>3 DEF UnregisterTask, IInv, TypeOK
    <3> QED BY <1>2, <2>1, <3>1 DEF IInv, HandledIsDisarmed
  <2> QED BY <2>2, <2>3
<1> QED BY <1>5, <1>6, <1>7, <1>8 DEF IInv
\* The expiry of a timer keeps the invariant.
LEMMA ExpireKeeps ==
    ASSUME IInv, TypeOK', NEW c \in Deliveries, Expire(c)
    PROVE  IInv'
<1> USE ConstantsAssumption
<1>1. Arrived(c) /\ key[c] \in CorrelationIds /\ timer[c] = "armed"
  BY DEF Expire, IInv, Arrivals
<1>2. UNCHANGED <<count, key>> /\ \A d, e \in Deliveries : SameKey(d, e)' <=> SameKey(d, e)
  BY DEF Expire, SameKey, Arrived
<1>3. \A d \in Deliveries : timer'[d] = IF d = c THEN "fired" ELSE timer[d]
  BY DEF Expire, IInv, TypeOK
<1>4. \A j \in CorrelationIds : store'[j] = IF j = key[c] THEN None ELSE store[j]
  BY DEF Expire, IInv, TypeOK
<1>5. \A d \in Deliveries, o \in Ops :
        stage'[d][o] = IF d = c /\ o = "reject" THEN "unregister" ELSE stage[d][o]
  BY DEF Expire, IInv, TypeOK, Ops
<1>6. Arrivals'
  BY <1>1, <1>2, <1>3, <1>5 DEF IInv, Arrivals, Arrived
<1>7. StoreSound'
  <2> SUFFICES ASSUME NEW j \in CorrelationIds, store'[j] # None
               PROVE  timer'[store'[j]] = "armed" /\ key'[store'[j]] = j
    BY DEF StoreSound
  <2>1. j # key[c] /\ store'[j] = store[j] /\ store[j] \in Deliveries
    BY <1>4 DEF IInv, TypeOK
  <2>2. timer[store[j]] = "armed" /\ key[store[j]] = j
    BY <2>1 DEF IInv, StoreSound
  <2> QED BY <1>2, <1>3, <2>1, <2>2
<1>8. LostOnlyWhenShared'
  <2> SUFFICES ASSUME NEW d \in Deliveries, timer'[d] = "armed", store'[key'[d]] # d
               PROVE  \E e \in Deliveries : SameKey(d, e)' /\ (e > d \/ timer'[e] = "fired")
    BY DEF LostOnlyWhenShared
  <2>1. d # c /\ timer[d] = "armed" /\ key'[d] = key[d] /\ key[d] \in CorrelationIds
    BY <1>2, <1>3 DEF IInv, Arrivals
  <2>2. CASE key[d] = key[c]
    BY <1>1, <1>2, <1>3, <2>1, <2>2 DEF SameKey
  <2>3. CASE key[d] # key[c]
    <3>1. store[key[d]] # d
      BY <1>4, <2>1, <2>3
    <3>2. PICK e \in Deliveries : SameKey(d, e) /\ (e > d \/ timer[e] = "fired")
      BY <2>1, <3>1 DEF IInv, LostOnlyWhenShared
    <3> QED BY <1>2, <1>3, <3>2
  <2> QED BY <2>2, <2>3
<1>9. HandledIsDisarmed'
  <2> SUFFICES ASSUME NEW d \in Deliveries, NEW o \in Ops,
                      stage'[d][o] \in {"wait", "done"}, timer'[d] = "armed"
               PROVE  \E e \in Deliveries : SameKey(d, e)'
    BY DEF HandledIsDisarmed
  <2>1. stage[d][o] \in {"wait", "done"} /\ timer[d] = "armed"
    BY <1>3, <1>5
  <2> QED BY <1>2, <2>1 DEF IInv, HandledIsDisarmed
<1> QED BY <1>6, <1>7, <1>8, <1>9 DEF IInv

\* The inductive invariant holds in every reachable state.
THEOREM Invariance == Spec => []IInv
<1>1. Init => IInv
  <2> SUFFICES ASSUME Init PROVE IInv
    OBVIOUS
  <2>1. TypeOK
    BY ConstantsAssumption DEF Init, TypeOK, Deliveries, Ops
  <2>2. \A d \in Deliveries : ~Arrived(d)
    BY ConstantsAssumption DEF Init, Arrived, Deliveries
  <2> QED BY <2>1, <2>2 DEF Init, IInv, Arrivals, StoreSound, LostOnlyWhenShared, HandledIsDisarmed
<1>2. ASSUME IInv, TypeOK', [Next]_vars PROVE IInv'
  <2>1. ASSUME NEW k \in CorrelationIds, Deliver(k) PROVE IInv'
    BY <1>2, <2>1, DeliverKeeps
  <2>2. ASSUME NEW d \in Deliveries, NEW o \in UserOps, Handle(d, o) PROVE IInv'
    <3>1. o \in Ops
      BY DEF Ops
    <3> QED BY <1>2, <2>2, <3>1, StageOnlyKeeps DEF Handle
  <2>3. ASSUME NEW d \in Deliveries, NEW o \in Ops, UnregisterTask(d, o) PROVE IInv'
    BY <1>2, <2>3, UnregisterKeeps
  <2>4. ASSUME NEW d \in Deliveries, NEW o \in Ops, Resolve(d, o) PROVE IInv'
    <3>1. Arrived(d) /\ stage[d][o] = "wait"
      BY <1>2, <2>4 DEF Resolve, IInv, Arrivals
    <3> QED BY <1>2, <2>4, <3>1, StageOnlyKeeps DEF Resolve
  <2>5. ASSUME NEW d \in Deliveries, Expire(d) PROVE IInv'
    BY <1>2, <2>5, ExpireKeeps
  <2>6. CASE UNCHANGED vars
    BY <1>2, <2>6 DEF vars, IInv, TypeOK, Arrivals, StoreSound, LostOnlyWhenShared,
                      HandledIsDisarmed, SameKey, Arrived
  <2> QED BY <1>2, <2>1, <2>2, <2>3, <2>4, <2>5, <2>6 DEF Next
<1> QED BY <1>1, <1>2, TypeCorrect, PTL DEF Spec

\* An entry of the timer store always holds a live timer of its own id.
THEOREM StoreIsSound == Spec => []StoreSound
  BY Invariance, PTL DEF IInv

\* A timer the store lost shares its id with a later or an expired delivery.
THEOREM TimerLoss == Spec => []LostOnlyWhenShared
  BY Invariance, PTL DEF IInv

\* After ackEvent's unregister step the event's timer is disarmed, unless the
\* event shares its id.
THEOREM HandledEventsAreDisarmed == Spec => []HandledIsDisarmed
  BY Invariance, PTL DEF IInv

-----------------------------------------------------------------------------
\* The flags of a delivery say which operations have reached the broker; one that
\* has not arrived has none.
FlagsKept(d) ==
    IF Arrived(d)
    THEN ExpectAck => isNacked[d] /\ (isAcked[d] <=> AckBegun(d))
    ELSE ~isNacked[d] /\ ~isAcked[d] /\ ~AckBegun(d) /\ settled[d] = <<>>

DInv ==
    /\ TypeOK
    /\ DiscardedOnArrival
    /\ \A d \in Deliveries : FlagsKept(d)

\* The step of an effect tells the broker at most of the first ack.
LEMMA HandleSettles ==
    ASSUME DInv, ExpectAck, NEW d \in Deliveries, NEW o \in UserOps, Handle(d, o)
    PROVE  /\ isNacked' = isNacked
           /\ settled' = [settled EXCEPT ![d] =
                             IF o = "ack" /\ ~AckBegun(d) THEN <<"discarded", "acked">> ELSE @]
           /\ isAcked' = [isAcked EXCEPT ![d] = @ \/ o = "ack"]
           /\ \A e \in Deliveries : AckBegun(e)' <=> AckBegun(e) \/ (e = d /\ o = "ack")
<1> USE ConstantsAssumption
<1>1. /\ Arrived(d) /\ isNacked[d] /\ (isAcked[d] <=> AckBegun(d))
      /\ settled[d] = IF AckBegun(d) THEN <<"discarded", "acked">> ELSE <<"discarded">>
  BY DEF Handle, DInv, FlagsKept, DiscardedOnArrival
<1>2. /\ o \in Ops /\ o \in {"ack", "nack", "resend"}
      /\ stage' = [stage EXCEPT ![d][o] = "unregister"]
  BY DEF Handle, Ops, AckOps
<1>3. \A e \in Deliveries : AckBegun(e)' <=> AckBegun(e) \/ (e = d /\ o = "ack")
  BY <1>2 DEF DInv, TypeOK, AckBegun
<1>4. CASE o # "ack"
  <2>1. \E resend \in BOOLEAN : NackMessage(d, resend)
    BY <1>2, <1>4 DEF Handle
  <2>2. UNCHANGED <<isAcked, isNacked, settled>>
    BY <1>1, <2>1 DEF NackMessage
  <2> QED BY <1>3, <1>4, <2>2 DEF DInv, TypeOK
<1>5. CASE o = "ack" /\ AckBegun(d)
  <2>1. UNCHANGED <<isAcked, isNacked, settled>>
    BY <1>1, <1>5 DEF Handle, AckMessage
  <2> QED BY <1>1, <1>3, <1>5, <2>1 DEF DInv, TypeOK
<1>6. CASE o = "ack" /\ ~AckBegun(d)
  <2>1. /\ isAcked' = [isAcked EXCEPT ![d] = TRUE] /\ isNacked' = isNacked
        /\ settled' = [settled EXCEPT ![d] = Append(@, "acked")]
    BY <1>1, <1>6 DEF Handle, AckMessage, Settle
  <2>2. Append(settled[d], "acked") = <<"discarded", "acked">>
    <3>1. settled[d] = <<"discarded">>
      BY <1>1, <1>6
    <3> DEFINE told == Append(settled[d], "acked")
               both == <<"discarded", "acked">>
    <3>2. told \in Seq({"discarded", "acked"}) /\ both \in Seq({"discarded", "acked"})
      BY <3>1
    <3>3. Len(told) = 2 /\ Len(both) = 2
      BY <3>1
    <3>4. \A i \in 1 .. Len(told) : told[i] = both[i]
      BY <3>1
    <3> HIDE DEF told, both
    <3>5. told = both
      BY <3>2, <3>3, <3>4, SeqEqual
    <3> QED BY <3>5 DEF told, both
  <2> QED BY <1>3, <1>6, <2>1, <2>2 DEF DInv, TypeOK
<1> QED BY <1>4, <1>5, <1>6

\* In ack mode the broker is told to discard every delivery when it arrives, and of
\* whatever its effect does afterwards only the first ack.
THEOREM DiscardOnArrival == Spec => []DiscardedOnArrival
<1> USE ConstantsAssumption
<1>1. ASSUME Init PROVE DInv
  <2>1. TypeOK
    BY <1>1 DEF Init, TypeOK, Deliveries, Ops
  <2>2. \A d \in Deliveries : ~Arrived(d) /\ ~AckBegun(d)
    BY <1>1 DEF Init, Arrived, Deliveries, AckBegun, Ops
  <2> QED BY <1>1, <2>1, <2>2 DEF Init, DInv, DiscardedOnArrival, FlagsKept
<1>2. ASSUME DInv, TypeOK', [Next]_vars PROVE DInv'
  <2>1. ASSUME NEW k \in CorrelationIds, Deliver(k) PROVE DInv'
    <3>1. PICK n \in Deliveries : n = count + 1 /\ ~Arrived(n)
      BY <1>2, <2>1, NextArrival DEF Deliver, DInv, TypeOK
    <3>2. \A d \in Deliveries : (Arrived(d)' <=> (Arrived(d) \/ d = n)) /\ (AckBegun(d)' <=> AckBegun(d))
      BY <1>2, <2>1, <3>1 DEF Deliver, DInv, TypeOK, Arrived, Deliveries, AckBegun
    <3>3. ~isNacked[n] /\ ~isAcked[n] /\ ~AckBegun(n) /\ settled[n] = <<>>
      BY <1>2, <3>1 DEF DInv, FlagsKept
    <3>4. CASE ExpectAck
      <4>1. NackMessage(n, FALSE)
        BY <2>1, <3>1, <3>4 DEF Deliver, RejectUnhandled
      <4>2. /\ settled' = [settled EXCEPT ![n] = Append(@, "discarded")]
            /\ isNacked' = [isNacked EXCEPT ![n] = TRUE]
            /\ isAcked' = isAcked
        BY <3>3, <3>4, <4>1 DEF NackMessage, Settle
      <4>3. settled'[n] = <<"discarded">> /\ \A d \in Deliveries : d # n => settled'[d] = settled[d]
        BY <1>2, <3>3, <4>2 DEF DInv, TypeOK
      <4>4. DiscardedOnArrival'
        BY <1>2, <3>2, <3>3, <4>3 DEF DInv, DiscardedOnArrival
      <4>5. ASSUME NEW d \in Deliveries PROVE FlagsKept(d)'
        BY <1>2, <3>2, <3>3, <3>4, <4>2, <4>3 DEF DInv, TypeOK, FlagsKept
      <4> QED BY <1>2, <4>4, <4>5 DEF DInv
    <3>5. CASE ~ExpectAck
      <4>1. UNCHANGED <<isAcked, isNacked, settled>>
        BY <2>1, <3>5 DEF Deliver, RejectUnhandled
      <4> QED BY <1>2, <3>2, <3>5, <4>1 DEF DInv, DiscardedOnArrival, FlagsKept
    <3> QED BY <3>4, <3>5
  <2>2. ASSUME NEW d \in Deliveries, NEW o \in UserOps, Handle(d, o) PROVE DInv'
    <3>1. Arrived(d) /\ \A e \in Deliveries : Arrived(e)' <=> Arrived(e)
      BY <2>2 DEF Handle, Arrived
    <3>2. CASE ExpectAck
      <4>1. /\ isNacked' = isNacked
            /\ settled' = [settled EXCEPT ![d] =
                              IF o = "ack" /\ ~AckBegun(d) THEN <<"discarded", "acked">> ELSE @]
            /\ isAcked' = [isAcked EXCEPT ![d] = @ \/ o = "ack"]
            /\ \A e \in Deliveries : AckBegun(e)' <=> AckBegun(e) \/ (e = d /\ o = "ack")
        BY <1>2, <2>2, <3>2, HandleSettles
      <4>2. ASSUME NEW e \in Deliveries PROVE FlagsKept(e)'
        BY <1>2, <3>1, <3>2, <4>1 DEF DInv, TypeOK, FlagsKept
      <4>3. DiscardedOnArrival'
        BY <1>2, <3>1, <4>1 DEF DInv, TypeOK, DiscardedOnArrival
      <4> QED BY <1>2, <4>2, <4>3 DEF DInv
    <3>3. CASE ~ExpectAck
      <4>1. UNCHANGED <<isAcked, isNacked, settled>>
        BY <2>2, <3>3 DEF Handle, AckOps, AckMessage, NackMessage
      <4>2. \A e \in Deliveries : e # d => (AckBegun(e)' <=> AckBegun(e))
        BY <1>2, <2>2 DEF Handle, DInv, TypeOK, AckBegun
      <4> QED BY <1>2, <3>1, <3>3, <4>1, <4>2 DEF DInv, DiscardedOnArrival, FlagsKept
    <3> QED BY <3>2, <3>3
  <2>3. ASSUME UNCHANGED <<count, isAcked, isNacked, settled>>,
               \A d \in Deliveries : AckBegun(d)' <=> AckBegun(d)
        PROVE  DInv'
    BY <1>2, <2>3 DEF DInv, DiscardedOnArrival, FlagsKept, Arrived
  <2>4. ASSUME NEW d \in Deliveries, NEW o \in Ops, UnregisterTask(d, o) PROVE DInv'
    BY <1>2, <2>3, <2>4 DEF UnregisterTask, DInv, TypeOK, AckBegun
  <2>5. ASSUME NEW d \in Deliveries, NEW o \in Ops, Resolve(d, o) PROVE DInv'
    BY <1>2, <2>3, <2>5 DEF Resolve, DInv, TypeOK, AckBegun
  <2>6. ASSUME NEW d \in Deliveries, Expire(d) PROVE DInv'
    <3>1. stage'[d] = [stage[d] EXCEPT !["reject"] = "unregister"]
      BY <1>2, <2>6 DEF Expire, DInv, TypeOK
    <3>2. \A e \in Deliveries : e # d => stage'[e] = stage[e]
      BY <1>2, <2>6 DEF Expire, DInv, TypeOK
    <3>3. "ack" \in UserOps => stage'[d]["ack"] = stage[d]["ack"]
      BY <1>2, <3>1 DEF DInv, TypeOK, Ops
    <3>4. \A e \in Deliveries : AckBegun(e)' <=> AckBegun(e)
      BY <3>2, <3>3 DEF AckBegun
    <3> QED BY <2>3, <2>6, <3>4 DEF Expire
  <2>7. CASE UNCHANGED vars
    BY <1>2, <2>3, <2>7 DEF vars, AckBegun
  <2> QED BY <1>2, <2>1, <2>2, <2>4, <2>5, <2>6, <2>7 DEF Next
<1> QED BY <1>1, <1>2, TypeCorrect, PTL DEF Spec, DInv
=============================================================================
