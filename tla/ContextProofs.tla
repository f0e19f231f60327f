----------------------------- MODULE ContextProofs -----------------------------
(***************************************************************************)
(* Proofs about Context and DerivedContext, for any number of bindings and *)
(* any acyclic graph of asks.  The stack of synchronous evaluations        *)
(* descends along every ranking of the graph, so no token is on it twice   *)
(* and the entry of a token on it is not evaluated, except the one that    *)
(* resolve() evaluates itself: a lazy dependency is made once.  For ordered bindings the registration order is such a       *)
(* ranking, which keeps everything that runs at or below the turn of       *)
(* resolve().  The second half is about a container and the one derived    *)
(* from it, whatever the user binds in each.                               *)
(***************************************************************************)
EXTENDS Context, DerivedContext, TLAPS

Ranked(rank) == \A t \in Tokens : \A u \in asks[t] : rank[u] < rank[t]

\* A stack of evaluations: frames ask what their factory asks, and each was asked
\* for by the one below it.
StackOK(s) ==
    /\ \A i \in 1 .. Len(s) : s[i].todo \subseteq asks[s[i].tok]
    /\ \A rank \in [Tokens -> Tokens] : Ranked(rank) =>
         \A i, j \in 1 .. Len(s) : i < j => rank[s[i].tok] < rank[s[j].tok]

\* Pushing on a sequence.
LEMMA Push ==
    ASSUME NEW S, NEW x \in S, NEW s \in Seq(S)
    PROVE  /\ <<x>> \o s \in Seq(S)
           /\ Len(<<x>> \o s) = Len(s) + 1
           /\ (<<x>> \o s)[1] = x
           /\ \A i \in 2 .. Len(s) + 1 : (<<x>> \o s)[i] = s[i - 1]
OBVIOUS

\* Popping a sequence.
LEMMA Pop ==
    ASSUME NEW S, NEW s \in Seq(S), s # <<>>
    PROVE  /\ Head(s) \in S /\ Head(s) = s[1] /\ 1 \in 1 .. Len(s)
           /\ Tail(s) \in Seq(S)
           /\ Len(Tail(s)) = Len(s) - 1
           /\ \A i \in 1 .. Len(s) - 1 : Tail(s)[i] = s[i + 1]
           /\ Len(s) \in Nat
           /\ Len(s) # 1 => Tail(s) # <<>>
<1>1. /\ Head(s) \in S /\ Head(s) = s[1] /\ 1 \in 1 .. Len(s)
      /\ Tail(s) \in Seq(S) /\ Len(Tail(s)) = Len(s) - 1 /\ Len(s) \in Nat
      /\ \A i \in 1 .. Len(s) - 1 : Tail(s)[i] = s[i + 1]
  OBVIOUS
<1>2. Len(<<>>) = 0
  OBVIOUS
<1> QED BY <1>1, <1>2

\* The frame of a factory is a frame.
LEMMA FrameType == ASSUME TypeOK, NEW t \in Tokens PROVE Frame(t) \in Frames
BY DEF TypeOK, Frame, Frames

\* What lookup() may do to the stack: push the token's frame, go on with the
\* frames below, or unwind.  TheLoop, AUser and async factories are its callers.
Callers == {Nobody, TheLoop, AUser} \cup [by : {"late"}, task : Rests]

\* lookup() keeps the types of what it writes.
LEMMA LookupType ==
    ASSUME TypeOK, NEW t \in Tokens, NEW by \in Callers, NEW below \in Seq(Frames),
           NEW others \in SUBSET Rests, Lookup(t, by, below, others)
    PROVE  /\ stack' \in Seq(Frames)
           /\ caller' \in Callers
           /\ main' \in {main, "rejected"}
           /\ late' \subseteq Rests
<1>1. CASE slot[t] \in {"lazy", "eager"}
  <2>1. <<Frame(t)>> \o below \in Seq(Frames)
    BY FrameType, Push
  <2> QED BY <1>1, <2>1 DEF Lookup
<1>2. CASE slot[t] \in {"value", "promise"}
  BY <1>2 DEF Lookup, Callers
<1>3. CASE slot[t] \notin {"lazy", "eager", "value", "promise"}
  <2>1. Throw(by, others)
    BY <1>3 DEF Lookup
  <2> QED BY <2>1 DEF Throw, Callers
<1> QED BY <1>1, <1>2, <1>3

\* What resolve() is doing agrees with the stack and with the promise it awaits:
\* that one is the turn's, and it is still unsettled if its factory fails.
LoopOK ==
    /\ main \in {"starting", "evaluating", "awaiting"} => turn \in eager
    /\ main = "evaluating" <=> caller = TheLoop
    /\ caller = TheLoop => ~Idle
    /\ \A c \in late : c.awaited => main \in {"awaiting", "rejected"} /\ c.tok = turn
    /\ main = "awaiting" /\ yields[turn] = "error" => \E c \in late : c.awaited

\* The bottom of the stack resolve() started is the turn's frame.
BottomOK == caller = TheLoop => stack[Len(stack)].tok = turn

\* An entry that still holds its factory is of the kind it was bound as.
EntriesOK ==
    /\ \A t \in Tokens : slot[t] = "eager" => t \in eager
    /\ \A t \in Tokens : slot[t] = "lazy" => t \notin eager

TypeInv == TypeOK /\ LoopOK /\ BottomOK /\ EntriesOK

\* The effect of lookup() on resolve(): an error ends it if it asked, or if it awaits
\* the promise of the factory that asked.
LEMMA LookupLoop ==
    ASSUME TypeInv, NEW t \in Tokens, NEW by \in Callers, NEW below \in Seq(Frames),
           NEW others \in SUBSET Rests,
           by = TheLoop <=> main = "evaluating",
           by = TheLoop => below # <<>>,
           \A c \in others : c.awaited => main \in {"awaiting", "rejected"} /\ c.tok = turn,
           main = "awaiting" /\ yields[turn] = "error" => \E c \in others : c.awaited,
           UNCHANGED <<turn, bindings>>,
           Lookup(t, by, below, others)
    PROVE  LoopOK'
<1>1. CASE slot[t] \in {"lazy", "eager"}
  <2>1. <<Frame(t)>> \o below \in Seq(Frames) /\ Len(<<Frame(t)>> \o below) > 0
    BY FrameType, Push DEF TypeInv
  <2>2. stack' # <<>> /\ caller' = by /\ late' = others /\ main' = main
    BY <1>1, <2>1 DEF Lookup
  <2> QED BY <2>2 DEF LoopOK, TypeInv, Idle, bindings
<1>2. CASE slot[t] \in {"value", "promise"}
  <2>1. stack' = below /\ late' = others /\ main' = main
        /\ caller' = IF below = <<>> THEN Nobody ELSE by
    BY <1>2 DEF Lookup
  <2>2. Nobody # TheLoop
    BY DEF Nobody, TheLoop
  <2> QED BY <2>1, <2>2 DEF LoopOK, TypeInv, Idle, bindings
<1>3. CASE slot[t] \notin {"lazy", "eager", "value", "promise"}
  <2>1. Throw(by, others)
    BY <1>3 DEF Lookup
  <2>2. Nobody # TheLoop
    BY DEF Nobody, TheLoop
  <2>3. CASE by = TheLoop
    <3>1. main' = "rejected" /\ late' = others
      BY <2>1, <2>3 DEF Throw, TheLoop
    <3> QED BY <2>1, <2>2, <2>3, <3>1 DEF Throw, LoopOK, TypeInv, bindings
  <2>4. CASE by \in {Nobody, AUser}
    <3>1. main' = main /\ late' = others /\ by # TheLoop
      BY <2>1, <2>4 DEF Throw, Nobody, AUser, TheLoop
    <3> QED BY <2>1, <2>2, <3>1 DEF Throw, LoopOK, TypeInv, bindings
  <2>5. CASE by \in [by : {"late"}, task : Rests]
    <3>1. by # TheLoop /\ late' = others \ {by.task}
          /\ main' = IF by.task.awaited THEN "rejected" ELSE main
      BY <2>1, <2>5 DEF Throw, TheLoop
    <3>2. CASE by.task.awaited
      BY <2>1, <2>2, <3>1, <3>2 DEF Throw, LoopOK, TypeInv, bindings
    <3>3. CASE ~by.task.awaited
      <4>1. \A c \in others : c.awaited => c \in late'
        BY <3>1, <3>3
      <4>2. main' = main /\ main # "evaluating" /\ caller' = Nobody
        BY <2>1, <3>1, <3>3 DEF Throw
      <4> QED BY <2>2, <3>1, <4>1, <4>2 DEF LoopOK, TypeInv, bindings
    <3> QED BY <3>2, <3>3
  <2> QED BY <2>3, <2>4, <2>5 DEF Callers
<1> QED BY <1>1, <1>2, <1>3

\* lookup() leaves the bottom of the stack alone.
LEMMA LookupBottom ==
    ASSUME TypeOK, NEW t \in Tokens, NEW by \in Callers, NEW below \in Seq(Frames), NEW others,
           by = TheLoop => below # <<>> /\ below[Len(below)].tok = turn,
           UNCHANGED turn,
           Lookup(t, by, below, others)
    PROVE  BottomOK'
<1>0. Nobody # TheLoop
  BY DEF Nobody, TheLoop
<1>1. CASE slot[t] \in {"lazy", "eager"}
  <2>1. ASSUME by = TheLoop
        PROVE  (<<Frame(t)>> \o below)[Len(<<Frame(t)>> \o below)] = below[Len(below)]
    BY <2>1, FrameType
  <2> QED BY <1>1, <2>1 DEF Lookup, BottomOK
<1>2. CASE slot[t] \in {"value", "promise"}
  BY <1>0, <1>2 DEF Lookup, BottomOK
<1>3. CASE slot[t] \notin {"lazy", "eager", "value", "promise"}
  <2>1. caller' = Nobody
    BY <1>3 DEF Lookup, Throw
  <2> QED BY <1>0, <2>1 DEF BottomOK
<1> QED BY <1>1, <1>2, <1>3

\* The frames below a token the innermost factory asks for.
Asking(t) == <<[Head(stack) EXCEPT !.todo = @ \ {t}]>> \o Tail(stack)

\* They differ from the stack in what the innermost factory still asks for.
LEMMA AskingType ==
    ASSUME TypeOK, ~Idle, NEW t
    PROVE  /\ Asking(t) \in Seq(Frames) /\ Asking(t) # <<>>
           /\ Len(Asking(t)) = Len(stack)
           /\ Asking(t)[1] = [Head(stack) EXCEPT !.todo = @ \ {t}]
           /\ \A i \in 2 .. Len(stack) : Asking(t)[i] = stack[i]
           /\ \A i \in 1 .. Len(stack) : Asking(t)[i].tok = stack[i].tok
<1>1. /\ stack \in Seq(Frames) /\ stack # <<>>
      /\ Head(stack) \in Frames /\ Head(stack) = stack[1]
      /\ Tail(stack) \in Seq(Frames)
      /\ Len(Tail(stack)) = Len(stack) - 1
      /\ \A i \in 1 .. Len(stack) - 1 : Tail(stack)[i] = stack[i + 1]
  BY Pop DEF TypeOK, Idle
<1> DEFINE f == [Head(stack) EXCEPT !.todo = @ \ {t}]
<1>2. f \in Frames /\ f.tok = stack[1].tok
  BY <1>1 DEF Frames
<1> HIDE DEF f
<1>3. /\ <<f>> \o Tail(stack) \in Seq(Frames)
      /\ Len(<<f>> \o Tail(stack)) = Len(Tail(stack)) + 1
      /\ (<<f>> \o Tail(stack))[1] = f
      /\ \A i \in 2 .. Len(Tail(stack)) + 1 : (<<f>> \o Tail(stack))[i] = Tail(stack)[i - 1]
  BY <1>1, <1>2, Push
<1>4. Asking(t) = <<f>> \o Tail(stack)
  BY DEF Asking, f
<1>5. /\ Asking(t) \in Seq(Frames) /\ Len(Asking(t)) = Len(stack) /\ Asking(t)[1] = f
      /\ Asking(t) # <<>>
  BY <1>1, <1>3, <1>4
<1>6. \A i \in 2 .. Len(stack) : Asking(t)[i] = stack[i]
  BY <1>1, <1>3, <1>4
<1>7. \A i \in 1 .. Len(stack) : Asking(t)[i].tok = stack[i].tok
  BY <1>1, <1>2, <1>5, <1>6
<1> QED BY <1>5, <1>6, <1>7 DEF f

\* Every step keeps TypeInv.
LEMMA TypeStep == ASSUME TypeInv, [Next]_vars PROVE TypeInv'
<1> USE ContextAssumption
<1>0. /\ Nobody # TheLoop /\ AUser # TheLoop /\ Nobody \in Callers /\ AUser \in Callers
      /\ TheLoop \in Callers
      /\ \A c \in Rests : Late(c) \in Callers /\ Late(c) # TheLoop
  BY DEF Nobody, TheLoop, AUser, Callers, Late
<1>1. CASE LoopStep
  <2>0. turn \in Nat /\ N \in Nat /\ (turn <= N => turn \in Tokens)
    BY DEF TypeInv, TypeOK, Tokens
  <2>1. CASE turn > N
    <3>1. main = "loop" /\ main' = "done" /\ UNCHANGED <<bindings, slot, made, late, turn, stack, caller>>
      BY <1>1, <2>1 DEF LoopStep
    <3> QED BY <1>0, <3>1 DEF TypeInv, TypeOK, LoopOK, BottomOK, EntriesOK, bindings, Idle
  <2>2. CASE ~(turn > N) /\ slot[turn] = "eager"
    <3>1. turn \in Tokens /\ turn \in eager
      BY <2>0, <2>2 DEF TypeInv, EntriesOK
    <3>2. main = "loop" /\ main' = "starting" /\ UNCHANGED <<bindings, slot, made, late, turn, stack, caller>>
      BY <1>1, <2>2 DEF LoopStep
    <3> QED BY <1>0, <3>1, <3>2 DEF TypeInv, TypeOK, LoopOK, BottomOK, EntriesOK, bindings, Idle
  <2>3. CASE ~(turn > N) /\ slot[turn] = "void"
    <3>1. main = "loop" /\ main' = "rejected" /\ UNCHANGED <<bindings, slot, made, late, turn, stack, caller>>
      BY <1>1, <2>3 DEF LoopStep
    <3> QED BY <1>0, <3>1 DEF TypeInv, TypeOK, LoopOK, BottomOK, EntriesOK, bindings, Idle
  <2>4. CASE ~(turn > N) /\ slot[turn] \notin {"eager", "void"}
    <3>1. main = "loop" /\ turn' = turn + 1 /\ UNCHANGED <<bindings, slot, made, late, main, stack, caller>>
      BY <1>1, <2>4 DEF LoopStep
    <3>2. turn' \in 1 .. N + 1
      BY <2>0, <2>4, <3>1 DEF TypeInv, TypeOK
    <3> QED BY <1>0, <3>1, <3>2 DEF TypeInv, TypeOK, LoopOK, BottomOK, EntriesOK, bindings, Idle
  <2> QED BY <2>1, <2>2, <2>3, <2>4
<1>2. ASSUME NEW t \in Tokens, Ask(t) PROVE TypeInv'
  <2>1. /\ ~Idle /\ UNCHANGED <<bindings, slot, made, turn>>
        /\ Lookup(t, caller, Asking(t), late)
    BY <1>2 DEF Ask, Asking
  <2>2. Asking(t) \in Seq(Frames) /\ Asking(t) # <<>> /\ Len(Asking(t)) = Len(stack)
        /\ (\A i \in 1 .. Len(stack) : Asking(t)[i].tok = stack[i].tok)
    BY <2>1, AskingType DEF TypeInv
  <2>3. caller \in Callers /\ late \in SUBSET Rests /\ Len(stack) \in 1 .. Len(stack)
    BY <2>1 DEF TypeInv, TypeOK, Callers, Idle
  <2>4. /\ stack' \in Seq(Frames) /\ caller' \in Callers
        /\ main' \in {main, "rejected"} /\ late' \subseteq Rests
    BY <2>1, <2>2, <2>3, LookupType DEF TypeInv
  <2>5. TypeOK'
    BY <2>1, <2>4 DEF TypeInv, TypeOK, Callers, bindings
  <2>6. LoopOK'
    BY <2>1, <2>2, <2>3, LookupLoop DEF TypeInv, LoopOK
  <2>7. BottomOK'
    BY <2>1, <2>2, <2>3, LookupBottom DEF TypeInv, BottomOK
  <2> QED BY <2>1, <2>5, <2>6, <2>7 DEF TypeInv, EntriesOK, bindings
<1>3. ASSUME NEW c \in late, NEW t \in Tokens, LateAsk(c, t) PROVE TypeInv'
  <2> DEFINE d == [c EXCEPT !.rest = @ \ {t}]
             others == (late \ {c}) \cup {d}
  <2>1. /\ Idle /\ UNCHANGED <<bindings, slot, made, turn>>
        /\ Lookup(t, Late(d), <<>>, others)
    BY <1>3 DEF LateAsk
  <2>2. c \in Rests /\ d \in Rests /\ d.tok = c.tok /\ d.awaited = c.awaited
        /\ late \in SUBSET Rests
    BY DEF TypeInv, TypeOK, Rests
  <2> HIDE DEF d
  <2>3. others \in SUBSET Rests /\ Late(d) \in Callers /\ Late(d) # TheLoop
    BY <1>0, <2>2
  <2>4. \A e \in others : e.awaited => main \in {"awaiting", "rejected"} /\ e.tok = turn
    BY <2>2 DEF TypeInv, LoopOK
  <2>5. main = "awaiting" /\ yields[turn] = "error" => \E e \in others : e.awaited
    BY <2>2 DEF TypeInv, LoopOK
  <2>6. main # "evaluating" /\ <<>> \in Seq(Frames)
    BY <2>1 DEF TypeInv, LoopOK
  <2> HIDE DEF others
  <2>7. /\ stack' \in Seq(Frames) /\ caller' \in Callers
        /\ main' \in {main, "rejected"} /\ late' \subseteq Rests
    BY <2>1, <2>3, <2>6, LookupType DEF TypeInv
  <2>8. TypeOK'
    BY <2>1, <2>7 DEF TypeInv, TypeOK, Callers, bindings
  <2>9. LoopOK'
    BY <2>1, <2>3, <2>4, <2>5, <2>6, LookupLoop
  <2>10. BottomOK'
    BY <2>1, <2>3, <2>6, LookupBottom DEF TypeInv
  <2> QED BY <2>1, <2>8, <2>9, <2>10 DEF TypeInv, EntriesOK, bindings
<1>4. ASSUME NEW t \in Tokens, UserAsk(t) PROVE TypeInv'
  <2>1. /\ Idle /\ main = "done" /\ UNCHANGED <<bindings, slot, made, turn>>
        /\ Lookup(t, AUser, <<>>, late) /\ <<>> \in Seq(Frames)
        /\ late \in SUBSET Rests
    BY <1>4 DEF UserAsk, TypeInv, TypeOK
  <2>2. /\ stack' \in Seq(Frames) /\ caller' \in Callers
        /\ main' \in {main, "rejected"} /\ late' \subseteq Rests
    BY <1>0, <2>1, LookupType DEF TypeInv
  <2>3. TypeOK'
    BY <2>1, <2>2 DEF TypeInv, TypeOK, Callers, bindings
  <2>4. LoopOK'
    BY <1>0, <2>1, LookupLoop DEF TypeInv, LoopOK
  <2>5. BottomOK'
    BY <1>0, <2>1, LookupBottom DEF TypeInv
  <2> QED BY <2>1, <2>3, <2>4, <2>5 DEF TypeInv, EntriesOK, bindings
<1>5. CASE Raise
  <2>1. /\ ~Idle /\ UNCHANGED <<bindings, slot, made, turn>>
        /\ stack' = <<>> /\ caller' = Nobody
        /\ late' \subseteq late /\ late' \subseteq Rests
        /\ main' \in {main, "rejected"}
        /\ caller = TheLoop => main' = "rejected"
    BY <1>5 DEF Raise, Throw, TypeInv, TypeOK, TheLoop
  <2>2. \/ main' = "rejected"
        \/ \A c \in late : c.awaited => c \in late'
    BY <1>5 DEF Raise, Throw
  <2>3. LoopOK'
    BY <1>0, <2>1, <2>2 DEF TypeInv, LoopOK, bindings
  <2> QED BY <1>0, <2>1, <2>3 DEF TypeInv, TypeOK, BottomOK, EntriesOK, bindings, Callers
<1>6. ASSUME NEW c \in late, Finish(c) PROVE TypeInv'
  <2>1. LoopOK'
    BY <1>6 DEF Finish, TypeInv, LoopOK, Idle, bindings
  <2> QED BY <1>6, <2>1 DEF Finish, TypeInv, TypeOK, BottomOK, EntriesOK, bindings
<1>7. CASE LoopResume
  <2>1. /\ Idle /\ main = "awaiting" /\ (\A c \in late : ~c.awaited)
        /\ slot' = [slot EXCEPT ![turn] = yields[turn]]
        /\ turn' = turn + 1 /\ main' = "loop"
        /\ UNCHANGED <<bindings, made, stack, caller, late>>
    BY <1>7 DEF LoopResume
  <2>2. turn \in eager /\ turn \in Tokens /\ yields[turn] \in {"value", "void"}
        /\ caller # TheLoop
    BY <2>1 DEF TypeInv, TypeOK, LoopOK
  <2>3. turn + 1 \in 1 .. N + 1
    BY <2>2 DEF Tokens
  <2>4. TypeOK'
    BY <2>1, <2>2, <2>3 DEF TypeInv, TypeOK, bindings
  <2> QED BY <2>1, <2>2, <2>4 DEF TypeInv, TypeOK, LoopOK, BottomOK, EntriesOK, Idle, bindings
<1>8. CASE UNCHANGED vars
  BY <1>8 DEF vars, bindings, TypeInv, TypeOK, LoopOK, BottomOK, EntriesOK, Idle
<1>9. CASE Return
  <2> DEFINE t == Head(stack).tok
             byLoop == Len(stack) = 1 /\ caller = TheLoop
             new == [tok |-> t, awaited |-> byLoop, rest |-> Head(stack).todo]
  <2>0. stack \in Seq(Frames) /\ stack # <<>>
    BY <1>9 DEF Return, TypeInv, TypeOK, Idle
  <2>1. /\ stack \in Seq(Frames) /\ stack # <<>> /\ ~Idle
        /\ Head(stack) \in Frames /\ Head(stack) = stack[1] /\ 1 \in 1 .. Len(stack)
        /\ Tail(stack) \in Seq(Frames) /\ Len(Tail(stack)) = Len(stack) - 1
        /\ \A i \in 1 .. Len(stack) - 1 : Tail(stack)[i] = stack[i + 1]
    BY <1>9, Pop DEF Return, TypeInv, TypeOK, Idle
  <2>2. t \in Tokens /\ new \in Rests /\ new.tok = t /\ new.awaited = byLoop
    BY <2>1 DEF Frames, Rests
  <2>3. /\ t \in async \/ yields[t] # "error"
        /\ made' = [made EXCEPT ![t] = @ + 1]
        /\ late' = IF t \in async THEN late \cup {new} ELSE late
        /\ byLoop => main' = "awaiting" /\ slot' = slot
        /\ ~byLoop => /\ slot' = [slot EXCEPT ![t] = IF t \in async THEN "promise" ELSE yields[t]]
                      /\ main' = main
        /\ stack' = Tail(stack)
        /\ caller' = IF Len(stack) = 1 THEN Nobody ELSE caller
        /\ UNCHANGED <<bindings, turn>>
    BY <1>9 DEF Return
  <2>4. byLoop => t = turn
    BY <2>1 DEF TypeInv, BottomOK
  <2>5. Len(stack) \in Nat /\ (Len(stack) # 1 => Tail(stack) # <<>>)
    BY <2>0, Pop
  <2> HIDE DEF t, byLoop, new
  <2>6. slot' \in [Tokens -> {"lazy", "eager", "promise", "value", "void"}]
    <3>1. t \notin async => yields[t] \in {"value", "void"}
      BY <2>2, <2>3 DEF TypeInv, TypeOK
    <3>2. ~byLoop => slot' \in [Tokens -> {"lazy", "eager", "promise", "value", "void"}]
      BY <2>2, <2>3, <3>1 DEF TypeInv, TypeOK
    <3> QED BY <2>3, <3>2 DEF TypeInv, TypeOK
  <2>7. TypeOK'
    <3>1. late' \subseteq Rests /\ made' \in [Tokens -> Nat]
      BY <2>2, <2>3 DEF TypeInv, TypeOK
    <3>2. main' \in {"loop", "starting", "evaluating", "awaiting", "done", "rejected"}
          /\ caller' \in Callers
      BY <1>0, <2>3 DEF TypeInv, TypeOK, Callers, byLoop
    <3> QED BY <2>1, <2>3, <2>6, <3>1, <3>2 DEF TypeInv, TypeOK, bindings, Callers
  <2>8. LoopOK'
    <3>1. CASE byLoop
      <4>1. main = "evaluating" /\ turn \in eager /\ (\A c \in late : ~c.awaited)
        BY <3>1 DEF TypeInv, LoopOK, byLoop
      <4>2. main' = "awaiting" /\ caller' = Nobody
        BY <2>3, <3>1 DEF byLoop
      <4>3. yields[turn] = "error" => new \in late'
        BY <2>3, <2>4, <3>1
      <4> QED BY <1>0, <2>2, <2>3, <2>4, <3>1, <4>1, <4>2, <4>3 DEF LoopOK, bindings
    <3>2. CASE ~byLoop
      <4>1. caller = TheLoop => caller' = caller /\ stack' # <<>>
        BY <2>3, <2>5, <3>2 DEF byLoop
      <4>2. caller' = TheLoop => caller = TheLoop
        BY <1>0, <2>3
      <4>3. main' = main /\ (\A c \in late' : c.awaited => c \in late) /\ late \subseteq late'
        BY <2>2, <2>3, <3>2
      <4> QED BY <2>3, <4>1, <4>2, <4>3 DEF TypeInv, LoopOK, bindings, Idle
    <3> QED BY <3>1, <3>2
  <2>9. BottomOK'
    BY <1>0, <2>1, <2>3, <2>5 DEF TypeInv, BottomOK
  <2>10. EntriesOK'
    <3>1. t \notin async => yields[t] \in {"value", "void"}
      BY <2>2, <2>3 DEF TypeInv, TypeOK
    <3> QED BY <2>2, <2>3, <3>1 DEF TypeInv, TypeOK, EntriesOK, bindings
  <2> QED BY <2>7, <2>8, <2>9, <2>10 DEF TypeInv
<1>10. CASE LoopStart
  <2>1. main = "starting" /\ main' = "evaluating" /\ caller' = TheLoop /\ stack' = <<Frame(turn)>>
        /\ Idle /\ UNCHANGED <<bindings, slot, made, late, turn>>
    BY <1>10 DEF LoopStart
  <2>2. turn \in eager /\ turn \in Tokens
    BY <2>1 DEF TypeInv, TypeOK, LoopOK
  <2>3. Frame(turn) \in Frames /\ <<Frame(turn)>> \in Seq(Frames) /\ Frame(turn).tok = turn
    BY <2>2, FrameType DEF TypeInv, Frame
  <2>4. TypeOK'
    BY <2>1, <2>3 DEF TypeInv, TypeOK, bindings
  <2>5. ~Idle'
    <3>1. <<Frame(turn)>> # <<>>
      OBVIOUS
    <3> QED BY <2>1, <3>1 DEF Idle
  <2>6. LoopOK'
    BY <2>1, <2>2, <2>5 DEF TypeInv, LoopOK, bindings
  <2> QED BY <2>1, <2>3, <2>4, <2>6 DEF TypeInv, BottomOK, EntriesOK, bindings
<1> QED BY <1>1, <1>2, <1>3, <1>4, <1>5, <1>6, <1>7, <1>8, <1>9, <1>10 DEF Next

\* In every reachable state resolve() and the factories it runs agree (TypeInv).
THEOREM TypeInvariance == Spec => []TypeInv
<1>1. Init => TypeInv
  BY ContextAssumption DEF Init, TypeInv, TypeOK, LoopOK, BottomOK, EntriesOK, Tokens, TheLoop, Nobody
<1> QED BY <1>1, TypeStep, PTL DEF Spec

\* The variables of the container keep their types.
THEOREM TypeCorrect == Spec => []TypeOK
<1>1. TypeInv => TypeOK
  BY DEF TypeInv
<1> QED BY <1>1, TypeInvariance, PTL

-----------------------------------------------------------------------------
\* Lazy dependencies are made once.

\* What runs is not evaluated yet, except for the turn's own factory when resolve()
\* runs it: its entry was looked at one step earlier.
HeldOK ==
    \A i \in 1 .. Len(stack) : \/ slot[stack[i].tok] \in {"lazy", "eager"}
                               \/ stack[i].tok = turn /\ caller = TheLoop

\* An entry that still holds a lazy factory was never evaluated; what an async
\* factory still asks for is among what it asks for.
LazyInv ==
    /\ TypeInv
    /\ Acyclic(asks)
    /\ StackOK(stack)
    /\ HeldOK
    /\ \A c \in late : c.rest \subseteq asks[c.tok]
    /\ \A t \in Tokens : slot[t] = "lazy" => made[t] = 0
    /\ LazyOnce

\* A frame below whose token every frame of the stack ranks may be pushed.
LEMMA PushOK ==
    ASSUME TypeOK, NEW t \in Tokens, NEW s \in Seq(Frames), StackOK(s),
           \A rank \in [Tokens -> Tokens] : Ranked(rank) =>
              \A i \in 1 .. Len(s) : rank[t] < rank[s[i].tok]
    PROVE  StackOK(<<Frame(t)>> \o s)
<1> DEFINE new == <<Frame(t)>> \o s
<1>1. /\ Len(new) = Len(s) + 1 /\ Len(s) \in Nat /\ new[1] = Frame(t)
      /\ \A i \in 2 .. Len(s) + 1 : new[i] = s[i - 1]
  BY FrameType, Push
<1>2. Frame(t).tok = t /\ Frame(t).todo = asks[t]
  BY DEF Frame
<1> HIDE DEF new
<1>3. ASSUME NEW i \in 1 .. Len(new)
      PROVE  new[i].todo \subseteq asks[new[i].tok]
  <2>1. CASE i = 1
    BY <1>1, <1>2, <2>1
  <2>2. CASE i # 1
    <3>1. new[i] = s[i - 1] /\ i - 1 \in 1 .. Len(s)
      BY <1>1, <2>2
    <3> QED BY <3>1 DEF StackOK
  <2> QED BY <2>1, <2>2
<1>4. ASSUME NEW rank \in [Tokens -> Tokens], Ranked(rank),
             NEW i \in 1 .. Len(new), NEW j \in 1 .. Len(new), i < j
      PROVE  rank[new[i].tok] < rank[new[j].tok]
  <2>1. new[j] = s[j - 1] /\ j - 1 \in 1 .. Len(s)
    BY <1>1, <1>4
  <2>2. CASE i = 1
    BY <1>1, <1>2, <1>4, <2>1, <2>2
  <2>3. CASE i # 1
    <3>1. new[i] = s[i - 1] /\ i - 1 \in 1 .. Len(s) /\ i - 1 < j - 1
      BY <1>1, <1>4, <2>3
    <3> QED BY <1>4, <2>1, <3>1 DEF StackOK
  <2> QED BY <2>2, <2>3
<1>5. StackOK(new)
  BY <1>3, <1>4 DEF StackOK
<1> QED BY <1>5 DEF new

\* The empty stack, and what is left of a stack when its innermost factory is done
\* with a part of what it asks for, are such stacks.
LEMMA AskingOK ==
    ASSUME TypeOK, ~Idle, StackOK(stack), NEW t \in Head(stack).todo
    PROVE  /\ StackOK(Asking(t))
           /\ t \in Tokens
           /\ \A rank \in [Tokens -> Tokens] : Ranked(rank) =>
                 \A i \in 1 .. Len(Asking(t)) : rank[t] < rank[Asking(t)[i].tok]
<1>1. /\ stack \in Seq(Frames) /\ stack # <<>>
      /\ Head(stack) \in Frames /\ Head(stack) = stack[1] /\ 1 \in 1 .. Len(stack)
      /\ Len(stack) \in Nat
  BY Pop DEF TypeOK, Idle
<1>2. /\ Asking(t) \in Seq(Frames) /\ Len(Asking(t)) = Len(stack)
      /\ Asking(t)[1] = [Head(stack) EXCEPT !.todo = @ \ {t}]
      /\ \A i \in 2 .. Len(stack) : Asking(t)[i] = stack[i]
      /\ \A i \in 1 .. Len(stack) : Asking(t)[i].tok = stack[i].tok
  BY AskingType
<1>3. Asking(t)[1].todo \subseteq stack[1].todo
  BY <1>1, <1>2 DEF Frames
<1>4. ASSUME NEW i \in 1 .. Len(stack) PROVE Asking(t)[i].todo \subseteq stack[i].todo
  <2>1. CASE i = 1
    BY <1>3, <2>1
  <2>2. CASE i # 1
    BY <1>1, <1>2, <2>2
  <2> QED BY <2>1, <2>2
<1>5. StackOK(Asking(t))
  BY <1>2, <1>4 DEF StackOK
<1>6. t \in asks[stack[1].tok] /\ stack[1].tok \in Tokens /\ t \in Tokens
  BY <1>1 DEF StackOK, Frames
<1>7. ASSUME NEW rank \in [Tokens -> Tokens], Ranked(rank), NEW i \in 1 .. Len(stack)
      PROVE  rank[t] < rank[stack[i].tok]
  <2>1. rank[t] < rank[stack[1].tok]
    BY <1>6, <1>7 DEF Ranked
  <2>2. CASE i = 1
    BY <2>1, <2>2
  <2>3. CASE i # 1
    <3>1. rank[stack[1].tok] < rank[stack[i].tok]
      BY <1>1, <1>7, <2>3 DEF StackOK
    <3>2. stack[i].tok \in Tokens
      <4>1. stack[i] \in Frames
        BY <1>1
      <4> QED BY <4>1 DEF Frames
    <3>3. rank[t] \in Nat /\ rank[stack[1].tok] \in Nat /\ rank[stack[i].tok] \in Nat
      BY <1>6, <3>2 DEF Tokens
    <3> QED BY <2>1, <3>1, <3>3
  <2> QED BY <2>2, <2>3
<1> QED BY <1>2, <1>5, <1>6, <1>7

\* The rest of such a stack is one as well, and its innermost token is not in it.
LEMMA TailOK ==
    ASSUME TypeOK, ~Idle, StackOK(stack), Acyclic(asks)
    PROVE  /\ StackOK(Tail(stack))
           /\ \A i \in 1 .. Len(Tail(stack)) : Tail(stack)[i].tok # Head(stack).tok
<1>1. /\ stack \in Seq(Frames) /\ stack # <<>>
      /\ Head(stack) \in Frames /\ Head(stack) = stack[1] /\ 1 \in 1 .. Len(stack)
      /\ Len(stack) \in Nat /\ Len(Tail(stack)) = Len(stack) - 1
      /\ \A i \in 1 .. Len(stack) - 1 : Tail(stack)[i] = stack[i + 1]
  BY Pop DEF TypeOK, Idle
<1> DEFINE s == Tail(stack)
<1>2. Len(s) = Len(stack) - 1 /\ \A i \in 1 .. Len(s) : s[i] = stack[i + 1] /\ i + 1 \in 1 .. Len(stack)
  BY <1>1
<1> HIDE DEF s
<1>3. ASSUME NEW rank \in [Tokens -> Tokens], Ranked(rank),
             NEW i \in 1 .. Len(s), NEW j \in 1 .. Len(s), i < j
      PROVE  rank[s[i].tok] < rank[s[j].tok]
  <2>1. s[i] = stack[i + 1] /\ s[j] = stack[j + 1] /\ i + 1 < j + 1
        /\ i + 1 \in 1 .. Len(stack) /\ j + 1 \in 1 .. Len(stack)
    BY <1>2, <1>3
  <2> QED BY <1>3, <2>1 DEF StackOK
<1>4. StackOK(s)
  BY <1>2, <1>3 DEF StackOK
<1>5. PICK rank \in [Tokens -> Tokens] : Ranked(rank)
  BY DEF Acyclic, Ranked
<1>6. ASSUME NEW i \in 1 .. Len(s) PROVE s[i].tok # Head(stack).tok
  <2>1. s[i] = stack[i + 1] /\ i + 1 \in 1 .. Len(stack) /\ 1 < i + 1
    BY <1>1, <1>2
  <2>2. rank[stack[1].tok] < rank[stack[i + 1].tok]
    BY <1>1, <1>5, <2>1 DEF StackOK
  <2>3. rank[stack[1].tok] \in Nat
    BY <1>1 DEF Frames, Tokens
  <2> QED BY <1>1, <2>1, <2>2, <2>3
<1> QED BY <1>4, <1>6 DEF s

\* lookup() leaves such a stack.
LEMMA LookupStack ==
    ASSUME TypeOK, NEW t \in Tokens, NEW by, NEW others, NEW below \in Seq(Frames),
           StackOK(below),
           \A rank \in [Tokens -> Tokens] : Ranked(rank) =>
              \A i \in 1 .. Len(below) : rank[t] < rank[below[i].tok],
           asks' = asks,
           Lookup(t, by, below, others)
    PROVE  StackOK(stack)'
<1>1. StackOK(<<>>)
  BY DEF StackOK
<1>2. CASE slot[t] \in {"lazy", "eager"}
  <2>1. StackOK(<<Frame(t)>> \o below) /\ stack' = <<Frame(t)>> \o below
    BY <1>2, PushOK DEF Lookup
  <2> QED BY <2>1 DEF StackOK, Ranked
<1>3. CASE slot[t] \in {"value", "promise"}
  <2>1. stack' = below
    BY <1>3 DEF Lookup
  <2> QED BY <2>1 DEF StackOK, Ranked
<1>4. CASE slot[t] \notin {"lazy", "eager", "value", "promise"}
  <2>1. stack' = <<>>
    BY <1>4 DEF Lookup, Throw
  <2> QED BY <1>1, <2>1 DEF StackOK, Ranked
<1> QED BY <1>2, <1>3, <1>4

\* lookup() keeps HeldOK: it pushes a frame only for an entry that is not evaluated.
LEMMA LookupHeld ==
    ASSUME TypeOK, NEW t \in Tokens, NEW by, NEW others, NEW below \in Seq(Frames),
           \A i \in 1 .. Len(below) : \/ slot[below[i].tok] \in {"lazy", "eager"}
                                      \/ below[i].tok = turn /\ by = TheLoop,
           UNCHANGED <<slot, turn>>,
           Lookup(t, by, below, others)
    PROVE  HeldOK'
<1>1. Len(<<>>) = 0
  OBVIOUS
<1>2. CASE slot[t] \in {"lazy", "eager"}
  <2> DEFINE new == <<Frame(t)>> \o below
  <2>1. /\ Len(new) = Len(below) + 1 /\ Len(below) \in Nat /\ new[1] = Frame(t)
        /\ \A i \in 2 .. Len(below) + 1 : new[i] = below[i - 1]
    BY FrameType, Push
  <2>2. stack' = new /\ caller' = by /\ Frame(t).tok = t
    BY <1>2 DEF Lookup, Frame
  <2> HIDE DEF new
  <2>3. ASSUME NEW i \in 1 .. Len(new)
        PROVE  slot[new[i].tok] \in {"lazy", "eager"} \/ (new[i].tok = turn /\ by = TheLoop)
    <3>1. CASE i = 1
      BY <1>2, <2>1, <2>2, <3>1
    <3>2. CASE i # 1
      <4>1. new[i] = below[i - 1] /\ i - 1 \in 1 .. Len(below)
        BY <2>1, <3>2
      <4> QED BY <4>1
    <3> QED BY <3>1, <3>2
  <2> QED BY <2>2, <2>3 DEF HeldOK
<1>3. CASE slot[t] \in {"value", "promise"}
  <2>1. stack' = below /\ (below # <<>> => caller' = by)
    BY <1>3 DEF Lookup
  <2> QED BY <1>1, <2>1 DEF HeldOK
<1>4. CASE slot[t] \notin {"lazy", "eager", "value", "promise"}
  <2>1. stack' = <<>>
    BY <1>4 DEF Lookup, Throw
  <2> QED BY <1>1, <2>1 DEF HeldOK
<1> QED BY <1>2, <1>3, <1>4

\* What lookup() stores was not evaluated: the turn's own factory, which may have
\* been, is at the bottom of the stack of resolve(), and only there.
LEMMA StoresHeld ==
    ASSUME LazyInv, ~Idle, ~(Len(stack) = 1 /\ caller = TheLoop)
    PROVE  slot[Head(stack).tok] \in {"lazy", "eager"}
<1>1. TypeOK /\ BottomOK /\ StackOK(stack) /\ Acyclic(asks) /\ HeldOK
  BY DEF LazyInv, TypeInv
<1>2. /\ stack \in Seq(Frames) /\ stack # <<>> /\ Len(stack) \in Nat
      /\ Head(stack) = stack[1] /\ 1 \in 1 .. Len(stack)
      /\ Len(Tail(stack)) = Len(stack) - 1
      /\ \A i \in 1 .. Len(stack) - 1 : Tail(stack)[i] = stack[i + 1]
  BY <1>1, Pop DEF TypeOK, Idle
<1>3. \A i \in 1 .. Len(Tail(stack)) : Tail(stack)[i].tok # Head(stack).tok
  BY <1>1, TailOK
<1>4. SUFFICES ASSUME Head(stack).tok = turn, caller = TheLoop PROVE FALSE
  BY <1>1, <1>2 DEF HeldOK
<1>5. Len(stack) - 1 \in 1 .. Len(Tail(stack)) /\ Tail(stack)[Len(stack) - 1] = stack[Len(stack)]
  BY <1>2, <1>4
<1> QED BY <1>1, <1>3, <1>4, <1>5 DEF BottomOK

\* lookup() leaves async factories as they are, or ends one.
LEMMA LookupLate ==
    ASSUME NEW t, NEW by, NEW below, NEW others, Lookup(t, by, below, others)
    PROVE  late' \subseteq others
BY DEF Lookup, Throw

\* Every step keeps LazyInv.
LEMMA LazyStep == ASSUME LazyInv, [Next]_vars PROVE LazyInv'
<1> USE ContextAssumption
<1>0. TypeInv' /\ TypeInv /\ TypeOK /\ StackOK(<<>>) /\ <<>> \in Seq(Frames) /\ Len(<<>>) = 0
  BY TypeStep DEF LazyInv, TypeInv, StackOK
<1>a. bindings' = bindings
  BY DEF Next, vars, LoopStep, LoopStart, LoopResume, Ask, Return, Raise, Finish, LateAsk, UserAsk
<1>b. \A t \in Tokens : \A rank \in [Tokens -> Tokens] : Ranked(rank) =>
         \A i \in 1 .. Len(<<>>) : rank[t] < rank[<<>>[i].tok]
  <2>1. \A i \in 1 .. Len(<<>>) : FALSE
    BY <1>0
  <2> QED BY <2>1
<1>1. ASSUME StackOK(stack)', HeldOK', \A c \in late' : c.rest \subseteq asks[c.tok],
             UNCHANGED <<slot, made>>
      PROVE  LazyInv'
  BY <1>0, <1>1, <1>a DEF LazyInv, LazyOnce, bindings
<1>2. ASSUME UNCHANGED stack PROVE StackOK(stack)'
  BY <1>2, <1>a DEF LazyInv, StackOK, Ranked, bindings
<1>c. ASSUME Idle' PROVE HeldOK'
  BY <1>0, <1>c DEF HeldOK, Idle
<1>d. ASSUME NEW t \in Tokens, NEW by, NEW others, Lookup(t, by, <<>>, others), UNCHANGED <<slot, turn>>
      PROVE  HeldOK'
  <2>1. \A i \in 1 .. Len(<<>>) : FALSE
    BY <1>0
  <2> QED BY <1>0, <1>d, <2>1, LookupHeld
<1>3. CASE LoopStep
  <2>1. UNCHANGED <<slot, made, late, stack>> /\ Idle
    BY <1>3 DEF LoopStep
  <2> QED BY <1>1, <1>2, <1>c, <2>1 DEF LazyInv, Idle
<1>12. CASE LoopStart
  <2>1. /\ UNCHANGED <<slot, made, late, turn>> /\ stack' = <<Frame(turn)>> /\ caller' = TheLoop
        /\ turn \in Tokens
    BY <1>0, <1>12 DEF LoopStart, TypeInv, TypeOK, LoopOK
  <2>2. StackOK(<<Frame(turn)>> \o <<>>)
    BY <1>0, <1>b, <2>1, PushOK
  <2>3. <<Frame(turn)>> \o <<>> = <<Frame(turn)>>
    BY <1>0, <2>1, FrameType
  <2>4. StackOK(stack)'
    BY <1>a, <2>1, <2>2, <2>3 DEF StackOK, Ranked, bindings
  <2>5. HeldOK'
    <3>1. Len(stack') = 1 /\ stack'[1].tok = turn'
      BY <2>1 DEF Frame
    <3> QED BY <2>1, <3>1 DEF HeldOK
  <2> QED BY <1>1, <2>1, <2>4, <2>5 DEF LazyInv
<1>4. ASSUME NEW t \in Tokens, Ask(t) PROVE LazyInv'
  <2>1. /\ ~Idle /\ UNCHANGED <<bindings, slot, made, turn>>
        /\ t \in Head(stack).todo
        /\ Lookup(t, caller, Asking(t), late)
    BY <1>4 DEF Ask, Asking
  <2>2. /\ StackOK(Asking(t)) /\ Asking(t) \in Seq(Frames)
        /\ \A rank \in [Tokens -> Tokens] : Ranked(rank) =>
              \A i \in 1 .. Len(Asking(t)) : rank[t] < rank[Asking(t)[i].tok]
    BY <1>0, <2>1, AskingOK, AskingType DEF LazyInv
  <2>3. StackOK(stack)'
    BY <1>0, <2>1, <2>2, LookupStack DEF bindings
  <2>4. late' \subseteq late
    BY <2>1, LookupLate
  <2>5. HeldOK'
    <3>1. /\ Len(Asking(t)) = Len(stack)
          /\ \A i \in 1 .. Len(stack) : Asking(t)[i].tok = stack[i].tok
      BY <1>0, <2>1, AskingType
    <3>2. \A i \in 1 .. Len(Asking(t)) : \/ slot[Asking(t)[i].tok] \in {"lazy", "eager"}
                                         \/ Asking(t)[i].tok = turn /\ caller = TheLoop
      BY <3>1 DEF LazyInv, HeldOK
    <3> QED BY <1>0, <2>1, <2>2, <3>2, LookupHeld
  <2> QED BY <1>1, <2>1, <2>3, <2>4, <2>5 DEF LazyInv
<1>5. ASSUME NEW c \in late, NEW t \in Tokens, LateAsk(c, t) PROVE LazyInv'
  <2> DEFINE d == [c EXCEPT !.rest = @ \ {t}]
  <2>1. /\ UNCHANGED <<bindings, slot, made, turn>>
        /\ Lookup(t, Late(d), <<>>, (late \ {c}) \cup {d})
    BY <1>5 DEF LateAsk
  <2>2. c \in Rests /\ d.tok = c.tok /\ d.rest \subseteq c.rest
    BY <1>0 DEF TypeOK, Rests
  <2> HIDE DEF d
  <2>3. StackOK(stack)'
    BY <1>0, <1>b, <2>1, LookupStack DEF bindings
  <2>4. late' \subseteq (late \ {c}) \cup {d}
    BY <2>1, LookupLate
  <2>5. HeldOK'
    BY <1>d, <2>1
  <2> QED BY <1>1, <2>1, <2>2, <2>3, <2>4, <2>5 DEF LazyInv
<1>6. ASSUME NEW t \in Tokens, UserAsk(t) PROVE LazyInv'
  <2>1. /\ UNCHANGED <<bindings, slot, made, turn>>
        /\ Lookup(t, AUser, <<>>, late)
    BY <1>6 DEF UserAsk
  <2>2. StackOK(stack)'
    BY <1>0, <1>b, <2>1, LookupStack DEF bindings
  <2>3. late' \subseteq late
    BY <2>1, LookupLate
  <2>4. HeldOK'
    BY <1>d, <2>1
  <2> QED BY <1>1, <2>1, <2>2, <2>3, <2>4 DEF LazyInv
<1>7. CASE Raise
  <2>1. UNCHANGED <<bindings, slot, made, turn>> /\ stack' = <<>> /\ late' \subseteq late
    BY <1>7 DEF Raise, Throw
  <2>2. StackOK(stack)'
    BY <1>0, <2>1 DEF StackOK, Ranked, bindings
  <2> QED BY <1>1, <1>c, <2>1, <2>2 DEF LazyInv, Idle
<1>8. ASSUME NEW c \in late, Finish(c) PROVE LazyInv'
  <2>1. UNCHANGED <<slot, made, stack>> /\ late' \subseteq late /\ Idle
    BY <1>8 DEF Finish
  <2> QED BY <1>1, <1>2, <1>c, <2>1 DEF LazyInv, Idle
<1>9. CASE LoopResume
  <2>1. /\ Idle /\ main = "awaiting"
        /\ slot' = [slot EXCEPT ![turn] = yields[turn]]
        /\ UNCHANGED <<bindings, made, stack, late>>
    BY <1>9 DEF LoopResume
  <2>2. turn \in Tokens /\ yields[turn] # "lazy"
    BY <1>0, <2>1 DEF TypeInv, TypeOK, LoopOK
  <2>3. StackOK(stack)'
    BY <1>0, <2>1 DEF StackOK, Ranked, Idle, bindings
  <2>4. \A t \in Tokens : slot'[t] = "lazy" => slot[t] = "lazy"
    BY <1>0, <2>1, <2>2 DEF TypeOK
  <2>5. HeldOK'
    BY <1>c, <2>1 DEF Idle
  <2> QED BY <1>0, <2>1, <2>3, <2>4, <2>5 DEF LazyInv, LazyOnce, bindings
<1>10. CASE UNCHANGED vars
  BY <1>1, <1>2, <1>10 DEF vars, LazyInv, HeldOK
<1>11. CASE Return
  <2> DEFINE t == Head(stack).tok
             byLoop == Len(stack) = 1 /\ caller = TheLoop
             new == [tok |-> t, awaited |-> byLoop, rest |-> Head(stack).todo]
  <2>1. /\ ~Idle /\ stack' = Tail(stack)
        /\ t \in async \/ yields[t] # "error"
        /\ made' = [made EXCEPT ![t] = @ + 1]
        /\ late' = IF t \in async THEN late \cup {new} ELSE late
        /\ byLoop => slot' = slot
        /\ ~byLoop => slot' = [slot EXCEPT ![t] = IF t \in async THEN "promise" ELSE yields[t]]
        /\ turn' = turn /\ caller' = IF Len(stack) = 1 THEN Nobody ELSE caller
    BY <1>11 DEF Return
  <2>2. /\ stack \in Seq(Frames) /\ stack # <<>>
        /\ Head(stack) \in Frames /\ Head(stack) = stack[1] /\ 1 \in 1 .. Len(stack)
        /\ Tail(stack) \in Seq(Frames) /\ Len(stack) \in Nat
        /\ Len(Tail(stack)) = Len(stack) - 1
        /\ \A i \in 1 .. Len(stack) - 1 : Tail(stack)[i] = stack[i + 1]
    BY <1>0, <2>1, Pop DEF TypeOK, Idle
  <2>3. /\ StackOK(Tail(stack))
        /\ \A i \in 1 .. Len(Tail(stack)) : Tail(stack)[i].tok # t
    BY <1>0, <2>1, TailOK DEF LazyInv
  <2>4. t \in Tokens /\ (~byLoop => slot[t] \in {"lazy", "eager"}) /\ Head(stack).todo \subseteq asks[t]
    BY <2>1, <2>2, StoresHeld DEF LazyInv, StackOK, Frames
  <2>5. \A c \in late' : c.rest \subseteq asks[c.tok]
    BY <2>1, <2>4 DEF LazyInv
  <2>6. byLoop => t \in eager
    BY <1>0, <2>2 DEF TypeInv, LoopOK, BottomOK
  <2> HIDE DEF t, byLoop, new
  <2>7. t \notin async => yields[t] \in {"value", "void"}
    BY <1>0, <2>1, <2>4 DEF TypeOK
  <2>8. \A u \in Tokens : u # t => slot'[u] = slot[u] /\ made'[u] = made[u]
    BY <1>0, <2>1, <2>4 DEF TypeOK
  <2>9. t \in eager \/ (made[t] = 0 /\ slot'[t] # "lazy" /\ made'[t] = 1)
    <3>1. CASE t \notin eager
      <4>1. slot[t] = "lazy" /\ ~byLoop
        BY <1>0, <2>4, <2>6, <3>1 DEF TypeInv, EntriesOK
      <4>2. slot'[t] \in {"promise", "value", "void"}
        BY <1>0, <2>1, <2>4, <2>7, <4>1 DEF TypeOK
      <4>3. made[t] = 0 /\ made'[t] = 1
        BY <1>0, <2>1, <2>4, <4>1 DEF LazyInv, TypeOK
      <4> QED BY <4>2, <4>3
    <3> QED BY <3>1
  <2>10. \A u \in Tokens : slot'[u] = "lazy" => made'[u] = 0
    BY <1>0, <2>8, <2>9, <1>a DEF LazyInv, TypeInv, EntriesOK, bindings
  <2>11. LazyOnce'
    BY <2>8, <2>9, <1>a DEF LazyInv, LazyOnce, bindings
  <2>12. StackOK(stack)'
    BY <1>a, <2>1, <2>3 DEF StackOK, Ranked, bindings
  <2>13. HeldOK'
    <3>1. ASSUME NEW i \in 1 .. Len(Tail(stack))
          PROVE  /\ Tail(stack)[i] = stack[i + 1] /\ i + 1 \in 1 .. Len(stack)
                 /\ Len(stack) # 1 /\ Tail(stack)[i].tok \in Tokens
      <4>1. Tail(stack)[i] \in Frames /\ Tail(stack)[i] = stack[i + 1] /\ i + 1 \in 1 .. Len(stack)
            /\ Len(stack) # 1
        BY <2>2
      <4> QED BY <4>1 DEF Frames
    <3>2. ASSUME NEW i \in 1 .. Len(Tail(stack))
          PROVE  \/ slot'[Tail(stack)[i].tok] \in {"lazy", "eager"}
                 \/ Tail(stack)[i].tok = turn' /\ caller' = TheLoop
      BY <2>1, <2>3, <2>8, <3>1 DEF LazyInv, HeldOK
    <3> QED BY <2>1, <3>2 DEF HeldOK
  <2> QED BY <1>0, <1>a, <2>5, <2>10, <2>11, <2>12, <2>13 DEF LazyInv, bindings
<1> QED BY <1>3, <1>4, <1>5, <1>6, <1>7, <1>8, <1>9, <1>10, <1>11, <1>12 DEF Next

\* In every reachable state the stack is such a stack, and evaluated lazy entries
\* do not hold their factories.
THEOREM LazyInvariance == Spec => []LazyInv
<1>1. Init => LazyInv
  <2>1. ASSUME Init PROVE LazyInv
    <3>1. TypeInv
      BY <2>1, ContextAssumption
         DEF Init, TypeInv, TypeOK, LoopOK, BottomOK, EntriesOK, Tokens, TheLoop, Nobody
    <3>2. StackOK(stack) /\ HeldOK
      BY <2>1 DEF Init, StackOK, HeldOK
    <3> QED BY <2>1, <3>1, <3>2 DEF Init, LazyInv, LazyOnce
  <2> QED BY <2>1
<1> QED BY <1>1, LazyStep, PTL DEF Spec

\* A lazy dependency is bootstrapped at most once, whoever asks for it and when.
THEOREM LazyDependenciesAreMadeOnce == Spec => []LazyOnce
<1>1. LazyInv => LazyOnce
  BY DEF LazyInv
<1> QED BY <1>1, LazyInvariance, PTL

-----------------------------------------------------------------------------
\* Ordered bindings.

\* What runs is at or before the turn of resolve(), and the turn's own factory runs
\* only for resolve(); the entries of eager dependencies before the turn hold what
\* they yielded, and from the turn on their factories.
OrderInv ==
    /\ \A i \in 1 .. Len(stack) : /\ stack[i].tok <= turn
                                  /\ stack[i].tok = turn => caller = TheLoop
    /\ \A c \in late : c.tok <= turn
    /\ \A t \in eager : t < turn => slot[t] = yields[t] /\ yields[t] # "error"
    /\ \A t \in eager : t >= turn => slot[t] = "eager"
    /\ \A t \in eager : t > turn => made[t] = 0
    /\ \A t \in eager : made[t] <= 1
    /\ main \in {"loop", "starting", "evaluating"} => (turn \in Tokens \cap eager => made[turn] = 0)
    /\ main = "done" => turn = N + 1

OrderedInv == LazyInv /\ (Ordered => OrderInv)

\* For ordered bindings the order of registration ranks the tokens.
LEMMA OrderRanks ==
    ASSUME TypeOK, Ordered
    PROVE  [t \in Tokens |-> t] \in [Tokens -> Tokens] /\ Ranked([t \in Tokens |-> t])
<1>1. \A t \in Tokens : \A u \in asks[t] : u \in Tokens
  BY DEF TypeOK
<1> QED BY <1>1 DEF Ordered, Ranked

\* The tokens of a stack then ascend from the innermost one.
LEMMA StackAscends ==
    ASSUME TypeOK, Ordered, StackOK(stack), NEW i \in 1 .. Len(stack), NEW j \in 1 .. Len(stack), i < j
    PROVE  stack[i].tok < stack[j].tok
<1> DEFINE rank == [t \in Tokens |-> t]
<1>1. rank \in [Tokens -> Tokens] /\ Ranked(rank)
  BY OrderRanks
<1>2. stack[i] \in Frames /\ stack[j] \in Frames
  BY DEF TypeOK
<1>3. stack[i].tok \in Tokens /\ stack[j].tok \in Tokens
  BY <1>2 DEF Frames
<1>4. rank[stack[i].tok] = stack[i].tok /\ rank[stack[j].tok] = stack[j].tok
  BY <1>3
<1> HIDE DEF rank
<1> QED BY <1>1, <1>4 DEF StackOK

\* lookup() of a token before the turn, above frames that keep OrderInv, keeps what
\* OrderInv says of the stack.
LEMMA LookupOrder ==
    ASSUME TypeOK, NEW t \in Tokens, t < turn, NEW by, NEW others, NEW below \in Seq(Frames),
           \A i \in 1 .. Len(below) : below[i].tok <= turn /\ (below[i].tok = turn => by = TheLoop),
           UNCHANGED <<turn, bindings>>,
           Lookup(t, by, below, others)
    PROVE  \A i \in 1 .. Len(stack') : stack'[i].tok <= turn
                                       /\ (stack'[i].tok = turn => caller' = TheLoop)
<1>1. CASE slot[t] \in {"lazy", "eager"}
  <2> DEFINE new == <<Frame(t)>> \o below
  <2>1. /\ Len(new) = Len(below) + 1 /\ Len(below) \in Nat /\ new[1] = Frame(t)
        /\ \A i \in 2 .. Len(below) + 1 : new[i] = below[i - 1]
    BY FrameType, Push
  <2>2. Frame(t).tok = t /\ turn \in Nat
    BY DEF Frame, TypeOK
  <2>3. stack' = new /\ caller' = by
    BY <1>1 DEF Lookup
  <2> HIDE DEF new
  <2>4. ASSUME NEW i \in 1 .. Len(new)
        PROVE  new[i].tok <= turn /\ (new[i].tok = turn => by = TheLoop)
    <3>1. CASE i = 1
      BY <2>1, <2>2, <3>1 DEF Tokens
    <3>2. CASE i # 1
      <4>1. new[i] = below[i - 1] /\ i - 1 \in 1 .. Len(below)
        BY <2>1, <3>2
      <4> QED BY <4>1
    <3> QED BY <3>1, <3>2
  <2> QED BY <2>3, <2>4
<1>2. Len(<<>>) = 0
  OBVIOUS
<1>3. CASE slot[t] \in {"value", "promise"}
  <2>1. stack' = below /\ (below # <<>> => caller' = by)
    BY <1>3 DEF Lookup
  <2> QED BY <1>2, <2>1
<1>4. CASE slot[t] \notin {"lazy", "eager", "value", "promise"}
  <2>1. stack' = <<>>
    BY <1>4 DEF Lookup, Throw
  <2> QED BY <1>2, <2>1
<1> QED BY <1>1, <1>3, <1>4

\* lookup() ends resolve() or leaves it alone.
LEMMA LookupMain ==
    ASSUME NEW t, NEW by, NEW below, NEW others, Lookup(t, by, below, others)
    PROVE  main' \in {main, "rejected"}
BY DEF Lookup, Throw

\* Every step keeps OrderedInv.
LEMMA OrderStep == ASSUME OrderedInv, [Next]_vars PROVE OrderedInv'
<1> USE ContextAssumption
<1>0. LazyInv' /\ LazyInv /\ TypeInv /\ TypeOK /\ <<>> \in Seq(Frames) /\ Len(<<>>) = 0
      /\ turn \in Nat /\ N \in Nat
  BY LazyStep DEF OrderedInv, LazyInv, TypeInv, TypeOK
<1>a. bindings' = bindings
  BY DEF Next, vars, LoopStep, LoopStart, LoopResume, Ask, Return, Raise, Finish, LateAsk, UserAsk
<1>b. SUFFICES ASSUME Ordered PROVE OrderInv'
  <2>1. Ordered' = Ordered
    BY <1>a DEF Ordered, bindings
  <2> QED BY <1>0, <2>1 DEF OrderedInv
<1>c. OrderInv /\ StackOK(stack) /\ (\A t \in eager : t \in Tokens /\ t \in Nat)
  <2>1. \A t \in eager : t \in Tokens /\ t \in Nat
    BY <1>0 DEF TypeOK, Tokens
  <2> QED BY <1>0, <1>b, <2>1 DEF OrderedInv, LazyInv
<1>1. ASSUME \A i \in 1 .. Len(stack') : stack'[i].tok <= turn
                                         /\ (stack'[i].tok = turn => caller' = TheLoop),
             \A c \in late' : c.tok <= turn,
             UNCHANGED <<slot, made, turn>>, main' \in {main, "rejected"}
      PROVE  OrderInv'
  BY <1>1, <1>a, <1>c DEF OrderInv, bindings
<1>2. CASE LoopStep
  <2>1. UNCHANGED <<slot, made, late>> /\ Idle /\ main = "loop" /\ caller # TheLoop
    BY <1>0, <1>2 DEF LoopStep, TypeInv, LoopOK
  <2>2. CASE turn > N
    <3>1. main' = "done" /\ UNCHANGED <<turn, stack, caller>> /\ turn = N + 1
      BY <1>0, <1>2, <2>2 DEF LoopStep, TypeOK
    <3> QED BY <1>a, <1>c, <2>1, <3>1 DEF OrderInv, bindings, Idle
  <2>3. CASE ~(turn > N) /\ slot[turn] = "eager"
    <3>1. main' = "starting" /\ UNCHANGED <<turn, stack, caller>>
      BY <1>2, <2>3 DEF LoopStep
    <3> QED BY <1>0, <1>a, <1>c, <2>1, <3>1 DEF OrderInv, bindings
  <2>4. CASE ~(turn > N) /\ slot[turn] # "eager"
    <3>1. turn \notin eager
      BY <1>0, <1>c, <2>4 DEF OrderInv
    <3>2. CASE slot[turn] = "void"
      <4>1. main' = "rejected" /\ UNCHANGED <<turn, stack, caller>>
        BY <1>2, <2>4, <3>2 DEF LoopStep
      <4> QED BY <1>a, <1>c, <2>1, <4>1 DEF OrderInv, bindings
    <3>3. CASE slot[turn] # "void"
      <4>1. turn' = turn + 1 /\ UNCHANGED <<main, stack, caller>>
        BY <1>2, <2>4, <3>3 DEF LoopStep
      <4>2. stack' = <<>>
        BY <2>1, <4>1 DEF Idle
      <4>3. \A c \in late : c.tok \in Nat
        BY <1>0 DEF TypeOK, Rests, Tokens
      <4>4. \A t \in eager : (t < turn + 1 <=> t < turn) /\ (t >= turn + 1 <=> t >= turn)
        BY <1>0, <1>c, <3>1
      <4>5. \A c \in late' : c.tok <= turn'
        BY <1>0, <1>c, <2>1, <4>1, <4>3 DEF OrderInv
      <4>6. \A t \in eager : /\ t < turn' => slot[t] = yields[t] /\ yields[t] # "error"
                             /\ t >= turn' => slot[t] = "eager"
        BY <1>c, <4>1, <4>4 DEF OrderInv
      <4>7. \A t \in eager : t >= turn' => made[t] = 0
        BY <1>0, <1>c, <3>1, <4>1 DEF OrderInv
      <4>8. \A t \in eager : (t > turn' => made[t] = 0) /\ made[t] <= 1
                             /\ (turn' = t => made[t] = 0)
        BY <1>0, <1>c, <4>1, <4>7 DEF OrderInv
      <4> QED BY <1>0, <1>a, <2>1, <4>1, <4>2, <4>5, <4>6, <4>8 DEF OrderInv, bindings
    <3> QED BY <3>2, <3>3
  <2> QED BY <2>2, <2>3, <2>4
<1>11. CASE LoopStart
  <2>1. /\ main = "starting" /\ main' = "evaluating" /\ caller' = TheLoop /\ stack' = <<Frame(turn)>>
        /\ UNCHANGED <<slot, made, late, turn>>
    BY <1>11 DEF LoopStart
  <2>2. Len(stack') = 1 /\ stack'[1].tok = turn
    BY <2>1 DEF Frame
  <2> QED BY <1>0, <1>a, <1>c, <2>1, <2>2 DEF OrderInv, bindings
<1>3. ASSUME NEW t \in Tokens, Ask(t) PROVE OrderInv'
  <2>1. /\ ~Idle /\ UNCHANGED <<bindings, slot, made, turn>>
        /\ t \in Head(stack).todo
        /\ Lookup(t, caller, Asking(t), late)
    BY <1>3 DEF Ask, Asking
  <2>2. /\ Asking(t) \in Seq(Frames) /\ Len(Asking(t)) = Len(stack)
        /\ \A i \in 1 .. Len(stack) : Asking(t)[i].tok = stack[i].tok
    BY <1>0, <2>1, AskingType
  <2>3. /\ Head(stack) \in Frames /\ Head(stack) = stack[1] /\ 1 \in 1 .. Len(stack)
    BY <1>0, <2>1, Pop DEF TypeOK, Idle
  <2>4. t < stack[1].tok /\ stack[1].tok <= turn /\ stack[1].tok \in Nat
    BY <1>b, <1>c, <2>1, <2>3 DEF StackOK, Ordered, Frames, OrderInv, Tokens
  <2>5. t < turn
    BY <1>0, <2>4 DEF Tokens
  <2>6. \A i \in 1 .. Len(Asking(t)) :
            Asking(t)[i].tok <= turn /\ (Asking(t)[i].tok = turn => caller = TheLoop)
    BY <1>c, <2>2 DEF OrderInv
  <2>7. \A i \in 1 .. Len(stack') : stack'[i].tok <= turn
                                    /\ (stack'[i].tok = turn => caller' = TheLoop)
    BY <1>0, <2>1, <2>2, <2>5, <2>6, LookupOrder
  <2>8. late' \subseteq late /\ main' \in {main, "rejected"}
    BY <2>1, LookupLate, LookupMain
  <2> QED BY <1>1, <1>c, <2>1, <2>7, <2>8 DEF OrderInv
<1>4. ASSUME NEW c \in late, NEW t \in Tokens, LateAsk(c, t) PROVE OrderInv'
  <2> DEFINE d == [c EXCEPT !.rest = @ \ {t}]
             others == (late \ {c}) \cup {d}
  <2>1. /\ UNCHANGED <<bindings, slot, made, turn>> /\ t \in c.rest
        /\ Lookup(t, Late(d), <<>>, others)
    BY <1>4 DEF LateAsk
  <2>2. c \in Rests /\ d.tok = c.tok
    BY <1>0 DEF TypeOK, Rests
  <2> HIDE DEF d
  <2>3. t < c.tok /\ c.tok <= turn /\ c.tok \in Nat
    BY <1>0, <1>b, <1>c, <2>1, <2>2 DEF LazyInv, Ordered, OrderInv, Rests, Tokens
  <2>4. t < turn
    BY <1>0, <2>3 DEF Tokens
  <2>5. \A i \in 1 .. Len(<<>>) :
           <<>>[i].tok <= turn /\ (<<>>[i].tok = turn => Late(d) = TheLoop)
    <3>1. \A i \in 1 .. Len(<<>>) : FALSE
      BY <1>0
    <3> QED BY <3>1
  <2>6. \A e \in others : e.tok <= turn
    BY <1>c, <2>2, <2>3 DEF OrderInv
  <2> HIDE DEF others
  <2>7. \A i \in 1 .. Len(stack') : stack'[i].tok <= turn
                                    /\ (stack'[i].tok = turn => caller' = TheLoop)
    BY <1>0, <2>1, <2>4, <2>5, LookupOrder
  <2>8. late' \subseteq others /\ main' \in {main, "rejected"}
    BY <2>1, LookupLate, LookupMain
  <2> QED BY <1>1, <2>1, <2>6, <2>7, <2>8
<1>5. ASSUME NEW t \in Tokens, UserAsk(t) PROVE OrderInv'
  <2>1. /\ UNCHANGED <<bindings, slot, made, turn>> /\ main = "done"
        /\ Lookup(t, AUser, <<>>, late)
    BY <1>5 DEF UserAsk
  <2>2. t < turn
    BY <1>0, <1>c, <2>1 DEF OrderInv, Tokens
  <2>3. \A i \in 1 .. Len(<<>>) :
           <<>>[i].tok <= turn /\ (<<>>[i].tok = turn => AUser = TheLoop)
    <3>1. \A i \in 1 .. Len(<<>>) : FALSE
      BY <1>0
    <3> QED BY <3>1
  <2>4. \A i \in 1 .. Len(stack') : stack'[i].tok <= turn
                                    /\ (stack'[i].tok = turn => caller' = TheLoop)
    BY <1>0, <2>1, <2>2, <2>3, LookupOrder
  <2>5. late' \subseteq late /\ main' \in {main, "rejected"}
    BY <2>1, LookupLate, LookupMain
  <2> QED BY <1>1, <1>c, <2>1, <2>4, <2>5 DEF OrderInv
<1>6. CASE Raise
  <2>1. /\ UNCHANGED <<bindings, slot, made, turn>> /\ stack' = <<>>
        /\ late' \subseteq late /\ main' \in {main, "rejected"}
    BY <1>6 DEF Raise, Throw
  <2> QED BY <1>0, <1>1, <1>c, <2>1 DEF OrderInv
<1>7. ASSUME NEW c \in late, Finish(c) PROVE OrderInv'
  <2>1. /\ UNCHANGED <<slot, made, turn, stack, caller>>
        /\ late' \subseteq late /\ main' \in {main, "rejected"}
    BY <1>7 DEF Finish
  <2> QED BY <1>1, <1>c, <2>1 DEF OrderInv
<1>8. CASE LoopResume
  <2>1. /\ Idle /\ main = "awaiting" /\ (\A c \in late : ~c.awaited)
        /\ slot' = [slot EXCEPT ![turn] = yields[turn]]
        /\ turn' = turn + 1 /\ main' = "loop"
        /\ UNCHANGED <<made, stack, late>>
    BY <1>8 DEF LoopResume
  <2>2. turn \in eager /\ turn \in Tokens /\ yields[turn] # "error"
    BY <1>0, <1>c, <2>1 DEF TypeInv, LoopOK
  <2>3. slot'[turn] = yields[turn] /\ \A t \in eager : t # turn => slot'[t] = slot[t]
    BY <1>0, <1>c, <2>1, <2>2 DEF TypeOK
  <2>4. \A t \in eager : /\ t < turn + 1 => t < turn \/ t = turn
                         /\ t >= turn + 1 => t > turn
    BY <1>0, <1>c
  <2>5. \A t \in eager : /\ t < turn' => slot'[t] = yields[t] /\ yields[t] # "error"
                         /\ t >= turn' => slot'[t] = "eager" /\ made[t] = 0
    <3>1. \A t \in eager : t < turn' => slot'[t] = yields[t] /\ yields[t] # "error"
      BY <1>0, <1>c, <2>1, <2>2, <2>3, <2>4 DEF OrderInv
    <3>2. \A t \in eager : t >= turn' => slot'[t] = "eager" /\ made[t] = 0
      BY <1>0, <1>c, <2>1, <2>3, <2>4 DEF OrderInv
    <3> QED BY <3>1, <3>2
  <2>6. \A c \in late : c.tok \in Nat
    BY <1>0 DEF TypeOK, Rests, Tokens
  <2>7. \A c \in late' : c.tok <= turn'
    BY <1>0, <1>c, <2>1, <2>6 DEF OrderInv
  <2>8. \A t \in eager : (t > turn' => made[t] = 0) /\ made[t] <= 1
                         /\ (turn' = t => made[t] = 0)
    BY <1>0, <1>c, <2>1, <2>5 DEF OrderInv
  <2> QED BY <1>0, <1>a, <2>1, <2>5, <2>7, <2>8 DEF OrderInv, bindings, Idle
<1>9. CASE UNCHANGED vars
  BY <1>1, <1>9, <1>c DEF vars, OrderInv
<1>10. CASE Return
  <2> DEFINE t == Head(stack).tok
             byLoop == Len(stack) = 1 /\ caller = TheLoop
             new == [tok |-> t, awaited |-> byLoop, rest |-> Head(stack).todo]
  <2>1. /\ ~Idle /\ stack' = Tail(stack) /\ turn' = turn
        /\ made' = [made EXCEPT ![t] = @ + 1]
        /\ late' = IF t \in async THEN late \cup {new} ELSE late
        /\ byLoop => slot' = slot /\ main' = "awaiting"
        /\ ~byLoop => /\ slot' = [slot EXCEPT ![t] = IF t \in async THEN "promise" ELSE yields[t]]
                      /\ main' = main
        /\ caller' = IF Len(stack) = 1 THEN Nobody ELSE caller
    BY <1>10 DEF Return
  <2>2. /\ stack \in Seq(Frames) /\ stack # <<>>
        /\ Head(stack) \in Frames /\ Head(stack) = stack[1] /\ 1 \in 1 .. Len(stack)
        /\ Tail(stack) \in Seq(Frames)
        /\ Len(Tail(stack)) = Len(stack) - 1 /\ Len(stack) \in Nat
        /\ \A i \in 1 .. Len(stack) - 1 : Tail(stack)[i] = stack[i + 1]
    BY <1>0, <2>1, Pop DEF TypeOK, Idle
  <2>3. t \in Tokens /\ (t # turn => slot[t] \in {"lazy", "eager"}) /\ t <= turn
        /\ t = stack[1].tok /\ (t = turn => caller = TheLoop)
    BY <1>0, <1>c, <2>2 DEF LazyInv, HeldOK, Frames, OrderInv
  <2>4. byLoop => t = turn /\ turn \in eager /\ main = "evaluating"
    BY <1>0, <2>2 DEF TypeInv, LoopOK, BottomOK
  <2>5. t = turn => byLoop
    <3>1. SUFFICES ASSUME t = turn, Len(stack) # 1 PROVE FALSE
      BY <2>3
    <3>2. 1 < Len(stack) /\ Len(stack) \in 1 .. Len(stack)
      BY <2>2, <3>1
    <3>3. stack[1].tok < stack[Len(stack)].tok
      BY <1>0, <1>b, <1>c, <2>2, <3>2, StackAscends
    <3>4. stack[Len(stack)].tok = turn
      BY <1>0, <2>3, <3>1 DEF TypeInv, BottomOK
    <3> QED BY <1>0, <2>3, <3>1, <3>3, <3>4
  <2>6. new.tok = t
    OBVIOUS
  <2> HIDE DEF t, byLoop, new
  <2>7. t \in eager => byLoop
    <3>1. SUFFICES ASSUME t \in eager, t < turn PROVE FALSE
      BY <1>0, <2>3, <2>5 DEF Tokens
    <3>2. slot[t] = yields[t] /\ yields[t] \in {"value", "void", "error"}
      BY <1>0, <1>c, <2>3, <3>1 DEF OrderInv, TypeOK
    <3> QED BY <1>0, <2>3, <3>1, <3>2 DEF Tokens
  <2>8. \A u \in Tokens : u # t => slot'[u] = slot[u] /\ made'[u] = made[u]
    BY <1>0, <2>1, <2>3 DEF TypeOK
  <2>9. \A i \in 1 .. Len(stack') : stack'[i].tok <= turn'
                                    /\ (stack'[i].tok = turn' => caller' = TheLoop)
    <3>1. ASSUME NEW i \in 1 .. Len(Tail(stack))
          PROVE  /\ Tail(stack)[i] = stack[i + 1] /\ i + 1 \in 1 .. Len(stack)
                 /\ Len(stack) # 1
      BY <2>2
    <3>2. ASSUME NEW i \in 1 .. Len(Tail(stack))
          PROVE  Tail(stack)[i].tok <= turn /\ (Tail(stack)[i].tok = turn => caller' = TheLoop)
      BY <1>c, <2>1, <3>1 DEF OrderInv
    <3> QED BY <2>1, <3>2
  <2>10. \A c \in late' : c.tok <= turn'
    BY <1>c, <2>1, <2>3, <2>6 DEF OrderInv
  <2>11. CASE byLoop
    <3>1. made[t] = 0 /\ made'[t] = 1 /\ slot' = slot /\ main' = "awaiting" /\ t = turn
      BY <1>0, <1>c, <2>1, <2>3, <2>4, <2>11 DEF OrderInv, TypeOK
    <3>2. \A u \in eager : made'[u] <= 1 /\ (u > turn => made'[u] = 0)
      BY <1>0, <1>c, <2>8, <3>1 DEF OrderInv
    <3> QED BY <1>a, <1>c, <2>1, <2>9, <2>10, <3>1, <3>2 DEF OrderInv, bindings
  <2>12. CASE ~byLoop
    <3>1. \A u \in eager : made'[u] = made[u] /\ slot'[u] = slot[u]
      BY <1>c, <2>7, <2>8, <2>12
    <3> QED BY <1>a, <1>c, <2>1, <2>9, <2>10, <2>12, <3>1 DEF OrderInv, bindings
  <2> QED BY <2>11, <2>12
<1> QED BY <1>2, <1>3, <1>4, <1>5, <1>6, <1>7, <1>8, <1>9, <1>10, <1>11 DEF Next

\* With ordered bindings, resolve() keeps its promise: each dependency is made at
\* most once, and in the end each eager one is in the map as what it yielded.
THEOREM OrderedBindingsAreResolved == Spec => []OrderedIsResolved
<1>1. Init => OrderedInv
  <2>1. ASSUME Init PROVE OrderedInv
    <3>1. TypeInv
      BY <2>1, ContextAssumption
         DEF Init, TypeInv, TypeOK, LoopOK, BottomOK, EntriesOK, Tokens, TheLoop, Nobody
    <3>2. StackOK(stack) /\ HeldOK
      BY <2>1 DEF Init, StackOK, HeldOK
    <3>3. LazyInv
      BY <2>1, <3>1, <3>2 DEF Init, LazyInv, LazyOnce
    <3>4. OrderInv
      <4>1. \A t \in eager : t \in Tokens /\ t \in Nat /\ ~(t < 1) /\ slot[t] = "eager" /\ made[t] = 0
        BY <2>1, ContextAssumption DEF Init, Tokens
      <4>2. \A i \in 1 .. Len(stack) : FALSE
        BY <2>1 DEF Init
      <4> QED BY <2>1, <4>1, <4>2 DEF Init, OrderInv
    <3> QED BY <3>3, <3>4 DEF OrderedInv
  <2> QED BY <2>1
<1>2. OrderedInv => OrderedIsResolved
  <2>1. SUFFICES ASSUME OrderedInv, Ordered
                 PROVE  /\ \A t \in Tokens : made[t] <= 1
                        /\ main = "done" => \A t \in eager : slot[t] = yields[t]
    BY DEF OrderedIsResolved
  <2>2. LazyOnce /\ OrderInv /\ \A t \in eager : t \in 1 .. N
    BY <2>1 DEF OrderedInv, LazyInv, TypeInv, TypeOK, Tokens
  <2>3. main = "done" => \A t \in eager : t < turn
    BY <2>2, ContextAssumption DEF OrderInv
  <2> QED BY <2>2, <2>3 DEF LazyOnce, OrderInv
<1> QED BY <1>1, <1>2, OrderStep, PTL DEF Spec

-----------------------------------------------------------------------------
\* Why resolve() rejects.

\* The innermost frame of a stack that is not empty.
LEMMA InnermostFrame ==
    ASSUME TypeOK, ~Idle
    PROVE  Head(stack) \in Frames /\ Head(stack) = stack[1] /\ 1 \in 1 .. Len(stack)
BY Pop DEF TypeOK, Idle

\* lookup() ends resolve() only at an undefined entry.
LEMMA LookupReason ==
    ASSUME TypeOK, NEW t \in Tokens, NEW by, NEW below, NEW others, Lookup(t, by, below, others)
    PROVE  main' = main \/ slot[t] = "void"
<1>1. slot[t] \in {"lazy", "eager", "promise", "value", "void"}
  BY DEF TypeOK
<1> QED BY <1>1 DEF Lookup

\* resolve() rejects only for a factory that fails or an undefined entry, which stays
\* undefined: an entry is only written by a factory that it still held.
THEOREM RejectionsHaveAReason == Spec => []RejectsForReason
<1> DEFINE Reason == \E t \in Tokens : yields[t] = "error" \/ slot[t] = "void"
<1>1. Init => RejectsForReason
  BY DEF Init, RejectsForReason
<1>2. ASSUME LazyInv, RejectsForReason, [Next]_vars PROVE RejectsForReason'
  <2>0. TypeInv /\ TypeOK /\ StackOK(stack) /\ RejectsForReason
    BY <1>2 DEF LazyInv, TypeInv
  <2>a. bindings' = bindings
    BY <1>2 DEF Next, vars, LoopStep, LoopStart, LoopResume, Ask, Return, Raise, Finish, LateAsk, UserAsk
  <2>b. ASSUME main' # main => Reason, slot' = slot PROVE RejectsForReason'
    BY <2>0, <2>a, <2>b DEF RejectsForReason, bindings
  <2>1. CASE LoopStep
    <3>1. turn \in Nat /\ N \in Nat /\ (turn <= N => turn \in Tokens)
      BY <2>0, ContextAssumption DEF TypeOK, Tokens
    <3>2. main' = "rejected" => main = "rejected" \/ Reason
      BY <2>1, <3>1 DEF LoopStep
    <3> QED BY <2>0, <2>1, <2>a, <3>2 DEF LoopStep, RejectsForReason, bindings
  <2>2. CASE LoopResume
    BY <2>2 DEF LoopResume, RejectsForReason
  <2>10. CASE LoopStart
    BY <2>10 DEF LoopStart, RejectsForReason
  <2>3. ASSUME NEW t \in Tokens, Ask(t) PROVE RejectsForReason'
    <3>1. slot' = slot /\ Lookup(t, caller, Asking(t), late)
      BY <2>3 DEF Ask, Asking
    <3> QED BY <2>0, <2>b, <3>1, LookupReason
  <2>4. ASSUME NEW c \in late, NEW t \in Tokens, LateAsk(c, t) PROVE RejectsForReason'
    <3>1. PICK by, others : slot' = slot /\ Lookup(t, by, <<>>, others)
      BY <2>4 DEF LateAsk
    <3> QED BY <2>0, <2>b, <3>1, LookupReason
  <2>5. ASSUME NEW t \in Tokens, UserAsk(t) PROVE RejectsForReason'
    <3>1. slot' = slot /\ Lookup(t, AUser, <<>>, late)
      BY <2>5 DEF UserAsk
    <3> QED BY <2>0, <2>b, <3>1, LookupReason
  <2>6. CASE Raise
    <3>1. Head(stack) \in Frames
      BY <2>0, <2>6, InnermostFrame DEF Raise
    <3>2. Head(stack).tok \in Tokens /\ yields[Head(stack).tok] = "error" /\ slot' = slot
      BY <2>6, <3>1 DEF Raise, Frames
    <3> QED BY <2>b, <3>2
  <2>7. ASSUME NEW c \in late, Finish(c) PROVE RejectsForReason'
    <3>1. c.tok \in Tokens /\ slot' = slot /\ (main' # main => yields[c.tok] = "error")
      BY <2>0, <2>7 DEF Finish, TypeOK, Rests
    <3> QED BY <2>b, <3>1
  <2>8. CASE Return
    <3> DEFINE t == Head(stack).tok
    <3>1. t \in Tokens
      <4>1. Head(stack) \in Frames
        BY <2>0, <2>8, InnermostFrame DEF Return
      <4> QED BY <4>1 DEF Frames
    <3>2. /\ \/ slot' = slot
             \/ /\ slot' = [slot EXCEPT ![t] = IF t \in async THEN "promise" ELSE yields[t]]
                /\ slot[t] \in {"lazy", "eager"}
          /\ main' \in {main, "awaiting"}
      BY <1>2, <2>8, StoresHeld DEF Return
    <3> HIDE DEF t
    <3>3. \A u \in Tokens : slot[u] = "void" => slot'[u] = "void"
      BY <2>0, <3>1, <3>2 DEF TypeOK
    <3> QED BY <2>0, <2>a, <3>2, <3>3 DEF RejectsForReason, bindings
  <2>9. CASE UNCHANGED vars
    BY <2>b, <2>9 DEF vars
  <2> QED BY <1>2, <2>1, <2>2, <2>3, <2>4, <2>5, <2>6, <2>7, <2>8, <2>9, <2>10 DEF Next
<1> QED BY <1>1, <1>2, LazyInvariance, PTL DEF Spec

-----------------------------------------------------------------------------
\* Second instances.

\* Evaluations have someone who started them, a user only after resolve(); an eager
\* entry that still holds its factory after the factory returned is the turn's, whose
\* promise resolve() awaits or was rejected by.  The one that resolve() is about to
\* evaluate has been made once at most.
InFlightInv ==
    /\ Idle <=> caller = Nobody
    /\ caller = AUser => main = "done"
    /\ \A t \in Tokens : slot[t] = "eager" /\ made[t] # 0 =>
          made[t] = 1 /\ turn = t /\ main \in {"awaiting", "rejected"}
    /\ main \in {"starting", "evaluating"} => made[turn] <= 1
    /\ \A t \in Tokens : slot[t] \in {"lazy", "eager", "promise", yields[t]}

\* A sequence without elements.
LEMMA EmptySeq == ASSUME NEW S, NEW s \in Seq(S), Len(s) = 0 PROVE s = <<>>
OBVIOUS

\* lookup() keeps who asked, unless nothing is evaluated.
LEMMA LookupCaller ==
    ASSUME TypeOK, NEW t \in Tokens, NEW by, by # Nobody, NEW below \in Seq(Frames), NEW others,
           Lookup(t, by, below, others)
    PROVE  /\ stack' = <<>> <=> caller' = Nobody
           /\ caller' \in {by, Nobody}
           /\ caller' = by => main' = main
           /\ main' \in {main, "rejected"}
<1>1. CASE slot[t] \in {"lazy", "eager"}
  <2>1. Len(<<Frame(t)>> \o below) = Len(below) + 1 /\ Len(below) \in Nat
    BY FrameType, Push
  <2>2. <<Frame(t)>> \o below # <<>>
    BY <2>1
  <2> QED BY <1>1, <2>2 DEF Lookup
<1>2. CASE slot[t] \in {"value", "promise"}
  BY <1>2 DEF Lookup
<1>3. CASE slot[t] \notin {"lazy", "eager", "value", "promise"}
  BY <1>3 DEF Lookup, Throw
<1> QED BY <1>1, <1>2, <1>3

\* Every step keeps InFlightInv, and makes a second instance only of a dependency
\* that is in flight.
LEMMA InFlightStep ==
    ASSUME LazyInv, InFlightInv, [Next]_vars
    PROVE  /\ InFlightInv'
           /\ main = "loop" /\ main' = "starting" => made[turn] = 0
           /\ \A t \in Tokens : made[t] > 0 /\ made'[t] # made[t] =>
                 /\ made[t] = 1
                 /\ t \in eager /\ turn = t
                 /\ \/ main \in {"awaiting", "rejected"} /\ caller.by = "late" /\ slot[t] = "eager"
                    \/ main = "evaluating" /\ caller = TheLoop /\ slot[t] \in {"promise", yields[t]}
<1> USE ContextAssumption
<1> DEFINE Second == \A t \in Tokens : made[t] > 0 /\ made'[t] # made[t] =>
                        /\ made[t] = 1
                        /\ t \in eager /\ turn = t
                        /\ \/ main \in {"awaiting", "rejected"} /\ caller.by = "late" /\ slot[t] = "eager"
                           \/ main = "evaluating" /\ caller = TheLoop /\ slot[t] \in {"promise", yields[t]}
<1>0. TypeInv /\ TypeOK /\ StackOK(stack) /\ InFlightInv /\ <<>> \in Seq(Frames)
  BY DEF LazyInv, TypeInv
<1>a. bindings' = bindings /\ Nobody # AUser /\ Nobody # TheLoop /\ AUser # TheLoop
      /\ \A c : Late(c) # Nobody /\ Late(c) # AUser
  BY DEF Next, vars, LoopStep, LoopStart, LoopResume, Ask, Return, Raise, Finish, LateAsk, UserAsk,
         Nobody, AUser, TheLoop, Late
<1>b. main = "loop" /\ main' = "starting" => made[turn] = 0
  <2>1. main = "loop" /\ main' = "starting" => LoopStep
    BY DEF Next, vars, LoopStart, LoopResume, Ask, Return, Raise, Finish, LateAsk, UserAsk, Lookup, Throw
  <2>2. LoopStep /\ main' = "starting" => turn \in Tokens /\ slot[turn] = "eager"
    BY <1>0 DEF LoopStep, TypeOK, Tokens
  <2> QED BY <1>0, <2>1, <2>2 DEF InFlightInv
<1> SUFFICES InFlightInv' /\ Second
  BY <1>b
<1>1. ASSUME made' = made PROVE Second
  BY <1>1
<1>2. ASSUME UNCHANGED <<slot, made, turn>>, main' \in {main, "rejected"},
             stack' = <<>> <=> caller' = Nobody,
             caller' = AUser => main' = "done"
      PROVE  InFlightInv' /\ Second
  BY <1>0, <1>1, <1>2, <1>a DEF InFlightInv, Idle, bindings
<1>3. CASE LoopStep
  <2>1. /\ main = "loop" /\ Idle /\ UNCHANGED <<slot, made, stack, caller, yields>>
        /\ caller = Nobody /\ \A t \in Tokens : slot[t] = "eager" => made[t] = 0
    BY <1>0, <1>3 DEF LoopStep, InFlightInv, bindings
  <2>2. main' \in {"done", "starting", "rejected", "loop"}
        /\ (main' = "starting" => slot[turn] = "eager" /\ turn' = turn /\ turn \in Tokens)
    BY <1>0, <1>3 DEF LoopStep, TypeOK, Tokens
  <2>3. main' = "starting" => made'[turn'] <= 1
    BY <2>1, <2>2
  <2> QED BY <1>0, <1>1, <1>a, <2>1, <2>2, <2>3 DEF InFlightInv, Idle
<1>12. CASE LoopStart
  <2>1. /\ main = "starting" /\ main' = "evaluating" /\ UNCHANGED <<slot, made, turn, yields>>
        /\ stack' = <<Frame(turn)>> /\ caller' = TheLoop
    BY <1>12 DEF LoopStart, bindings
  <2>2. <<Frame(turn)>> # <<>>
    OBVIOUS
  <2> QED BY <1>0, <1>1, <1>a, <2>1, <2>2 DEF InFlightInv, Idle
<1>4. CASE LoopResume
  <2>1. /\ main = "awaiting" /\ Idle /\ caller = Nobody /\ (\A c \in late : ~c.awaited)
        /\ slot' = [slot EXCEPT ![turn] = yields[turn]]
        /\ UNCHANGED <<made, stack, caller, yields>> /\ main' = "loop"
    BY <1>0, <1>4 DEF LoopResume, InFlightInv, bindings
  <2>2. turn \in Tokens /\ yields[turn] # "eager"
    BY <1>0, <2>1 DEF TypeInv, TypeOK, LoopOK
  <2>3. \A t \in Tokens : /\ slot'[t] = "eager" => slot[t] = "eager" /\ t # turn
                          /\ slot'[t] \in {slot[t], yields[t]}
    BY <1>0, <2>1, <2>2 DEF TypeOK
  <2> QED BY <1>0, <1>1, <1>a, <2>1, <2>3 DEF InFlightInv, Idle
<1>5. ASSUME NEW t \in Tokens, Ask(t) PROVE InFlightInv' /\ Second
  <2>1. /\ ~Idle /\ UNCHANGED <<slot, made, turn>> /\ Lookup(t, caller, Asking(t), late)
    BY <1>5 DEF Ask, Asking
  <2>2. caller # Nobody /\ Asking(t) \in Seq(Frames)
    BY <1>0, <2>1, AskingType DEF InFlightInv
  <2>3. /\ stack' = <<>> <=> caller' = Nobody
        /\ caller' \in {caller, Nobody}
        /\ caller' = caller => main' = main
        /\ main' \in {main, "rejected"}
    BY <1>0, <2>1, <2>2, LookupCaller
  <2> QED BY <1>0, <1>2, <1>a, <2>1, <2>3 DEF InFlightInv
<1>6. ASSUME NEW c \in late, NEW t \in Tokens, LateAsk(c, t) PROVE InFlightInv' /\ Second
  <2>1. PICK d, others : UNCHANGED <<slot, made, turn>> /\ Lookup(t, Late(d), <<>>, others)
    BY <1>6 DEF LateAsk
  <2>2. /\ stack' = <<>> <=> caller' = Nobody
        /\ caller' \in {Late(d), Nobody}
        /\ main' \in {main, "rejected"}
    BY <1>0, <1>a, <2>1, LookupCaller
  <2> QED BY <1>2, <1>a, <2>1, <2>2
<1>7. ASSUME NEW t \in Tokens, UserAsk(t) PROVE InFlightInv' /\ Second
  <2>1. main = "done" /\ UNCHANGED <<slot, made, turn>> /\ Lookup(t, AUser, <<>>, late)
    BY <1>7 DEF UserAsk
  <2>2. /\ stack' = <<>> <=> caller' = Nobody
        /\ caller' \in {AUser, Nobody}
        /\ caller' = AUser => main' = main
        /\ main' \in {main, "rejected"}
    BY <1>0, <1>a, <2>1, LookupCaller
  <2> QED BY <1>2, <1>a, <2>1, <2>2
<1>8. CASE Raise
  <2>1. /\ UNCHANGED <<slot, made, turn>> /\ stack' = <<>> /\ caller' = Nobody
        /\ main' \in {main, "rejected"}
    BY <1>8 DEF Raise, Throw
  <2> QED BY <1>2, <1>a, <2>1
<1>9. ASSUME NEW c \in late, Finish(c) PROVE InFlightInv' /\ Second
  <2>1. /\ UNCHANGED <<slot, made, turn, stack, caller>> /\ Idle /\ main' \in {main, "rejected"}
    BY <1>9 DEF Finish
  <2> QED BY <1>0, <1>2, <1>a, <2>1 DEF InFlightInv, Idle
<1>10. CASE UNCHANGED vars
  BY <1>0, <1>1, <1>10 DEF vars, InFlightInv, Idle, bindings
<1>11. CASE Return
  <2> DEFINE t == Head(stack).tok
             byLoop == Len(stack) = 1 /\ caller = TheLoop
  <2>1. /\ ~Idle /\ stack' = Tail(stack) /\ turn' = turn
        /\ t \in async \/ yields[t] # "error"
        /\ made' = [made EXCEPT ![t] = @ + 1]
        /\ byLoop => slot' = slot /\ main' = "awaiting"
        /\ ~byLoop => /\ slot' = [slot EXCEPT ![t] = IF t \in async THEN "promise" ELSE yields[t]]
                      /\ main' = main
        /\ caller' = IF Len(stack) = 1 THEN Nobody ELSE caller
    BY <1>11 DEF Return
  <2>2. /\ stack \in Seq(Frames) /\ stack # <<>> /\ Len(stack) \in Nat
        /\ Head(stack) \in Frames /\ Head(stack) = stack[1] /\ 1 \in 1 .. Len(stack)
        /\ Tail(stack) \in Seq(Frames) /\ Len(Tail(stack)) = Len(stack) - 1
        /\ Len(stack) # 1 => Tail(stack) # <<>>
    BY <1>0, <2>1, Pop DEF TypeOK, Idle
  <2>3. t \in Tokens /\ (~byLoop => slot[t] \in {"lazy", "eager"})
    BY <2>1, <2>2, StoresHeld DEF Frames
  <2>4. byLoop => t = turn /\ turn \in eager /\ main = "evaluating"
    BY <1>0, <2>2 DEF TypeInv, LoopOK, BottomOK
  <2>5. /\ stack' = <<>> <=> caller' = Nobody
        /\ caller' = AUser => main' = "done"
    <3>1. caller # Nobody /\ (caller = AUser => main = "done" /\ ~byLoop)
      BY <1>0, <1>a, <2>1 DEF InFlightInv
    <3>2. Len(stack) = 1 => Tail(stack) = <<>>
      <4>1. Len(stack) = 1 => Len(Tail(stack)) = 0
        BY <2>2
      <4> QED BY <2>2, <4>1, EmptySeq
    <3>3. stack' = <<>> <=> Len(stack) = 1
      BY <2>1, <2>2, <3>2
    <3> QED BY <1>a, <2>1, <3>1, <3>3
  <2> HIDE DEF t, byLoop
  <2>6. \A u \in Tokens : u # t => slot'[u] = slot[u] /\ made'[u] = made[u]
    BY <1>0, <2>1, <2>3 DEF TypeOK
  <2>7. made'[t] = made[t] + 1 /\ made[t] \in Nat
    BY <1>0, <2>1, <2>3 DEF TypeOK
  <2>8. CASE byLoop
    <3>1. \A u \in Tokens : slot[u] = "eager" => made[u] = 0
      BY <1>0, <2>4, <2>8 DEF InFlightInv
    <3>2. made[t] <= 1 /\ slot[t] # "lazy" /\ caller = TheLoop
      BY <1>0, <2>3, <2>4, <2>8 DEF InFlightInv, TypeInv, EntriesOK, byLoop
    <3>3. slot' = slot /\ main' = "awaiting" /\ yields' = yields
      BY <1>a, <2>1, <2>8 DEF bindings
    <3>4. InFlightInv'
      BY <1>0, <2>1, <2>3, <2>4, <2>5, <2>6, <2>7, <2>8, <3>1, <3>3 DEF InFlightInv, Idle
    <3>5. made[t] > 0 => made[t] = 1 /\ slot[t] \in {"promise", yields[t]}
      BY <1>0, <2>3, <2>7, <3>1, <3>2 DEF InFlightInv
    <3> QED BY <2>4, <2>6, <2>8, <3>2, <3>4, <3>5
  <2>9. CASE ~byLoop
    <3>1. slot'[t] # "eager" /\ slot'[t] \in {"promise", yields[t]}
      <4>1. t \notin async => yields[t] \in {"value", "void"}
        BY <1>0, <2>1, <2>3 DEF TypeOK
      <4> QED BY <1>0, <2>1, <2>3, <2>9, <4>1 DEF TypeOK
    <3>2. ASSUME made[t] > 0
          PROVE  made[t] = 1 /\ t \in eager /\ turn = t /\ main \in {"awaiting", "rejected"}
                 /\ slot[t] = "eager"
      <4>1. slot[t] = "eager" /\ made[t] # 0
        BY <2>3, <2>9, <3>2 DEF LazyInv
      <4> QED BY <1>0, <2>3, <4>1 DEF InFlightInv, TypeInv, EntriesOK
    <3>3. main \in {"starting", "evaluating"} => made'[turn] <= 1
      <4>1. SUFFICES ASSUME main \in {"starting", "evaluating"} PROVE made'[turn] <= 1
        OBVIOUS
      <4>2. turn \in Tokens
        BY <1>0, <4>1 DEF TypeInv, TypeOK, LoopOK
      <4>3. turn = t => made[t] = 0
        BY <2>7, <3>2, <4>1
      <4> QED BY <1>0, <2>6, <2>7, <4>1, <4>2, <4>3 DEF InFlightInv
    <3>4. InFlightInv'
      <4>1. main' = main /\ yields' = yields /\ turn' = turn
        BY <1>a, <2>1, <2>9 DEF bindings
      <4>2. (Idle <=> caller = Nobody)' /\ (caller = AUser => main = "done")'
        BY <2>5 DEF Idle
      <4>3. \A u \in Tokens : slot'[u] = "eager" /\ made'[u] # 0 =>
               made'[u] = 1 /\ turn = u /\ main \in {"awaiting", "rejected"}
        BY <1>0, <2>6, <3>1 DEF InFlightInv
      <4>4. \A u \in Tokens : slot'[u] \in {"lazy", "eager", "promise", yields[u]}
        BY <1>0, <2>6, <3>1 DEF InFlightInv
      <4> QED BY <3>3, <4>1, <4>2, <4>3, <4>4 DEF InFlightInv
    <3>5. main \in {"awaiting", "rejected"} => caller.by = "late"
      BY <1>0, <2>1 DEF InFlightInv, TypeInv, TypeOK, LoopOK
    <3> QED BY <2>6, <3>2, <3>4, <3>5
  <2> QED BY <2>8, <2>9
<1> QED BY <1>3, <1>4, <1>5, <1>6, <1>7, <1>8, <1>9, <1>10, <1>11, <1>12 DEF Next

\* A second instance of a dependency, and never a third, is only made of the eager
\* one in its turn: for an async factory that outlived its own turn, while resolve()
\* awaits the first or was rejected by it, or by resolve() itself, when such a factory
\* asked for it between the look at its entry and the evaluation.
THEOREM SecondInstancesAreInFlight == Spec => SecondInstanceOnlyInFlight
<1>1. Init => InFlightInv
  BY ContextAssumption DEF Init, InFlightInv, Idle, Nobody, AUser, Tokens, TypeOK
<1>2. LazyInv /\ InFlightInv /\ [Next]_vars => InFlightInv'
  BY InFlightStep
<1>3. LazyInv /\ InFlightInv /\ [Next]_vars =>
        [/\ main = "loop" /\ main' = "starting" => made[turn] = 0
         /\ \A t \in Tokens : made[t] > 0 /\ made'[t] # made[t] =>
               /\ made[t] = 1
               /\ t \in eager /\ turn = t
               /\ \/ main \in {"awaiting", "rejected"} /\ caller.by = "late" /\ slot[t] = "eager"
                  \/ main = "evaluating" /\ caller = TheLoop /\ slot[t] \in {"promise", yields[t]}]_vars
  BY InFlightStep
<1> QED BY <1>1, <1>2, <1>3, LazyInvariance, PTL DEF Spec, SecondInstanceOnlyInFlight


------------------------------------------------------------------------------
(* DerivedContext, for two containers of any size.                             *)

Bound == [tok : ContextTokens, eager : BOOLEAN, asks : SUBSET ContextTokens]

\* A list of bindings as it is registered: a token once, the logger first.
Distinct(list) == \A i, j \in DOMAIN list : list[i].tok = list[j].tok => i = j
LoggerAlone(list) == \A i \in DOMAIN list : list[i].tok = "logger" => list[i].asks = {}
Listed(list) ==
    /\ list \in Seq(Bound) /\ Len(list) >= 1
    /\ Distinct(list) /\ LoggerAlone(list)
    /\ list[1].tok = "logger"

\* Registration keeps the bindings and adds at most a logger, which comes first (registerAll).
LEMMA RegisteredIsListed ==
    ASSUME NEW list \in Seq(Bound), Distinct(list), LoggerAlone(list), "logger" \in ContextTokens
    PROVE  /\ Listed(Registered(list))
           /\ \A j \in DOMAIN list : \E i \in DOMAIN Registered(list) : Registered(list)[i] = list[j]
           /\ \A i \in DOMAIN Registered(list) :
                 \/ \E j \in DOMAIN list : Registered(list)[i] = list[j]
                 \/ Registered(list)[i].tok = "logger"
<1> DEFINE standard == [tok |-> "logger", eager |-> FALSE, asks |-> {}]
           own == {i \in DOMAIN list : list[i].tok = "logger"}
           place == CHOOSE i \in own : TRUE
<1>1. Len(list) \in Nat /\ DOMAIN list = 1 .. Len(list) /\ \A i \in 1 .. Len(list) : list[i] \in Bound
  OBVIOUS
<1>2. standard \in Bound /\ standard.tok = "logger" /\ standard.asks = {}
  BY DEF Bound
<1>3. CASE own = {}
  <2>1. Registered(list) = <<standard>> \o list
    BY <1>3 DEF Registered
  <2> HIDE DEF standard
  <2> DEFINE r == <<standard>> \o list
  <2>2. /\ r \in Seq(Bound) /\ Len(r) = Len(list) + 1 /\ r[1] = standard
        /\ \A i \in 2 .. Len(list) + 1 : r[i] = list[i - 1]
    BY <1>2, Push
  <2> HIDE DEF r
  <2>3. DOMAIN r = 1 .. Len(list) + 1
    BY <2>2
  <2>4. \A i \in 1 .. Len(list) : list[i].tok # "logger"
    BY <1>1, <1>3
  <2>5. \A i \in DOMAIN r : i = 1 \/ (i \in 2 .. Len(list) + 1 /\ i - 1 \in 1 .. Len(list))
    BY <1>1, <2>3
  <2>6. Distinct(r)
    <3> SUFFICES ASSUME NEW i \in DOMAIN r, NEW j \in DOMAIN r, r[i].tok = r[j].tok PROVE i = j
      BY DEF Distinct
    <3>1. CASE i = 1 \/ j = 1
      BY <1>2, <2>2, <2>4, <2>5, <3>1
    <3>2. CASE i # 1 /\ j # 1
      <4>1. list[i - 1].tok = list[j - 1].tok /\ i - 1 \in DOMAIN list /\ j - 1 \in DOMAIN list
        BY <1>1, <2>2, <2>5, <3>2
      <4>2. i - 1 = j - 1 /\ i \in Nat /\ j \in Nat
        BY <1>1, <2>3, <4>1 DEF Distinct
      <4> QED BY <4>2
    <3> QED BY <3>1, <3>2
  <2>7. LoggerAlone(r)
    BY <1>2, <2>2, <2>4, <2>5 DEF LoggerAlone
  <2>8. \A j \in DOMAIN list : j + 1 \in DOMAIN r /\ r[j + 1] = list[j]
    BY <1>1, <2>2, <2>3
  <2>9. \A i \in DOMAIN r : (\E j \in DOMAIN list : r[i] = list[j]) \/ r[i].tok = "logger"
    BY <1>1, <1>2, <2>2, <2>5
  <2>10. Len(r) >= 1 /\ r[1].tok = "logger"
    BY <1>1, <1>2, <2>2
  <2>11. Registered(list) = r
    BY <2>1 DEF r
  <2> QED BY <2>2, <2>6, <2>7, <2>8, <2>9, <2>10, <2>11 DEF Listed
<1>4. CASE own # {}
  <2> DEFINE r == [i \in DOMAIN list |-> IF i = 1 THEN list[place] ELSE IF i <= place THEN list[i - 1] ELSE list[i]]
  <2>1. Registered(list) = r
    BY <1>4 DEF Registered
  <2>2. place \in own
    BY <1>4
  <2> HIDE DEF place
  <2>3. place \in 1 .. Len(list) /\ list[place].tok = "logger"
    BY <1>1, <2>2
  <2>4. /\ r \in [1 .. Len(list) -> Bound]
        /\ r[1] = list[place]
        /\ \A i \in 2 .. Len(list) : r[i] = IF i <= place THEN list[i - 1] ELSE list[i]
    BY <1>1, <2>3
  <2> HIDE DEF r
  <2>5. r \in Seq(Bound) /\ Len(r) = Len(list) /\ DOMAIN r = 1 .. Len(list)
    BY <1>1, <2>4
  <2> DEFINE from(i) == IF i = 1 THEN place ELSE IF i <= place THEN i - 1 ELSE i
  <2>6. \A i \in 1 .. Len(list) : from(i) \in 1 .. Len(list) /\ r[i] = list[from(i)]
    BY <1>1, <2>3, <2>4
  <2>7. \A i, j \in 1 .. Len(list) : from(i) = from(j) => i = j
    BY <1>1, <2>3
  <2>8. \A j \in 1 .. Len(list) : \E i \in 1 .. Len(list) : from(i) = j
    <3> SUFFICES ASSUME NEW j \in 1 .. Len(list) PROVE \E i \in 1 .. Len(list) : from(i) = j
      OBVIOUS
    <3>1. CASE j = place
      BY <1>1, <2>3, <3>1
    <3>2. CASE j < place
      <4>1. j + 1 \in 1 .. Len(list) /\ from(j + 1) = j
        BY <1>1, <2>3, <3>2
      <4> QED BY <4>1
    <3>3. CASE j > place
      <4>1. from(j) = j
        BY <1>1, <2>3, <3>3
      <4> QED BY <4>1
    <3> QED BY <1>1, <2>3, <3>1, <3>2, <3>3
  <2> HIDE DEF from
  <2>9. Distinct(r)
    BY <1>1, <2>5, <2>6, <2>7 DEF Distinct
  <2>10. LoggerAlone(r)
    BY <1>1, <2>5, <2>6 DEF LoggerAlone
  <2>11. Len(r) >= 1 /\ r[1].tok = "logger"
    BY <1>1, <2>3, <2>4, <2>5
  <2>12. \A j \in DOMAIN list : \E i \in DOMAIN r : r[i] = list[j]
    BY <1>1, <2>5, <2>6, <2>8
  <2>13. \A i \in DOMAIN r : \E j \in DOMAIN list : r[i] = list[j]
    BY <1>1, <2>5, <2>6
  <2> QED BY <2>1, <2>5, <2>9, <2>10, <2>11, <2>12, <2>13 DEF Listed
<1> QED BY <1>3, <1>4


\* Numbers of tokens that descend along the asks of a context.
Ranks(c, rank) ==
    /\ rank \in [ContextTokens -> Nat]
    /\ \A t \in ContextTokens : \A u \in Asks(c, t) : rank[u] < rank[t]

OrderOK ==
    /\ DOMAIN order = Contexts
    /\ \A c \in Contexts : Listed(order[c]) /\ \E rank : Ranks(c, rank)
    /\ ~Binds(order["outer"], "derived")
    /\ Binds(order["inner"], "derived") /\ Asks("inner", "derived") = {}
    /\ ~Binds(order["inner"], "bus")
    /\ ByBus => EagerlyBound(order["inner"], "client")
    /\ listener \subseteq ContextTokens

\* The place of a token in a list.
LEMMA Placed ==
    ASSUME NEW list, Listed(list)
    PROVE  /\ DOMAIN list = 1 .. Len(list) /\ Len(list) \in Nat
           /\ \A i \in DOMAIN list :
                 /\ list[i] \in Bound /\ list[i].tok \in ContextTokens
                 /\ list[i].eager \in BOOLEAN /\ list[i].asks \in SUBSET ContextTokens
                 /\ Binds(list, list[i].tok)
                 /\ Position(list, list[i].tok) = i
                 /\ EagerlyBound(list, list[i].tok) <=> list[i].eager
           /\ \A t : Binds(list, t) => Position(list, t) \in DOMAIN list /\ list[Position(list, t)].tok = t
<1>1. /\ DOMAIN list = 1 .. Len(list) /\ Len(list) \in Nat
      /\ \A i \in DOMAIN list : list[i] \in Bound
  BY DEF Listed
<1>2. ASSUME NEW t, Binds(list, t)
      PROVE  Position(list, t) \in DOMAIN list /\ list[Position(list, t)].tok = t
  BY <1>2 DEF Binds, Position
<1>3. ASSUME NEW i \in DOMAIN list
      PROVE  Binds(list, list[i].tok) /\ Position(list, list[i].tok) = i
  <2>1. Binds(list, list[i].tok)
    BY DEF Binds
  <2> QED BY <2>1, <1>2 DEF Listed, Distinct
<1>4. \A i \in DOMAIN list : /\ list[i].tok \in ContextTokens
                             /\ list[i].eager \in BOOLEAN /\ list[i].asks \in SUBSET ContextTokens
  BY <1>1 DEF Bound
<1> QED BY <1>1, <1>2, <1>3, <1>4 DEF EagerlyBound

\* What a token asks for is what its binding asks for.
LEMMA AsksOf ==
    ASSUME NEW c, Listed(order[c]), NEW t
    PROVE  /\ Binds(order[c], t) => Asks(c, t) = order[c][Position(order[c], t)].asks
           /\ ~Binds(order[c], t) => Asks(c, t) = {}
           /\ Asks(c, t) \subseteq ContextTokens
           /\ Asks(c, "logger") = {}
<1> DEFINE list == order[c]
<1>1. /\ DOMAIN list = 1 .. Len(list) /\ Len(list) \in Nat
      /\ \A i \in DOMAIN list : list[i].asks \in SUBSET ContextTokens
      /\ \A s : Binds(list, s) => Position(list, s) \in DOMAIN list /\ list[Position(list, s)].tok = s
      /\ \A i \in DOMAIN list : Position(list, list[i].tok) = i
  BY Placed
<1>2. Asks(c, t) = UNION {b.asks : b \in {list[i] : i \in {j \in DOMAIN list : list[j].tok = t}}}
  BY DEF Asks, Bindings
<1> HIDE DEF list
<1>3. ASSUME Binds(list, t) PROVE Asks(c, t) = list[Position(list, t)].asks
  <2>1. {j \in DOMAIN list : list[j].tok = t} = {Position(list, t)}
    BY <1>1, <1>3
  <2>2. {list[i] : i \in {j \in DOMAIN list : list[j].tok = t}} = {list[Position(list, t)]}
    BY <2>1
  <2> QED BY <1>2, <2>2
<1>4. ASSUME ~Binds(list, t) PROVE Asks(c, t) = {}
  <2>1. {j \in DOMAIN list : list[j].tok = t} = {}
    BY <1>4 DEF Binds
  <2> QED BY <1>2, <2>1
<1>5. Asks(c, t) \subseteq ContextTokens
  BY <1>1, <1>3, <1>4
<1>6. Asks(c, "logger") = {}
  <2>1. \A i \in DOMAIN list : list[i].tok = "logger" => list[i].asks = {}
    BY DEF Listed, LoggerAlone, list
  <2>2. Asks(c, "logger") = UNION {b.asks : b \in {list[i] : i \in {j \in DOMAIN list : list[j].tok = "logger"}}}
    BY DEF Asks, Bindings, list
  <2> QED BY <2>1, <2>2
<1> QED BY <1>3, <1>4, <1>5, <1>6 DEF list

\* What a list of bindings is given as a map.
LEMMA UnresolvedIs ==
    ASSUME NEW c, Listed(order[c])
    PROVE  /\ DOMAIN Unresolved(c) = ContextTokens
           /\ \A t \in ContextTokens :
                 Unresolved(c)[t] = IF ~Binds(order[c], t) THEN Absent
                                    ELSE IF EagerlyBound(order[c], t) THEN Eager ELSE Lazy
<1> DEFINE list == order[c]
<1>1. DOMAIN Unresolved(c) = ContextTokens
  BY DEF Unresolved
<1>2. ASSUME NEW t \in ContextTokens
      PROVE  /\ Bindings(c, t) = {} <=> ~Binds(order[c], t)
             /\ Binds(order[c], t) => ((\E b \in Bindings(c, t) : b.eager) <=> EagerlyBound(order[c], t))
  <2>1. /\ \A s : Binds(list, s) => Position(list, s) \in DOMAIN list /\ list[Position(list, s)].tok = s
        /\ \A i \in DOMAIN list : Position(list, list[i].tok) = i
    BY Placed
  <2>2. Bindings(c, t) = {list[i] : i \in {j \in DOMAIN list : list[j].tok = t}}
    BY DEF Bindings
  <2> HIDE DEF list
  <2>3. Bindings(c, t) = {} <=> ~Binds(list, t)
    BY <2>2 DEF Binds
  <2>4. ASSUME Binds(list, t) PROVE Bindings(c, t) = {list[Position(list, t)]}
    <3>1. {j \in DOMAIN list : list[j].tok = t} = {Position(list, t)}
      BY <2>1, <2>4
    <3> QED BY <2>2, <3>1
  <2> QED BY <2>3, <2>4 DEF EagerlyBound, list
<1>3. ASSUME NEW t \in ContextTokens
      PROVE Unresolved(c)[t] = IF ~Binds(order[c], t) THEN Absent
                                    ELSE IF EagerlyBound(order[c], t) THEN Eager ELSE Lazy
  <2>1. Unresolved(c)[t] = CASE Bindings(c, t) = {} -> Absent
                               [] \E b \in Bindings(c, t) : b.eager -> Eager
                               [] OTHER -> Lazy
    BY DEF Unresolved
  <2>2. CASE Bindings(c, t) = {}
    <3>1. ~\E b \in Bindings(c, t) : b.eager
      BY <2>2
    <3> QED BY <1>2, <2>1, <2>2, <3>1
  <2>3. CASE Bindings(c, t) # {}
    BY <1>2, <2>1, <2>3
  <2> QED BY <2>2, <2>3
<1> QED BY <1>1, <1>3

\* A context that is given a list without a cycle has a ranking.
LEMMA GivenRanks ==
    ASSUME NEW c, NEW list, Registrable(list), order[c] = Registered(list), "logger" \in ContextTokens
    PROVE  Listed(order[c]) /\ \E rank : Ranks(c, rank)
<1>1. list \in Seq(Bound) /\ Distinct(list) /\ LoggerAlone(list)
  BY DEF Registrable, Bound, Distinct, LoggerAlone
<1>2. PICK of \in [DOMAIN list -> DOMAIN list] :
          \A i, j \in DOMAIN list : list[j].tok \in list[i].asks => of[j] < of[i]
  BY DEF Registrable
<1>3. /\ Listed(order[c])
      /\ \A i \in DOMAIN order[c] : (\E j \in DOMAIN list : order[c][i] = list[j]) \/ order[c][i].tok = "logger"
  BY <1>1, RegisteredIsListed
<1> DEFINE rank == [t \in ContextTokens |-> IF Binds(list, t) THEN of[Position(list, t)] ELSE 0]
<1>4. /\ DOMAIN list = 1 .. Len(list) /\ Len(list) \in Nat
      /\ \A i \in DOMAIN list : Binds(list, list[i].tok) /\ Position(list, list[i].tok) = i
      /\ \A t : Binds(list, t) => Position(list, t) \in DOMAIN list /\ list[Position(list, t)].tok = t
  <2>1. DOMAIN list = 1 .. Len(list) /\ Len(list) \in Nat
    BY <1>1
  <2>2. \A t : Binds(list, t) => Position(list, t) \in DOMAIN list /\ list[Position(list, t)].tok = t
    <3> SUFFICES ASSUME NEW t, Binds(list, t)
                 PROVE Position(list, t) \in DOMAIN list /\ list[Position(list, t)].tok = t
      OBVIOUS
    <3> QED BY DEF Binds, Position
  <2>3. \A i \in DOMAIN list : Binds(list, list[i].tok) /\ Position(list, list[i].tok) = i
    BY <1>1, <2>2 DEF Distinct, Binds
  <2> QED BY <2>1, <2>2, <2>3
<1>5. /\ rank \in [ContextTokens -> Nat]
      /\ \A t \in ContextTokens : Binds(list, t) => rank[t] = of[Position(list, t)] /\ rank[t] > 0
      /\ \A t \in ContextTokens : ~Binds(list, t) => rank[t] = 0
  BY <1>2, <1>4
<1> HIDE DEF rank
<1>6. ASSUME NEW t \in ContextTokens, NEW u \in Asks(c, t) PROVE rank[u] < rank[t]
  <2>1. Binds(order[c], t) /\ u \in order[c][Position(order[c], t)].asks /\ u \in ContextTokens
    BY <1>3, <1>6, AsksOf
  <2>2. PICK i \in DOMAIN order[c] : i = Position(order[c], t) /\ order[c][i].tok = t
    BY <1>3, <2>1, Placed
  <2>3. order[c][i].asks # {} /\ u \in order[c][i].asks
    BY <2>1, <2>2
  <2>4. order[c][i].tok # "logger"
    BY <1>3, <2>3 DEF Listed, LoggerAlone
  <2>5. PICK j \in DOMAIN list : order[c][i] = list[j]
    BY <1>3, <2>4
  <2>6. list[j].tok = t /\ u \in list[j].asks /\ Binds(list, t) /\ Position(list, t) = j
    BY <1>4, <2>2, <2>3, <2>5
  <2>7. CASE Binds(list, u)
    <3>1. PICK k \in DOMAIN list : k = Position(list, u) /\ list[k].tok = u
      BY <1>4, <2>7
    <3>2. of[k] < of[j]
      BY <1>2, <2>6, <3>1
    <3> QED BY <1>5, <2>1, <2>6, <2>7, <3>1, <3>2
  <2>8. CASE ~Binds(list, u)
    BY <1>5, <2>1, <2>6, <2>8
  <2> QED BY <2>7, <2>8
<1>7. Ranks(c, rank)
  BY <1>5, <1>6 DEF Ranks
<1> QED BY <1>3, <1>7


\* Registration binds what the list binds, and a logger.
LEMMA RegisteredBinds ==
    ASSUME NEW list, Registrable(list), "logger" \in ContextTokens, NEW t, t # "logger"
    PROVE  Binds(Registered(list), t) <=> Binds(list, t)
<1>1. list \in Seq(Bound) /\ Distinct(list) /\ LoggerAlone(list)
  BY DEF Registrable, Bound, Distinct, LoggerAlone
<1>2. /\ \A j \in DOMAIN list : \E i \in DOMAIN Registered(list) : Registered(list)[i] = list[j]
      /\ \A i \in DOMAIN Registered(list) :
            (\E j \in DOMAIN list : Registered(list)[i] = list[j]) \/ Registered(list)[i].tok = "logger"
  BY <1>1, RegisteredIsListed
<1> QED BY <1>2 DEF Binds

\* The own bindings of an event bus are such a list.
LEMMA BusBindingsAre ==
    ASSUME {"logger", "derived", "client", "bus"} \subseteq ContextTokens
    PROVE  /\ Registrable(BusBindings)
           /\ BusBindings[1].tok = "derived" /\ BusBindings[1].asks = {} /\ 1 \in DOMAIN BusBindings
           /\ BusBindings[2].tok = "client" /\ BusBindings[2].eager /\ 2 \in DOMAIN BusBindings
           /\ ~Binds(BusBindings, "bus")
<1>1. DOMAIN BusBindings = {1, 2} /\ BusBindings \in Seq(Bound)
  BY DEF BusBindings, Bound
<1>2. /\ BusBindings[1].tok = "derived" /\ BusBindings[1].asks = {}
      /\ BusBindings[2].tok = "client" /\ BusBindings[2].asks = {} /\ BusBindings[2].eager
  BY DEF BusBindings
<1>3. \E rank \in [DOMAIN BusBindings -> DOMAIN BusBindings] :
          \A i, j \in DOMAIN BusBindings : BusBindings[j].tok \in BusBindings[i].asks => rank[j] < rank[i]
  <2>1. [i \in DOMAIN BusBindings |-> i] \in [DOMAIN BusBindings -> DOMAIN BusBindings]
    OBVIOUS
  <2>2. \A i \in DOMAIN BusBindings : BusBindings[i].asks = {}
    BY <1>1, <1>2
  <2> QED BY <2>1, <2>2
<1> QED BY <1>1, <1>2, <1>3 DEF Registrable, Bound, Binds

LEMMA OrderAtStart == DerivedInit => OrderOK
<1> SUFFICES ASSUME DerivedInit PROVE OrderOK
  OBVIOUS
<1>1. PICK s \in Scenarios :
          /\ order = [outer |-> Registered(s.outer),
                      inner |-> Registered(IF Binds(s.outer, "bus") THEN BusBindings ELSE s.inner)]
          /\ listener = s.listener
  BY DEF DerivedInit
<1> DEFINE inside == IF Binds(s.outer, "bus") THEN BusBindings ELSE s.inner
<1>2. {"logger", "derived", "client", "bus"} \subseteq ContextTokens
  BY DerivedAssumption
<1>3. Registrable(s.outer) /\ ~Binds(s.outer, "derived")
  BY DerivedAssumption
<1>4. order["outer"] = Registered(s.outer) /\ order["inner"] = Registered(inside) /\ DOMAIN order = Contexts
  BY <1>1 DEF Contexts
<1>5. ~Binds(s.outer, "bus") => /\ Registrable(s.inner) /\ ~Binds(s.inner, "bus")
                                /\ \E i \in DOMAIN s.inner : s.inner[i].tok = "derived" /\ s.inner[i].asks = {}
  BY DerivedAssumption
<1>6. /\ Registrable(inside) /\ ~Binds(inside, "bus")
      /\ \E i \in DOMAIN inside : inside[i].tok = "derived" /\ inside[i].asks = {}
  BY <1>2, <1>5, BusBindingsAre
<1>7. Binds(s.outer, "bus") => \E i \in DOMAIN inside : inside[i].tok = "client" /\ inside[i].eager
  BY <1>2, BusBindingsAre
<1> HIDE DEF inside
<1>8. \A c \in Contexts : Listed(order[c]) /\ \E rank : Ranks(c, rank)
  <2> SUFFICES ASSUME NEW c \in Contexts PROVE Listed(order[c]) /\ \E rank : Ranks(c, rank)
    OBVIOUS
  <2>1. PICK list : list = IF c = "outer" THEN s.outer ELSE inside
    OBVIOUS
  <2>2. Registrable(list) /\ order[c] = Registered(list)
    BY <1>3, <1>4, <1>6, <2>1 DEF Contexts
  <2> QED BY <1>2, <2>2, GivenRanks
<1>9. \A j \in DOMAIN inside : \E i \in DOMAIN order["inner"] : order["inner"][i] = inside[j]
  <2>1. inside \in Seq(Bound) /\ Distinct(inside) /\ LoggerAlone(inside)
    BY <1>6 DEF Registrable, Bound, Distinct, LoggerAlone
  <2> QED BY <1>2, <1>4, <2>1, RegisteredIsListed
<1>10. /\ ~Binds(order["outer"], "derived") /\ Binds(order["inner"], "derived")
       /\ ~Binds(order["inner"], "bus")
       /\ Binds(order["outer"], "bus") => Binds(s.outer, "bus")
  <2>1. Binds(inside, "derived")
    BY <1>6 DEF Binds
  <2> QED BY <1>2, <1>3, <1>4, <1>6, <2>1, RegisteredBinds
<1>11. Listed(order["inner"]) /\ "inner" \in Contexts
  BY <1>8 DEF Contexts
<1>12. Asks("inner", "derived") = {}
  <2>1. PICK j \in DOMAIN inside : inside[j].tok = "derived" /\ inside[j].asks = {}
    BY <1>6
  <2>2. PICK i \in DOMAIN order["inner"] : order["inner"][i] = inside[j]
    BY <1>9
  <2>3. Position(order["inner"], "derived") = i
    BY <1>11, <2>1, <2>2, Placed
  <2> QED BY <1>10, <1>11, <2>1, <2>2, <2>3, AsksOf
<1>13. Binds(order["outer"], "bus") => EagerlyBound(order["inner"], "client")
  <2> SUFFICES ASSUME Binds(order["outer"], "bus") PROVE EagerlyBound(order["inner"], "client")
    OBVIOUS
  <2>1. PICK j \in DOMAIN inside : inside[j].tok = "client" /\ inside[j].eager
    BY <1>7, <1>10
  <2>2. PICK i \in DOMAIN order["inner"] : order["inner"][i] = inside[j]
    BY <1>9
  <2> QED BY <1>11, <2>1, <2>2, Placed
<1>14. listener \subseteq ContextTokens
  BY <1>1, DerivedAssumption
<1>15. ByBus => Binds(order["outer"], "bus")
  BY DEF ByBus
<1> QED BY <1>4, <1>8, <1>10, <1>12, <1>13, <1>14, <1>15 DEF OrderOK


\* The contents of an entry are told apart.
LEMMA Values ==
    /\ Lazy # Eager
    /\ \A x \in {Lazy, Eager} : x \notin {Absent, Void, Promise, Client, Failure}
    /\ Absent \notin {Void, Promise, Client, Failure}
    /\ Void \notin {Promise, Client, Failure} /\ Promise \notin {Client, Failure} /\ Client # Failure
    /\ \A c, n : Instance(c, n) \notin {Absent, Lazy, Eager, Void, Promise, Client, Failure}
    /\ \A c, d, m, n : Instance(c, m) = Instance(d, n) <=> c = d /\ m = n
BY DEF Absent, Lazy, Eager, Void, Promise, Client, Failure, Instance

\* The binding a resolve is at, what has not been evaluated, and what a resolve awaits.
Turn(c) == order[c][cursor[c]].tok
Unmade == {Lazy, Eager}
Awaited(c, t) == phase[c] = "awaiting" /\ Turn(c) = t

Evaluations == [for : Contexts, in : Contexts, tok : ContextTokens \cup {"listener"}, todo : SUBSET ContextTokens]
Phases == {"none", "loop", "evaluating", "awaiting", "settling", "done", "rejected"}

DerivedTypes ==
    /\ DOMAIN entries = Contexts /\ \A c \in Contexts : DOMAIN entries[c] = ContextTokens
    /\ built \in [Contexts -> [ContextTokens -> Nat]]
    /\ cursor \in [Contexts -> Nat] /\ \A c \in Contexts : cursor[c] \in 1 .. Len(order[c]) + 1
    /\ phase \in [Contexts -> Phases]
    /\ calls \in Seq(Evaluations)
    /\ origin \in {"nobody", "outer", "inner", "bus", "user"}
    /\ bus \in {"none", "making", "constructing", "attaching", "up", "failed"}

\* Where a resolve is, and that it leaves nothing eager behind it unevaluated.
TurnOK(c) ==
    /\ phase[c] \in {"evaluating", "awaiting"} => cursor[c] \in DOMAIN order[c] /\ order[c][cursor[c]].eager
    /\ phase[c] \in {"settling", "done"} => cursor[c] > Len(order[c])
    /\ phase[c] = "evaluating" <=> origin = c
    /\ \A i \in DOMAIN order[c] :
          i < cursor[c] /\ order[c][i].eager => entries[c][order[c][i].tok] \notin Unmade

\* An evaluation is of what the context it looks into binds and has not evaluated; it goes
\* to the outer one for what the inner one does not bind. Nothing runs in the inner context
\* but for its resolve, or when it is resolved.
EvaluationOK(f, by) ==
    /\ f.tok # "listener" =>
          /\ Binds(order[f.in], f.tok) /\ entries[f.in][f.tok] \in Unmade
          /\ f.todo \subseteq Asks(f.in, f.tok)
    /\ f.for = "outer" => f.in = "outer"
    /\ f.for = "inner" /\ f.in = "outer" => ~Binds(order["inner"], f.tok)
    /\ f.for = "inner" => by = "inner" \/ phase["inner"] = "done"
    /\ f.tok = "listener" => f.for = "inner" /\ f.in = "inner" /\ by = "bus"

\* Evaluations descend along every ranking, and never come back from the outer context.
Descends(s, c, rank) ==
    \A i, j \in 1 .. Len(s) :
        i < j /\ s[i].in = c /\ s[j].in = c /\ s[j].tok # "listener" => rank[s[i].tok] < rank[s[j].tok]

EvaluationsOK(s, by) ==
    /\ s \in Seq(Evaluations)
    /\ \A i \in 1 .. Len(s) : EvaluationOK(s[i], by) /\ (s[i].tok = "listener" => i = Len(s))
    /\ \A i, j \in 1 .. Len(s) : i < j /\ s[j].in = "outer" => s[i].for = "outer"
    /\ \A c \in Contexts : \A rank : Ranks(c, rank) => Descends(s, c, rank)

\* Those of a resolve begin with the binding it is at.
FirstOK(s, by) ==
    s # <<>> /\ by \in Contexts =>
        /\ s[Len(s)].for = by /\ s[Len(s)].in = by /\ s[Len(s)].tok = Turn(by)
        /\ Asks(by, Turn(by)) = {} => Len(s) = 1

CallsOK ==
    /\ EvaluationsOK(calls, origin) /\ FirstOK(calls, origin)
    /\ calls = <<>> <=> origin = "nobody"
    /\ origin = "user" => phase["outer"] = "done" \/ phase["inner"] = "done"
    /\ origin = "bus" => phase["inner"] = "done" /\ bus # "none"

\* The order does not change, nor what depends on it only.
LEMMA OrderStays ==
    ASSUME [DerivedNext]_derivedVars
    PROVE  order' = order /\ listener' = listener
<1>1. CASE UNCHANGED derivedVars
  BY <1>1 DEF derivedVars
<1>2. CASE DerivedNext
  BY <1>2 DEF DerivedNext, FactoryReturns, Construct, BusConstructs, BusListens, ListenerRaises,
              FactoryAsks, ResolveStep, ResolveResumes, Settle, UserAsks
<1> QED BY <1>1, <1>2

LEMMA Static ==
    ASSUME order' = order, listener' = listener
    PROVE  /\ \A c, t : Asks(c, t)' = Asks(c, t)
           /\ \A c : Unresolved(c)' = Unresolved(c)
           /\ \A c, rank : Ranks(c, rank)' <=> Ranks(c, rank)
           /\ ByBus' <=> ByBus
           /\ WellOrdered' <=> WellOrdered
           /\ OrderOK' <=> OrderOK
<1>1. \A c, t : Bindings(c, t)' = Bindings(c, t)
  BY DEF Bindings
<1>2. \A c, t : Asks(c, t)' = Asks(c, t)
  BY <1>1 DEF Asks
<1>3. \A c : Unresolved(c)' = Unresolved(c)
  BY <1>1 DEF Unresolved
<1>4. \A c, rank : Ranks(c, rank)' <=> Ranks(c, rank)
  BY <1>2 DEF Ranks
<1>5. ByBus' <=> ByBus
  BY DEF ByBus
<1>6. WellOrdered' <=> WellOrdered
  BY DEF WellOrdered
<1>7. OrderOK' <=> OrderOK
  BY <1>2, <1>4, <1>5 DEF OrderOK
<1> QED BY <1>2, <1>3, <1>4, <1>5, <1>6, <1>7

\* An evaluation on top of others.
LEMMA OneMore ==
    ASSUME OrderOK, NEW s, NEW by, EvaluationsOK(s, by),
           NEW f \in Evaluations, f.tok # "listener", EvaluationOK(f, by),
           s # <<>> => /\ s[1].in = f.for
                       /\ s[1].in = f.in /\ s[1].tok # "listener" => f.tok \in Asks(f.in, s[1].tok)
    PROVE  EvaluationsOK(<<f>> \o s, by)
<1> DEFINE q == <<f>> \o s
<1>1. s \in Seq(Evaluations) /\ Len(s) \in Nat
  BY DEF EvaluationsOK
<1>2. /\ q \in Seq(Evaluations) /\ Len(q) = Len(s) + 1 /\ q[1] = f
      /\ \A i \in 2 .. Len(s) + 1 : q[i] = s[i - 1]
  BY <1>1, Push
<1> HIDE DEF q
<1>3. \A i \in 1 .. Len(q) : i = 1 \/ (i \in 2 .. Len(s) + 1 /\ i - 1 \in 1 .. Len(s) /\ q[i] = s[i - 1])
  BY <1>1, <1>2
<1>4. \A i \in 1 .. Len(s) : s[i] \in Evaluations /\ EvaluationOK(s[i], by)
  BY <1>1 DEF EvaluationsOK
<1>5. \A i \in 1 .. Len(q) : EvaluationOK(q[i], by) /\ (q[i].tok = "listener" => i = Len(q))
  BY <1>1, <1>2, <1>3 DEF EvaluationsOK
<1>6. ASSUME NEW i \in 1 .. Len(s), s[i].in = "outer" PROVE s[1].for = "outer" \/ i = 1
  BY <1>1, <1>6 DEF EvaluationsOK
<1>7. ASSUME NEW i \in 1 .. Len(s), s[i].in = "outer" PROVE s[1].in = "outer" /\ f.for = "outer" /\ f.in = "outer"
  <2>1. 1 \in 1 .. Len(s) /\ s # <<>>
    BY <1>1
  <2>2. s[1].in = "outer"
    BY <1>4, <1>6, <1>7, <2>1 DEF EvaluationOK
  <2> QED BY <2>1, <2>2 DEF EvaluationOK
<1>8. \A i, j \in 1 .. Len(q) : i < j /\ q[j].in = "outer" => q[i].for = "outer"
  <2> SUFFICES ASSUME NEW i \in 1 .. Len(q), NEW j \in 1 .. Len(q), i < j, q[j].in = "outer"
               PROVE q[i].for = "outer"
    OBVIOUS
  <2>1. j - 1 \in 1 .. Len(s) /\ q[j] = s[j - 1]
    BY <1>1, <1>2, <1>3
  <2>2. CASE i = 1
    BY <1>2, <1>7, <2>1, <2>2
  <2>3. CASE i # 1
    <3>1. i - 1 \in 1 .. Len(s) /\ q[i] = s[i - 1] /\ i - 1 < j - 1
      BY <1>1, <1>2, <1>3, <2>3
    <3> QED BY <2>1, <3>1 DEF EvaluationsOK
  <2> QED BY <2>2, <2>3
<1>9. ASSUME NEW c \in Contexts, NEW rank, Ranks(c, rank) PROVE Descends(q, c, rank)
  <2> SUFFICES ASSUME NEW i \in 1 .. Len(q), NEW j \in 1 .. Len(q), i < j, q[i].in = c, q[j].in = c,
                      q[j].tok # "listener"
               PROVE rank[q[i].tok] < rank[q[j].tok]
    BY DEF Descends
  <2>1. j - 1 \in 1 .. Len(s) /\ q[j] = s[j - 1] /\ s # <<>> /\ 1 \in 1 .. Len(s)
    BY <1>1, <1>2, <1>3
  <2>2. Descends(s, c, rank)
    BY <1>9 DEF EvaluationsOK
  <2>3. CASE i # 1
    <3>1. i - 1 \in 1 .. Len(s) /\ q[i] = s[i - 1] /\ i - 1 < j - 1
      BY <1>1, <1>2, <1>3, <2>3
    <3> QED BY <2>1, <2>2, <3>1 DEF Descends
  <2>4. CASE i = 1
    <3>1. f.in = c /\ q[i] = f
      BY <1>2, <2>4
    <3>2. s[1].in = c
      <4>1. CASE s[1].in = f.in
        BY <3>1, <4>1
      <4>2. CASE s[1].in # f.in
        <5>1. f.for # f.in /\ s[1].in = f.for
          BY <2>1, <4>2
        <5>2. f.for = "inner" /\ f.in = "outer"
          BY <5>1 DEF EvaluationOK, Evaluations, Contexts
        <5>3. s[j - 1].in = "outer"
          BY <2>1, <3>1, <5>2
        <5>4. s[1].in = "outer"
          BY <1>7, <2>1, <5>3
        <5> QED BY <5>1, <5>2, <5>4
      <4> QED BY <4>1, <4>2
    <3>3. s[1].tok # "listener"
      BY <1>1, <2>1 DEF EvaluationsOK
    <3>4. rank[f.tok] < rank[s[1].tok]
      <4>1. f.tok \in Asks(c, s[1].tok)
        BY <2>1, <3>1, <3>2, <3>3
      <4>2. s[1].tok \in ContextTokens
        BY <1>4, <2>1, <3>3 DEF Evaluations
      <4> QED BY <1>9, <4>1, <4>2 DEF Ranks
    <3>5. CASE j - 1 = 1
      BY <2>1, <3>1, <3>4, <3>5
    <3>6. CASE j - 1 # 1
      <4>1. rank[s[1].tok] < rank[s[j - 1].tok]
        <5>1. 1 < j - 1
          BY <1>1, <2>1, <3>6
        <5>2. s[j - 1].in = c /\ s[j - 1].tok # "listener"
          BY <2>1
        <5> QED BY <2>1, <2>2, <3>2, <5>1, <5>2 DEF Descends
      <4>2. f.tok \in ContextTokens /\ s[1].tok \in ContextTokens /\ s[j - 1].tok \in ContextTokens
        BY <1>4, <2>1, <3>3 DEF Evaluations
      <4>3. rank[f.tok] \in Nat /\ rank[s[1].tok] \in Nat /\ rank[s[j - 1].tok] \in Nat
        BY <1>9, <4>2 DEF Ranks
      <4> QED BY <2>1, <3>1, <3>4, <4>1, <4>3
    <3> QED BY <3>5, <3>6
  <2> QED BY <2>3, <2>4
<1> QED BY <1>2, <1>5, <1>8, <1>9 DEF EvaluationsOK, q

\* The same evaluations with less to ask for.
LEMMA LessToAsk ==
    ASSUME NEW s, NEW by, NEW q \in Seq(Evaluations), EvaluationsOK(s, by), Len(q) = Len(s),
           \A i \in 1 .. Len(s) : /\ q[i].for = s[i].for /\ q[i].in = s[i].in /\ q[i].tok = s[i].tok
                                  /\ q[i].todo \subseteq s[i].todo
    PROVE  EvaluationsOK(q, by) /\ (FirstOK(s, by) => FirstOK(q, by))
<1>1. s \in Seq(Evaluations) /\ Len(s) \in Nat
  BY DEF EvaluationsOK
<1>2. ASSUME NEW i \in 1 .. Len(q) PROVE EvaluationOK(q[i], by) /\ (q[i].tok = "listener" => i = Len(q))
  <2>1. EvaluationOK(s[i], by) /\ (s[i].tok = "listener" => i = Len(s))
    BY DEF EvaluationsOK
  <2>2. q[i].for = s[i].for /\ q[i].in = s[i].in /\ q[i].tok = s[i].tok /\ q[i].todo \subseteq s[i].todo
    OBVIOUS
  <2> QED BY <2>1, <2>2 DEF EvaluationOK
<1>3. \A i, j \in 1 .. Len(q) : i < j /\ q[j].in = "outer" => q[i].for = "outer"
  BY DEF EvaluationsOK
<1>4. ASSUME NEW c \in Contexts, NEW rank, Ranks(c, rank) PROVE Descends(q, c, rank)
  <2>1. Descends(s, c, rank)
    BY <1>4 DEF EvaluationsOK
  <2> QED BY <2>1 DEF Descends
<1>5. FirstOK(s, by) => FirstOK(q, by)
  <2> SUFFICES ASSUME FirstOK(s, by), q # <<>>, by \in Contexts
               PROVE  /\ q[Len(q)].for = by /\ q[Len(q)].in = by /\ q[Len(q)].tok = Turn(by)
                      /\ Asks(by, Turn(by)) = {} => Len(q) = 1
    BY DEF FirstOK
  <2>1. s # <<>> /\ Len(q) \in 1 .. Len(s)
    BY <1>1
  <2> QED BY <2>1 DEF FirstOK
<1> QED BY <1>2, <1>3, <1>4, <1>5 DEF EvaluationsOK

\* The evaluations below the innermost one.
LEMMA OneLess ==
    ASSUME NEW s, NEW by, EvaluationsOK(s, by), s # <<>>
    PROVE  EvaluationsOK(Tail(s), by) /\ (FirstOK(s, by) => FirstOK(Tail(s), by))
<1> DEFINE q == Tail(s)
<1>1. /\ s \in Seq(Evaluations) /\ q \in Seq(Evaluations) /\ Len(s) \in Nat /\ Len(q) = Len(s) - 1
      /\ \A i \in 1 .. Len(q) : q[i] = s[i + 1]
  <2>1. s \in Seq(Evaluations)
    BY DEF EvaluationsOK
  <2> QED BY <2>1, Pop
<1> HIDE DEF q
<1>2. \A i \in 1 .. Len(q) : i + 1 \in 1 .. Len(s) /\ (i + 1 = Len(s) => i = Len(q))
  BY <1>1
<1>3. ASSUME NEW i \in 1 .. Len(q) PROVE EvaluationOK(q[i], by) /\ (q[i].tok = "listener" => i = Len(q))
  BY <1>1, <1>2 DEF EvaluationsOK
<1>4. \A i, j \in 1 .. Len(q) : i < j => i + 1 < j + 1
  BY <1>1
<1>5. \A i, j \in 1 .. Len(q) : i < j /\ q[j].in = "outer" => q[i].for = "outer"
  BY <1>1, <1>2, <1>4 DEF EvaluationsOK
<1>6. ASSUME NEW c \in Contexts, NEW rank, Ranks(c, rank) PROVE Descends(q, c, rank)
  <2>1. Descends(s, c, rank)
    BY <1>6 DEF EvaluationsOK
  <2> QED BY <1>1, <1>2, <1>4, <2>1 DEF Descends
<1>7. FirstOK(s, by) => FirstOK(q, by)
  <2> SUFFICES ASSUME FirstOK(s, by), q # <<>>, by \in Contexts
               PROVE  /\ q[Len(q)].for = by /\ q[Len(q)].in = by /\ q[Len(q)].tok = Turn(by)
                      /\ Asks(by, Turn(by)) = {} => Len(q) = 1
    BY DEF FirstOK
  <2>1. Len(q) \in 1 .. Len(q) /\ q[Len(q)] = s[Len(s)] /\ Len(s) # 1
    BY <1>1
  <2> QED BY <2>1 DEF FirstOK
<1> QED BY <1>1, <1>3, <1>5, <1>6, <1>7 DEF EvaluationsOK, q


\* What becomes of a binding. Two are made of the one that the outer resolve awaits if
\* somebody in the context of the bus asks for it meanwhile.
Made(c, t) ==
    CASE t = "derived" -> {Instance("outer", 0)}
      [] t = "client" -> IF c = "inner" THEN {Client} ELSE {Void, Client}
      [] t = "bus" -> {Promise, Instance("outer", 1)}
      [] OTHER -> {Instance(c, 1)}
Copies(c, t) == IF c = "outer" /\ ByBus /\ EagerlyBound(order[c], t) THEN 2 ELSE 1

ValueOK(c, t) ==
    \/ entries[c][t] = IF EagerlyBound(order[c], t) THEN Eager ELSE Lazy
    \/ entries[c][t] \in Made(c, t)
    \/ /\ entries[c][t] = Instance("outer", 2) /\ c = "outer" /\ ByBus /\ Awaited(c, t)
       /\ t \notin {"derived", "client", "bus"}
    \/ entries[c][t] = Absent /\ c = "inner" /\ t = "logger" /\ phase[c] = "done"

CountOK(c, t) ==
    /\ entries[c][t] \in Unmade /\ Awaited(c, t) => built[c][t] = 1
    /\ entries[c][t] \in Unmade /\ ~Awaited(c, t) =>
          \/ built[c][t] = 0
          \/ t = "bus" /\ phase[c] = "rejected" /\ EagerlyBound(order[c], t) /\ built[c][t] = 1
    /\ entries[c][t] \notin Unmade /\ Awaited(c, t) /\ t # "client" => built[c][t] = 2
    /\ built[c][t] <= Copies(c, t)

EntryOK(c, t) ==
    IF phase[c] = "none" \/ ~Binds(order[c], t)
    THEN entries[c][t] = Absent /\ built[c][t] = 0
    ELSE ValueOK(c, t) /\ CountOK(c, t)

\* When the contexts exist, and the event bus.
StagesOK ==
    /\ phase["outer"] # "none"
    /\ phase["inner"] = "none" => cursor["inner"] = 1
    /\ ~ByBus /\ phase["inner"] # "none" => phase["outer"] = "done"
    /\ cursor["outer"] = 1 => bus = "none" /\ phase["inner"] = "none"
    /\ bus # "none" => ByBus
    /\ bus \in {"constructing", "attaching", "up", "failed"} => phase["inner"] # "none"

\* A resolved inner context has given up its logger for that of the outer one.
LoggerOK ==
    phase["inner"] = "done" =>
        /\ entries["outer"]["logger"] = Instance("outer", 1)
        /\ entries["inner"]["derived"] = Instance("outer", 0)
        /\ entries["inner"]["logger"] = Absent

\* A bus that is not asked for too early is made in its turn, and has put its client in place
\* before the outer resolve goes on.
BusOK ==
    EagerlyBound(order["outer"], "bus") /\ (BusAwaited \/ WellOrdered) =>
        /\ phase["inner"] = "none" =>
              /\ cursor["outer"] <= Position(order["outer"], "bus") /\ entries["outer"]["bus"] = Eager
              /\ bus # "none" => Awaited("outer", "bus")
        /\ phase["inner"] # "none" =>
              /\ entries["outer"]["client"] \in {Absent, Client}
              /\ phase["outer"] \in {"evaluating", "awaiting"} => Turn("outer") # "client"

DerivedInv ==
    /\ OrderOK /\ DerivedTypes /\ StagesOK
    /\ \A c \in Contexts : TurnOK(c)
    /\ CallsOK
    /\ \A c \in Contexts : \A t \in ContextTokens : EntryOK(c, t)
    /\ LoggerOK /\ BusOK

\* No evaluations are in order.
LEMMA NoEvaluations == ASSUME NEW by PROVE EvaluationsOK(<<>>, by) /\ FirstOK(<<>>, by)
BY DEF EvaluationsOK, FirstOK, Descends

\* A list as it is given to a context: nothing is made of it.
LEMMA Fresh ==
    ASSUME NEW c, Listed(order[c]), NEW t \in ContextTokens
    PROVE  Unresolved(c)[t] = IF ~Binds(order[c], t) THEN Absent
                              ELSE IF EagerlyBound(order[c], t) THEN Eager ELSE Lazy
BY UnresolvedIs

LEMMA DerivedStart == DerivedInit => DerivedInv
<1> SUFFICES ASSUME DerivedInit PROVE DerivedInv
  OBVIOUS
<1>1. OrderOK
  BY OrderAtStart
<1>2. /\ entries = [outer |-> Unresolved("outer"), inner |-> [t \in ContextTokens |-> Absent]]
      /\ built = [c \in Contexts |-> [t \in ContextTokens |-> 0]]
      /\ cursor = [c \in Contexts |-> 1]
      /\ phase = [c \in Contexts |-> IF c = "outer" THEN "loop" ELSE "none"]
      /\ calls = <<>> /\ origin = "nobody" /\ bus = "none"
  BY DEF DerivedInit
<1>3. /\ Contexts = {"outer", "inner"} /\ Listed(order["outer"]) /\ Listed(order["inner"])
      /\ {"logger", "derived", "client", "bus"} \subseteq ContextTokens
  BY <1>1, DerivedAssumption DEF OrderOK, Contexts
<1>4. \A c \in Contexts : Len(order[c]) \in Nat /\ Len(order[c]) >= 1 /\ DOMAIN order[c] = 1 .. Len(order[c])
  BY <1>3 DEF Listed
<1>5. /\ entries["outer"] = Unresolved("outer") /\ entries["inner"] = [t \in ContextTokens |-> Absent]
      /\ DOMAIN entries = Contexts
      /\ \A c \in Contexts : cursor[c] = 1 /\ \A t \in ContextTokens : built[c][t] = 0
      /\ phase["outer"] = "loop" /\ phase["inner"] = "none"
  BY <1>2, <1>3
<1>6. DerivedTypes
  <2>1. DOMAIN Unresolved("outer") = ContextTokens
    BY <1>3, UnresolvedIs
  <2>2. \A c \in Contexts : DOMAIN entries[c] = ContextTokens
    BY <1>3, <1>5, <2>1
  <2>3. built \in [Contexts -> [ContextTokens -> Nat]] /\ cursor \in [Contexts -> Nat]
    BY <1>2
  <2>4. phase \in [Contexts -> Phases] /\ calls \in Seq(Evaluations)
    BY <1>2 DEF Phases
  <2>5. \A c \in Contexts : cursor[c] \in 1 .. Len(order[c]) + 1
    BY <1>4, <1>5
  <2> QED BY <1>2, <1>5, <2>2, <2>3, <2>4, <2>5 DEF DerivedTypes
<1>7. StagesOK
  BY <1>2, <1>3, <1>5 DEF StagesOK
<1>8. ASSUME NEW c \in Contexts PROVE TurnOK(c)
  BY <1>2, <1>3, <1>4, <1>5 DEF TurnOK
<1>9. CallsOK
  BY <1>2, NoEvaluations DEF CallsOK
<1>10. ASSUME NEW c \in Contexts, NEW t \in ContextTokens PROVE EntryOK(c, t)
  <2>1. CASE c = "inner"
    BY <1>5, <2>1 DEF EntryOK
  <2>2. CASE c = "outer"
    <3>1. entries[c][t] = IF ~Binds(order[c], t) THEN Absent
                          ELSE IF EagerlyBound(order[c], t) THEN Eager ELSE Lazy
      BY <1>3, <1>5, <2>2, Fresh
    <3>2. built[c][t] = 0 /\ ~Awaited(c, t)
      BY <1>5, <2>2 DEF Awaited
    <3>3. Binds(order[c], t) => ValueOK(c, t)
      BY <3>1 DEF ValueOK
    <3>4. CountOK(c, t)
      BY <3>2 DEF CountOK, Copies
    <3> QED BY <1>5, <2>2, <3>1, <3>2, <3>3, <3>4 DEF EntryOK
  <2> QED BY <1>3, <2>1, <2>2
<1>11. LoggerOK
  BY <1>5 DEF LoggerOK
<1>12. BusOK
  <2> SUFFICES ASSUME EagerlyBound(order["outer"], "bus")
               PROVE  cursor["outer"] <= Position(order["outer"], "bus") /\ entries["outer"]["bus"] = Eager
    BY <1>2, <1>5 DEF BusOK
  <2>1. Binds(order["outer"], "bus")
    BY DEF EagerlyBound
  <2>2. Position(order["outer"], "bus") \in DOMAIN order["outer"]
    BY <1>3, <2>1, Placed
  <2>3. entries["outer"]["bus"] = Eager
    BY <1>3, <1>5, <2>1, Fresh
  <2> QED BY <1>3, <1>4, <1>5, <2>2, <2>3
<1> QED BY <1>1, <1>6, <1>7, <1>8, <1>9, <1>10, <1>11, <1>12 DEF DerivedInv


\* What the invariant says of the contexts, in the form the steps use.
LEMMA Givens ==
    ASSUME DerivedInv
    PROVE  /\ OrderOK /\ DerivedTypes /\ StagesOK /\ CallsOK /\ LoggerOK /\ BusOK
           /\ Contexts = {"outer", "inner"} /\ "outer" \in Contexts /\ "inner" \in Contexts
           /\ {"logger", "derived", "client", "bus"} \subseteq ContextTokens /\ "listener" \notin ContextTokens
           /\ \A c \in Contexts : /\ Listed(order[c]) /\ DOMAIN order[c] = 1 .. Len(order[c])
                                  /\ Len(order[c]) \in Nat /\ Len(order[c]) >= 1
                                  /\ cursor[c] \in 1 .. Len(order[c]) + 1 /\ TurnOK(c)
           /\ \A c \in Contexts : \A t \in ContextTokens : EntryOK(c, t)
<1>1. \A c \in Contexts : Listed(order[c])
  BY DEF DerivedInv, OrderOK
<1>2. \A c \in Contexts : DOMAIN order[c] = 1 .. Len(order[c]) /\ Len(order[c]) \in Nat /\ Len(order[c]) >= 1
  BY <1>1 DEF Listed
<1> QED BY <1>1, <1>2, DerivedAssumption DEF DerivedInv, DerivedTypes, Contexts

\* The token a resolve is at.
LEMMA AtTurn ==
    ASSUME DerivedInv, NEW c \in Contexts, cursor[c] \in DOMAIN order[c]
    PROVE  /\ Turn(c) \in ContextTokens /\ Binds(order[c], Turn(c))
           /\ Position(order[c], Turn(c)) = cursor[c]
           /\ EagerlyBound(order[c], Turn(c)) <=> order[c][cursor[c]].eager
           /\ Turn(c) = "logger" <=> cursor[c] = 1
<1>1. Listed(order[c]) /\ 1 \in DOMAIN order[c]
  BY Givens
<1>2. order[c][1].tok = "logger"
  BY <1>1 DEF Listed
<1> QED BY <1>1, <1>2, Placed DEF Turn

\* An entry that is not unevaluated or absent by chance: it is bound, and the context exists.
LEMMA EntryIs ==
    ASSUME DerivedInv, NEW c \in Contexts, NEW t \in ContextTokens
    PROVE  /\ entries[c][t] \in Unmade => /\ phase[c] # "none" /\ Binds(order[c], t)
                                          /\ entries[c][t] = Eager <=> EagerlyBound(order[c], t)
           /\ entries[c][t] = Eager => EagerlyBound(order[c], t)
           /\ entries[c][t] = Absent => \/ phase[c] = "none" \/ ~Binds(order[c], t)
                                        \/ c = "inner" /\ t = "logger" /\ phase[c] = "done"
           /\ entries[c][t] = Void => c = "outer" /\ t = "client" /\ Binds(order[c], t)
           /\ phase[c] # "none" /\ Binds(order[c], t) => ValueOK(c, t) /\ CountOK(c, t)
           /\ phase[c] = "none" \/ ~Binds(order[c], t) => entries[c][t] = Absent /\ built[c][t] = 0
<1>1. EntryOK(c, t)
  BY Givens
<1>2. \A x \in Unmade : x \notin {Absent, Void} /\ x \notin Made(c, t) /\ x # Instance("outer", 2)
  BY Values DEF Unmade, Made
<1>3. Lazy # Eager /\ Absent # Void /\ Absent \notin Made(c, t) /\ Void # Instance("outer", 2) /\ Absent # Instance("outer", 2)
  BY Values DEF Made
<1>4. Void \in Made(c, t) => t = "client" /\ c # "inner"
  BY Values DEF Made
<1>5. CASE phase[c] = "none" \/ ~Binds(order[c], t)
  BY <1>1, <1>2, <1>3, <1>5 DEF EntryOK, Unmade
<1>6. CASE phase[c] # "none" /\ Binds(order[c], t)
  <2>1. ValueOK(c, t) /\ CountOK(c, t)
    BY <1>1, <1>6 DEF EntryOK
  <2>2. entries[c][t] \in Unmade => (entries[c][t] = Eager <=> EagerlyBound(order[c], t))
    BY <1>2, <1>3, <2>1 DEF ValueOK, Unmade
  <2>3. entries[c][t] = Absent => c = "inner" /\ t = "logger" /\ phase[c] = "done"
    BY <1>2, <1>3, <2>1 DEF ValueOK, Unmade
  <2>4. entries[c][t] = Void => c = "outer" /\ t = "client"
    <3>1. entries[c][t] = Void => entries[c][t] \in Made(c, t)
      BY <1>2, <1>3, <2>1 DEF ValueOK, Unmade
    <3> QED BY <1>4, <3>1, Givens
  <2>5. entries[c][t] = Eager => entries[c][t] \in Unmade
    BY DEF Unmade
  <2> QED BY <1>6, <2>1, <2>2, <2>3, <2>4, <2>5
<1> QED BY <1>5, <1>6

\* An entry that a step leaves as it is.
LEMMA SameEntry ==
    ASSUME NEW c, NEW t, EntryOK(c, t), order' = order, listener' = listener,
           entries'[c][t] = entries[c][t], built'[c][t] = built[c][t],
           phase'[c] = "none" <=> phase[c] = "none",
           phase[c] \in {"rejected", "done"} => phase'[c] = phase[c],
           Awaited(c, t)' <=> Awaited(c, t)
    PROVE  EntryOK(c, t)'
<1>1. ByBus' <=> ByBus
  BY Static
<1>2. Copies(c, t)' = Copies(c, t)
  BY <1>1 DEF Copies
<1>3. ValueOK(c, t) => ValueOK(c, t)'
  BY <1>1 DEF ValueOK
<1>4. CountOK(c, t) => CountOK(c, t)'
  <2>1. built'[c][t] <= Copies(c, t)' <=> built[c][t] <= Copies(c, t)
    BY <1>2
  <2> QED BY <2>1 DEF CountOK
<1> QED BY <1>3, <1>4 DEF EntryOK

\* When nothing runs, and nothing is started.
LEMMA NothingRuns ==
    ASSUME calls' = <<>>, origin' = "nobody" PROVE CallsOK'
<1>1. EvaluationsOK(<<>>, origin)' /\ FirstOK(<<>>, origin)'
  BY NoEvaluations DEF EvaluationsOK, FirstOK, Descends
<1> QED BY <1>1 DEF CallsOK


\* resolve goes over its bindings.
LEMMA ResolveStepKeeps ==
    ASSUME DerivedInv, NEW c \in Contexts, ResolveStep(c) PROVE DerivedInv'
<1> DEFINE k == cursor[c]
           t == Turn(c)
<1>1. /\ phase[c] = "loop" /\ calls = <<>>
      /\ order' = order /\ listener' = listener /\ entries' = entries /\ built' = built /\ bus' = bus
  BY DEF ResolveStep, Resting
<1>2. \/ /\ k > Len(order[c])
         /\ phase' = [phase EXCEPT ![c] = "settling"] /\ UNCHANGED <<cursor, calls, origin>>
      \/ /\ k <= Len(order[c]) /\ entries[c][t] = Eager
         /\ phase' = [phase EXCEPT ![c] = "evaluating"]
         /\ calls' = <<[for |-> c, in |-> c, tok |-> t, todo |-> Asks(c, t)]>>
         /\ origin' = c /\ UNCHANGED cursor
      \/ /\ k <= Len(order[c]) /\ entries[c][t] = Void
         /\ phase' = [phase EXCEPT ![c] = "rejected"] /\ UNCHANGED <<cursor, calls, origin>>
      \/ /\ k <= Len(order[c]) /\ entries[c][t] # Eager
         /\ cursor' = [cursor EXCEPT ![c] = @ + 1] /\ UNCHANGED <<phase, calls, origin>>
  <2>1. k \in Nat /\ Len(order[c]) \in Nat
    BY Givens
  <2>2. CASE k > Len(order[c])
    BY <2>1, <2>2 DEF ResolveStep, Turn
  <2>3. CASE k <= Len(order[c]) /\ entries[c][t] = Eager
    BY <2>1, <2>3 DEF ResolveStep, Turn
  <2>4. CASE k <= Len(order[c]) /\ entries[c][t] = Void
    BY <2>1, <2>4, Values DEF ResolveStep, Turn
  <2>5. CASE k <= Len(order[c]) /\ entries[c][t] # Eager /\ entries[c][t] # Void
    BY <2>1, <2>5 DEF ResolveStep, Turn
  <2> QED BY <2>1, <2>2, <2>3, <2>4, <2>5
<1>3. /\ OrderOK /\ DerivedTypes /\ StagesOK /\ CallsOK /\ LoggerOK /\ BusOK
      /\ Contexts = {"outer", "inner"}
      /\ \A d \in Contexts : /\ Listed(order[d]) /\ DOMAIN order[d] = 1 .. Len(order[d])
                             /\ Len(order[d]) \in Nat /\ Len(order[d]) >= 1
                             /\ cursor[d] \in 1 .. Len(order[d]) + 1 /\ TurnOK(d)
      /\ \A d \in Contexts : \A u \in ContextTokens : EntryOK(d, u)
      /\ {"logger", "derived", "client", "bus"} \subseteq ContextTokens /\ "listener" \notin ContextTokens
  BY Givens
<1>4. origin = "nobody"
  BY <1>1, <1>3 DEF CallsOK
<1>5. k <= Len(order[c]) => /\ k \in DOMAIN order[c] /\ t \in ContextTokens /\ Binds(order[c], t)
                            /\ Position(order[c], t) = k
                            /\ EagerlyBound(order[c], t) <=> order[c][k].eager
  <2> SUFFICES ASSUME k <= Len(order[c]) PROVE k \in DOMAIN order[c]
    BY AtTurn
  <2> QED BY <1>3
<1>6. DOMAIN phase = Contexts /\ DOMAIN cursor = Contexts
  BY <1>3 DEF DerivedTypes
<1>7. /\ \A d \in Contexts : d # c => phase'[d] = phase[d] /\ cursor'[d] = cursor[d]
      /\ phase'[c] \in {"loop", "settling", "evaluating", "rejected"}
      /\ cursor'[c] \in {k, k + 1} /\ (cursor'[c] = k + 1 => k <= Len(order[c]) /\ phase'[c] = "loop" /\ entries[c][t] # Eager)
      /\ phase'[c] = "settling" => k > Len(order[c])
      /\ phase'[c] = "evaluating" => k <= Len(order[c]) /\ entries[c][t] = Eager /\ cursor'[c] = k
  BY <1>1, <1>2, <1>3, <1>6
<1>8. \A d \in Contexts : d # c => Turn(d)' = Turn(d)
  BY <1>1, <1>7 DEF Turn
<1>9. \A d \in Contexts : \A u \in ContextTokens : Awaited(d, u)' <=> Awaited(d, u)
  BY <1>1, <1>7, <1>8 DEF Awaited
<1>10. OrderOK'
  BY <1>1, <1>3, Static
<1>11. t \in ContextTokens /\ entries[c][t] = Eager =>
          [for |-> c, in |-> c, tok |-> t, todo |-> Asks(c, t)] \in Evaluations
  <2>1. Asks(c, t) \subseteq ContextTokens
    BY <1>3, AsksOf
  <2> QED BY <2>1 DEF Evaluations
<1>12. DerivedTypes'
  <2>1. calls' \in Seq(Evaluations) /\ origin' \in {"nobody", "outer", "inner", "bus", "user"}
    <3>1. CASE calls' = calls /\ origin' = origin
      BY <1>3, <3>1 DEF DerivedTypes
    <3>2. CASE ~(calls' = calls /\ origin' = origin)
      <4> DEFINE f == [for |-> c, in |-> c, tok |-> t, todo |-> Asks(c, t)]
      <4>1. k <= Len(order[c]) /\ entries[c][t] = Eager /\ calls' = <<f>> /\ origin' = c
        BY <1>2, <3>2
      <4>2. f \in Evaluations
        BY <1>5, <1>11, <4>1
      <4> HIDE DEF f
      <4> QED BY <1>3, <4>1, <4>2
    <3> QED BY <3>1, <3>2
  <2>2. phase' \in [Contexts -> Phases]
    BY <1>2, <1>3 DEF DerivedTypes, Phases
  <2>3. cursor' \in [Contexts -> Nat]
    <3>1. cursor \in [Contexts -> Nat]
      BY <1>3 DEF DerivedTypes
    <3>2. cursor' = cursor \/ cursor' = [cursor EXCEPT ![c] = @ + 1]
      BY <1>2
    <3> QED BY <3>1, <3>2
  <2>4. \A d \in Contexts : cursor'[d] \in 1 .. Len(order[d]) + 1
    BY <1>3, <1>7
  <2> QED BY <1>1, <1>3, <2>1, <2>2, <2>3, <2>4 DEF DerivedTypes
<1>13. StagesOK'
  <2>1. ByBus' <=> ByBus
    BY <1>1, Static
  <2>2. phase'["outer"] # "none" /\ (phase'["inner"] = "none" <=> phase["inner"] = "none")
    BY <1>1, <1>3, <1>7 DEF StagesOK
  <2>3. phase["outer"] = "done" => phase'["outer"] = "done"
    BY <1>1, <1>3, <1>7
  <2>4. cursor'["outer"] = 1 => cursor["outer"] = 1
    BY <1>3, <1>7
  <2>5. phase'["inner"] = "none" => cursor'["inner"] = cursor["inner"]
    BY <1>1, <1>3, <1>7
  <2> QED BY <1>1, <1>3, <2>1, <2>2, <2>3, <2>4, <2>5 DEF StagesOK
<1>14. ASSUME NEW d \in Contexts PROVE TurnOK(d)'
  <2>1. CASE d # c
    <3>1. phase'[d] = phase[d] /\ cursor'[d] = cursor[d] /\ (origin' = d <=> origin = d)
      BY <1>2, <1>4, <1>7, <2>1, <1>3
    <3> QED BY <1>1, <1>3, <3>1 DEF TurnOK
  <2>2. CASE d = c
    <3>1. phase'[c] = "evaluating" <=> origin' = c
      BY <1>1, <1>2, <1>3, <1>4, <1>6
    <3>2. ASSUME NEW i \in DOMAIN order[c], i < cursor'[c], order[c][i].eager
          PROVE  entries[c][order[c][i].tok] \notin Unmade
      <4>1. CASE i < k
        BY <1>3, <3>2, <4>1 DEF TurnOK
      <4>2. CASE ~(i < k)
        <5>1. i = k /\ k <= Len(order[c]) /\ entries[c][t] # Eager
          BY <1>3, <1>7, <3>2, <4>2
        <5>2. order[c][i].tok = t /\ EagerlyBound(order[c], t)
          BY <1>5, <3>2, <5>1 DEF Turn
        <5> QED BY <1>5, <5>1, <5>2, EntryIs
      <4> QED BY <4>1, <4>2
    <3>3. phase'[c] \in {"evaluating", "awaiting"} => cursor'[c] \in DOMAIN order[c] /\ order[c][cursor'[c]].eager
      <4> SUFFICES ASSUME phase'[c] = "evaluating" PROVE cursor'[c] \in DOMAIN order[c] /\ order[c][cursor'[c]].eager
        BY <1>7
      <4>1. cursor'[c] = k /\ entries[c][t] = Eager
        BY <1>7
      <4> QED BY <1>5, <1>7, <4>1, EntryIs
    <3>4. phase'[c] \in {"settling", "done"} => cursor'[c] > Len(order[c])
      BY <1>3, <1>7
    <3> QED BY <1>1, <2>2, <3>1, <3>2, <3>3, <3>4 DEF TurnOK
  <2> QED BY <2>1, <2>2
<1>15. CallsOK'
  <2>1. CASE calls' = calls /\ origin' = origin
    BY <1>1, <1>4, <2>1, NothingRuns
  <2>2. CASE ~(calls' = calls /\ origin' = origin)
    <3> DEFINE f == [for |-> c, in |-> c, tok |-> t, todo |-> Asks(c, t)]
    <3>1. /\ k <= Len(order[c]) /\ entries[c][t] = Eager /\ calls' = <<f>> /\ origin' = c /\ UNCHANGED cursor
          /\ phase' = [phase EXCEPT ![c] = "evaluating"]
      BY <1>2, <2>2
    <3>2. f \in Evaluations /\ f.tok # "listener" /\ f.for = c /\ f.in = c /\ f.tok = t /\ f.todo = Asks(c, t)
      BY <1>3, <1>5, <1>11, <3>1
    <3> HIDE DEF f
    <3>3. EvaluationOK(f, c)
      BY <1>3, <1>5, <3>1, <3>2 DEF EvaluationOK, Unmade
    <3>4. EvaluationsOK(<<f>> \o <<>>, c)
      BY <1>3, <3>2, <3>3, NoEvaluations, OneMore
    <3>5. <<f>> \o <<>> = <<f>>
      OBVIOUS
    <3>6. phase["inner"] = "done" => phase'["inner"] = "done"
      BY <1>1, <1>3, <1>6, <3>1
    <3>7. EvaluationsOK(calls, origin)'
      <4>1. EvaluationsOK(calls', origin')
        BY <3>1, <3>4, <3>5
      <4> QED BY <1>1, <3>6, <4>1, Static DEF EvaluationsOK, EvaluationOK, Descends
    <3>8. Len(calls') = 1 /\ calls'[1] = f /\ Turn(c)' = t /\ calls' # <<>>
      BY <1>1, <3>1 DEF Turn
    <3>9. FirstOK(calls, origin)'
      BY <1>1, <3>1, <3>2, <3>8 DEF FirstOK
    <3> QED BY <1>3, <3>1, <3>7, <3>8, <3>9 DEF CallsOK
  <2> QED BY <2>1, <2>2
<1>16. ASSUME NEW d \in Contexts, NEW u \in ContextTokens PROVE EntryOK(d, u)'
  <2>1. /\ phase'[d] = "none" <=> phase[d] = "none"
        /\ phase[d] \in {"rejected", "done"} => phase'[d] = phase[d]
    BY <1>1, <1>7
  <2> QED BY <1>1, <1>3, <1>9, <2>1, SameEntry
<1>17. LoggerOK'
  <2>1. phase'["inner"] = "done" => phase["inner"] = "done"
    BY <1>3, <1>7
  <2> QED BY <1>1, <1>3, <2>1 DEF LoggerOK
<1>18. BusOK'
  <2> SUFFICES ASSUME EagerlyBound(order["outer"], "bus"), BusAwaited \/ WellOrdered
               PROVE  /\ phase'["inner"] = "none" =>
                            /\ cursor'["outer"] <= Position(order["outer"], "bus") /\ entries["outer"]["bus"] = Eager
                            /\ bus # "none" => Awaited("outer", "bus")'
                      /\ phase'["inner"] # "none" =>
                            /\ entries["outer"]["client"] \in {Absent, Client}
                            /\ phase'["outer"] \in {"evaluating", "awaiting"} => Turn("outer")' # "client"
    BY <1>1, Static DEF BusOK, BusAwaited
  <2>1. /\ phase["inner"] = "none" =>
              /\ cursor["outer"] <= Position(order["outer"], "bus") /\ entries["outer"]["bus"] = Eager
              /\ bus # "none" => Awaited("outer", "bus")
        /\ phase["inner"] # "none" =>
              /\ entries["outer"]["client"] \in {Absent, Client}
              /\ phase["outer"] \in {"evaluating", "awaiting"} => Turn("outer") # "client"
    BY <1>3 DEF BusOK
  <2>2. phase'["inner"] = "none" <=> phase["inner"] = "none"
    BY <1>1, <1>3, <1>7
  <2>3. Position(order["outer"], "bus") \in DOMAIN order["outer"] /\ order["outer"][Position(order["outer"], "bus")].tok = "bus"
    BY <1>3, Placed DEF EagerlyBound
  <2>4. ASSUME phase'["inner"] = "none" PROVE cursor'["outer"] <= Position(order["outer"], "bus")
    <3>1. CASE cursor'["outer"] = cursor["outer"]
      BY <2>1, <2>2, <2>4, <3>1
    <3>2. CASE cursor'["outer"] # cursor["outer"]
      <4>1. c = "outer" /\ cursor'["outer"] = cursor["outer"] + 1 /\ entries["outer"][Turn("outer")] # Eager
        BY <1>3, <1>7, <3>2
      <4>2. cursor["outer"] # Position(order["outer"], "bus")
        BY <2>1, <2>2, <2>3, <2>4, <4>1 DEF Turn
      <4> QED BY <1>3, <2>1, <2>2, <2>3, <2>4, <4>1, <4>2
    <3> QED BY <3>1, <3>2
  <2>5. phase'["outer"] \in {"evaluating", "awaiting"} /\ phase'["inner"] # "none" => Turn("outer")' # "client"
    <3>1. CASE c # "outer"
      BY <1>3, <1>7, <1>8, <2>1, <2>2, <3>1
    <3>2. CASE c = "outer" /\ phase'["outer"] = "evaluating"
      <4>1. Turn("outer")' = Turn("outer") /\ entries["outer"][Turn("outer")] = Eager
        BY <1>1, <1>7, <3>2 DEF Turn
      <4> QED BY <2>1, <2>2, <4>1, Values
    <3> QED BY <1>7, <3>1, <3>2
  <2> QED BY <1>3, <1>9, <2>1, <2>2, <2>4, <2>5
<1> QED BY <1>10, <1>12, <1>13, <1>14, <1>15, <1>16, <1>17, <1>18 DEF DerivedInv


\* An entry that is set.
IsSet(c, t, v) == entries' = [entries EXCEPT ![c][t] = v]
LEMMA EntrySet ==
    ASSUME DerivedTypes, NEW c \in Contexts, NEW t \in ContextTokens, NEW v, IsSet(c, t, v)
    PROVE  /\ entries'[c][t] = v
           /\ \A d \in Contexts : \A u \in ContextTokens : d # c \/ u # t => entries'[d][u] = entries[d][u]
           /\ DOMAIN entries' = Contexts /\ \A d \in Contexts : DOMAIN entries'[d] = ContextTokens
<1>1. DOMAIN entries = Contexts /\ \A d \in Contexts : DOMAIN entries[d] = ContextTokens
  BY DEF DerivedTypes
<1> DEFINE new == [entries[c] EXCEPT ![t] = v]
<1>2. entries' = [entries EXCEPT ![c] = new]
  BY DEF IsSet
<1>3. DOMAIN new = ContextTokens /\ new[t] = v /\ \A u \in ContextTokens : u # t => new[u] = entries[c][u]
  BY <1>1
<1> HIDE DEF new
<1>4. entries'[c] = new /\ DOMAIN entries' = Contexts /\ \A d \in Contexts : d # c => entries'[d] = entries[d]
  BY <1>1, <1>2
<1> QED BY <1>1, <1>3, <1>4

\* What a resolve awaits is its own, and only what an event bus is awaited for leaves it
\* time for others.
LEMMA AwaitedIs ==
    ASSUME DerivedInv, NEW c \in Contexts, phase[c] = "awaiting"
    PROVE  /\ cursor[c] \in DOMAIN order[c]
           /\ Turn(c) \in ContextTokens /\ Binds(order[c], Turn(c)) /\ EagerlyBound(order[c], Turn(c))
           /\ Position(order[c], Turn(c)) = cursor[c]
           /\ ValueOK(c, Turn(c)) /\ CountOK(c, Turn(c)) /\ Awaited(c, Turn(c))
           /\ Turn(c) = "bus" => c = "outer"
           /\ Turn(c) = "derived" => c = "inner"
<1>1. cursor[c] \in DOMAIN order[c] /\ order[c][cursor[c]].eager
  BY Givens DEF TurnOK
<1>2. /\ Turn(c) \in ContextTokens /\ Binds(order[c], Turn(c)) /\ EagerlyBound(order[c], Turn(c))
      /\ Position(order[c], Turn(c)) = cursor[c]
  BY <1>1, AtTurn
<1>3. ValueOK(c, Turn(c)) /\ CountOK(c, Turn(c))
  BY <1>2, EntryIs
<1>4. (Turn(c) = "bus" => c = "outer") /\ (Turn(c) = "derived" => c = "inner")
  BY <1>2, Givens DEF OrderOK
<1> QED BY <1>1, <1>2, <1>3, <1>4 DEF Awaited

\* resolve goes on with what it awaited.
LEMMA ResolveResumesKeeps ==
    ASSUME DerivedInv, NEW c \in Contexts, ResolveResumes(c) PROVE DerivedInv'
<1> DEFINE k == cursor[c]
<1>0. PICK t : t = Turn(c)
  OBVIOUS
<1> DEFINE got == IF t \in {"derived", "client"} THEN Yield(c, t) ELSE Instance(c, 1)
<1>1. /\ phase[c] = "awaiting" /\ calls = <<>> /\ (t = "bus" => bus \in {"up", "failed"})
      /\ order' = order /\ listener' = listener /\ built' = built /\ bus' = bus /\ calls' = calls /\ origin' = origin
  BY <1>0 DEF ResolveResumes, Resting, Turn
<1>2. \/ /\ t = "bus" /\ bus = "failed"
         /\ phase' = [phase EXCEPT ![c] = "rejected"] /\ UNCHANGED <<entries, cursor>>
      \/ /\ entries' = [entries EXCEPT ![c][t] = got]
         /\ cursor' = [cursor EXCEPT ![c] = @ + 1]
         /\ phase' = [phase EXCEPT ![c] = "loop"]
  BY <1>0 DEF ResolveResumes, Turn
<1>3. /\ OrderOK /\ DerivedTypes /\ StagesOK /\ CallsOK /\ LoggerOK /\ BusOK
      /\ Contexts = {"outer", "inner"}
      /\ \A d \in Contexts : /\ Listed(order[d]) /\ DOMAIN order[d] = 1 .. Len(order[d])
                             /\ Len(order[d]) \in Nat /\ Len(order[d]) >= 1
                             /\ cursor[d] \in 1 .. Len(order[d]) + 1 /\ TurnOK(d)
      /\ \A d \in Contexts : \A u \in ContextTokens : EntryOK(d, u)
      /\ {"logger", "derived", "client", "bus"} \subseteq ContextTokens
  BY Givens
<1>4. origin = "nobody"
  BY <1>1, <1>3 DEF CallsOK
<1>5. /\ k \in DOMAIN order[c] /\ t \in ContextTokens /\ Binds(order[c], t) /\ EagerlyBound(order[c], t)
      /\ Position(order[c], t) = k /\ ValueOK(c, t) /\ CountOK(c, t) /\ Awaited(c, t)
      /\ t = "bus" => c = "outer"
      /\ t = "derived" => c = "inner"
  BY <1>0, <1>1, AwaitedIs
<1>6. DOMAIN phase = Contexts /\ cursor \in [Contexts -> Nat] /\ built \in [Contexts -> [ContextTokens -> Nat]]
  BY <1>3 DEF DerivedTypes
<1>7. got \in Made(c, t)
  BY <1>3, <1>5 DEF Made, Yield
<1> HIDE DEF got
<1>8. /\ \A d \in Contexts : d # c => phase'[d] = phase[d] /\ cursor'[d] = cursor[d]
      /\ phase'[c] \in {"loop", "rejected"} /\ cursor'[c] \in {k, k + 1}
      /\ cursor'[c] = k => phase'[c] = "rejected" /\ t = "bus" /\ entries' = entries
      /\ cursor'[c] = k + 1 => entries' = [entries EXCEPT ![c][t] = got]
  BY <1>2, <1>3, <1>6
<1>9. /\ \A d \in Contexts : \A u \in ContextTokens : d # c \/ u # t => entries'[d][u] = entries[d][u]
      /\ cursor'[c] = k + 1 => entries'[c][t] = got
      /\ DOMAIN entries' = Contexts /\ \A d \in Contexts : DOMAIN entries'[d] = ContextTokens
  <2>1. CASE cursor'[c] = k + 1
    <3>1. DerivedTypes /\ t \in ContextTokens /\ entries' = [entries EXCEPT ![c][t] = got]
      BY <1>3, <1>5, <1>8, <2>1
    <3>2. IsSet(c, t, got)
      BY <3>1 DEF IsSet
    <3> QED BY <1>3, <3>1, <3>2, EntrySet
  <2>2. CASE cursor'[c] = k
    BY <1>3, <1>6, <1>8, <2>2 DEF DerivedTypes
  <2> QED BY <1>8, <2>1, <2>2
<1>10. k \in Nat /\ k + 1 # k
  BY <1>3, <1>6
<1>11. \A d \in Contexts : d # c => Turn(d)' = Turn(d)
  BY <1>1, <1>8 DEF Turn
<1>12. /\ \A d \in Contexts : \A u \in ContextTokens : d # c => (Awaited(d, u)' <=> Awaited(d, u))
       /\ \A u : ~Awaited(c, u)'
       /\ \A u \in ContextTokens : u # t => ~Awaited(c, u)
  BY <1>0, <1>1, <1>8, <1>11 DEF Awaited
<1>13. OrderOK'
  BY <1>1, <1>3, Static
<1>14. DerivedTypes'
  <2>1. phase' \in [Contexts -> Phases]
    BY <1>2, <1>3 DEF DerivedTypes, Phases
  <2>2. cursor' \in [Contexts -> Nat]
    BY <1>2, <1>6
  <2>3. \A d \in Contexts : cursor'[d] \in 1 .. Len(order[d]) + 1
    BY <1>3, <1>5, <1>8
  <2> QED BY <1>1, <1>3, <1>9, <2>1, <2>2, <2>3 DEF DerivedTypes
<1>15. StagesOK'
  <2>1. ByBus' <=> ByBus
    BY <1>1, Static
  <2>2. phase'["outer"] # "none" /\ (phase'["inner"] = "none" <=> phase["inner"] = "none")
    BY <1>1, <1>3, <1>8 DEF StagesOK
  <2>3. phase["outer"] = "done" => phase'["outer"] = "done"
    BY <1>1, <1>3, <1>8
  <2>4. cursor'["outer"] = 1 => cursor["outer"] = 1
    BY <1>3, <1>8
  <2>5. phase'["inner"] = "none" => cursor'["inner"] = cursor["inner"]
    BY <1>1, <1>3, <1>8
  <2> QED BY <1>1, <1>3, <2>1, <2>2, <2>3, <2>4, <2>5 DEF StagesOK
<1>16. \A x \in Made(c, t) : x \notin Unmade
  BY Values DEF Made, Unmade
<1>17. ASSUME NEW d \in Contexts PROVE TurnOK(d)'
  <2>1. CASE d # c
    <3>1. \A u \in ContextTokens : entries'[d][u] = entries[d][u]
      BY <1>9, <2>1
    <3>2. \A i \in DOMAIN order[d] : order[d][i].tok \in ContextTokens
      BY <1>3, Placed
    <3>3. phase'[d] = phase[d] /\ cursor'[d] = cursor[d]
      BY <1>8, <2>1
    <3> QED BY <1>1, <1>3, <3>1, <3>2, <3>3 DEF TurnOK
  <2>2. CASE d = c
    <3>1. ASSUME NEW i \in DOMAIN order[c], i < cursor'[c], order[c][i].eager
          PROVE  entries'[c][order[c][i].tok] \notin Unmade
      <4>1. order[c][i].tok \in ContextTokens
        BY <1>3, Placed
      <4>2. CASE order[c][i].tok = t
        <5>1. i = k
          BY <1>3, <1>5, <4>2, Placed
        <5>2. cursor'[c] = k + 1
          BY <1>8, <1>10, <3>1, <5>1
        <5> QED BY <1>7, <1>9, <1>16, <4>2, <5>2
      <4>3. CASE order[c][i].tok # t
        <5>1. i # k
          BY <1>0, <4>3 DEF Turn
        <5>2. i < k
          BY <1>3, <1>8, <1>10, <3>1, <5>1
        <5> QED BY <1>3, <1>9, <3>1, <4>1, <4>3, <5>2 DEF TurnOK
      <4> QED BY <4>2, <4>3
    <3> QED BY <1>1, <1>4, <1>8, <2>2, <3>1, <1>3 DEF TurnOK
  <2> QED BY <2>1, <2>2
<1>18. CallsOK'
  BY <1>1, <1>4, NothingRuns
<1>19. ASSUME NEW d \in Contexts, NEW u \in ContextTokens PROVE EntryOK(d, u)'
  <2>1. CASE d # c
    BY <1>1, <1>3, <1>8, <1>9, <1>12, <2>1, SameEntry
  <2>2. CASE d = c /\ u # t
    <3>1. phase'[d] # "none" /\ phase[d] \notin {"none", "rejected", "done"}
      BY <1>1, <1>8, <2>2
    <3> QED BY <1>1, <1>3, <1>9, <1>12, <2>2, <3>1, SameEntry
  <2>3. CASE d = c /\ u = t
    <3>1. Copies(c, t)' = Copies(c, t)
      BY <1>1, Static DEF Copies
    <3>2. CASE cursor'[c] = k + 1
      <4>1. ValueOK(c, t)'
        BY <1>7, <1>9, <3>2 DEF ValueOK, Made
      <4>2. CountOK(c, t)'
        <5>1. entries'[c][t] \notin Unmade /\ ~Awaited(c, t)'
          BY <1>7, <1>9, <1>12, <1>16, <3>2
        <5>2. built'[c][t] <= Copies(c, t)'
          BY <1>1, <1>5, <3>1 DEF CountOK
        <5> QED BY <5>1, <5>2 DEF CountOK
      <4>3. phase'[c] # "none" /\ Binds(order'[c], t)
        BY <1>1, <1>5, <1>8
      <4> QED BY <2>3, <4>1, <4>2, <4>3 DEF EntryOK
    <3>3. CASE cursor'[c] = k
      <4>1. phase'[c] = "rejected" /\ t = "bus" /\ entries' = entries
        BY <1>8, <3>3
      <4>2. ValueOK(c, t)'
        <5>1. \/ entries[c][t] = IF EagerlyBound(order[c], t) THEN Eager ELSE Lazy
              \/ entries[c][t] \in Made(c, t)
          BY <1>5, <4>1 DEF ValueOK
        <5> QED BY <1>1, <4>1, <5>1 DEF ValueOK, Made
      <4>3. CountOK(c, t)'
        <5>1. ~Awaited(c, t)' /\ built'[c][t] <= Copies(c, t)'
          BY <1>1, <1>5, <1>12, <3>1 DEF CountOK
        <5>2. entries'[c][t] \in Unmade => built'[c][t] = 1
          BY <1>1, <1>5, <4>1 DEF CountOK
        <5> QED BY <1>1, <1>5, <4>1, <5>1, <5>2 DEF CountOK
      <4>4. phase'[c] # "none" /\ Binds(order'[c], t)
        BY <1>1, <1>5, <4>1
      <4> QED BY <2>3, <4>2, <4>3, <4>4 DEF EntryOK
    <3> QED BY <1>8, <3>2, <3>3
  <2> QED BY <2>1, <2>2, <2>3
<1>20. LoggerOK'
  <2> SUFFICES ASSUME phase'["inner"] = "done"
               PROVE  /\ entries'["outer"]["logger"] = Instance("outer", 1)
                      /\ entries'["inner"]["derived"] = Instance("outer", 0)
                      /\ entries'["inner"]["logger"] = Absent
    BY DEF LoggerOK
  <2>1. c = "outer" /\ phase["inner"] = "done"
    BY <1>3, <1>8
  <2>2. t # "logger"
    <3>1. k # 1
      BY <1>3, <2>1 DEF StagesOK
    <3> QED BY <1>0, <1>5, <3>1, AtTurn
  <2> QED BY <1>3, <1>9, <2>1, <2>2 DEF LoggerOK
<1>21. BusOK'
  <2> SUFFICES ASSUME EagerlyBound(order["outer"], "bus"), BusAwaited' \/ WellOrdered
               PROVE  /\ phase'["inner"] = "none" =>
                            /\ cursor'["outer"] <= Position(order["outer"], "bus") /\ entries'["outer"]["bus"] = Eager
                            /\ bus # "none" => Awaited("outer", "bus")'
                      /\ phase'["inner"] # "none" =>
                            /\ entries'["outer"]["client"] \in {Absent, Client}
                            /\ phase'["outer"] \in {"evaluating", "awaiting"} => Turn("outer")' # "client"
    BY <1>1, Static DEF BusOK
  <2>1. BusAwaited' => BusAwaited
    <3> SUFFICES ASSUME BusAwaited', entries["outer"]["bus"] = Promise PROVE FALSE
      BY <1>1 DEF BusAwaited
    <3>1. c = "outer" /\ t = "bus"
      BY <1>3, <1>9 DEF BusAwaited
    <3>2. built[c][t] = 2
      BY <1>5, <3>1, Values DEF CountOK, Unmade
    <3> QED BY <1>1, <3>1, <3>2 DEF BusAwaited
  <2>2. /\ phase["inner"] = "none" =>
              /\ cursor["outer"] <= Position(order["outer"], "bus") /\ entries["outer"]["bus"] = Eager
              /\ bus # "none" => Awaited("outer", "bus")
        /\ phase["inner"] # "none" =>
              /\ entries["outer"]["client"] \in {Absent, Client}
              /\ phase["outer"] \in {"evaluating", "awaiting"} => Turn("outer") # "client"
    BY <1>3, <2>1 DEF BusOK
  <2>3. phase'["inner"] = "none" <=> phase["inner"] = "none"
    BY <1>1, <1>3, <1>8
  <2>4. Position(order["outer"], "bus") \in DOMAIN order["outer"] /\ order["outer"][Position(order["outer"], "bus")].tok = "bus"
    BY <1>3, Placed DEF EagerlyBound
  <2>5. ASSUME phase["inner"] = "none"
        PROVE /\ cursor'["outer"] <= Position(order["outer"], "bus") /\ entries'["outer"]["bus"] = Eager
              /\ bus # "none" => Awaited("outer", "bus")'
    <3>1. c = "outer"
      BY <1>1, <1>3, <2>5
    <3>2. t # "bus"
      BY <1>1, <1>3, <2>5 DEF StagesOK
    <3>3. bus = "none"
      BY <1>0, <1>5, <2>2, <2>5, <3>1, <3>2 DEF Awaited
    <3>4. k # Position(order["outer"], "bus")
      BY <1>0, <2>4, <3>1, <3>2 DEF Turn
    <3>5. cursor'["outer"] <= Position(order["outer"], "bus")
      BY <1>3, <1>8, <1>10, <2>2, <2>4, <2>5, <3>1, <3>4
    <3>6. entries'["outer"]["bus"] = Eager
      BY <1>3, <1>9, <2>2, <2>5, <3>2
    <3> QED BY <3>3, <3>5, <3>6
  <2>6. ASSUME phase["inner"] # "none"
        PROVE /\ entries'["outer"]["client"] \in {Absent, Client}
              /\ phase'["outer"] \in {"evaluating", "awaiting"} => Turn("outer")' # "client"
    <3>1. c = "outer" => t # "client"
      BY <1>0, <1>1, <2>2, <2>6
    <3>2. entries'["outer"]["client"] = entries["outer"]["client"]
      BY <1>3, <1>9, <3>1
    <3>3. phase'["outer"] \in {"evaluating", "awaiting"} => c # "outer"
      BY <1>8
    <3> QED BY <1>3, <1>8, <1>11, <2>2, <2>6, <3>2, <3>3
  <2> QED BY <2>3, <2>5, <2>6
<1> QED BY <1>13, <1>14, <1>15, <1>17, <1>18, <1>19, <1>20, <1>21 DEF DerivedInv


\* The loggers and the link when an inner context is settled.
LEMMA AtSettling ==
    ASSUME DerivedInv, phase["inner"] = "settling"
    PROVE  /\ entries["outer"]["logger"] \in {Lazy, Instance("outer", 1)}
           /\ ~Awaited("outer", "logger")
           /\ entries["inner"]["derived"] # Absent
           /\ EagerlyBound(order["outer"], "logger") => entries["outer"]["logger"] = Instance("outer", 1)
<1>1. /\ OrderOK /\ StagesOK /\ Contexts = {"outer", "inner"}
      /\ Listed(order["outer"]) /\ DOMAIN order["outer"] = 1 .. Len(order["outer"]) /\ TurnOK("outer")
      /\ Len(order["outer"]) \in Nat /\ Len(order["outer"]) >= 1 /\ cursor["outer"] \in 1 .. Len(order["outer"]) + 1
      /\ {"logger", "derived"} \subseteq ContextTokens
  BY Givens
<1>2. cursor["outer"] # 1 /\ cursor["outer"] > 1
  BY <1>1 DEF StagesOK
<1>3. 1 \in DOMAIN order["outer"] /\ order["outer"][1].tok = "logger"
  BY <1>1 DEF Listed
<1>4. Binds(order["outer"], "logger") /\ (EagerlyBound(order["outer"], "logger") <=> order["outer"][1].eager)
  BY <1>1, <1>3, Placed
<1>5. ~Awaited("outer", "logger")
  <2> SUFFICES ASSUME phase["outer"] = "awaiting", Turn("outer") = "logger" PROVE FALSE
    BY DEF Awaited
  <2>1. cursor["outer"] \in DOMAIN order["outer"]
    BY <1>1 DEF TurnOK
  <2> QED BY <1>1, <1>2, <2>1, AtTurn
<1>6. phase["outer"] # "none"
  BY <1>1 DEF StagesOK
<1>7. ValueOK("outer", "logger")
  BY <1>1, <1>4, <1>6, EntryIs
<1>8. entries["outer"]["logger"] \in {IF EagerlyBound(order["outer"], "logger") THEN Eager ELSE Lazy, Instance("outer", 1)}
  BY <1>5, <1>7 DEF ValueOK, Made
<1>9. EagerlyBound(order["outer"], "logger") => entries["outer"]["logger"] \notin Unmade
  BY <1>1, <1>2, <1>3, <1>4 DEF TurnOK
<1>10. entries["inner"]["derived"] # Absent
  <2>1. Binds(order["inner"], "derived")
    BY <1>1 DEF OrderOK
  <2> QED BY <1>1, <2>1, EntryIs
<1> QED BY <1>5, <1>8, <1>9, <1>10 DEF Unmade

\* A context is resolved, and the inner one gives up its logger.
LEMMA SettleKeeps ==
    ASSUME DerivedInv, NEW c \in Contexts, Settle(c) PROVE DerivedInv'
<1>1. /\ phase[c] = "settling" /\ calls = <<>> /\ phase' = [phase EXCEPT ![c] = "done"]
      /\ order' = order /\ listener' = listener /\ cursor' = cursor /\ calls' = calls /\ origin' = origin /\ bus' = bus
  BY DEF Settle, Resting
<1>2. /\ OrderOK /\ DerivedTypes /\ StagesOK /\ CallsOK /\ LoggerOK /\ BusOK
      /\ Contexts = {"outer", "inner"}
      /\ \A d \in Contexts : /\ Listed(order[d]) /\ DOMAIN order[d] = 1 .. Len(order[d])
                             /\ Len(order[d]) \in Nat /\ Len(order[d]) >= 1
                             /\ cursor[d] \in 1 .. Len(order[d]) + 1 /\ TurnOK(d)
      /\ \A d \in Contexts : \A u \in ContextTokens : EntryOK(d, u)
      /\ {"logger", "derived", "client", "bus"} \subseteq ContextTokens
  BY Givens
<1>3. /\ DOMAIN phase = Contexts /\ built \in [Contexts -> [ContextTokens -> Nat]]
      /\ DOMAIN entries = Contexts /\ \A d \in Contexts : DOMAIN entries[d] = ContextTokens
  BY <1>2 DEF DerivedTypes
<1>4. phase'[c] = "done" /\ \A d \in Contexts : d # c => phase'[d] = phase[d]
  BY <1>1, <1>3
<1>5. origin = "nobody" /\ cursor[c] > Len(order[c])
  BY <1>1, <1>2 DEF CallsOK, TurnOK
<1>6. c = "outer" => entries' = entries /\ built' = built
  <2> SUFFICES ASSUME c = "outer" PROVE entries[c]["derived"] = Absent
    BY DEF Settle
  <2>1. ~Binds(order["outer"], "derived")
    BY <1>2 DEF OrderOK
  <2> QED BY <1>2, <2>1, EntryIs
<1>7. c = "inner" =>
          /\ \A u \in ContextTokens : /\ u # "logger" => entries'["outer"][u] = entries["outer"][u]
                                      /\ u \notin {"logger", "derived"} => entries'["inner"][u] = entries["inner"][u]
                                      /\ built'["inner"][u] = built["inner"][u]
                                      /\ u # "logger" => built'["outer"][u] = built["outer"][u]
          /\ entries'["outer"]["logger"] = Instance("outer", 1)
          /\ entries'["inner"]["derived"] = Instance("outer", 0)
          /\ entries'["inner"]["logger"] = Absent
          /\ built'["outer"]["logger"] = 1
          /\ DOMAIN entries' = Contexts /\ \A d \in Contexts : DOMAIN entries'[d] = ContextTokens
          /\ built' \in [Contexts -> [ContextTokens -> Nat]]
  <2> SUFFICES ASSUME c = "inner"
               PROVE  /\ \A u \in ContextTokens :
                            /\ u # "logger" => entries'["outer"][u] = entries["outer"][u]
                            /\ u \notin {"logger", "derived"} => entries'["inner"][u] = entries["inner"][u]
                            /\ built'["inner"][u] = built["inner"][u]
                            /\ u # "logger" => built'["outer"][u] = built["outer"][u]
                      /\ entries'["outer"]["logger"] = Instance("outer", 1)
                      /\ entries'["inner"]["derived"] = Instance("outer", 0)
                      /\ entries'["inner"]["logger"] = Absent
                      /\ built'["outer"]["logger"] = 1
                      /\ DOMAIN entries' = Contexts /\ \A d \in Contexts : DOMAIN entries'[d] = ContextTokens
                      /\ built' \in [Contexts -> [ContextTokens -> Nat]]
    OBVIOUS
  <2>1. /\ entries["inner"]["derived"] # Absent
        /\ entries["outer"]["logger"] \in {Lazy, Instance("outer", 1)}
    BY <1>1, AtSettling
  <2>2. OuterLogger = Instance("outer", 1)
    BY <2>1 DEF OuterLogger
  <2>3. /\ entries' = [entries EXCEPT !["outer"]["logger"] = OuterLogger,
                              !["inner"] = [@ EXCEPT !["derived"] = Instance("outer", 0), !["logger"] = Absent]]
        /\ built' = [built EXCEPT !["outer"]["logger"] = 1]
    BY <2>1 DEF Settle
  <2> DEFINE outer == [entries["outer"] EXCEPT !["logger"] = OuterLogger]
             inner == [entries["inner"] EXCEPT !["derived"] = Instance("outer", 0), !["logger"] = Absent]
  <2>4. entries'["outer"] = outer /\ entries'["inner"] = inner /\ DOMAIN entries' = Contexts
    BY <1>2, <1>3, <2>3
  <2>5. /\ DOMAIN outer = ContextTokens /\ outer["logger"] = OuterLogger
        /\ \A u \in ContextTokens : u # "logger" => outer[u] = entries["outer"][u]
    BY <1>2, <1>3
  <2>6. /\ DOMAIN inner = ContextTokens /\ inner["logger"] = Absent /\ inner["derived"] = Instance("outer", 0)
        /\ \A u \in ContextTokens : u \notin {"logger", "derived"} => inner[u] = entries["inner"][u]
    BY <1>2, <1>3
  <2> HIDE DEF outer, inner
  <2>7. /\ built' \in [Contexts -> [ContextTokens -> Nat]] /\ built'["outer"]["logger"] = 1
        /\ \A u \in ContextTokens : /\ built'["inner"][u] = built["inner"][u]
                                    /\ u # "logger" => built'["outer"][u] = built["outer"][u]
    BY <1>2, <1>3, <2>3
  <2> QED BY <1>2, <2>2, <2>4, <2>5, <2>6, <2>7
<1>8. \A d \in Contexts : Turn(d)' = Turn(d)
  BY <1>1 DEF Turn
<1>9. \A d \in Contexts : \A u : Awaited(d, u)' <=> Awaited(d, u)
  BY <1>1, <1>4, <1>8 DEF Awaited
<1>10. OrderOK'
  BY <1>1, <1>2, Static
<1>11. DerivedTypes'
  <2>1. phase' \in [Contexts -> Phases]
    BY <1>1, <1>2 DEF DerivedTypes, Phases
  <2>2. DOMAIN entries' = Contexts /\ (\A d \in Contexts : DOMAIN entries'[d] = ContextTokens)
        /\ built' \in [Contexts -> [ContextTokens -> Nat]]
    BY <1>2, <1>3, <1>6, <1>7
  <2> QED BY <1>1, <1>2, <2>1, <2>2 DEF DerivedTypes
<1>12. StagesOK'
  <2>1. ByBus' <=> ByBus
    BY <1>1, Static
  <2>2. phase'["outer"] # "none" /\ (phase'["inner"] = "none" <=> phase["inner"] = "none")
    BY <1>1, <1>2, <1>4 DEF StagesOK
  <2>3. phase["outer"] = "done" => phase'["outer"] = "done"
    BY <1>1, <1>2, <1>4
  <2> QED BY <1>1, <1>2, <2>1, <2>2, <2>3 DEF StagesOK
<1>13. ASSUME NEW d \in Contexts, NEW u \in ContextTokens, entries[d][u] \notin Unmade
       PROVE  entries'[d][u] \notin Unmade
  <2>1. CASE c = "outer"
    BY <1>6, <1>13, <2>1
  <2>2. CASE c = "inner"
    <3>1. \/ entries'[d][u] = entries[d][u]
          \/ entries'[d][u] \in {Instance("outer", 1), Instance("outer", 0), Absent}
      BY <1>2, <1>7, <2>2
    <3>2. Unmade \cap {Instance("outer", 1), Instance("outer", 0), Absent} = {}
      BY Values DEF Unmade
    <3> QED BY <1>13, <3>1, <3>2
  <2> QED BY <1>2, <2>1, <2>2
<1>14. ASSUME NEW d \in Contexts PROVE TurnOK(d)'
  <2>1. ASSUME NEW i \in DOMAIN order[d], i < cursor[d], order[d][i].eager
        PROVE  entries'[d][order[d][i].tok] \notin Unmade
    <3>1. order[d][i].tok \in ContextTokens /\ entries[d][order[d][i].tok] \notin Unmade
      BY <1>2, <2>1, Placed DEF TurnOK
    <3> QED BY <1>13, <3>1
  <2>2. phase'[d] = "evaluating" <=> origin' = d
    BY <1>1, <1>2, <1>4, <1>5 DEF TurnOK
  <2>3. phase'[d] \in {"evaluating", "awaiting"} => cursor'[d] \in DOMAIN order[d] /\ order[d][cursor'[d]].eager
    BY <1>1, <1>2, <1>4 DEF TurnOK
  <2>4. phase'[d] \in {"settling", "done"} => cursor'[d] > Len(order[d])
    BY <1>1, <1>2, <1>4, <1>5 DEF TurnOK
  <2> QED BY <1>1, <2>1, <2>2, <2>3, <2>4 DEF TurnOK
<1>15. CallsOK'
  BY <1>1, <1>5, NothingRuns
<1>16. ASSUME NEW d \in Contexts, NEW u \in ContextTokens PROVE EntryOK(d, u)'
  <2>1. /\ phase'[d] = "none" <=> phase[d] = "none"
        /\ phase[d] \in {"rejected", "done"} => phase'[d] = phase[d]
    BY <1>1, <1>4
  <2>2. CASE entries'[d][u] = entries[d][u] /\ built'[d][u] = built[d][u]
    BY <1>1, <1>2, <1>9, <2>1, <2>2, SameEntry
  <2>3. CASE c = "inner" /\ d = "outer" /\ u = "logger"
    <3>1. phase'["outer"] # "none" /\ Binds(order["outer"], "logger")
      <4>1. 1 \in DOMAIN order["outer"] /\ order["outer"][1].tok = "logger"
        BY <1>2 DEF Listed
      <4>2. Binds(order["outer"], "logger")
        BY <1>2, <4>1, Placed
      <4> QED BY <1>12, <4>2 DEF StagesOK
    <3>2. entries'[d][u] = Instance("outer", 1) /\ built'[d][u] = 1 /\ ~Awaited(d, u)'
      BY <1>1, <1>2, <1>7, <1>9, <2>3, AtSettling
    <3>3. ValueOK(d, u)'
      BY <2>3, <3>2 DEF ValueOK, Made
    <3>4. CountOK(d, u)'
      <4>1. entries'[d][u] \notin Unmade
        BY <3>2, Values DEF Unmade
      <4>2. 1 <= Copies(d, u)'
        BY DEF Copies
      <4> QED BY <3>2, <4>1, <4>2 DEF CountOK
    <3> QED BY <1>1, <2>3, <3>1, <3>3, <3>4 DEF EntryOK
  <2>4. CASE c = "inner" /\ d = "inner" /\ u \in {"logger", "derived"}
    <3>1. ~Awaited(d, u)' /\ phase'[d] = "done"
      BY <1>1, <1>4, <1>9, <2>4 DEF Awaited
    <3>2. CASE ~Binds(order[d], u)
      <4>1. u = "logger"
        BY <1>2, <2>4, <3>2 DEF OrderOK
      <4>2. built[d][u] = 0
        BY <3>2, EntryIs
      <4>3. entries'[d][u] = Absent /\ built'[d][u] = 0
        BY <1>7, <2>4, <4>1, <4>2
      <4> QED BY <1>1, <3>2, <4>3 DEF EntryOK
    <3>3. CASE Binds(order[d], u)
      <4>1. CountOK(d, u)
        BY <1>1, <2>4, <3>3, EntryIs
      <4>2. Copies(d, u)' = Copies(d, u)
        BY <2>4 DEF Copies
      <4>3. built'[d][u] <= Copies(d, u)'
        BY <1>7, <2>4, <4>1, <4>2 DEF CountOK
      <4>4. entries'[d][u] \notin Unmade
        BY <1>7, <2>4, Values DEF Unmade
      <4>5. CountOK(d, u)'
        BY <3>1, <4>3, <4>4 DEF CountOK
      <4>6. ValueOK(d, u)'
        BY <1>7, <2>4, <3>1 DEF ValueOK, Made
      <4> QED BY <1>1, <3>1, <3>3, <4>5, <4>6 DEF EntryOK
    <3> QED BY <3>2, <3>3
  <2> QED BY <1>2, <1>6, <1>7, <2>2, <2>3, <2>4
<1>17. LoggerOK'
  <2>1. CASE c = "inner"
    BY <1>7, <2>1 DEF LoggerOK
  <2>2. CASE c = "outer"
    BY <1>2, <1>4, <1>6, <2>2 DEF LoggerOK
  <2> QED BY <1>2, <2>1, <2>2
<1>18. BusOK'
  <2>1. /\ entries'["outer"]["bus"] = entries["outer"]["bus"] /\ built'["outer"]["bus"] = built["outer"]["bus"]
        /\ entries'["outer"]["client"] = entries["outer"]["client"]
    BY <1>2, <1>6, <1>7
  <2>2. BusAwaited' <=> BusAwaited
    BY <2>1 DEF BusAwaited
  <2>3. phase'["inner"] = "none" <=> phase["inner"] = "none"
    BY <1>1, <1>2, <1>4
  <2>4. phase'["outer"] \in {"evaluating", "awaiting"} => phase["outer"] = phase'["outer"]
    BY <1>2, <1>4
  <2>5. WellOrdered' <=> WellOrdered
    BY <1>1, Static
  <2> QED BY <1>1, <1>2, <1>8, <1>9, <2>1, <2>2, <2>3, <2>4, <2>5 DEF BusOK
<1> QED BY <1>10, <1>11, <1>12, <1>14, <1>15, <1>16, <1>17, <1>18 DEF DerivedInv


\* The inner context begins, with what is bound for it; the event bus may put its client in
\* the outer one.
InnerBegins ==
    /\ phase["inner"] = "none" /\ calls = <<>> /\ cursor["outer"] # 1
    /\ phase' = [phase EXCEPT !["inner"] = "loop"]
    /\ order' = order /\ listener' = listener /\ built' = built /\ cursor' = cursor
    /\ calls' = calls /\ origin' = origin
    /\ DOMAIN entries' = Contexts /\ entries'["inner"] = Unresolved("inner")
    /\ DOMAIN entries'["outer"] = ContextTokens
    /\ \A t \in ContextTokens :
          \/ entries'["outer"][t] = entries["outer"][t]
          \/ t = "client" /\ entries["outer"][t] # Absent /\ entries'["outer"][t] = Client
    /\ ~ByBus => phase["outer"] = "done" /\ bus' = "none"
    /\ bus' \in {"none", "constructing"}
    /\ EagerlyBound(order["outer"], "bus") => entries'["outer"]["client"] \in {Absent, Client}

LEMMA InnerBeginsKeeps == ASSUME DerivedInv, InnerBegins, bus # "none" \/ ~ByBus PROVE DerivedInv'
<1>1. /\ phase["inner"] = "none" /\ calls = <<>> /\ cursor["outer"] # 1
      /\ phase' = [phase EXCEPT !["inner"] = "loop"]
      /\ order' = order /\ listener' = listener /\ built' = built /\ cursor' = cursor
      /\ calls' = calls /\ origin' = origin
      /\ DOMAIN entries' = Contexts /\ entries'["inner"] = Unresolved("inner")
      /\ DOMAIN entries'["outer"] = ContextTokens
      /\ \A t \in ContextTokens :
            \/ entries'["outer"][t] = entries["outer"][t]
            \/ t = "client" /\ entries["outer"][t] # Absent /\ entries'["outer"][t] = Client
      /\ ~ByBus => phase["outer"] = "done" /\ bus' = "none"
      /\ bus' \in {"none", "constructing"}
      /\ EagerlyBound(order["outer"], "bus") => entries'["outer"]["client"] \in {Absent, Client}
  BY DEF InnerBegins
<1>2. /\ OrderOK /\ DerivedTypes /\ StagesOK /\ CallsOK /\ LoggerOK /\ BusOK
      /\ Contexts = {"outer", "inner"}
      /\ \A d \in Contexts : /\ Listed(order[d]) /\ DOMAIN order[d] = 1 .. Len(order[d])
                             /\ Len(order[d]) \in Nat /\ Len(order[d]) >= 1
                             /\ cursor[d] \in 1 .. Len(order[d]) + 1 /\ TurnOK(d)
      /\ \A d \in Contexts : \A u \in ContextTokens : EntryOK(d, u)
      /\ {"logger", "derived", "client", "bus"} \subseteq ContextTokens
  BY Givens
<1>3. /\ DOMAIN phase = Contexts
      /\ phase'["inner"] = "loop" /\ phase'["outer"] = phase["outer"]
  BY <1>1, <1>2 DEF DerivedTypes
<1>4. origin = "nobody"
  BY <1>1, <1>2 DEF CallsOK
<1>5. \A d \in Contexts : Turn(d)' = Turn(d)
  BY <1>1 DEF Turn
<1>6. \A d \in Contexts : \A u : Awaited(d, u)' <=> Awaited(d, u)
  BY <1>1, <1>2, <1>3, <1>5 DEF Awaited
<1>7. /\ DOMAIN Unresolved("inner") = ContextTokens
      /\ \A u \in ContextTokens :
            Unresolved("inner")[u] = IF ~Binds(order["inner"], u) THEN Absent
                                     ELSE IF EagerlyBound(order["inner"], u) THEN Eager ELSE Lazy
  BY <1>2, UnresolvedIs
<1>8. cursor["inner"] = 1
  BY <1>1, <1>2 DEF StagesOK
<1>9. OrderOK'
  BY <1>1, <1>2, Static
<1>10. DerivedTypes'
  <2>1. phase' \in [Contexts -> Phases]
    BY <1>1, <1>2 DEF DerivedTypes, Phases
  <2>2. \A d \in Contexts : DOMAIN entries'[d] = ContextTokens
    BY <1>1, <1>2, <1>7
  <2> QED BY <1>1, <1>2, <2>1, <2>2 DEF DerivedTypes
<1>11. StagesOK'
  <2>1. ByBus' <=> ByBus
    BY <1>1, Static
  <2> QED BY <1>1, <1>2, <1>3, <2>1 DEF StagesOK
<1>12. ASSUME NEW u \in ContextTokens, entries["outer"][u] \notin Unmade
       PROVE  entries'["outer"][u] \notin Unmade
  BY <1>1, <1>12, Values DEF Unmade
<1>13. ASSUME NEW d \in Contexts PROVE TurnOK(d)'
  <2>1. CASE d = "outer"
    <3>1. ASSUME NEW i \in DOMAIN order[d], i < cursor[d], order[d][i].eager
          PROVE  entries'[d][order[d][i].tok] \notin Unmade
      <4>1. order[d][i].tok \in ContextTokens /\ entries[d][order[d][i].tok] \notin Unmade
        BY <1>2, <3>1, Placed DEF TurnOK
      <4> QED BY <1>12, <2>1, <4>1
    <3>2. TurnOK(d)
      BY <1>2
    <3> QED BY <1>1, <1>3, <2>1, <3>1, <3>2 DEF TurnOK
  <2>2. CASE d = "inner"
    <3>1. ~\E i \in DOMAIN order[d] : i < cursor'[d]
      BY <1>1, <1>2, <1>8, <2>2
    <3> QED BY <1>1, <1>2, <1>3, <1>4, <2>2, <3>1 DEF TurnOK
  <2> QED BY <1>2, <2>1, <2>2
<1>14. CallsOK'
  BY <1>1, <1>4, NothingRuns
<1>15. ASSUME NEW d \in Contexts, NEW u \in ContextTokens PROVE EntryOK(d, u)'
  <2>1. CASE d = "outer" /\ entries'[d][u] = entries[d][u]
    BY <1>1, <1>2, <1>3, <1>6, <2>1, SameEntry
  <2>2. CASE d = "outer" /\ entries'[d][u] # entries[d][u]
    <3>1. u = "client" /\ entries[d][u] # Absent /\ entries'[d][u] = Client
      BY <1>1, <2>2
    <3>2. /\ phase[d] # "none" /\ Binds(order[d], u)
          /\ ValueOK(d, u) /\ CountOK(d, u)
      BY <3>1, EntryIs
    <3>3. ValueOK(d, u)'
      BY <2>2, <3>1 DEF ValueOK, Made
    <3>4. Copies(d, u)' = Copies(d, u)
      BY <1>1, Static DEF Copies
    <3>5. built'[d][u] <= Copies(d, u)'
      BY <1>1, <3>2, <3>4 DEF CountOK
    <3>6. entries'[d][u] \notin Unmade
      BY <3>1, Values DEF Unmade
    <3>7. CountOK(d, u)'
      BY <3>1, <3>5, <3>6 DEF CountOK
    <3> QED BY <1>1, <1>3, <2>2, <3>2, <3>3, <3>7 DEF EntryOK
  <2>3. CASE d = "inner"
    <3>1. entries'[d][u] = IF ~Binds(order[d], u) THEN Absent
                           ELSE IF EagerlyBound(order[d], u) THEN Eager ELSE Lazy
      BY <1>1, <1>7, <2>3
    <3>2. built'[d][u] = 0 /\ ~Awaited(d, u)'
      <4>1. built[d][u] = 0
        BY <1>1, <2>3, EntryIs
      <4> QED BY <1>1, <1>2, <1>6, <2>3, <4>1 DEF Awaited
    <3>3. Binds(order[d], u) => ValueOK(d, u)'
      BY <1>1, <3>1 DEF ValueOK
    <3>4. CountOK(d, u)'
      BY <3>2 DEF CountOK, Copies
    <3>5. phase'[d] # "none" /\ order'[d] = order[d]
      BY <1>1, <1>3, <2>3
    <3>6. ~Binds(order[d], u) => entries'[d][u] = Absent /\ built'[d][u] = 0
      BY <3>1, <3>2
    <3> QED BY <3>3, <3>4, <3>5, <3>6 DEF EntryOK
  <2> QED BY <1>2, <2>1, <2>2, <2>3
<1>16. LoggerOK'
  BY <1>3 DEF LoggerOK
<1>17. BusOK'
  <2> SUFFICES ASSUME EagerlyBound(order["outer"], "bus"), BusAwaited' \/ WellOrdered
               PROVE  /\ entries'["outer"]["client"] \in {Absent, Client}
                      /\ phase["outer"] \in {"evaluating", "awaiting"} => Turn("outer") # "client"
    BY <1>1, <1>2, <1>3, <1>5, Static DEF BusOK
  <2>1. ByBus /\ bus # "none"
    BY DEF ByBus, EagerlyBound
  <2>2. BusAwaited' <=> BusAwaited
    <3>1. entries'["outer"]["bus"] = entries["outer"]["bus"]
      BY <1>1, <1>2
    <3> QED BY <1>1, <3>1 DEF BusAwaited
  <2>3. Awaited("outer", "bus")
    BY <1>1, <1>2, <2>1, <2>2 DEF BusOK
  <2> QED BY <1>1, <2>3 DEF Awaited
<1> QED BY <1>9, <1>10, <1>11, <1>13, <1>14, <1>15, <1>16, <1>17 DEF DerivedInv

\* A user makes a context of the resolved one.
LEMMA ConstructKeeps == ASSUME DerivedInv, Construct PROVE DerivedInv'
<1>1. /\ phase["outer"] = "done" /\ phase["inner"] = "none" /\ ~ByBus /\ calls = <<>>
      /\ entries' = [entries EXCEPT !["inner"] = Unresolved("inner")]
      /\ phase' = [phase EXCEPT !["inner"] = "loop"]
      /\ order' = order /\ listener' = listener /\ built' = built /\ cursor' = cursor
      /\ calls' = calls /\ origin' = origin /\ bus' = bus
  BY DEF Construct, Resting
<1>2. /\ StagesOK /\ Contexts = {"outer", "inner"} /\ TurnOK("outer")
      /\ Len(order["outer"]) \in Nat /\ Len(order["outer"]) >= 1 /\ cursor["outer"] \in 1 .. Len(order["outer"]) + 1
  BY Givens
<1>3. cursor["outer"] # 1
  BY <1>1, <1>2 DEF TurnOK
<1>4. DOMAIN entries = Contexts /\ \A d \in Contexts : DOMAIN entries[d] = ContextTokens
  BY Givens DEF DerivedTypes
<1>5. /\ entries'["inner"] = Unresolved("inner") /\ entries'["outer"] = entries["outer"] /\ DOMAIN entries' = Contexts
      /\ DOMAIN entries'["outer"] = ContextTokens
  BY <1>1, <1>2, <1>4
<1>6. bus = "none" /\ ~EagerlyBound(order["outer"], "bus")
  BY <1>1, <1>2 DEF StagesOK, EagerlyBound, ByBus
<1>7. InnerBegins
  BY <1>1, <1>3, <1>5, <1>6 DEF InnerBegins
<1> QED BY <1>1, <1>7, InnerBeginsKeeps

\* EventBus makes its context, and puts its client where one is bound.
LEMMA BusConstructsKeeps == ASSUME DerivedInv, BusConstructs PROVE DerivedInv'
<1>1. /\ bus = "making" /\ phase["inner"] = "none" /\ calls = <<>> /\ bus' = "constructing"
      /\ entries' = [outer |-> IF entries["outer"]["client"] = Absent THEN entries["outer"]
                               ELSE [entries["outer"] EXCEPT !["client"] = Client],
                     inner |-> Unresolved("inner")]
      /\ phase' = [phase EXCEPT !["inner"] = "loop"]
      /\ order' = order /\ listener' = listener /\ built' = built /\ cursor' = cursor
      /\ calls' = calls /\ origin' = origin
  BY DEF BusConstructs, Resting
<1>2. StagesOK /\ Contexts = {"outer", "inner"} /\ "client" \in ContextTokens
  BY Givens
<1>3. cursor["outer"] # 1 /\ ByBus
  BY <1>1, <1>2 DEF StagesOK
<1>4. DOMAIN entries = Contexts /\ \A d \in Contexts : DOMAIN entries[d] = ContextTokens
  BY Givens DEF DerivedTypes
<1> DEFINE new == [entries["outer"] EXCEPT !["client"] = Client]
<1>5. /\ DOMAIN new = ContextTokens /\ new["client"] = Client
      /\ \A t \in ContextTokens : t # "client" => new[t] = entries["outer"][t]
  BY <1>2, <1>4
<1>6. /\ entries'["inner"] = Unresolved("inner") /\ DOMAIN entries' = Contexts
      /\ entries'["outer"] = IF entries["outer"]["client"] = Absent THEN entries["outer"] ELSE new
  BY <1>1, <1>2
<1> HIDE DEF new
<1>7. /\ DOMAIN entries'["outer"] = ContextTokens
      /\ entries'["outer"]["client"] \in {Absent, Client}
      /\ \A t \in ContextTokens :
            \/ entries'["outer"][t] = entries["outer"][t]
            \/ t = "client" /\ entries["outer"][t] # Absent /\ entries'["outer"][t] = Client
  BY <1>2, <1>4, <1>5, <1>6
<1>8. InnerBegins
  BY <1>1, <1>3, <1>6, <1>7 DEF InnerBegins
<1> QED BY <1>1, <1>8, InnerBeginsKeeps


\* What is looked up leaves the maps and the resolves as they are, but that one may end in
\* an error.
Looks ==
    /\ order' = order /\ listener' = listener /\ entries' = entries /\ built' = built /\ cursor' = cursor
    /\ calls' \in Seq(Evaluations) /\ origin' \in {"nobody", "outer", "inner", "bus", "user"}
    /\ \/ phase' = phase /\ \A c \in Contexts : origin' = c <=> origin = c
       \/ \E by \in Contexts : /\ origin = by /\ origin' = "nobody"
                               /\ phase' = [phase EXCEPT ![by] = "rejected"]
    /\ bus' = bus \/ (bus # "none" /\ phase["inner"] # "none" /\ bus' \in {"attaching", "failed", "up"})

LEMMA LooksKeeps == ASSUME DerivedInv, Looks, CallsOK' PROVE DerivedInv'
<1>1. /\ order' = order /\ listener' = listener /\ entries' = entries /\ built' = built /\ cursor' = cursor
      /\ calls' \in Seq(Evaluations) /\ origin' \in {"nobody", "outer", "inner", "bus", "user"}
      /\ \/ phase' = phase /\ \A c \in Contexts : origin' = c <=> origin = c
         \/ \E by \in Contexts : /\ origin = by /\ origin' = "nobody"
                                 /\ phase' = [phase EXCEPT ![by] = "rejected"]
      /\ bus' = bus \/ (bus # "none" /\ phase["inner"] # "none" /\ bus' \in {"attaching", "failed", "up"})
  BY DEF Looks
<1>2. /\ OrderOK /\ DerivedTypes /\ StagesOK /\ CallsOK /\ LoggerOK /\ BusOK
      /\ Contexts = {"outer", "inner"}
      /\ \A d \in Contexts : TurnOK(d)
      /\ \A d \in Contexts : \A u \in ContextTokens : EntryOK(d, u)
      /\ {"logger", "derived", "client", "bus"} \subseteq ContextTokens
  BY Givens
<1>3. DOMAIN phase = Contexts /\ phase' \in [Contexts -> Phases]
  BY <1>1, <1>2 DEF DerivedTypes, Phases
<1>4. /\ \A d \in Contexts : \/ phase'[d] = phase[d] /\ (origin' = d <=> origin = d)
                             \/ phase[d] = "evaluating" /\ phase'[d] = "rejected" /\ origin' # d
  <2>1. CASE phase' = phase /\ \A c \in Contexts : origin' = c <=> origin = c
    BY <2>1
  <2>2. CASE ~(phase' = phase /\ \A c \in Contexts : origin' = c <=> origin = c)
    <3>1. PICK by \in Contexts : /\ origin = by /\ origin' = "nobody"
                                 /\ phase' = [phase EXCEPT ![by] = "rejected"]
      BY <1>1, <2>2
    <3>2. phase[by] = "evaluating"
      BY <1>2, <3>1 DEF TurnOK
    <3> QED BY <1>2, <1>3, <3>1, <3>2
  <2> QED BY <2>1, <2>2
<1>5. \A d \in Contexts : Turn(d)' = Turn(d)
  BY <1>1 DEF Turn
<1>6. \A d \in Contexts : \A u : Awaited(d, u)' <=> Awaited(d, u)
  BY <1>4, <1>5 DEF Awaited
<1>7. OrderOK' /\ (ByBus' <=> ByBus) /\ (WellOrdered' <=> WellOrdered)
  BY <1>1, <1>2, Static
<1>8. DerivedTypes'
  <2>1. bus' \in {"none", "making", "constructing", "attaching", "up", "failed"}
    BY <1>1, <1>2 DEF DerivedTypes
  <2> QED BY <1>1, <1>2, <1>3, <2>1 DEF DerivedTypes
<1>9. StagesOK'
  <2>1. \A d \in Contexts : (phase'[d] = "none" <=> phase[d] = "none") /\ (phase[d] = "done" => phase'[d] = "done")
    BY <1>4
  <2> QED BY <1>1, <1>2, <1>7, <2>1 DEF StagesOK
<1>10. ASSUME NEW d \in Contexts PROVE TurnOK(d)'
  <2>1. TurnOK(d)
    BY <1>2
  <2> QED BY <1>1, <1>4, <2>1 DEF TurnOK
<1>11. ASSUME NEW d \in Contexts, NEW u \in ContextTokens PROVE EntryOK(d, u)'
  <2>1. phase'[d] = "none" <=> phase[d] = "none"
    BY <1>4
  <2>2. phase[d] \in {"rejected", "done"} => phase'[d] = phase[d]
    BY <1>4
  <2> QED BY <1>1, <1>2, <1>6, <2>1, <2>2, SameEntry
<1>12. LoggerOK'
  BY <1>1, <1>2, <1>4 DEF LoggerOK
<1>13. BusOK'
  <2>1. BusAwaited' <=> BusAwaited
    BY <1>1 DEF BusAwaited
  <2>2. phase'["inner"] = "none" <=> phase["inner"] = "none"
    BY <1>2, <1>4
  <2>3. phase'["outer"] \in {"evaluating", "awaiting"} => phase["outer"] = phase'["outer"]
    BY <1>2, <1>4
  <2>4. phase["inner"] = "none" => bus' = bus
    BY <1>1
  <2> QED BY <1>1, <1>2, <1>5, <1>6, <1>7, <2>1, <2>2, <2>3, <2>4 DEF BusOK
<1> QED BY <1>7, <1>8, <1>9, <1>10, <1>11, <1>12, <1>13 DEF DerivedInv

\* What the evaluations in progress mean does not depend on them.
LEMMA SameEvaluations ==
    ASSUME order' = order, listener' = listener, entries' = entries, cursor' = cursor,
           phase["inner"] = "done" => phase'["inner"] = "done",
           NEW s, NEW by
    PROVE  /\ EvaluationsOK(s, by) => EvaluationsOK(s, by)'
           /\ FirstOK(s, by) => FirstOK(s, by)'
<1>1. (\A c, t : Asks(c, t)' = Asks(c, t)) /\ \A c, rank : Ranks(c, rank)' <=> Ranks(c, rank)
  BY Static
<1>2. \A f : EvaluationOK(f, by) => EvaluationOK(f, by)'
  BY <1>1 DEF EvaluationOK
<1>3. EvaluationsOK(s, by) => EvaluationsOK(s, by)'
  BY <1>1, <1>2 DEF EvaluationsOK, Descends
<1>4. FirstOK(s, by) => FirstOK(s, by)'
  BY <1>1 DEF FirstOK, Turn
<1> QED BY <1>3, <1>4


LEMMA CallsBecome ==
    ASSUME order' = order, listener' = listener, entries' = entries, cursor' = cursor,
           phase["inner"] = "done" => phase'["inner"] = "done",
           NEW s, NEW by, calls' = s, origin' = by, EvaluationsOK(s, by), FirstOK(s, by),
           s = <<>> <=> by = "nobody",
           by = "user" => phase'["outer"] = "done" \/ phase'["inner"] = "done",
           by = "bus" => phase'["inner"] = "done" /\ bus' # "none"
    PROVE  CallsOK'
<1>1. EvaluationsOK(s, by)' /\ FirstOK(s, by)'
  BY SameEvaluations
<1>2. EvaluationsOK(calls, origin)' /\ FirstOK(calls, origin)'
  BY <1>1
<1> QED BY <1>2 DEF CallsOK

\* The innermost evaluation.
LEMMA Innermost ==
    ASSUME DerivedInv, calls # <<>>
    PROVE  /\ Head(calls) = calls[1] /\ calls[1] \in Evaluations /\ EvaluationOK(calls[1], origin)
           /\ Len(calls) \in Nat /\ Len(calls) >= 1 /\ (calls[1].tok = "listener" => Len(calls) = 1)
           /\ origin \in {"outer", "inner", "bus", "user"}
<1>1. CallsOK /\ DerivedTypes
  BY Givens
<1>2. calls \in Seq(Evaluations) /\ EvaluationsOK(calls, origin)
  BY <1>1 DEF CallsOK, EvaluationsOK
<1>3. Len(calls) \in Nat /\ Len(calls) >= 1 /\ 1 \in 1 .. Len(calls) /\ Head(calls) = calls[1] /\ calls[1] \in Evaluations
  BY <1>2
<1>4. EvaluationOK(calls[1], origin) /\ (calls[1].tok = "listener" => Len(calls) = 1)
  BY <1>2, <1>3 DEF EvaluationsOK
<1> QED BY <1>1, <1>3, <1>4 DEF CallsOK, DerivedTypes

\* The listener of an event bus is attached.
LEMMA BusListensKeeps == ASSUME DerivedInv, BusListens PROVE DerivedInv'
<1> DEFINE f == [for |-> "inner", in |-> "inner", tok |-> "listener", todo |-> {"logger"} \union listener]
<1>1. /\ bus = "constructing" /\ phase["inner"] = "done" /\ calls = <<>> /\ bus' = "attaching"
      /\ calls' = <<f>> /\ origin' = "bus"
      /\ order' = order /\ listener' = listener /\ entries' = entries /\ built' = built /\ cursor' = cursor
      /\ phase' = phase
  BY DEF BusListens, Resting
<1>2. CallsOK /\ OrderOK /\ Contexts = {"outer", "inner"} /\ "logger" \in ContextTokens
  BY Givens
<1>3. f \in Evaluations
  BY <1>2 DEF Evaluations, OrderOK
<1>4. EvaluationOK(f, "bus")
  BY <1>1 DEF EvaluationOK
<1>5. f.in = "inner" /\ f.tok = "listener"
  OBVIOUS
<1> HIDE DEF f
<1>6. EvaluationsOK(<<f>>, "bus") /\ FirstOK(<<f>>, "bus")
  <2>1. <<f>> \in Seq(Evaluations) /\ Len(<<f>>) = 1 /\ <<f>>[1] = f
    BY <1>3
  <2>2. \A c \in Contexts : \A rank : Descends(<<f>>, c, rank)
    BY <2>1 DEF Descends
  <2> QED BY <1>2, <1>4, <1>5, <2>1, <2>2 DEF EvaluationsOK, FirstOK
<1>7. CallsOK'
  <2>1. <<f>> # <<>>
    OBVIOUS
  <2> QED BY <1>1, <1>6, <2>1, CallsBecome
<1>8. Looks
  <2>1. calls' \in Seq(Evaluations)
    BY <1>1, <1>3
  <2>2. origin = "nobody"
    BY <1>1, <1>2 DEF CallsOK
  <2> QED BY <1>1, <1>2, <2>1, <2>2 DEF Looks
<1> QED BY <1>7, <1>8, LooksKeeps

\* A middleware or an effect of the listener throws.
LEMMA ListenerRaisesKeeps == ASSUME DerivedInv, ListenerRaises PROVE DerivedInv'
<1>1. /\ calls # <<>> /\ Head(calls).tok = "listener" /\ bus' = "failed" /\ calls' = <<>> /\ origin' = "nobody"
      /\ order' = order /\ listener' = listener /\ entries' = entries /\ built' = built /\ cursor' = cursor
      /\ phase' = phase
  BY DEF ListenerRaises, Resting
<1>2. origin = "bus"
  BY <1>1, Innermost DEF EvaluationOK
<1>3. phase["inner"] = "done" /\ bus # "none" /\ Contexts = {"outer", "inner"}
  BY <1>2, Givens DEF CallsOK
<1>4. CallsOK'
  BY <1>1, NothingRuns
<1>5. Looks
  BY <1>1, <1>2, <1>3 DEF Looks
<1> QED BY <1>4, <1>5, LooksKeeps


\* Where a lookup looks, and what it finds.
Falls(c, t) == c = "inner" /\ entries[c][t] = Absent
Link == entries["inner"]["derived"]
At(c, t) == IF Falls(c, t) /\ Link # Absent THEN "outer" ELSE c
Found(c, t) == IF Falls(c, t) /\ Link \in Unmade THEN Void ELSE entries[At(c, t)][t]
Asked(c, t) == [for |-> c, in |-> At(c, t), tok |-> t, todo |-> Asks(At(c, t), t)]

\* Who asks: the innermost evaluation, or a user of a resolved context.
Asker(c, t, by, below) ==
    /\ below # <<>> =>
          /\ origin = by /\ by \in {"outer", "inner", "bus", "user"}
          /\ below[1].in = c /\ (below[1].tok # "listener" => t \in Asks(c, below[1].tok))
          /\ by = "user" => phase["outer"] = "done" \/ phase["inner"] = "done"
          /\ by = "bus" => phase["inner"] = "done" /\ bus # "none"
    /\ below = <<>> => by = "user" /\ origin = "nobody" /\ phase[c] = "done"
    /\ EvaluationsOK(below, by) /\ FirstOK(below, by)

LEMMA LookUpCases ==
    ASSUME NEW c, NEW t, NEW by, NEW below, LookUp(c, t, by, below)
    PROVE  \/ Found(c, t) = Void /\ LookupThrows(by, c, t)
           \/ /\ Found(c, t) \in Unmade /\ calls' = <<Asked(c, t)>> \o below /\ origin' = by /\ saw' = {}
              /\ phase' = phase /\ bus' = bus
           \/ /\ Found(c, t) \notin Unmade \cup {Void} /\ calls' = below
              /\ origin' = (IF below = <<>> THEN "nobody" ELSE by)
              /\ Seen(c, t, Found(c, t)) /\ phase' = phase /\ bus' = bus
<1>1. Void \notin Unmade
  BY Values DEF Unmade
<1> QED BY <1>1 DEF LookUp, Found, At, Falls, Link, Asked, Unmade

\* What is evaluated for a lookup is bound where it looks.
LEMMA AskedIs ==
    ASSUME DerivedInv, NEW c \in Contexts, NEW t \in ContextTokens, NEW by, NEW below, Asker(c, t, by, below),
           Found(c, t) \in Unmade
    PROVE  EvaluationsOK(<<Asked(c, t)>> \o below, by) /\ FirstOK(<<Asked(c, t)>> \o below, by)
<1>1. /\ OrderOK /\ StagesOK /\ LoggerOK /\ Contexts = {"outer", "inner"} /\ Listed(order["outer"]) /\ Listed(order["inner"])
      /\ {"logger", "derived"} \subseteq ContextTokens /\ "listener" \notin ContextTokens
  BY Givens
<1>0. PICK at, f : at = At(c, t) /\ f = Asked(c, t)
  OBVIOUS
<1>2. f.for = c /\ f.in = at /\ f.tok = t /\ f.todo = Asks(at, t)
  BY <1>0 DEF Asked
<1>3. at \in Contexts /\ entries[at][t] \in Unmade /\ ~(Falls(c, t) /\ Link \in Unmade)
  BY <1>0, <1>1, Values DEF At, Found, Falls, Unmade
<1>4. Binds(order[at], t) /\ phase[at] # "none"
  BY <1>3, EntryIs
<1>5. f \in Evaluations
  <2>1. Asks(at, t) \subseteq ContextTokens
    BY <1>1, <1>3, AsksOf
  <2> QED BY <1>0, <1>3, <2>1 DEF Evaluations, Asked
<1>6. c = "outer" => at = "outer"
  BY <1>0 DEF At, Falls
<1>7. ASSUME c = "inner", at = "outer" PROVE ~Binds(order["inner"], t)
  <2>1. entries["inner"][t] = Absent /\ entries["inner"]["derived"] # Absent
    BY <1>0, <1>7 DEF At, Falls, Link
  <2>2. phase["inner"] # "none"
    BY <1>1, <2>1, EntryIs
  <2>3. t = "logger" /\ phase["inner"] = "done" => FALSE
    BY <1>3, <1>1, <1>7, Values DEF LoggerOK, Unmade
  <2> QED BY <1>1, <2>1, <2>2, <2>3, EntryIs
<1>8. below \in Seq(Evaluations) /\ EvaluationsOK(below, by) /\ FirstOK(below, by)
  BY DEF Asker, EvaluationsOK
<1>9. below # <<>> => EvaluationOK(below[1], by) /\ Len(below) \in Nat /\ Len(below) >= 1 /\ below[1] \in Evaluations
  BY <1>8 DEF EvaluationsOK
<1>10. c = "inner" => by = "inner" \/ phase["inner"] = "done"
  <2>1. CASE below = <<>>
    BY <2>1 DEF Asker
  <2>2. CASE below # <<>>
    <3>1. c = "inner" => below[1].for = "inner"
      BY <1>9, <1>1, <2>2 DEF Asker, EvaluationOK, Evaluations
    <3> QED BY <1>9, <2>2, <3>1 DEF EvaluationOK
  <2> QED BY <2>1, <2>2
<1>11. EvaluationOK(f, by)
  BY <1>1, <1>2, <1>3, <1>4, <1>6, <1>7, <1>10 DEF EvaluationOK
<1>12. EvaluationsOK(<<f>> \o below, by)
  <2>1. f.tok # "listener"
    BY <1>1, <1>2
  <2>2. below # <<>> => /\ below[1].in = f.for
                        /\ below[1].in = f.in /\ below[1].tok # "listener" => f.tok \in Asks(f.in, below[1].tok)
    BY <1>2 DEF Asker
  <2> QED BY <1>1, <1>5, <1>8, <1>11, <2>1, <2>2, OneMore
<1>13. FirstOK(<<f>> \o below, by)
  <2> SUFFICES ASSUME by \in Contexts
               PROVE  LET s == <<f>> \o below IN
                      /\ s[Len(s)].for = by /\ s[Len(s)].in = by /\ s[Len(s)].tok = Turn(by)
                      /\ Asks(by, Turn(by)) = {} => Len(s) = 1
    BY DEF FirstOK
  <2>1. below # <<>>
    BY <1>1 DEF Asker
  <2>2. /\ below[Len(below)].for = by /\ below[Len(below)].in = by /\ below[Len(below)].tok = Turn(by)
        /\ Asks(by, Turn(by)) = {} => Len(below) = 1
    BY <1>8, <2>1 DEF FirstOK
  <2>3. Asks(by, Turn(by)) # {}
    <3> SUFFICES ASSUME Asks(by, Turn(by)) = {} PROVE FALSE
      OBVIOUS
    <3>1. below[1].in = by /\ below[1].tok = Turn(by)
      BY <2>2
    <3>2. below[1].tok # "listener"
      BY <1>1, <1>9, <2>1 DEF EvaluationOK
    <3> QED BY <2>1, <3>1, <3>2 DEF Asker
  <2> DEFINE q == <<f>> \o below
  <2>4. Len(q) = Len(below) + 1 /\ q[Len(below) + 1] = below[Len(below)]
    <3>1. Len(q) = Len(below) + 1 /\ \A i \in 2 .. Len(below) + 1 : q[i] = below[i - 1]
      BY <1>5, <1>8, Push
    <3> QED BY <1>9, <2>1, <3>1
  <2> QED BY <2>2, <2>3, <2>4
<1> QED BY <1>0, <1>12, <1>13


LEMMA LookUpKeeps ==
    ASSUME DerivedInv, NEW c \in Contexts, NEW t \in ContextTokens, NEW by, NEW below,
           LookUp(c, t, by, below), Asker(c, t, by, below),
           order' = order, listener' = listener, entries' = entries, built' = built, cursor' = cursor
    PROVE  DerivedInv'
<1>1. DerivedTypes /\ CallsOK /\ Contexts = {"outer", "inner"}
  BY Givens
<1>2. /\ below # <<>> => origin = by /\ by \in {"outer", "inner", "bus", "user"}
      /\ below # <<>> /\ by = "user" => phase["outer"] = "done" \/ phase["inner"] = "done"
      /\ below # <<>> /\ by = "bus" => phase["inner"] = "done" /\ bus # "none"
      /\ below = <<>> => by = "user" /\ origin = "nobody" /\ phase[c] = "done"
      /\ EvaluationsOK(below, by) /\ FirstOK(below, by)
  BY DEF Asker
<1>3. /\ by = "user" => phase["outer"] = "done" \/ phase["inner"] = "done"
      /\ by = "bus" => phase["inner"] = "done" /\ bus # "none"
      /\ by \in {"outer", "inner", "bus", "user"}
  BY <1>1, <1>2
<1>4. CASE Found(c, t) = Void /\ LookupThrows(by, c, t)
  <2>1. /\ calls' = <<>> /\ origin' = "nobody"
        /\ phase' = IF by \in Contexts THEN [phase EXCEPT ![by] = "rejected"] ELSE phase
        /\ bus' = IF by = "bus" THEN "failed" ELSE bus
    BY <1>4 DEF LookupThrows
  <2>2. CallsOK'
    BY <2>1, NothingRuns
  <2>3. by = "bus" => phase["inner"] # "none" /\ bus # "none"
    BY <1>3
  <2>4. by \in Contexts => origin = by
    BY <1>1, <1>2
  <2>5. by \notin Contexts => origin \notin Contexts
    BY <1>1, <1>2
  <2>6. \/ phase' = phase /\ \A d \in Contexts : origin' = d <=> origin = d
        \/ \E d \in Contexts : /\ origin = d /\ origin' = "nobody"
                               /\ phase' = [phase EXCEPT ![d] = "rejected"]
    <3>1. CASE by \in Contexts
      BY <2>1, <2>4, <3>1
    <3>2. CASE by \notin Contexts
      BY <1>1, <2>1, <2>5, <3>2
    <3> QED BY <3>1, <3>2
  <2>7. Looks
    <3>1. bus' = bus \/ (bus # "none" /\ phase["inner"] # "none" /\ bus' \in {"attaching", "failed", "up"})
      BY <2>1, <2>3
    <3>2. calls' \in Seq(Evaluations) /\ origin' \in {"nobody", "outer", "inner", "bus", "user"}
      BY <2>1
    <3> QED BY <2>6, <3>1, <3>2 DEF Looks
  <2> QED BY <2>2, <2>7, LooksKeeps
<1>5. CASE Found(c, t) \in Unmade /\ calls' = <<Asked(c, t)>> \o below /\ origin' = by
           /\ phase' = phase /\ bus' = bus
  <2>1. EvaluationsOK(<<Asked(c, t)>> \o below, by) /\ FirstOK(<<Asked(c, t)>> \o below, by)
    BY <1>5, AskedIs
  <2>2. PICK s : s = <<Asked(c, t)>> \o below
    OBVIOUS
  <2>3. s # <<>> /\ s \in Seq(Evaluations)
    <3>1. s \in Seq(Evaluations) /\ below \in Seq(Evaluations)
      BY <1>2, <2>1, <2>2 DEF EvaluationsOK
    <3>2. Len(s) >= 1
      BY <2>2, <3>1
    <3> QED BY <3>1, <3>2
  <2>4. CallsOK'
    BY <1>3, <1>5, <2>1, <2>2, <2>3, CallsBecome
  <2>5. \A d \in Contexts : origin' = d <=> origin = d
    BY <1>1, <1>2, <1>5
  <2>6. Looks
    BY <1>1, <1>3, <1>5, <2>2, <2>3, <2>5 DEF Looks
  <2> QED BY <2>4, <2>6, LooksKeeps
<1>6. CASE calls' = below /\ origin' = (IF below = <<>> THEN "nobody" ELSE by) /\ phase' = phase /\ bus' = bus
  <2>1. CASE below = <<>>
    <3>1. CallsOK' /\ origin' = origin
      BY <1>2, <1>6, <2>1, NothingRuns
    <3>2. Looks
      BY <1>1, <1>6, <2>1, <3>1 DEF Looks
    <3> QED BY <3>1, <3>2, LooksKeeps
  <2>2. CASE below # <<>>
    <3>1. origin' = by /\ by # "nobody" /\ origin' = origin
      BY <1>2, <1>6, <2>2
    <3>2. CallsOK'
      BY <1>2, <1>3, <1>6, <2>2, <3>1, CallsBecome
    <3>3. below \in Seq(Evaluations)
      BY <1>2 DEF EvaluationsOK
    <3>4. Looks
      BY <1>1, <1>3, <1>6, <3>1, <3>3 DEF Looks
    <3> QED BY <3>2, <3>4, LooksKeeps
  <2> QED BY <2>1, <2>2
<1> QED BY <1>4, <1>5, <1>6, LookUpCases

\* The innermost factory asks, with the evaluation it is called for below.
LEMMA AskerIs ==
    ASSUME DerivedInv, NEW t \in ContextTokens, FactoryAsks(t)
    PROVE  LET below == <<[Head(calls) EXCEPT !.todo = @ \ {t}]>> \o Tail(calls) IN
           /\ below # <<>> /\ Head(calls).in \in Contexts
           /\ Asker(Head(calls).in, t, origin, below)
<1> DEFINE head == [Head(calls) EXCEPT !.todo = @ \ {t}]
           below == <<head>> \o Tail(calls)
<1>1. calls # <<>> /\ t \in Head(calls).todo
  BY DEF FactoryAsks, Resting
<1>2. /\ Head(calls) = calls[1] /\ calls[1] \in Evaluations /\ EvaluationOK(calls[1], origin)
      /\ Len(calls) \in Nat /\ Len(calls) >= 1
      /\ origin \in {"outer", "inner", "bus", "user"}
  BY <1>1, Innermost
<1>3. /\ calls \in Seq(Evaluations) /\ EvaluationsOK(calls, origin) /\ FirstOK(calls, origin)
      /\ origin = "user" => phase["outer"] = "done" \/ phase["inner"] = "done"
      /\ origin = "bus" => phase["inner"] = "done" /\ bus # "none"
  BY Givens DEF CallsOK, EvaluationsOK
<1>4. /\ head \in Evaluations /\ head.for = calls[1].for /\ head.in = calls[1].in /\ head.tok = calls[1].tok
      /\ head.todo \subseteq calls[1].todo
  BY <1>2 DEF Evaluations
<1> HIDE DEF head
<1>5. Tail(calls) \in Seq(Evaluations) /\ Len(Tail(calls)) = Len(calls) - 1
      /\ \A i \in 1 .. Len(Tail(calls)) : Tail(calls)[i] = calls[i + 1]
  <2>1. calls \in Seq(Evaluations) /\ calls # <<>>
    BY <1>1, <1>3
  <2> QED BY <2>1, Pop
<1>6. /\ below \in Seq(Evaluations) /\ Len(below) = Len(Tail(calls)) + 1 /\ below[1] = head
      /\ \A i \in 2 .. Len(Tail(calls)) + 1 : below[i] = Tail(calls)[i - 1]
  BY <1>4, <1>5, Push
<1> HIDE DEF below
<1>7. Len(below) = Len(calls) /\ \A i \in 2 .. Len(calls) : below[i] = calls[i]
  BY <1>2, <1>5, <1>6
<1>8. \A i \in 1 .. Len(calls) : /\ below[i].for = calls[i].for /\ below[i].in = calls[i].in
                                 /\ below[i].tok = calls[i].tok /\ below[i].todo \subseteq calls[i].todo
  BY <1>2, <1>4, <1>6, <1>7
<1>9. EvaluationsOK(below, origin) /\ FirstOK(below, origin)
  <2>1. /\ EvaluationsOK(calls, origin) /\ FirstOK(calls, origin) /\ below \in Seq(Evaluations)
        /\ Len(below) = Len(calls)
    BY <1>2, <1>3, <1>6, <1>7
  <2> QED BY <1>8, <2>1, LessToAsk
<1>10. below # <<>>
  BY <1>2, <1>6, <1>7
<1>11. below[1].tok # "listener" => t \in Asks(calls[1].in, below[1].tok)
  BY <1>1, <1>2, <1>4, <1>6 DEF EvaluationOK
<1>12. Head(calls).in \in Contexts
  BY <1>2 DEF Evaluations
<1>13. Asker(Head(calls).in, t, origin, below)
  <2>1. below[1].in = Head(calls).in /\ (below[1].tok # "listener" => t \in Asks(Head(calls).in, below[1].tok))
    BY <1>2, <1>4, <1>6, <1>11
  <2> QED BY <1>2, <1>3, <1>9, <1>10, <2>1 DEF Asker
<1> QED BY <1>10, <1>12, <1>13 DEF below, head

LEMMA FactoryAsksKeeps == ASSUME DerivedInv, NEW t \in ContextTokens, FactoryAsks(t) PROVE DerivedInv'
<1>1. PICK c, below : c = Head(calls).in /\ below = <<[Head(calls) EXCEPT !.todo = @ \ {t}]>> \o Tail(calls)
  OBVIOUS
<1>2. PICK by : by = origin
  OBVIOUS
<1>3. LookUp(c, t, by, below)
  BY <1>1, <1>2 DEF FactoryAsks
<1>4. order' = order /\ listener' = listener /\ entries' = entries /\ built' = built /\ cursor' = cursor
  BY DEF FactoryAsks
<1>5. Asker(c, t, by, below) /\ c \in Contexts
  BY <1>1, <1>2, AskerIs
<1> QED BY <1>3, <1>4, <1>5, LookUpKeeps

\* A resolved context is used.
LEMMA UserAsksKeeps ==
    ASSUME DerivedInv, NEW c \in Contexts, NEW t \in ContextTokens, UserAsks(c, t) PROVE DerivedInv'
<1>1. /\ calls = <<>> /\ phase[c] = "done" /\ LookUp(c, t, "user", <<>>)
      /\ order' = order /\ listener' = listener /\ entries' = entries /\ built' = built /\ cursor' = cursor
  BY DEF UserAsks, Resting
<1>2. origin = "nobody"
  BY <1>1, Givens DEF CallsOK
<1>3. Asker(c, t, "user", <<>>)
  BY <1>1, <1>2, NoEvaluations DEF Asker
<1> QED BY <1>1, <1>3, LookUpKeeps


\* In good order the places of the bindings rank them.
LEMMA PlacesRank ==
    ASSUME DerivedInv, WellOrdered
    PROVE  Ranks("outer", [t \in ContextTokens |-> IF Binds(order["outer"], t) THEN Position(order["outer"], t) ELSE 0])
<1> DEFINE rank == [t \in ContextTokens |-> IF Binds(order["outer"], t) THEN Position(order["outer"], t) ELSE 0]
<1>1. Listed(order["outer"]) /\ DOMAIN order["outer"] = 1 .. Len(order["outer"]) /\ Len(order["outer"]) \in Nat
  BY Givens
<1>2. \A t : Binds(order["outer"], t) => Position(order["outer"], t) \in DOMAIN order["outer"]
  BY <1>1, Placed
<1>3. rank \in [ContextTokens -> Nat]
  BY <1>1, <1>2
<1>4. ASSUME NEW t \in ContextTokens, NEW u \in Asks("outer", t) PROVE u \in ContextTokens /\ rank[u] < rank[t]
  <2>1. Binds(order["outer"], t) /\ u \in order["outer"][Position(order["outer"], t)].asks /\ u \in ContextTokens
    BY <1>1, AsksOf
  <2>2. Position(order["outer"], t) \in DOMAIN order["outer"]
    BY <1>2, <2>1
  <2>3. Binds(order["outer"], u) => Position(order["outer"], u) < Position(order["outer"], t)
    BY <2>1, <2>2 DEF WellOrdered
  <2> QED BY <1>1, <2>1, <2>2, <2>3
<1> QED BY <1>3, <1>4 DEF Ranks

\* Nobody below the innermost evaluation is at the same token of the same context.
LEMMA NotTwice ==
    ASSUME DerivedInv, calls # <<>>, calls[1].tok # "listener", NEW i \in 1 .. Len(calls), i # 1,
           calls[i].tok # "listener", calls[i].in = calls[1].in
    PROVE  calls[i].tok # calls[1].tok
<1>1. EvaluationsOK(calls, origin) /\ OrderOK /\ calls[1] \in Evaluations /\ calls[i] \in Evaluations
  BY Givens, Innermost DEF CallsOK, EvaluationsOK
<1>2. PICK c \in Contexts : c = calls[1].in
  BY <1>1 DEF Evaluations
<1>3. PICK rank : Ranks(c, rank)
  BY <1>1 DEF OrderOK
<1>4. Descends(calls, c, rank)
  BY <1>1, <1>3 DEF EvaluationsOK
<1>5. rank[calls[1].tok] < rank[calls[i].tok]
  BY <1>2, <1>4 DEF Descends
<1>6. calls[1].tok \in ContextTokens
  BY <1>1 DEF Evaluations
<1>7. rank[calls[1].tok] \in Nat
  BY <1>3, <1>6 DEF Ranks
<1> QED BY <1>5, <1>7

\* Before the inner context exists, and before the outer one is resolved, only the outer
\* resolve evaluates anything.
LEMMA OnlyOuter ==
    ASSUME DerivedInv, calls # <<>>, phase["inner"] = "none", phase["outer"] # "done"
    PROVE  origin = "outer"
<1>1. CallsOK /\ TurnOK("inner") /\ origin \in {"outer", "inner", "bus", "user"}
  BY Givens, Innermost
<1> QED BY <1>1 DEF CallsOK, TurnOK

\* In good order nobody reaches the bus before its turn.
LEMMA BusNotReached ==
    ASSUME DerivedInv, WellOrdered, EagerlyBound(order["outer"], "bus"), phase["inner"] = "none",
           calls # <<>>, NEW t, calls[1].tok = t, calls[1].in = "outer", t \in ContextTokens,
           Binds(order["outer"], t), Len(calls) # 1
    PROVE  phase["outer"] = "evaluating" /\ origin = "outer"
           /\ Position(order["outer"], t) < Position(order["outer"], "bus")
<1>1. /\ BusOK /\ CallsOK /\ TurnOK("outer") /\ Listed(order["outer"]) /\ "outer" \in Contexts
      /\ DOMAIN order["outer"] = 1 .. Len(order["outer"]) /\ Len(order["outer"]) \in Nat
      /\ cursor["outer"] \in 1 .. Len(order["outer"]) + 1 /\ "listener" \notin ContextTokens
  BY Givens
<1>2. cursor["outer"] <= Position(order["outer"], "bus")
  BY <1>1 DEF BusOK
<1>3. \A u : Binds(order["outer"], u) => Position(order["outer"], u) \in 1 .. Len(order["outer"])
  BY <1>1, Placed
<1>4. Position(order["outer"], "bus") \in 1 .. Len(order["outer"])
  BY <1>3 DEF EagerlyBound
<1>5. phase["outer"] # "done"
  BY <1>1, <1>2, <1>4 DEF TurnOK
<1>6. origin = "outer"
  BY <1>5, OnlyOuter
<1>7. phase["outer"] = "evaluating" /\ cursor["outer"] \in DOMAIN order["outer"]
  BY <1>1, <1>6 DEF TurnOK
<1>8. /\ Turn("outer") \in ContextTokens /\ Binds(order["outer"], Turn("outer"))
      /\ Position(order["outer"], Turn("outer")) = cursor["outer"]
  BY <1>1, <1>7, AtTurn
<1>9. PICK rank : rank = [u \in ContextTokens |-> IF Binds(order["outer"], u) THEN Position(order["outer"], u) ELSE 0]
  OBVIOUS
<1>10. Ranks("outer", rank)
  BY <1>9, PlacesRank
<1>11. EvaluationsOK(calls, origin) /\ FirstOK(calls, origin)
  BY <1>1 DEF CallsOK
<1>12. Descends(calls, "outer", rank)
  BY <1>1, <1>10, <1>11 DEF EvaluationsOK
<1>13. calls[Len(calls)].in = "outer" /\ calls[Len(calls)].tok = Turn("outer")
  BY <1>1, <1>6, <1>11 DEF FirstOK
<1>14. Len(calls) \in Nat /\ Len(calls) > 1
  <2>1. Len(calls) \in Nat /\ Len(calls) >= 1 /\ Len(calls) # 1
    BY Innermost
  <2>2. \A n \in Nat : n >= 1 /\ n # 1 => n > 1
    OBVIOUS
  <2> QED BY <2>1, <2>2, Zenon
<1>15. rank[t] < rank[Turn("outer")]
  BY <1>1, <1>8, <1>12, <1>13, <1>14 DEF Descends
<1>16. Position(order["outer"], t) < cursor["outer"]
  BY <1>8, <1>9, <1>15
<1> QED BY <1>2, <1>3, <1>4, <1>6, <1>7, <1>16, <1>1


\* The effects of the event bus are attached.
LEMMA ListenerReturnsKeeps ==
    ASSUME DerivedInv, FactoryReturns, Head(calls).tok = "listener" PROVE DerivedInv'
<1>1. calls # <<>> /\ calls' = Tail(calls) /\ origin' = (IF Len(calls) = 1 THEN "nobody" ELSE origin)
      /\ order' = order /\ listener' = listener /\ cursor' = cursor
  BY DEF FactoryReturns, Resting
<1>2. Head(calls).tok \notin ContextTokens /\ "bus" \in ContextTokens /\ Contexts = {"outer", "inner"} /\ CallsOK
  BY Givens
<1>3. origin = "bus" /\ Len(calls) = 1 /\ calls \in Seq(Evaluations)
  BY <1>1, <1>2, Innermost DEF EvaluationOK, CallsOK, EvaluationsOK
<1>4. phase["inner"] = "done" /\ bus # "none"
  BY <1>2, <1>3 DEF CallsOK
<1>5. built' = built /\ entries' = entries /\ phase' = phase /\ bus' = "up"
  BY <1>2, <1>3 DEF FactoryReturns
<1>6. calls' = <<>> /\ origin' = "nobody"
  <2>1. Tail(calls) \in Seq(Evaluations) /\ Len(Tail(calls)) = 0
    BY <1>1, <1>3, Pop
  <2> QED BY <1>1, <1>3, <2>1
<1>7. CallsOK'
  BY <1>6, NothingRuns
<1>8. Looks
  BY <1>1, <1>2, <1>3, <1>4, <1>5, <1>6 DEF Looks
<1> QED BY <1>7, <1>8, LooksKeeps

\* A factory that returned a value has been asked for it once more.
Counts(c, t) == built' = [built EXCEPT ![c][t] = @ + 1]
LEMMA BuiltOnce ==
    ASSUME DerivedTypes, NEW c \in Contexts, NEW t \in ContextTokens, Counts(c, t)
    PROVE  /\ built' \in [Contexts -> [ContextTokens -> Nat]]
           /\ built'[c][t] = built[c][t] + 1
           /\ \A d \in Contexts : \A u \in ContextTokens : d # c \/ u # t => built'[d][u] = built[d][u]
<1>1. built \in [Contexts -> [ContextTokens -> Nat]]
  BY DEF DerivedTypes
<1> DEFINE new == [built[c] EXCEPT ![t] = @ + 1]
<1>2. built' = [built EXCEPT ![c] = new]
  BY DEF Counts
<1>3. new \in [ContextTokens -> Nat] /\ new[t] = built[c][t] + 1 /\ \A u \in ContextTokens : u # t => new[u] = built[c][u]
  BY <1>1
<1> HIDE DEF new
<1>4. built' \in [Contexts -> [ContextTokens -> Nat]] /\ built'[c] = new /\ \A d \in Contexts : d # c => built'[d] = built[d]
  BY <1>1, <1>2, <1>3
<1> QED BY <1>3, <1>4

\* The factory a resolve called returns, and is awaited.
LEMMA AwaitReturnsKeeps ==
    ASSUME DerivedInv, FactoryReturns, Len(calls) = 1, origin \in Contexts PROVE DerivedInv'
<1>0. PICK by \in Contexts, t \in {Turn(origin)} : by = origin /\ t = Turn(origin)
  OBVIOUS
<1>1. /\ OrderOK /\ DerivedTypes /\ StagesOK /\ CallsOK /\ LoggerOK /\ BusOK
      /\ Contexts = {"outer", "inner"}
      /\ \A d \in Contexts : /\ Listed(order[d]) /\ DOMAIN order[d] = 1 .. Len(order[d])
                             /\ Len(order[d]) \in Nat /\ Len(order[d]) >= 1
                             /\ cursor[d] \in 1 .. Len(order[d]) + 1 /\ TurnOK(d)
      /\ \A d \in Contexts : \A u \in ContextTokens : EntryOK(d, u)
      /\ {"logger", "derived", "client", "bus"} \subseteq ContextTokens
  BY Givens
<1>2. calls # <<>> /\ calls \in Seq(Evaluations)
  BY <1>1 DEF FactoryReturns, Resting, CallsOK, EvaluationsOK
<1>3. Head(calls) = calls[1] /\ calls[1].in = by /\ calls[1].tok = t
  <2>1. FirstOK(calls, origin)
    BY <1>1 DEF CallsOK
  <2>2. calls[1].in = origin /\ calls[1].tok = Turn(origin)
    BY <1>2, <2>1 DEF FirstOK
  <2> QED BY <1>0, <1>2, <2>2, Innermost
<1>4. phase[by] = "evaluating" /\ cursor[by] \in DOMAIN order[by] /\ order[by][cursor[by]].eager
  BY <1>0, <1>1 DEF TurnOK
<1>5. /\ t \in ContextTokens /\ Binds(order[by], t) /\ EagerlyBound(order[by], t)
      /\ Position(order[by], t) = cursor[by] /\ (t = "logger" <=> cursor[by] = 1)
  BY <1>0, <1>4, AtTurn
<1>6. t # "listener"
  BY <1>5, Givens
<1>7. entries[by][t] \in Unmade
  <2>1. EvaluationOK(calls[1], origin)
    BY <1>2, Innermost
  <2> QED BY <1>3, <1>6, <2>1 DEF EvaluationOK
<1>8. /\ calls' = Tail(calls) /\ origin' = "nobody" /\ built' = [built EXCEPT ![by][t] = @ + 1] /\ entries' = entries
      /\ phase' = [phase EXCEPT ![by] = "awaiting"] /\ bus' = IF t = "bus" THEN "making" ELSE bus
      /\ order' = order /\ listener' = listener /\ cursor' = cursor
  BY <1>0, <1>3, <1>5 DEF FactoryReturns
<1>9. calls' = <<>>
  <2>1. Tail(calls) \in Seq(Evaluations) /\ Len(Tail(calls)) = 0
    BY <1>2, Pop
  <2> QED BY <1>8, <2>1
<1>10. DOMAIN phase = Contexts /\ phase' \in [Contexts -> Phases]
  BY <1>1, <1>8 DEF DerivedTypes, Phases
<1>11. phase'[by] = "awaiting" /\ \A d \in Contexts : d # by => phase'[d] = phase[d]
  BY <1>8, <1>10
<1>12. /\ built' \in [Contexts -> [ContextTokens -> Nat]]
       /\ built'[by][t] = built[by][t] + 1
       /\ \A d \in Contexts : \A u \in ContextTokens : d # by \/ u # t => built'[d][u] = built[d][u]
  <2>1. Counts(by, t)
    BY <1>8 DEF Counts
  <2> QED BY <1>1, <1>5, <2>1, BuiltOnce
<1>13. \A d \in Contexts : Turn(d)' = Turn(d)
  BY <1>8 DEF Turn
<1>14. /\ \A d \in Contexts : \A u \in ContextTokens : d # by \/ u # t => (Awaited(d, u)' <=> Awaited(d, u))
       /\ Awaited(by, t)' /\ ~Awaited(by, t)
  BY <1>0, <1>4, <1>11, <1>13 DEF Awaited
<1>15. /\ ValueOK(by, t) /\ CountOK(by, t)
       /\ entries[by][t] = IF EagerlyBound(order[by], t) THEN Eager ELSE Lazy
  <2>1. ValueOK(by, t) /\ CountOK(by, t)
    BY <1>4, <1>5, EntryIs
  <2>2. \A x \in Unmade : x \notin Made(by, t) /\ x # Instance("outer", 2) /\ x # Absent
    BY Values DEF Made, Unmade
  <2> QED BY <1>7, <2>1, <2>2 DEF ValueOK
<1>16. built[by][t] = 0 /\ built'[by][t] = 1
  <2>1. built[by][t] = 0
    BY <1>4, <1>7, <1>14, <1>15 DEF CountOK
  <2> QED BY <1>12, <2>1
<1>17. t = "bus" => by = "outer" /\ cursor["outer"] # 1 /\ ByBus
  <2> SUFFICES ASSUME t = "bus" PROVE by = "outer" /\ cursor["outer"] # 1 /\ ByBus
    OBVIOUS
  <2>1. by = "outer"
    BY <1>1, <1>5 DEF OrderOK
  <2> QED BY <1>5, <2>1 DEF ByBus
<1>18. OrderOK' /\ (ByBus' <=> ByBus) /\ (WellOrdered' <=> WellOrdered)
  BY <1>1, <1>8, Static
<1>19. DerivedTypes'
  <2>1. bus' \in {"none", "making", "constructing", "attaching", "up", "failed"}
    BY <1>1, <1>8 DEF DerivedTypes
  <2>2. calls' \in Seq(Evaluations)
    BY <1>9
  <2> QED BY <1>1, <1>8, <1>10, <1>12, <2>1, <2>2 DEF DerivedTypes
<1>20. StagesOK'
  <2>1. \A d \in Contexts : (phase'[d] = "none" <=> phase[d] = "none")
    BY <1>4, <1>11
  <2>2. ~ByBus /\ phase["inner"] # "none" => phase'["outer"] = "done"
    BY <1>1, <1>4, <1>11 DEF StagesOK
  <2>3. cursor["outer"] = 1 => bus' = "none"
    BY <1>1, <1>8, <1>17 DEF StagesOK
  <2>4. (bus' # "none" => ByBus) /\ (bus' \in {"constructing", "attaching", "up", "failed"} => bus' = bus)
    BY <1>1, <1>8, <1>17 DEF StagesOK
  <2> QED BY <1>1, <1>8, <1>18, <2>1, <2>2, <2>3, <2>4 DEF StagesOK
<1>21. ASSUME NEW d \in Contexts PROVE TurnOK(d)'
  <2>1. TurnOK(d)
    BY <1>1
  <2>2. d # by => origin # d
    BY <1>0
  <2>3. CASE d = by
    BY <1>1, <1>4, <1>8, <1>11, <2>1, <2>3 DEF TurnOK
  <2>4. CASE d # by
    <3>1. phase'[d] = phase[d] /\ origin # d /\ origin' # d
      BY <1>1, <1>8, <1>11, <2>2, <2>4
    <3> QED BY <1>8, <2>1, <3>1 DEF TurnOK
  <2> QED BY <2>3, <2>4
<1>22. CallsOK'
  BY <1>8, <1>9, NothingRuns
<1>23. ASSUME NEW d \in Contexts, NEW u \in ContextTokens PROVE EntryOK(d, u)'
  <2>1. CASE d # by \/ u # t
    <3>1. /\ phase'[d] = "none" <=> phase[d] = "none"
          /\ phase[d] \in {"rejected", "done"} => phase'[d] = phase[d]
      BY <1>4, <1>11
    <3> QED BY <1>1, <1>8, <1>12, <1>14, <2>1, <3>1, SameEntry
  <2>2. CASE d = by /\ u = t
    <3>1. ValueOK(d, u)'
      BY <1>8, <1>15, <2>2 DEF ValueOK
    <3>2. 1 <= Copies(d, u)'
      BY DEF Copies
    <3>3. CountOK(d, u)'
      BY <1>7, <1>8, <1>14, <1>16, <2>2, <3>2 DEF CountOK
    <3> QED BY <1>5, <1>8, <1>11, <2>2, <3>1, <3>3 DEF EntryOK
  <2> QED BY <2>1, <2>2
<1>24. LoggerOK'
  BY <1>1, <1>8, <1>11 DEF LoggerOK
<1>25. BusOK'
  <2> SUFFICES ASSUME EagerlyBound(order["outer"], "bus"), BusAwaited' \/ WellOrdered
               PROVE  /\ phase'["inner"] = "none" =>
                            /\ cursor["outer"] <= Position(order["outer"], "bus") /\ entries["outer"]["bus"] = Eager
                            /\ bus' # "none" => Awaited("outer", "bus")'
                      /\ phase'["inner"] # "none" =>
                            /\ entries["outer"]["client"] \in {Absent, Client}
                            /\ phase'["outer"] \in {"evaluating", "awaiting"} => Turn("outer") # "client"
    BY <1>1, <1>8, <1>13, <1>18 DEF BusOK
  <2>1. BusAwaited' => BusAwaited
    <3>1. built["outer"]["bus"] <= built'["outer"]["bus"]
      <4>1. built["outer"]["bus"] \in Nat
        BY <1>1 DEF DerivedTypes
      <4> QED BY <1>1, <1>12, <4>1
    <3>2. built["outer"]["bus"] \in Nat /\ built'["outer"]["bus"] \in Nat
      BY <1>1, <1>12 DEF DerivedTypes
    <3> QED BY <1>8, <3>1, <3>2 DEF BusAwaited
  <2>2. /\ phase["inner"] = "none" =>
              /\ cursor["outer"] <= Position(order["outer"], "bus") /\ entries["outer"]["bus"] = Eager
              /\ bus # "none" => Awaited("outer", "bus")
        /\ phase["inner"] # "none" =>
              /\ entries["outer"]["client"] \in {Absent, Client}
              /\ phase["outer"] \in {"evaluating", "awaiting"} => Turn("outer") # "client"
    BY <1>1, <2>1 DEF BusOK
  <2>3. phase'["inner"] = "none" <=> phase["inner"] = "none"
    BY <1>1, <1>4, <1>11
  <2>4. ASSUME phase["inner"] = "none", bus' # "none" PROVE Awaited("outer", "bus")'
    <3>1. by = "outer"
      BY <1>1, <1>4, <2>4
    <3>2. ~Awaited("outer", "bus")
      BY <1>4, <3>1 DEF Awaited
    <3>3. t = "bus"
      BY <1>8, <2>2, <2>4, <3>2
    <3> QED BY <1>14, <3>1, <3>3
  <2>5. phase'["outer"] \in {"evaluating", "awaiting"} => phase["outer"] \in {"evaluating", "awaiting"}
    BY <1>1, <1>4, <1>11
  <2> QED BY <2>2, <2>3, <2>4, <2>5
<1> QED BY <1>18, <1>19, <1>20, <1>21, <1>22, <1>23, <1>24, <1>25 DEF DerivedInv


\* What a factory makes is what may be stored, and a second instance only of what the outer
\* resolve awaits for the event bus.
LEMMA YieldIs ==
    ASSUME DerivedInv, calls # <<>>, NEW c \in Contexts, NEW t \in ContextTokens,
           calls[1].in = c, calls[1].tok = t, Len(calls) # 1 \/ origin \notin Contexts
    PROVE  /\ entries[c][t] \in Unmade /\ Binds(order[c], t) /\ phase[c] # "none" /\ CountOK(c, t)
           /\ t = "derived" => c = "inner"
           /\ t = "bus" => c = "outer"
           /\ Awaited(c, t) => c = "outer" /\ ByBus /\ EagerlyBound(order[c], t) /\ built[c][t] = 1
           /\ ~Awaited(c, t) => \/ built[c][t] = 0
                                \/ t = "bus" /\ ByBus /\ EagerlyBound(order[c], t) /\ built[c][t] = 1
           /\ \/ Yield(c, t) \in Made(c, t)
              \/ Yield(c, t) = Instance("outer", 2) /\ Awaited(c, t) /\ t \notin {"derived", "client", "bus"}
           /\ Yield(c, t) \notin Unmade
           /\ t = "bus" => Yield(c, t) = Promise
<1>1. /\ OrderOK /\ StagesOK /\ CallsOK /\ DerivedTypes /\ Contexts = {"outer", "inner"}
      /\ \A d \in Contexts : TurnOK(d)
      /\ "listener" \notin ContextTokens
  BY Givens
<1>2. /\ EvaluationOK(calls[1], origin) /\ origin \in {"outer", "inner", "bus", "user"} /\ calls[1] \in Evaluations
      /\ t # "listener"
  BY <1>1, Innermost
<1>3. entries[c][t] \in Unmade
  BY <1>2 DEF EvaluationOK
<1>4. Binds(order[c], t) /\ phase[c] # "none" /\ CountOK(c, t)
  BY <1>3, EntryIs
<1>5. (t = "derived" => c = "inner") /\ (t = "bus" => c = "outer")
  BY <1>1, <1>4 DEF OrderOK
<1>6. ASSUME Awaited(c, t) PROVE c = "outer" /\ ByBus /\ EagerlyBound(order[c], t) /\ built[c][t] = 1
  <2>1. phase[c] = "awaiting" /\ t = Turn(c) /\ built[c][t] = 1
    BY <1>3, <1>4, <1>6 DEF Awaited, CountOK
  <2>2. EagerlyBound(order[c], t)
    BY <2>1, AwaitedIs
  <2>3. c = "outer"
    <3> SUFFICES ASSUME c = "inner" PROVE FALSE
      BY <1>1
    <3>1. calls[1].for = "inner"
      BY <1>1, <1>2 DEF EvaluationOK, Evaluations
    <3>2. origin = "inner"
      BY <1>2, <2>1, <3>1 DEF EvaluationOK
    <3> QED BY <1>1, <2>1, <3>2 DEF TurnOK
  <2>4. ByBus
    <3> SUFFICES ASSUME ~ByBus PROVE FALSE
      OBVIOUS
    <3>1. phase["inner"] = "none"
      BY <1>1, <2>1, <2>3 DEF StagesOK
    <3>2. origin = "outer"
      BY <2>1, <2>3, <3>1, OnlyOuter
    <3> QED BY <1>1, <2>1, <2>3, <3>2 DEF TurnOK
  <2> QED BY <2>1, <2>2, <2>3, <2>4
<1>7. ~Awaited(c, t) => \/ built[c][t] = 0
                        \/ t = "bus" /\ ByBus /\ EagerlyBound(order[c], t) /\ built[c][t] = 1
  <2>1. t = "bus" => ByBus
    BY <1>4, <1>5 DEF ByBus
  <2> QED BY <1>3, <1>4, <2>1 DEF CountOK
<1>8. /\ \/ Yield(c, t) \in Made(c, t)
         \/ Yield(c, t) = Instance("outer", 2) /\ Awaited(c, t) /\ t \notin {"derived", "client", "bus"}
      /\ t = "bus" => Yield(c, t) = Promise
  <2>1. CASE t \in {"derived", "client", "bus"}
    BY <2>1 DEF Yield, Made
  <2>2. CASE t \notin {"derived", "client", "bus"}
    <3>1. Yield(c, t) = Instance(c, built[c][t] + 1) /\ Made(c, t) = {Instance(c, 1)}
      BY <2>2 DEF Yield, Made
    <3>2. CASE Awaited(c, t)
      BY <1>6, <2>2, <3>1, <3>2
    <3>3. CASE ~Awaited(c, t)
      BY <1>7, <2>2, <3>1, <3>3
    <3> QED BY <3>2, <3>3
  <2> QED BY <2>1, <2>2
<1>9. Yield(c, t) \notin Unmade
  <2>1. Made(c, t) \cap Unmade = {} /\ Instance("outer", 2) \notin Unmade
    BY Values DEF Made, Unmade
  <2> QED BY <1>8, <2>1
<1> QED BY <1>3, <1>4, <1>5, <1>6, <1>7, <1>8, <1>9

\* Evaluations below one whose value is stored.
Elsewhere(c, t) == \A d \in Contexts : \A u \in ContextTokens : d # c \/ u # t => entries'[d][u] = entries[d][u]
LEMMA EvaluationsStay ==
    ASSUME order' = order, listener' = listener, phase' = phase, cursor' = cursor,
           NEW c, NEW t, Elsewhere(c, t),
           NEW s, NEW by, EvaluationsOK(s, by), FirstOK(s, by),
           \A i \in 1 .. Len(s) : s[i].tok = "listener" \/ s[i].in # c \/ s[i].tok # t
    PROVE  EvaluationsOK(s, by)' /\ FirstOK(s, by)'
<1>1. (\A d, u : Asks(d, u)' = Asks(d, u)) /\ \A d, rank : Ranks(d, rank)' <=> Ranks(d, rank)
  BY Static
<1>2. s \in Seq(Evaluations)
  BY DEF EvaluationsOK
<1>3. ASSUME NEW i \in 1 .. Len(s) PROVE EvaluationOK(s[i], by)'
  <2>1. EvaluationOK(s[i], by) /\ s[i] \in Evaluations
    BY <1>2 DEF EvaluationsOK
  <2>2. s[i].tok # "listener" => entries'[s[i].in][s[i].tok] = entries[s[i].in][s[i].tok]
    BY <2>1 DEF Evaluations, Elsewhere
  <2> QED BY <1>1, <2>1, <2>2 DEF EvaluationOK
<1>4. EvaluationsOK(s, by)'
  BY <1>1, <1>3 DEF EvaluationsOK, Descends
<1>5. FirstOK(s, by)'
  BY <1>1 DEF FirstOK, Turn
<1> QED BY <1>4, <1>5

\* Any other factory returns, and its value is stored.
LEMMA StoreReturnsKeeps ==
    ASSUME DerivedInv, FactoryReturns, Head(calls).tok # "listener", Len(calls) # 1 \/ origin \notin Contexts
    PROVE  DerivedInv'
<1>1. /\ OrderOK /\ DerivedTypes /\ StagesOK /\ CallsOK /\ LoggerOK /\ BusOK
      /\ Contexts = {"outer", "inner"}
      /\ \A d \in Contexts : /\ Listed(order[d]) /\ DOMAIN order[d] = 1 .. Len(order[d])
                             /\ Len(order[d]) \in Nat /\ Len(order[d]) >= 1
                             /\ cursor[d] \in 1 .. Len(order[d]) + 1 /\ TurnOK(d)
      /\ \A d \in Contexts : \A u \in ContextTokens : EntryOK(d, u)
      /\ {"logger", "derived", "client", "bus"} \subseteq ContextTokens
  BY Givens
<1>2. calls # <<>> /\ calls \in Seq(Evaluations) /\ EvaluationsOK(calls, origin) /\ FirstOK(calls, origin)
  BY <1>1 DEF FactoryReturns, Resting, CallsOK, EvaluationsOK
<1>3. /\ Head(calls) = calls[1] /\ calls[1] \in Evaluations /\ Len(calls) \in Nat /\ Len(calls) >= 1
      /\ origin \in {"outer", "inner", "bus", "user"}
  BY <1>2, Innermost
<1>4. PICK c \in Contexts, t \in ContextTokens : c = calls[1].in /\ t = calls[1].tok
  BY <1>3 DEF Evaluations
<1>5. PICK v : v = Yield(c, t)
  OBVIOUS
<1>6. /\ calls' = Tail(calls) /\ origin' = IF Len(calls) = 1 THEN "nobody" ELSE origin
      /\ Counts(c, t) /\ IsSet(c, t, v)
      /\ phase' = phase /\ bus' = IF t = "bus" THEN "making" ELSE bus
      /\ order' = order /\ listener' = listener /\ cursor' = cursor
  BY <1>3, <1>4, <1>5 DEF FactoryReturns, Counts, IsSet
<1>7. /\ built' \in [Contexts -> [ContextTokens -> Nat]]
      /\ built'[c][t] = built[c][t] + 1
      /\ \A d \in Contexts : \A u \in ContextTokens : d # c \/ u # t => built'[d][u] = built[d][u]
  BY <1>1, <1>6, BuiltOnce
<1>8. /\ entries'[c][t] = v
      /\ \A d \in Contexts : \A u \in ContextTokens : d # c \/ u # t => entries'[d][u] = entries[d][u]
      /\ DOMAIN entries' = Contexts /\ \A d \in Contexts : DOMAIN entries'[d] = ContextTokens
  BY <1>1, <1>6, EntrySet
<1>9. /\ entries[c][t] \in Unmade /\ Binds(order[c], t) /\ phase[c] # "none" /\ CountOK(c, t)
      /\ t = "bus" => c = "outer"
      /\ Awaited(c, t) => c = "outer" /\ ByBus /\ EagerlyBound(order[c], t) /\ built[c][t] = 1
      /\ ~Awaited(c, t) => \/ built[c][t] = 0
                           \/ t = "bus" /\ ByBus /\ EagerlyBound(order[c], t) /\ built[c][t] = 1
      /\ v \in Made(c, t) \/ (v = Instance("outer", 2) /\ Awaited(c, t) /\ t \notin {"derived", "client", "bus"})
      /\ v \notin Unmade
      /\ t = "bus" => v = Promise
  BY <1>2, <1>4, <1>5, YieldIs
<1>10. (\A d \in Contexts : Turn(d)' = Turn(d)) /\ \A d \in Contexts : \A u : Awaited(d, u)' <=> Awaited(d, u)
  BY <1>6 DEF Turn, Awaited
<1>11. OrderOK' /\ (ByBus' <=> ByBus) /\ (WellOrdered' <=> WellOrdered)
  BY <1>1, <1>6, Static
<1>12. Tail(calls) \in Seq(Evaluations) /\ Len(Tail(calls)) = Len(calls) - 1
       /\ \A i \in 1 .. Len(Tail(calls)) : Tail(calls)[i] = calls[i + 1]
  BY <1>2, Pop
<1>13. DerivedTypes'
  <2>1. /\ origin' \in {"nobody", "outer", "inner", "bus", "user"}
        /\ bus' \in {"none", "making", "constructing", "attaching", "up", "failed"}
    BY <1>1, <1>3, <1>6 DEF DerivedTypes
  <2> QED BY <1>1, <1>6, <1>7, <1>8, <1>12, <2>1 DEF DerivedTypes
<1>14. ASSUME t = "bus" PROVE ByBus /\ cursor["outer"] # 1
  <2>1. c = "outer" /\ ByBus
    BY <1>9, <1>14 DEF ByBus
  <2>2. SUFFICES ASSUME cursor["outer"] = 1 PROVE FALSE
    BY <2>1
  <2>3. phase["inner"] = "none" /\ phase["outer"] # "done"
    BY <1>1, <2>2 DEF StagesOK, TurnOK
  <2>4. origin = "outer"
    BY <1>2, <2>3, OnlyOuter
  <2>5. Turn("outer") = "logger"
    <3>1. 1 \in DOMAIN order["outer"]
      BY <1>1
    <3> QED BY <1>1, <2>2, <3>1, AtTurn
  <2>6. Asks("outer", "logger") = {}
    BY <1>1, AsksOf
  <2> QED BY <1>1, <1>2, <2>4, <2>5, <2>6 DEF FirstOK
<1>15. StagesOK'
  <2>1. (bus' # "none" => ByBus) /\ (cursor["outer"] = 1 => bus' = "none")
    BY <1>1, <1>6, <1>14 DEF StagesOK
  <2>2. bus' \in {"constructing", "attaching", "up", "failed"} => bus' = bus
    BY <1>6
  <2> QED BY <1>1, <1>6, <1>11, <2>1, <2>2 DEF StagesOK
<1>16. ASSUME NEW d \in Contexts PROVE TurnOK(d)'
  <2>1. TurnOK(d)
    BY <1>1
  <2>2. phase'[d] = "evaluating" <=> origin' = d
    BY <1>1, <1>6, <2>1 DEF TurnOK
  <2>3. ASSUME NEW i \in DOMAIN order[d], i < cursor[d], order[d][i].eager
        PROVE  entries'[d][order[d][i].tok] \notin Unmade
    <3>1. order[d][i].tok \in ContextTokens /\ entries[d][order[d][i].tok] \notin Unmade
      BY <1>1, <2>1, <2>3, Placed DEF TurnOK
    <3> QED BY <1>8, <1>9, <3>1
  <2> QED BY <1>6, <2>1, <2>2, <2>3 DEF TurnOK
<1>17. CallsOK'
  <2>1. CASE Len(calls) = 1
    <3>1. calls' = <<>> /\ origin' = "nobody"
      BY <1>6, <1>12, <2>1
    <3> QED BY <3>1, NothingRuns
  <2>2. CASE Len(calls) # 1
    <3>1. PICK s, by : s = Tail(calls) /\ by = origin
      OBVIOUS
    <3>2. EvaluationsOK(s, by) /\ FirstOK(s, by)
      BY <1>2, <3>1, OneLess
    <3>3. \A i \in 1 .. Len(s) : s[i].tok = "listener" \/ s[i].in # c \/ s[i].tok # t
      <4> SUFFICES ASSUME NEW i \in 1 .. Len(s), s[i].tok # "listener", s[i].in = c PROVE s[i].tok # t
        OBVIOUS
      <4>1. PICK j \in 1 .. Len(calls) : j = i + 1
        BY <1>3, <1>12, <3>1
      <4>2. s[i] = calls[j] /\ j # 1
        BY <1>12, <3>1, <4>1
      <4>3. calls[1].tok # "listener"
        BY <1>3
      <4> QED BY <1>2, <1>4, <4>2, <4>3, NotTwice
    <3>4. EvaluationsOK(s, by)' /\ FirstOK(s, by)'
      <4>1. order' = order /\ listener' = listener /\ phase' = phase /\ cursor' = cursor
        BY <1>6
      <4>2. Elsewhere(c, t)
        BY <1>8 DEF Elsewhere
      <4> QED BY <3>2, <3>3, <4>1, <4>2, EvaluationsStay
    <3>5. calls' = s /\ origin' = by /\ by # "nobody"
      BY <1>3, <1>6, <2>2, <3>1
    <3>6. EvaluationsOK(calls, origin)' /\ FirstOK(calls, origin)'
      BY <3>4, <3>5
    <3>7. calls' # <<>>
      BY <1>3, <1>6, <1>12, <2>2
    <3>8. /\ by = "user" => phase["outer"] = "done" \/ phase["inner"] = "done"
          /\ by = "bus" => phase["inner"] = "done" /\ bus # "none"
      BY <1>1, <3>1 DEF CallsOK
    <3>9. by = "bus" => bus' # "none"
      BY <1>6, <3>8
    <3> QED BY <1>6, <3>5, <3>6, <3>7, <3>8, <3>9 DEF CallsOK
  <2> QED BY <2>1, <2>2
<1>18. ASSUME NEW d \in Contexts, NEW u \in ContextTokens PROVE EntryOK(d, u)'
  <2>1. CASE d # c \/ u # t
    BY <1>1, <1>6, <1>7, <1>8, <1>10, <2>1, SameEntry
  <2>2. CASE d = c /\ u = t
    <3>1. ValueOK(d, u)'
      BY <1>6, <1>8, <1>9, <1>10, <1>11, <2>2 DEF ValueOK, Made
    <3>2. Copies(c, t)' = Copies(c, t)
      BY <1>6, <1>11 DEF Copies
    <3>3. built'[c][t] <= Copies(c, t)
      BY <1>7, <1>9 DEF Copies
    <3>4. Awaited(c, t) => built'[c][t] = 2
      BY <1>7, <1>9
    <3>5. CountOK(d, u)'
      BY <1>8, <1>9, <1>10, <2>2, <3>2, <3>3, <3>4 DEF CountOK
    <3> QED BY <1>6, <1>9, <2>2, <3>1, <3>5 DEF EntryOK
  <2> QED BY <2>1, <2>2
<1>19. LoggerOK'
  <2> SUFFICES ASSUME phase["inner"] = "done"
               PROVE  /\ entries'["outer"]["logger"] = Instance("outer", 1)
                      /\ entries'["inner"]["derived"] = Instance("outer", 0)
                      /\ entries'["inner"]["logger"] = Absent
    BY <1>6 DEF LoggerOK
  <2>1. /\ entries["outer"]["logger"] = Instance("outer", 1)
        /\ entries["inner"]["derived"] = Instance("outer", 0)
        /\ entries["inner"]["logger"] = Absent
    BY <1>1 DEF LoggerOK
  <2>2. {Instance("outer", 1), Instance("outer", 0), Absent} \cap Unmade = {}
    BY Values DEF Unmade
  <2> QED BY <1>1, <1>8, <1>9, <2>1, <2>2
<1>20. BusOK'
  <2> SUFFICES ASSUME EagerlyBound(order["outer"], "bus"), BusAwaited' \/ WellOrdered
               PROVE  /\ phase["inner"] = "none" =>
                            /\ cursor["outer"] <= Position(order["outer"], "bus") /\ entries'["outer"]["bus"] = Eager
                            /\ bus' # "none" => Awaited("outer", "bus")
                      /\ phase["inner"] # "none" =>
                            /\ entries'["outer"]["client"] \in {Absent, Client}
                            /\ phase["outer"] \in {"evaluating", "awaiting"} => Turn("outer") # "client"
    BY <1>1, <1>6, <1>10, <1>11 DEF BusOK
  <2>1. BusAwaited' => BusAwaited /\ t # "bus"
    BY <1>1, <1>7, <1>8, <1>9 DEF BusAwaited
  <2>2. /\ phase["inner"] = "none" =>
              /\ cursor["outer"] <= Position(order["outer"], "bus") /\ entries["outer"]["bus"] = Eager
              /\ bus # "none" => Awaited("outer", "bus")
        /\ phase["inner"] # "none" =>
              /\ entries["outer"]["client"] \in {Absent, Client}
              /\ phase["outer"] \in {"evaluating", "awaiting"} => Turn("outer") # "client"
    BY <1>1, <2>1 DEF BusOK
  <2>3. ASSUME phase["inner"] = "none", t = "bus" PROVE FALSE
    <3>1. WellOrdered /\ c = "outer"
      BY <1>9, <2>1, <2>3
    <3>2. phase["outer"] # "done"
      <4>1. Position(order["outer"], "bus") \in DOMAIN order["outer"]
        BY <1>1, Placed DEF EagerlyBound
      <4> QED BY <1>1, <2>2, <2>3, <4>1 DEF TurnOK
    <3>3. origin = "outer"
      BY <1>2, <2>3, <3>2, OnlyOuter
    <3>4. Len(calls) # 1
      BY <1>1, <3>3
    <3>5. Position(order["outer"], t) < Position(order["outer"], "bus")
      BY <1>2, <1>4, <1>9, <2>3, <3>1, <3>4, BusNotReached
    <3>6. Position(order["outer"], "bus") \in 1 .. Len(order["outer"])
      BY <1>1, Placed DEF EagerlyBound
    <3> QED BY <1>1, <2>3, <3>5, <3>6
  <2>4. ASSUME phase["inner"] = "none"
        PROVE  entries'["outer"]["bus"] = Eager /\ bus' = bus
    BY <1>1, <1>6, <1>8, <2>2, <2>3, <2>4
  <2>5. ASSUME phase["inner"] # "none" PROVE entries'["outer"]["client"] \in {Absent, Client}
    <3>1. {Absent, Client} \cap Unmade = {}
      BY Values DEF Unmade
    <3> QED BY <1>1, <1>8, <1>9, <2>2, <2>5, <3>1
  <2> QED BY <2>2, <2>4, <2>5
<1> QED BY <1>11, <1>13, <1>15, <1>16, <1>17, <1>18, <1>19, <1>20 DEF DerivedInv


LEMMA DerivedStep == ASSUME DerivedInv, [DerivedNext]_derivedVars PROVE DerivedInv'
<1>1. CASE FactoryReturns
  <2>1. CASE Head(calls).tok = "listener"
    BY <1>1, <2>1, ListenerReturnsKeeps
  <2>2. CASE Head(calls).tok # "listener" /\ Len(calls) = 1 /\ origin \in Contexts
    BY <1>1, <2>2, AwaitReturnsKeeps
  <2>3. CASE Head(calls).tok # "listener" /\ ~(Len(calls) = 1 /\ origin \in Contexts)
    BY <1>1, <2>3, StoreReturnsKeeps
  <2> QED BY <2>1, <2>2, <2>3
<1>2. CASE Construct
  BY <1>2, ConstructKeeps
<1>3. CASE BusConstructs
  BY <1>3, BusConstructsKeeps
<1>4. CASE BusListens
  BY <1>4, BusListensKeeps
<1>5. CASE ListenerRaises
  BY <1>5, ListenerRaisesKeeps
<1>6. CASE \E t \in ContextTokens : FactoryAsks(t)
  BY <1>6, FactoryAsksKeeps
<1>7. CASE \E c \in Contexts : ResolveStep(c)
  BY <1>7, ResolveStepKeeps
<1>8. CASE \E c \in Contexts : ResolveResumes(c)
  BY <1>8, ResolveResumesKeeps
<1>9. CASE \E c \in Contexts : Settle(c)
  BY <1>9, SettleKeeps
<1>10. CASE \E c \in Contexts : \E t \in ContextTokens : UserAsks(c, t)
  BY <1>10, UserAsksKeeps
<1>11. CASE UNCHANGED derivedVars
  <2>1. /\ order' = order /\ listener' = listener /\ entries' = entries /\ built' = built /\ cursor' = cursor
        /\ phase' = phase /\ calls' = calls /\ origin' = origin /\ bus' = bus
    BY <1>11 DEF derivedVars
  <2>2. CallsOK /\ DerivedTypes
    BY Givens
  <2>3. Looks
    BY <2>1, <2>2 DEF Looks, DerivedTypes
  <2>4. PICK s, by : s = calls /\ by = origin
    OBVIOUS
  <2>5. CallsOK'
    BY <2>1, <2>2, <2>4, CallsBecome DEF CallsOK
  <2> QED BY <2>3, <2>5, LooksKeeps
<1> QED BY <1>1, <1>2, <1>3, <1>4, <1>5, <1>6, <1>7, <1>8, <1>9, <1>10, <1>11 DEF DerivedNext

\* The two containers keep to DerivedInv, whatever is bound in them: resolves, lookups, the
\* settling of a derived context and the making of an event bus (contextFactory, lookup,
\* unregisterRedundantToken, EventBus).
THEOREM DerivedInvariance == DerivedSpec => []DerivedInv
<1>1. DerivedInit => DerivedInv
  BY DerivedStart
<1>2. DerivedInv /\ [DerivedNext]_derivedVars => DerivedInv'
  BY DerivedStep
<1> QED BY <1>1, <1>2, PTL DEF DerivedSpec


------------------------------------------------------------------------------
(* What is looked up.                                                          *)

\* In good order nobody reaches the client of the event bus before the bus is made.
ClientInv ==
    WellOrdered /\ Binds(order["outer"], "client") /\ phase["inner"] = "none" =>
        entries["outer"]["client"] \in Unmade

\* Only what the resolve of the outer context is at, or what comes before the bus, changes then.
LEMMA ClientStart == DerivedInit => ClientInv
<1> SUFFICES ASSUME DerivedInit, Binds(order["outer"], "client") PROVE entries["outer"]["client"] \in Unmade
  BY DEF ClientInv
<1>1. DerivedInv
  BY DerivedStart
<1>2. Listed(order["outer"]) /\ "client" \in ContextTokens
  BY <1>1, Givens
<1>3. entries["outer"]["client"] = Unresolved("outer")["client"]
  BY DEF DerivedInit
<1> QED BY <1>2, <1>3, Fresh DEF Unmade

LEMMA ClientStep == ASSUME DerivedInv, ClientInv, [DerivedNext]_derivedVars PROVE ClientInv'
<1>1. order' = order /\ listener' = listener /\ (WellOrdered' <=> WellOrdered)
  BY OrderStays, Static
<1> SUFFICES ASSUME WellOrdered, Binds(order["outer"], "client"), phase'["inner"] = "none"
             PROVE  entries'["outer"]["client"] \in Unmade
  BY <1>1 DEF ClientInv
<1>2. /\ DerivedTypes /\ StagesOK /\ BusOK /\ Contexts = {"outer", "inner"} /\ "client" \in ContextTokens
      /\ Listed(order["outer"]) /\ DOMAIN order["outer"] = 1 .. Len(order["outer"]) /\ Len(order["outer"]) \in Nat
      /\ TurnOK("outer") /\ cursor["outer"] \in 1 .. Len(order["outer"]) + 1
  BY Givens
<1>3. DOMAIN phase = Contexts /\ DOMAIN entries = Contexts /\ \A d \in Contexts : DOMAIN entries[d] = ContextTokens
  BY <1>2 DEF DerivedTypes
<1>4. EagerlyBound(order["outer"], "bus") /\ Position(order["outer"], "bus") < Position(order["outer"], "client")
  BY DEF WellOrdered
<1>5. /\ Position(order["outer"], "bus") \in 1 .. Len(order["outer"])
      /\ Position(order["outer"], "client") \in 1 .. Len(order["outer"])
  BY <1>2, <1>4, Placed DEF EagerlyBound
<1>6. ASSUME phase["inner"] = "none"
      PROVE  /\ entries["outer"]["client"] \in Unmade
             /\ cursor["outer"] <= Position(order["outer"], "bus") /\ phase["outer"] # "done"
  BY <1>2, <1>4, <1>5, <1>6 DEF ClientInv, BusOK, TurnOK
<1>7. CASE entries' = entries /\ phase["inner"] = "none"
  BY <1>6, <1>7
<1>8. CASE FactoryReturns
  <2>1. phase["inner"] = "none"
    <3>1. phase' = phase \/ \E d \in Contexts : phase' = [phase EXCEPT ![d] = "awaiting"]
      BY <1>8 DEF FactoryReturns
    <3> QED BY <1>2, <1>3, <3>1
  <2>2. calls # <<>> /\ calls[1] \in Evaluations /\ Head(calls) = calls[1] /\ Len(calls) \in Nat
    BY <1>8, Innermost DEF FactoryReturns, Resting
  <2>3. origin = "outer"
    BY <1>6, <2>1, <2>2, OnlyOuter
  <2>4. CASE Len(calls) = 1
    BY <1>2, <1>6, <1>8, <2>1, <2>3, <2>4 DEF FactoryReturns
  <2>5. CASE Len(calls) # 1
    <3>1. PICK c \in Contexts, t \in {calls[1].tok} : c = calls[1].in /\ t = calls[1].tok
      BY <2>2 DEF Evaluations
    <3>2. CASE t \notin ContextTokens
      BY <1>6, <1>8, <2>1, <2>2, <3>1, <3>2 DEF FactoryReturns
    <3>3. CASE t \in ContextTokens
      <4>1. IsSet(c, t, Yield(c, t))
        BY <1>8, <2>2, <2>5, <3>1, <3>3 DEF FactoryReturns, IsSet
      <4>2. \A d \in Contexts : \A u \in ContextTokens : d # c \/ u # t => entries'[d][u] = entries[d][u]
        BY <1>2, <3>3, <4>1, EntrySet
      <4>3. Binds(order[c], t)
        BY <2>2, <2>5, <3>1, <3>3, YieldIs
      <4>4. c = "outer" => t # "client"
        <5> SUFFICES ASSUME c = "outer", t = "client" PROVE FALSE
          OBVIOUS
        <5>1. Position(order["outer"], "client") < Position(order["outer"], "bus")
          BY <1>2, <1>4, <2>1, <2>2, <2>5, <3>1, <4>3, BusNotReached
        <5> QED BY <1>4, <1>5, <5>1
      <4> QED BY <1>2, <1>6, <2>1, <4>2, <4>4
    <3> QED BY <3>2, <3>3
  <2> QED BY <2>4, <2>5
<1>9. CASE Construct \/ BusConstructs
  BY <1>2, <1>3, <1>9 DEF Construct, BusConstructs
<1>10. CASE BusListens \/ ListenerRaises \/ UNCHANGED derivedVars
  BY <1>7, <1>10 DEF BusListens, ListenerRaises, derivedVars
<1>11. ASSUME entries' = entries,
              phase' = phase \/ \E d \in Contexts : phase' = [phase EXCEPT ![d] = "rejected"]
       PROVE  entries'["outer"]["client"] \in Unmade
  <2>1. phase["inner"] = "none"
    BY <1>2, <1>3, <1>11
  <2> QED BY <1>7, <1>11, <2>1
<1>12. ASSUME NEW c, NEW t, NEW by, NEW below, LookUp(c, t, by, below)
       PROVE  phase' = phase \/ \E d \in Contexts : phase' = [phase EXCEPT ![d] = "rejected"]
  BY <1>12, LookUpCases DEF LookupThrows
<1>13. CASE \E t \in ContextTokens : FactoryAsks(t)
  BY <1>11, <1>12, <1>13 DEF FactoryAsks
<1>14. CASE \E c \in Contexts : \E t \in ContextTokens : UserAsks(c, t)
  BY <1>11, <1>12, <1>14 DEF UserAsks
<1>15. ASSUME NEW c \in Contexts, ResolveStep(c) PROVE entries'["outer"]["client"] \in Unmade
  <2>1. entries' = entries /\ phase[c] = "loop"
        /\ (phase' = phase \/ \E p \in {"settling", "evaluating", "rejected"} : phase' = [phase EXCEPT ![c] = p])
    BY <1>15 DEF ResolveStep
  <2>2. phase["inner"] = "none"
    BY <1>2, <1>3, <2>1
  <2> QED BY <1>7, <2>1, <2>2
<1>16. ASSUME NEW c \in Contexts, ResolveResumes(c) PROVE entries'["outer"]["client"] \in Unmade
  <2>0. PICK t : t = Turn(c)
    OBVIOUS
  <2>1. phase[c] = "awaiting"
        /\ (phase' = phase \/ \E p \in {"loop", "rejected"} : phase' = [phase EXCEPT ![c] = p])
        /\ (entries' = entries \/ \E v : IsSet(c, t, v))
    BY <1>16, <2>0 DEF ResolveResumes, Turn, IsSet
  <2>2. phase["inner"] = "none"
    BY <1>2, <1>3, <2>1
  <2>3. c = "outer"
    BY <1>2, <2>1, <2>2
  <2>4. t \in ContextTokens /\ Position(order["outer"], t) = cursor["outer"]
    BY <2>0, <2>1, <2>3, AwaitedIs
  <2>5. t # "client"
    BY <1>2, <1>4, <1>5, <1>6, <2>2, <2>4
  <2>6. ASSUME NEW v, IsSet(c, t, v) PROVE entries'["outer"]["client"] = entries["outer"]["client"]
    BY <1>2, <2>3, <2>4, <2>5, <2>6, EntrySet
  <2> QED BY <1>6, <2>1, <2>2, <2>6
<1>17. ASSUME NEW c \in Contexts, Settle(c) PROVE entries'["outer"]["client"] \in Unmade
  <2>1. phase[c] = "settling" /\ phase' = [phase EXCEPT ![c] = "done"]
    BY <1>17 DEF Settle
  <2>2. c = "outer" /\ phase["inner"] = "none"
    BY <1>2, <1>3, <2>1
  <2>3. cursor["outer"] > Len(order["outer"])
    BY <1>2, <2>1, <2>2 DEF TurnOK
  <2> QED BY <1>2, <1>5, <1>6, <2>2, <2>3
<1>18. FactoryReturns \/ Construct \/ BusConstructs \/ BusListens \/ ListenerRaises
       \/ (\E t \in ContextTokens : FactoryAsks(t))
       \/ (\E c \in Contexts : ResolveStep(c) \/ ResolveResumes(c) \/ Settle(c) \/ \E t \in ContextTokens : UserAsks(c, t))
       \/ UNCHANGED derivedVars
  BY DEF DerivedNext
<1> QED BY <1>8, <1>9, <1>10, <1>13, <1>14, <1>15, <1>16, <1>17, <1>18


\* What DerivedSound says of one thing that was looked up.
LinkLate == ~EagerlyBound(order["inner"], "derived")
            \/ \E i \in 1 .. (Position(order["inner"], "derived") - 1) : order["inner"][i].eager
Owner(t) == IF Binds(order["inner"], t) THEN "inner" ELSE IF Binds(order["outer"], t) THEN "outer" ELSE "nobody"
Plain(x) == x.in = "inner" /\ x.settled /\ x.tok \notin {"logger", "client", "bus", "derived"}

FailureOK(x) ==
    x.got = Failure =>
        \/ x.tok = "client" /\ ~WellOrdered
        \/ x.in = "inner" /\ ~Binds(order["inner"], x.tok) /\ LinkLate
ClientOK(x) == WellOrdered /\ Binds(order["outer"], "client") /\ x.tok = "client" => x.got = Client
PlainOK(x) ==
    Plain(x) =>
        \/ x.got = IF Owner(x.tok) = "nobody" THEN Absent ELSE Instance(Owner(x.tok), 1)
        \/ Owner(x.tok) = "outer" /\ Awaited("outer", x.tok) /\ x.got = Instance("outer", 2)
LoggerSeenOK(x) ==
    x.in = "inner" /\ x.tok = "logger" => x.got = Instance(IF x.settled THEN "outer" ELSE "inner", 1)

\* The value a factory made and lookup stored.
LEMMA StoredIsOK ==
    ASSUME DerivedInv, calls # <<>>, NEW c \in Contexts, NEW t \in ContextTokens,
           calls[1].in = c, calls[1].tok = t, Len(calls) # 1 \/ origin \notin Contexts,
           NEW x, x.in = calls[1].for, x.tok = t, x.got = Yield(c, t), x.settled => phase[x.in] = "done",
           ~x.settled => phase[x.in] # "done"
    PROVE  FailureOK(x) /\ ClientOK(x) /\ PlainOK(x) /\ LoggerSeenOK(x)
<1>1. /\ OrderOK /\ StagesOK /\ BusOK /\ LoggerOK /\ Contexts = {"outer", "inner"} /\ TurnOK("outer") /\ TurnOK("inner")
      /\ Listed(order["outer"]) /\ DOMAIN order["outer"] = 1 .. Len(order["outer"]) /\ Len(order["outer"]) \in Nat
      /\ cursor["outer"] \in 1 .. Len(order["outer"]) + 1 /\ Listed(order["inner"])
      /\ {"logger", "derived", "client", "bus"} \subseteq ContextTokens /\ "listener" \notin ContextTokens
  BY Givens
<1>2. /\ EvaluationOK(calls[1], origin) /\ calls[1] \in Evaluations /\ Len(calls) \in Nat
      /\ origin \in {"outer", "inner", "bus", "user"}
  BY Innermost
<1>3. /\ entries[c][t] \in Unmade /\ Binds(order[c], t) /\ phase[c] # "none"
      /\ Awaited(c, t) => c = "outer" /\ built[c][t] = 1
      /\ ~Awaited(c, t) => built[c][t] = 0 \/ t = "bus"
      /\ \/ Yield(c, t) \in Made(c, t)
         \/ Yield(c, t) = Instance("outer", 2) /\ Awaited(c, t) /\ t \notin {"derived", "client", "bus"}
  BY YieldIs
<1>4. t # "listener" /\ x.in \in Contexts
  BY <1>1, <1>2 DEF Evaluations
<1>5. /\ x.in = "outer" => c = "outer"
      /\ x.in = "inner" /\ c = "outer" => ~Binds(order["inner"], t)
  BY <1>2, <1>4 DEF EvaluationOK
<1>6. FailureOK(x)
  <2>1. Failure \notin Made(c, t) /\ Failure # Instance("outer", 2)
    BY Values DEF Made
  <2> QED BY <1>3, <2>1 DEF FailureOK
<1>7. ClientOK(x)
  <2> SUFFICES ASSUME WellOrdered, Binds(order["outer"], "client"), t = "client" PROVE Yield(c, t) = Client
    BY DEF ClientOK
  <2>1. SUFFICES ASSUME c = "outer" PROVE FALSE
    BY <1>1 DEF Yield
  <2>2. EagerlyBound(order["outer"], "bus") /\ Position(order["outer"], "bus") < Position(order["outer"], "client")
    BY DEF WellOrdered
  <2>3. /\ Position(order["outer"], "bus") \in 1 .. Len(order["outer"])
        /\ Position(order["outer"], "client") \in 1 .. Len(order["outer"])
    BY <1>1, <2>2, Placed DEF EagerlyBound
  <2>4. phase["inner"] = "none"
    <3>1. {Absent, Client} \cap Unmade = {}
      BY Values DEF Unmade
    <3> QED BY <1>1, <1>3, <2>1, <2>2, <3>1 DEF BusOK
  <2>5. phase["outer"] # "done"
    BY <1>1, <2>2, <2>3, <2>4 DEF BusOK, TurnOK
  <2>6. origin = "outer"
    BY <2>4, <2>5, OnlyOuter
  <2>7. Position(order["outer"], "client") < Position(order["outer"], "bus")
    BY <1>1, <1>3, <2>1, <2>2, <2>4, <2>6, BusNotReached
  <2> QED BY <2>2, <2>3, <2>7
<1>8. PlainOK(x)
  <2> SUFFICES ASSUME x.in = "inner", t \notin {"logger", "client", "bus", "derived"}
               PROVE  \/ Yield(c, t) = IF Owner(t) = "nobody" THEN Absent ELSE Instance(Owner(t), 1)
                      \/ Owner(t) = "outer" /\ Awaited("outer", t) /\ Yield(c, t) = Instance("outer", 2)
    BY DEF PlainOK, Plain
  <2>1. Owner(t) = c
    <3>1. CASE c = "inner"
      BY <1>3, <3>1 DEF Owner
    <3>2. CASE c = "outer"
      <4>1. Binds(order["outer"], t) /\ ~Binds(order["inner"], t)
        BY <1>3, <1>5, <3>2
      <4> QED BY <3>2, <4>1 DEF Owner
    <3> QED BY <1>1, <3>1, <3>2
  <2>2. Made(c, t) = {Instance(c, 1)}
    BY DEF Made
  <2> QED BY <1>1, <1>3, <2>1, <2>2
<1>9. LoggerSeenOK(x)
  <2> SUFFICES ASSUME x.in = "inner", t = "logger"
               PROVE  ~x.settled /\ Yield(c, t) = Instance("inner", 1)
    BY DEF LoggerSeenOK
  <2>1. Binds(order["inner"], "logger")
    <3>1. 1 \in DOMAIN order["inner"] /\ order["inner"][1].tok = "logger"
      BY <1>1 DEF Listed
    <3> QED BY <3>1 DEF Binds
  <2>2. c = "inner"
    BY <1>1, <1>5, <2>1
  <2>3. phase["inner"] # "done"
    <3>1. Absent \notin Unmade
      BY Values DEF Unmade
    <3> QED BY <1>1, <1>3, <2>2, <3>1 DEF LoggerOK
  <2>4. Yield(c, t) = Instance("inner", 1)
    <3>1. ~Awaited(c, t) /\ Made(c, t) = {Instance("inner", 1)}
      BY <1>3, <2>2 DEF Made
    <3> QED BY <1>3, <3>1
  <2> QED BY <2>3, <2>4
<1> QED BY <1>6, <1>7, <1>8, <1>9

\* In good order the client is not there yet, or is that of the event bus.
LEMMA ClientFound ==
    ASSUME DerivedInv, ClientInv, WellOrdered, Binds(order["outer"], "client"), NEW c \in Contexts,
           NEW by, NEW below, Asker(c, "client", by, below)
    PROVE  Found(c, "client") \in Unmade \cup {Client}
<1>1. /\ OrderOK /\ StagesOK /\ BusOK /\ LoggerOK /\ Contexts = {"outer", "inner"} /\ TurnOK("inner")
      /\ {"logger", "derived", "client", "bus"} \subseteq ContextTokens /\ "listener" \notin ContextTokens
  BY Givens
<1>2. EagerlyBound(order["outer"], "bus") /\ ByBus
  BY DEF WellOrdered, EagerlyBound, ByBus
<1>3. CASE c = "inner"
  <2>1. Binds(order["inner"], "client")
    BY <1>1, <1>2 DEF OrderOK, EagerlyBound
  <2>2. phase["inner"] # "none"
    <3>1. CASE below = <<>>
      BY <1>3, <3>1 DEF Asker
    <3>2. CASE below # <<>>
      <4>1. below \in Seq(Evaluations) /\ EvaluationsOK(below, by) /\ below[1].in = "inner" /\ origin = by
        BY <1>3, <3>2 DEF Asker, EvaluationsOK
      <4>2. EvaluationOK(below[1], by) /\ below[1] \in Evaluations
        BY <3>2, <4>1 DEF EvaluationsOK
      <4>3. below[1].for = "inner"
        BY <1>1, <4>1, <4>2 DEF EvaluationOK, Evaluations
      <4> QED BY <1>1, <4>1, <4>2, <4>3 DEF EvaluationOK, TurnOK
    <3> QED BY <3>1, <3>2
  <2>3. ValueOK("inner", "client")
    BY <1>1, <2>1, <2>2, EntryIs
  <2>4. entries["inner"]["client"] \in Unmade \cup {Client}
    BY <2>3 DEF ValueOK, Made, Unmade
  <2>5. entries["inner"]["client"] # Absent
    BY <2>4, Values DEF Unmade
  <2> QED BY <1>3, <2>4, <2>5 DEF Found, Falls, At
<1>4. CASE c = "outer"
  <2>1. Found(c, "client") = entries["outer"]["client"]
    BY <1>4 DEF Found, Falls, At
  <2>2. CASE phase["inner"] = "none"
    BY <2>1, <2>2 DEF ClientInv
  <2>3. CASE phase["inner"] # "none"
    <3>1. entries["outer"]["client"] \in {Absent, Client}
      BY <1>1, <1>2, <2>3 DEF BusOK
    <3>2. phase["outer"] # "none"
      BY <1>1 DEF StagesOK
    <3>3. entries["outer"]["client"] # Absent
      BY <1>1, <3>2, EntryIs
    <3> QED BY <2>1, <3>1, <3>3
  <2> QED BY <2>2, <2>3
<1> QED BY <1>1, <1>3, <1>4

\* The error a lookup throws: a link that is not evaluated yet, or a client that is not there.
LEMMA VoidIs ==
    ASSUME DerivedInv, ClientInv, NEW c \in Contexts, NEW t \in ContextTokens,
           NEW by, NEW below, Asker(c, t, by, below), Found(c, t) = Void
    PROVE  \/ t = "client" /\ ~WellOrdered
           \/ c = "inner" /\ phase["inner"] # "done" /\ ~Binds(order["inner"], t) /\ t # "logger" /\ LinkLate
<1>1. /\ OrderOK /\ StagesOK /\ LoggerOK /\ Contexts = {"outer", "inner"} /\ TurnOK("inner")
      /\ Listed(order["inner"]) /\ DOMAIN order["inner"] = 1 .. Len(order["inner"]) /\ Len(order["inner"]) \in Nat
      /\ cursor["inner"] \in 1 .. Len(order["inner"]) + 1
      /\ {"logger", "derived", "client", "bus"} \subseteq ContextTokens /\ "listener" \notin ContextTokens
  BY Givens
<1>2. CASE ~(Falls(c, t) /\ Link \in Unmade)
  <2>1. PICK at \in Contexts : at = At(c, t)
    BY <1>1 DEF At
  <2>2. entries[at][t] = Void
    BY <1>2, <2>1 DEF Found
  <2>3. at = "outer" /\ t = "client" /\ Binds(order["outer"], "client")
    BY <2>2, EntryIs
  <2>4. Void \notin Unmade \cup {Client}
    BY Values DEF Unmade
  <2> QED BY <2>3, <2>4, ClientFound
<1>3. CASE Falls(c, t) /\ Link \in Unmade
  <2>1. c = "inner" /\ entries["inner"][t] = Absent /\ entries["inner"]["derived"] \in Unmade
    BY <1>3 DEF Falls, Link
  <2>2. phase["inner"] # "none"
    BY <1>1, <2>1, EntryIs
  <2>3. phase["inner"] # "done"
    <3>1. Instance("outer", 0) \notin Unmade
      BY Values DEF Unmade
    <3> QED BY <1>1, <2>1, <3>1 DEF LoggerOK
  <2>4. ~Binds(order["inner"], t)
    BY <1>1, <2>1, <2>2, <2>3, EntryIs
  <2>5. t # "logger"
    <3>1. 1 \in DOMAIN order["inner"] /\ order["inner"][1].tok = "logger"
      BY <1>1 DEF Listed
    <3> QED BY <2>4, <3>1 DEF Binds
  <2>6. LinkLate
    <3> SUFFICES ASSUME EagerlyBound(order["inner"], "derived"),
                        \A i \in 1 .. (Position(order["inner"], "derived") - 1) : ~order["inner"][i].eager
                 PROVE  FALSE
      BY DEF LinkLate
    <3>1. PICK p \in 1 .. Len(order["inner"]) : p = Position(order["inner"], "derived")
      BY <1>1, Placed DEF EagerlyBound
    <3>2. order["inner"][p].tok = "derived" /\ order["inner"][p].eager
      BY <1>1, <3>1, Placed DEF EagerlyBound
    <3>3. below # <<>>
      BY <2>1, <2>3 DEF Asker
    <3>4. /\ below \in Seq(Evaluations) /\ EvaluationsOK(below, by) /\ FirstOK(below, by)
          /\ below[1].in = "inner" /\ origin = by
          /\ below[1].tok # "listener" => t \in Asks("inner", below[1].tok)
      BY <2>1, <3>3 DEF Asker, EvaluationsOK
    <3>5. EvaluationOK(below[1], by) /\ below[1] \in Evaluations
      BY <3>3, <3>4 DEF EvaluationsOK
    <3>6. below[1].for = "inner"
      BY <1>1, <3>4, <3>5 DEF EvaluationOK, Evaluations
    <3>7. origin = "inner"
      BY <2>3, <3>4, <3>5, <3>6 DEF EvaluationOK
    <3>8. phase["inner"] = "evaluating" /\ cursor["inner"] \in DOMAIN order["inner"] /\ order["inner"][cursor["inner"]].eager
      BY <1>1, <3>7 DEF TurnOK
    <3>9. cursor["inner"] >= p
      BY <1>1, <3>1, <3>8
    <3>10. cursor["inner"] # p
      <4> SUFFICES ASSUME cursor["inner"] = p PROVE FALSE
        OBVIOUS
      <4>1. Turn("inner") = "derived" /\ Asks("inner", Turn("inner")) = {}
        BY <1>1, <3>2 DEF Turn, OrderOK
      <4>2. below[1].tok = "derived"
        BY <1>1, <3>3, <3>4, <3>7, <4>1 DEF FirstOK
      <4> QED BY <1>1, <3>4, <4>1, <4>2
    <3>11. entries["inner"]["derived"] \notin Unmade
      BY <1>1, <3>1, <3>2, <3>9, <3>10 DEF TurnOK
    <3> QED BY <2>1, <3>11
  <2> QED BY <2>1, <2>3, <2>4, <2>5, <2>6
<1> QED BY <1>2, <1>3


\* No entry is an error.
LEMMA NoFailure ==
    ASSUME DerivedInv, NEW c \in Contexts, NEW t \in ContextTokens PROVE entries[c][t] # Failure
<1>1. EntryOK(c, t)
  BY Givens
<1>2. Failure \notin Unmade \cup {Absent, Instance("outer", 2)} /\ Failure \notin Made(c, t)
  BY Values DEF Made, Unmade
<1>3. ValueOK(c, t) => entries[c][t] # Failure
  BY <1>2 DEF ValueOK, Unmade
<1> QED BY <1>1, <1>2, <1>3 DEF EntryOK

\* The value a lookup finds in a map.
LEMMA FoundIsOK ==
    ASSUME DerivedInv, ClientInv, NEW c \in Contexts, NEW t \in ContextTokens,
           NEW by, NEW below, Asker(c, t, by, below), Found(c, t) \notin Unmade, Found(c, t) # Void,
           NEW x, x.in = c, x.tok = t, x.got = Found(c, t), x.settled => phase[c] = "done",
           ~x.settled => phase[c] # "done"
    PROVE  FailureOK(x) /\ ClientOK(x) /\ PlainOK(x) /\ LoggerSeenOK(x)
<1>1. /\ OrderOK /\ StagesOK /\ LoggerOK /\ Contexts = {"outer", "inner"} /\ TurnOK("inner")
      /\ Listed(order["inner"])
      /\ {"logger", "derived", "client", "bus"} \subseteq ContextTokens /\ "listener" \notin ContextTokens
  BY Givens
<1>2. PICK at \in Contexts : at = At(c, t)
  BY <1>1 DEF At
<1>3. Found(c, t) = entries[at][t]
  BY <1>2 DEF Found
<1>4. FailureOK(x)
  BY <1>3, NoFailure DEF FailureOK
<1>5. ClientOK(x)
  BY ClientFound DEF ClientOK
<1>6. PlainOK(x)
  <2> SUFFICES ASSUME c = "inner", phase["inner"] = "done", t \notin {"logger", "client", "bus", "derived"}
               PROVE  \/ Found(c, t) = IF Owner(t) = "nobody" THEN Absent ELSE Instance(Owner(t), 1)
                      \/ Owner(t) = "outer" /\ Awaited("outer", t) /\ Found(c, t) = Instance("outer", 2)
    BY DEF PlainOK, Plain
  <2>1. \A d \in Contexts : Made(d, t) = {Instance(d, 1)}
    BY DEF Made
  <2>2. Link # Absent
    BY <1>1, Values DEF Link, LoggerOK
  <2>3. phase["inner"] # "none" /\ phase["outer"] # "none"
    BY <1>1 DEF StagesOK
  <2>4. CASE entries["inner"][t] # Absent
    <3>1. at = "inner"
      BY <1>2, <2>4 DEF At, Falls
    <3>2. Binds(order["inner"], t) /\ ValueOK("inner", t)
      BY <1>1, <2>3, <2>4, EntryIs
    <3>3. entries["inner"][t] = Instance("inner", 1)
      BY <1>1, <1>3, <2>1, <2>4, <3>1, <3>2 DEF ValueOK, Unmade
    <3> QED BY <1>3, <3>1, <3>2, <3>3 DEF Owner
  <2>5. CASE entries["inner"][t] = Absent
    <3>1. at = "outer" /\ ~Binds(order["inner"], t)
      BY <1>1, <1>2, <2>2, <2>3, <2>5, EntryIs DEF At, Falls
    <3>2. CASE Binds(order["outer"], t)
      <4>1. ValueOK("outer", t)
        BY <1>1, <2>3, <3>2, EntryIs
      <4>2. \/ entries["outer"][t] = Instance("outer", 1)
            \/ entries["outer"][t] = Instance("outer", 2) /\ Awaited("outer", t)
        BY <1>1, <1>3, <2>1, <3>1, <4>1 DEF ValueOK, Unmade
      <4> QED BY <1>3, <3>1, <3>2, <4>2 DEF Owner
    <3>3. CASE ~Binds(order["outer"], t)
      <4>1. entries["outer"][t] = Absent
        BY <1>1, <3>3, EntryIs
      <4> QED BY <1>3, <3>1, <3>3, <4>1 DEF Owner
    <3> QED BY <3>2, <3>3
  <2> QED BY <2>4, <2>5
<1>7. LoggerSeenOK(x)
  <2> SUFFICES ASSUME c = "inner", t = "logger"
               PROVE  Found(c, t) = Instance(IF x.settled THEN "outer" ELSE "inner", 1)
    BY DEF LoggerSeenOK
  <2>1. CASE phase["inner"] = "done"
    <3>1. entries["inner"]["logger"] = Absent /\ Link # Absent /\ entries["outer"]["logger"] = Instance("outer", 1)
      BY <1>1, <2>1, Values DEF Link, LoggerOK
    <3>2. at = "outer"
      BY <1>2, <3>1 DEF At, Falls
    <3> QED BY <1>3, <2>1, <3>1, <3>2
  <2>2. CASE phase["inner"] # "done"
    <3>1. Binds(order["inner"], "logger")
      <4>1. 1 \in DOMAIN order["inner"] /\ order["inner"][1].tok = "logger"
        BY <1>1 DEF Listed
      <4> QED BY <4>1 DEF Binds
    <3>2. phase["inner"] # "none"
      <4>1. CASE below = <<>>
        BY <2>2, <4>1 DEF Asker
      <4>2. CASE below # <<>>
        <5>1. below \in Seq(Evaluations) /\ EvaluationsOK(below, by) /\ below[1].in = "inner" /\ origin = by
          BY <4>2 DEF Asker, EvaluationsOK
        <5>2. EvaluationOK(below[1], by) /\ below[1] \in Evaluations
          BY <4>2, <5>1 DEF EvaluationsOK
        <5>3. below[1].for = "inner"
          BY <1>1, <5>1, <5>2 DEF EvaluationOK, Evaluations
        <5> QED BY <1>1, <2>2, <5>1, <5>2, <5>3 DEF EvaluationOK, TurnOK
      <4> QED BY <4>1, <4>2
    <3>3. ValueOK("inner", "logger") /\ entries["inner"]["logger"] # Absent
      BY <1>1, <2>2, <3>1, <3>2, EntryIs
    <3>4. at = "inner"
      BY <1>2, <3>3 DEF At, Falls
    <3>5. Made("inner", "logger") = {Instance("inner", 1)}
      BY DEF Made
    <3>6. entries["inner"]["logger"] = Instance("inner", 1)
      BY <1>3, <2>2, <3>3, <3>4, <3>5 DEF ValueOK, Unmade
    <3> QED BY <1>3, <2>2, <3>4, <3>6
  <2> QED BY <2>1, <2>2
<1> QED BY <1>4, <1>5, <1>6, <1>7

\* The error a lookup throws, as it is seen.
LEMMA ThrownIsOK ==
    ASSUME DerivedInv, ClientInv, NEW c \in Contexts, NEW t \in ContextTokens,
           NEW by, NEW below, Asker(c, t, by, below), Found(c, t) = Void,
           NEW x, x.in = c, x.tok = t, x.got = Failure, x.settled => phase[c] = "done"
    PROVE  FailureOK(x) /\ ClientOK(x) /\ ~Plain(x) /\ LoggerSeenOK(x)
<1>1. \/ t = "client" /\ ~WellOrdered
      \/ c = "inner" /\ phase["inner"] # "done" /\ ~Binds(order["inner"], t) /\ t # "logger" /\ LinkLate
  BY VoidIs
<1>2. FailureOK(x)
  BY <1>1 DEF FailureOK
<1>3. ClientOK(x)
  <2>1. Void \notin Unmade \cup {Client}
    BY Values DEF Unmade
  <2> QED BY <2>1, ClientFound DEF ClientOK
<1>4. ~Plain(x)
  BY <1>1 DEF Plain
<1>5. LoggerSeenOK(x)
  BY <1>1 DEF LoggerSeenOK
<1> QED BY <1>2, <1>3, <1>4, <1>5

SawInv == \A x \in saw : FailureOK(x) /\ ClientOK(x) /\ PlainOK(x) /\ LoggerSeenOK(x)

\* What was seen means the same where nothing is resolved meanwhile.
LEMMA SameSight ==
    ASSUME order' = order, listener' = listener, NEW x
    PROVE  /\ FailureOK(x)' <=> FailureOK(x)
           /\ ClientOK(x)' <=> ClientOK(x)
           /\ Plain(x)' <=> Plain(x)
           /\ LoggerSeenOK(x)' <=> LoggerSeenOK(x)
           /\ phase' = phase /\ cursor' = cursor => (PlainOK(x)' <=> PlainOK(x))
<1>1. WellOrdered' <=> WellOrdered
  BY Static
<1>2. LinkLate' <=> LinkLate
  BY DEF LinkLate
<1>3. FailureOK(x)' <=> FailureOK(x)
  BY <1>1, <1>2 DEF FailureOK
<1>4. ClientOK(x)' <=> ClientOK(x)
  BY <1>1 DEF ClientOK
<1>5. phase' = phase /\ cursor' = cursor => (PlainOK(x)' <=> PlainOK(x))
  BY DEF PlainOK, Plain, Owner, Awaited, Turn
<1> QED BY <1>3, <1>4, <1>5 DEF Plain, LoggerSeenOK


LEMMA SeenIs ==
    ASSUME NEW c, NEW t, NEW got, Seen(c, t, got), NEW x \in saw'
    PROVE  /\ x.in = c /\ x.tok = t /\ x.got = got
           /\ x.settled => phase[c] = "done"
           /\ ~x.settled => phase[c] # "done"
<1>1. x = [in |-> c, tok |-> t, got |-> got, settled |-> phase[c] = "done"]
  BY DEF Seen
<1>2. x.in = c /\ x.tok = t /\ x.got = got
  BY <1>1
<1>3. CASE phase[c] = "done"
  <2>1. x = [in |-> c, tok |-> t, got |-> got, settled |-> TRUE]
    BY <1>1, <1>3
  <2>2. x.settled = TRUE
    BY <2>1
  <2> QED BY <1>2, <1>3, <2>2
<1>4. CASE phase[c] # "done"
  <2>1. x = [in |-> c, tok |-> t, got |-> got, settled |-> FALSE]
    BY <1>1, <1>4
  <2>2. x.settled = FALSE
    BY <2>1
  <2> QED BY <1>2, <1>4, <2>2
<1> QED BY <1>3, <1>4

LEMMA LookUpSees ==
    ASSUME DerivedInv, ClientInv, NEW c \in Contexts, NEW t \in ContextTokens, NEW by, NEW below,
           LookUp(c, t, by, below), Asker(c, t, by, below),
           order' = order, listener' = listener, cursor' = cursor
    PROVE  SawInv'
<1> SUFFICES ASSUME NEW x \in saw' PROVE (FailureOK(x) /\ ClientOK(x) /\ PlainOK(x) /\ LoggerSeenOK(x))'
  BY DEF SawInv
<1>1. CASE Found(c, t) = Void /\ LookupThrows(by, c, t)
  <2>1. Seen(c, t, Failure)
    BY <1>1 DEF LookupThrows
  <2>2. FailureOK(x) /\ ClientOK(x) /\ ~Plain(x) /\ LoggerSeenOK(x)
    BY <1>1, <2>1, SeenIs, ThrownIsOK
  <2>3. FailureOK(x)' /\ ClientOK(x)' /\ ~Plain(x)' /\ LoggerSeenOK(x)'
    BY <2>2, SameSight
  <2> QED BY <2>3 DEF PlainOK
<1>2. CASE saw' = {}
  BY <1>2
<1>3. CASE /\ Found(c, t) \notin Unmade \cup {Void} /\ Seen(c, t, Found(c, t)) /\ phase' = phase
  <2>1. FailureOK(x) /\ ClientOK(x) /\ PlainOK(x) /\ LoggerSeenOK(x)
    BY <1>3, SeenIs, FoundIsOK
  <2> QED BY <1>3, <2>1, SameSight
<1> QED BY <1>1, <1>2, <1>3, LookUpCases

LEMMA StoreSees == ASSUME DerivedInv, FactoryReturns PROVE SawInv'
<1> SUFFICES ASSUME NEW x \in saw' PROVE (FailureOK(x) /\ ClientOK(x) /\ PlainOK(x) /\ LoggerSeenOK(x))'
  BY DEF SawInv
<1>1. calls # <<>> /\ order' = order /\ listener' = listener /\ cursor' = cursor
  BY DEF FactoryReturns, Resting
<1>2. Head(calls) = calls[1] /\ calls[1] \in Evaluations
  BY <1>1, Innermost
<1>3. PICK c \in Contexts, t \in {calls[1].tok} : c = calls[1].in /\ t = calls[1].tok
  BY <1>2 DEF Evaluations
<1>4. t \in ContextTokens /\ (Len(calls) # 1 \/ origin \notin Contexts)
      /\ Seen(calls[1].for, t, Yield(c, t)) /\ phase' = phase
  BY <1>2, <1>3 DEF FactoryReturns
<1>5. PICK d, got : d = calls[1].for /\ got = Yield(c, t)
  OBVIOUS
<1>6. /\ x.in = d /\ x.tok = t /\ x.got = got
      /\ x.settled => phase[d] = "done"
      /\ ~x.settled => phase[d] # "done"
  BY <1>4, <1>5, SeenIs
<1>7. FailureOK(x) /\ ClientOK(x) /\ PlainOK(x) /\ LoggerSeenOK(x)
  BY <1>1, <1>3, <1>4, <1>5, <1>6, StoredIsOK
<1> QED BY <1>1, <1>4, <1>7, SameSight

LEMMA SawStep == ASSUME DerivedInv, ClientInv, SawInv, [DerivedNext]_derivedVars PROVE SawInv'
<1>1. CASE FactoryReturns
  BY <1>1, StoreSees
<1>2. ASSUME NEW t \in ContextTokens, FactoryAsks(t) PROVE SawInv'
  <2>1. PICK c, below : c = Head(calls).in /\ below = <<[Head(calls) EXCEPT !.todo = @ \ {t}]>> \o Tail(calls)
    OBVIOUS
  <2>2. PICK by : by = origin
    OBVIOUS
  <2>3. LookUp(c, t, by, below) /\ order' = order /\ listener' = listener /\ cursor' = cursor
    BY <1>2, <2>1, <2>2 DEF FactoryAsks
  <2>4. Asker(c, t, by, below) /\ c \in Contexts
    BY <1>2, <2>1, <2>2, AskerIs
  <2> QED BY <2>3, <2>4, LookUpSees
<1>3. ASSUME NEW c \in Contexts, NEW t \in ContextTokens, UserAsks(c, t) PROVE SawInv'
  <2>1. /\ calls = <<>> /\ phase[c] = "done" /\ LookUp(c, t, "user", <<>>)
        /\ order' = order /\ listener' = listener /\ cursor' = cursor
    BY <1>3 DEF UserAsks, Resting
  <2>2. origin = "nobody"
    BY <2>1, Givens DEF CallsOK
  <2>3. Asker(c, t, "user", <<>>)
    BY <2>1, <2>2, NoEvaluations DEF Asker
  <2> QED BY <2>1, <2>3, LookUpSees
<1>4. CASE saw' = {}
  BY <1>4 DEF SawInv
<1>5. CASE Construct \/ BusConstructs \/ BusListens \/ ListenerRaises
  BY <1>4, <1>5 DEF Construct, BusConstructs, BusListens, ListenerRaises
<1>6. ASSUME NEW c \in Contexts, ResolveStep(c) \/ ResolveResumes(c) \/ Settle(c) PROVE SawInv'
  BY <1>4, <1>6 DEF ResolveStep, ResolveResumes, Settle
<1>7. CASE UNCHANGED derivedVars
  <2>1. saw' = saw /\ order' = order /\ listener' = listener /\ phase' = phase /\ cursor' = cursor
    BY <1>7 DEF derivedVars
  <2>2. ASSUME NEW x \in saw' PROVE (FailureOK(x) /\ ClientOK(x) /\ PlainOK(x) /\ LoggerSeenOK(x))'
    <3>1. FailureOK(x) /\ ClientOK(x) /\ PlainOK(x) /\ LoggerSeenOK(x)
      BY <2>1 DEF SawInv
    <3> QED BY <2>1, <3>1, SameSight
  <2> QED BY <2>2 DEF SawInv
<1> QED BY <1>1, <1>2, <1>3, <1>5, <1>6, <1>7 DEF DerivedNext

\* Nothing is made more often than it should be, and the outer context is resolved with the
\* client in place.
LEMMA SoundIs == ASSUME DerivedInv, SawInv PROVE DerivedSound
<1>1. /\ StagesOK /\ BusOK /\ TurnOK("outer") /\ Contexts = {"outer", "inner"}
      /\ Listed(order["outer"]) /\ DOMAIN order["outer"] = 1 .. Len(order["outer"]) /\ Len(order["outer"]) \in Nat
      /\ cursor["outer"] \in 1 .. Len(order["outer"]) + 1
      /\ \A d \in Contexts : \A u \in ContextTokens : EntryOK(d, u)
  BY Givens
<1>2. ASSUME NEW x \in saw PROVE FailureOK(x) /\ ClientOK(x) /\ PlainOK(x) /\ LoggerSeenOK(x)
  BY DEF SawInv
<1>3. LookupsSucceed
  BY <1>2 DEF LookupsSucceed, FailureOK, LinkLate
<1>4. ClientServed
  <2>1. ASSUME phase["outer"] = "done", EagerlyBound(order["outer"], "bus"), BusAwaited
        PROVE  entries["outer"]["client"] \in {Absent, Client}
    <3>1. Position(order["outer"], "bus") \in 1 .. Len(order["outer"])
      BY <1>1, <2>1, Placed DEF EagerlyBound
    <3>2. phase["inner"] # "none"
      BY <1>1, <2>1, <3>1 DEF BusOK, TurnOK
    <3> QED BY <1>1, <2>1, <3>2 DEF BusOK
  <2>2. ASSUME WellOrdered, Binds(order["outer"], "client"), NEW x \in saw, x.tok = "client" PROVE x.got = Client
    BY <1>2, <2>2 DEF ClientOK
  <2> QED BY <2>1, <2>2 DEF ClientServed
<1>5. Shared
  <2>1. ASSUME NEW c \in Contexts, NEW t \in ContextTokens PROVE built[c][t] <= Copies(c, t)
    <3>1. EntryOK(c, t) /\ Copies(c, t) \in {1, 2}
      BY <1>1 DEF Copies
    <3> QED BY <3>1 DEF EntryOK, CountOK
  <2>2. ASSUME NEW x \in saw, Plain(x)
        PROVE  \/ x.got = IF Owner(x.tok) = "nobody" THEN Absent ELSE Instance(Owner(x.tok), 1)
               \/ Owner(x.tok) = "outer" /\ Awaited("outer", x.tok) /\ x.got = Instance("outer", 2)
    BY <1>2, <2>2 DEF PlainOK
  <2> QED BY <2>1, <2>2 DEF Shared, Copies, Plain, Owner, Awaited, Turn
<1>6. OneLogger
  BY <1>2 DEF OneLogger, LoggerSeenOK
<1> QED BY <1>3, <1>4, <1>5, <1>6 DEF DerivedSound

\* Whatever is bound in the two contexts, and whatever is asked for when: lookups fail only
\* for the two reasons LookupsSucceed names, the client of the event bus is served, what is
\* bound outside is shared, and a resolved inner context uses the outer logger only
\* (contextFactory, lookup, unregisterRedundantToken, EventBus).
THEOREM DerivedIsSound == DerivedSpec => []DerivedSound
<1> DEFINE Inv3 == DerivedInv /\ ClientInv /\ SawInv
<1>1. DerivedInit => Inv3
  <2>1. DerivedInit => saw = {}
    BY DEF DerivedInit
  <2> QED BY <2>1, DerivedStart, ClientStart DEF SawInv
<1>2. Inv3 /\ [DerivedNext]_derivedVars => Inv3'
  BY DerivedStep, ClientStep, SawStep
<1>3. Inv3 => DerivedSound
  BY SoundIs
<1> QED BY <1>1, <1>2, <1>3, PTL DEF DerivedSpec

=============================================================================
