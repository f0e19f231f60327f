-------------------------------- MODULE Context --------------------------------
(***************************************************************************)
(* The dependency container of @marblejs/core: contextFactory registers    *)
(* bindings in order, resolve() evaluates the eager ones one after the     *)
(* other, awaiting each, and lookup() evaluates whatever is asked for and  *)
(* not evaluated yet.                                                      *)
(*                                                                         *)
(* Factories are user code: each asks for other tokens, and yields a       *)
(* value, nothing (undefined), or an error.  An async one returns its      *)
(* promise at any point and asks for the rest later, while resolve() is    *)
(* busy elsewhere.  Which factory does what is chosen in Init, from every  *)
(* graph of asks without a cycle.                                          *)
(***************************************************************************)
EXTENDS Naturals, Sequences

CONSTANTS
    N,          \* number of bindings
    Yields      \* what factories may yield

ASSUME ContextAssumption ==
    /\ N \in Nat \ {0}
    /\ Yields \subseteq {"value", "void", "error"}

Tokens == 1 .. N            \* in order of registration

VARIABLES
    eager, async, yields, asks,     \* the bindings, and what their factories do
    slot,       \* content of the map: "lazy", "eager", "promise", "value" or "void"
    made,       \* how often the token's factory has returned
    turn,       \* the entry resolve() is at
    main,       \* resolve(): "loop", "starting" (it has found an eager entry, whose factory
                \* runs next), "evaluating", "awaiting", "done" or "rejected"
    stack,      \* synchronous evaluations in progress, innermost first
    caller,     \* what started them: resolve(), an async factory, or a user of the context
    late        \* async factories at an await: what they still ask for

bindings == <<eager, async, yields, asks>>
vars == <<bindings, slot, made, turn, main, stack, caller, late>>

Acyclic(graph) ==
    \E rank \in [Tokens -> Tokens] :
        \A t \in Tokens : \A u \in graph[t] : rank[u] < rank[t]

\* What an async factory still asks for after its promise was returned;
\* "awaited" marks the promise that resolve() waits for.
Rests == [tok : Tokens, awaited : BOOLEAN, rest : SUBSET Tokens]

Nobody == [by |-> "nobody"]
TheLoop == [by |-> "loop"]
AUser == [by |-> "user"]
Late(c) == [by |-> "late", task |-> c]

Init ==
    /\ eager \in SUBSET Tokens
    /\ async \in SUBSET Tokens
    /\ yields \in [Tokens -> Yields]
    /\ asks \in [Tokens -> SUBSET Tokens]
    /\ Acyclic(asks)
    /\ slot = [t \in Tokens |-> IF t \in eager THEN "eager" ELSE "lazy"]
    /\ made = [t \in Tokens |-> 0]
    /\ turn = 1
    /\ main = "loop"
    /\ stack = <<>>
    /\ caller = Nobody
    /\ late = {}

Idle == stack = <<>>
Frames == [tok : Tokens, todo : SUBSET Tokens]
Frame(t) == [tok |-> t, todo |-> asks[t]]

\* An error leaves every factory on the stack; resolve() rejects if it, or the
\* promise it awaits, is what the error ends in.
Throw(by, others) ==
    /\ stack' = <<>>
    /\ caller' = Nobody
    /\ main' = IF by.by = "loop" \/ (by.by = "late" /\ by.task.awaited) THEN "rejected" ELSE main
    /\ late' = IF by.by = "late" THEN others \ {by.task} ELSE others

\* lookup() of a bound token, on behalf of "by", above the frames "below": an
\* evaluated one is returned, and reading "eval" of an undefined one throws.
Lookup(t, by, below, others) ==
    CASE slot[t] \in {"lazy", "eager"} ->
           /\ stack' = <<Frame(t)>> \o below
           /\ caller' = by
           /\ late' = others
           /\ UNCHANGED main
      [] slot[t] \in {"value", "promise"} ->
           /\ stack' = below
           /\ caller' = IF below = <<>> THEN Nobody ELSE by
           /\ late' = others
           /\ UNCHANGED main
      [] OTHER -> Throw(by, others)

\* Slips: resolve() goes through a snapshot of the bindings, not through the map it
\* changes; it rejects an entry that is not a dependency any more; it waits for a lazy
\* one to be asked for.
LoopStep_Snapshot ==
    /\ main = "loop" /\ Idle
    /\ IF turn > N
       THEN main' = "done" /\ UNCHANGED turn
       ELSE IF turn \in eager
            THEN main' = "starting" /\ UNCHANGED turn
            ELSE turn' = turn + 1 /\ UNCHANGED main
    /\ UNCHANGED <<bindings, slot, made, stack, caller, late>>

LoopStep_Strict ==
    /\ main = "loop" /\ Idle
    /\ IF turn > N
       THEN main' = "done" /\ UNCHANGED turn
       ELSE CASE slot[turn] = "eager" -> main' = "starting" /\ UNCHANGED turn
              [] slot[turn] = "lazy" -> turn' = turn + 1 /\ UNCHANGED main
              [] OTHER -> main' = "rejected" /\ UNCHANGED turn
    /\ UNCHANGED <<bindings, slot, made, stack, caller, late>>

LoopStep_AwaitsLazy ==
    /\ main = "loop" /\ Idle
    /\ turn <= N => slot[turn] # "lazy"
    /\ IF turn > N
       THEN main' = "done" /\ UNCHANGED turn
       ELSE CASE slot[turn] = "eager" -> main' = "starting" /\ UNCHANGED turn
              [] slot[turn] = "void" -> main' = "rejected" /\ UNCHANGED turn
              [] OTHER -> turn' = turn + 1 /\ UNCHANGED main
    /\ UNCHANGED <<bindings, slot, made, stack, caller, late>>

\* resolve() looks at its next entry.
LoopStep ==
    /\ main = "loop" /\ Idle
    /\ IF turn > N
       THEN main' = "done" /\ UNCHANGED turn
       ELSE CASE slot[turn] = "eager" -> main' = "starting" /\ UNCHANGED turn
              [] slot[turn] = "void" -> main' = "rejected" /\ UNCHANGED turn
              [] OTHER -> turn' = turn + 1 /\ UNCHANGED main
    /\ UNCHANGED <<bindings, slot, made, stack, caller, late>>

\* The task of that entry runs, a microtask later, and evaluates the factory that
\* the entry held, whatever has become of the entry since.
LoopStart ==
    /\ main = "starting" /\ Idle
    /\ main' = "evaluating"
    /\ stack' = <<Frame(turn)>>
    /\ caller' = TheLoop
    /\ UNCHANGED <<bindings, slot, made, turn, late>>

\* The innermost factory asks for a token.
Ask(t) ==
    /\ ~Idle
    /\ t \in Head(stack).todo
    /\ Lookup(t, caller, <<[Head(stack) EXCEPT !.todo = @ \ {t}]>> \o Tail(stack), late)
    /\ UNCHANGED <<bindings, slot, made, turn>>

\* Slips: lookup() does not store what it made; resolve() does not await.
Return_NotCached ==
    /\ ~Idle
    /\ LET t == Head(stack).tok
           byLoop == Len(stack) = 1 /\ caller = TheLoop
       IN  /\ t \in async \/ (Head(stack).todo = {} /\ yields[t] # "error")
           /\ made' = [made EXCEPT ![t] = @ + 1]
           /\ late' = IF t \in async
                      THEN late \cup {[tok |-> t, awaited |-> byLoop, rest |-> Head(stack).todo]}
                      ELSE late
           /\ main' = IF byLoop THEN "awaiting" ELSE main
    /\ stack' = Tail(stack)
    /\ caller' = IF Len(stack) = 1 THEN Nobody ELSE caller
    /\ UNCHANGED <<bindings, turn, slot>>

Return_NotAwaited ==
    /\ ~Idle
    /\ LET t == Head(stack).tok
           byLoop == Len(stack) = 1 /\ caller = TheLoop
       IN  /\ t \in async \/ (Head(stack).todo = {} /\ yields[t] # "error")
           /\ made' = [made EXCEPT ![t] = @ + 1]
           /\ late' = IF t \in async
                      THEN late \cup {[tok |-> t, awaited |-> FALSE, rest |-> Head(stack).todo]}
                      ELSE late
           /\ slot' = [slot EXCEPT ![t] = IF t \in async THEN "promise" ELSE yields[t]]
           /\ IF byLoop THEN main' = "loop" /\ turn' = turn + 1 ELSE UNCHANGED <<main, turn>>
    /\ stack' = Tail(stack)
    /\ caller' = IF Len(stack) = 1 THEN Nobody ELSE caller
    /\ UNCHANGED bindings

\* The innermost factory returns: an async one its promise, perhaps before its
\* last asks.  What lookup() called is stored; what resolve() called is awaited.
Return ==
    /\ ~Idle
    /\ LET t == Head(stack).tok
           todo == Head(stack).todo
           byLoop == Len(stack) = 1 /\ caller = TheLoop
       IN  /\ t \in async \/ (todo = {} /\ yields[t] # "error")
           /\ made' = [made EXCEPT ![t] = @ + 1]
           /\ late' = IF t \in async
                      THEN late \cup {[tok |-> t, awaited |-> byLoop, rest |-> todo]}
                      ELSE late
           /\ IF byLoop
              THEN main' = "awaiting" /\ UNCHANGED slot
              ELSE /\ slot' = [slot EXCEPT ![t] = IF t \in async THEN "promise" ELSE yields[t]]
                   /\ UNCHANGED main
    /\ stack' = Tail(stack)
    /\ caller' = IF Len(stack) = 1 THEN Nobody ELSE caller
    /\ UNCHANGED <<bindings, turn>>

\* The innermost factory throws.
Raise ==
    /\ ~Idle
    /\ Head(stack).tok \notin async
    /\ Head(stack).todo = {}
    /\ yields[Head(stack).tok] = "error"
    /\ Throw(caller, late)
    /\ UNCHANGED <<bindings, slot, made, turn>>

\* An async factory goes on after an await and asks for a token.
LateAsk(c, t) ==
    /\ Idle
    /\ t \in c.rest
    /\ LET d == [c EXCEPT !.rest = @ \ {t}]
       IN  Lookup(t, Late(d), <<>>, (late \ {c}) \cup {d})
    /\ UNCHANGED <<bindings, slot, made, turn>>

\* An async factory ends, and with it its promise.
Finish(c) ==
    /\ Idle
    /\ c.rest = {}
    /\ late' = late \ {c}
    /\ main' = IF c.awaited /\ yields[c.tok] = "error" THEN "rejected" ELSE main
    /\ UNCHANGED <<bindings, slot, made, turn, stack, caller>>

\* resolve() continues with what it awaited.
LoopResume ==
    /\ main = "awaiting" /\ Idle
    /\ \A c \in late : ~c.awaited
    /\ slot' = [slot EXCEPT ![turn] = yields[turn]]
    /\ turn' = turn + 1
    /\ main' = "loop"
    /\ UNCHANGED <<bindings, made, stack, caller, late>>

\* The resolved context is used.
UserAsk(t) ==
    /\ main = "done" /\ Idle
    /\ Lookup(t, AUser, <<>>, late)
    /\ UNCHANGED <<bindings, slot, made, turn>>

Next ==
    \/ LoopStep
    \/ LoopStart
    \/ LoopResume
    \/ \E t \in Tokens : Ask(t)
    \/ Return
    \/ Raise
    \/ \E c \in late : Finish(c) \/ \E t \in Tokens : LateAsk(c, t)
    \/ \E t \in Tokens : UserAsk(t)

Spec == Init /\ [][Next]_vars

\* Factories return and promises settle.
Fairness ==
    /\ WF_vars(LoopStep \/ LoopStart \/ LoopResume)
    /\ WF_vars((\E t \in Tokens : Ask(t)) \/ Return \/ Raise)
    /\ WF_vars(\E c \in late : Finish(c) \/ \E t \in Tokens : LateAsk(c, t))

FairSpec == Spec /\ Fairness

-----------------------------------------------------------------------------
TypeOK ==
    /\ eager \subseteq Tokens /\ async \subseteq Tokens
    /\ yields \in [Tokens -> Yields]
    /\ asks \in [Tokens -> SUBSET Tokens]
    /\ slot \in [Tokens -> {"lazy", "eager", "promise", "value", "void"}]
    /\ made \in [Tokens -> Nat]
    /\ turn \in 1 .. N + 1
    /\ main \in {"loop", "starting", "evaluating", "awaiting", "done", "rejected"}
    /\ stack \in Seq(Frames)
    /\ caller \in {Nobody, TheLoop, AUser} \cup [by : {"late"}, task : Rests]
    /\ late \subseteq Rests

\* A lazy dependency is bootstrapped only once, whoever asks for it and when.
LazyOnce == \A t \in Tokens \ eager : made[t] <= 1

\* resolve() turns to no dependency that was made before. A second instance, and never
\* a third, is only made of the eager one whose turn it is or was when resolve() was
\* rejected, and by one of two: an async factory that outlived its own turn asks for it
\* while its entry still holds the factory, or resolve() itself evaluates it although
\* such a factory has asked for it since resolve() looked at the entry.
SecondInstanceOnlyInFlight ==
    [][/\ main = "loop" /\ main' = "starting" => made[turn] = 0
       /\ \A t \in Tokens : made[t] > 0 /\ made'[t] # made[t] =>
             /\ made[t] = 1
             /\ t \in eager /\ turn = t
             /\ \/ main \in {"awaiting", "rejected"} /\ caller.by = "late" /\ slot[t] = "eager"
                \/ main = "evaluating" /\ caller = TheLoop /\ slot[t] \in {"promise", yields[t]}]_vars

\* Every binding asks only for earlier ones.
Ordered == \A t \in Tokens : \A u \in asks[t] : u < t

\* With ordered bindings resolve() keeps its promise: each dependency is made at
\* most once, and when it is done each eager one is in the map as what it yielded,
\* not as a promise, and none has failed.
OrderedIsResolved ==
    Ordered =>
        /\ \A t \in Tokens : made[t] <= 1
        /\ main = "done" => \A t \in eager : slot[t] = yields[t]

\* resolve() rejects only if some factory fails, or the map holds an undefined
\* entry (which no lookup and no turn of resolve() survives).
RejectsForReason ==
    main = "rejected" => \E t \in Tokens : yields[t] = "error" \/ slot[t] = "void"

\* resolve() always settles.
Settles == <>(main \in {"done", "rejected"})

\* context.ts:72 says of resolve: "Resolves eager dependencies within the context";
\* context.spec.ts:253, of eager readers, "the binding order doesn't matter".
EagerAreResolved == main = "done" => \A t \in eager : slot[t] # "promise"
=============================================================================
