---------------------------- MODULE DerivedContext ----------------------------
(***************************************************************************)
(* Two containers, of which the inner one falls back on the outer one by its  *)
(* DerivedContextToken: contextFactory, lookup through the token, and what     *)
(* unregisterRedundantToken removes. The inner one is a user's, made of a       *)
(* resolved outer one, or that of an EventBus, which is made while the outer     *)
(* one resolves and puts its client there.                                     *)
(*                                                                          *)
(* Factories are synchronous, except EventBus, and do not fail of their own:    *)
(* those are Context's. EventBusClient yields nothing. What the effects of an   *)
(* event bus ask for does not lead back to the bus.                            *)
(***************************************************************************)
EXTENDS Naturals, Sequences

CONSTANTS ContextTokens,
          Scenarios     \* [outer, inner: the bindings in order, each a [tok, eager, asks],
                        \*  listener: what the effects of the event bus ask for]

Binds(list, t) == \E i \in DOMAIN list : list[i].tok = t

\* What a context can be given: a token once (the map keeps its last binding), no cycle of
\* asks, and a logger that is made in one step, without asking for others.
Registrable(list) ==
    /\ list \in Seq([tok : ContextTokens, eager : BOOLEAN, asks : SUBSET ContextTokens])
    /\ \A i, j \in DOMAIN list : list[i].tok = list[j].tok => i = j
    /\ \A i \in DOMAIN list : list[i].tok = "logger" => list[i].asks = {}
    /\ \E rank \in [DOMAIN list -> DOMAIN list] :
          \A i, j \in DOMAIN list : list[j].tok \in list[i].asks => rank[j] < rank[i]

\* Only the inner context is derived: its link yields the outer one. One with a bus has the
\* bus's own context inside.
ASSUME DerivedAssumption ==
    /\ {"logger", "derived", "client", "bus"} \subseteq ContextTokens
    /\ "listener" \notin ContextTokens
    /\ \A s \in Scenarios :
          /\ Registrable(s.outer) /\ ~Binds(s.outer, "derived")
          /\ ~Binds(s.outer, "bus") =>
                /\ Registrable(s.inner) /\ ~Binds(s.inner, "bus")
                /\ \E i \in DOMAIN s.inner : s.inner[i].tok = "derived" /\ s.inner[i].asks = {}
          /\ s.listener \subseteq ContextTokens

VARIABLES
    order,      \* the bindings of the two contexts, as registered
    listener,   \* what the effects of the event bus ask for
    entries,    \* contents of the two maps
    built,      \* how often a factory has returned
    cursor,     \* where the resolve of a context is
    phase,      \* "none", "loop", "evaluating", "awaiting", "settling", "done" or "rejected"
    calls,      \* synchronous evaluations, innermost first
    origin,     \* what started them: the resolve of a context, "bus" or "user"
    bus,        \* EventBus: "none", "making", "constructing", "attaching", "up" or "failed"
    saw         \* what the last step looked up: [in: the context asked, tok, got,
                \*  settled: the context was resolved]

derivedVars == <<order, listener, entries, built, cursor, phase, calls, origin, bus, saw>>

Contexts == {"outer", "inner"}
Absent == <<"absent">>
Lazy == <<"lazy">>
Eager == <<"eager">>
Void == <<"void">>
Promise == <<"promise">>
Client == <<"client">>      \* the messaging client of the event bus
Failure == <<"failure">>    \* of a lookup that threw
Instance(c, n) == <<c, n>>

Resting == calls = <<>>

\* registerAll: the default logger comes first, and another one takes its place.
Registered(list) ==
    LET standard == [tok |-> "logger", eager |-> FALSE, asks |-> {}]
        own == {i \in DOMAIN list : list[i].tok = "logger"}
        place == CHOOSE i \in own : TRUE
    IN  IF own = {} THEN <<standard>> \o list
        ELSE [i \in DOMAIN list |->
                 IF i = 1 THEN list[place] ELSE IF i <= place THEN list[i - 1] ELSE list[i]]

\* What an EventBus binds in its own context, its transport and timer store aside.
BusBindings == <<[tok |-> "derived", eager |-> TRUE, asks |-> {}],
                 [tok |-> "client", eager |-> TRUE, asks |-> {}]>>

ByBus == Binds(order.outer, "bus")
Bindings(c, t) == {order[c][i] : i \in {j \in DOMAIN order[c] : order[c][j].tok = t}}
Asks(c, t) == UNION {b.asks : b \in Bindings(c, t)}
Unresolved(c) ==
    [t \in ContextTokens |-> CASE Bindings(c, t) = {} -> Absent
                               [] \E b \in Bindings(c, t) : b.eager -> Eager
                               [] OTHER -> Lazy]

DerivedInit ==
    /\ \E s \in Scenarios :
          /\ order = [outer |-> Registered(s.outer),
                      inner |-> Registered(IF Binds(s.outer, "bus") THEN BusBindings ELSE s.inner)]
          /\ listener = s.listener
    /\ entries = [outer |-> Unresolved("outer"), inner |-> [t \in ContextTokens |-> Absent]]
    /\ built = [c \in Contexts |-> [t \in ContextTokens |-> 0]]
    /\ cursor = [c \in Contexts |-> 1]
    /\ phase = [c \in Contexts |-> IF c = "outer" THEN "loop" ELSE "none"]
    /\ calls = <<>>
    /\ origin = "nobody"
    /\ bus = "none"
    /\ saw = {}

------------------------------------------------------------------------------
(* lookup. *)

Seen(c, t, got) == saw' = {[in |-> c, tok |-> t, got |-> got, settled |-> phase[c] = "done"]}

\* An error leaves all factories; the resolve or the event bus they ran for fails.
LookupThrows(by, c, t) ==
    /\ calls' = <<>>
    /\ origin' = "nobody"
    /\ phase' = IF by \in Contexts THEN [phase EXCEPT ![by] = "rejected"] ELSE phase
    /\ bus' = IF by = "bus" THEN "failed" ELSE bus
    /\ Seen(c, t, Failure)

\* lookup of t in c, for by, above the frames below. An entry that has not been evaluated
\* is no context yet to fall back on: reading its entries throws.
LookUp(c, t, by, below) ==
    LET falls == c = "inner" /\ entries[c][t] = Absent
        link == entries["inner"]["derived"]
        at == IF falls /\ link # Absent THEN "outer" ELSE c
        entry == IF falls /\ link \in {Lazy, Eager} THEN Void ELSE entries[at][t]
    IN  CASE entry = Void -> LookupThrows(by, c, t)
          [] entry \in {Lazy, Eager} ->
                /\ calls' = <<[for |-> c, in |-> at, tok |-> t, todo |-> Asks(at, t)]>> \o below
                /\ origin' = by
                /\ saw' = {}
                /\ UNCHANGED <<phase, bus>>
          [] OTHER ->
                /\ calls' = below
                /\ origin' = IF below = <<>> THEN "nobody" ELSE by
                /\ Seen(c, t, entry)
                /\ UNCHANGED <<phase, bus>>

\* The innermost factory asks.
FactoryAsks(t) ==
    /\ ~Resting /\ t \in Head(calls).todo
    /\ LookUp(Head(calls).in, t, origin, <<[Head(calls) EXCEPT !.todo = @ \ {t}]>> \o Tail(calls))
    /\ UNCHANGED <<order, listener, entries, built, cursor>>

\* A resolved context is used; that of an event bus by its effects.
UserAsks(c, t) ==
    /\ Resting /\ phase[c] = "done"
    /\ c = "inner" /\ ByBus => bus \in {"up", "failed"}
    /\ LookUp(c, t, "user", <<>>)
    /\ UNCHANGED <<order, listener, entries, built, cursor>>

Yield(c, t) ==
    CASE t = "derived" -> Instance("outer", 0)
      [] t = "client" -> IF c = "inner" THEN Client ELSE Void
      [] t = "bus" -> Promise
      [] OTHER -> Instance(c, built[c][t] + 1)

\* The innermost factory returns: lookup stores what it made, resolve awaits it. The effects
\* of the event bus are attached when they have asked for what they need.
FactoryReturns ==
    LET f == Head(calls)
        byLoop == Len(calls) = 1 /\ origin \in Contexts
        store == ~byLoop /\ f.tok \in ContextTokens
    IN  /\ ~Resting /\ f.todo = {}
        /\ calls' = Tail(calls)
        /\ origin' = IF Len(calls) = 1 THEN "nobody" ELSE origin
        /\ built' = IF f.tok \in ContextTokens THEN [built EXCEPT ![f.in][f.tok] = @ + 1] ELSE built
        /\ entries' = IF store THEN [entries EXCEPT ![f.in][f.tok] = Yield(f.in, f.tok)] ELSE entries
        /\ IF store THEN Seen(f.for, f.tok, Yield(f.in, f.tok)) ELSE saw' = {}
        /\ phase' = IF byLoop THEN [phase EXCEPT ![origin] = "awaiting"] ELSE phase
        /\ bus' = CASE f.tok = "bus" -> "making" [] f.tok \notin ContextTokens -> "up" [] OTHER -> bus
        /\ UNCHANGED <<order, listener, cursor>>

------------------------------------------------------------------------------
(* constructContext. *)

\* resolve looks at its next entry.
ResolveStep(c) ==
    LET over == cursor[c] > Len(order[c])
        t == order[c][cursor[c]].tok
    IN  /\ phase[c] = "loop" /\ Resting
        /\ CASE over ->
                  /\ phase' = [phase EXCEPT ![c] = "settling"]
                  /\ UNCHANGED <<cursor, calls, origin>>
             [] ~over /\ entries[c][t] = Eager ->
                  /\ phase' = [phase EXCEPT ![c] = "evaluating"]
                  /\ calls' = <<[for |-> c, in |-> c, tok |-> t, todo |-> Asks(c, t)]>>
                  /\ origin' = c
                  /\ UNCHANGED cursor
             [] ~over /\ entries[c][t] = Void ->
                  /\ phase' = [phase EXCEPT ![c] = "rejected"]
                  /\ UNCHANGED <<cursor, calls, origin>>
             [] OTHER ->
                  /\ cursor' = [cursor EXCEPT ![c] = @ + 1]
                  /\ UNCHANGED <<phase, calls, origin>>
        /\ saw' = {}
        /\ UNCHANGED <<order, listener, entries, built, bus>>

\* It goes on with what it awaited: of an event bus, until it is up.
ResolveResumes(c) ==
    LET t == order[c][cursor[c]].tok
        got == IF t \in {"derived", "client"} THEN Yield(c, t) ELSE Instance(c, 1)
    IN  /\ phase[c] = "awaiting" /\ Resting
        /\ t = "bus" => bus \in {"up", "failed"}
        /\ IF t = "bus" /\ bus = "failed"
           THEN phase' = [phase EXCEPT ![c] = "rejected"] /\ UNCHANGED <<entries, cursor>>
           ELSE /\ entries' = [entries EXCEPT ![c][t] = got]
                /\ cursor' = [cursor EXCEPT ![c] = @ + 1]
                /\ phase' = [phase EXCEPT ![c] = "loop"]
        /\ saw' = {}
        /\ UNCHANGED <<order, listener, built, calls, origin, bus>>

\* The logger of the outer context, which is made now if nobody needed it.
OuterLogger ==
    IF entries["outer"]["logger"] = Lazy THEN Instance("outer", 1) ELSE entries["outer"]["logger"]

\* Mutant: unregisterRedundantToken looks the logger up and leaves it where it is.
Settle_Keeps(c) ==
    LET link == Instance("outer", 0)
    IN  /\ phase[c] = "settling" /\ Resting
        /\ phase' = [phase EXCEPT ![c] = "done"]
        /\ IF entries[c]["derived"] = Absent
           THEN UNCHANGED <<entries, built>>
           ELSE /\ entries' = [entries EXCEPT !["outer"]["logger"] = OuterLogger,
                                              !["inner"]["derived"] = link]
                /\ built' = [built EXCEPT !["outer"]["logger"] = 1]
        /\ saw' = {}
        /\ UNCHANGED <<order, listener, cursor, calls, origin, bus>>

\* unregisterRedundantToken evaluates the link and, behind it, the logger of the outer
\* context, and removes that of the inner one.
Settle(c) ==
    LET link == Instance("outer", 0)
    IN  /\ phase[c] = "settling" /\ Resting
        /\ phase' = [phase EXCEPT ![c] = "done"]
        /\ IF entries[c]["derived"] = Absent
           THEN UNCHANGED <<entries, built>>
           ELSE /\ entries' = [entries EXCEPT !["outer"]["logger"] = OuterLogger,
                                              !["inner"] = [@ EXCEPT !["derived"] = link, !["logger"] = Absent]]
                /\ built' = [built EXCEPT !["outer"]["logger"] = 1]
        /\ saw' = {}
        /\ UNCHANGED <<order, listener, cursor, calls, origin, bus>>

\* A user makes a context of the resolved one.
Construct ==
    /\ phase["outer"] = "done" /\ phase["inner"] = "none" /\ ~ByBus /\ Resting
    /\ entries' = [entries EXCEPT !["inner"] = Unresolved("inner")]
    /\ phase' = [phase EXCEPT !["inner"] = "loop"]
    /\ saw' = {}
    /\ UNCHANGED <<order, listener, built, cursor, calls, origin, bus>>

\* EventBus has its connection and its client: it puts the client where one is bound, and
\* makes its context.
BusConstructs ==
    /\ bus = "making" /\ phase["inner"] = "none" /\ Resting
    /\ bus' = "constructing"
    /\ entries' = [outer |-> IF entries["outer"]["client"] = Absent THEN entries["outer"]
                             ELSE [entries["outer"] EXCEPT !["client"] = Client],
                   inner |-> Unresolved("inner")]
    /\ phase' = [phase EXCEPT !["inner"] = "loop"]
    /\ saw' = {}
    /\ UNCHANGED <<order, listener, built, cursor, calls, origin>>

\* Its listener is attached to the connection.
BusListens ==
    /\ bus = "constructing" /\ phase["inner"] = "done" /\ Resting
    /\ bus' = "attaching"
    /\ calls' = <<[for |-> "inner", in |-> "inner", tok |-> "listener",
                   todo |-> {"logger"} \union listener]>>
    /\ origin' = "bus"
    /\ saw' = {}
    /\ UNCHANGED <<order, listener, entries, built, cursor, phase>>

\* A middleware or an effect of the listener throws.
ListenerRaises ==
    /\ ~Resting /\ Head(calls).tok = "listener" /\ Head(calls).todo = {}
    /\ bus' = "failed"
    /\ calls' = <<>> /\ origin' = "nobody" /\ saw' = {}
    /\ UNCHANGED <<order, listener, entries, built, cursor, phase>>

DerivedNext ==
    \/ FactoryReturns \/ Construct \/ BusConstructs \/ BusListens \/ ListenerRaises
    \/ \E t \in ContextTokens : FactoryAsks(t)
    \/ \E c \in Contexts :
          ResolveStep(c) \/ ResolveResumes(c) \/ Settle(c) \/ \E t \in ContextTokens : UserAsks(c, t)

DerivedSpec == DerivedInit /\ [][DerivedNext]_derivedVars

------------------------------------------------------------------------------
(* Properties. *)

Position(list, t) == CHOOSE i \in DOMAIN list : list[i].tok = t
EagerlyBound(list, t) == Binds(list, t) /\ list[Position(list, t)].eager

\* Nobody asks for the bus before its turn is over.
BusAwaited == entries["outer"]["bus"] # Promise /\ built["outer"]["bus"] <= 1

\* The bindings of the outer context ask only for earlier ones, and the bus comes before
\* its client.
WellOrdered ==
    LET list == order.outer
    IN  /\ \A i \in DOMAIN list : \A t \in list[i].asks : Binds(list, t) => Position(list, t) < i
        /\ Binds(list, "client") =>
              EagerlyBound(list, "bus") /\ Position(list, "bus") < Position(list, "client")

\* An inner context whose link comes first finds whatever is bound outside; otherwise it
\* fails only by asking for that too early. Whoever binds the bus in time never meets a
\* client that is not there. (lookup, EventBus)
LookupsSucceed ==
    \A x \in saw : x.got = Failure =>
        \/ x.tok = "client" /\ ~WellOrdered
        \/ /\ x.in = "inner" /\ ~Binds(order.inner, x.tok)
           /\ \/ ~EagerlyBound(order.inner, "derived")
              \/ \E i \in 1..(Position(order.inner, "derived") - 1) : order.inner[i].eager

\* Wherever the bus is bound eagerly, its client is in place when the outer context is
\* resolved, unless the bus was asked for too early; in good order nobody ever gets
\* anything else for it. (setEventBusClientInDerivedContext)
ClientServed ==
    /\ phase["outer"] = "done" /\ EagerlyBound(order.outer, "bus") /\ BusAwaited =>
          entries["outer"]["client"] \in {Absent, Client}
    /\ WellOrdered /\ Binds(order.outer, "client") => \A x \in saw : x.tok = "client" => x.got = Client

\* What is bound outside only is one instance for both contexts, what is bound inside is
\* the inner one's own. If the bus was not asked for too early, only an eager one is ever
\* made twice, for an effect of the event bus that asks while the outer resolve awaits it:
\* from then on everybody gets the first.
Shared ==
    LET InFlight(t) == phase["outer"] = "awaiting" /\ order.outer[cursor["outer"]].tok = t
        owner(t) == IF Binds(order.inner, t) THEN "inner"
                    ELSE IF Binds(order.outer, t) THEN "outer" ELSE "nobody"
    IN  BusAwaited =>
            /\ \A c \in Contexts, t \in ContextTokens :
                  built[c][t] <= IF c = "outer" /\ ByBus /\ EagerlyBound(order[c], t) THEN 2 ELSE 1
            /\ \A x \in saw :
                  x.in = "inner" /\ x.settled /\ x.tok \notin {"logger", "client", "bus", "derived"} =>
                  \/ x.got = IF owner(x.tok) = "nobody" THEN Absent ELSE Instance(owner(x.tok), 1)
                  \/ owner(x.tok) = "outer" /\ InFlight(x.tok) /\ x.got = Instance("outer", 2)

\* While it is resolved an inner context uses a logger of its own, afterwards only the
\* outer one, even if one was bound for it. (unregisterRedundantToken)
OneLogger ==
    \A x \in saw : x.in = "inner" /\ x.tok = "logger" =>
        x.got = Instance(IF x.settled THEN "outer" ELSE "inner", 1)

DerivedSound == LookupsSucceed /\ ClientServed /\ Shared /\ OneLogger
==============================================================================
