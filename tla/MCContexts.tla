----------------------------- MODULE MCContexts -----------------------------
(* Small instances of Context and DerivedContext for TLC, side by side.         *)
EXTENDS Context, DerivedContext, FiniteSets, TLC

Binding(t, e, needs) == [tok |-> t, eager |-> e, asks |-> needs]
Orders(set) ==
    {list \in [1 .. Cardinality(set) -> set] : \A i, j \in DOMAIN list : i # j => list[i] # list[j]}
Busses == {Binding("bus", e, {}) : e \in BOOLEAN}
Clients == {Binding("client", e, {"logger"}) : e \in BOOLEAN}
As(sets) == {Binding("a", e, needs) : e \in BOOLEAN, needs \in sets}

\* A resolved context and a user's context made of it: their bindings in any order.
Derived ==
    [outer : UNION {Orders({a} \union more) : a \in As({{}}),
                      more \in {{}, {Binding("logger", TRUE, {})}, {Binding("client", TRUE, {"logger"})}}},
     inner : UNION {Orders({Binding("derived", d, {}), Binding("b", e, needs)} \union more) :
                      d \in BOOLEAN, e \in BOOLEAN, needs \in {{}, {"logger", "a"}},
                      more \in {{}, {Binding("logger", FALSE, {})}, {Binding("a", FALSE, {})}}},
     listener : {{}}]

\* A context with an event bus, which is bound before or after its client, if that is.
WithBus ==
    {s \in [outer : UNION {Orders({a, b} \union more) : a \in As(SUBSET {"client", "bus"}),
                             b \in Busses, more \in {{}} \union {{c} : c \in Clients}},
            inner : {<<>>},
            listener : {{}, {"a", "client"}}] :
        "a" \in s.listener => \A i \in DOMAIN s.outer : s.outer[i].tok = "a" => "bus" \notin s.outer[i].asks}

ContextScenarios == Derived \union WithBus

VARIABLE part       \* which of the two a behaviour is about; the other one rests

ContextRests ==
    /\ eager = {} /\ async = {}
    /\ yields = [t \in Tokens |-> CHOOSE y \in Yields : TRUE] /\ asks = [t \in Tokens |-> {}]
    /\ slot = [t \in Tokens |-> "lazy"] /\ made = [t \in Tokens |-> 0]
    /\ turn = N + 1 /\ main = "done"
    /\ stack = <<>> /\ caller = Nobody /\ late = {}

DerivedRests ==
    /\ order = [c \in Contexts |-> <<>>] /\ listener = {}
    /\ entries = [c \in Contexts |-> Unresolved(c)]
    /\ built = [c \in Contexts |-> [t \in ContextTokens |-> 0]]
    /\ cursor = [c \in Contexts |-> 1] /\ phase = [c \in Contexts |-> "none"]
    /\ calls = <<>> /\ origin = "nobody"
    /\ bus = "none" /\ saw = {}

MCInit ==
    \/ part = "context" /\ Init /\ DerivedRests
    \/ part = "derived" /\ DerivedInit /\ ContextRests

MCNext ==
    \/ part = "context" /\ Next /\ UNCHANGED <<derivedVars, part>>
    \/ part = "derived" /\ DerivedNext /\ UNCHANGED <<vars, part>>

MCSpec == MCInit /\ [][MCNext]_<<vars, derivedVars, part>> /\ Fairness
=============================================================================
