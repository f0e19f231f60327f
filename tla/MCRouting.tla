------------------------------ MODULE MCRouting ------------------------------
EXTENDS Routing

Declare(path, method, uses, effect, metas) ==
    <<[is |-> "matchPath", path |-> path], [is |-> "matchType", method |-> method]>>
    \o [i \in DOMAIN uses |-> [is |-> "use", middleware |-> uses[i]]]
    \o <<[is |-> "useEffect", effect |-> effect]>>
    \o [i \in DOMAIN metas |-> [is |-> "applyMeta", overridable |-> metas[i]]]

MCPipes == {
    Declare(<<Literal("a")>>, "GET", <<>>, "getA", <<>>),
    Declare(<<Literal("a"), Slash>>, "GET", <<"m1", "m2">>, "getAgain", <<FALSE, TRUE>>),
    Declare(<<Parameter("p")>>, "POST", <<"m1">>, "postP", <<>>),
    Declare(<<Parameter("q"), Slash>>, "*", <<>>, "anyQ", <<>>),
    Declare(<<Wildcard>>, "POST", <<>>, "postRest", <<>>),
    Declare(<<Wildcard, Parameter("p"), Optional("o")>>, "GET", <<>>, "getLast", <<>>),
    Declare(<<Wildcard, Parameter("p"), Wildcard>>, "GET", <<>>, "getRests", <<>>)}

MCGroups == {[path |-> <<>>, middlewares |-> <<"g1">>],
             [path |-> <<Parameter("g")>>, middlewares |-> <<"g2">>]}
MCRoots == {[path |-> <<>>, middlewares |-> <<"g0">>]}

MCUrls == {<<Empty>>, <<"a">>, <<"A">>, <<"%", Empty>>, <<"a", "b">>, <<"b", "%", "a">>}
MCRequests == [url : MCUrls, method : {"GET", "POST"}]
MCMalformed == {"%"}
MCLower == [text \in {Empty, "a", "A", "b", "%"} |-> IF text = "A" THEN "a" ELSE text]
==============================================================================
