------------------------------- MODULE Routing -------------------------------
(***************************************************************************)
(* How a tree of declared routes becomes the routing table of a listener    *)
(* (r.pipe, combineRoutes, factorizeRouting) and how matchRoute finds the   *)
(* effect of a request in it.                                               *)
(*                                                                          *)
(* factorizeRouting walks the tree depth first. Here the tree is declared   *)
(* while it is walked: AddRoute is one turn of its forEach with a route,    *)
(* OpenGroup the recursive call for a group and CloseGroup its return, so    *)
(* that stack holds the calls in progress. Finish adds the default route.   *)
(*                                                                          *)
(* A path is a sequence of segments: literal, parameter, optional parameter *)
(* or wildcard. The path of a request is a sequence of texts; the last one  *)
(* is Empty when it ends with a slash.                                      *)
(***************************************************************************)
EXTENDS Naturals, Sequences, SequencesExt

CONSTANTS Pipes,        \* what r.pipe is called with: sequences of steps
          Groups,       \* what combineRoutes is called with
          Roots,        \* what httpListener is called with, its effects aside
          Requests,     \* [url: sequence of texts, method: STRING]
          Malformed,    \* texts that decodeURIComponent refuses
          Lower,        \* the text of every text in lower case
          MaxNodes      \* routes and groups of a tree

VARIABLES stack,        \* calls of factorizeRouting, the innermost last
          table,        \* the finished routing, or <<>>
          status,       \* "declaring", "ready" or "redefined"
          declared,     \* the routes so far, each with the groups around it
          groups        \* how many groups have been opened

vars == <<stack, table, status, declared, groups>>

Empty == ""
Undefined == <<"undefined">>            \* decodeURIComponent(undefined)

Literal(text) == [kind |-> "literal", name |-> text]
Parameter(name) == [kind |-> "parameter", name |-> name]
Optional(name) == [kind |-> "optional", name |-> name]
Wildcard == [kind |-> "wildcard", name |-> ""]
Slash == Literal(Empty)                 \* a doubled or a trailing slash

------------------------------------------------------------------------------
(* Declarations. *)

\* One step of r.pipe on the specification so far: use composes middlewares,
\* applyMeta merges, the others set what they name.
Step(spec, step) ==
    CASE step.is = "use" -> [spec EXCEPT !.middlewares = Append(@, step.middleware)]
      [] step.is = "applyMeta" -> [spec EXCEPT !.overridable = step.overridable]
      [] step.is = "matchPath" -> [spec EXCEPT !.path = step.path]
      [] step.is = "matchType" -> [spec EXCEPT !.method = step.method]
      [] step.is = "useEffect" -> [spec EXCEPT !.effect = step.effect]

Route(pipe) ==
    FoldLeft(Step, [path |-> <<>>, method |-> "", effect |-> "",
                    middlewares |-> <<>>, overridable |-> FALSE], pipe)

\* notFound$
NotFound == <<[is |-> "matchPath", path |-> <<Wildcard>>],
              [is |-> "matchType", method |-> "*"],
              [is |-> "useEffect", effect |-> "notFound$"],
              [is |-> "applyMeta", overridable |-> TRUE]>>

------------------------------------------------------------------------------
(* The table. *)

\* factorizeRegExpWithParams: repeated and trailing slashes go.
Prepared(path) == SelectSeq(path, LAMBDA s : s # Slash)

\* What regExp.source keeps of a path: parameters lose their names.
Source(path) ==
    [i \in DOMAIN path |->
        IF path[i].kind = "literal" THEN path[i] ELSE [path[i] EXCEPT !.name = ""]]

\* The groups of the expression: the segments that are not literals.
GroupsOf(path) ==
    SelectSeq([i \in DOMAIN path |-> i], LAMBDA i : path[i].kind # "literal")

\* The names of keys. A wildcard has none and is given its number, from 0 on.
WildcardsBefore(path, i) == {j \in 1..(i - 1) : path[j].kind = "wildcard"}
KeyName(path, i) ==
    IF path[i].kind = "wildcard" THEN ToString(Cardinality(WildcardsBefore(path, i)))
    ELSE path[i].name

\* The key of name 0, that is the first wildcard, is no parameter; the others are.
FirstWildcard(path, i) == path[i].kind = "wildcard" /\ WildcardsBefore(path, i) = {}
Parameters(path) ==
    LET keys == SelectSeq(GroupsOf(path), LAMBDA i : ~FirstWildcard(path, i))
    IN  [k \in DOMAIN keys |-> KeyName(path, keys[k])]

Frame(list, group, path, middlewares) ==
    [list |-> list, group |-> group, path |-> path,
     middlewares |-> middlewares, routing |-> <<>>]

\* find: the first item of routing with this source, if there is one. Groups put
\* their items into the list as they are, so that there may be others.
Found(routing, path) ==
    LET same == {i \in DOMAIN routing : Source(routing[i].path) = Source(path)}
    IN  {i \in same : \A j \in same : i <= j}

\* The routing after one turn of forEach with a route.
Add(routing, path, method, entry) ==
    IF Found(routing, path) = {}
    THEN Append(routing, [path |-> path, methods |-> [m \in {method} |-> entry]])
    ELSE LET i == CHOOSE j \in Found(routing, path) : TRUE
             methods == routing[i].methods
         IN  IF method \in DOMAIN methods
             THEN routing
             ELSE [routing EXCEPT ![i].methods =
                      [m \in DOMAIN methods \union {method} |->
                          IF m = method THEN entry ELSE methods[m]]]

\* Mutant: what exists is never redefined.
Redefines_Never(routing, path, route) == FALSE

\* The turn throws instead.
Redefines(routing, path, route) ==
    /\ ~route.overridable
    /\ \E i \in Found(routing, path) : route.method \in DOMAIN routing[i].methods

------------------------------------------------------------------------------
(* Matching. *)

\* How many texts each segment takes: the expression of path on url.
Width(segment, url) ==
    CASE segment.kind \in {"literal", "parameter"} -> {1}
      [] segment.kind = "optional" -> {0, 1}
      [] segment.kind = "wildcard" -> 1..Len(url)

Before(widths, i) ==
    LET sum[k \in 0..Len(widths)] == IF k = 0 THEN 0 ELSE sum[k - 1] + widths[k]
    IN  sum[i - 1]

Texts(url, widths, i) ==
    SubSeq(url, Before(widths, i) + 1, Before(widths, i) + widths[i])

\* The expression does not tell cases apart.
Fits(path, url, widths) ==
    /\ Before(widths, Len(path) + 1) = Len(url)
    /\ \A i \in DOMAIN path :
          /\ widths[i] \in Width(path[i], url)
          /\ path[i].kind = "literal"
                => Lower[Texts(url, widths, i)[1]] = Lower[path[i].name]
          /\ path[i].kind \in {"parameter", "optional"}
                => Texts(url, widths, i) # <<Empty>>

\* A final slash of the url may be left over.
Urls(url) ==
    {url} \union (IF url # <<>> /\ Last(url) = Empty THEN {Front(url)} ELSE {})

Matches(path, url) ==
    {<<u, w>> \in Urls(url) \X [DOMAIN path -> 0..Len(url)] : Fits(path, u, w)}

\* Groups are greedy: the earliest takes the most.
Greedy(path, url) ==
    CHOOSE m \in Matches(path, url) : \A o \in Matches(path, url) :
        \/ o = m
        \/ o[2] = m[2] /\ Len(o[1]) < Len(m[1])
        \/ \E i \in DOMAIN path :
              /\ m[2][i] > o[2][i]
              /\ \A j \in 1..(i - 1) : m[2][j] = o[2][j]

\* What segment i takes of the url.
Taken(path, url, i) ==
    LET g == Greedy(path, url)
    IN  IF g[2][i] = 0 THEN Undefined ELSE Texts(g[1], g[2], i)

\* match[1], match[2], ...
Captures(path, url) ==
    [k \in DOMAIN GroupsOf(path) |-> Taken(path, url, GroupsOf(path)[k])]

\* The entry of an item for a method: its own one before that of "*".
MethodsFor(item, method) == {m \in {method, "*"} : m \in DOMAIN item.methods}
Entry(item, method) ==
    item.methods[IF method \in DOMAIN item.methods THEN method ELSE "*"]

\* The items of routing that a request matches; matchRoute takes the first.
Candidates(routing, request) ==
    {i \in DOMAIN routing : /\ Matches(routing[i].path, request.url) # {}
                            /\ MethodsFor(routing[i], request.method) # {}}

\* Mutant: every parameter gets the first group.
Params_Unnamed(path, parameters, url) ==
    [name \in Range(parameters) |-> Captures(path, url)[1]]

\* The n-th parameter gets the text of the n-th group; the last of equal names wins.
Params(path, parameters, url) ==
    [name \in Range(parameters) |->
        LET p == CHOOSE k \in DOMAIN parameters :
                    /\ parameters[k] = name
                    /\ \A l \in DOMAIN parameters : parameters[l] = name => l <= k
        IN  Captures(path, url)[p]]

\* matchRoute and what resolve makes of its result.
Resolved(routing, request) ==
    IF Candidates(routing, request) = {} THEN [is |-> "unmatched"]
    ELSE LET i == CHOOSE j \in Candidates(routing, request) :
                    \A k \in Candidates(routing, request) : j <= k
             entry == Entry(routing[i], request.method)
             captures == Captures(routing[i].path, request.url)
         IN  IF \E p \in DOMAIN entry.parameters : Range(captures[p]) \cap Malformed # {}
             THEN [is |-> "badRequest"]
             ELSE [is |-> "effect", effect |-> entry.effect,
                   params |-> Params(routing[i].path, entry.parameters, request.url),
                   middlewares |-> entry.middlewares, path |-> routing[i].path]

------------------------------------------------------------------------------
(* The walk. *)

Init ==
    /\ \E root \in Roots : stack = <<Frame(0, root, <<>>, root.middlewares)>>
    /\ table = <<>>
    /\ status = "declaring"
    /\ declared = <<>>
    /\ groups = 0

Top == Last(stack)

\* One turn of forEach with a route, status then being next. Its place in the tree
\* goes to declared.
Walk(route, path, next) ==
    /\ declared' = Append(declared,
           [route |-> route, lists |-> [k \in DOMAIN stack |-> stack[k].list],
            chain |-> [k \in DOMAIN stack |-> stack[k].group]])
    /\ IF Redefines(Top.routing, path, route)
       THEN status' = "redefined" /\ UNCHANGED stack
       ELSE /\ stack' = [stack EXCEPT ![Len(stack)].routing =
                   Add(@, path, route.method,
                       [effect |-> route.effect, parameters |-> Parameters(path),
                        middlewares |-> Top.middlewares \o route.middlewares])]
            /\ status' = next

WalkRoute(pipe, next) ==
    LET route == Route(pipe)
    IN  Walk(route, Prepared(Top.path \o <<Slash>> \o route.path), next)

AddRoute(pipe) ==
    /\ status = "declaring"
    /\ Len(declared) + groups < MaxNodes
    /\ WalkRoute(pipe, status)
    /\ UNCHANGED <<table, groups>>

OpenGroup(group) ==
    /\ status = "declaring"
    /\ Len(declared) + groups < MaxNodes
    /\ groups' = groups + 1
    /\ stack' = Append(stack, Frame(groups', group, Top.path \o <<Slash>> \o group.path,
                                    Top.middlewares \o group.middlewares))
    /\ UNCHANGED <<table, status, declared>>

\* The call returns and its caller pushes what it returned.
CloseGroup ==
    /\ status = "declaring"
    /\ Len(stack) > 1
    /\ stack' = [Front(stack) EXCEPT ![Len(stack) - 1].routing = @ \o Top.routing]
    /\ UNCHANGED <<table, status, declared, groups>>

\* factorizeRoutingWithDefaults: the default route is the last one of the root.
Finish ==
    /\ status = "declaring"
    /\ Len(stack) = 1
    /\ WalkRoute(NotFound, "ready")
    /\ table' = stack'[1].routing
    /\ UNCHANGED groups

Next ==
    \/ \E pipe \in Pipes : AddRoute(pipe)
    \/ \E group \in Groups : OpenGroup(group)
    \/ CloseGroup
    \/ Finish

Spec == Init /\ [][Next]_vars

------------------------------------------------------------------------------
(* Properties. *)

\* The full path and all middlewares of a route, from its place in the tree.
FullPath(d) ==
    Prepared(FoldLeft(LAMBDA path, g : path \o g.path, <<>>, d.chain) \o d.route.path)
AllMiddlewares(d) ==
    FoldLeft(LAMBDA ms, g : ms \o g.middlewares, <<>>, d.chain) \o d.route.middlewares

\* What route i finds when its turn comes: the routes of its own list, and of the
\* groups in it that were closed before.
Finds(i, j) ==
    /\ Last(declared[i].lists) \in Range(declared[j].lists)
    /\ Source(FullPath(declared[i])) = Source(FullPath(declared[j]))

\* A route takes the turn of the first one it finds.
Turn(i) == CHOOSE j \in 1..i : Finds(i, j) /\ \A k \in 1..(j - 1) : ~Finds(i, k)

Duplicates(i, j) ==
    Turn(i) = Turn(j) /\ declared[i].route.method = declared[j].route.method

Accepts(i, request) ==
    /\ declared[i].route.method \in {request.method, "*"}
    /\ Matches(FullPath(declared[i]), request.url) # {}
    /\ \A j \in 1..(i - 1) : ~Duplicates(i, j)

Precedes(i, j, request) ==
    \/ Turn(i) < Turn(j)
    \/ Turn(i) = Turn(j) /\ declared[i].route.method = request.method

\* The declared route that should get a request.
Winner(request) ==
    LET accepting == {i \in DOMAIN declared : Accepts(i, request)}
    IN  CHOOSE i \in accepting : \A j \in accepting \ {i} : Precedes(i, j, request)

\* Only overridable routes give way to an equal one they find.
NoneLost ==
    \A i, j \in DOMAIN declared :
        i < j /\ Duplicates(i, j) => declared[j].route.overridable

\* Of the routes that accept a request, the one with the earliest turn gets it, with
\* the middlewares of the listener, of the groups around it from the outside in, and
\* its own; so every request gets to some effect, if only to notFound$. The path
\* it is told is the one of the first route with its expression. (factorizeRouting,
\* matchRoute and resolve against the declarations.)
RoutedAsDeclared ==
    status = "ready" =>
        /\ NoneLost
        /\ \A request \in Requests :
              LET result == Resolved(table, request)
                  d == declared[Winner(request)]
              IN  \/ result.is = "badRequest"
                  \/ /\ result.is = "effect"
                     /\ result.effect = d.route.effect
                     /\ result.middlewares = AllMiddlewares(d)
                     /\ result.path = FullPath(declared[Turn(Winner(request))])

\* A parameter is what the url has at its own place in the path of the route that
\* gets the request: what its segment takes, and the text of that number if
\* everything before it takes one text each. Behind the first wildcard all are off
\* by one, for matchRoute counts the group of the wildcard and parameters does not:
\* each gets what the segment of the group before it takes. Two parameters of one name
\* are not told apart. A request is refused only for a malformed text.
ParamsFromPath ==
    status = "ready" => \A request \in Requests :
        LET result == Resolved(table, request)
            path == FullPath(declared[Winner(request)])
            groupsBefore(i) == {j \in 1..(i - 1) : path[j].kind # "literal"}
            place(i) == IF WildcardsBefore(path, i) = {} THEN i
                        ELSE CHOOSE j \in groupsBefore(i) : \A l \in groupsBefore(i) : l <= j
        IN  /\ result.is = "effect" => \A i \in DOMAIN path :
                (/\ path[i].kind # "literal"
                 /\ path[i].kind = "wildcard" => WildcardsBefore(path, i) # {}
                 /\ \A j \in DOMAIN path \ {i} :
                       path[j].kind \in {"parameter", "optional"} => path[j].name # path[i].name)
                => LET text == result.params[KeyName(path, i)]
                   IN  /\ text = Taken(path, request.url, place(i))
                       /\ (\A j \in 1..(i - 1) : path[j].kind \in {"literal", "parameter"})
                          => text = (IF i \in DOMAIN request.url /\ request.url[i] # Empty
                                     THEN <<request.url[i]>> ELSE Undefined)
            /\ result.is = "badRequest" => Range(request.url) \cap Malformed # {}
==============================================================================
