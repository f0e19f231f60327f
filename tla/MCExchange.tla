------------------------------ MODULE MCExchange ------------------------------
(* Instances of Exchange for TLC: scenarios about servers and test beds, and     *)
(* families of single exchanges about CORS, responses, requests and validators.  *)
EXTENDS Exchange

CONSTANTS s1, s2, c1, c2, c3, k1, k2
MCServers == {s1, s2}
MCCalls == {c1, c2, c3}
MCCleanups == {k1, k2}

Text(t) == <<"string", <<"text", t>>>>
Yes == <<"boolean", "true">>
No == <<"boolean", "false">>
Zero == <<"number", "0">>
One == <<"number", "1">>
Half == <<"number", "1.5">>
Record(fields) == <<"object", fields>>
List(items) == <<"array", items>>
Png == <<"buffer", <<"binary", "png">>>>
Raw == <<"buffer", <<"binary", "raw">>>>
Ok(body) == [status |-> 200, headers |-> <<>>, body |-> body]
Typed(type) == "Content-Type" :> type

Plain == [cors |-> None, normalize |-> TRUE, parsers |-> 0, codecs |-> <<>>,
          multipart |-> None, continuous |-> FALSE,
          event |-> "none", logger |-> TRUE, busy |-> FALSE]
Get == [to |-> s1, through |-> "none", method |-> "GET", origin |-> "", wants |-> "GET",
        asks |-> {}, credentials |-> FALSE, path |-> "x", extension |-> "",
        headers |-> <<>>, body |-> Undefined, parts |-> <<>>, id |-> "", answers |-> <<Ok(Text("a"))>>]
Post(type, body) == [Get EXCEPT !.method = "POST", !.headers = Typed(type), !.body = body]
Never == [Get EXCEPT !.to = s2]     \* a call that is not made
Calling(first, second) == c1 :> first @@ c2 :> second @@ c3 :> Never

\* One server that listens once: a family of exchanges on it.
Exchanges(config, call) ==
    [config |-> [s \in MCServers |-> config],
     call |-> Calling(call, Never), made |-> {c1},
     beds |-> FALSE, fails |-> FALSE, throws |-> FALSE,
     listens |-> s1 :> 1 @@ s2 :> 0, closes |-> 0]

\* A server with an owner that listens and closes as it likes.
Owned(event, other, opens, ends) ==
    [Exchanges([Plain EXCEPT !.busy = TRUE, !.event = event], Get)
        EXCEPT !.call = Calling(Get, other), !.made = {c1, c2},
               !.listens = s1 :> opens @@ s2 :> 0, !.closes = ends]
Lifecycles ==
    {[Owned(event, Never, 3, 2) EXCEPT !.made = {c1}] : event \in {"none", "forwards", "fails"}}
    \union {Owned("none", other, 2, 1) :
                other \in {[Get EXCEPT !.path = "malformed"],
                          [Get EXCEPT !.answers = <<Ok(Text("a")), Ok(Text("b"))>>],
                          [Get EXCEPT !.answers = <<Ok(Record(<<>>)), Ok(Text("b"))>>]}}

\* Two test beds that are cleaned up twice.
Bed(call, other, fails, throws) ==
    [Exchanges(Plain, Get) EXCEPT !.call = Calling(call, other), !.beds = TRUE,
        !.fails = fails, !.throws = throws, !.listens = s1 :> 1 @@ s2 :> 1]
Asked(id, via, answers) == [Get EXCEPT !.id = id, !.through = via, !.answers = answers]
Twice == <<Ok(Text("a")), Ok(Text("b"))>>
Beds ==
    {[Bed(Asked("i", via, Get.answers), Asked(id, s1, answers), FALSE, FALSE)
        EXCEPT !.made = {c1, c2}, !.listens = s1 :> 1 @@ s2 :> 0] :
        via \in {"none", s1, s2}, id \in {"i", "j"}, answers \in {Get.answers, Twice}}
    \union {Bed(Asked("i", s1, Get.answers), Never, TRUE, TRUE)}

\* Preflights, three of them for a RegExp that remembers, and requests with an Origin.
Options(origin, methods, allowHeaders, withCredentials) ==
    [origin |-> origin, methods |-> methods, allowHeaders |-> allowHeaders, success |-> 204,
     exposeHeaders |-> {"X"}, withCredentials |-> withCredentials, maxAge |-> 3600]
Origins == {[is |-> "any"]} \union [is : {"list", "global"}, origins : {{"o"}}]
Preflights ==
    LET of(origin, o, wants, asks, credentials) ==
            [Get EXCEPT !.method = "OPTIONS", !.origin = o, !.wants = wants, !.asks = asks,
                        !.credentials = credentials]
        once == {Exchanges([Plain EXCEPT !.cors = Options(option, methods, allow, with)],
                           of(option, o, wants, asks, credentials)) :
                    option \in Origins, o \in {"o", "p"},
                    methods \in {{}, {"GET", "PUT"}}, wants \in {"GET", "PUT", "DELETE"},
                    allow \in {{}, {"*"}, {"X"}}, asks \in {{}, {"X"}},
                    with \in BOOLEAN, credentials \in BOOLEAN}
    IN  once \union
        {[Exchanges([Plain EXCEPT !.cors = Options(option, {"PUT"}, {}, FALSE)], Get)
            EXCEPT !.call = c1 :> of(option, "o", "PUT", {}, FALSE)
                         @@ c2 :> of(option, o, "PUT", {}, FALSE)
                         @@ c3 :> of(option, "o", "PUT", {}, FALSE),
                   !.made = {c1, c2, c3}] :
            option \in Origins, o \in {"o", "p", ""}}

\* What effects answer.
Bodies == {Undefined, Null, Yes, No, Zero, Text("a"), <<"string", Nothing>>,
           <<"string", <<"json", Record("k" :> One)>>>>, Png, Raw, <<"stream", <<"text", "a">>>>,
           List(<<One>>), Record("k" :> Yes)}
Types == {"json", "vnd.api+json", "form", "octet-stream", "plain", "html", "png"}
Responses ==
    {Exchanges([Plain EXCEPT !.normalize = normalize],
               [Get EXCEPT !.extension = extension,
                           !.answers = <<[status |-> status, headers |-> headers, body |-> body]>>]) :
        normalize \in BOOLEAN, extension \in {""}, status \in {200},
        body \in Bodies,
        headers \in {"content-length" :> Nothing}
                    \union {spelling :> type : spelling \in {"Content-Type", "content-type"}, type \in Types}
                    \union {Typed(type) @@ ("Content-Length" :> <<"text", "b">>) : type \in {"json", "html"}}}
    \union
    {Exchanges([Plain EXCEPT !.normalize = normalize],
               [Get EXCEPT !.extension = extension,
                           !.answers = <<[status |-> status, headers |-> <<>>, body |-> body]>>]) :
        normalize \in BOOLEAN, extension \in {"", "html"}, status \in {200, 404, 500}, body \in Bodies}

\* What clients send to body parsers.
Requests ==
    {Exchanges([Plain EXCEPT !.parsers = parsers], [Post(type, body) EXCEPT !.method = method]) :
        parsers \in 0..2, type \in Types \union {"form-data"}, method \in {"POST"},
        body \in Bodies \ {<<"stream", <<"text", "a">>>>}}

\* Forms: files and fields, within their limits and beyond, and two that share a route.
FilePart(name, long) == [is |-> "file", name |-> name, value |-> <<"text", "f">>, long |-> long]
TextPart(value, long) == [is |-> "field", name |-> "x", value |-> <<"text", value>>, long |-> long]
FormParts == {FilePart("a", 1), FilePart("a", 2), FilePart("a", 9), FilePart("b", 1), TextPart("v", 1), TextPart("w", 9)}
Form(parts) == [Post("form-data", Raw) EXCEPT !.parts = parts]
Limits(handler, count) ==
    [files |-> {"a"}, handler |-> handler, maxFileSize |-> 2, maxFileCount |-> count,
     maxFieldSize |-> 2, maxFieldCount |-> count]
Uploads(handler, count, continuous) ==
    [Plain EXCEPT !.parsers = 1, !.multipart = Limits(handler, count), !.continuous = continuous]
Forms ==
    {Exchanges(Uploads(handler, count, FALSE), Form(parts)) :
        handler \in {"memory", "stream", "failing"}, count \in 1..2,
        parts \in SeqOf(FormParts, 2) \union {<<FilePart("a", 1), TextPart("v", 1), FilePart("a", 2)>>}}
    \union
    {Exchanges(Uploads("memory", 1, FALSE), [Form(<<FilePart("a", 1)>>) EXCEPT !.method = method, !.headers = Typed(type)]) :
        method \in {"POST", "PUT", "PATCH"}, type \in {"form-data", "json"}}
    \union
    {[Exchanges(Uploads(handler, 2, continuous), Get)
        EXCEPT !.call = Calling(Form(<<first>>), Form(<<second>>)), !.made = {c1, c2}] :
        handler \in {"memory", "failing"}, continuous \in BOOLEAN, first \in FormParts,
        second \in {FilePart("a", 1), TextPart("v", 1)}}

Base(tag) == [tag |-> tag]
Literal(v) == [tag |-> "Literal", value |-> v]
AnyOf(types) == [tag |-> "Union", types |-> types]
Interface(codec) == [tag |-> "Interface", props |-> "k" :> codec]
Simple == {Base("Boolean"), Base("Number"), Base("String"), Base("Undefined"), Base("Null"), Base("Unknown"),
           Literal(Yes), Literal(No), [tag |-> "Keyof", keys |-> {<<"text", "a">>}],
           AnyOf(<<Base("String"), Base("Undefined")>>), AnyOf(<<Base("Null"), Base("Number")>>),
           AnyOf(<<Literal(No), Literal(One)>>),
           [tag |-> "Refinement", name |-> "Int", type |-> Base("Number"), refuses |-> {Half}],
           [tag |-> "Refinement", name |-> "NonZero", type |-> Base("Number"), refuses |-> {Zero}]}
Codecs ==
    Simple
    \union {Interface(t) : t \in Simple} \union {[Interface(t) EXCEPT !.tag = "Partial"] : t \in Simple}
    \union {[tag |-> "Exact", type |-> Interface(t)] : t \in Simple}
    \union [tag : {"Array"}, type : Simple] \union [tag : {"Dictionary"}, codomain : Simple]
    \union {[tag |-> "Tuple", types |-> <<t, Base("Number")>>] : t \in Simple}
    \union {[tag |-> "Intersection", types |-> <<Interface(t), [tag |-> "Partial", props |-> "m" :> t]>>] :
                t \in Simple}
    \union {[tag |-> "Custom", values |-> {Yes}, schema |-> [type |-> "boolean", enum |-> {Yes}]]}
Values == {Null, Yes, No, Zero, One, Half, Text("a"), List(<<>>), List(<<One>>), List(<<Yes, One>>),
           Record(<<>>), Record("k" :> One), Record("k" :> Half), Record("k" :> Yes), Record("k" :> No),
           Record("k" :> Text("a")), Record("k" :> One @@ "m" :> One), Record("m" :> Zero),
           Record("k" :> Null)}
Validated(codecs, value) ==
    Exchanges([Plain EXCEPT !.parsers = 1, !.codecs = codecs],
              Post("json", IF value \in Falsy THEN <<"string", <<"json", value>>>> ELSE value))
Validations ==
    {Validated(<<codec>>, value) : codec \in Codecs, value \in Values}
    \union {Validated(<<Interface(t), [tag |-> "Partial", props |-> "m" :> t]>>, value) :
                t \in Simple, value \in {v \in Values : v[1] = "object"}}

MCScenarios == Lifecycles \union Beds \union Preflights \union Responses \union Requests \union Forms
               \union Validations
==============================================================================
