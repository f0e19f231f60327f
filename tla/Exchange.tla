------------------------------- MODULE Exchange -------------------------------
(***************************************************************************)
(* The whole way of a request, from the test bed through the middlewares to   *)
(* the effect and back: servers, payloads, CORS and the validators of          *)
(* @marblejs/middleware-io together. Validate and Meta are IoValidate and       *)
(* IoMeta here.                                                               *)
(***************************************************************************)
EXTENDS TestBed, JsonSchema

Replied(c) == response[c] # None

\* The preflights whose origin the options of a server name: let in, or refused.
Checked(s, in) ==
    {c \in Calls : /\ To(c) = s /\ Preflighted(c) /\ Replied(c)
                   /\ Call(c).origin \in Config(s).cors.origin.origins
                   /\ ("Origin" \in DOMAIN response[c].cors) = in}

\* A browser lets a request through after a preflight just when the options of cors$
\* permit it; and no effect ever sees a preflight. Only a RegExp with the flag g refuses
\* an origin that it matches: it does so once for every preflight that it has let in, and
\* of preflights from one origin every second. (configurePreflightResponse, checkOrigin)
PreflightAsConfigured ==
    \A c \in Calls : attached[To(c)] /\ Call(c).path # "malformed" /\ Preflighted(c) =>
        LET options == Config(To(c)).cors
            allowed == BrowserAllows(Call(c), response[c].status, response[c].cors)
            in == Cardinality(Checked(To(c), TRUE))
            out == Cardinality(Checked(To(c), FALSE))
            others == {d \in Calls : To(d) = To(c) /\ Preflighted(d) /\ Replied(d)
                                                  /\ Call(d).origin # Call(c).origin}
        IN  /\ runs[c] = <<>>
            /\ Replied(c) =>
                  /\ allowed => Permits(options, Call(c))
                  /\ Permits(options, Call(c)) /\ ~allowed =>
                        /\ options.origin.is = "global"
                        /\ out <= in
                        /\ others = {} => in <= out + 1

\* The bodies that a type is for.
MeantFor(type, body) ==
    CASE body[1] \in {"string", "stream"} -> TRUE
      [] body[1] = "buffer" -> type \notin JsonTypes \union {"form"}
      [] body[1] = "undefined" -> type # "plain"
      [] body[1] = "null" -> type \notin {"octet-stream", "plain"}
      [] body[1] \in {"boolean", "number"} -> type \in JsonTypes \union {"octet-stream", "plain"}
      [] OTHER -> type \in JsonTypes \union {"octet-stream"}

Answer1(c) == Call(c).answers[1]
Answered(c) ==
    Replied(c) /\ Routed(c) /\ Len(Call(c).answers) = 1 /\ response[c].status = Answer1(c).status

\* A null under a JSON type, announced as nothing and written as a word.
WrittenNull(c) == response[c].type \in JsonTypes /\ Answer1(c).body = Null

\* The announced length is that of the body, unless the effect announces one itself or
\* gives a body of another kind than its type: headers and body are made by different
\* rules. That of a JSON null never is, whatever the specs of factorizeHeaders and of
\* factorizeBody say each. (provideContentLengthHeader against factorizeBody)
LengthAsWritten ==
    \A c \in Calls :
        /\ Answered(c)
        /\ GetHeader(Answer1(c).headers, "Content-Length", Error) = Error
        /\ MeantFor(response[c].type, Answer1(c).body)
        => (Whole(c) <=> ~WrittenNull(c))

\* Kinds of bodies that the test bed reads back as they were, by type.
ReadBack(type, body) ==
    CASE type = "json" -> body[1] # "string" \/ body[2][1] \notin {"json", "empty"}
      [] type \in {"plain", "html"} -> body[1] = "string"
      [] OTHER -> body[1] = "buffer"

\* What send resolves with is what the effect has answered. (handleResponse against
\* parseResponseBody)
RoundTrip ==
    \A c \in Calls :
        /\ Answered(c) /\ result[c] # None /\ result[c].is = "resolved"
        /\ MeantFor(response[c].type, Answer1(c).body)
        /\ ReadBack(response[c].type, Answer1(c).body)
        /\ Answer1(c).body[1] # "stream"
        => result[c].body = Answer1(c).body

\* The body that a validated effect sees is the one that was sent, of any JSON value
\* that is not falsy, and a string sent as JSON never is one. (sendRequest against
\* bodyParser$)
SentIsSeen ==
    \A c \in Calls :
        /\ Routed(c) /\ Parseable(c) /\ Config(To(c)).parsers = 1 /\ Config(To(c)).codecs = <<>>
        /\ GetContentType(Call(c).headers) = "json" /\ Call(c).body[1] # "buffer"
        /\ \E i \in DOMAIN runs[c] : runs[c][i].at = "working"
        => request[c].body = (IF Call(c).body[1] = "string" THEN Call(c).body[2][2] ELSE Call(c).body)

\* What is wrong with the form of a request: its type, or more than the options allow.
Broken(c) ==
    LET options == Config(To(c)).multipart
        parts == Call(c).parts
        of(kind) == {n \in DOMAIN parts : parts[n].is = kind}
    IN  \/ GetContentType(Call(c).headers) # "form-data"
        \/ Cardinality(of("file")) > options.maxFileCount
        \/ Cardinality(of("field")) > options.maxFieldCount
        \/ \E n \in of("file") : \/ parts[n].long > options.maxFileSize
                                \/ parts[n].name \notin options.files

\* What the README of the middleware says: POST and PATCH are parsed, nothing else is.
\* (isProperMethod)
MethodsAsDocumented ==
    \A c \in Calls : Routed(c) /\ Config(To(c)).multipart # None /\ ~Broken(c) /\ Replied(c) =>
        (response[c].status = 412 <=> Call(c).method \notin {"POST", "PATCH"})

\* The effect behind multipart$ gets the form that was posted: every file under its name,
\* or one of those that share it, whatever order they ended in, and of each field the
\* last value. A form is refused only for what is wrong with it, a form that is wrong
\* never gets to the effect, and a sound one fails only on a continuous route, with
\* another that does. (parseMultipart, parseFile, setRequestData)
UploadSound ==
    \A c \in Calls : Routed(c) /\ Config(To(c)).multipart # None /\ Call(c).method = "POST" =>
        LET options == Config(To(c)).multipart
            parts == Call(c).parts
            of(kind) == {n \in DOMAIN parts : parts[n].is = kind}
            names(kind) == {parts[n].name : n \in of(kind)}
            last(name) == parts[Max({n \in of("field") : parts[n].name = name})]
            wrong == Broken(c)
            fails == options.handler = "failing" /\ of("file") # {}
            upload == request[c].upload
            sound(d) == runs[d] # <<>> /\ runs[d][1].at \in {"uploading", "working"}
        IN  /\ runs[c][1].at = "working" =>
                  /\ ~wrong /\ ~fails
                  /\ DOMAIN upload.files = names("file")
                  /\ \A name \in names("file") :
                        LET file == upload.files[name]
                        IN  /\ file.of \in of("file") /\ parts[file.of].name = name
                            /\ options.handler = "memory" => file.size = parts[file.of].long
                  /\ of("field") # {} =>
                        /\ DOMAIN request[c].body[2] = names("field")
                        /\ \A name \in names("field") : last(name).long <= options.maxFieldSize =>
                              request[c].body[2][name] = <<"string", last(name).value>>
            /\ runs[c][1].at = "over" => wrong \/ fails
            /\ Replied(c) => /\ response[c].status = 412 => wrong
                             /\ response[c].status = 500 => fails
            /\ Abandoned(c) => /\ Config(To(c)).continuous
                               /\ runs[c][1].at = "unbound" => wrong
                               /\ runs[c][1].at # "unbound" =>
                                     \E d \in Calls \ {c} : To(d) = To(c) /\ Routed(d) /\ ~sound(d)

\* Every answer of a route is logged once, at the level of its status.
LoggedOnce ==
    \A c \in Calls :
        Config(To(c)).logger /\ (Routed(c) \/ Preflighted(c)) /\ Replied(c) /\ ~Relistened(To(c))
        => accessLog[c] = <<Level(response[c].status)>>

ExchangeSound ==
    /\ PreflightAsConfigured
    /\ LengthAsWritten
    /\ RoundTrip
    /\ SentIsSeen
    /\ LoggedOnce

\* Several validators of a route: one schema is merged from theirs.
Mergeable(codecs) ==
    \/ Len(codecs) = 1
    \/ /\ \A i \in DOMAIN codecs : codecs[i].tag \in {"Interface", "Partial"}
       /\ \A i, j \in DOMAIN codecs :
             i # j => DOMAIN codecs[i].props \intersect DOMAIN codecs[j].props = {}

\* The schema in the metadata of a request is true to the validators: it admits the
\* bodies they let pass, exact types aside (they strip what their schema forbids), as are
\* falsy values of literals (filterTree drops them), and it refuses those they refuse,
\* refinements aside (they have no schema of their own).
\* (ioTypeToJsonSchema against the decoders of requestValidator$)
SchemaAgrees ==
    \A c \in Calls :
        LET codecs == Config(To(c)).codecs
            parts == UNION {Parts(codecs[i]) : i \in DOMAIN codecs}
            parsed == ParseBody(GetContentType(Call(c).headers),
                                Requested(Call(c).headers, Call(c).body))
            passed == \E i \in DOMAIN runs[c] : runs[c][i].at = "working"
            refused == \E i \in DOMAIN runs[c] : runs[c][i].at = "over"
        IN  /\ Routed(c) /\ request[c].meta # None /\ "body" \in DOMAIN request[c].meta
            /\ Config(To(c)).parsers = 1 /\ Parseable(c)
            /\ codecs # <<>> /\ Mergeable(codecs) /\ \A i \in DOMAIN codecs : Expressible(codecs[i])
            /\ parsed \notin {Error, Undefined}
            =>
            /\ (/\ passed
                /\ \A part \in parts : part.tag # "Exact"
                /\ (\A part \in parts : Truthful(part)) \/ Atoms(parsed) \cap Falsies = {})
                  => Valid(request[c].meta.body, parsed)
            /\ refused /\ (\A part \in parts :
                              part.tag = "Refinement" => part.name = "Int")
                  => ~Valid(request[c].meta.body, parsed)
==============================================================================
