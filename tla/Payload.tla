-------------------------------- MODULE Payload --------------------------------
(***************************************************************************)
(* Bodies and content types: what the response factories of @marblejs/http   *)
(* write for the body of an effect, what the parsers of                      *)
(* @marblejs/middleware-body read, and both ends of the HTTP test bed.        *)
(*                                                                          *)
(* A body is a pair of a kind and a content:                                 *)
(*   <<"undefined", "">>, <<"null", "">>, <<"boolean", name>>,                *)
(*   <<"number", name>>, <<"array", sequence>>, <<"object", function>>,        *)
(*   <<"string", bytes>>, <<"buffer", bytes>> and <<"stream", bytes>>.         *)
(* Bytes are <<"json", body>>, the JSON text of a body, <<"form", body>>, its   *)
(* encoding for an URL, <<"text", name>>, <<"binary", name>> or Nothing, so      *)
(* that two bytes are equal here when they are bytes of the same length. A       *)
(* string that looks like JSON has the bytes of that JSON.                       *)
(* Content types are called by the last part of their names.                     *)
(***************************************************************************)
EXTENDS Naturals, TLC

Undefined == <<"undefined", "">>
Null == <<"null", "">>
Error == <<"error", "">>        \* the operation throws instead
Nothing == <<"empty", "">>      \* no bytes at all

JsonTypes == {"json", "vnd.api+json"}

\* response.end and request.write are given nothing to write by these.
Falsy == {Undefined, Null, <<"boolean", "false">>, <<"number", "0">>, <<"string", Nothing>>}

------------------------------------------------------------------------------
(* Headers: functions from names, in any spelling, to values.                 *)

Lower(name) ==
    CASE name \in {"Content-Type", "content-type", "CONTENT-TYPE"} -> "content-type"
      [] name \in {"Content-Length", "content-length"} -> "content-length"

\* getHeaderValue: the header of that very name, or of the lower case one.
GetHeader(headers, name, none) ==
    CASE name \in DOMAIN headers -> headers[name]
      [] name \notin DOMAIN headers /\ Lower(name) \in DOMAIN headers -> headers[Lower(name)]
      [] OTHER -> none

GetContentType(headers) == GetHeader(headers, "Content-Type", "")

\* normalizeHeaders of the headers first and then the headers last.
Normalized(first, last) ==
    LET named(headers, n) == {m \in DOMAIN headers : Lower(m) = n}
    IN  [n \in {Lower(m) : m \in DOMAIN first \union DOMAIN last} |->
            IF named(last, n) # {} THEN last[CHOOSE m \in named(last, n) : TRUE]
            ELSE first[CHOOSE m \in named(first, n) : TRUE]]

------------------------------------------------------------------------------
(* Encoding.                                                                  *)

\* JSON.stringify
Json(body) ==
    CASE body[1] = "undefined" -> Nothing
      [] body[1] = "buffer" -> <<"json", <<"object", "data" :> body>>>>
      [] OTHER -> <<"json", body>>

\* stringifyJson leaves strings as they are.
StringifyJson(body) == IF body[1] = "string" THEN body[2] ELSE Json(body)

\* transformUrlEncoded: qs.stringify, unless it is a string.
UrlEncoded(body) ==
    CASE body[1] = "string" -> body[2]
      [] body[1] \in {"array", "object", "buffer"} -> <<"form", body>>
      [] OTHER -> Nothing

\* String(body)
Shown(body) ==
    CASE body[1] \in {"string", "buffer"} -> body[2]
      [] body[1] \in {"null", "boolean", "number"} -> <<"json", body>>
      [] OTHER -> <<"text", "[object]">>

\* factorizeBody, and what response.end makes of it: strings and bytes pass, what is
\* falsy is no bytes at all.
FactorizeBody(type, body) ==
    CASE body[1] = "stream" -> body[2]
      [] body[1] # "stream" /\ type \in JsonTypes -> StringifyJson(body)
      [] body[1] # "stream" /\ type = "form" -> UrlEncoded(body)
      [] body[1] # "stream" /\ type = "octet-stream" ->
            CASE body[1] = "buffer" -> body[2]
              [] body[1] = "undefined" -> Error
              [] OTHER -> StringifyJson(body)
      [] body[1] # "stream" /\ type = "plain" -> Shown(body)
      [] OTHER ->
            CASE body \in Falsy -> Nothing
              [] body \notin Falsy /\ body[1] \in {"string", "buffer"} -> body[2]
              [] OTHER -> Error

------------------------------------------------------------------------------
(* The head of a response.                                                    *)

\* getMimeType: what the bytes of a buffer show, else the extension of the path.
MimeType(body, extension) ==
    IF body = <<"buffer", <<"binary", "png">>>> THEN "png" ELSE extension

\* provideContentTypeHeader
ContentTypeHeader(response, extension) ==
    LET mime == MimeType(response.body, extension)
    IN  [n \in {"Content-Type"} |->
            IF response.status < 400 /\ mime # "" THEN mime ELSE "json"]

\* provideContentLengthHeader: the bytes that are counted.
ContentLengthHeader(response) ==
    [n \in (IF response.body[1] = "stream" THEN {} ELSE {"Content-Length"}) |->
        CASE response.body[1] \in {"undefined", "null"} -> Nothing
          [] response.body[1] \in {"string", "buffer"} -> response.body[2]
          [] OTHER -> Json(response.body)]

\* {...first, ...last}
Spread(first, last) ==
    [n \in DOMAIN first \union DOMAIN last |-> IF n \in DOMAIN last THEN last[n] ELSE first[n]]

\* factorizeHeaders: the default type, what is computed, what the effect gives.
FactorizeHeaders(response, extension, normalize) ==
    LET given == response.headers
        length == ContentLengthHeader(response)
        computed ==
            IF GetContentType(given) = "" THEN Spread(ContentTypeHeader(response, extension), length)
            ELSE Spread([n \in {"Content-Type"} |-> "json"],
                        IF GetHeader(given, "Content-Length", Error) = Error THEN length ELSE <<>>)
    IN  IF normalize THEN Normalized(computed, given) ELSE Spread(computed, given)

\* handleResponse: the head and the bytes of a response.
Written(response, extension, normalize) ==
    LET headers == FactorizeHeaders(response, extension, normalize)
    IN  [status |-> response.status,
         type |-> GetContentType(headers),
         length |-> GetHeader(headers, "Content-Length", Error),
         bytes |-> FactorizeBody(GetContentType(headers), response.body)]

------------------------------------------------------------------------------
(* Reading.                                                                   *)

ParseJson(bytes, otherwise) == IF bytes[1] = "json" THEN bytes[2] ELSE otherwise

\* qs.parse: every field is a string; the bytes of a buffer are fields too.
FormFields(body) ==
    IF body[1] = "buffer" THEN "bytes" :> <<"string", body[2]>>
    ELSE [k \in DOMAIN body[2] |-> <<"string", Shown(body[2][k])>>]

\* defaultParser on the collected bytes.
ParseBody(type, bytes) ==
    CASE type = "json" -> ParseJson(bytes, Error)
      [] type = "form" -> <<"object", IF bytes[1] = "form" THEN FormFields(bytes[2]) ELSE <<>>>>
      [] type = "octet-stream" -> <<"buffer", bytes>>
      [] type \in {"plain", "html"} -> <<"string", bytes>>
      [] OTHER -> Undefined

\* parseResponseBody of the test bed.
ParseResponse(type, bytes) ==
    CASE type = "json" ->
            IF bytes = Nothing THEN Undefined ELSE ParseJson(bytes, <<"string", bytes>>)
      [] type \in {"plain", "html"} -> <<"string", bytes>>
      [] OTHER -> <<"buffer", bytes>>

\* withBody: a body has the type that the request has or that its path names.
WithBody(headers, extension, body) ==
    IF GetContentType(headers) # "" THEN headers
    ELSE headers @@ [n \in {"Content-Type"} |->
            IF MimeType(body, extension) # "" THEN MimeType(body, extension) ELSE "json"]

\* What sendRequest writes: nothing at all for a falsy body.
Requested(headers, body) ==
    IF body \in Falsy THEN Nothing ELSE FactorizeBody(GetContentType(headers), body)
==============================================================================
