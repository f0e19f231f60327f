--------------------------------- MODULE Cors ---------------------------------
(***************************************************************************)
(* The decisions of @marblejs/middleware-cors: which headers and status     *)
(* cors$ puts on a response. A header set is a function from the names of    *)
(* the headers that are present to their values.                            *)
(*                                                                          *)
(* An origin option is [is |-> "any"], or [is |-> "pattern" | "list" |       *)
(* "regexp", origins |-> those it contains or matches]. A "global" one is a   *)
(* RegExp with the flag g, which remembers where its last match ended        *)
(* (sticky): it is taken to match once per origin, so that the test after a  *)
(* match starts behind it, fails and forgets.                               *)
(***************************************************************************)
EXTENDS Naturals, TLC

HeaderIf(present, name, value) == [n \in (IF present THEN {name} ELSE {}) |-> value]

CheckOrigin(option, origin, sticky) ==
    \/ option.is = "any"
    \/ option.is \in {"pattern", "list", "regexp"} /\ origin \in option.origins
    \/ option.is = "global" /\ origin \in option.origins /\ ~sticky

\* Whether the expression sticks after as many checks of an origin.
Sticks(option, origin, sticky, checks) ==
    option.is = "global" /\ origin \in option.origins /\ sticky # (checks % 2 = 1)

\* configurePreflightResponse
Preflight(options, request, sticky) ==
    LET unwanted == /\ options.methods # {} /\ request.wants # ""
                    /\ request.wants \notin options.methods
        headers == HeaderIf(TRUE, "Origin", request.origin)
                   @@ HeaderIf(options.withCredentials, "Credentials", TRUE)
                   @@ HeaderIf(options.allowHeaders # {}, "Headers", options.allowHeaders)
                   @@ HeaderIf(options.maxAge # 0, "MaxAge", options.maxAge)
                   @@ HeaderIf(options.methods # {} /\ ~unwanted, "Methods", options.methods)
    IN  IF ~CheckOrigin(options.origin, request.origin, sticky)
        THEN [status |-> options.success, headers |-> HeaderIf(FALSE, "Origin", "")]
        ELSE [status |-> IF unwanted THEN 405 ELSE options.success, headers |-> headers]

\* configureResponse
Actual(options, request) ==
    HeaderIf(TRUE, "Origin", request.origin)
    @@ HeaderIf(options.withCredentials, "Credentials", TRUE)
    @@ HeaderIf(options.exposeHeaders # {}, "ExposeHeaders", options.exposeHeaders)

------------------------------------------------------------------------------
(* The other side: what a browser makes of a preflight, for a request that     *)
(* wants a method, asks for headers and may send credentials.                  *)

BrowserAllows(request, status, headers) ==
    /\ status \in 200..299
    /\ "Origin" \in DOMAIN headers /\ headers["Origin"] = request.origin
    /\ request.credentials => "Credentials" \in DOMAIN headers
    /\ \/ request.wants \in {"GET", "HEAD", "POST"}
       \/ "Methods" \in DOMAIN headers /\ request.wants \in headers["Methods"]
    /\ \/ request.asks = {}
       \/ /\ "Headers" \in DOMAIN headers
          /\ \/ request.asks \subseteq headers["Headers"]
             \/ ~request.credentials /\ "*" \in headers["Headers"]

\* What the options of cors$ say of the same request; without methods they leave
\* the browser those that need no permission.
Permits(options, request) ==
    /\ options.origin.is = "any" \/ request.origin \in options.origin.origins
    /\ request.credentials => options.withCredentials
    /\ request.wants \in (IF options.methods = {} THEN {"GET", "HEAD", "POST"} ELSE options.methods)
    /\ \/ request.asks \subseteq options.allowHeaders
       \/ ~request.credentials /\ "*" \in options.allowHeaders
==============================================================================
