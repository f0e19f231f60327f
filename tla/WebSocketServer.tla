--------------------------- MODULE WebSocketServer ---------------------------
(***************************************************************************)
(* createWebSocketServer: upgrades that mapToServer hands to it, the          *)
(* connection handler of each listen, responses to one client and broadcasts  *)
(* to all, and what the status log tells of clients. How broken connections     *)
(* are found is Heartbeat's, how a listener copes with errors EventListener's.   *)
(*                                                                          *)
(* A message of a client is answered by one effect of its listener, with a        *)
(* response or through the operator broadcast. Messages are numbered.             *)
(***************************************************************************)
EXTENDS Naturals, Sequences

CONSTANTS Peers,
          Mapping,          \* of mapToServer: a sequence of [path, server: there is one]
          Urls,
          MaxListens, MaxMessages

ASSUME MappingAssumption ==
    /\ \A i \in DOMAIN Mapping : Mapping[i].server \in BOOLEAN
    /\ MaxListens \in Nat /\ MaxMessages \in Nat

VARIABLES
    registered, \* connection handlers, one for each listen
    ready,      \* of a peer's socket: "none", "left", "destroyed", "open", "closing" or "closed"
    url,        \* where it asked to be upgraded, and whether to a WebSocket
    copies,     \* listeners attached to a client
    messages,   \* [from, kind, audience: the clients that were open]
    sends,      \* callbacks of send that are due: [to, of: message, by: listener, cast]
    received,   \* frames a peer got: <<peer, message>> -> how many
    serving,    \* "yes", "closing" or "closed"
    journal     \* lines of the status log: [connected, closed], per peer

webVars == <<registered, ready, url, copies, messages, sends, received, serving, journal>>

Messages == 1..MaxMessages

WebInit ==
    /\ registered = 0
    /\ ready = [p \in Peers |-> "none"]
    /\ url = [p \in Peers |-> <<>>]
    /\ copies = [p \in Peers |-> 0]
    /\ messages = <<>>
    /\ sends = {}
    /\ received = [x \in Peers \X Messages |-> 0]
    /\ serving = "yes"
    /\ journal = [p \in Peers |-> [connected |-> 0, closed |-> 0]]

Joined(p) == ready[p] \in {"open", "closing"}     \* server.clients

------------------------------------------------------------------------------
(* The server and its clients. *)

\* listen registers another connection handler.
ListenAgain ==
    /\ registered < MaxListens
    /\ registered' = registered + 1
    /\ UNCHANGED <<ready, url, copies, messages, sends, received, serving, journal>>

\* serverEventSubject.next, until the close of the server has been logged.
Note(p, line, times) ==
    journal' = IF serving = "closed" THEN journal ELSE [journal EXCEPT ![p][line] = @ + times]

\* mapToServer and the connection handlers. What is no WebSocket upgrade is passed
\* over, what matches no path is destroyed, and a path without a server leaves its socket.
\* Nothing asks whether the server has been closed.
Upgrade(p, path, websocket) ==
    LET matched == {i \in DOMAIN Mapping : Mapping[i].path = path}
        server == \E i \in matched : Mapping[i].server
        become(state) == ready' = [ready EXCEPT ![p] = state]
    IN  /\ ready[p] = "none"
        /\ url' = [url EXCEPT ![p] = <<path, websocket>>]
        /\ CASE websocket /\ matched = {} ->
                    become("destroyed") /\ UNCHANGED <<copies, journal>>
             [] websocket /\ server ->
                    /\ become("open")
                    /\ copies' = [copies EXCEPT ![p] = registered]
                    /\ Note(p, "connected", registered)
             [] OTHER -> become("left") /\ UNCHANGED <<copies, journal>>
        /\ UNCHANGED <<registered, messages, sends, received, serving>>

\* The client or the server closes or terminates the connection.
ClientCloses(p) ==
    /\ ready[p] = "open"
    /\ ready' = [ready EXCEPT ![p] = "closing"]
    /\ UNCHANGED <<registered, url, copies, messages, sends, received, serving, journal>>

\* 'close' of a client.
ClientClosed(p) ==
    /\ ready[p] = "closing"
    /\ ready' = [ready EXCEPT ![p] = "closed"]
    /\ Note(p, "closed", copies[p])
    /\ UNCHANGED <<registered, url, copies, messages, sends, received, serving>>

\* close of the server terminates its clients.
ServerCloses ==
    /\ serving = "yes"
    /\ serving' = "closing"
    /\ ready' = [p \in Peers |-> IF ready[p] = "open" THEN "closing" ELSE ready[p]]
    /\ UNCHANGED <<registered, url, copies, messages, sends, received, journal>>

\* 'close' of the server does not wait for theirs.
ServerClosed ==
    /\ serving = "closing"
    /\ serving' = "closed"
    /\ UNCHANGED <<registered, ready, url, copies, messages, sends, received, journal>>

------------------------------------------------------------------------------
(* Messages. *)

\* emitEvent: nothing is sent to a client that is not open.
EmitEvent(to, of, by, cast) ==
    IF ready[to] = "open" THEN {[to |-> to, of |-> of, by |-> by, cast |-> cast]} ELSE {}

\* broadcastEvent: to all clients of this moment.
BroadcastEvent(of, by) == UNION {EmitEvent(p, of, by, TRUE) : p \in {q \in Peers : Joined(q)}}

\* A message comes in: each listener of the client has its effect answer.
MessageComes(p, kind) ==
    LET m == Len(messages) + 1
    IN  /\ ready[p] = "open" /\ m \in Messages
        /\ messages' = Append(messages,
               [from |-> p, kind |-> kind, audience |-> {q \in Peers : ready[q] = "open"}])
        /\ sends' = sends \union UNION {IF kind = "broadcast" THEN BroadcastEvent(m, i)
                                        ELSE EmitEvent(p, m, i, FALSE) : i \in 1..copies[p]}
        /\ UNCHANGED <<registered, ready, url, copies, received, serving, journal>>

\* Mutant: a send that fails ends the broadcast without a result.
BroadcastOver_AllSent(s) ==
    /\ s.cast /\ ready[s.to] = "open"
    /\ \A t \in sends \ {s} : t.cast => <<t.of, t.by>> # <<s.of, s.by>>

\* The send s was the last one its broadcast waited for: failed ones count as well.
BroadcastOver(s) ==
    s.cast /\ \A t \in sends \ {s} : t.cast => <<t.of, t.by>> # <<s.of, s.by>>

\* The callback of send; a frame to a client that is closing may or may not reach it. Behind
\* a broadcast the operator passes the event on, and the listener sends it to its own client
\* once more.
SendEnds(s) ==
    /\ s \in sends
    /\ \E n \in 0..1 :
          /\ n \in CASE ready[s.to] = "open" -> {1} [] ready[s.to] = "closed" -> {0} [] OTHER -> {0, 1}
          /\ received' = [received EXCEPT ![<<s.to, s.of>>] = @ + n]
    /\ sends' = (sends \ {s}) \union
          (IF BroadcastOver(s) THEN EmitEvent(messages[s.of].from, s.of, s.by, FALSE) ELSE {})
    /\ UNCHANGED <<registered, ready, url, copies, messages, serving, journal>>

WebNext ==
    \/ ListenAgain \/ ServerCloses \/ ServerClosed
    \/ \E p \in Peers :
          \/ \E path \in Urls, websocket \in BOOLEAN : Upgrade(p, path, websocket)
          \/ ClientCloses(p) \/ ClientClosed(p)
          \/ \E kind \in {"response", "broadcast"} : MessageComes(p, kind)
    \/ \E s \in sends : SendEnds(s)

WebSpec == WebInit /\ [][WebNext]_webVars

------------------------------------------------------------------------------
(* Properties. *)

\* The frames of message m that are meant for p: one for each listener of its sender, and
\* for the sender of a broadcast another one. (broadcast, sendResponse)
Meant(p, m) ==
    LET n == copies[messages[m].from]
    IN  CASE messages[m].kind = "broadcast" -> IF p = messages[m].from THEN 2 * n ELSE n
          [] OTHER -> IF p = messages[m].from THEN n ELSE 0

\* Nobody gets more than is meant for him, and who was open and stays so gets all of it,
\* whoever else goes away while a broadcast is under way.
FramesReach ==
    \A m \in DOMAIN messages : \A p \in Peers :
        /\ received[<<p, m>>] <= IF p \in messages[m].audience THEN Meant(p, m) ELSE 0
        /\ p \in messages[m].audience /\ ready[p] = "open" /\ (\A s \in sends : s.of # m) =>
              received[<<p, m>>] = Meant(p, m)

\* Until the server is closed, each client that is handled is logged when it comes and
\* when it goes, once per listener; nothing is logged later. (statusLogger$)
ClientsLogged ==
    \A p \in Peers :
        /\ journal[p].connected \in {0, copies[p]} /\ journal[p].closed \in {0, copies[p]}
        /\ journal[p].closed > 0 => ready[p] = "closed" /\ journal[p].connected > 0
        /\ serving # "closed" =>
              /\ journal[p].connected = copies[p]
              /\ ready[p] = "closed" => journal[p].closed = copies[p]

\* A socket is left to itself only by an upgrade to something else or to a path whose server
\* is missing. (mapToServer)
SocketsSettled ==
    \A p \in Peers : ready[p] = "left" =>
        \/ ~url[p][2]
        \/ \A i \in DOMAIN Mapping : Mapping[i].path = url[p][1] => ~Mapping[i].server

ResponsesSound == FramesReach /\ ClientsLogged /\ SocketsSettled
==============================================================================
