-------------------------- MODULE HttpProxyHandler --------------------------
(***************************************************************************)
(* app::HttpProxyHandler on the two connections of TcpConnection: it keeps *)
(* what the client sends until the Host line is complete, chooses a        *)
(* backend by the path or answers 404, rewrites the Host line of that      *)
(* first request, and then relays both ways.                               *)
(*                                                                         *)
(* A request is its bytes: HeadLen of them complete the request line and   *)
(* the Host line, and the one at HostAt stands for the host's name.        *)
(***************************************************************************)
EXTENDS TcpConnection

CONSTANTS HeadLen, HostAt

ASSUME HeadAssumption == HeadLen \in Nat \ {0} /\ HostAt \in 1 .. HeadLen

VARIABLES
    waiting_for_initial_data_,
    route,      \* what the routing table says of the request's path
    opened      \* history: backend connections created so far

httpVars == <<waiting_for_initial_data_, route, opened>>

\* No entry and no default; an address that does not parse; an address.
Routes == {"none", "bad", "backend"}

HttpInit ==
    /\ waiting_for_initial_data_ = TRUE /\ opened = 0
    /\ route \in IF handler_ = "HttpProxyHandler" THEN Routes ELSE {"none"}

-----------------------------------------------------------------------------
(* Unmodified, NotFoundKept, StillWaiting and ForwardsAtOnce are not the   *)
(* code's: each is a mistake the definition after it could have made.      *)

\* A byte the proxy wrote itself: the backend's address, or the 404 response.
OwnByte == 0

\* modifyRequestForBackend: the Host line is replaced.
Unmodified(request) == request
Modified(request) ==
    [i \in DOMAIN request |-> IF request[i] = HostAt THEN OwnByte ELSE request[i]]

\* startForwarding without a route: send() the response, then shutdown(), which
\* only marks the connection; a connection already marked refuses the response.
NotFoundKept(cs) == cs
NotFoundShutdown(cs) == Shutdown(cs, "front")

NotFound(cs, ks) ==
    /\ IF cs["front"].state = "kConnected"
       THEN SendConnected(NotFoundShutdown(cs), ks, "front", <<OwnByte>>)
       ELSE Leaves(cs, ks)
    /\ UNCHANGED httpVars

\* createBackendConnection, at once since the loop is dispatching events: no
\* socket, or connect fails at once; or the connect is under way or done.
StillWaiting == waiting_for_initial_data_
WaitingAfterSetup == FALSE

CreateBackend(cs, ks, link) ==
    \/ link = "dead" /\ Leaves(cs, ks) /\ UNCHANGED httpVars
    \/ /\ link # "dead"
       /\ ConnectStarted(cs, ks, link)
       /\ waiting_for_initial_data_' = WaitingAfterSetup
       /\ opened' = opened + 1
       /\ UNCHANGED route

\* parseHeader and parsePath find the Host and the path.
HeadComplete(cs) == Len(cs["front"].input) >= HeadLen

\* onMessage while waiting: cs holds all of what the client has sent.
FirstRequest(cs, ks) ==
    \/ /\ ~ HeadComplete(cs) \/ route = "bad"
       /\ Leaves(cs, ks) /\ UNCHANGED httpVars
    \/ /\ HeadComplete(cs)
       /\ \/ route = "none" /\ NotFound(cs, ks)
          \/ route = "backend"
               /\ \E link \in {"dead", "pending", "up"} : CreateBackend(cs, ks, link)

\* onMessage once the relay is set up.
ForwardsAtOnce == life["back"] = "live"
BackendReady == life["back"] = "live" /\ conn["back"].state = "kConnected"

ForwardRequest(cs, ks) ==
    /\ IF BackendReady
       THEN Send([cs EXCEPT !["front"].input = <<>>], ks, "back", cs["front"].input)
       ELSE Leaves(cs, ks)
    /\ UNCHANGED httpVars

ReadRequest ==
    /\ Reading("front") /\ sock["front"].rcv # <<>>
    /\ LET cs == [conn EXCEPT !["front"].input = @ \o sock["front"].rcv]
           ks == [sock EXCEPT !["front"].rcv = <<>>]
       IN  IF waiting_for_initial_data_ THEN FirstRequest(cs, ks)
           ELSE ForwardRequest(cs, ks)
    /\ UNCHANGED <<loopVars, sent, got>>

\* The delayed request is sent when the backend's connection is up.
DelayedRequest == Modified(conn["front"].input)

HttpWorker ==
    \/ ReadRequest
    \/ /\ \/ ConnectEstablished("kConnected")
          \/ EndFunctors \/ Poll \/ EndEvents
          \/ HandleDestroyed
          \/ ReadBackend \/ ConnectCompletes(DelayedRequest)
          \/ \E c \in Conn : HandleEvent(c) \/ HandleError(c) \/ ReadEnds(c) \/ HandleWrite(c)
       /\ UNCHANGED httpVars

-----------------------------------------------------------------------------
(* Properties.                                                             *)

Http == handler_ = "HttpProxyHandler"

\* The backend never sees the Host the client sent, and no other byte of the
\* request is changed, however the request was split and whichever of its bytes
\* came before the connect was complete (http_proxy_handler.cpp:20-54, 244-255).
HostRewritten ==
    Http => \A i \in DOMAIN got["back"] :
                got["back"][i] = IF i = HostAt THEN OwnByte ELSE i

\* A request without a route is answered with 404 once, also when more of it
\* arrives later, and nothing else is ever sent to that client
\* (http_proxy_handler.cpp:79-92).
NotFoundOnce ==
    LET answer == got["front"] \o sock["front"].snd \o conn["front"].output
    IN  (\E i \in DOMAIN answer : answer[i] = OwnByte) =>
            answer = <<OwnByte>> /\ life["back"] = "none"

\* However many pieces of the request arrive before the backend's connection is
\* up, one connection is opened and never replaced while its callbacks are
\* registered (http_proxy_handler.cpp:20, 117, 159, 270).
OneBackend == opened <= 1

\* A request whose Host line is complete reaches its backend, with all that
\* follows it, unless there is none, its connection fails or ends, or the
\* client's does (http_proxy_handler.cpp:18-55, 235-263).
RequestReachesBackend ==
    (Http /\ sent["front"] >= HeadLen) ~>
        \/ Len(got["back"]) = sent["front"]
        \/ conn["front"].state # "kConnected"
        \/ waiting_for_initial_data_ /\ HeadComplete(conn)
        \/ life["back"] = "live"
             /\ (conn["back"].state = "kDisConnected" \/ sock["back"].link = "dead")
        \/ fault # "none"
=============================================================================
