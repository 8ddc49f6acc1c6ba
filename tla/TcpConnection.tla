--------------------------- MODULE TcpConnection ----------------------------
(***************************************************************************)
(* Two net::TcpConnection objects, the client's ("front") and the one a    *)
(* handler opens to a backend ("back"), with their Channels, on one worker *)
(* loop.  The main thread that erases the client's connection from         *)
(* Server::connections_ and the kernel with the two peers take steps of    *)
(* their own.  handler_ says which class the client connection's handler   *)
(* has; LoadBalancerHandler and HttpProxyHandler add what theirs does.     *)
(*                                                                         *)
(* Assertions are compiled in when Asserts is TRUE (a Debug build).  The   *)
(* model stops at a fault: a failed assertion, the use of an object that   *)
(* was destroyed, or a SIGPIPE, which the program does not ignore.         *)
(***************************************************************************)
EXTENDS Naturals, Sequences

CONSTANTS
    Handlers,       \* the classes a connection's handler may have
    MaxBytes,       \* bound: bytes each peer writes, per connection
    SendSpace,      \* bytes a kernel send buffer holds
    HighWaterMark,  \* 64 MiB in the code
    Asserts         \* TRUE: assert() is compiled in

ASSUME TcpAssumption ==
    /\ Handlers \subseteq {"LoadBalancerHandler", "HttpProxyHandler"}
    /\ MaxBytes \in [{"front", "back"} -> Nat]
    /\ SendSpace \in Nat \ {0} /\ HighWaterMark \in Nat \ {0}
    /\ Asserts \in BOOLEAN

VARIABLES
    handler_,   \* the class of the client connection's handler
    conn,       \* conn[c]: state_, the channel's events_, the two buffers
    life,       \* life[c]: whether the TcpConnection object exists
    removals,   \* removeConnection functors queued on the main loop
    fault,
    phase,      \* where the worker is in loop()
    batch,      \* batch[c]: revents_ of c that this epoll_wait returned
    current,    \* the connection handleEvent is called on
    todo,       \* the callbacks handleEvent has yet to call
    sock,       \* sock[c]: the kernel's side of c's socket
    sent,       \* history: sent[c] bytes c's peer has written
    got         \* history: the bytes c's peer has read

objectVars == <<conn, life, removals, fault>>
loopVars == <<phase, batch, current, todo>>
tcpVars == <<handler_, objectVars, loopVars, sock, sent, got>>

Conn == {"front", "back"}
Other(c) == IF c = "front" THEN "back" ELSE "front"
States == {"kDisConnected", "kConnected", "kConnecting", "kDisConnecting"}
Events == {"err", "in", "out"}

Closing == {"kConnected", "kDisConnecting"}

NewConn == [state |-> "kConnecting", events |-> {}, input |-> <<>>, output |-> <<>>]
NewSock == [rcv |-> <<>>, snd |-> <<>>, link |-> "up", fin |-> FALSE, err |-> FALSE]

TcpInit ==
    /\ handler_ \in Handlers
    /\ conn = [c \in Conn |-> NewConn]
    /\ life = [c \in Conn |-> "none"]
    /\ removals = 0 /\ fault = "none"
    /\ phase = "functors"
    /\ batch = [c \in Conn |-> {}] /\ current = "front" /\ todo = {}
    /\ sock = [c \in Conn |-> NewSock]
    /\ sent = [c \in Conn |-> 0] /\ got = [c \in Conn |-> <<>>]

-----------------------------------------------------------------------------
(* Operations of a TcpConnection, as functions of the two connections.     *)
(* ShutdownAlways, DirectAlways, WriteAsksOn and WriteUnreported are not   *)
(* the code's: each is a mistake the definition after it could have made.  *)

Enable(cs, c, e) == [cs EXCEPT ![c].events = @ \cup {e}]
Disable(cs, c, e) == [cs EXCEPT ![c].events = @ \ {e}]

ShutdownAlways(cs, c) == [cs EXCEPT ![c].state = "kDisConnecting"]

\* shutdownInLoop: nothing closes the socket.
Shutdown(cs, c) ==
    IF cs[c].state = "kConnected" THEN [cs EXCEPT ![c].state = "kDisConnecting"] ELSE cs

Open(cs, c) == life[c] = "live" /\ cs[c].state \in {"kConnected", "kConnecting"}

StartRead(cs, c) == IF Open(cs, c) THEN Enable(cs, c, "in") ELSE cs
StopRead(cs, c) == IF Open(cs, c) THEN Disable(cs, c, "in") ELSE cs

MinOf(a, b) == IF a <= b THEN a ELSE b
Accepted(c, bytes) == MinOf(Len(bytes), SendSpace - Len(sock[c].snd))
Drop(s, n) == SubSeq(s, n + 1, Len(s))

\* The part of sendInLoop that buffers what the kernel did not take.
Buffered(cs, c, rest) ==
    LET old == Len(cs[c].output)
        new == old + Len(rest)
        kept == Enable([cs EXCEPT ![c].output = @ \o rest], c, "out")
    IN  IF new >= HighWaterMark /\ old < HighWaterMark
        THEN StopRead(kept, Other(c)) ELSE kept

\* sendInLoop in kConnected, the socket being alive: write directly unless
\* older bytes wait, then buffer the rest.
DirectAlways(cs, c, bytes) == Accepted(c, bytes)
Direct(cs, c, bytes) ==
    IF cs[c].output = <<>> THEN Accepted(c, bytes) ELSE 0

AfterSend(cs, c, bytes) ==
    LET n == Direct(cs, c, bytes)
    IN  IF n = Len(bytes) THEN StartRead(cs, Other(c))
        ELSE Buffered(cs, c, Drop(bytes, n))

\* connectDestroyed on the objects: disable the channel; the backend's close
\* callback, which only LoadBalancerHandler sets, shuts the client's down.
AfterClose(cs, c) ==
    LET gone == IF cs[c].state \in Closing
                THEN [cs EXCEPT ![c].state = "kDisConnected", ![c].events = {}]
                ELSE cs
    IN  IF c = "back" /\ handler_ = "LoadBalancerHandler"
        THEN Shutdown(gone, "front") ELSE gone

-----------------------------------------------------------------------------
(* The same operations as parts of actions: cs and ks are the connections  *)
(* and the sockets as the callback has left them so far.                   *)

CloseBack(cs) ==
    /\ conn' = AfterClose(cs, "back")
    /\ fault' = IF Asserts /\ conn'["back"].events # {} THEN "eventsLeft" ELSE fault
    /\ UNCHANGED <<life, removals>>

\* The first time the handler's onClose drops the backend's connection, whose
\* destructor closes its socket; every time the server is asked to remove the
\* connection (removals counts up to two).
CloseFront(cs) ==
    LET drops == cs["front"].state \in Closing /\ life["back"] = "live"
        left == IF drops /\ handler_ = "LoadBalancerHandler"
                THEN Shutdown(cs, "back") ELSE cs
    IN  /\ conn' = AfterClose(left, "front")
        /\ life' = IF drops THEN [life EXCEPT !["back"] = "freed"] ELSE life
        /\ fault' = IF Asserts /\ drops /\ left["back"].state # "kDisConnected"
                    THEN "notDisconnected" ELSE fault
        /\ removals' = MinOf(removals + 1, 2)

HandleClose(cs, c) == IF c = "front" THEN CloseFront(cs) ELSE CloseBack(cs)

\* Nothing but buffers and sockets changes.
Leaves(cs, ks) == conn' = cs /\ sock' = ks /\ UNCHANGED <<life, removals, fault>>

\* sendInLoop once state_ is known to be kConnected: on a socket that was reset
\* the first write fails and closes, a later one raises SIGPIPE.
SendConnected(cs, ks, c, bytes) ==
    \/ /\ ks[c].link = "up" \/ cs[c].output # <<>>
       /\ Leaves(AfterSend(cs, c, bytes),
                 [ks EXCEPT ![c].snd = @ \o SubSeq(bytes, 1, Direct(cs, c, bytes))])
    \/ /\ ks[c].link = "dead" /\ cs[c].output = <<>> /\ ks[c].err
       /\ HandleClose(cs, c)
       /\ sock' = [ks EXCEPT ![c].err = FALSE]
    \/ /\ ks[c].link = "dead" /\ cs[c].output = <<>> /\ ~ ks[c].err
       /\ fault' = "sigpipe"
       /\ conn' = cs /\ sock' = ks /\ UNCHANGED <<life, removals>>

Send(cs, ks, c, bytes) ==
    IF cs[c].state = "kConnected" THEN SendConnected(cs, ks, c, bytes)
    ELSE Leaves(cs, ks)

\* connectEstablished in the functor newConnection queued, which
\* doPendingFunctors executes; the handler's onConnection leaves state behind.
ConnectEstablished(state) ==
    /\ phase = "functors" /\ life["front"] = "none"
    /\ phase' = "poll"
    /\ life' = [life EXCEPT !["front"] = "live"]
    /\ conn' = [Enable(conn, "front", "in") EXCEPT !["front"].state = state]
    /\ UNCHANGED <<removals, fault, batch, current, todo, sock, sent, got>>

\* A backend's connection is constructed and connectEstablishedAsClient called
\* on it, link being what connect has done so far.
ConnectStarted(cs, ks, link) ==
    /\ conn' = Enable([cs EXCEPT !["back"] = NewConn], "back", "out")
    /\ life' = [life EXCEPT !["back"] = "live"]
    /\ sock' = [ks EXCEPT !["back"] = [NewSock EXCEPT !.link = link]]
    /\ UNCHANGED <<removals, fault>>

-----------------------------------------------------------------------------
(* The worker: epoll and Channel::handleEvent.                             *)

EndFunctors ==
    /\ phase = "functors" /\ life["front"] # "none"
    /\ phase' = "poll"
    /\ UNCHANGED <<objectVars, batch, current, todo, sock, sent, got>>

\* What epoll reports, level-triggered.  A socket stays registered until it is
\* closed: removeChannel never calls EPOLL_CTL_DEL because index_ is always
\* -1.  Error and hang-up are reported whatever the channel asks for.
Revents(c) ==
    IF life[c] # "live" THEN {}
    ELSE {e \in Events :
            \/ e = "err" /\ (sock[c].err \/ sock[c].link = "dead")
            \/ e = "in" /\ "in" \in conn[c].events
                 /\ (sock[c].rcv # <<>> \/ sock[c].fin \/ sock[c].link = "dead")
            \/ e = "out" /\ "out" \in conn[c].events
                 /\ \/ sock[c].link = "up" /\ Len(sock[c].snd) < SendSpace
                    \/ sock[c].link = "dead"}

Poll ==
    /\ phase = "poll"
    /\ phase' = "events"
    /\ batch' = [c \in Conn |-> Revents(c)]
    /\ UNCHANGED <<objectVars, current, todo, sock, sent, got>>

EndEvents ==
    /\ phase = "events" /\ todo = {} /\ \A c \in Conn : batch[c] = {}
    /\ phase' = "functors"
    /\ UNCHANGED <<objectVars, batch, current, todo, sock, sent, got>>

\* loop() calls the channel whose address epoll_wait returned.
HandleEvent(c) ==
    /\ phase = "events" /\ todo = {} /\ batch[c] # {}
    /\ batch' = [batch EXCEPT ![c] = {}]
    /\ IF life[c] = "live"
       THEN current' = c /\ todo' = batch[c] /\ UNCHANGED fault
       ELSE fault' = "useAfterFree" /\ UNCHANGED <<current, todo>>
    /\ UNCHANGED <<conn, life, removals, phase, sock, sent, got>>

\* The object handleEvent runs on was destroyed by a callback or by the main
\* thread, and the next callback uses it.
HandleDestroyed ==
    /\ todo # {} /\ life[current] = "freed"
    /\ fault' = "useAfterFree"
    /\ UNCHANGED <<conn, life, removals, loopVars, sock, sent, got>>

\* The callback for e has returned.
Finish(e) ==
    /\ todo' = todo \ {e}
    /\ current' = IF todo' = {} THEN "front" ELSE current
    /\ UNCHANGED <<phase, batch, sent, got>>

HandleError(c) ==
    /\ "err" \in todo /\ current = c /\ life[c] = "live"
    /\ Finish("err")
    /\ HandleClose(conn, c)
    /\ UNCHANGED sock

Reading(c) ==
    /\ "in" \in todo /\ "err" \notin todo /\ current = c /\ life[c] = "live"

\* handleRead, one round of its loop that reads bytes; the loop goes on, also
\* when the message callback stopped the reading or closed the connection.
\* What is received from the backend goes to the client or is dropped.
ReadBackend ==
    /\ Reading("back") /\ sock["back"].rcv # <<>>
    /\ Send(conn, [sock EXCEPT !["back"].rcv = <<>>], "front", sock["back"].rcv)
    /\ UNCHANGED <<loopVars, sent, got>>

\* The round that ends the loop: nothing left, end of stream, or an error.
ReadEnds(c) ==
    /\ Reading(c) /\ sock[c].rcv = <<>>
    /\ Finish("in")
    /\ sock' = [sock EXCEPT ![c].err = FALSE]
    /\ IF sock[c].fin \/ sock[c].link = "dead" THEN HandleClose(conn, c)
       ELSE UNCHANGED objectVars

Writing(c) == todo = {"out"} /\ current = c /\ life[c] = "live"

\* handleWrite while connecting: getsockopt reads and clears the socket's
\* error; without one the connection counts as established, and bytes, what
\* the client sent meanwhile, are sent on.
ConnectCompletes(bytes) ==
    /\ Writing("back") /\ conn["back"].state = "kConnecting"
    /\ Finish("out")
    /\ IF sock["back"].err
       THEN /\ CloseBack(conn)
            /\ sock' = [sock EXCEPT !["back"].err = FALSE]
       ELSE LET cs == Enable(Disable([conn EXCEPT !["back"].state = "kConnected"],
                                     "back", "out"), "back", "in")
            IN  IF bytes # <<>>
                THEN Send([cs EXCEPT !["front"].input = <<>>], sock, "back", bytes)
                ELSE Leaves(cs, sock)

\* handleWrite: write what waits; when nothing is left stop asking for
\* writability and let the other side read again.
WriteAsksOn(c, n) ==
    StartRead([conn EXCEPT ![c].output = Drop(@, n)], Other(c))

WriteUnreported(c, n) ==
    [conn EXCEPT ![c].output = Drop(@, n),
                 ![c].events = IF n = Len(conn[c].output) THEN @ \ {"out"} ELSE @]

AfterWrite(c, n) ==
    LET written == [conn EXCEPT ![c].output = Drop(@, n)]
    IN  IF n < Len(conn[c].output) THEN written
        ELSE StartRead(Disable(written, c, "out"), Other(c))

HasToWrite(c) == "out" \in conn[c].events /\ conn[c].output # <<>>

HandleWrite(c) ==
    /\ Writing(c) /\ conn[c].state # "kConnecting"
    /\ Finish("out")
    /\ \/ /\ ~ HasToWrite(c)
          /\ UNCHANGED <<objectVars, sock>>
       \/ /\ HasToWrite(c) /\ sock[c].link = "up"
          /\ LET n == Accepted(c, conn[c].output)
             IN  Leaves(AfterWrite(c, n),
                        [sock EXCEPT ![c].snd = @ \o SubSeq(conn[c].output, 1, n)])
       \/ /\ HasToWrite(c) /\ sock[c].link = "dead" /\ sock[c].err
          /\ sock' = [sock EXCEPT ![c].err = FALSE]
          /\ HandleClose(conn, c)
       \/ /\ HasToWrite(c) /\ sock[c].link = "dead" /\ ~ sock[c].err
          /\ fault' = "sigpipe"
          /\ UNCHANGED <<conn, life, removals, sock>>

-----------------------------------------------------------------------------
(* The main thread, and the kernel with the two peers.                     *)

\* The functor removeConnection queued: erasing the map's reference destroys
\* the connection and with it the handler and the backend's connection,
\* whatever the worker is doing with them.
EraseConnection ==
    /\ removals > 0
    /\ removals' = removals - 1
    /\ IF life["front"] = "live"
       THEN /\ life' = [c \in Conn |-> IF life[c] = "live" THEN "freed" ELSE life[c]]
            /\ fault' = IF Asserts /\ life["back"] = "live"
                             /\ conn["back"].state # "kDisConnected"
                        THEN "notDisconnected" ELSE fault
       ELSE fault' = (IF Asserts THEN "notErased" ELSE fault) /\ UNCHANGED life
    /\ UNCHANGED <<conn, loopVars, sock, sent, got>>

PeerWrites(c) ==
    /\ life[c] = "live" /\ sock[c].link = "up" /\ ~ sock[c].fin
    /\ sent[c] < MaxBytes[c]
    /\ sent' = [sent EXCEPT ![c] = @ + 1]
    /\ sock' = [sock EXCEPT ![c].rcv = Append(@, sent'[c])]
    /\ UNCHANGED <<objectVars, loopVars, got>>

PeerReads(c) ==
    /\ sock[c].link = "up" /\ sock[c].snd # <<>>
    /\ got' = [got EXCEPT ![c] = Append(@, Head(sock[c].snd))]
    /\ sock' = [sock EXCEPT ![c].snd = Tail(@)]
    /\ UNCHANGED <<objectVars, loopVars, sent>>

PeerCloses(c) ==
    /\ life[c] = "live" /\ sock[c].link = "up" /\ ~ sock[c].fin
    /\ sock' = [sock EXCEPT ![c].fin = TRUE]
    /\ UNCHANGED <<objectVars, loopVars, sent, got>>

\* A reset, or the refusal of a connect that was under way.
PeerResets(c) ==
    /\ life[c] = "live" /\ sock[c].link # "dead"
    /\ sock' = [sock EXCEPT ![c].link = "dead", ![c].err = TRUE, ![c].snd = <<>>]
    /\ UNCHANGED <<objectVars, loopVars, sent, got>>

PeerAccepts ==
    /\ sock["back"].link = "pending"
    /\ sock' = [sock EXCEPT !["back"].link = "up"]
    /\ UNCHANGED <<objectVars, loopVars, sent, got>>

Peers ==
    \/ \E c \in Conn : PeerWrites(c) \/ PeerReads(c) \/ PeerCloses(c) \/ PeerResets(c)
    \/ PeerAccepts

-----------------------------------------------------------------------------
\* Every byte c's peer wrote and the other has not read yet, in the order it
\* will travel.
InFlight(c) ==
    sock[Other(c)].snd \o conn[Other(c)].output \o conn[c].input \o sock[c].rcv

\* Both connections are up and neither was reset.
Relaying ==
    \A c \in Conn : life[c] = "live" /\ conn[c].state = "kConnected" /\ sock[c].link = "up"
=============================================================================
