------------------------------- MODULE Relay --------------------------------
(***************************************************************************)
(* One client connection relayed to one backend by either handler: the     *)
(* worker loop, its timers, the main thread, and the kernel with the two   *)
(* peers, together.                                                        *)
(***************************************************************************)
EXTENDS LoadBalancerHandler, HttpProxyHandler

vars == <<tcpVars, lbVars, httpVars>>

Init == TcpInit /\ LBInit /\ HttpInit

\* Virtual dispatch: the handler's class decides whose callbacks run.
Worker ==
    \/ handler_ = "LoadBalancerHandler" /\ LBWorker /\ UNCHANGED httpVars
    \/ handler_ = "HttpProxyHandler" /\ HttpWorker /\ UNCHANGED lbVars

Timers == LBTimers /\ UNCHANGED httpVars

Outside(A) == A /\ UNCHANGED <<lbVars, httpVars>>

Step(A) == fault = "none" /\ A /\ UNCHANGED handler_

Next == Step(Worker \/ Timers \/ Outside(EraseConnection \/ Peers))

\* The worker's thread keeps running, a connect under way is accepted or
\* refused, and peers read what is sent to them.
Fairness ==
    /\ WF_vars(Step(Worker))
    /\ WF_vars(Step(Outside(PeerAccepts)))
    /\ \A c \in Conn : WF_vars(Step(Outside(PeerReads(c))))

Spec == Init /\ [][Next]_vars
FairSpec == Spec /\ Fairness

-----------------------------------------------------------------------------
(* Properties.                                                             *)

\* Type of the relay's state; the kernel never holds more than it has room for.
TypeOK ==
    /\ handler_ \in Handlers
    /\ conn \in [Conn -> [state : States, events : SUBSET {"in", "out"},
                          input : Seq(Nat), output : Seq(Nat)]]
    /\ life \in [Conn -> {"none", "live", "freed"}]
    /\ removals \in 0 .. 2
    /\ fault \in {"none", "useAfterFree", "sigpipe", "notDisconnected", "notErased",
                  "eventsLeft"}
    /\ phase \in {"functors", "poll", "events"}
    /\ batch \in [Conn -> SUBSET Events] /\ current \in Conn /\ todo \in SUBSET Events
    /\ sock \in [Conn -> [rcv : Seq(Nat), snd : Seq(Nat),
                          link : {"pending", "up", "dead"}, fin : BOOLEAN, err : BOOLEAN]]
    /\ \A c \in Conn : Len(sock[c].snd) <= SendSpace
    /\ sent \in [Conn -> Nat] /\ \A c \in Conn : sent[c] <= MaxBytes[c]
    /\ got \in [Conn -> Seq(Nat)]
    /\ backend_connected_ \in BOOLEAN /\ first_byte_received_ \in BOOLEAN
    /\ initial \in {"none", "queued", "armed"}
    /\ idleHeld \in BOOLEAN /\ orphans \in 0 .. MaxOrphans
    /\ deferred \in Seq({"addTimer", "createBackend"})
    /\ waiting_for_initial_data_ \in BOOLEAN /\ route \in Routes /\ opened \in Nat

\* The peer's bytes among those that were passed on to the other side: the
\* host's name put back, the proxy's own response, which is all its client is
\* ever sent, left out.
FromClient(bytes) ==
    [i \in DOMAIN bytes |-> IF bytes[i] = OwnByte THEN HostAt ELSE bytes[i]]
FromBackend(bytes) == IF bytes = <<OwnByte>> THEN <<>> ELSE bytes

\* No byte is lost, repeated or overtaken between the four queues it passes,
\* whichever were full and whenever the backend's connection came up
\* (tcp_connection.cpp:142-216, 273-344, load_balancer_handler.cpp:57, 154,
\* http_proxy_handler.cpp:39-47, 244-254).
NothingLost ==
    Relaying =>
        /\ FromClient(got["back"] \o InFlight("front")) = [i \in 1 .. sent["front"] |-> i]
        /\ got["front"] \o InFlight("back") = [i \in 1 .. sent["back"] |-> i]

\* Writability is asked for exactly while there is something to write or a
\* connect to complete: otherwise bytes wait for ever, or a level-triggered
\* epoll never blocks again (tcp_connection.cpp:196, 318).
WritingWhilePending ==
    \A c \in Conn : (life[c] = "live" /\ conn[c].state \in Closing) =>
        ("out" \in conn[c].events <=> conn[c].output # <<>>)

\* A connection that stopped reading will be told to read again: the other
\* side, whose buffer passed the high-water mark, still has bytes to write
\* (load_balancer_handler.cpp:139-148, http_proxy_handler.cpp:176-201).
PausedWillResume ==
    \A c \in Conn :
        (Relaying /\ "in" \notin conn[c].events) => conn[Other(c)].output # <<>>

\* A connection that was closed stays closed, and one that is closing is not
\* made to send again: onClose is called once (tcp_connection.cpp:117-123).
NeverReopened ==
    [][\A c \in Conn :
          /\ conn[c].state = "kDisConnected" => conn'[c].state = "kDisConnected"
          /\ conn[c].state = "kDisConnecting" => conn'[c].state # "kConnected"]_vars

\* Each direction implements the abstract pipe, also after either end closed:
\* what is dropped then is dropped for good.
ToBackend == INSTANCE BytePipe
    WITH sent <- sent["front"], got <- FromClient(got["back"])
ToClient == INSTANCE BytePipe
    WITH sent <- sent["back"], got <- FromBackend(got["front"])

ImplementsPipes == ToBackend!Spec /\ ToClient!Spec

\* A TcpConnection is disconnected before it is destroyed, its destructor
\* asserts (tcp_connection.cpp:24-25): here, the backend's when the client's
\* handler destroys it.  The main thread's erasure, which destroys both, is
\* left out.
DestroyedDisconnected ==
    [][(life["back"] = "live" /\ life'["back"] = "freed" /\ life'["front"] = "live")
          => conn'["back"].state = "kDisConnected"]_vars
=============================================================================
