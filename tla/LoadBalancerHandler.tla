------------------------ MODULE LoadBalancerHandler -------------------------
(***************************************************************************)
(* app::LoadBalancerHandler on the two connections of TcpConnection: it    *)
(* opens the backend's connection as soon as the client's is established,  *)
(* relays both ways, and keeps two timers, which may outlive it.           *)
(***************************************************************************)
EXTENDS TcpConnection

CONSTANT MaxOrphans     \* bound: idle timers nobody can cancel any more

ASSUME MaxOrphansAssumption == MaxOrphans \in Nat

VARIABLES
    backend_connected_, first_byte_received_,
    initial,    \* the first-byte timer
    idleHeld,   \* TRUE: idle_timer_id_ names an idle timer that is armed
    orphans,    \* armed idle timers whose id was overwritten
    deferred    \* functors onConnection left in pending_functors_

timerVars == <<initial, idleHeld, orphans>>
lbVars == <<backend_connected_, first_byte_received_, timerVars, deferred>>

LBInit ==
    /\ backend_connected_ = FALSE /\ first_byte_received_ = FALSE
    /\ initial = "none" /\ idleHeld = FALSE /\ orphans = 0
    /\ deferred = <<>>

-----------------------------------------------------------------------------
(* Timers.  cancel() does not reach a timer whose insertion is still       *)
(* queued.                                                                 *)

Cancelled == IF initial = "armed" THEN "none" ELSE initial

\* onMessage: the first bytes stop the first-byte timer and overwrite
\* idle_timer_id_ without cancelling it; later ones restart the idle timer.
OnMessageTimers ==
    /\ first_byte_received_' = TRUE /\ idleHeld' = TRUE
    /\ IF first_byte_received_ THEN UNCHANGED <<initial, orphans>>
       ELSE /\ initial' = Cancelled
            /\ orphans' = IF idleHeld THEN orphans + 1 ELSE orphans
            /\ orphans' <= MaxOrphans

\* The rest of a step that may have closed the client's connection: onClose
\* cancels one of the two timers; held is whether an idle timer runs.
OnCloseTimers(held) ==
    LET closes == /\ conn["front"].state \in Closing
                  /\ conn'["front"].state = "kDisConnected"
    IN  /\ initial' = IF closes /\ ~ first_byte_received_ THEN Cancelled ELSE initial
        /\ idleHeld' = (held /\ ~ (closes /\ first_byte_received_))
        /\ UNCHANGED <<first_byte_received_, orphans, deferred>>

InitialTimerFires ==
    /\ phase = "events" /\ todo = {} /\ initial = "armed"
    /\ initial' = "none"
    /\ IF life["front"] = "live"
       THEN /\ conn' = IF first_byte_received_ THEN conn ELSE Shutdown(conn, "front")
            /\ UNCHANGED fault
       ELSE fault' = "useAfterFree" /\ UNCHANGED conn
    /\ UNCHANGED <<life, removals, loopVars, sock, sent, got, backend_connected_,
                   first_byte_received_, idleHeld, orphans, deferred>>

IdleTimerFires ==
    /\ phase = "events" /\ todo = {}
    /\ \/ idleHeld /\ idleHeld' = FALSE /\ UNCHANGED orphans
       \/ orphans > 0 /\ orphans' = orphans - 1 /\ UNCHANGED idleHeld
    /\ IF life["front"] = "live"
       THEN conn' = Shutdown(conn, "front") /\ UNCHANGED fault
       ELSE fault' = "useAfterFree" /\ UNCHANGED conn
    /\ UNCHANGED <<life, removals, loopVars, sock, sent, got, backend_connected_,
                   first_byte_received_, initial, deferred>>

-----------------------------------------------------------------------------
(* The handler's callbacks.  ForwardsEarly is not the code's: it is a      *)
(* mistake the definition after it could have made.                        *)

\* onConnection starts the timer and, when the balancer found a backend, the
\* connect; it runs in doPendingFunctors, so both wait for the next round.
OnConnection(found) ==
    /\ ConnectEstablished(IF found THEN "kConnected" ELSE "kDisConnecting")
    /\ initial' = "queued"
    /\ deferred' = IF found THEN <<"addTimer", "createBackend">> ELSE <<"addTimer">>
    /\ UNCHANGED <<backend_connected_, first_byte_received_, idleHeld, orphans>>

AddInitialTimer ==
    /\ phase = "functors" /\ deferred # <<>> /\ Head(deferred) = "addTimer"
    /\ deferred' = Tail(deferred)
    /\ initial' = "armed"
    /\ UNCHANGED <<objectVars, loopVars, sock, sent, got, backend_connected_,
                   first_byte_received_, idleHeld, orphans>>

\* createBackendConnection: no socket, or connect fails at once; or the
\* connect is under way or done.  It uses the client's connection unchecked.
CreateBackendConnection(link) ==
    /\ phase = "functors" /\ deferred # <<>> /\ Head(deferred) = "createBackend"
    /\ deferred' = Tail(deferred)
    /\ \/ /\ life["front"] = "freed"
          /\ fault' = "useAfterFree"
          /\ UNCHANGED <<conn, life, removals, sock>>
       \/ /\ life["front"] = "live" /\ link = "dead"
          /\ Leaves(Shutdown(conn, "front"), sock)
       \/ /\ life["front"] = "live" /\ link # "dead"
          /\ ConnectStarted(conn, sock, link)
    /\ UNCHANGED <<loopVars, sent, got, backend_connected_, first_byte_received_,
                   timerVars>>

\* onMessage forwards when the backend's connection exists and is up.
ForwardsEarly == life["back"] = "live"
Forwards == life["back"] = "live" /\ backend_connected_

ReadClient ==
    /\ Reading("front") /\ sock["front"].rcv # <<>>
    /\ OnMessageTimers
    /\ LET bytes == conn["front"].input \o sock["front"].rcv
           ks == [sock EXCEPT !["front"].rcv = <<>>]
       IN  IF Forwards
           THEN Send([conn EXCEPT !["front"].input = <<>>], ks, "back", bytes)
           ELSE Leaves([conn EXCEPT !["front"].input = bytes], ks)
    /\ UNCHANGED <<loopVars, sent, got, backend_connected_, deferred>>

\* A response restarts the idle timer before it is sent on.
ReadResponse == ReadBackend /\ OnCloseTimers(TRUE) /\ UNCHANGED backend_connected_

\* What the client sent before the backend's connection was up.
SentOnConnect == conn["front"].input

OnBackendConnected ==
    /\ ConnectCompletes(SentOnConnect)
    /\ backend_connected_' = (backend_connected_ \/ ~ sock["back"].err)
    /\ UNCHANGED <<first_byte_received_, timerVars, deferred>>

LBWorker ==
    \/ \E found \in BOOLEAN : OnConnection(found)
    \/ AddInitialTimer
    \/ \E link \in {"dead", "pending", "up"} : CreateBackendConnection(link)
    \/ deferred = <<>> /\ EndFunctors /\ UNCHANGED lbVars
    \/ (Poll \/ EndEvents \/ HandleDestroyed) /\ UNCHANGED lbVars
    \/ ReadClient \/ ReadResponse \/ OnBackendConnected
    \/ \E c \in Conn :
          \/ HandleEvent(c) /\ UNCHANGED lbVars
          \/ /\ HandleError(c) \/ ReadEnds(c) \/ HandleWrite(c)
             /\ OnCloseTimers(idleHeld) /\ UNCHANGED backend_connected_

LBTimers == InitialTimerFires \/ IdleTimerFires

-----------------------------------------------------------------------------
\* The backend catches up with what the client writes again and again, through
\* any number of pauses, unless the client's connection is closing or its
\* backend was reset (load_balancer_handler.cpp:57-61, 139-160).
BytesReachBackend ==
    handler_ = "LoadBalancerHandler" ~>
        \/ Len(got["back"]) = sent["front"]
        \/ conn["front"].state # "kConnected"
        \/ fault # "none"

\* When the backend closes, its close callback shuts the client's connection
\* down "and so closes it" (tcp_connection.cpp:98-101).
ClientIsClosed ==
    (life["back"] = "live" /\ conn["back"].state = "kDisConnected")
        ~> (conn["front"].state = "kDisConnected" \/ fault # "none")

\* No timer outlives the handler whose address its callback holds: the handler
\* cancels none in its destructor, "the timers are cleaned up by EventLoop and
\* TimerQueue" (load_balancer_handler.cpp:15-17).
NoOrphanTimer ==
    life["front"] = "freed" => initial # "armed" /\ ~ idleHeld /\ orphans = 0
=============================================================================
