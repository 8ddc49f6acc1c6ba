---------------------------- MODULE HealthChecker ----------------------------
(***************************************************************************)
(* app::HealthChecker: a repeating timer of the main loop probes every     *)
(* configured backend with a non-blocking connect, and each probe ends     *)
(* either in its write callback or in its one-second timeout.  The two     *)
(* race: epoll_wait may return the timerfd and a probe's socket together,  *)
(* and descriptor numbers are reused the moment they are closed.  Other    *)
(* threads configure backends and open descriptors meanwhile.  Workers'    *)
(* getNextBackend is left to LoadBalancer: no step here reads its results. *)
(***************************************************************************)
EXTENDS LoadBalancer, FiniteSets

CONSTANTS
    MaxProbes,  \* bound: probes whose callbacks may still run
    NumFds,     \* descriptors the process may have open
    MaxForeign  \* bound: descriptors other threads hold at a time

ASSUME CheckerAssumption ==
    MaxProbes \in Nat \ {0} /\ NumFds \in Nat /\ MaxForeign \in Nat

VARIABLES
    reach,      \* reach[b]: does the backend answer a connect
    fds,        \* fds[f]: what descriptor f is open for
    probes,     \* probes[k]: the Channel of a probe and what its lambdas captured
    timers,     \* probes whose timeout is in the TimerQueue, earliest first
    ndue,       \* how many of them are due
    checkDue,   \* the repeating timer is due
    batch,      \* what epoll_wait returned and is not handled: probes, Timerfd
    running,    \* expired timers handleRead has yet to run, Check is the repeating one
    todo        \* addresses checkBackends has yet to probe

loopVars == <<probes, timers, ndue, checkDue, batch, running, todo>>
hcVars == <<lbVars, reach, fds, loopVars>>

Fd == 1 .. NumFds
Slot == 1 .. MaxProbes
Timerfd == 0
Check == 0
Foreign == MaxProbes + 1    \* owner of a descriptor of another thread

Closed == [owner |-> 0, connect |-> "none"]
NoProbe == [state |-> "none", addr |-> NoBackend, sockfd |-> 0]

FreeFds == {f \in Fd : fds[f].owner = 0}
Lowest(S) == CHOOSE x \in S : \A y \in S : x <= y
FreeSlots == {k \in Slot : probes[k].state = "none"}
Pending == {k \in Slot : probes[k].state = "pending"}

HCInit ==
    /\ LBInit
    /\ reach \in [Backend -> BOOLEAN]
    /\ fds = [f \in Fd |-> Closed]
    /\ probes = [k \in Slot |-> NoProbe]
    /\ timers = <<>> /\ ndue = 0 /\ checkDue = FALSE
    /\ batch = {} /\ running = <<>> /\ todo = {}

-----------------------------------------------------------------------------
(* The network, time and the other threads.                                *)

ReachChanges ==
    /\ \E b \in Backend : reach' = [reach EXCEPT ![b] = ~@]
    /\ UNCHANGED <<lbVars, fds, loopVars>>

\* The handshake of a connect in progress ends, or is refused.  A peer that
\* is down may also never answer, and so may one that is slow.
ConnectEnds ==
    /\ \E f \in Fd :
          /\ fds[f].connect = "inProgress"
          /\ fds' = [fds EXCEPT ![f].connect =
                       IF reach[probes[fds[f].owner].addr] THEN "done" ELSE "refused"]
    /\ UNCHANGED <<lbVars, reach, loopVars>>

\* The next timer falls due.  A probe's timeout (1 s) falls due before the
\* repeating timer (3 s by default) comes round again.
TimeoutDue ==
    /\ ndue < Len(timers)
    /\ ndue' = ndue + 1
    /\ UNCHANGED <<lbVars, reach, fds, probes, timers, checkDue, batch, running, todo>>

CheckTimerDue ==
    /\ ~checkDue /\ ndue = Len(timers)
    /\ running = <<>> /\ todo = {}
    /\ checkDue' = TRUE
    /\ UNCHANGED <<lbVars, reach, fds, probes, timers, ndue, batch, running, todo>>

ForeignOpens ==
    /\ Cardinality({f \in Fd : fds[f].owner = Foreign}) < MaxForeign
    /\ FreeFds # {}
    /\ fds' = [fds EXCEPT ![Lowest(FreeFds)].owner = Foreign]
    /\ UNCHANGED <<lbVars, reach, loopVars>>

\* A thread closes a descriptor that is still its own.
ForeignCloses ==
    /\ \E f \in Fd : fds[f].owner = Foreign /\ fds' = [fds EXCEPT ![f] = Closed]
    /\ UNCHANGED <<lbVars, reach, loopVars>>

Configure ==
    /\ \E b \in Backend : AddBackend(b) \/ RemoveBackend(b)
    /\ UNCHANGED <<reach, fds, loopVars>>

-----------------------------------------------------------------------------
(* The main loop.  KeepOpen, CheckFirst, NoVerdict and InRotation are not  *)
(* the code's: each is a mistake the definition after it could have made.  *)

\* updateHealthStatus(b, up), which may find nothing to change.
Verdict(b, up) ==
    \/ UpdateHealthStatus(b, up)
    \/ up = (b \in Healthy) /\ UNCHANGED lbVars

\* disableAll, remove and close(sockfd): whatever the number stands for by now
\* is closed and leaves the epoll set.
KeepOpen(f) == fds
Close(f) == [fds EXCEPT ![f] = Closed]

\* The channel of a probe that ended stays allocated (its write callback owns
\* it), so an event of the batch may still reach it.
Ended(k) ==
    [probes EXCEPT ![k] = IF k \in batch THEN [@ EXCEPT !.state = "ended"] ELSE NoProbe]

Idle == batch = {} /\ running = <<>> /\ todo = {}

Writable == {k \in Pending : \E f \in Fd :
                fds[f].owner = k /\ fds[f].connect \in {"done", "refused"}}

EpollWait ==
    /\ Idle
    /\ batch' = Writable \cup (IF ndue > 0 \/ checkDue THEN {Timerfd} ELSE {})
    /\ batch' # {}
    /\ UNCHANGED <<lbVars, reach, fds, probes, timers, ndue, checkDue, running, todo>>

\* The timers handleRead takes out of the queue, in the order it runs them.
CheckFirst == (IF checkDue THEN <<Check>> ELSE <<>>) \o SubSeq(timers, 1, ndue)
Expired == SubSeq(timers, 1, ndue) \o (IF checkDue THEN <<Check>> ELSE <<>>)

HandleTimerfd ==
    /\ Timerfd \in batch /\ running = <<>> /\ todo = {}
    /\ batch' = batch \ {Timerfd}
    /\ running' = Expired
    /\ timers' = SubSeq(timers, ndue + 1, Len(timers))
    /\ ndue' = 0 /\ checkDue' = FALSE
    /\ UNCHANGED <<lbVars, reach, fds, probes, todo>>

\* What a timeout does to the balancer.
NoVerdict(b) == UNCHANGED lbVars
TimeoutVerdict(b) == Verdict(b, FALSE)

Timeout ==
    /\ running # <<>> /\ todo = {} /\ Head(running) # Check
    /\ running' = Tail(running)
    /\ LET k == Head(running)
       IN  IF k \in Pending
           THEN /\ TimeoutVerdict(probes[k].addr)
                /\ fds' = Close(probes[k].sockfd)
                /\ probes' = Ended(k)
           ELSE UNCHANGED <<lbVars, fds, probes>>
    /\ UNCHANGED <<reach, timers, ndue, checkDue, batch, todo>>

\* getAllBackends copies the set under the mutex: those configured later wait
\* for the next round.
InRotation == Healthy
AllBackends == all_backends_set_

CheckBackends ==
    /\ running # <<>> /\ todo = {} /\ Head(running) = Check
    /\ running' = Tail(running)
    /\ todo' = AllBackends
    /\ UNCHANGED <<lbVars, reach, fds, probes, timers, ndue, checkDue, batch>>

\* probe(b) when socket() fails; when connect succeeds at once; and when it
\* fails at once, which it may for reasons of this host's.
ProbeSkipped(b) == FreeFds = {} /\ UNCHANGED lbVars
ProbeAnswered(b) == FreeFds # {} /\ reach[b] /\ Verdict(b, TRUE)
ProbeFails(b) == FreeFds # {} /\ Verdict(b, FALSE)

ProbeAtOnce(b) ==
    /\ ProbeSkipped(b) \/ ProbeAnswered(b) \/ ProbeFails(b)
    /\ UNCHANGED <<fds, probes, timers>>

\* probe(b) when connect is in progress.
ProbeStarts(b) ==
    /\ FreeFds # {} /\ FreeSlots # {}
    /\ LET f == Lowest(FreeFds)
           k == Lowest(FreeSlots)
       IN  /\ fds' = [fds EXCEPT ![f] = [owner |-> k, connect |-> "inProgress"]]
           /\ probes' = [probes EXCEPT ![k] =
                           [state |-> "pending", addr |-> b, sockfd |-> f]]
           /\ timers' = Append(timers, k)
    /\ UNCHANGED lbVars

Probe(b) ==
    /\ b \in todo /\ todo' = todo \ {b}
    /\ ProbeAtOnce(b) \/ ProbeStarts(b)
    /\ UNCHANGED <<reach, ndue, checkDue, batch, running>>

\* getsockopt(sockfd, SO_ERROR) on whatever sockfd is open for by now: zero
\* for a connect still in progress, anything for another thread's descriptor.
SoError(f) ==
    IF fds[f].owner = 0 THEN {TRUE}
    ELSE IF fds[f].owner = Foreign THEN BOOLEAN
    ELSE {fds[f].connect = "refused"}

\* loop_->cancel(timerId).
Cancel(k) ==
    /\ timers' = EraseFound(timers, k)
    /\ ndue' = IF \E i \in 1 .. ndue : timers[i] = k THEN ndue - 1 ELSE ndue

WriteCallback(k) ==
    /\ k \in batch \ {Timerfd} /\ running = <<>> /\ todo = {}
    /\ batch' = batch \ {k}
    /\ Cancel(k)
    /\ \E error \in SoError(probes[k].sockfd) : Verdict(probes[k].addr, ~error)
    /\ fds' = Close(probes[k].sockfd)
    /\ probes' = [probes EXCEPT ![k] = NoProbe]
    /\ UNCHANGED <<reach, checkDue, running, todo>>

-----------------------------------------------------------------------------
Others ==
    ReachChanges \/ ConnectEnds \/ ForeignOpens \/ ForeignCloses \/ Configure

Clock == TimeoutDue \/ CheckTimerDue

MainLoop ==
    \/ EpollWait \/ HandleTimerfd \/ Timeout \/ CheckBackends
    \/ \E b \in Backend : Probe(b)
    \/ \E k \in Slot : WriteCallback(k)

HCNext == Others \/ Clock \/ MainLoop

HCSpec == HCInit /\ [][HCNext]_hcVars

\* Time passes and the main loop keeps running; nothing is asked of the peers.
HCFairSpec == HCSpec /\ WF_hcVars(Clock) /\ WF_hcVars(MainLoop)

-----------------------------------------------------------------------------
(* Properties.                                                             *)

\* Type of the health checker's state; a timeout in the queue is always that of
\* a probe still pending, so it finds the Channel it was made for.
HCTypeOK ==
    /\ reach \in [Backend -> BOOLEAN]
    /\ fds \in [Fd -> [owner : 0 .. Foreign,
                       connect : {"none", "inProgress", "done", "refused"}]]
    /\ probes \in [Slot -> [state : {"none", "pending", "ended"},
                            addr : Backend \cup {NoBackend}, sockfd : 0 .. NumFds]]
    /\ timers \in Seq(Slot) /\ ndue \in 0 .. Len(timers)
    /\ \A i \in DOMAIN timers : timers[i] \in Pending
    /\ checkDue \in BOOLEAN
    /\ batch \subseteq Slot \cup {Timerfd}
    /\ running \in Seq(Slot \cup {Check})
    /\ todo \subseteq Backend

\* No backend has two probes waiting at a time: a round's timeouts run before
\* the next round's probes start (health_checker.cpp:13-17, 43-51).  A probe
\* that its timeout ended may still have its write callback called, later in
\* the same batch, and that verdict comes after a newer probe has started.
OneProbeEach ==
    \A j, k \in Pending : probes[j].addr = probes[k].addr => j = k

\* A probe that has ended left no descriptor behind: every socket opened for a
\* probe belongs to one still pending, which will close it by that number.
SocketsHeld ==
    \A f \in Fd : fds[f].owner \in Slot =>
        fds[f].owner \in Pending /\ probes[fds[f].owner].sockfd = f

\* A backend that is configured and stays down is out of the rotation again
\* and again, whether its peers refuse or never answer, whatever the races
\* with timeouts and reused descriptors do in between.  It needs descriptors:
\* a probe that gets none is skipped without a verdict.
DownDetected ==
    \A b \in Backend :
        <>[](~reach[b] /\ b \in all_backends_set_ /\ FreeFds # {})
            => []<>(b \notin Healthy)

\* The probe that ends with this step was of b and had no answer in time.
TimesOut(b) ==
    /\ Timeout
    /\ Head(running) \in Pending /\ probes[Head(running)].addr = b

FailsAtOnce(b) == Probe(b) /\ ProbeFails(b) /\ UNCHANGED probes

\* A backend that is configured and stays up enters the rotation, and comes
\* back to it again and again, unless its probes are left unanswered or fail
\* on this host again and again.  In particular a removal that overtook a
\* verdict, or a verdict taken from a reused descriptor, is made good.
UpDetected ==
    \A b \in Backend :
        <>[](reach[b] /\ b \in all_backends_set_ /\ FreeFds # {})
            => \/ []<>(b \in Healthy)
               \/ []<><<TimesOut(b)>>_hcVars
               \/ []<><<FailsAtOnce(b)>>_hcVars
=============================================================================
