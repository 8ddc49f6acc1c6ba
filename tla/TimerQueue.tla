----------------------------- MODULE TimerQueue -----------------------------
(***************************************************************************)
(* net::TimerQueue on the loop that owns it.  Timer objects live at        *)
(* addresses that are reused after delete; timers_ orders them by          *)
(* expiration, activeTimers_ finds them by (address, sequence).  addTimer  *)
(* and cancel go through EventLoop::runInLoop: executed in place from an   *)
(* event handler or a timer callback, queued from a functor or another     *)
(* thread.  The loop is reduced to the phases that make this difference.   *)
(***************************************************************************)
EXTENDS Integers, Sequences

CONSTANTS
    Addr,       \* addresses operator new can return
    Free,       \* no Timer object at this address
    NotArmed,   \* the timerfd is disarmed
    MaxTimers,  \* bound: timers ever created
    MaxNow,     \* bound: ticks of the clock; a tick is at least 100 microseconds
    MaxSteps,   \* bound: times the clock is set back
    MaxPending, \* bound: functors queued
    Delays,     \* delays of one-shot timers (runAt, runAfter)
    Intervals   \* intervals of repeating timers (runEvery)

ASSUME TimerAssumption ==
    /\ Free \notin [seq : Nat, when : Nat, interval : Nat] /\ NotArmed \notin Int
    /\ {MaxTimers, MaxSteps, MaxPending} \subseteq Nat /\ MaxNow \in Nat \ {0}
    /\ Delays \subseteq Nat /\ Intervals \subseteq Nat \ {0}

VARIABLES
    now,            \* gettimeofday
    steps,          \* times the clock was set back
    heap,           \* heap[a]: the Timer at address a, or Free
    numCreated,     \* Timer::s_numCreated_
    timers_, activeTimers_, cancelingTimers_, callingExpiredTimers_,
    armed,          \* when the one-shot timerfd expires
    readable,       \* the timerfd holds an expiration that was not read
    timerEvent,     \* epoll_wait returned the timerfd, loop() has yet to handle it
    phase,          \* what the loop runs: functors, event handlers, callbacks
    pending_functors_, functors,
    expired,        \* handleRead: entries getExpired moved out
    toRun,          \* handleRead: those whose callback has not run yet
    readTime,       \* handleRead: the time it began
    issued,         \* history: ids addTimer has returned
    stopped         \* history: ids cancelled since the last batch began

queueVars == <<timers_, activeTimers_, cancelingTimers_, callingExpiredTimers_>>
fdVars == <<armed, readable>>
clockVars == <<now, steps>>
batchVars == <<expired, toRun, readTime>>
functorVars == <<pending_functors_, functors>>
histVars == <<issued, stopped>>
vars == <<clockVars, heap, numCreated, queueVars, fdVars, timerEvent, phase,
          functorVars, batchVars, histVars>>

Phases == {"functors", "events", "callbacks"}

\* ActiveTimer and TimerId: an address with the sequence of the object there.
Id == [timer : Addr, seq : 0 .. MaxTimers - 1]
Timer == [seq : 0 .. MaxTimers - 1, when : Nat, interval : Intervals \cup {0}]
Entry == [when : Nat, timer : Addr]
Op == [op : {"add", "cancel"}, id : Id]

Allocated == {a \in Addr : heap[a] # Free}
IdAt(a) == [timer |-> a, seq |-> heap[a].seq]
EntryAt(a) == [when |-> heap[a].when, timer |-> a]
Earliest(S) == CHOOSE w \in {e.when : e \in S} : \A e \in S : w <= e.when

Init ==
    /\ now = 1 /\ steps = 0
    /\ heap = [a \in Addr |-> Free]
    /\ numCreated = 0
    /\ timers_ = {} /\ activeTimers_ = {} /\ cancelingTimers_ = {}
    /\ callingExpiredTimers_ = FALSE
    /\ armed = NotArmed /\ readable = FALSE /\ timerEvent = FALSE
    /\ phase = "functors"
    /\ pending_functors_ = <<>> /\ functors = <<>>
    /\ expired = {} /\ toRun = {} /\ readTime = 0
    /\ issued = {} /\ stopped = {}

-----------------------------------------------------------------------------
(* The operations on the queue, on the loop thread.  LatestChanged,        *)
(* MarkNothing, ActiveKept, RestartedDespiteCancel and RearmSkipped are    *)
(* not the code's: each is a mistake the definition after it could have    *)
(* made.                                                                   *)

\* howMuchTimeFromNow: never less than 100 microseconds away.
ArmAt(when) == IF when <= now THEN now + 1 ELSE when

\* resetTimerfd: timerfd_settime also drops an expiration that was not read.
ResetTimerfd(when) == armed' = ArmAt(when) /\ readable' = FALSE

LatestChanged(when) == \A e \in timers_ : e.when < when
EarliestChanged(when) == \A e \in timers_ : when < e.when

\* insert and addTimerInLoop: re-arm when the new timer is the earliest.
Insert(when, id) ==
    /\ timers_' = timers_ \cup {[when |-> when, timer |-> id.timer]}
    /\ activeTimers_' = activeTimers_ \cup {id}
    /\ IF EarliestChanged(when) THEN ResetTimerfd(when) ELSE UNCHANGED fdVars

AddTimerInLoop(a) ==
    /\ Insert(heap[a].when, IdAt(a))
    /\ UNCHANGED <<heap, cancelingTimers_, callingExpiredTimers_, stopped>>

MarkNothing(id) == UNCHANGED cancelingTimers_
MarkCanceling(id) == cancelingTimers_' = cancelingTimers_ \cup {id}

\* cancelInLoop: an active timer is deleted; one whose callback is in the
\* running batch is only marked, if the batch is still running.
CancelInLoop(id) ==
    /\ \/ /\ id \in activeTimers_
          /\ timers_' = timers_ \ {EntryAt(id.timer)}
          /\ activeTimers_' = activeTimers_ \ {id}
          /\ heap' = [heap EXCEPT ![id.timer] = Free]
          /\ stopped' = stopped \cup {id}
          /\ UNCHANGED cancelingTimers_
       \/ /\ id \notin activeTimers_ /\ callingExpiredTimers_
          /\ MarkCanceling(id)
          /\ stopped' = IF \E e \in expired : IdAt(e.timer) = id
                        THEN stopped \cup {id} ELSE stopped
          /\ UNCHANGED <<timers_, activeTimers_, heap>>
       \/ /\ id \notin activeTimers_ /\ ~ callingExpiredTimers_
          /\ UNCHANGED <<timers_, activeTimers_, heap, cancelingTimers_, stopped>>
    /\ UNCHANGED <<callingExpiredTimers_, armed, readable>>

-----------------------------------------------------------------------------
(* Client code.                                                            *)

\* new Timer: at any free address, with the next sequence number.
NewTimer(a, when, interval) ==
    /\ heap[a] = Free /\ numCreated < MaxTimers
    /\ heap' = [heap EXCEPT ![a] =
                  [seq |-> numCreated, when |-> when, interval |-> interval]]
    /\ numCreated' = numCreated + 1
    /\ issued' = issued \cup {[timer |-> a, seq |-> numCreated]}

Enqueue(op, id) ==
    /\ Len(pending_functors_) < MaxPending
    /\ pending_functors_' = Append(pending_functors_, [op |-> op, id |-> id])

\* addTimer from another thread or from a functor: the Timer is created at
\* once, its insertion waits in the queue.
AddQueued(a, when, interval) ==
    /\ NewTimer(a, when, interval)
    /\ Enqueue("add", [timer |-> a, seq |-> numCreated])
    /\ UNCHANGED <<clockVars, queueVars, fdVars, timerEvent, phase, functors,
                   batchVars, stopped>>

\* addTimer from an event handler or a timer callback: inserted in place.
AddInPlace(a, when, interval) ==
    /\ phase \in {"events", "callbacks"}
    /\ NewTimer(a, when, interval)
    /\ Insert(when, [timer |-> a, seq |-> numCreated])
    /\ UNCHANGED <<clockVars, cancelingTimers_, callingExpiredTimers_, timerEvent,
                   phase, functorVars, batchVars, stopped>>

\* A TimerId that addTimer returned may be cancelled at any time, also again
\* and when it is stale.
CancelQueued(id) ==
    /\ id \in issued
    /\ Enqueue("cancel", id)
    /\ UNCHANGED <<clockVars, heap, numCreated, queueVars, fdVars, timerEvent, phase,
                   functors, batchVars, histVars>>

CancelInPlace(id) ==
    /\ phase \in {"events", "callbacks"} /\ id \in issued
    /\ CancelInLoop(id)
    /\ UNCHANGED <<clockVars, numCreated, timerEvent, phase, functorVars, batchVars,
                   issued>>

-----------------------------------------------------------------------------
(* The loop.                                                               *)

SwapFunctors ==
    /\ phase = "events" /\ ~ timerEvent
    /\ phase' = "functors"
    /\ functors' = pending_functors_ /\ pending_functors_' = <<>>
    /\ UNCHANGED <<clockVars, heap, numCreated, queueVars, fdVars, timerEvent,
                   batchVars, histVars>>

RunFunctor ==
    /\ phase = "functors" /\ functors # <<>>
    /\ functors' = Tail(functors)
    /\ \/ Head(functors).op = "add" /\ AddTimerInLoop(Head(functors).id.timer)
       \/ Head(functors).op = "cancel" /\ CancelInLoop(Head(functors).id)
    /\ UNCHANGED <<clockVars, numCreated, timerEvent, phase, pending_functors_,
                   batchVars, issued>>

\* epoll_wait returns: with the timerfd among the ready channels or not.
Poll ==
    /\ phase = "functors" /\ functors = <<>>
    /\ phase' = "events"
    /\ timerEvent' = readable
    /\ UNCHANGED <<clockVars, heap, numCreated, queueVars, fdVars, functorVars,
                   batchVars, histVars>>

ActiveKept(S) == activeTimers_
ActiveWithout(S) == activeTimers_ \ {IdAt(e.timer) : e \in S}

\* handleRead up to the callbacks: read the timerfd, getExpired.
HandleRead ==
    /\ phase = "events" /\ timerEvent
    /\ phase' = "callbacks"
    /\ timerEvent' = FALSE
    /\ readable' = FALSE
    /\ readTime' = now
    /\ expired' = {e \in timers_ : e.when <= now}
    /\ toRun' = expired'
    /\ timers_' = timers_ \ expired'
    /\ activeTimers_' = ActiveWithout(expired')
    /\ callingExpiredTimers_' = TRUE
    /\ cancelingTimers_' = {}
    /\ stopped' = {}
    /\ UNCHANGED <<clockVars, heap, numCreated, armed, functorVars, issued>>

\* it.second->run(): the next callback; what it does is the client's actions.
RunCallback(e) ==
    /\ phase = "callbacks" /\ e \in toRun
    /\ \A f \in toRun : e.when <= f.when
    /\ toRun' = toRun \ {e}
    /\ UNCHANGED <<clockVars, heap, numCreated, queueVars, fdVars, timerEvent, phase,
                   functorVars, expired, readTime, histVars>>

\* reset: repeating timers that were not cancelled meanwhile are restarted
\* from the time handleRead began, the others deleted; then re-arm.
RestartedDespiteCancel(e) == heap[e.timer].interval > 0
Restarted(e) == heap[e.timer].interval > 0 /\ IdAt(e.timer) \notin cancelingTimers_

HeapAfterReset ==
    [a \in Addr |->
        IF \A e \in expired : e.timer # a THEN heap[a]
        ELSE IF Restarted(CHOOSE e \in expired : e.timer = a)
             THEN [heap[a] EXCEPT !.when = readTime + heap[a].interval]
             ELSE Free]

RearmSkipped(list) == UNCHANGED fdVars
Rearm(list) == IF list = {} THEN UNCHANGED fdVars ELSE ResetTimerfd(Earliest(list))

ResetExpired ==
    /\ phase = "callbacks" /\ toRun = {}
    /\ phase' = "events"
    /\ callingExpiredTimers_' = FALSE
    /\ heap' = HeapAfterReset
    /\ LET again == {e.timer : e \in {f \in expired : Restarted(f)}}
       IN  /\ timers_' = timers_ \cup {[when |-> heap'[a].when, timer |-> a] : a \in again}
           /\ activeTimers_' = activeTimers_ \cup {IdAt(a) : a \in again}
    /\ Rearm(timers_')
    /\ expired' = {} /\ readTime' = 0
    /\ UNCHANGED <<clockVars, numCreated, cancelingTimers_, timerEvent, functorVars,
                   toRun, histVars>>

-----------------------------------------------------------------------------
(* The kernel.                                                             *)

Tick ==
    /\ now < MaxNow
    /\ now' = now + 1
    /\ UNCHANGED <<steps, heap, numCreated, queueVars, fdVars, timerEvent, phase,
                   functorVars, batchVars, histVars>>

\* The wall clock is set back; the timerfd, which runs on CLOCK_MONOTONIC, will
\* expire that much earlier on the clock that orders timers_.
ClockSetBack ==
    /\ now > 1 /\ steps < MaxSteps
    /\ now' = now - 1 /\ steps' = steps + 1
    /\ armed' = IF armed = NotArmed THEN armed ELSE armed - 1
    /\ UNCHANGED <<heap, numCreated, queueVars, readable, timerEvent, phase,
                   functorVars, batchVars, histVars>>

\* At the bound of the clock all later instants coincide.
TimerfdExpires ==
    /\ armed # NotArmed /\ (armed <= now \/ now = MaxNow)
    /\ armed' = NotArmed
    /\ readable' = TRUE
    /\ UNCHANGED <<clockVars, heap, numCreated, queueVars, timerEvent, phase,
                   functorVars, batchVars, histVars>>

Client ==
    \/ \E a \in Addr :
          \/ \E d \in Delays : AddQueued(a, now + d, 0) \/ AddInPlace(a, now + d, 0)
          \/ \E i \in Intervals : AddQueued(a, now + i, i) \/ AddInPlace(a, now + i, i)
    \/ \E id \in Id : CancelQueued(id) \/ CancelInPlace(id)

Loop ==
    \/ SwapFunctors \/ RunFunctor \/ Poll
    \/ HandleRead \/ (\E e \in toRun : RunCallback(e)) \/ ResetExpired

Next == Client \/ Loop \/ Tick \/ ClockSetBack \/ TimerfdExpires

Spec == Init /\ [][Next]_vars

\* The loop keeps running, time passes, and an armed timerfd expires.
FairSpec == Spec /\ WF_vars(Loop) /\ WF_vars(Tick) /\ WF_vars(TimerfdExpires)

-----------------------------------------------------------------------------
(* Properties.                                                             *)

\* Type of the queue's state.
TypeOK ==
    /\ now \in 1 .. MaxNow /\ steps \in 0 .. MaxSteps
    /\ heap \in [Addr -> Timer \cup {Free}]
    /\ numCreated \in 0 .. MaxTimers
    /\ timers_ \subseteq Entry /\ expired \subseteq Entry /\ toRun \subseteq expired
    /\ activeTimers_ \subseteq Id /\ cancelingTimers_ \subseteq Id
    /\ callingExpiredTimers_ = (phase = "callbacks")
    /\ armed \in Int \cup {NotArmed}
    /\ readable \in BOOLEAN /\ timerEvent \in BOOLEAN
    /\ phase \in Phases
    /\ pending_functors_ \in Seq(Op) /\ functors \in Seq(Op)
    /\ readTime \in Nat
    /\ issued \subseteq Id /\ stopped \subseteq Id

\* No use after free (timer_queue.cpp:95-154): whatever the callbacks of a batch
\* cancel, every entry of the queue and of the batch handleRead still has to
\* run or reset names a Timer that exists, under its own expiration, and none
\* is in both, so none is deleted twice.
NoDanglingTimer ==
    /\ \A e \in timers_ \cup expired : e.timer \in Allocated /\ e = EntryAt(e.timer)
    /\ timers_ \cap expired = {}

\* timers_ and activeTimers_ are two indexes of the same timers, although an
\* address freed by cancel or by reset is reused by later timers: a stale
\* TimerId finds nothing (timer_queue.cpp:96-99, 172-173).
IndexesAgree == activeTimers_ = {IdAt(e.timer) : e \in timers_}

\* While a timer waits, the timerfd is set to expire no later than the earliest
\* of them, or has expired and will be handled: only insert, reset and the
\* minimum of howMuchTimeFromNow keep this, and cancel never re-arms.
TimerfdCoversEarliest ==
    (timers_ # {} /\ phase # "callbacks") =>
        \/ readable \/ timerEvent
        \/ armed # NotArmed /\ (armed <= Earliest(timers_) \/ armed <= now + 1)

\* A cancellation that took effect, on a waiting timer or on one whose callback
\* is in the running batch, is final: once the batch is over the timer is not
\* waiting again, not even a repeating one that cancelled itself.
StoppedStaysStopped == phase # "callbacks" => activeTimers_ \cap stopped = {}

\* Again and again no timer is overdue: each one that is leaves the queue, its
\* callback having run or it having been cancelled, also when the clock was set
\* back while it waited (timer_queue.cpp:14, 22-34, 108-163).
TimersFire == []<>(\A e \in timers_ : e.when > now)

\* An in-place cancel of a timer that exists reaches it, waiting or in the
\* running batch, unless its insertion is still queued: then nothing is left of
\* the cancellation, and the timer will fire (timer_queue.cpp:80, 85, 97-105).
Exists(id) == id.timer \in Allocated /\ IdAt(id.timer) = id
InsertionQueued(id) ==
    \E i \in DOMAIN (functors \o pending_functors_) :
        (functors \o pending_functors_)[i] = [op |-> "add", id |-> id]

CancelReaches ==
    [][\A id \in issued :
          (CancelInPlace(id) /\ Exists(id)') =>
              id \in cancelingTimers_' \/ InsertionQueued(id)]_vars
=============================================================================
