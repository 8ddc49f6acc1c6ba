----------------------------- MODULE EventLoop ------------------------------
(***************************************************************************)
(* net::EventLoop: one thread (the owner) alternates between the functors  *)
(* other threads queued, epoll_wait and the handlers of the channels that  *)
(* are ready.  Other threads hand it work with runInLoop: push under       *)
(* mutex_, unlock, then write to wakeup_fd_; and stop it with quit: set    *)
(* quit_, then write to wakeup_fd_.  The eventfd's counter is abstracted   *)
(* to "readable or not".                                                   *)
(***************************************************************************)
EXTENDS Naturals, Sequences

CONSTANTS
    Thread,     \* threads other than the owner
    Owner,      \* the thread that runs loop()
    MaxPosts    \* bound: functors each other thread posts

ASSUME LoopAssumption == Owner \notin Thread /\ MaxPosts \in Nat

VARIABLES
    owner,      \* where the owner is in loop()
    looping_, quit_,
    calling_pending_functors_,
    pending_functors_,  \* queue behind mutex_
    functors,   \* local queue of doPendingFunctors
    wakeup_fd_, \* TRUE: the eventfd is readable
    ioReady,    \* TRUE: another channel of this loop is ready
    batch,      \* channels epoll_wait returned and loop() has yet to handle
    caller,     \* caller[t]: what thread t is in the middle of
    posted,     \* history: posted[t] functors thread t has queued
    ran         \* history: ran[t] functors of thread t have been executed

ownerVars == <<owner, looping_, functors, batch, ran>>
loopVars == <<owner, looping_, quit_, calling_pending_functors_,
              pending_functors_, functors, wakeup_fd_, ioReady, batch, caller,
              posted, ran>>

OwnerStates == {"setup", "check", "run", "poll", "dispatch", "stopped"}
CallerStates == {"idle", "wakeup"}
Channels == {"wakeup", "io"}

\* A functor another thread queued is named by that thread and its number;
\* one the owner queued for itself has number 0.
Functor == (Thread \X (1 .. MaxPosts)) \cup {<<Owner, 0>>}

\* Every functor queued and not executed, in the order it will be.
Queue == functors \o pending_functors_

LoopInit ==
    /\ owner = "setup"
    /\ looping_ = FALSE
    /\ quit_ = FALSE
    /\ calling_pending_functors_ \in BOOLEAN  \* no initializer before C++20
    /\ pending_functors_ = <<>>
    /\ functors = <<>>
    /\ wakeup_fd_ = FALSE
    /\ ioReady = FALSE
    /\ batch = {}
    /\ caller = [t \in Thread |-> "idle"]
    /\ posted = [t \in Thread |-> 0]
    /\ ran = [t \in Thread |-> 0]

-----------------------------------------------------------------------------
(* Other threads.  PushFront, PushNoWakeup, DrainAgain, LeaveRestUnrun and  *)
(* LeaveWhenDrained are not the code's: each is a mistake the action after  *)
(* it could have made, kept to show that the properties detect it.          *)

\* runInLoop, not in the loop thread: lock, push_back, unlock ...
PushFront(t) ==
    /\ caller[t] = "idle" /\ posted[t] < MaxPosts
    /\ posted' = [posted EXCEPT ![t] = @ + 1]
    /\ pending_functors_' = <<<<t, posted[t] + 1>>>> \o pending_functors_
    /\ caller' = [caller EXCEPT ![t] = "wakeup"]
    /\ UNCHANGED <<ownerVars, quit_, calling_pending_functors_, wakeup_fd_, ioReady>>

PushNoWakeup(t) ==
    /\ caller[t] = "idle" /\ posted[t] < MaxPosts
    /\ posted' = [posted EXCEPT ![t] = @ + 1]
    /\ pending_functors_' = Append(pending_functors_, <<t, posted[t] + 1>>)
    /\ UNCHANGED <<ownerVars, caller, quit_, calling_pending_functors_, wakeup_fd_, ioReady>>

Push(t) ==
    /\ caller[t] = "idle" /\ posted[t] < MaxPosts
    /\ posted' = [posted EXCEPT ![t] = @ + 1]
    /\ pending_functors_' = Append(pending_functors_, <<t, posted[t] + 1>>)
    /\ caller' = [caller EXCEPT ![t] = "wakeup"]
    /\ UNCHANGED <<ownerVars, quit_, calling_pending_functors_, wakeup_fd_, ioReady>>

\* ... and, also from quit, wakeup().
Wakeup(t) ==
    /\ caller[t] = "wakeup"
    /\ caller' = [caller EXCEPT ![t] = "idle"]
    /\ wakeup_fd_' = TRUE
    /\ UNCHANGED <<ownerVars, quit_, calling_pending_functors_,
                   pending_functors_, ioReady, posted>>

QuitByThread(t) ==
    /\ caller[t] = "idle"
    /\ quit_' = TRUE
    /\ caller' = [caller EXCEPT ![t] = "wakeup"]
    /\ UNCHANGED <<ownerVars, calling_pending_functors_, pending_functors_,
                   wakeup_fd_, ioReady, posted>>

\* The kernel: a socket or timer of this loop becomes ready.
IoArrives ==
    /\ ~ ioReady
    /\ ioReady' = TRUE
    /\ UNCHANGED <<ownerVars, quit_, calling_pending_functors_,
                   pending_functors_, wakeup_fd_, caller, posted>>

-----------------------------------------------------------------------------
(* The owner.                                                              *)

\* runInLoop in the loop thread, given the queue it finds: executed in place,
\* or queued when called from a functor.  At most one such functor is queued
\* at a time (a bound of the model).
OwnerRunInLoop(queue) ==
    IF calling_pending_functors_
    THEN /\ \A i \in DOMAIN queue : queue[i][1] # Owner
         /\ pending_functors_' = Append(pending_functors_, <<Owner, 0>>)
         /\ wakeup_fd_' = TRUE
    ELSE UNCHANGED <<pending_functors_, wakeup_fd_>>

\* What client code run by the owner may do to the loop: nothing, runInLoop,
\* or quit, which writes no wakeup because it is in the loop thread.
ClientCode(queue) ==
    \/ UNCHANGED <<pending_functors_, wakeup_fd_, quit_>>
    \/ OwnerRunInLoop(queue) /\ UNCHANGED quit_
    \/ quit_' = TRUE /\ UNCHANGED <<pending_functors_, wakeup_fd_>>

\* Before loop(): the base loop's owner sets up its server and timers.
Setup ==
    /\ owner = "setup"
    /\ OwnerRunInLoop(Queue)
    /\ UNCHANGED <<ownerVars, quit_, calling_pending_functors_, ioReady,
                   caller, posted>>

EnterLoop ==
    /\ owner = "setup"
    /\ owner' = "check"
    /\ looping_' = TRUE
    /\ quit_' = FALSE
    /\ UNCHANGED <<calling_pending_functors_, pending_functors_, functors,
                   wakeup_fd_, ioReady, batch, caller, posted, ran>>

\* while (!quit_), and the swap that begins doPendingFunctors.
LeaveWhenDrained ==
    /\ owner = "check" /\ quit_ /\ pending_functors_ = <<>>
    /\ owner' = "stopped"
    /\ looping_' = FALSE
    /\ UNCHANGED <<quit_, calling_pending_functors_, pending_functors_,
                   functors, wakeup_fd_, ioReady, batch, caller, posted, ran>>

LeaveLoop ==
    /\ owner = "check" /\ quit_
    /\ owner' = "stopped"
    /\ looping_' = FALSE
    /\ UNCHANGED <<quit_, calling_pending_functors_, pending_functors_,
                   functors, wakeup_fd_, ioReady, batch, caller, posted, ran>>

SwapFunctors ==
    /\ owner = "check" /\ ~ quit_
    /\ owner' = "run"
    /\ calling_pending_functors_' = TRUE
    /\ functors' = pending_functors_
    /\ pending_functors_' = <<>>
    /\ UNCHANGED <<looping_, quit_, wakeup_fd_, ioReady, batch, caller, posted,
                   ran>>

RanAfter(f) == IF f[1] = Owner THEN ran ELSE [ran EXCEPT ![f[1]] = @ + 1]

RunFunctor ==
    /\ owner = "run" /\ functors # <<>>
    /\ functors' = Tail(functors)
    /\ ran' = RanAfter(Head(functors))
    /\ ClientCode(functors' \o pending_functors_)
    /\ UNCHANGED <<owner, looping_, calling_pending_functors_, ioReady, batch,
                   caller, posted>>

DrainAgain ==
    /\ owner = "run" /\ functors = <<>>
    /\ IF pending_functors_ = <<>>
       THEN /\ owner' = "poll" /\ calling_pending_functors_' = FALSE
            /\ UNCHANGED <<functors, pending_functors_>>
       ELSE /\ functors' = pending_functors_ /\ pending_functors_' = <<>>
            /\ UNCHANGED <<owner, calling_pending_functors_>>
    /\ UNCHANGED <<looping_, quit_, wakeup_fd_, ioReady, batch, caller, posted,
                   ran>>

LeaveRestUnrun ==
    /\ owner = "run"
    /\ owner' = "poll"
    /\ calling_pending_functors_' = FALSE
    /\ functors' = <<>>
    /\ UNCHANGED <<looping_, quit_, pending_functors_, wakeup_fd_, ioReady,
                   batch, caller, posted, ran>>

EndFunctors ==
    /\ owner = "run" /\ functors = <<>>
    /\ owner' = "poll"
    /\ calling_pending_functors_' = FALSE
    /\ UNCHANGED <<looping_, quit_, pending_functors_, functors, wakeup_fd_,
                   ioReady, batch, caller, posted, ran>>

ReadyChannels ==
    {c \in Channels : (c = "wakeup" /\ wakeup_fd_) \/ (c = "io" /\ ioReady)}

\* epoll_wait is level-triggered: it returns every channel that is ready.
PollReturns ==
    /\ owner = "poll" /\ ReadyChannels # {}
    /\ owner' = "dispatch"
    /\ batch' = ReadyChannels
    /\ UNCHANGED <<looping_, quit_, calling_pending_functors_,
                   pending_functors_, functors, wakeup_fd_, ioReady, caller,
                   posted, ran>>

\* epoll_wait gives up after 10 seconds, or a signal interrupts it; with a
\* channel ready it does neither.
PollTimesOut ==
    /\ owner = "poll" /\ ReadyChannels = {}
    /\ owner' = "check"
    /\ UNCHANGED <<looping_, quit_, calling_pending_functors_,
                   pending_functors_, functors, wakeup_fd_, ioReady, batch,
                   caller, posted, ran>>

\* handleWakeup reads the eventfd, which empties it.
HandleWakeup ==
    /\ owner = "dispatch" /\ "wakeup" \in batch
    /\ batch' = batch \ {"wakeup"}
    /\ wakeup_fd_' = FALSE
    /\ UNCHANGED <<owner, looping_, quit_, calling_pending_functors_,
                   pending_functors_, functors, ioReady, caller, posted, ran>>

\* The handler of another channel consumes what made it ready.
HandleIo ==
    /\ owner = "dispatch" /\ "io" \in batch
    /\ batch' = batch \ {"io"}
    /\ ioReady' = FALSE
    /\ ClientCode(Queue)
    /\ UNCHANGED <<owner, looping_, calling_pending_functors_, functors, caller,
                   posted, ran>>

EndDispatch ==
    /\ owner = "dispatch" /\ batch = {}
    /\ owner' = "check"
    /\ UNCHANGED <<looping_, quit_, calling_pending_functors_,
                   pending_functors_, functors, wakeup_fd_, ioReady, batch,
                   caller, posted, ran>>

Loop ==
    \/ EnterLoop \/ LeaveLoop
    \/ SwapFunctors \/ RunFunctor \/ EndFunctors
    \/ PollReturns \/ PollTimesOut
    \/ HandleWakeup \/ HandleIo \/ EndDispatch

LoopNext ==
    \/ Setup \/ Loop
    \/ \E t \in Thread : Push(t) \/ Wakeup(t) \/ QuitByThread(t)
    \/ IoArrives

LoopSpec == LoopInit /\ [][LoopNext]_loopVars

-----------------------------------------------------------------------------
(* Properties.                                                             *)

FlagsOK ==
    /\ looping_ \in BOOLEAN /\ quit_ \in BOOLEAN
    /\ calling_pending_functors_ \in BOOLEAN
    /\ wakeup_fd_ \in BOOLEAN /\ ioReady \in BOOLEAN

\* Type of the loop's state.
LoopTypeOK ==
    /\ FlagsOK
    /\ owner \in OwnerStates
    /\ pending_functors_ \in Seq(Functor) /\ functors \in Seq(Functor)
    /\ batch \subseteq Channels
    /\ caller \in [Thread -> CallerStates]
    /\ posted \in [Thread -> 0 .. MaxPosts] /\ ran \in [Thread -> 0 .. MaxPosts]

\* No lost wakeup (event_loop.cpp:52-55, 59-73, 91): while the owner is blocked
\* in epoll_wait with a functor queued, the eventfd is readable or some thread
\* is on its way to write it.  So the 10-second timeout is never what gets a
\* functor executed.
NoLostWakeup ==
    (owner = "poll" /\ pending_functors_ # <<>>) =>
        wakeup_fd_ \/ \E t \in Thread : caller[t] = "wakeup"

\* The two queues hold exactly the functors queued and not yet executed, those
\* of one thread in the order it queued them: none is lost in the swap, none is
\* executed twice, and no thread's functors overtake one another.
QueueIsFifo ==
    /\ \A t \in Thread : \A k \in 1 .. MaxPosts :
          (ran[t] < k /\ k <= posted[t]) <=>
              \E i \in DOMAIN Queue : Queue[i] = <<t, k>>
    /\ \A i, j \in DOMAIN Queue :
          (i < j /\ Queue[i][1] = Queue[j][1]) => Queue[i][2] < Queue[j][2]

\* Every functor another thread queues is executed, or the loop has ended: a
\* quit that loop() forgets, or that comes later, drops none (event_loop.cpp:59-
\* 86).
FunctorsRun ==
    \A t \in Thread : \A k \in 1 .. MaxPosts :
        posted[t] >= k ~> (ran[t] >= k \/ owner = "stopped")

\* Functors that queue functors for ever do not keep the loop from its sockets
\* and timers: what they queue waits for the next round (event_loop.cpp:67).
IoHandled == ioReady ~> (~ ioReady \/ owner = "stopped")
=============================================================================
