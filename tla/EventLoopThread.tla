-------------------------- MODULE EventLoopThread ---------------------------
(***************************************************************************)
(* net::EventLoopThread: a creator thread starts a worker thread, waits on *)
(* a condition variable for the worker to publish the address of its       *)
(* EventLoop, hands it functors, and at destruction quits and joins it.    *)
(* Composes EventLoop: the worker runs loop(), and the creator is one of   *)
(* the threads that call into it.                                          *)
(***************************************************************************)
EXTENDS EventLoop

CONSTANT Creator    \* the thread that owns the EventLoopThread

ASSUME CreatorAssumption == Creator \in Thread

VARIABLES
    creator,    \* where the creator is in startLoop, use and destruction
    worker,     \* where the worker is in threadFunc
    loop_ptr_   \* TRUE: loop_ptr_ points to the worker's EventLoop

vars == <<loopVars, creator, worker, loop_ptr_>>
threadVars == <<creator, worker, loop_ptr_>>

Init ==
    /\ LoopInit
    /\ creator = "new"
    /\ worker = "unborn"
    /\ loop_ptr_ = FALSE

\* startLoop: construct the std::thread ...
SpawnThread ==
    /\ creator = "new"
    /\ creator' = "lock"
    /\ worker' = "publish"
    /\ UNCHANGED <<loopVars, loop_ptr_>>

\* ... lock mutex_ and wait for loop_ptr_: wait() tests the predicate, and
\* unlocks and sleeps in one step when it is false.
TestLoopPtr ==
    /\ creator = "lock"
    /\ creator' = IF loop_ptr_ THEN "running" ELSE "asleep"
    /\ UNCHANGED <<loopVars, worker, loop_ptr_>>

SpuriousWakeup ==
    /\ creator = "asleep"
    /\ creator' = "lock"
    /\ UNCHANGED <<loopVars, worker, loop_ptr_>>

\* threadFunc: construct the EventLoop, publish it under mutex_, notify_one.
Publish ==
    /\ worker = "publish"
    /\ loop_ptr_' = TRUE
    /\ worker' = "notify"
    /\ UNCHANGED <<loopVars, creator>>

NotifyLost ==
    /\ worker = "notify"
    /\ worker' = "loop"
    /\ UNCHANGED <<loopVars, creator, loop_ptr_>>

Notify ==
    /\ worker = "notify"
    /\ creator' = IF creator = "asleep" THEN "lock" ELSE creator
    /\ worker' = "loop"
    /\ UNCHANGED <<loopVars, loop_ptr_>>

\* loop.loop() (threadFunc sets nothing up first) and, when it returns, the end of the EventLoop on the stack.
WorkerLoops ==
    /\ worker = "loop"
    /\ Loop
    /\ UNCHANGED threadVars

ThreadFuncReturns ==
    /\ worker = "loop" /\ owner = "stopped"
    /\ worker' = "gone"
    /\ UNCHANGED <<loopVars, creator, loop_ptr_>>

\* The creator, once startLoop returned, and the threads it gave the pointer
\* to queue functors for as long as the EventLoop exists.
Post(t) ==
    /\ creator \in (IF t = Creator THEN {"running"} ELSE {"running", "stopped", "join"})
    /\ worker # "gone"
    /\ Push(t)
    /\ UNCHANGED threadVars

FinishCall(t) == Wakeup(t) /\ UNCHANGED threadVars

\* stop(), or ~threadPool for each of its loops: quit through loop_ptr_.
Stop ==
    /\ creator = "running"
    /\ QuitByThread(Creator)
    /\ creator' = "stopped"
    /\ UNCHANGED <<worker, loop_ptr_>>

\* ~EventLoopThread, unless join() has been called: quit, then join.  loop_ptr_
\* is never reset, so after stop() it may name an EventLoop that has ended: the
\* quit through it is undefined, and the model follows the creator no further.
Destroy ==
    /\ creator \in {"running", "stopped"}
    /\ IF worker = "gone" THEN creator' = "dangling" /\ UNCHANGED loopVars
       ELSE creator' = "join" /\ QuitByThread(Creator)
    /\ UNCHANGED <<worker, loop_ptr_>>

\* join(), which ~threadPool calls once every loop was told to quit, or the join
\* of the destructor.
Join ==
    /\ creator \in {"stopped", "join"}
    /\ caller[Creator] = "idle" /\ worker = "gone"
    /\ creator' = "joined"
    /\ UNCHANGED <<loopVars, worker, loop_ptr_>>

Next ==
    \/ SpawnThread \/ TestLoopPtr \/ SpuriousWakeup
    \/ Publish \/ Notify \/ WorkerLoops \/ ThreadFuncReturns
    \/ \E t \in Thread : Post(t) \/ FinishCall(t)
    \/ Stop \/ Destroy \/ Join
    \/ worker = "loop" /\ IoArrives /\ UNCHANGED threadVars

Spec == Init /\ [][Next]_vars

\* Threads make progress and epoll_wait returns; nothing makes clients post,
\* the kernel deliver, or a condition variable wake by itself.
Fairness ==
    /\ WF_vars(SpawnThread) /\ WF_vars(TestLoopPtr)
    /\ WF_vars(Publish) /\ WF_vars(Notify)
    /\ WF_vars(WorkerLoops) /\ WF_vars(ThreadFuncReturns)
    /\ \A t \in Thread : WF_vars(FinishCall(t))
    /\ WF_vars(Join)

FairSpec == Spec /\ Fairness

-----------------------------------------------------------------------------
(* Properties.                                                             *)

\* startLoop returns: the notification cannot fall between the creator's test
\* of loop_ptr_ and its sleep (event_loop_thread.cpp:29-34, 49-55).
StartLoopReturns == creator = "lock" ~> creator = "running"

\* A loop that is told to quit while it runs stops, even if functors queue
\* functors for ever, and its thread ends (event_loop.cpp:86, 113-118).
QuitStopsRunningLoop == (looping_ /\ quit_) ~> worker = "gone"

\* event_loop_thread.cpp:7-8 says of the destructor: "ensures that every thread
\* exits; if the thread is still running, it is left to finish".
JoinReturns == creator = "join" ~> creator = "joined"
=============================================================================
