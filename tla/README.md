# MyNetCoreProxy in TLA+

MyNetCoreProxy is a multi-reactor TCP library (`src/src/net`) and a layer-4
load balancer built on it (`src/src/app`, assembled in
`src/src/demos/static_proxy_server.cpp`).  This directory holds TLA+ modules of
its parts, the TLC configurations that check them on small instances, and
theorems about them with proofs for TLAPS.  Line numbers below are those of the
C++ sources; every definition that stands for code is listed with its lines in
`PROJECT.json`.

    main thread                                  worker thread (x4)
    EventLoop ── Acceptor ── Server ─ runInLoop ─> EventLoop ── TimerQueue
       │                       ^                      │
       │                       └─ removeConnection ── TcpConnection (client)
    HealthChecker                                     │  LoadBalancerHandler
       └─ updateHealthStatus ─> LoadBalancer <────────┤  getNextBackend
                                                      TcpConnection (backend)

## 1. Inventory

| component | state | operations | interacts with |
|---|---|---|---|
| EventLoop | `looping_`, `quit_`, `calling_pending_functors_`, `pending_functors_` behind `mutex_`, the eventfd, the epoll set | `loop`, `runInLoop`, `doPendingFunctors`, `quit`, `wakeup`, `updateChannel`, `removeChannel` | called by every other part; by other threads through `runInLoop` and `quit` |
| EventLoopThread, threadPool | `loop_ptr_` behind a mutex and a condition variable, the thread; `loops_`, `next_` | `startLoop`, `threadFunc`, `stop`, `join`, destructor, `getNextLoop` | owns a worker's EventLoop |
| TimerQueue | `timers_`, `activeTimers_`, `cancelingTimers_`, `callingExpiredTimers_`, the timerfd, Timer objects | `addTimer`, `cancel`, `handleRead`, `reset` | driven by its EventLoop; callbacks call back into it |
| Channel, TcpConnection | `events_`, `revents_`; `state_`, input and output buffers, callbacks | `send`, `shutdown`, `startRead`, `stopRead`, `handleRead/Write/Close/Error`, `connectEstablished`, `connectDestroyed` | the kernel's socket; a handler or callbacks; Server |
| LoadBalancerHandler | `backend_conn_`, `backend_connected_`, `first_byte_received_`, two TimerIds | `onConnection`, `onMessage`, `onClose`, timeouts, `createBackendConnection`, `setupBidirectionalRelay` | both connections, LoadBalancer, TimerQueue |
| Buffer | vector, `readerIndex_`, `writerIndex_` | `append`, `prepend`, `retrieve*`, `readFd` | TcpConnection |
| Server, Acceptor | `connections_` behind `mutex_`, `idle_fd_`, the pool | `handleRead` (accept), `newConnection`, `removeConnection` | main loop and worker loops |
| LoadBalancer | `all_backends_set_`, `healthy_backends_`, `next_index_` behind `mutex_` | `addBackend`, `removeBackend`, `getNextBackend`, `updateHealthStatus` | workers, main loop |
| HealthChecker | a Channel, a socket and a timer per probe | `start`, `checkBackends`, `probe` and its two lambdas | main loop, LoadBalancer |
| HttpProxyHandler | `waiting_for_initial_data_`, `backend_conn_`, `routing_table_` | `onMessage`, `onClose`, `startForwarding`, `createBackendConnection`, `setupBidirectionalRelay`, `modifyRequestForBackend` | both connections; nothing in the repository constructs one |

What is hard in this code:

* **Threads.**  Functors, `quit` and the eventfd cross threads; the server's map is
  used by all of them; an object is destroyed by the main thread while its worker
  may be using it.
* **Order within one loop.**  `runInLoop` executes in place or queues, depending on the
  phase of the loop, so the same two calls may take effect in either order; several
  events of one `epoll_wait` refer to objects that an earlier one has changed.
* **Reuse.**  Timer addresses and descriptors (and with them the names of
  connections) are reused at once, while older ids and queued erasures remain.
* **Partial progress.**  Short writes, full buffers, a backend that connects late,
  resets at any time, descriptors that run out.
* **Time.**  Timeouts race with the events they guard against; timers are ordered by the wall
  clock and woken by the monotonic one.
* **Fragments.**  A request arrives in pieces, before, while and after its backend is connected.

What makes each component correct: for the loop, that no functor is lost, repeated,
overtaken or left for the poll's timeout; for timers, that no deleted Timer is
touched, cancellations are final and due timers fire; for a relay, that each
direction is a FIFO pipe and that backpressure always ends, and, for HTTP, that a request
is answered or forwarded once, with its backend's name in it; for a buffer, that it
is a queue whatever its layout; for the server, that every descriptor has one
owner and every accepted client is served and freed; for the balancer, a cursor in
bounds that walks an unchanged list in turn; for the checker, that no socket leaks, dead
backends leave the rotation and living ones come back.  `PROJECT.json` lists the hazards line by line with the
properties aimed at them.

## 2. Modules

| module | models | abstract specification |
|---|---|---|
| `LoadBalancer` | `load_balancer.cpp`; each method is one step, being one critical section | `BackendPool`: a set with a round of picks |
| `EventLoop` | `event_loop.cpp`: the owner's program counter, functors, eventfd, other threads between unlock and wakeup | |
| `EventLoopThread` | `event_loop_thread.cpp` composed with `EventLoop` (EXTENDS): the creator, the worker, the condition variable, `stop` and `join` as `~threadPool` calls them | |
| `TimerQueue` | `timer_queue.cpp` on a loop reduced to three phases | |
| `TcpConnection` | `tcp_connection.cpp`, `channel.cpp`: two connections on one worker loop, with the main thread, the kernel and the peers | |
| `LoadBalancerHandler` | `load_balancer_handler.cpp` on them (EXTENDS `TcpConnection`), with its timers | |
| `HttpProxyHandler` | `http_proxy_handler.cpp` on them (EXTENDS `TcpConnection`) | |
| `Relay` | the composition (EXTENDS both handlers): virtual dispatch and the next-state relation | `BytePipe`, once per direction |
| `Buffer` | `buffer.cpp` | `ByteQueue` |
| `Server` | `server.cpp`, `acceptor.cpp`, `threadPool::getNextLoop` | |
| `HealthChecker` | `health_checker.cpp` composed with `LoadBalancer` (EXTENDS) | |
| `LoadBalancerProofs`, `EventLoopProofs`, `TimerQueueProofs`, `BufferProofs`, `ServerProofs`, `HealthCheckerProofs`, `RelayProofs` | theorems about the module they are named after | |
| `StreamProofs` | the bytes of one direction of a relay as a chain of queues, and what each operation of a TcpConnection does to it; `RelayProofs` extends it | |
| `MC*` | constants for TLC | |

Conventions.  Variables and constants keep the C++ names where there are any;
variables marked "history" are read only by properties.  Definitions named after a mistake (listed in a comment at the head of their section)
are alternatives no specification uses: each is a plausible bug put in place of the
definition that follows it, and the property it is paired with in `PROJECT.json`
is then violated.

Correspondence worth knowing before reading a module:

* *EventLoop.*  `Push` and `Wakeup` of one thread are two steps, because
  `runInLoop` unlocks before it writes the eventfd.  `QuitByThread` likewise ends in
  `Wakeup`.  The eventfd's counter is reduced to readable or not.
  `calling_pending_functors_` has no initialiser, so its first value is arbitrary.
  Client code that runs on the owner (functors, handlers) may call
  `runInLoop` at each point, in place or queued as the code decides.
* *TimerQueue.*  `AddInPlace`/`AddQueued` and `CancelInPlace`/`CancelQueued` are the
  two ways `runInLoop` executes the same call.  `handleRead` is `HandleRead`, one
  `RunCallback` per expired timer, and `ResetExpired`; callbacks may add and
  cancel in between.  An address is freed by `cancelInLoop` or `reset` and may be
  handed out again at once.  `ClockSetBack` moves the wall clock, not the timerfd: seen on
  the wall clock the timerfd then expires earlier.
* *TcpConnection, Relay.*  One action per callback of a Channel; `batch` is what one
  `epoll_wait` returned, `todo` the callbacks `handleEvent` has yet to make.
  `EraseConnection` is the main thread's functor and may come between any two.  Bytes are
  numbered as the peer writes them, so that order and loss can be seen.  Operations called
  one within another (`send` within `onMessage` within `handleRead`) are functions of the connections,
  `cs`, and the sockets, `ks`, as the caller has left them.  `handler_` is the
  class of the client connection's handler; `Relay!Worker` dispatches on it as the virtual calls do.
  The model stops at a `fault`: use of a destroyed object, a failed assertion, SIGPIPE.
  These are reachable and are not hidden by the properties: each property that gives up
  at a fault says so.
* *HttpProxyHandler.*  Of a request only this is kept: after `HeadLen` bytes `parseHeader` and
  `parsePath` find what they look for, and the byte at `HostAt` stands for the host's name.
  `modifyRequestForBackend` replaces that byte by `OwnByte`; the 404 response is `OwnByte` too.
  `route` is what `routing_table_`, which never changes, says of the path.
  `createBackendConnection` always runs in place, since `onMessage` comes from the dispatch of events.
* *Server.*  A connection's name is its descriptor, and `socket`/`accept` hand out the
  lowest free one.  `newConnection`'s functor is two steps (`ConstructConnection`,
  `ConnectEstablished`) because the map is read again after the unlock.
  `Listen` may never happen, since `bind` may fail; `AcceptFails` is any error that is neither
  EAGAIN nor a full table.
* *Buffer.*  `RetrieveAsString` is called for at most the readable bytes.  The code does not compare:
  a longer `len` would copy what lies behind `writerIndex_`.  All its callers in the repository go
  through `retrieveAllAsString`.
* *HealthChecker.*  A probe ends at once (no descriptor, connected, or an error, also one of this host's
  while the backend is up), or is pending until its write callback or
  its timeout; both may be in one batch.  The write callback queries and closes
  the number it captured, whoever owns it by then.  The order in which the
  due timers run is that of their expirations: a probe's timeout before the
  next round.

## 3. Runs

| run | question | distinct states |
|---|---|---|
| `load_balancer` | Is the cursor safe, and the list walked in turn, under every order of calls? | 36 512 |
| `event_loop_thread` | Do functors, wakeups, start-up and shutdown work under every interleaving? | 70 993 |
| `timer_queue` | Are timers safe and live when callbacks cancel and add, and ids are stale, and when the clock is set back? | 1 881 234 |
| `relay` | Is each direction a pipe with either handler, does backpressure end, is a request routed once? | 1 810 968 |
| `buffer` | Is the buffer a queue within bounded storage? | 49 177 |
| `server` | Are descriptors and names handled right through reuse and exhaustion? | 88 371 |
| `health_checker` | Do probes end, without leaks, do dead backends leave and living ones return? | 339 608 |
| `quit_before_loop`, `relay_assertions`, `relay_timers`, `relay_close`, `server_exhausted` | Disagreements between a comment or assertion and the code (section 6) | |

What the properties say:

* `CursorInBounds`, `NoDuplicate`: `getNextBackend` never indexes past the list, which
  holds no backend twice.  `RotationInvariant`: those served this turn are exactly those
  the cursor has passed.  `ImplementsPool`: every step is one of `BackendPool`.  In both a turn, or
  round, begins anew when the list changes: an erasure before the cursor shifts the list under it and
  the backend it pointed to is passed over, which nothing in the repository excludes.
* `NoLostWakeup`: a blocked owner with queued functors will be woken by the eventfd, not
  by the 10-second timeout.  `QueueIsFifo`: the queues hold what has not been
  executed, each thread's in order.  `FunctorsRun`, `IoHandled`, `StartLoopReturns`,
  `QuitStopsRunningLoop`: liveness of functors, sockets, start-up and shutdown; a functor or a socket
  may be left only when the loop has ended.
* `NoDanglingTimer`, `IndexesAgree`: no entry of the queue or the batch names a Timer
  that is gone.  `TimerfdCoversEarliest`: no waiting timer is forgotten by the kernel's timer.
  `StoppedStaysStopped`, `CancelReaches`: what a cancel does to waiting, running and
  not yet inserted timers.  `TimersFire`: again and again no timer is overdue,
  also after the clock was set back, when the timerfd expires early and its batch is empty.
* `NothingLost`, `ImplementsPipes`: bytes pass the kernel's and the connections' queues once and in
  order; after a close what is dropped is dropped for good.  `WritingWhilePending`,
  `PausedWillResume`, `BytesReachBackend`: interest in EPOLLOUT and backpressure end
  when they should: the backend catches up with the client again and again, through any pause.  `NeverReopened`: closing is
  one-way.
* `HostRewritten`: the backend sees the proxy's Host line and every other byte as it was sent,
  however the request was cut.  `NotFoundOnce`: a 404 is the one and only answer.  `OneBackend`: a
  later piece of the request opens no second connection.  `RequestReachesBackend`: a complete
  head reaches its backend with all that follows, or one of the reasons why not holds.
* `CapacityBounded`: the vector grows only when moving the bytes does not suffice.
  `ImplementsQueue`: every operation is one of a queue.
* `DescriptorsOwned`: one owner per descriptor.  `ErasuresFindTheirOwn`: as long as no connection calls its
  close callback twice, an erasure queued by name finds the connection that asked for it, neither a newcomer with
  the same descriptor nor nothing; what happens otherwise is in section 6.  `Balanced`: round robin.  `AcceptedEstablished`, `ClosedFreed`: clients are served
  and released.
* `OneProbeEach`: no backend has two probes pending at a time.  `SocketsHeld`: no socket outlives its
  probe.  `DownDetected`: a backend that stays down is taken out.  `UpDetected`: one that stays up comes back, unless
  its probes time out or fail on this host again and again.  The two also say that a verdict that came too late, or
  was read from a reused descriptor, is made good; that verdicts come in the order of the probes is not so
  (section 6).

Type invariants are checked in `load_balancer`, `buffer` and `server`, where they keep an index in
bounds; these three, `LoopTypeOK` and `TypeOK` of `TimerQueue` and `Relay` are theorems.  `HCTypeOK` documents
the state; it holds on the instance below and can be added to its configuration.

### Bounds

* `load_balancer`: four backends, so that an erasure can be before, at and after the cursor
  and a turn can wrap; no other bound.
* `event_loop_thread`: two threads besides the worker with `MaxPosts = 2` functors each:
  a functor is queued before, during and after the round that executes another of the same
  thread.  `quit_before_loop` needs one (`MaxPosts = 1`).
* `timer_queue`: `MaxTimers = 3` timers at two addresses, so that an address is reused while an old
  id exists and two timers share a batch; `MaxNow = 3` ticks; `MaxSteps = 1` step back of the clock;
  `MaxPending = 1` queued functor;
  one delay and one interval.  At the last tick later instants coincide, so the queue may
  stop: deadlock is not checked.
* `relay`: four bytes from the client and one from the backend (`MaxBytes`), one byte of kernel
  buffer (`SendSpace`), a high-water mark of two: the first byte fills the kernel's buffer, the next two fill the
  output buffer to the mark, which pauses the client, and the fourth is read only if the
  drained buffer resumes it.  `MaxOrphans = 1` unreachable idle timer is enough for
  it to fire late.  The first two bytes are an HTTP head (`HeadLen = HostAt = 2`), so that it can come in
  two pieces, with the later bytes before, during or after the connect.  `Handlers` gives both classes;
  the violation runs use the load balancer's only.  Peers may stop writing and a connection may end: deadlock is not checked.
* `buffer`: one byte of prepend area, two bytes of storage, two of stack buffer (`ExtraSize`),
  `MaxReadable = 4`: `readFd` fits, fills both areas and forces growth.
* `server`: two workers, `NumFds = 3` descriptors of which one is the spare and one may be
  another thread's (`MaxForeign = 1`), `MaxConns = 3` clients: a name is reused while
  its erasure is queued, and the third client finds no descriptor.  At most two
  erasures of one name are queued.
* `health_checker`: two backends, `MaxProbes = 2`, `NumFds = 3`, `MaxForeign = 1`: a timeout and a
  write callback of one batch meet a descriptor another thread has reopened.  It never
  stops, and deadlock is checked.

Deadlock is checked in every run but those of the event loop thread (which ends), the timer queue,
the relay and the server (whose clients are bounded).

### Fairness

* `EventLoopThread!FairSpec`, `TimerQueue!FairSpec`, `Relay!FairSpec`: weak fairness of each
  thread's own steps, since the scheduler runs every thread and `epoll_wait` returns.  Clients,
  peers and spurious wakeups get none.  In TimerQueue time passes and an armed timerfd
  expires (also when time cannot pass any more, at the bound); in Relay a connect under way is accepted or refused, and peers read what is
  sent; the erasure of a closed connection needs no fairness.
* `Server!FairSpec`: the same, with strong fairness of the erasure, which is enabled
  whenever the main thread is between two calls of `handleRead`: `loop()` runs
  `doPendingFunctors` in every round.  Nothing makes a client close.
* `HealthChecker!HCFairSpec`: weak fairness of time and of the main loop.  Backends may
  never answer.

## 4. Proofs

For every value of the constants that satisfies the modules' assumptions:

* `LoadBalancerProofs`.  The invariant `LBInv` is the four invariants of the run together; it
  is inductive because `RotationInvariant` says who was served in terms of the cursor:
  `CursorIsFresh` concludes that the backend under the cursor has not been served,
  `PickPreserves` that advancing keeps the correspondence or ends the turn, and
  `FreshRotation` that it holds trivially after a change of the list.  The
  lemmas about `RemoveAt` and `Find` carry the erasures.  From the invariant follow
  `LBTypeCorrect`, `LBCursorSafe`, `LBDistinct`, `LBRotation`, and, step by step,
  the refinement `LBImplementsPool`.
* `EventLoopProofs`, for any set of threads and any number of functors.  `NoLostWakeup` is about the
  blocked owner only and is not inductive; `WakeupInv` strengthens it to the time
  from the swap to the return of `epoll_wait` (a functor pushed while others are executed
  must also have its wakeup on the way), and `LocalQueueInv` says that the local queue is empty outside
  that round.  `QueueIsFifo` needs `CountInv` (no more executed than posted).  `IInvStep` goes through the
  steps of the loop; `ThreadStepsAreLoopSteps` shows that each step of `EventLoopThread`
  is one of them or leaves the loop alone, so the theorems hold of the composed
  specification.  `LoopSafety` is the same for a loop by itself (`LoopSpec`), whose owner may also queue
  functors and quit before `loop()` (`Setup`), as the main thread does.
* `TimerQueueProofs`, for any set of addresses and any timers, delays and intervals.  `IndexesAgree` and
  `NoDanglingTimer` are about the queue and the batch, and say nothing of a Timer whose insertion is still a
  functor; `TimerInv` adds that every allocated Timer is in exactly one of the three places (`InOnePlace`), that
  sequence numbers are never given twice (`SeqsPast`: a stale id never equals a newcomer's), that the batch
  exists only while its callbacks run (`PhasesOK`), and that what was cancelled is gone or is in the batch and
  marked (`StoppedGone`).  `CancelIsFinal` needs the last: `reset` re-arms what is not marked.
  `CancelReachesItsTimer` is an action property: a Timer that still exists after an in-place cancel was marked, or
  was in the third place.  `NoWakeupIsLost` has an argument of its own on top: `Covers` compares the timerfd
  with the earliest entry; an erasure can only make the earliest later (`EarliestOfMore`), an insertion in front re-arms
  (`InsertCovers`), and where `resetTimerfd` discards an expiration nobody has read it arms again.
* `BufferProofs`, for any size of the prepend area, the vector, `readFd`'s stack buffer and the backlog.
  `OverlayProperties` says what `std::copy` does to a vector, `MakeSpaceProperties` that the readable bytes are
  the same after moving or growing, and one lemma per operation what it leaves readable; the invariant is `TypeOK`,
  `CapacityBounded` and that the prepend area lies inside the vector, without which moving would leave it.
  `BufferIsQueue` is the refinement of `ByteQueue`.
* `ServerProofs`, for any number of workers, clients and descriptors, assertions compiled in or not.  `DescriptorsOwned`
  and `MapHoldsLive` (one entry in the map for each live connection, under its own name) meet in `FdsOwned`: a
  connection owns its descriptor from `accept` to its destruction, so that at most one connection at a time goes by a name.
  `ErasuresAreTheirOwn` needs more: `RemovalsOnce` says that, until some close callback is called a second time,
  every name queued for erasure is queued once and is that of a connection whose callback was called
  (`Awaited`), and that the connection a worker has inserted and not yet established is still there
  (`InsertedWait`).  Once a callback was called twice the theorem claims nothing, and the
  second erasure may find a newcomer.
  `QueuesHoldQueued` and `EstablishingAccepted` follow a connection through the worker's functors.
  `Balanced` is not inductive: `InTurn` says that the workers up to the cursor have had one client more
  than those after it.
* `HealthCheckerProofs`, for any number of backends, probes, descriptors.  `HCInv` adds to `SocketsHeld` the shape
  of probes and descriptors, and that an event of the batch reaches only a probe still allocated: that
  the write callback's captured number is closed and given up together with the probe is
  then what each step preserves.  The checker changes the balancer through its methods only (the lemma
  `CheckerCallsMethods`, clear from the way the actions are written), so that
  `CheckedCursorSafe` carries the balancer's invariants to the composed system.
  `ProbesDoNotOverlap` needs an invariant about the order of the due timers: every pending probe's timeout is in the
  timer queue or in the running batch, exactly once (`TimersOK`); a round of checks is due only when all
  timeouts are, comes last in its batch, and finds no probe pending for a backend it has yet to probe
  (`RoundOK`).
* `RelayProofs` with `StreamProofs`, for either handler, any number of bytes, any size of the kernel's buffers
  and of the high-water mark, any `HeadLen` and `HostAt`, assertions compiled in or not.
  - One direction is the chain *read by the receiver*, *its socket*, `output_buffer_`, *in the hands of a callback*,
    *the sender's `input_buffer_`*, *the sender's socket*.  `Flow` says that each piece goes on where the one before
    it ends, the host's byte replaced in the first four, and that together they are all that was sent; of a
    receiver that is closing only what it was already given is claimed, of one that was reset only what it
    has read.  `StreamProofs` has one lemma per operation: `FlowWrite`, `FlowRead`,
    `FlowTake` (`handleRead` into the buffer), `FlowHold` (a callback takes the buffer, rewriting the head),
    `FlowSend`, `FlowFlush` (`handleWrite`), `FlowReset`, `FlowDrop`, `FlowUp`.
  - `Consistent(cs, ks, lf, hb, hf)` is the invariant of connections, sockets and lives in the middle of
    a callback that holds the bytes `hb` for the backend and `hf` for the client; between two callbacks both are empty.
    Thus `send` within `onMessage` within `handleRead` is three lemmas, not one.  Its parts: `Made` (a
    connection is untouched before it exists, and nothing is sent to a backend before its connect is complete), `Interest`
    (`WritingWhilePending`, and `PausedWillResume` without its hypothesis), `Towards` (`Flow` of both directions),
    `Answers` (before there is a backend its client was sent nothing, or the 404 only and is then closing) and
    `HeadFirst` (once the backend is up, the whole head has been passed on: later bytes are not rewritten).
  - `RelayInv` adds `Quiet` (no event is ever delivered for a connection not made or not yet accepted) and `Routed`
    (what `waiting_for_initial_data_`, the queued functors and `backend_connected_` say of the backend's connection).
    Every property of the `relay` run but its two liveness ones follows: `NothingIsLost`, `WritabilityFollowsTheBuffer`,
    `ThePausedAreResumed`, `BackendsSeeTheirHost`, `NotFoundIsAnsweredOnce`, `OneBackendIsOpened`; `NoConnectionIsRevived`,
    proved with the induction step; and `EachDirectionIsAPipe`, in which only the two steps of a peer matter
    and `NextByte` says which byte is read.
  - `RelayInv` was checked by TLC on the constants of `relay` and of `relay_assertions` before it was proved.

Attempts to prove also changed the models.  `TimerQueue.TypeOK` claimed that the timerfd is armed for a natural number:
it is not after the wall clock was set back.  `TimerAssumption` now says that the clock can advance (`MaxNow` is at
least 1).  `HealthChecker!Cancel` is written with the same erasure as the expired batch.  `Relay!FromBackend`
leaves out the proxy's response only where it is all that was sent, which is more than leaving such bytes out anywhere.
The first `Made` was not inductive: that a pending connect has neither error nor data, and that nothing was
read by a backend whose connection is not established, had to be said.

Only model-checked:

* every liveness property (temporal reasoning with fairness and ENABLED is beyond the
  prover): `FunctorsRun`, `IoHandled`, `StartLoopReturns`, `QuitStopsRunningLoop`, `TimersFire`, `BytesReachBackend`,
  `RequestReachesBackend`, `AcceptedEstablished`, `ClosedFreed`, `DownDetected`, `UpDetected`;
* `HCTypeOK`, by hand as said above; the five violations of section 6, which are not theorems.

Every safety property of a passing run is a theorem.

## 5. Not modelled

* `RouteTable`: nothing includes it.  `ConnectionHandler`: an interface.  `InetAddress`,
  `Timestamp`: values.  Logging, formatting, demos, `size_test.cpp`.
* Memory-model effects of the plain `bool quit_`, read and written by two threads: taken as atomic.
* Destructors of EventLoop, TimerQueue, Acceptor and Server at process exit.
* A wall clock that jumps forward: the timerfd, on the monotonic clock, is then late by as much,
  so timers are overdue for that long.
* The contents of requests: only the first Host line is told apart from other bytes, and
  `parseHeader` would also find a key that ends in `Host`.
* The quit of a destructor after `stop()` when the worker has already ended: `loop_ptr_` is never reset,
  so it goes through a dangling pointer; the model follows the creator up to it.
* What happens after a fault: the program's behaviour is then undefined, or it was
  killed.

## 6. Where the code and its comments disagree

1. `quit_before_loop`: `event_loop_thread.cpp:7` says that the destructor ensures the thread exits.
   `loop()` begins with `quit_ = false` (`event_loop.cpp:80`); a quit between `startLoop()`'s return and
   that line is forgotten, and `join()` never returns.
2. `relay_assertions`: `tcp_connection.cpp:24` asserts that a connection is disconnected before it is
   destroyed.  `onClose` (`load_balancer_handler.cpp:71-74`) calls `shutdown()` on the backend's connection and destroys it.
   `shutdown()` turns `kConnected` into `kDisConnecting` and does nothing to a connection still in
   `kConnecting`, which is the run's trace: the client closes before its backend accepts.  Either way
   the assertion fails, the default build type being Debug.  A second way is the erasure in
   `server.cpp:79`: when `onClose` ran before the queued `createBackendConnection` did, it destroys the connection that
   was made afterwards, together with the handler that holds it.
3. `relay_timers`: `load_balancer_handler.cpp:16` says that EventLoop and TimerQueue clean up the handler's
   timers.  They do not know the handler; its timers can fire after it is gone.  In the run's trace it is the first-byte
   timer: its insertion is still queued when it is cancelled (`timer_queue.cpp:80`), so the cancel finds
   nothing and the timer is inserted all the same.  Idle timers that `resetIdleTimer` overwrote, or that a
   connection destroyed without `onClose` left armed, do so too.
4. `relay_close`: `tcp_connection.cpp:98-101` says that the backend's close closes the client's connection.
   `shutdown()` only changes `state_`; the client stays connected.
5. `server_exhausted`: `acceptor.cpp:131` says that the spare descriptor guards against exhaustion.  `accept4`
   reports EMFILE before it looks at the queue of clients, so the loop of `handleRead` repeats
   while the table is full, and the main loop, which would erase connections and free
   descriptors, waits.

Others were met while modelling and have no run of their own:

* `server.cpp:81` asserts that an erasure finds its connection (`n == 1`).  `connectDestroyed` calls the close
  callback whenever it is called, also on a connection that is disconnected already, and one event with EPOLLERR or
  EPOLLHUP and EPOLLIN, as after a reset, calls it twice.  The second erasure then fails the assertion (with
  `Asserts = TRUE` the model reaches the fault `notErased`) or, in a build without
  assertions, when the descriptor was given to a new client in between, destroys that client's connection.
  `ErasuresFindTheirOwn` therefore holds only until a callback was called twice.
* `health_checker.cpp:54` says that the write callback means that the connect has ended.  When the timeout of the same
  batch has closed the socket, the callback runs all the same: it queries the number it captured, whoever owns it by
  now, gives a verdict that may come after that of a newer probe, and closes the number once more.  The
  model does so; `SocketsHeld` speaks of the probes' own sockets, not of the other owner's.
* `http_proxy_handler.cpp:257-261` is meant to shut the client down when the backend's connection closes,
  but `connection_callback_` is called only when a connect succeeds, and this handler sets no
  close callback: the client is never told.
* `http_proxy_handler.cpp:85` says "Send 404 and close"; `shutdown()` closes nothing (as in 4).

## 7. Plan

Done, in this order, the most load-bearing first: `LoadBalancer` and `BackendPool` with proofs;
`EventLoop`, `EventLoopThread` with proofs; `TimerQueue`; `TcpConnection`, `LoadBalancerHandler`, `Relay`
and `BytePipe`; `Buffer` and `ByteQueue`; `Server`; `HealthChecker` with proofs; `HttpProxyHandler`; then the proofs of
`Buffer`, `Server`, `TimerQueue`, the rest of `HealthChecker`, and `Relay`.

Next:

1. State which faults of `Relay` a given build can reach and prove that the others cannot occur: with assertions
   compiled out no assertion fault, and no SIGPIPE before a connection was reset.
2. Prove that a probe slot and a functor are given back (the safety half of `DownDetected` and `FunctorsRun`).
3. `HCTypeOK` as a theorem, for `HCInv` already implies most of it.

## 8. Running

    tlc -config MCRelay.cfg MCRelay.tla
    tlapm RelayProofs.tla

`PROJECT.json` pairs every run with its module, configuration and properties.
