------------------------------- MODULE Server -------------------------------
(***************************************************************************)
(* net::Server with its Acceptor and thread pool: the main thread accepts  *)
(* clients and hands each to the next worker, whose loop constructs the    *)
(* TcpConnection and puts it in connections_ under "conn_<descriptor>";    *)
(* when a connection closes, its worker asks the main loop to erase that   *)
(* name, which destroys the object and frees the descriptor for the next   *)
(* client.  Descriptors are numbers, the lowest free one is handed out,    *)
(* and there are only so many.                                             *)
(***************************************************************************)
EXTENDS Naturals, Sequences, FiniteSets

CONSTANTS
    NumWorkers,     \* size of the thread pool, 4 in the code
    NumFds,         \* the process's limit of descriptors
    MaxConns,       \* bound: clients that connect
    MaxForeign,     \* bound: descriptors other code holds at a time
    Asserts         \* TRUE: assert() is compiled in

ASSUME ServerAssumption ==
    /\ NumWorkers \in Nat \ {0} /\ NumFds \in Nat \ {0}
    /\ MaxConns \in Nat /\ MaxForeign \in Nat
    /\ Asserts \in BOOLEAN

VARIABLES
    backlog,    \* clients waiting in the listening socket's queue
    arrived,    \* number of clients so far
    main,       \* where the main thread is
    idle_fd_,   \* the spare descriptor, 0 when there is none
    next_,      \* the pool's cursor
    fds,        \* fds[f]: what descriptor f is open for
    conns,      \* conns[k]: the k-th accepted connection
    queue,      \* queue[w]: connections worker w has yet to construct
    establishing,   \* establishing[w]: the one it has inserted, or 0
    connections_,   \* connections_[f]: the connection named conn_f, or 0
    removals,   \* names removeConnection gave the main loop to erase
    repeated,   \* history: some connection's close callback was called twice
    fault

acceptVars == <<backlog, arrived, main, idle_fd_, next_>>
vars == <<acceptVars, fds, conns, queue, establishing, connections_, removals,
          repeated, fault>>

Fd == 1 .. NumFds
Id == 1 .. MaxConns
Worker == 1 .. NumWorkers

\* A connection: "handling" while a handler that closed it is still running.
ConnStates == {"none", "queued", "inserted", "established", "handling", "closed",
               "freed"}
Owners == {"free", "idle", "foreign", "conn"}

FreeFds == {f \in Fd : fds[f] = "free"}
Lowest(S) == CHOOSE f \in S : \A g \in S : f <= g
Accepted == {k \in Id : conns[k].state # "none"}
Alive == {k \in Accepted : conns[k].state # "freed"}

Init ==
    /\ backlog = 0 /\ arrived = 0
    /\ main = "start"
    /\ idle_fd_ = 1 /\ next_ = 0
    /\ fds = [f \in Fd |-> IF f = 1 THEN "idle" ELSE "free"]
    /\ conns = [k \in Id |-> [state |-> "none", fd |-> 0, loop |-> 0]]
    /\ queue = [w \in Worker |-> <<>>]
    /\ establishing = [w \in Worker |-> 0]
    /\ connections_ = [f \in Fd |-> 0]
    /\ removals = <<>> /\ repeated = FALSE
    /\ fault = "none"

-----------------------------------------------------------------------------
(* The kernel, and code outside the server that uses descriptors.          *)

ClientArrives ==
    /\ main # "start" /\ arrived < MaxConns
    /\ arrived' = arrived + 1 /\ backlog' = backlog + 1
    /\ UNCHANGED <<main, idle_fd_, next_, fds, conns, queue, establishing,
                   connections_, removals, repeated, fault>>

ForeignOpens ==
    /\ Cardinality({f \in Fd : fds[f] = "foreign"}) < MaxForeign
    /\ FreeFds # {}
    /\ fds' = [fds EXCEPT ![Lowest(FreeFds)] = "foreign"]
    /\ UNCHANGED <<acceptVars, conns, queue, establishing, connections_, removals,
                   repeated, fault>>

ForeignCloses ==
    /\ \E f \in Fd : fds[f] = "foreign" /\ fds' = [fds EXCEPT ![f] = "free"]
    /\ UNCHANGED <<acceptVars, conns, queue, establishing, connections_, removals,
                   repeated, fault>>

-----------------------------------------------------------------------------
(* The main thread.  NeverWraps, NeverAdvances, HandOverIfIdle, LeaveOpen, *)
(* LeftMapped and, below, RequestOne are not the code's: each is a mistake *)
(* the definition after it could have made.                                *)

\* getNextLoop: wrap, then use and advance.  Workers count from 1 here.
NeverWraps(n) == n + 1
NeverAdvances(n) == n % NumWorkers
AfterNextLoop(n) == (n % NumWorkers) + 1
NextLoop == (next_ % NumWorkers) + 1

\* start() has the pool's loops running before it listens; bind or listen may
\* fail, and then no client ever comes.
Listen ==
    /\ main = "start"
    /\ main' = "loop"
    /\ UNCHANGED <<backlog, arrived, idle_fd_, next_, fds, conns, queue,
                   establishing, connections_, removals, repeated, fault>>

AcceptorReady ==
    /\ main = "loop" /\ backlog > 0
    /\ main' = "accept"
    /\ UNCHANGED <<backlog, arrived, idle_fd_, next_, fds, conns, queue,
                   establishing, connections_, removals, repeated, fault>>

\* runInLoop posts the construction of k to worker w.
HandOverIfIdle(w, k) ==
    IF queue[w] = <<>> THEN [queue EXCEPT ![w] = Append(@, k)] ELSE queue
HandOver(w, k) == [queue EXCEPT ![w] = Append(@, k)]

\* accept4 returns a descriptor; newConnection queues the construction.
NewConnection ==
    /\ main = "accept" /\ FreeFds # {} /\ backlog > 0
    /\ backlog' = backlog - 1
    /\ LET f == Lowest(FreeFds)
           k == Cardinality(Accepted) + 1
       IN  /\ fds' = [fds EXCEPT ![f] = "conn"]
           /\ conns' = [conns EXCEPT ![k] =
                          [state |-> "queued", fd |-> f, loop |-> NextLoop]]
           /\ queue' = HandOver(NextLoop, k)
    /\ next_' = AfterNextLoop(next_)
    /\ UNCHANGED <<arrived, main, idle_fd_, establishing, connections_, removals,
                   repeated, fault>>

\* Any other error, as when the client is gone already, ends the loop too, and
\* epoll reports what is left of the backlog.
AcceptFails ==
    /\ main = "accept" /\ FreeFds # {} /\ backlog > 0
    /\ backlog' = backlog - 1
    /\ main' = "loop"
    /\ UNCHANGED <<arrived, idle_fd_, next_, fds, conns, queue, establishing,
                   connections_, removals, repeated, fault>>

\* EAGAIN ends the loop of handleRead.
NoMoreClients ==
    /\ main = "accept" /\ FreeFds # {} /\ backlog = 0
    /\ main' = "loop"
    /\ UNCHANGED <<backlog, arrived, idle_fd_, next_, fds, conns, queue,
                   establishing, connections_, removals, repeated, fault>>

\* EMFILE, which accept4 returns before it looks at the queue: close the spare
\* descriptor, ...
ReleaseSpare ==
    /\ main = "accept" /\ FreeFds = {}
    /\ main' = "refuse"
    /\ fds' = IF idle_fd_ = 0 THEN fds ELSE [fds EXCEPT ![idle_fd_] = "free"]
    /\ idle_fd_' = 0
    /\ UNCHANGED <<backlog, arrived, next_, conns, queue, establishing,
                   connections_, removals, repeated, fault>>

\* ... accept a client in its place and close it, ...
RefuseClient ==
    /\ main = "refuse"
    /\ main' = "reopen"
    /\ backlog' = IF FreeFds # {} /\ backlog > 0 THEN backlog - 1 ELSE backlog
    /\ UNCHANGED <<arrived, idle_fd_, next_, fds, conns, queue, establishing,
                   connections_, removals, repeated, fault>>

\* ... open the spare again, and go round the loop.
ReopenSpare ==
    /\ main = "reopen"
    /\ main' = "accept"
    /\ IF FreeFds # {}
       THEN /\ idle_fd_' = Lowest(FreeFds)
            /\ fds' = [fds EXCEPT ![Lowest(FreeFds)] = "idle"]
       ELSE UNCHANGED <<idle_fd_, fds>>
    /\ UNCHANGED <<backlog, arrived, next_, conns, queue, establishing,
                   connections_, removals, repeated, fault>>

\* The destructor closes the descriptor.
LeaveOpen(k) == fds
ClosedBy(k) == [fds EXCEPT ![conns[k].fd] = "free"]

\* erase takes the name out of the map.
LeftMapped(f) == connections_
Unmapped(f) == [connections_ EXCEPT ![f] = 0]

\* The functor removeConnection queued: connections_.erase(name).
EraseConnection ==
    /\ main = "loop" /\ removals # <<>>
    /\ removals' = Tail(removals)
    /\ LET f == Head(removals)
           k == connections_[f]
       IN  IF k = 0
           THEN /\ fault' = IF Asserts THEN "notErased" ELSE fault
                /\ UNCHANGED <<fds, conns, connections_>>
           ELSE /\ connections_' = Unmapped(f)
                /\ conns' = [conns EXCEPT ![k].state = "freed"]
                /\ fds' = ClosedBy(k)
                /\ UNCHANGED fault
    /\ UNCHANGED <<acceptVars, queue, establishing, repeated>>

-----------------------------------------------------------------------------
(* The workers.                                                            *)

\* The functor newConnection queued, up to the unlock: construct, and move
\* into connections_[name], destroying what was there.
ConstructConnection(w) ==
    /\ establishing[w] = 0 /\ queue[w] # <<>>
    /\ LET k == Head(queue[w])
           f == conns[k].fd
           old == connections_[f]
       IN  /\ queue' = [queue EXCEPT ![w] = Tail(@)]
           /\ establishing' = [establishing EXCEPT ![w] = k]
           /\ connections_' = [connections_ EXCEPT ![f] = k]
           /\ conns' = [j \in Id |->
                          IF j = k THEN [conns[j] EXCEPT !.state = "inserted"]
                          ELSE IF j = old THEN [conns[j] EXCEPT !.state = "freed"]
                          ELSE conns[j]]
           /\ fds' = IF old = 0 THEN fds ELSE ClosedBy(old)
    /\ UNCHANGED <<acceptVars, removals, repeated, fault>>

\* connections_[connName]->connectEstablished(): the map is read again, after
\* the unlock.
ConnectEstablished(w) ==
    /\ establishing[w] # 0
    /\ establishing' = [establishing EXCEPT ![w] = 0]
    /\ LET k == connections_[conns[establishing[w]].fd]
       IN  IF k = establishing[w]
           THEN conns' = [conns EXCEPT ![k].state = "established"] /\ UNCHANGED fault
           ELSE fault' = "wrongConnection" /\ UNCHANGED conns
    /\ UNCHANGED <<acceptVars, fds, queue, connections_, removals, repeated>>

\* removeConnection posts the erasure of the name to the main loop.
RequestOne(f) == IF removals = <<>> THEN <<f>> ELSE removals
Request(f) == Append(removals, f)

\* connectDestroyed calls the close callback from a handler of the connection,
\* and a connection that was reset calls it again until it is destroyed.
CloseCallback(k) ==
    /\ conns[k].state \in {"established", "handling", "closed"}
    /\ Cardinality({i \in DOMAIN removals : removals[i] = conns[k].fd}) < 2
    /\ conns' = [conns EXCEPT ![k].state = "handling"]
    /\ removals' = Request(conns[k].fd)
    /\ repeated' = (repeated \/ conns[k].state # "established")
    /\ UNCHANGED <<acceptVars, fds, queue, establishing, connections_, fault>>

HandlerReturns(k) ==
    /\ conns[k].state = "handling"
    /\ conns' = [conns EXCEPT ![k].state = "closed"]
    /\ UNCHANGED <<acceptVars, fds, queue, establishing, connections_, removals,
                   repeated, fault>>

-----------------------------------------------------------------------------
Accepting ==
    AcceptorReady \/ NewConnection \/ AcceptFails \/ NoMoreClients
        \/ ReleaseSpare \/ RefuseClient \/ ReopenSpare

WorkerStep(w) == ConstructConnection(w) \/ ConnectEstablished(w)

Next ==
    /\ fault = "none"
    /\ \/ Listen \/ ClientArrives \/ ForeignOpens \/ ForeignCloses
       \/ Accepting \/ EraseConnection
       \/ \E w \in Worker : WorkerStep(w)
       \/ \E k \in Id : CloseCallback(k) \/ HandlerReturns(k)

\* The threads keep running, and loop() runs the queued functors between two
\* calls of handleRead.
Fairness ==
    /\ WF_vars(fault = "none" /\ Accepting)
    /\ SF_vars(fault = "none" /\ EraseConnection)
    /\ \A w \in Worker : WF_vars(fault = "none" /\ WorkerStep(w))
    /\ \A k \in Id : WF_vars(fault = "none" /\ HandlerReturns(k))

Spec == Init /\ [][Next]_vars
FairSpec == Spec /\ Fairness

-----------------------------------------------------------------------------
(* Properties.                                                             *)

\* Type of the server's state.
TypeOK ==
    /\ backlog \in 0 .. MaxConns /\ arrived \in 0 .. MaxConns
    /\ main \in {"start", "loop", "accept", "refuse", "reopen"}
    /\ idle_fd_ \in 0 .. NumFds /\ next_ \in 0 .. NumWorkers
    /\ fds \in [Fd -> Owners]
    /\ conns \in [Id -> [state : ConnStates, fd : 0 .. NumFds, loop : 0 .. NumWorkers]]
    /\ queue \in [Worker -> Seq(Id)]
    /\ establishing \in [Worker -> 0 .. MaxConns]
    /\ connections_ \in [Fd -> 0 .. MaxConns]
    /\ removals \in Seq(Fd) /\ repeated \in BOOLEAN
    /\ fault \in {"none", "notErased", "wrongConnection"}

\* Every descriptor open for a client belongs to exactly one connection that
\* is queued or alive, and no such connection has lost its descriptor: none
\* leaks, none is closed twice, although names are reused as soon as a
\* descriptor is (server.cpp:43, 67, 79, tcp_connection.cpp:26-29).
DescriptorsOwned ==
    /\ \A k \in Alive : fds[conns[k].fd] = "conn"
    /\ \A f \in Fd : fds[f] = "conn" =>
          Cardinality({k \in Alive : conns[k].fd = f}) = 1
    /\ idle_fd_ # 0 => fds[idle_fd_] = "idle"

\* The map holds exactly the connections that were constructed and not
\* destroyed, each under its own name (server.cpp:65-68, 77-82).
MapHoldsLive ==
    /\ \A f \in Fd : connections_[f] # 0 =>
          /\ connections_[f] \in Alive
          /\ conns[connections_[f]].fd = f
          /\ conns[connections_[f]].state # "queued"
    /\ \A k \in Alive : conns[k].state # "queued" => connections_[conns[k].fd] = k

\* As long as no connection's close callback is called a second time, each name
\* queued for erasure still stands for a connection that closed, and for one
\* erasure only: it never finds a newcomer with the same descriptor, nor
\* nothing, as assert(n == 1) says, and no worker finds that the connection it
\* has just inserted is gone (server.cpp:43, 65-69, 77-81).  Once the callback
\* of a connection was called twice, all of it may fail.
ErasuresFindTheirOwn ==
    ~ repeated =>
        /\ \A i \in DOMAIN removals :
              /\ connections_[removals[i]] # 0
              /\ conns[connections_[removals[i]]].state \in {"handling", "closed"}
        /\ \A i, j \in DOMAIN removals : removals[i] = removals[j] => i = j
        /\ fault = "none"

\* Clients are spread evenly: no worker has had two more than another.
Given(w) == Cardinality({k \in Accepted : conns[k].loop = w})
Balanced == \A v, w \in Worker : Given(v) <= Given(w) + 1

\* Every client that is accepted is constructed and established by its worker,
\* whatever the main thread does meanwhile; the one exception is a client that
\* a stale second removal of its name destroys first (server.cpp:50-70).
AcceptedEstablished ==
    \A k \in Id : conns[k].state = "queued"
        ~> (conns[k].state \notin {"queued", "inserted"} \/ fault # "none")

\* Every connection that closes is destroyed and its descriptor freed, unless
\* the process has run out of descriptors.
ClosedFreed ==
    \A k \in Id : conns[k].state = "closed"
        ~> (conns[k].state = "freed" \/ FreeFds = {} \/ fault # "none")

\* With the spare descriptor the main thread survives running out of them:
\* "guards against exhaustion" (acceptor.cpp:131).  The main thread always
\* comes back to its loop.
AcceptLoopEnds == main = "accept" ~> (main = "loop" \/ fault # "none")
=============================================================================
