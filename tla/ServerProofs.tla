---------------------------- MODULE ServerProofs ----------------------------
(***************************************************************************)
(* For every number of workers, clients and descriptors, and whether or    *)
(* not assert() is compiled in: each accepted client owns one descriptor   *)
(* until it is destroyed, the map holds exactly the connections that were  *)
(* constructed and not destroyed, queued erasures find the connections     *)
(* they were queued for while no close callback is called twice, and the   *)
(* workers get even shares.                                                *)
(***************************************************************************)
EXTENDS Server, FiniteSetTheorems, SequenceTheorems, WellFoundedInduction, TLAPS

-----------------------------------------------------------------------------
(* The inductive invariant.                                                *)

\* Connections are numbered in the order they are accepted, and there are at
\* most as many as clients that arrived and left the backlog.
Numbered ==
    \E n \in 0 .. MaxConns : Accepted = 1 .. n /\ n + backlog <= arrived

\* A connection owns its descriptor until it is destroyed, and each
\* descriptor open for a client has one owner.
FdsOwned ==
    /\ \A k \in Accepted : conns[k].fd \in Fd
    /\ \A k \in Alive : fds[conns[k].fd] = "conn"
    /\ \A j, k \in Alive : conns[j].fd = conns[k].fd => j = k
    /\ \A f \in Fd : fds[f] = "conn" => \E k \in Alive : conns[k].fd = f
    /\ idle_fd_ # 0 => fds[idle_fd_] = "idle"

\* The functors newConnection posted are for connections that nobody has
\* constructed, each on the worker it was given to, and for each only once.
QueuesHoldQueued ==
    \A w \in Worker :
        /\ \A i \in DOMAIN queue[w] : /\ conns[queue[w][i]].state = "queued"
                                      /\ conns[queue[w][i]].loop = w
        /\ \A i, j \in DOMAIN queue[w] : queue[w][i] = queue[w][j] => i = j

EstablishingAccepted ==
    \A w \in Worker : establishing[w] # 0 => establishing[w] \in Accepted

\* Every worker up to the cursor has had one client more than those after it.
InTurn ==
    \E c \in Nat : \A w \in Worker : Given(w) = c + IF w <= next_ THEN 1 ELSE 0

ServerInv ==
    /\ TypeOK /\ Numbered /\ FdsOwned /\ MapHoldsLive
    /\ QueuesHoldQueued /\ EstablishingAccepted /\ InTurn

-----------------------------------------------------------------------------
(* Facts the steps keep needing.                                           *)

\* The kernel hands out the lowest free descriptor: there is one.
LEMMA LowestFree ==
    ASSUME FreeFds # {}
    PROVE  Lowest(FreeFds) \in Fd /\ fds[Lowest(FreeFds)] = "free"
<1>1. FreeFds \subseteq Nat
  BY ServerAssumption DEF FreeFds, Fd
<1>2. PICK f \in FreeFds : \A g \in FreeFds : ~ (<<g, f>> \in OpToRel(<, Nat))
  <2> DEFINE R == OpToRel(<, Nat)
  <2>1. IsWellFoundedOn(R, Nat)
    BY NatLessThanWellFounded
  <2> HIDE DEF R
  <2>2. \E f \in FreeFds : \A g \in FreeFds : ~ (<<g, f>> \in R)
    BY <1>1, <2>1, WFMin
  <2> QED BY <2>2 DEF R
<1>3. \A g \in FreeFds : ~ (g < f)
  BY <1>1, <1>2 DEF OpToRel
<1>4. \A g \in FreeFds : f <= g
  BY <1>1, <1>3
<1>5. Lowest(FreeFds) \in FreeFds
  BY <1>4 DEF Lowest
<1> QED BY <1>5 DEF FreeFds

\* The numbers connections and descriptors have.
LEMMA Numbers ==
    /\ NumWorkers \in Nat \ {0} /\ NumFds \in Nat \ {0} /\ MaxConns \in Nat
    /\ Id \subseteq Nat /\ 0 \notin Id /\ Fd \subseteq Nat /\ 0 \notin Fd
    /\ Worker \subseteq Nat /\ 0 \notin Worker
    /\ \A k \in 0 .. MaxConns : k # 0 => k \in Id
    /\ \A f \in 0 .. NumFds : f # 0 => f \in Fd
BY ServerAssumption DEF Id, Fd, Worker

ConnShape == [state : ConnStates, fd : 0 .. NumFds, loop : 0 .. NumWorkers]

\* A step that only moves connections that were constructed from one stage of
\* their life to the next disturbs none of the books.
LEMMA SameStages ==
    ASSUME ServerInv, conns' \in [Id -> ConnShape],
           \A j \in Id : /\ conns'[j].fd = conns[j].fd
                         /\ conns'[j].loop = conns[j].loop
                         /\ \A st \in {"none", "queued", "freed"} :
                               conns'[j].state = st <=> conns[j].state = st
    PROVE  /\ Accepted' = Accepted /\ Alive' = Alive
           /\ UNCHANGED <<backlog, arrived>> => Numbered'
           /\ UNCHANGED <<fds, idle_fd_>> => FdsOwned'
           /\ UNCHANGED connections_ => MapHoldsLive'
           /\ UNCHANGED queue => QueuesHoldQueued'
           /\ UNCHANGED next_ => InTurn'
<1>1. Accepted' = Accepted
  BY DEF Accepted
<1>2. Alive' = Alive
  BY <1>1 DEF Alive, Accepted
<1>3. Accepted \subseteq Id /\ Alive \subseteq Id
  BY DEF Accepted, Alive
<1>4. UNCHANGED <<backlog, arrived>> => Numbered'
  BY <1>1 DEF ServerInv, Numbered
<1>5. UNCHANGED <<fds, idle_fd_>> => FdsOwned'
  BY <1>1, <1>2, <1>3 DEF ServerInv, FdsOwned
<1>6. UNCHANGED connections_ => MapHoldsLive'
  <2> SUFFICES ASSUME UNCHANGED connections_ PROVE MapHoldsLive'
    OBVIOUS
  <2>1. ASSUME NEW f \in Fd, connections_[f] # 0
        PROVE  /\ connections_[f] \in Alive
               /\ conns'[connections_[f]].fd = f
               /\ conns'[connections_[f]].state # "queued"
    BY <1>3, <2>1 DEF ServerInv, MapHoldsLive
  <2>2. ASSUME NEW k \in Alive, conns'[k].state # "queued"
        PROVE  connections_[conns'[k].fd] = k
    BY <1>3, <2>2 DEF ServerInv, MapHoldsLive
  <2> QED BY <1>2, <2>1, <2>2 DEF MapHoldsLive
<1>7. UNCHANGED queue => QueuesHoldQueued'
  <2> SUFFICES ASSUME UNCHANGED queue PROVE QueuesHoldQueued'
    OBVIOUS
  <2>1. ASSUME NEW w \in Worker, NEW i \in DOMAIN queue[w]
        PROVE  queue[w][i] \in Id
    BY <2>1, ElementOfSeq, LenProperties DEF ServerInv, TypeOK
  <2> QED BY <2>1 DEF ServerInv, QueuesHoldQueued
<1>8. UNCHANGED next_ => InTurn'
  <2>1. \A w \in Worker : Given(w)' = Given(w)
    BY <1>1, <1>3 DEF Given
  <2> QED BY <2>1 DEF ServerInv, InTurn
<1> QED BY <1>1, <1>2, <1>4, <1>5, <1>6, <1>7, <1>8

\* A step that changes no connection, map or queue keeps what is said of them.
LEMMA SameConns ==
    ASSUME ServerInv, UNCHANGED conns
    PROVE  /\ Accepted' = Accepted /\ Alive' = Alive
           /\ UNCHANGED <<backlog, arrived>> => Numbered'
           /\ UNCHANGED <<fds, idle_fd_>> => FdsOwned'
           /\ UNCHANGED connections_ => MapHoldsLive'
           /\ UNCHANGED queue => QueuesHoldQueued'
           /\ UNCHANGED next_ => InTurn'
           /\ UNCHANGED establishing => EstablishingAccepted'
<1>1. conns \in [Id -> ConnShape]
  BY DEF ServerInv, TypeOK, ConnShape
<1>2. Accepted' = Accepted
  BY DEF Accepted
<1>3. UNCHANGED establishing => EstablishingAccepted'
  BY <1>2 DEF ServerInv, EstablishingAccepted
<1> QED BY <1>1, <1>3, SameStages

\* Closing a descriptor no connection owns, or opening one for other code.
LEMMA OtherDescriptor ==
    ASSUME ServerInv, UNCHANGED conns, NEW f \in Fd, fds[f] # "conn",
           NEW o \in Owners \ {"conn"}, fds' = [fds EXCEPT ![f] = o],
           idle_fd_' # 0 => fds'[idle_fd_'] = "idle"
    PROVE  FdsOwned' /\ fds' \in [Fd -> Owners]
<1>1. fds \in [Fd -> Owners]
  BY DEF ServerInv, TypeOK
<1>2. Accepted' = Accepted /\ Alive' = Alive /\ Alive \subseteq Accepted
  BY SameConns DEF Alive
<1>3. \A g \in Fd : fds'[g] = "conn" <=> fds[g] = "conn"
  BY <1>1
<1> QED BY <1>1, <1>2, <1>3 DEF ServerInv, FdsOwned

-----------------------------------------------------------------------------
(* The steps.                                                              *)

\* Before the first connection there is nothing to keep in order.
LEMMA ServerInit == Init => ServerInv
<1> SUFFICES ASSUME Init PROVE ServerInv
  OBVIOUS
<1>1. TypeOK
  <2>1. conns \in [Id -> ConnShape] /\ fds \in [Fd -> Owners]
    BY Numbers DEF Init, ConnShape, Owners, ConnStates
  <2>2. removals \in Seq(Fd) /\ repeated \in BOOLEAN
    BY EmptySeq DEF Init
  <2>3. /\ queue \in [Worker -> Seq(Id)] /\ establishing \in [Worker -> 0 .. MaxConns]
        /\ connections_ \in [Fd -> 0 .. MaxConns]
    BY Numbers, EmptySeq DEF Init
  <2> QED BY <2>1, <2>2, <2>3, Numbers DEF Init, TypeOK, ConnShape
<1>2. Accepted = {} /\ Alive = {}
  BY DEF Init, Accepted, Alive
<1>3. Numbered
  <2>1. Accepted = 1 .. 0 /\ 0 \in 0 .. MaxConns /\ 0 + backlog <= arrived
    BY <1>2, Numbers DEF Init
  <2> QED BY <2>1 DEF Numbered
<1>4. FdsOwned /\ MapHoldsLive
  BY <1>2, Numbers DEF Init, FdsOwned, MapHoldsLive
<1>5. QueuesHoldQueued /\ EstablishingAccepted
  BY DEF Init, QueuesHoldQueued, EstablishingAccepted
<1>6. InTurn
  <2>1. ASSUME NEW w \in Worker PROVE Given(w) = 0 + IF w <= next_ THEN 1 ELSE 0
    <3>1. {k \in Accepted : conns[k].loop = w} = {}
      BY <1>2
    <3>2. Given(w) = 0
      BY <3>1, FS_EmptySet DEF Given
    <3>3. ~ (w <= next_)
      BY Numbers DEF Init
    <3> QED BY <3>2, <3>3
  <2> QED BY <2>1 DEF InTurn
<1> QED BY <1>1, <1>3, <1>4, <1>5, <1>6 DEF ServerInv

\* Steps of the kernel, of other code and of the main thread that touch no
\* connection.
LEMMA OtherStep ==
    ASSUME ServerInv,
           Listen \/ ClientArrives \/ ForeignOpens \/ ForeignCloses \/ AcceptorReady
             \/ AcceptFails \/ NoMoreClients \/ ReleaseSpare \/ RefuseClient
             \/ ReopenSpare
    PROVE  ServerInv'
<1>1. TypeOK
  BY DEF ServerInv
<1>2. /\ UNCHANGED conns /\ UNCHANGED connections_ /\ UNCHANGED queue
      /\ UNCHANGED next_ /\ UNCHANGED establishing
      /\ UNCHANGED <<removals, repeated, fault>>
  BY DEF Listen, ClientArrives, ForeignOpens, ForeignCloses, AcceptorReady,
         AcceptFails, NoMoreClients, ReleaseSpare, RefuseClient, ReopenSpare,
         acceptVars
<1>3. /\ Accepted' = Accepted
      /\ MapHoldsLive' /\ QueuesHoldQueued' /\ EstablishingAccepted' /\ InTurn'
  BY <1>2, SameConns
<1>4. /\ backlog' \in 0 .. MaxConns /\ arrived' \in 0 .. MaxConns
      /\ backlog' + arrived <= backlog + arrived'
  <2>1. backlog \in 0 .. MaxConns /\ arrived \in 0 .. MaxConns /\ backlog <= arrived
    <3>1. PICK n \in 0 .. MaxConns : Accepted = 1 .. n /\ n + backlog <= arrived
      BY DEF ServerInv, Numbered
    <3> QED BY <1>1, <3>1 DEF TypeOK
  <2>2. CASE UNCHANGED <<backlog, arrived>>
    BY <2>1, <2>2
  <2>3. CASE ClientArrives
    BY <2>1, <2>3, Numbers DEF ClientArrives
  <2>4. CASE AcceptFails \/ RefuseClient
    BY <2>1, <2>4, Numbers DEF AcceptFails, RefuseClient
  <2> QED BY <2>2, <2>3, <2>4
          DEF Listen, ForeignOpens, ForeignCloses, AcceptorReady, NoMoreClients,
              ReleaseSpare, ReopenSpare, acceptVars
<1>5. Numbered'
  <2>1. PICK n \in 0 .. MaxConns : Accepted = 1 .. n /\ n + backlog <= arrived
    BY DEF ServerInv, Numbered
  <2>2. n + backlog' <= arrived'
    <3>1. /\ backlog \in Nat /\ arrived \in Nat /\ n \in Nat
          /\ backlog' \in Nat /\ arrived' \in Nat
      BY <1>1, <1>4, Numbers DEF TypeOK
    <3>2. n + backlog <= arrived
      BY <2>1
    <3>3. backlog' + arrived <= backlog + arrived'
      BY <1>4
    <3> DEFINE a == arrived
               aa == arrived'
               b == backlog
               bb == backlog'
    <3>4. /\ b \in Nat /\ a \in Nat /\ n \in Nat /\ bb \in Nat /\ aa \in Nat
          /\ n + b <= a /\ bb + a <= b + aa
      BY <3>1, <3>2, <3>3
    <3> HIDE DEF a, aa, b, bb
    <3>5. n + bb <= aa
      BY <3>4
    <3> QED BY <3>5 DEF aa, bb
  <2> QED BY <1>3, <2>1, <2>2 DEF Numbered
<1>6. FdsOwned' /\ fds' \in [Fd -> Owners] /\ idle_fd_' \in 0 .. NumFds
  <2>1. CASE UNCHANGED <<fds, idle_fd_>>
    BY <1>1, <1>2, <2>1, SameConns DEF TypeOK
  <2>2. CASE ForeignOpens
    <3>1. /\ Lowest(FreeFds) \in Fd /\ fds[Lowest(FreeFds)] = "free"
          /\ fds' = [fds EXCEPT ![Lowest(FreeFds)] = "foreign"]
          /\ UNCHANGED idle_fd_
      BY <2>2, LowestFree DEF ForeignOpens, acceptVars
    <3>2. idle_fd_' # 0 => fds'[idle_fd_'] = "idle"
      BY <1>1, <3>1, Numbers DEF ServerInv, FdsOwned, TypeOK
    <3>3. "foreign" \in Owners \ {"conn"}
      BY DEF Owners
    <3> QED BY <1>1, <1>2, <3>1, <3>2, <3>3, OtherDescriptor DEF TypeOK
  <2>3. CASE ForeignCloses
    <3>1. PICK f \in Fd : fds[f] = "foreign" /\ fds' = [fds EXCEPT ![f] = "free"]
      BY <2>3 DEF ForeignCloses
    <3>2. UNCHANGED idle_fd_
      BY <2>3 DEF ForeignCloses, acceptVars
    <3>3. idle_fd_' # 0 => fds'[idle_fd_'] = "idle"
      BY <1>1, <3>1, <3>2, Numbers DEF ServerInv, FdsOwned, TypeOK
    <3>4. "free" \in Owners \ {"conn"} /\ fds[f] # "conn"
      BY <3>1 DEF Owners
    <3> QED BY <1>1, <1>2, <3>1, <3>2, <3>3, <3>4, OtherDescriptor DEF TypeOK
  <2>4. CASE ReleaseSpare
    <3>1. idle_fd_' = 0 /\ 0 \in 0 .. NumFds
      BY <2>4, Numbers DEF ReleaseSpare
    <3>2. CASE idle_fd_ = 0
      <4>1. UNCHANGED <<fds, idle_fd_>>
        BY <2>4, <3>1, <3>2 DEF ReleaseSpare
      <4> QED BY <2>1, <4>1
    <3>3. CASE idle_fd_ # 0
      <4>1. /\ idle_fd_ \in Fd /\ fds[idle_fd_] # "conn"
            /\ fds' = [fds EXCEPT ![idle_fd_] = "free"]
            /\ "free" \in Owners \ {"conn"}
        BY <1>1, <2>4, <3>3, Numbers
           DEF ReleaseSpare, ServerInv, FdsOwned, TypeOK, Owners
      <4> QED BY <1>2, <3>1, <4>1, OtherDescriptor
    <3> QED BY <3>2, <3>3
  <2>5. CASE ReopenSpare /\ FreeFds # {}
    <3>1. /\ Lowest(FreeFds) \in Fd /\ fds[Lowest(FreeFds)] = "free"
          /\ fds' = [fds EXCEPT ![Lowest(FreeFds)] = "idle"]
          /\ idle_fd_' = Lowest(FreeFds)
      BY <2>5, LowestFree DEF ReopenSpare
    <3>2. /\ fds'[idle_fd_'] = "idle" /\ "idle" \in Owners \ {"conn"}
          /\ idle_fd_' \in 0 .. NumFds
      BY <1>1, <3>1, Numbers DEF TypeOK, Owners, Fd
    <3> QED BY <1>2, <3>1, <3>2, OtherDescriptor
  <2> QED BY <2>1, <2>2, <2>3, <2>4, <2>5
          DEF Listen, ClientArrives, AcceptorReady, AcceptFails, NoMoreClients,
              RefuseClient, ReopenSpare, acceptVars
<1>7. main' \in {"start", "loop", "accept", "refuse", "reopen"}
  BY <1>1 DEF TypeOK, Listen, ClientArrives, ForeignOpens, ForeignCloses,
              AcceptorReady, AcceptFails, NoMoreClients, ReleaseSpare, RefuseClient,
              ReopenSpare, acceptVars
<1>8. TypeOK'
  BY <1>1, <1>2, <1>4, <1>6, <1>7 DEF TypeOK
<1> QED BY <1>3, <1>5, <1>6, <1>8 DEF ServerInv

\* The next worker is the one after the last, and after the last worker the
\* first.
LEMMA CursorTurns ==
    ASSUME next_ \in 0 .. NumWorkers
    PROVE  /\ NextLoop \in Worker /\ AfterNextLoop(next_) = NextLoop
           /\ NextLoop = IF next_ = NumWorkers THEN 1 ELSE next_ + 1
<1> DEFINE N == NumWorkers
<1>1. N \in Nat \ {0} /\ next_ \in 0 .. N
  BY Numbers
<1>2. next_ % N = IF next_ = N THEN 0 ELSE next_
  <2> HIDE DEF N
  <2>1. CASE next_ = N
    <3>1. N % N = 0
      BY <1>1
    <3> QED BY <2>1, <3>1
  <2>2. CASE next_ # N
    <3>1. next_ \in Nat /\ next_ < N
      BY <1>1, <2>2
    <3> QED BY <1>1, <2>2, <3>1
  <2> QED BY <2>1, <2>2
<1>3. NextLoop = IF next_ = N THEN 1 ELSE next_ + 1
  BY <1>1, <1>2 DEF NextLoop
<1> QED BY <1>1, <1>3 DEF NextLoop, AfterNextLoop, Worker

\* newConnection: accepted, entered in the map, its functor queued.
LEMMA NewConnectionStep ==
    ASSUME ServerInv, NewConnection
    PROVE  ServerInv'
<1>1. TypeOK
  BY DEF ServerInv
<1> DEFINE f == Lowest(FreeFds)
<1>2. f \in Fd /\ fds[f] = "free" /\ f # 0 /\ f \in 0 .. NumFds
  BY LowestFree, Numbers DEF NewConnection, Fd
<1>3. PICK n \in 0 .. MaxConns : Accepted = 1 .. n /\ n + backlog <= arrived
  BY DEF ServerInv, Numbered
<1> DEFINE k == n + 1
<1>4. /\ Cardinality(Accepted) = n /\ n \in Nat
      /\ k \in Id /\ k \notin Accepted /\ k # 0 /\ k <= MaxConns /\ k \in 1 .. MaxConns
      /\ backlog' = backlog - 1 /\ k + backlog' <= arrived
  <2>1. n \in Nat /\ Cardinality(1 .. n) = n
    <3>1. n \in Nat
      BY Numbers
    <3>2. Cardinality(1 .. n) = IF 1 > n THEN 0 ELSE n - 1 + 1
      BY <3>1, FS_Interval
    <3> QED BY <3>1, <3>2
  <2>2. /\ backlog \in Nat /\ backlog > 0 /\ backlog' = backlog - 1
        /\ arrived \in Nat /\ arrived <= MaxConns
    BY <1>1, Numbers DEF TypeOK, NewConnection
  <2> QED BY <1>3, <2>1, <2>2, Numbers DEF Id
<1> DEFINE w == NextLoop
           new == [state |-> "queued", fd |-> f, loop |-> w]
<1>5. /\ fds' = [fds EXCEPT ![f] = "conn"]
      /\ conns' = [conns EXCEPT ![k] = new]
      /\ queue' = [queue EXCEPT ![w] = Append(@, k)]
      /\ next_' = w /\ w \in Worker /\ w \in 0 .. NumWorkers
      /\ w = IF next_ = NumWorkers THEN 1 ELSE next_ + 1
      /\ UNCHANGED <<arrived, main, idle_fd_, establishing, connections_, removals,
                     repeated, fault>>
  BY <1>1, <1>4, CursorTurns DEF NewConnection, HandOver, TypeOK, Worker
<1>6. new \in ConnShape
  BY <1>2, <1>5 DEF ConnShape, ConnStates
<1> HIDE DEF f, w, k
<1>7. /\ conns \in [Id -> ConnShape] /\ fds \in [Fd -> Owners]
      /\ conns[k].state = "none"
      /\ queue \in [Worker -> Seq(Id)]
  BY <1>1, <1>4 DEF TypeOK, ConnShape, Accepted
<1>8. /\ conns' \in [Id -> ConnShape] /\ fds' \in [Fd -> Owners]
      /\ conns'[k].state = "queued" /\ conns'[k].fd = f /\ conns'[k].loop = w
      /\ \A j \in Id \ {k} : conns'[j] = conns[j]
      /\ fds'[f] = "conn" /\ \A g \in Fd \ {f} : fds'[g] = fds[g]
  BY <1>2, <1>4, <1>5, <1>6, <1>7 DEF Owners
<1> HIDE DEF new
<1>9. /\ Accepted' = Accepted \cup {k} /\ Alive' = Alive \cup {k}
      /\ Alive \subseteq Accepted /\ Accepted \subseteq Id
  <2>1. Accepted' = Accepted \cup {k} /\ Accepted \subseteq Id
    <3>1. \A j \in Id : conns'[j].state # "none" <=> conns[j].state # "none" \/ j = k
      BY <1>8
    <3>2. k \in Id
      BY <1>4
    <3> QED BY <3>1, <3>2 DEF Accepted
  <2>2. Alive' = Alive \cup {k}
    <3>1. conns'[k].state # "freed" /\ \A j \in Accepted : conns'[j] = conns[j]
      BY <1>4, <1>8, <2>1
    <3> QED BY <2>1, <3>1 DEF Alive
  <2> QED BY <2>1, <2>2 DEF Alive
<1>10. TypeOK'
  <2>1. queue' \in [Worker -> Seq(Id)]
    <3>1. queue[w] \in Seq(Id)
      BY <1>5, <1>7
    <3>2. Append(queue[w], k) \in Seq(Id)
      BY <1>4, <3>1, AppendProperties
    <3> QED BY <1>5, <1>7, <3>2
  <2>2. backlog' \in 0 .. MaxConns
    <3>1. backlog \in 0 .. MaxConns /\ backlog > 0 /\ backlog' = backlog - 1
      BY <1>1, <1>4 DEF TypeOK, NewConnection
    <3> QED BY <3>1, Numbers
  <2> QED BY <1>1, <1>5, <1>8, <2>1, <2>2 DEF TypeOK, ConnShape
<1>11. Numbered'
  <2>1. Accepted' = 1 .. k /\ k \in 0 .. MaxConns
    <3>1. Accepted' = (1 .. n) \cup {n + 1}
      BY <1>3, <1>9 DEF k
    <3>2. (1 .. n) \cup {n + 1} = 1 .. n + 1
      BY <1>4
    <3> QED BY <1>4, <3>1, <3>2 DEF k
  <2> QED BY <1>4, <1>5, <2>1 DEF Numbered
<1>12. FdsOwned'
  <2>1. \A j \in Alive : conns[j].fd # f
    BY <1>2 DEF ServerInv, FdsOwned
  <2>2. \A j \in Accepted' : conns'[j].fd \in Fd
    BY <1>2, <1>4, <1>8, <1>9 DEF ServerInv, FdsOwned
  <2>3. \A j \in Alive' : fds'[conns'[j].fd] = "conn"
    BY <1>4, <1>8, <1>9, <2>1 DEF ServerInv, FdsOwned
  <2>4. \A i, j \in Alive' : conns'[i].fd = conns'[j].fd => i = j
    BY <1>4, <1>8, <1>9, <2>1 DEF ServerInv, FdsOwned
  <2>5. ASSUME NEW g \in Fd, fds'[g] = "conn"
        PROVE  \E j \in Alive' : conns'[j].fd = g
    <3>1. CASE g = f
      BY <1>8, <1>9, <3>1
    <3>2. CASE g # f
      <4>1. PICK j \in Alive : conns[j].fd = g
        BY <1>8, <2>5, <3>2 DEF ServerInv, FdsOwned
      <4>2. j \in Alive' /\ conns'[j].fd = g
        BY <1>4, <1>8, <1>9, <4>1
      <4> QED BY <4>2
    <3> QED BY <3>1, <3>2
  <2>6. idle_fd_' # 0 => fds'[idle_fd_'] = "idle"
    BY <1>1, <1>2, <1>5, <1>8, Numbers DEF ServerInv, FdsOwned, TypeOK
  <2> QED BY <2>2, <2>3, <2>4, <2>5, <2>6 DEF FdsOwned
<1>13. MapHoldsLive'
  <2>1. ASSUME NEW g \in Fd, connections_[g] # 0
        PROVE  /\ connections_[g] \in Alive' /\ conns'[connections_[g]].fd = g
               /\ conns'[connections_[g]].state # "queued"
    <3>1. /\ connections_[g] \in Alive /\ conns[connections_[g]].fd = g
          /\ conns[connections_[g]].state # "queued"
      BY <2>1 DEF ServerInv, MapHoldsLive
    <3> QED BY <1>4, <1>8, <1>9, <3>1
  <2>2. ASSUME NEW j \in Alive', conns'[j].state # "queued"
        PROVE  connections_[conns'[j].fd] = j
    <3>1. j \in Alive /\ j # k
      BY <1>8, <1>9, <2>2
    <3> QED BY <1>8, <1>9, <2>2, <3>1 DEF ServerInv, MapHoldsLive
  <2> QED BY <1>5, <2>1, <2>2 DEF MapHoldsLive
<1>14. QueuesHoldQueued'
  <2> SUFFICES ASSUME NEW v \in Worker
               PROVE  /\ \A i \in DOMAIN queue'[v] :
                            /\ conns'[queue'[v][i]].state = "queued"
                            /\ conns'[queue'[v][i]].loop = v
                      /\ \A i, j \in DOMAIN queue'[v] :
                            queue'[v][i] = queue'[v][j] => i = j
    BY DEF QueuesHoldQueued
  <2>1. \A i \in DOMAIN queue[v] : queue[v][i] \in Id /\ queue[v][i] # k
    <3> SUFFICES ASSUME NEW i \in DOMAIN queue[v]
                 PROVE  queue[v][i] \in Id /\ queue[v][i] # k
      OBVIOUS
    <3>1. queue[v][i] \in Id
      BY <1>7, ElementOfSeq, LenProperties
    <3>2. conns[queue[v][i]].state = "queued"
      BY DEF ServerInv, QueuesHoldQueued
    <3> QED BY <1>7, <3>1, <3>2
  <2>2. /\ \A i \in DOMAIN queue[v] :
              /\ conns'[queue[v][i]].state = "queued"
              /\ conns'[queue[v][i]].loop = v
        /\ \A i, j \in DOMAIN queue[v] : queue[v][i] = queue[v][j] => i = j
    BY <1>8, <2>1 DEF ServerInv, QueuesHoldQueued
  <2>3. CASE v # w
    BY <1>5, <1>7, <2>2, <2>3
  <2>4. CASE v = w
    <3> DEFINE q == queue[v]
               m == Len(q) + 1
    <3>1. q \in Seq(Id) /\ Len(q) \in Nat /\ DOMAIN q = 1 .. Len(q)
      BY <1>7, LenProperties
    <3>2. queue'[v] = Append(q, k)
      BY <1>5, <1>7, <2>4
    <3>3. /\ Append(q, k) \in Seq(Id) /\ Len(Append(q, k)) = m
          /\ \A i \in 1 .. Len(q) : Append(q, k)[i] = q[i]
          /\ Append(q, k)[m] = k
      BY <1>4, <3>1, AppendProperties
    <3>4. DOMAIN queue'[v] = (DOMAIN q) \cup {m} /\ m \notin DOMAIN q
      <4>1. DOMAIN queue'[v] = 1 .. m
        BY <3>2, <3>3, LenProperties
      <4> QED BY <3>1, <4>1
    <3>5. /\ \A i \in DOMAIN q : queue'[v][i] = queue[v][i]
          /\ queue'[v][m] = k
      BY <3>1, <3>2, <3>3
    <3> HIDE DEF m, q
    <3>6. DOMAIN q = DOMAIN queue[v]
      BY DEF q
    <3> QED BY <1>8, <2>1, <2>2, <2>4, <3>4, <3>5, <3>6
  <2> QED BY <2>3, <2>4
<1>15. EstablishingAccepted'
  BY <1>5, <1>9 DEF ServerInv, EstablishingAccepted
<1>16. InTurn'
  <2> DEFINE S(v) == {j \in Accepted : conns[j].loop = v}
  <2>1. \A v \in Worker : Given(v) = Cardinality(S(v)) /\ IsFiniteSet(S(v))
    <3>1. IsFiniteSet(Accepted)
      BY <1>3, <1>4, FS_Interval
    <3>2. \A v : S(v) \in SUBSET Accepted
      OBVIOUS
    <3> QED BY <3>1, <3>2, FS_Subset DEF Given
  <2>7. conns'[k].loop = w /\ \A j \in Accepted : j # k /\ conns'[j].loop = conns[j].loop
    BY <1>4, <1>8, <1>9
  <2>2. ASSUME NEW v \in Worker
        PROVE  Given(v)' = IF v = w THEN Given(v) + 1 ELSE Given(v)
    <3>1. CASE v = w
      <4>1. {j \in Accepted' : conns'[j].loop = v} = S(v) \cup {k} /\ k \notin S(v)
        BY <1>4, <1>9, <2>7, <3>1
      <4>2. Cardinality(S(v) \cup {k}) = Cardinality(S(v)) + 1
        <5> HIDE DEF S
        <5> QED BY <2>1, <4>1, FS_AddElement
      <4>3. Given(v)' = Cardinality({j \in Accepted' : conns'[j].loop = v})
        BY DEF Given
      <4> QED BY <2>1, <3>1, <4>1, <4>2, <4>3
    <3>2. CASE v # w
      <4>1. {j \in Accepted' : conns'[j].loop = v} = S(v)
        BY <1>9, <2>7, <3>2
      <4>2. Given(v)' = Cardinality({j \in Accepted' : conns'[j].loop = v})
        BY DEF Given
      <4> QED BY <2>1, <3>2, <4>1, <4>2
    <3> QED BY <3>1, <3>2
  <2>3. PICK c \in Nat : \A v \in Worker : Given(v) = c + IF v <= next_ THEN 1 ELSE 0
    BY DEF ServerInv, InTurn
  <2>4. next_ \in 0 .. NumWorkers /\ NumWorkers \in Nat \ {0}
    BY <1>1, Numbers DEF TypeOK
  <2> DEFINE d == IF next_ = NumWorkers THEN c + 1 ELSE c
  <2>5. ASSUME NEW v \in Worker
        PROVE  Given(v)' = d + IF v <= next_' THEN 1 ELSE 0
    <3>1. v \in Nat /\ 1 <= v /\ v <= NumWorkers
      BY <2>4 DEF Worker
    <3> QED BY <1>5, <2>2, <2>3, <2>4, <3>1
  <2>6. d \in Nat
    BY <2>3
  <2> QED BY <2>5, <2>6 DEF InTurn
<1> QED BY <1>10, <1>11, <1>12, <1>13, <1>14, <1>15, <1>16 DEF ServerInv

\* Erasing a name destroys the connection that has it, and frees the
\* descriptor that was its own.
LEMMA EraseStep ==
    ASSUME ServerInv, EraseConnection
    PROVE  ServerInv'
<1>1. TypeOK
  BY DEF ServerInv
<1> DEFINE f == Head(removals)
           k == connections_[f]
<1>2. f \in Fd /\ k \in 0 .. MaxConns /\ removals' \in Seq(Fd)
  <2>1. removals \in Seq(Fd) /\ removals # <<>>
    BY <1>1 DEF TypeOK, EraseConnection
  <2>2. Head(removals) \in Fd /\ Tail(removals) \in Seq(Fd)
    BY <2>1, HeadTailProperties
  <2> QED BY <1>1, <2>2 DEF TypeOK, EraseConnection
<1>3. /\ UNCHANGED <<backlog, arrived>> /\ UNCHANGED <<main, idle_fd_>>
      /\ UNCHANGED next_ /\ UNCHANGED queue /\ UNCHANGED <<establishing, repeated>>
  BY DEF EraseConnection, acceptVars
<1>4. CASE k = 0
  <2>1. /\ UNCHANGED conns /\ UNCHANGED connections_ /\ UNCHANGED <<fds, idle_fd_>>
        /\ fault' \in {"notErased", fault}
    BY <1>3, <1>4 DEF EraseConnection
  <2>2. TypeOK'
    BY <1>1, <1>2, <1>3, <2>1 DEF TypeOK
  <2> QED BY <1>3, <2>1, <2>2, SameConns DEF ServerInv
<1>5. CASE k # 0
  <2>1. /\ connections_' = [connections_ EXCEPT ![f] = 0]
        /\ conns' = [conns EXCEPT ![k].state = "freed"]
        /\ fds' = [fds EXCEPT ![conns[k].fd] = "free"]
        /\ UNCHANGED fault
    BY <1>5 DEF EraseConnection, Unmapped, ClosedBy
  <2> HIDE DEF f
  <2>2. /\ k \in Id /\ k \in Alive /\ k \in Accepted
        /\ conns[k].fd = f /\ conns[k].state # "queued"
        /\ Accepted \subseteq Id /\ Alive \subseteq Accepted
    BY <1>2, <1>5, Numbers DEF ServerInv, MapHoldsLive, Alive, Accepted
  <2>3. /\ conns \in [Id -> ConnShape] /\ fds \in [Fd -> Owners]
        /\ connections_ \in [Fd -> 0 .. MaxConns]
    BY <1>1 DEF TypeOK, ConnShape
  <2> HIDE DEF k
  <2>4. /\ conns' \in [Id -> ConnShape] /\ fds' \in [Fd -> Owners]
        /\ connections_' \in [Fd -> 0 .. MaxConns]
        /\ conns'[k].state = "freed" /\ conns'[k].fd = f
        /\ conns'[k].loop = conns[k].loop
        /\ \A j \in Id \ {k} : conns'[j] = conns[j]
        /\ fds'[f] = "free" /\ \A g \in Fd \ {f} : fds'[g] = fds[g]
        /\ connections_'[f] = 0
        /\ \A g \in Fd \ {f} : connections_'[g] = connections_[g]
    <3>1. conns[k] \in ConnShape /\ f \in 0 .. NumFds /\ "freed" \in ConnStates
      BY <1>1, <2>2, <2>3 DEF ConnStates, ConnShape
    <3>2. conns'[k] = [conns[k] EXCEPT !.state = "freed"] /\ conns'[k] \in ConnShape
      BY <2>1, <2>2, <2>3, <3>1 DEF ConnShape
    <3>3. conns' \in [Id -> ConnShape] /\ \A j \in Id \ {k} : conns'[j] = conns[j]
      BY <2>1, <2>2, <2>3, <3>2
    <3>4. /\ conns'[k].state = "freed" /\ conns'[k].fd = f
          /\ conns'[k].loop = conns[k].loop
      BY <2>2, <3>1, <3>2 DEF ConnShape
    <3>5. /\ fds' \in [Fd -> Owners]
          /\ fds'[f] = "free" /\ \A g \in Fd \ {f} : fds'[g] = fds[g]
      BY <1>2, <2>1, <2>2, <2>3 DEF Owners
    <3>6. /\ connections_' \in [Fd -> 0 .. MaxConns]
          /\ connections_'[f] = 0
          /\ \A g \in Fd \ {f} : connections_'[g] = connections_[g]
      BY <1>2, <2>1, <2>3, Numbers
    <3> QED BY <3>3, <3>4, <3>5, <3>6
  <2>5. /\ Accepted' = Accepted /\ Alive' = Alive \ {k}
        /\ \A j \in Id : conns'[j].fd = conns[j].fd /\ conns'[j].loop = conns[j].loop
    <3>1. \A j \in Id : conns'[j].fd = conns[j].fd /\ conns'[j].loop = conns[j].loop
      BY <2>2, <2>4
    <3>2. \A j \in Id : conns'[j].state = "none" <=> conns[j].state = "none"
      BY <2>2, <2>4 DEF Alive, Accepted
    <3>3. Accepted' = Accepted
      BY <3>2 DEF Accepted
    <3>4. \A j \in Accepted : conns'[j].state = "freed" <=> conns[j].state = "freed" \/ j = k
      BY <2>2, <2>4
    <3> QED BY <3>1, <3>3, <3>4 DEF Alive
  <2>6. TypeOK'
    BY <1>1, <1>2, <1>3, <2>1, <2>4 DEF TypeOK, ConnShape
  <2>7. Numbered'
    BY <1>3, <2>5 DEF ServerInv, Numbered
  <2>8. FdsOwned'
    <3>1. \A j \in Alive' : conns[j].fd # f
      BY <2>2, <2>5 DEF ServerInv, FdsOwned
    <3>2. \A j \in Accepted' : conns'[j].fd \in Fd
      BY <2>2, <2>5 DEF ServerInv, FdsOwned
    <3>3. \A j \in Alive' : fds'[conns'[j].fd] = "conn"
      BY <2>2, <2>4, <2>5, <3>1 DEF ServerInv, FdsOwned
    <3>4. \A i, j \in Alive' : conns'[i].fd = conns'[j].fd => i = j
      BY <2>2, <2>5 DEF ServerInv, FdsOwned
    <3>5. ASSUME NEW g \in Fd, fds'[g] = "conn"
          PROVE  \E j \in Alive' : conns'[j].fd = g
      <4>1. g # f
        BY <2>4, <3>5
      <4>2. PICK j \in Alive : conns[j].fd = g
        BY <2>4, <3>5, <4>1 DEF ServerInv, FdsOwned
      <4>3. j \in Alive' /\ conns'[j].fd = g
        BY <2>2, <2>5, <4>1, <4>2
      <4> QED BY <4>3
    <3>6. idle_fd_' # 0 => fds'[idle_fd_'] = "idle"
      <4>1. fds[f] = "conn"
        BY <2>2 DEF ServerInv, FdsOwned
      <4>2. idle_fd_ # 0 => idle_fd_ \in Fd /\ fds[idle_fd_] = "idle"
        BY <1>1, Numbers DEF ServerInv, FdsOwned, TypeOK
      <4> QED BY <1>3, <2>4, <4>1, <4>2
    <3> QED BY <3>2, <3>3, <3>4, <3>5, <3>6 DEF FdsOwned
  <2>9. MapHoldsLive'
    <3>1. ASSUME NEW g \in Fd, connections_'[g] # 0
          PROVE  /\ connections_'[g] \in Alive' /\ conns'[connections_'[g]].fd = g
                 /\ conns'[connections_'[g]].state # "queued"
      <4>1. g # f /\ connections_'[g] = connections_[g]
        BY <2>4, <3>1
      <4>2. /\ connections_[g] \in Alive /\ conns[connections_[g]].fd = g
            /\ conns[connections_[g]].state # "queued"
        BY <3>1, <4>1 DEF ServerInv, MapHoldsLive
      <4>3. connections_[g] # k
        BY <2>2, <4>1, <4>2
      <4> QED BY <2>2, <2>4, <2>5, <4>1, <4>2, <4>3
    <3>2. ASSUME NEW j \in Alive', conns'[j].state # "queued"
          PROVE  connections_'[conns'[j].fd] = j
      <4>1. j \in Alive /\ j # k /\ conns'[j] = conns[j]
        BY <2>2, <2>4, <2>5
      <4>2. conns[j].fd \in Fd /\ conns[j].fd # f
        BY <2>2, <4>1 DEF ServerInv, FdsOwned
      <4>3. connections_[conns[j].fd] = j
        BY <3>2, <4>1 DEF ServerInv, MapHoldsLive
      <4> QED BY <2>4, <4>1, <4>2, <4>3
    <3> QED BY <3>1, <3>2 DEF MapHoldsLive
  <2>10. QueuesHoldQueued'
    <3>1. ASSUME NEW w \in Worker, NEW i \in DOMAIN queue[w]
          PROVE  conns'[queue[w][i]] = conns[queue[w][i]]
      <4>1. queue[w][i] \in Id
        BY <1>1, ElementOfSeq, LenProperties DEF TypeOK
      <4>2. queue[w][i] # k
        BY <2>2 DEF ServerInv, QueuesHoldQueued
      <4> QED BY <2>4, <4>1, <4>2
    <3> QED BY <1>3, <3>1 DEF ServerInv, QueuesHoldQueued
  <2>11. EstablishingAccepted'
    BY <1>3, <2>5 DEF ServerInv, EstablishingAccepted
  <2>12. InTurn'
    <3>1. \A w \in Worker : Given(w)' = Given(w)
      BY <2>2, <2>5 DEF Given
    <3> QED BY <1>3, <3>1 DEF ServerInv, InTurn
  <2> QED BY <2>6, <2>7, <2>8, <2>9, <2>10, <2>11, <2>12 DEF ServerInv
<1> QED BY <1>4, <1>5

\* Constructing a connection destroys nothing: no other connection has the
\* name, because the descriptor is free only once its last owner left the map.
LEMMA ConstructStep ==
    ASSUME ServerInv, NEW w \in Worker, ConstructConnection(w)
    PROVE  ServerInv'
<1>1. TypeOK
  BY DEF ServerInv
<1> DEFINE q == queue[w]
           k == Head(q)
           f == conns[k].fd
<1>2. /\ q \in Seq(Id) /\ q # <<>> /\ Len(q) \in Nat /\ 1 \in DOMAIN q /\ q[1] = k
      /\ k \in Id /\ DOMAIN q = 1 .. Len(q)
      /\ Tail(q) \in Seq(Id) /\ Len(Tail(q)) = Len(q) - 1
      /\ DOMAIN Tail(q) = 1 .. Len(Tail(q))
      /\ \A i \in 1 .. Len(Tail(q)) : Tail(q)[i] = q[i + 1]
  <2>1. q \in Seq(Id) /\ q # <<>>
    BY <1>1 DEF TypeOK, ConstructConnection
  <2> HIDE DEF q
  <2>2. Len(q) \in Nat /\ DOMAIN q = 1 .. Len(q) /\ 1 \in DOMAIN q /\ q[1] = Head(q)
    BY <2>1, EmptySeq, LenProperties
  <2>3. /\ Head(q) \in Id
        /\ Tail(q) \in Seq(Id) /\ Len(Tail(q)) = Len(q) - 1
        /\ \A i \in 1 .. Len(Tail(q)) : Tail(q)[i] = q[i + 1]
    BY <2>1, HeadTailProperties
  <2>4. DOMAIN Tail(q) = 1 .. Len(Tail(q))
    BY <2>3, LenProperties
  <2> QED BY <2>1, <2>2, <2>3, <2>4
<1>3. conns[k].state = "queued" /\ conns[k].loop = w
  BY <1>2 DEF ServerInv, QueuesHoldQueued
<1> HIDE DEF k
<1>4. /\ k \in Accepted /\ k \in Alive /\ Accepted \subseteq Id /\ Alive \subseteq Accepted
  BY <1>2, <1>3 DEF Accepted, Alive
<1>5. f \in Fd /\ connections_[f] = 0
  <2>1. f \in Fd
    BY <1>4 DEF ServerInv, FdsOwned
  <2>2. ASSUME connections_[f] # 0 PROVE FALSE
    <3>1. /\ connections_[f] \in Alive /\ conns[connections_[f]].fd = f
          /\ conns[connections_[f]].state # "queued"
      BY <2>1, <2>2 DEF ServerInv, MapHoldsLive
    <3>2. connections_[f] = k
      BY <1>4, <3>1 DEF ServerInv, FdsOwned
    <3> QED BY <1>3, <3>1, <3>2
  <2> QED BY <2>1, <2>2
<1>6. /\ queue' = [queue EXCEPT ![w] = Tail(q)]
      /\ establishing' = [establishing EXCEPT ![w] = k]
      /\ connections_' = [connections_ EXCEPT ![f] = k]
      /\ conns' = [j \in Id |-> IF j = k THEN [conns[j] EXCEPT !.state = "inserted"]
                                ELSE conns[j]]
      /\ UNCHANGED <<fds, idle_fd_>> /\ UNCHANGED <<backlog, arrived>>
      /\ UNCHANGED <<main, removals, repeated, fault>> /\ UNCHANGED next_
  BY <1>2, <1>5, Numbers DEF ConstructConnection, acceptVars, k
<1> HIDE DEF f
<1>7. /\ conns \in [Id -> ConnShape] /\ connections_ \in [Fd -> 0 .. MaxConns]
      /\ queue \in [Worker -> Seq(Id)] /\ establishing \in [Worker -> 0 .. MaxConns]
      /\ k \in 0 .. MaxConns
  BY <1>1, <1>2 DEF TypeOK, ConnShape, Id
<1>8. /\ conns' \in [Id -> ConnShape] /\ conns'[k].state = "inserted"
      /\ conns'[k].fd = f /\ conns'[k].loop = w
      /\ \A j \in Id \ {k} : conns'[j] = conns[j]
  <2>1. conns[k] \in ConnShape /\ "inserted" \in ConnStates
    BY <1>2, <1>7 DEF ConnStates
  <2>2. conns'[k] = [conns[k] EXCEPT !.state = "inserted"] /\ conns'[k] \in ConnShape
    BY <1>2, <1>6, <2>1 DEF ConnShape
  <2>3. conns' \in [Id -> ConnShape] /\ \A j \in Id \ {k} : conns'[j] = conns[j]
    BY <1>6, <1>7, <2>2
  <2>4. conns'[k].state = "inserted" /\ conns'[k].fd = f /\ conns'[k].loop = w
    BY <1>3, <2>1, <2>2 DEF ConnShape, f
  <2> QED BY <2>3, <2>4
<1>9. /\ Accepted' = Accepted /\ Alive' = Alive
      /\ \A j \in Id : conns'[j].fd = conns[j].fd /\ conns'[j].loop = conns[j].loop
  <2>1. \A j \in Id : conns'[j].fd = conns[j].fd /\ conns'[j].loop = conns[j].loop
    BY <1>3, <1>8 DEF f
  <2>2. \A j \in Id : \A st \in {"none", "freed"} :
           conns'[j].state = st <=> conns[j].state = st
    BY <1>3, <1>8
  <2>3. Accepted' = Accepted
    BY <2>2 DEF Accepted
  <2>4. Alive' = Alive
    BY <1>4, <2>2, <2>3 DEF Alive
  <2> QED BY <2>1, <2>3, <2>4
<1>10. TypeOK'
  <2>1. queue' \in [Worker -> Seq(Id)] /\ establishing' \in [Worker -> 0 .. MaxConns]
    BY <1>2, <1>6, <1>7
  <2>2. connections_' \in [Fd -> 0 .. MaxConns]
    BY <1>6, <1>7
  <2> QED BY <1>1, <1>6, <1>8, <2>1, <2>2 DEF TypeOK, ConnShape
<1>11. Numbered'
  BY <1>6, <1>9 DEF ServerInv, Numbered
<1>12. FdsOwned'
  BY <1>4, <1>6, <1>9 DEF ServerInv, FdsOwned
<1>13. MapHoldsLive'
  <2>1. connections_'[f] = k /\ \A g \in Fd \ {f} : connections_'[g] = connections_[g]
    BY <1>5, <1>6, <1>7
  <2>2. ASSUME NEW g \in Fd, connections_'[g] # 0
        PROVE  /\ connections_'[g] \in Alive' /\ conns'[connections_'[g]].fd = g
               /\ conns'[connections_'[g]].state # "queued"
    <3>1. CASE g = f
      BY <1>4, <1>8, <1>9, <2>1, <3>1
    <3>2. CASE g # f
      <4>1. /\ connections_'[g] = connections_[g]
            /\ connections_[g] \in Alive /\ conns[connections_[g]].fd = g
            /\ conns[connections_[g]].state # "queued"
        BY <2>1, <2>2, <3>2 DEF ServerInv, MapHoldsLive
      <4> QED BY <1>3, <1>4, <1>8, <1>9, <4>1
    <3> QED BY <3>1, <3>2
  <2>3. ASSUME NEW j \in Alive', conns'[j].state # "queued"
        PROVE  connections_'[conns'[j].fd] = j
    <3>1. CASE j = k
      BY <1>8, <2>1, <3>1
    <3>2. CASE j # k
      <4>1. j \in Alive /\ conns'[j] = conns[j] /\ conns[j].fd \in Fd
        BY <1>4, <1>8, <1>9, <3>2 DEF ServerInv, FdsOwned
      <4>2. conns[j].fd # f
        BY <1>4, <3>2, <4>1 DEF ServerInv, FdsOwned, f
      <4>3. connections_[conns[j].fd] = j
        BY <2>3, <4>1 DEF ServerInv, MapHoldsLive
      <4> QED BY <2>1, <4>1, <4>2, <4>3
    <3> QED BY <3>1, <3>2
  <2> QED BY <2>2, <2>3 DEF MapHoldsLive
<1>14. QueuesHoldQueued'
  <2> SUFFICES ASSUME NEW v \in Worker
               PROVE  /\ \A i \in DOMAIN queue'[v] :
                            /\ conns'[queue'[v][i]].state = "queued"
                            /\ conns'[queue'[v][i]].loop = v
                      /\ \A i, j \in DOMAIN queue'[v] :
                            queue'[v][i] = queue'[v][j] => i = j
    BY DEF QueuesHoldQueued
  <2>1. /\ \A i \in DOMAIN queue[v] : /\ queue[v][i] \in Id
                                      /\ conns[queue[v][i]].state = "queued"
                                      /\ conns[queue[v][i]].loop = v
        /\ \A i, j \in DOMAIN queue[v] : queue[v][i] = queue[v][j] => i = j
    <3>1. \A i \in DOMAIN queue[v] : queue[v][i] \in Id
      BY <1>7, ElementOfSeq, LenProperties
    <3> QED BY <3>1 DEF ServerInv, QueuesHoldQueued
  <2>2. CASE v # w
    <3>1. queue'[v] = queue[v]
      BY <1>6, <1>7, <2>2
    <3>2. \A i \in DOMAIN queue[v] : conns'[queue[v][i]] = conns[queue[v][i]]
      BY <1>3, <1>8, <2>1, <2>2
    <3> QED BY <2>1, <3>1, <3>2
  <2>3. CASE v = w
    <3>1. queue'[v] = Tail(q)
      BY <1>6, <1>7, <2>3
    <3>2. ASSUME NEW i \in DOMAIN Tail(q)
          PROVE  /\ i \in Nat /\ i + 1 \in DOMAIN q /\ Tail(q)[i] = q[i + 1]
                 /\ conns'[Tail(q)[i]] = conns[q[i + 1]]
      <4>1. i \in Nat /\ i + 1 \in DOMAIN q /\ i + 1 # 1 /\ Tail(q)[i] = q[i + 1]
        BY <1>2
      <4> DEFINE j == i + 1
      <4>2. j \in DOMAIN q /\ j # 1 /\ Tail(q)[i] = q[j]
        BY <4>1
      <4> HIDE DEF j
      <4>3. q[j] # k /\ q[j] \in Id
        BY <1>2, <2>1, <2>3, <4>2
      <4>4. conns'[q[j]] = conns[q[j]]
        BY <1>8, <4>3
      <4> QED BY <4>1, <4>2, <4>4 DEF j
    <3>3. ASSUME NEW i \in DOMAIN Tail(q)
          PROVE  /\ conns'[Tail(q)[i]].state = "queued"
                 /\ conns'[Tail(q)[i]].loop = v
      BY <2>1, <2>3, <3>2
    <3>4. ASSUME NEW i \in DOMAIN Tail(q), NEW j \in DOMAIN Tail(q),
                 Tail(q)[i] = Tail(q)[j]
          PROVE  i = j
      <4>1. i + 1 = j + 1
        BY <2>1, <2>3, <3>2, <3>4
      <4> QED BY <3>2, <4>1
    <3> QED BY <3>1, <3>3, <3>4
  <2> QED BY <2>2, <2>3
<1>15. EstablishingAccepted'
  BY <1>4, <1>6, <1>7, <1>9 DEF ServerInv, EstablishingAccepted
<1>16. InTurn'
  <2>1. \A v \in Worker : Given(v)' = Given(v)
    BY <1>4, <1>9 DEF Given
  <2> QED BY <1>6, <2>1 DEF ServerInv, InTurn
<1> QED BY <1>10, <1>11, <1>12, <1>13, <1>14, <1>15, <1>16 DEF ServerInv

\* A connection that was constructed and not destroyed moves to the next stage
\* of its life.
LEMMA StageStep ==
    ASSUME ServerInv, NEW k \in Alive, conns[k].state # "queued",
           NEW st \in {"inserted", "established", "handling", "closed"},
           conns' = [conns EXCEPT ![k].state = st]
    PROVE  /\ conns' \in [Id -> ConnShape]
           /\ Accepted' = Accepted
           /\ UNCHANGED <<backlog, arrived>> => Numbered'
           /\ UNCHANGED <<fds, idle_fd_>> => FdsOwned'
           /\ UNCHANGED connections_ => MapHoldsLive'
           /\ UNCHANGED queue => QueuesHoldQueued'
           /\ UNCHANGED next_ => InTurn'
<1>1. /\ conns \in [Id -> ConnShape] /\ k \in Id
      /\ conns[k].state \notin {"none", "queued", "freed"}
  BY DEF ServerInv, TypeOK, ConnShape, Alive, Accepted
<1>2. conns[k] \in ConnShape /\ st \in ConnStates
  BY <1>1 DEF ConnStates
<1>3. conns'[k] = [conns[k] EXCEPT !.state = st] /\ conns'[k] \in ConnShape
  BY <1>1, <1>2 DEF ConnShape
<1>4. /\ conns'[k].state = st /\ conns'[k].fd = conns[k].fd
      /\ conns'[k].loop = conns[k].loop
  BY <1>2, <1>3 DEF ConnShape
<1>5. conns' \in [Id -> ConnShape] /\ \A j \in Id \ {k} : conns'[j] = conns[j]
  BY <1>1, <1>3
<1>6. \A j \in Id : /\ conns'[j].fd = conns[j].fd
                    /\ conns'[j].loop = conns[j].loop
                    /\ \A s \in {"none", "queued", "freed"} :
                          conns'[j].state = s <=> conns[j].state = s
  BY <1>1, <1>4, <1>5
<1> QED BY <1>5, <1>6, SameStages

\* connectEstablished, on whatever connection has the name by now.
LEMMA EstablishedStep ==
    ASSUME ServerInv, NEW w \in Worker, ConnectEstablished(w)
    PROVE  ServerInv'
<1>1. TypeOK
  BY DEF ServerInv
<1> DEFINE e == establishing[w]
           k == connections_[conns[e].fd]
<1>2. /\ e # 0 /\ e \in 0 .. MaxConns /\ conns[e].fd \in Fd
      /\ establishing' = [establishing EXCEPT ![w] = 0]
      /\ UNCHANGED <<backlog, arrived>> /\ UNCHANGED <<fds, idle_fd_>>
      /\ UNCHANGED <<main, removals, repeated>> /\ UNCHANGED connections_
      /\ UNCHANGED queue /\ UNCHANGED next_
  BY <1>1 DEF ConnectEstablished, acceptVars, ServerInv, EstablishingAccepted,
              FdsOwned, TypeOK
<1>3. establishing' \in [Worker -> 0 .. MaxConns]
  BY <1>1, <1>2, Numbers DEF TypeOK
<1>4. CASE k = e
  <2>1. conns' = [conns EXCEPT ![k].state = "established"] /\ UNCHANGED fault
    BY <1>4 DEF ConnectEstablished
  <2>2. k \in Alive /\ conns[k].state # "queued"
    BY <1>2, <1>4 DEF ServerInv, MapHoldsLive
  <2> HIDE DEF k, e
  <2>3. /\ conns' \in [Id -> ConnShape] /\ Accepted' = Accepted
        /\ Numbered' /\ FdsOwned' /\ MapHoldsLive' /\ QueuesHoldQueued' /\ InTurn'
    BY <1>2, <2>1, <2>2, StageStep
  <2>4. TypeOK'
    BY <1>1, <1>2, <1>3, <2>1, <2>3 DEF TypeOK, ConnShape
  <2>5. EstablishingAccepted'
    BY <1>1, <1>2, <2>3 DEF ServerInv, EstablishingAccepted, TypeOK
  <2> QED BY <2>3, <2>4, <2>5 DEF ServerInv
<1>5. CASE k # e
  <2>1. fault' = "wrongConnection" /\ UNCHANGED conns
    BY <1>5 DEF ConnectEstablished
  <2>2. /\ Accepted' = Accepted
        /\ Numbered' /\ FdsOwned' /\ MapHoldsLive' /\ QueuesHoldQueued' /\ InTurn'
    BY <1>2, <2>1, SameConns
  <2>3. TypeOK'
    BY <1>1, <1>2, <1>3, <2>1 DEF TypeOK
  <2>4. EstablishingAccepted'
    BY <1>1, <1>2, <2>2 DEF ServerInv, EstablishingAccepted, TypeOK
  <2> QED BY <2>2, <2>3, <2>4 DEF ServerInv
<1> QED BY <1>4, <1>5

\* A closing connection moves on; its descriptor and its name stay its own.
LEMMA ClosingStep ==
    ASSUME ServerInv, NEW k \in Id, CloseCallback(k) \/ HandlerReturns(k)
    PROVE  ServerInv'
<1>1. TypeOK
  BY DEF ServerInv
<1>2. /\ k \in Alive /\ conns[k].state # "queued"
      /\ \E st \in {"handling", "closed"} : conns' = [conns EXCEPT ![k].state = st]
      /\ UNCHANGED <<backlog, arrived>> /\ UNCHANGED <<fds, idle_fd_>>
      /\ UNCHANGED <<main, fault>> /\ UNCHANGED connections_
      /\ UNCHANGED queue /\ UNCHANGED next_ /\ UNCHANGED establishing
  BY DEF CloseCallback, HandlerReturns, acceptVars, Alive, Accepted
<1>3. /\ conns' \in [Id -> ConnShape] /\ Accepted' = Accepted
      /\ Numbered' /\ FdsOwned' /\ MapHoldsLive' /\ QueuesHoldQueued' /\ InTurn'
  BY <1>2, StageStep
<1>4. removals' \in Seq(Fd) /\ repeated' \in BOOLEAN
  <2>1. conns[k].fd \in Fd /\ removals \in Seq(Fd)
    BY <1>1, <1>2 DEF ServerInv, FdsOwned, Alive, TypeOK
  <2>2. removals' = removals \/ removals' = Append(removals, conns[k].fd)
    BY DEF CloseCallback, HandlerReturns, Request
  <2>3. repeated' \in BOOLEAN
    BY <1>1 DEF CloseCallback, HandlerReturns, TypeOK
  <2> QED BY <2>1, <2>2, <2>3, AppendProperties
<1>5. TypeOK'
  BY <1>1, <1>2, <1>3, <1>4 DEF TypeOK, ConnShape
<1>6. EstablishingAccepted'
  BY <1>2, <1>3 DEF ServerInv, EstablishingAccepted
<1> QED BY <1>3, <1>5, <1>6 DEF ServerInv

\* Each step of the main loop, a worker or a client keeps the invariant.
LEMMA ServerNext ==
    ASSUME ServerInv, [Next]_vars
    PROVE  ServerInv'
<1>1. CASE UNCHANGED vars
  BY <1>1, SameConns DEF vars, acceptVars, ServerInv, TypeOK
<1>2. ASSUME NEW w \in Worker, WorkerStep(w) PROVE ServerInv'
  BY <1>2, ConstructStep, EstablishedStep DEF WorkerStep
<1>3. ASSUME NEW k \in Id, CloseCallback(k) \/ HandlerReturns(k) PROVE ServerInv'
  BY <1>3, ClosingStep
<1> QED BY <1>1, <1>2, <1>3, OtherStep, NewConnectionStep, EraseStep
        DEF Next, Accepting

-----------------------------------------------------------------------------
(* As long as no close callback was called twice.                          *)

\* Under the name f the map holds a connection that closed.
Awaited(map, cs, f) ==
    map[f] # 0 /\ cs[map[f]].state \in {"handling", "closed"}

\* The connection a worker has inserted and not established is still there.
InsertedWait ==
    \A w \in Worker : establishing[w] # 0 =>
        /\ conns[establishing[w]].state = "inserted"
        /\ conns[establishing[w]].loop = w

RemovalsOnce ==
    /\ \A i \in DOMAIN removals : Awaited(connections_, conns, removals[i])
    /\ \A i, j \in DOMAIN removals : removals[i] = removals[j] => i = j
    /\ InsertedWait
    /\ fault = "none"

\* A step that queues no erasure, destroys no connection that closed, and takes
\* no name out of the map.
LEMMA SameRemovals ==
    ASSUME ServerInv, RemovalsOnce, UNCHANGED <<removals, fault>>,
           \A f \in Fd : Awaited(connections_, conns, f)
                          => Awaited(connections_', conns', f),
           InsertedWait'
    PROVE  RemovalsOnce'
<1>1. \A i \in DOMAIN removals : removals[i] \in Fd
  BY ElementOfSeq, LenProperties DEF ServerInv, TypeOK
<1> QED BY <1>1 DEF RemovalsOnce

\* accept gives its connection a number of its own.
LEMMA NewConnectionOnce ==
    ASSUME ServerInv, RemovalsOnce, NewConnection
    PROVE  RemovalsOnce'
<1> DEFINE k == Cardinality(Accepted) + 1
<1>1. PICK n \in 0 .. MaxConns : Accepted = 1 .. n
  BY DEF ServerInv, Numbered
<1>2. n \in Nat /\ k = n + 1
  <2>1. n \in Nat
    BY <1>1, Numbers
  <2>2. Cardinality(1 .. n) = IF 1 > n THEN 0 ELSE n - 1 + 1
    BY <2>1, FS_Interval
  <2> QED BY <1>1, <2>1, <2>2
<1>3. \E new : conns' = [conns EXCEPT ![k] = new]
  BY DEF NewConnection
<1>4. UNCHANGED <<establishing, connections_>> /\ UNCHANGED <<removals, fault>>
  BY DEF NewConnection
<1> HIDE DEF k
<1>5. \A j \in Accepted : j \in Id /\ conns'[j] = conns[j]
  <2>1. k \notin Accepted
    BY <1>1, <1>2
  <2>2. conns \in [Id -> ConnShape] /\ Accepted \subseteq Id
    BY DEF ServerInv, TypeOK, ConnShape, Accepted
  <2> QED BY <1>3, <2>1, <2>2
<1>6. InsertedWait'
  BY <1>4, <1>5 DEF RemovalsOnce, InsertedWait, ServerInv, EstablishingAccepted
<1>7. ASSUME NEW f \in Fd, Awaited(connections_, conns, f)
      PROVE  Awaited(connections_', conns', f)
  <2>1. connections_[f] \in Accepted
    BY <1>7 DEF Awaited, ServerInv, MapHoldsLive, Alive
  <2> QED BY <1>4, <1>5, <1>7, <2>1 DEF Awaited
<1> QED BY <1>4, <1>6, <1>7, SameRemovals

\* The erasure at the head destroys the connection it was queued for, and no
\* other is queued for that name.
LEMMA EraseOnce ==
    ASSUME ServerInv, RemovalsOnce, EraseConnection
    PROVE  RemovalsOnce'
<1> DEFINE f == Head(removals)
           k == connections_[f]
<1>1. /\ removals \in Seq(Fd) /\ removals # <<>> /\ removals' = Tail(removals)
      /\ connections_ \in [Fd -> 0 .. MaxConns] /\ conns \in [Id -> ConnShape]
      /\ UNCHANGED establishing
  BY DEF ServerInv, TypeOK, ConnShape, EraseConnection
<1>2. /\ 1 \in DOMAIN removals /\ removals[1] = f /\ f \in Fd
      /\ DOMAIN removals = 1 .. Len(removals) /\ Len(removals) \in Nat
  BY <1>1, EmptySeq, LenProperties, HeadTailProperties
<1>3. ASSUME NEW i \in DOMAIN removals'
      PROVE  /\ i \in Nat /\ i + 1 \in DOMAIN removals /\ i + 1 # 1
             /\ removals'[i] = removals[i + 1] /\ removals[i + 1] \in Fd
  <2>1. /\ Len(removals') = Len(removals) - 1 /\ removals' \in Seq(Fd)
        /\ \A j \in 1 .. Len(removals') : removals'[j] = removals[j + 1]
    BY <1>1, HeadTailProperties
  <2>2. i \in Nat /\ i \in 1 .. Len(removals') /\ i + 1 \in 1 .. Len(removals)
    BY <1>2, <2>1, LenProperties
  <2> QED BY <1>1, <1>2, <2>1, <2>2, ElementOfSeq
<1>4. Awaited(connections_, conns, f)
  BY <1>2 DEF RemovalsOnce
<1>5. /\ k # 0 /\ k \in Alive /\ k \in Id /\ conns[k].fd = f
      /\ conns[k].state \in {"handling", "closed"}
  BY <1>2, <1>4 DEF Awaited, ServerInv, MapHoldsLive, Alive, Accepted
<1>6. /\ connections_' = [connections_ EXCEPT ![f] = 0]
      /\ conns' = [conns EXCEPT ![k].state = "freed"] /\ UNCHANGED fault
  BY <1>5 DEF EraseConnection, Unmapped
<1> HIDE DEF f, k
<1>7. ASSUME NEW g \in Fd, g # f, Awaited(connections_, conns, g)
      PROVE  Awaited(connections_', conns', g)
  <2>1. connections_[g] \in Alive /\ conns[connections_[g]].fd = g
    BY <1>7 DEF Awaited, ServerInv, MapHoldsLive
  <2>2. connections_[g] \in Id /\ connections_[g] # k
    BY <1>5, <1>7, <2>1 DEF Alive, Accepted
  <2>3. connections_'[g] = connections_[g]
        /\ conns'[connections_[g]] = conns[connections_[g]]
    BY <1>1, <1>6, <1>7, <2>2
  <2> QED BY <1>7, <2>3 DEF Awaited
<1>8. ASSUME NEW i \in DOMAIN removals' PROVE Awaited(connections_', conns', removals'[i])
  <2>1. removals[i + 1] # f
    BY <1>2, <1>3 DEF RemovalsOnce
  <2>2. Awaited(connections_, conns, removals[i + 1])
    BY <1>3 DEF RemovalsOnce
  <2> DEFINE g == removals[i + 1]
  <2>3. g \in Fd /\ g # f /\ Awaited(connections_, conns, g) /\ removals'[i] = g
    BY <1>3, <2>1, <2>2
  <2> HIDE DEF g
  <2> QED BY <1>7, <2>3
<1>9. ASSUME NEW i \in DOMAIN removals', NEW j \in DOMAIN removals',
             removals'[i] = removals'[j]
      PROVE  i = j
  <2>1. i + 1 = j + 1
    BY <1>3, <1>9 DEF RemovalsOnce
  <2> QED BY <1>3, <2>1
<1>10. InsertedWait'
  <2> SUFFICES ASSUME NEW w \in Worker, establishing[w] # 0
               PROVE  /\ conns'[establishing[w]].state = "inserted"
                      /\ conns'[establishing[w]].loop = w
    BY <1>1 DEF InsertedWait
  <2>1. /\ conns[establishing[w]].state = "inserted" /\ conns[establishing[w]].loop = w
        /\ establishing[w] \in Id
    BY DEF RemovalsOnce, InsertedWait, ServerInv, EstablishingAccepted, Accepted
  <2>2. establishing[w] # k
    BY <1>5, <2>1
  <2>3. conns'[establishing[w]] = conns[establishing[w]]
    BY <1>1, <1>6, <2>1, <2>2
  <2> QED BY <2>1, <2>3
<1> QED BY <1>6, <1>8, <1>9, <1>10 DEF RemovalsOnce

\* A worker inserts a connection under a name nobody has.
LEMMA ConstructOnce ==
    ASSUME ServerInv, RemovalsOnce, NEW w \in Worker, ConstructConnection(w)
    PROVE  RemovalsOnce'
<1> DEFINE k == Head(queue[w])
           f == conns[k].fd
<1>1. k \in Id /\ conns[k].state = "queued" /\ conns[k].loop = w
  <2> DEFINE q == queue[w]
  <2>1. q \in Seq(Id) /\ q # <<>>
    BY DEF ServerInv, TypeOK, ConstructConnection
  <2> HIDE DEF q
  <2>2. 1 \in DOMAIN q /\ q[1] = Head(q) /\ Head(q) \in Id
    BY <2>1, EmptySeq, LenProperties, HeadTailProperties
  <2> QED BY <2>2 DEF q, ServerInv, QueuesHoldQueued
<1>2. k \in Alive /\ f \in Fd
  BY <1>1 DEF Alive, Accepted, ServerInv, FdsOwned
<1>3. connections_[f] = 0
  <2> SUFFICES ASSUME connections_[f] # 0 PROVE FALSE
    OBVIOUS
  <2>1. /\ connections_[f] \in Alive /\ conns[connections_[f]].fd = f
        /\ conns[connections_[f]].state # "queued"
    BY <1>2 DEF ServerInv, MapHoldsLive
  <2>2. connections_[f] = k
    BY <1>2, <2>1 DEF ServerInv, FdsOwned
  <2> QED BY <1>1, <2>1, <2>2
<1>4. /\ establishing' = [establishing EXCEPT ![w] = k]
      /\ connections_' = [connections_ EXCEPT ![f] = k]
      /\ conns' = [j \in Id |-> IF j = k THEN [conns[j] EXCEPT !.state = "inserted"]
                                ELSE conns[j]]
      /\ UNCHANGED <<removals, fault>>
  BY <1>3, Numbers DEF ConstructConnection
<1> HIDE DEF k, f
<1>5. conns \in [Id -> ConnShape] /\ establishing \in [Worker -> 0 .. MaxConns]
      /\ connections_ \in [Fd -> 0 .. MaxConns]
  BY DEF ServerInv, TypeOK, ConnShape
<1>6. /\ conns'[k].state = "inserted" /\ conns'[k].loop = w
      /\ \A j \in Id \ {k} : conns'[j] = conns[j]
  BY <1>1, <1>4, <1>5 DEF ConnShape
<1>7. ASSUME NEW g \in Fd, Awaited(connections_, conns, g)
      PROVE  Awaited(connections_', conns', g)
  <2>1. connections_[g] \in Id /\ connections_[g] # k /\ g # f
    BY <1>1, <1>3, <1>7 DEF Awaited, ServerInv, MapHoldsLive, Alive, Accepted
  <2> QED BY <1>4, <1>5, <1>6, <1>7, <2>1 DEF Awaited
<1>8. InsertedWait'
  <2> SUFFICES ASSUME NEW v \in Worker, establishing'[v] # 0
               PROVE  /\ conns'[establishing'[v]].state = "inserted"
                      /\ conns'[establishing'[v]].loop = v
    BY DEF InsertedWait
  <2>1. CASE v = w
    BY <1>4, <1>5, <1>6, <2>1
  <2>2. CASE v # w
    <3>1. establishing'[v] = establishing[v]
      BY <1>4, <1>5, <2>2
    <3>2. /\ conns[establishing[v]].state = "inserted"
          /\ conns[establishing[v]].loop = v /\ establishing[v] \in Id
      BY <3>1 DEF RemovalsOnce, InsertedWait, ServerInv, EstablishingAccepted, Accepted
    <3> QED BY <1>1, <1>6, <3>1, <3>2
  <2> QED BY <2>1, <2>2
<1> QED BY <1>4, <1>7, <1>8, SameRemovals

\* What the map has under the name is still the connection just inserted.
LEMMA EstablishedOnce ==
    ASSUME ServerInv, RemovalsOnce, NEW w \in Worker, ConnectEstablished(w)
    PROVE  RemovalsOnce'
<1> DEFINE e == establishing[w]
<1>1. e # 0 /\ e \in Id /\ conns[e].state = "inserted" /\ conns[e].loop = w
  BY DEF ConnectEstablished, RemovalsOnce, InsertedWait, ServerInv,
         EstablishingAccepted, Accepted
<1>2. connections_[conns[e].fd] = e
  BY <1>1 DEF ServerInv, MapHoldsLive, Alive, Accepted
<1>3. /\ establishing' = [establishing EXCEPT ![w] = 0]
      /\ conns' = [conns EXCEPT ![e].state = "established"]
      /\ UNCHANGED connections_ /\ UNCHANGED <<removals, fault>>
  BY <1>2 DEF ConnectEstablished
<1> HIDE DEF e
<1>4. conns \in [Id -> ConnShape] /\ establishing \in [Worker -> 0 .. MaxConns]
  BY DEF ServerInv, TypeOK, ConnShape
<1>5. \A j \in Id \ {e} : conns'[j] = conns[j]
  BY <1>3, <1>4
<1>6. ASSUME NEW g \in Fd, Awaited(connections_, conns, g)
      PROVE  Awaited(connections_', conns', g)
  <2>1. connections_[g] \in Id /\ connections_[g] # e
    BY <1>1, <1>6 DEF Awaited, ServerInv, MapHoldsLive, Alive, Accepted
  <2> QED BY <1>3, <1>5, <1>6, <2>1 DEF Awaited
<1>7. InsertedWait'
  <2> SUFFICES ASSUME NEW v \in Worker, establishing'[v] # 0
               PROVE  /\ conns'[establishing'[v]].state = "inserted"
                      /\ conns'[establishing'[v]].loop = v
    BY DEF InsertedWait
  <2>1. v # w /\ establishing'[v] = establishing[v]
    BY <1>3, <1>4
  <2>2. /\ conns[establishing[v]].state = "inserted"
        /\ conns[establishing[v]].loop = v /\ establishing[v] \in Id
    BY <2>1 DEF RemovalsOnce, InsertedWait, ServerInv, EstablishingAccepted, Accepted
  <2> QED BY <1>1, <1>5, <2>1, <2>2
<1> QED BY <1>3, <1>6, <1>7, SameRemovals

\* A connection that closes for the first time has no erasure queued yet.
LEMMA ClosingOnce ==
    ASSUME ServerInv, RemovalsOnce, NEW k \in Id,
           CloseCallback(k) \/ HandlerReturns(k), ~ repeated'
    PROVE  RemovalsOnce'
<1> DEFINE f == conns[k].fd
<1>1. /\ conns \in [Id -> ConnShape] /\ removals \in Seq(Fd)
      /\ UNCHANGED <<establishing, connections_>> /\ UNCHANGED fault
  BY DEF ServerInv, TypeOK, ConnShape, CloseCallback, HandlerReturns
<1>2. PICK st \in {"handling", "closed"} : conns' = [conns EXCEPT ![k].state = st]
  BY DEF CloseCallback, HandlerReturns
<1>3. /\ conns'[k].state = st /\ \A j \in Id \ {k} : conns'[j] = conns[j]
  BY <1>1, <1>2 DEF ConnShape
<1>4. \A j \in Id : conns[j].state \in {"handling", "closed"} =>
                        conns'[j].state \in {"handling", "closed"}
  BY <1>3
<1>5. ASSUME NEW g \in Fd, Awaited(connections_, conns, g)
      PROVE  Awaited(connections_', conns', g)
  <2>1. connections_[g] \in Id
    BY <1>5 DEF Awaited, ServerInv, MapHoldsLive, Alive, Accepted
  <2> QED BY <1>1, <1>4, <1>5, <2>1 DEF Awaited
<1>6. InsertedWait'
  <2> SUFFICES ASSUME NEW v \in Worker, establishing[v] # 0
               PROVE  /\ conns'[establishing[v]].state = "inserted"
                      /\ conns'[establishing[v]].loop = v
    BY <1>1 DEF InsertedWait
  <2>1. /\ conns[establishing[v]].state = "inserted"
        /\ conns[establishing[v]].loop = v /\ establishing[v] \in Id
    BY DEF RemovalsOnce, InsertedWait, ServerInv, EstablishingAccepted, Accepted
  <2>2. conns[k].state # "inserted"
    BY DEF CloseCallback, HandlerReturns
  <2> QED BY <1>3, <2>1, <2>2
<1>7. CASE HandlerReturns(k)
  <2>1. UNCHANGED <<removals, fault>>
    BY <1>7 DEF HandlerReturns
  <2> QED BY <1>5, <1>6, <2>1, SameRemovals
<1>8. CASE CloseCallback(k)
  <2>1. conns[k].state = "established" /\ removals' = Append(removals, f)
    BY <1>8 DEF CloseCallback, Request
  <2>2. k \in Alive /\ f \in Fd /\ connections_[f] = k
    BY <2>1 DEF Alive, Accepted, ServerInv, FdsOwned, MapHoldsLive
  <2>3. Awaited(connections_', conns', f)
    <3>1. k # 0
      BY Numbers
    <3> HIDE DEF f
    <3>2. connections_'[f] = k /\ conns'[k].state \in {"handling", "closed"}
      BY <1>1, <1>3, <2>2
    <3> QED BY <3>1, <3>2 DEF Awaited
  <2>4. ASSUME NEW i \in DOMAIN removals PROVE removals[i] # f /\ removals[i] \in Fd
    <3>1. Awaited(connections_, conns, removals[i]) /\ ~ Awaited(connections_, conns, f)
      BY <2>1, <2>2 DEF RemovalsOnce, Awaited
    <3> QED BY <1>1, <3>1, ElementOfSeq, LenProperties
  <2> HIDE DEF f
  <2> DEFINE n == Len(removals) + 1
  <2>5. /\ DOMAIN removals' = DOMAIN removals \cup {n} /\ n \notin DOMAIN removals
        /\ removals'[n] = f /\ \A i \in DOMAIN removals : removals'[i] = removals[i]
    <3>1. f \in Fd /\ Len(removals) \in Nat /\ DOMAIN removals = 1 .. Len(removals)
      BY <1>1, <2>2, LenProperties
    <3>2. /\ Len(removals') = n /\ removals' \in Seq(Fd)
          /\ removals'[n] = f
          /\ \A i \in 1 .. Len(removals) : removals'[i] = removals[i]
      BY <1>1, <2>1, <3>1, AppendProperties
    <3>3. DOMAIN removals' = 1 .. n
      BY <3>2, LenProperties
    <3> QED BY <3>1, <3>2, <3>3
  <2> HIDE DEF n
  <2>6. \A i \in DOMAIN removals' : Awaited(connections_', conns', removals'[i])
    <3>1. \A i \in DOMAIN removals : Awaited(connections_', conns', removals[i])
      BY <1>5, <2>4 DEF RemovalsOnce
    <3> QED BY <2>3, <2>5, <3>1
  <2>7. \A i, j \in DOMAIN removals' : removals'[i] = removals'[j] => i = j
    BY <2>4, <2>5 DEF RemovalsOnce
  <2> QED BY <1>1, <1>6, <2>6, <2>7 DEF RemovalsOnce
<1> QED BY <1>7, <1>8

\* Any step keeps the queued names in order, or is a second close callback.
LEMMA RemovalsNext ==
    ServerInv /\ (~ repeated => RemovalsOnce) /\ [Next]_vars
        => (~ repeated' => RemovalsOnce')
<1> SUFFICES ASSUME ServerInv, ~ repeated => RemovalsOnce, [Next]_vars, ~ repeated'
             PROVE  RemovalsOnce'
  OBVIOUS
<1>1. ~ repeated
  BY DEF Next, vars, Listen, ClientArrives, ForeignOpens, ForeignCloses, Accepting,
         AcceptorReady, NewConnection, AcceptFails, NoMoreClients, ReleaseSpare,
         RefuseClient, ReopenSpare, EraseConnection, WorkerStep, ConstructConnection,
         ConnectEstablished, CloseCallback, HandlerReturns
<1>2. RemovalsOnce
  BY <1>1
<1>3. CASE \/ UNCHANGED vars
           \/ Listen \/ ClientArrives \/ ForeignOpens \/ ForeignCloses \/ AcceptorReady
           \/ AcceptFails \/ NoMoreClients \/ ReleaseSpare \/ RefuseClient
           \/ ReopenSpare
  <2>1. UNCHANGED <<conns, connections_, establishing>> /\ UNCHANGED <<removals, fault>>
    BY <1>3 DEF vars, Listen, ClientArrives, ForeignOpens, ForeignCloses, AcceptorReady,
         AcceptFails, NoMoreClients, ReleaseSpare, RefuseClient, ReopenSpare, acceptVars
  <2> QED BY <1>2, <2>1 DEF RemovalsOnce, Awaited, InsertedWait
<1>4. ASSUME NEW w \in Worker, WorkerStep(w) PROVE RemovalsOnce'
  BY <1>2, <1>4, ConstructOnce, EstablishedOnce DEF WorkerStep
<1>5. ASSUME NEW k \in Id, CloseCallback(k) \/ HandlerReturns(k) PROVE RemovalsOnce'
  BY <1>2, <1>5, ClosingOnce
<1> QED BY <1>2, <1>3, <1>4, <1>5, NewConnectionOnce, EraseOnce DEF Next, Accepting

-----------------------------------------------------------------------------
(* The theorems.                                                           *)

\* Whatever the order of connects, closes and removals: each descriptor has one
\* owner, the map names the connections that live, and the queues those queued.
THEOREM ServerInvariant == Spec => []ServerInv
<1>1. ServerInv /\ [Next]_vars => ServerInv'
  BY ServerNext
<1> QED BY <1>1, ServerInit, PTL DEF Spec

\* The server's variables keep their types; a name removed is always that of a
\* descriptor, and connections are numbered within the map's range.
THEOREM ServerTypeCorrect == Spec => []TypeOK
<1>1. ServerInv => TypeOK
  BY DEF ServerInv
<1> QED BY <1>1, ServerInvariant, PTL

\* Every descriptor open for a client belongs to exactly one connection that is
\* not destroyed, for any number of clients and reuses (server.cpp:43-82).
THEOREM DescriptorsAreOwned == Spec => []DescriptorsOwned
<1>1. ASSUME ServerInv PROVE DescriptorsOwned
  <2>1. ASSUME NEW f \in Fd, fds[f] = "conn"
        PROVE  Cardinality({k \in Alive : conns[k].fd = f}) = 1
    <3>1. PICK k \in Alive : conns[k].fd = f
      BY <1>1, <2>1 DEF ServerInv, FdsOwned
    <3>2. {j \in Alive : conns[j].fd = f} = {k}
      BY <1>1, <3>1 DEF ServerInv, FdsOwned
    <3> QED BY <3>2, FS_Singleton
  <2> QED BY <1>1, <2>1 DEF ServerInv, FdsOwned, DescriptorsOwned
<1>2. ServerInv => DescriptorsOwned
  BY <1>1
<1> QED BY <1>2, ServerInvariant, PTL

\* connections_ holds exactly the connections that were constructed and not
\* destroyed, each under its own name (server.cpp:65-68, 77-82).
THEOREM MapHoldsTheLive == Spec => []MapHoldsLive
<1>1. ServerInv => MapHoldsLive
  BY DEF ServerInv
<1> QED BY <1>1, ServerInvariant, PTL

\* As long as no close callback is called twice, each queued erasure destroys
\* the connection it was queued for: no newcomer that took the number, and not
\* nothing, for any number of workers, clients and reuses (server.cpp:77-81).
THEOREM ErasuresAreTheirOwn == Spec => []ErasuresFindTheirOwn
<1>1. Init => (~ repeated => RemovalsOnce)
  BY DEF Init, RemovalsOnce, InsertedWait
<1>2. (~ repeated => RemovalsOnce) => ErasuresFindTheirOwn
  BY DEF RemovalsOnce, Awaited, ErasuresFindTheirOwn
<1> QED BY <1>1, <1>2, RemovalsNext, ServerInvariant, PTL DEF Spec

\* However many workers there are, none has been given two clients more than
\* another (event_loop_thread_pool's getNextLoop).
THEOREM ClientsBalanced == Spec => []Balanced
<1>1. ASSUME ServerInv PROVE Balanced
  <2>1. PICK c \in Nat : \A w \in Worker : Given(w) = c + IF w <= next_ THEN 1 ELSE 0
    BY <1>1 DEF ServerInv, InTurn
  <2>2. ASSUME NEW v \in Worker, NEW w \in Worker PROVE Given(v) <= Given(w) + 1
    BY <2>1
  <2> QED BY <2>2 DEF Balanced
<1>2. ServerInv => Balanced
  BY <1>1
<1> QED BY <1>2, ServerInvariant, PTL
=============================================================================
