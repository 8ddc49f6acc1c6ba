-------------------------- MODULE EventLoopProofs ---------------------------
(***************************************************************************)
(* For every set of threads and every number of functors: the type of the  *)
(* loop's state, no lost wakeup, and FIFO execution without loss, both of  *)
(* the loop alone (LoopSpec, any thread may call it at any time) and of    *)
(* the loop inside an EventLoopThread (Spec).                              *)
(***************************************************************************)
EXTENDS EventLoopThread, SequenceTheorems, TLAPS

\* Functors are in the local queue, and runInLoop queues, while the owner is
\* in doPendingFunctors; at the top of an iteration neither.
LocalQueueInv ==
    /\ owner # "run" => functors = <<>>
    /\ owner = "run" => calling_pending_functors_

\* From the swap to the return of epoll_wait, a queued functor has its wakeup
\* written or about to be.
WakeupInv ==
    (owner \in {"run", "poll"} /\ pending_functors_ # <<>>) =>
        wakeup_fd_ \/ \E t \in Thread : caller[t] = "wakeup"

LoopInv == LoopTypeOK /\ LocalQueueInv /\ WakeupInv /\ QueueIsFifo

USE LoopAssumption

\* A loop that was not run yet.
LEMMA LoopInvInit == LoopInit => LoopInv
<1> SUFFICES ASSUME LoopInit PROVE LoopInv
  OBVIOUS
<1>1. LoopTypeOK
  <2>1. FlagsOK
    BY Zenon DEF LoopInit, FlagsOK
  <2> QED BY <2>1 DEF LoopInit, LoopTypeOK, OwnerStates, CallerStates, Channels
<1>2. LocalQueueInv /\ WakeupInv
  BY DEF LoopInit, LocalQueueInv, WakeupInv
<1>3. Queue = <<>>
  BY DEF LoopInit, Queue
<1>4. QueueIsFifo
  BY <1>3 DEF LoopInit, QueueIsFifo
<1> QED BY <1>1, <1>2, <1>4 DEF LoopInv

\* Every step keeps the Boolean fields Boolean.
LEMMA FlagsStep ==
    ASSUME FlagsOK, [LoopNext]_loopVars
    PROVE  FlagsOK'
<1> USE DEF FlagsOK, ownerVars
<1>1. ASSUME NEW queue, ClientCode(queue)
      PROVE  quit_' \in BOOLEAN /\ wakeup_fd_' \in BOOLEAN
  BY <1>1, Zenon DEF ClientCode, OwnerRunInLoop
<1>2. ASSUME NEW t \in Thread, Push(t) \/ Wakeup(t) \/ QuitByThread(t)
      PROVE  FlagsOK'
  BY <1>2, Zenon DEF Push, Wakeup, QuitByThread
<1>3. CASE IoArrives
  BY <1>3, Zenon DEF IoArrives
<1>4. CASE Setup
  BY <1>4, Zenon DEF Setup, OwnerRunInLoop
<1>5. CASE EnterLoop \/ LeaveLoop \/ SwapFunctors
  BY <1>5, Zenon DEF EnterLoop, LeaveLoop, SwapFunctors
<1>6. CASE RunFunctor
  BY <1>1, <1>6, Zenon DEF RunFunctor
<1>7. CASE EndFunctors \/ PollReturns \/ PollTimesOut
  BY <1>7, Zenon DEF EndFunctors, PollReturns, PollTimesOut
<1>8. CASE HandleWakeup \/ EndDispatch
  BY <1>8, Zenon DEF HandleWakeup, EndDispatch
<1>9. CASE HandleIo
  BY <1>1, <1>9, Zenon DEF HandleIo
<1>10. CASE UNCHANGED loopVars
  BY <1>10, Zenon DEF loopVars
<1> QED
  BY <1>2, <1>3, <1>4, <1>5, <1>6, <1>7, <1>8, <1>9, <1>10
  DEF LoopNext, Loop

\* What runInLoop in the loop thread, and client code, do to the queue.
LEMMA OwnerRunInLoopProperties ==
    ASSUME LoopTypeOK, NEW queue, OwnerRunInLoop(queue)
    PROVE  \/ pending_functors_' = pending_functors_ /\ wakeup_fd_' = wakeup_fd_
           \/ /\ pending_functors_' = Append(pending_functors_, <<Owner, 0>>)
              /\ wakeup_fd_' = TRUE
              /\ \A i \in DOMAIN queue : queue[i][1] # Owner
  BY Zenon DEF OwnerRunInLoop

\* The program's own code posts at most one functor, its owner's.
LEMMA ClientCodeProperties ==
    ASSUME LoopTypeOK, NEW queue, ClientCode(queue)
    PROVE  \/ pending_functors_' = pending_functors_ /\ wakeup_fd_' = wakeup_fd_
           \/ /\ pending_functors_' = Append(pending_functors_, <<Owner, 0>>)
              /\ wakeup_fd_' = TRUE
              /\ \A i \in DOMAIN queue : queue[i][1] # Owner
  BY OwnerRunInLoopProperties, Zenon DEF ClientCode

-----------------------------------------------------------------------------
(* The order of the queue, as a fact about a sequence q and the counters.  *)

Fifo(q, p, r) ==
    /\ \A t \in Thread : \A k \in 1 .. MaxPosts :
          (r[t] < k /\ k <= p[t]) <=> \E i \in DOMAIN q : q[i] = <<t, k>>
    /\ \A i, j \in DOMAIN q :
          (i < j /\ q[i][1] = q[j][1]) => q[i][2] < q[j][2]

Count == [Thread -> 0 .. MaxPosts]

\* The owner queues a functor for itself while it has none queued.
LEMMA AppendOwner ==
    ASSUME NEW q \in Seq(Functor), NEW p \in Count, NEW r \in Count, Fifo(q, p, r),
           \A i \in DOMAIN q : q[i][1] # Owner
    PROVE  Fifo(Append(q, <<Owner, 0>>), p, r)
<1> DEFINE a == Append(q, <<Owner, 0>>)
<1>1. /\ DOMAIN a = 1 .. Len(q) + 1 /\ DOMAIN q = 1 .. Len(q) /\ Len(q) \in Nat
      /\ \A i \in 1 .. Len(q) : a[i] = q[i]
      /\ a[Len(q) + 1] = <<Owner, 0>>
  OBVIOUS
<1> HIDE DEF a
<1>2. ASSUME NEW t \in Thread, NEW k \in 1 .. MaxPosts
      PROVE  (\E i \in DOMAIN a : a[i] = <<t, k>>) <=> \E i \in DOMAIN q : q[i] = <<t, k>>
  <2>1. <<t, k>> # <<Owner, 0>>
    OBVIOUS
  <2> QED BY <1>1, <2>1
<1>3. ASSUME NEW i \in DOMAIN a, NEW j \in DOMAIN a, i < j, a[i][1] = a[j][1]
      PROVE  a[i][2] < a[j][2]
  <2>1. i \in DOMAIN q /\ a[i] = q[i]
    BY <1>1, <1>3
  <2>2. CASE j = Len(q) + 1
    <3>1. a[j][1] = Owner
      BY <1>1, <2>2
    <3> QED BY <1>3, <2>1, <3>1
  <2>3. CASE j # Len(q) + 1
    <3>1. j \in DOMAIN q /\ a[j] = q[j]
      BY <1>1, <2>3
    <3> QED BY <1>3, <2>1, <3>1 DEF Fifo
  <2> QED BY <2>2, <2>3
<1> QED BY <1>2, <1>3 DEF Fifo, a

\* Thread t queues its next functor.
LEMMA AppendPosted ==
    ASSUME NEW q \in Seq(Functor), NEW p \in Count, NEW r \in Count, Fifo(q, p, r),
           NEW t \in Thread, p[t] < MaxPosts, r[t] <= p[t]
    PROVE  Fifo(Append(q, <<t, p[t] + 1>>), [p EXCEPT ![t] = @ + 1], r)
<1> DEFINE f == <<t, p[t] + 1>>
           a == Append(q, f)
           pp == [p EXCEPT ![t] = @ + 1]
<1>1. /\ DOMAIN a = 1 .. Len(q) + 1 /\ DOMAIN q = 1 .. Len(q) /\ Len(q) \in Nat
      /\ \A i \in 1 .. Len(q) : a[i] = q[i]
      /\ a[Len(q) + 1] = f
  OBVIOUS
<1>2. /\ p[t] \in Nat /\ r[t] \in Nat /\ pp[t] = p[t] + 1
      /\ \A u \in Thread : u # t => pp[u] = p[u]
      /\ f[1] = t /\ f[2] = p[t] + 1
  BY DEF Count
<1> HIDE DEF a, pp, f
<1>3. ASSUME NEW u \in Thread, NEW k \in 1 .. MaxPosts
      PROVE  (r[u] < k /\ k <= pp[u]) <=> \E i \in DOMAIN a : a[i] = <<u, k>>
  <2>1. (\E i \in DOMAIN a : a[i] = <<u, k>>)
           <=> (f = <<u, k>> \/ \E i \in DOMAIN q : q[i] = <<u, k>>)
    <3>1. ASSUME NEW i \in DOMAIN a, a[i] = <<u, k>>
          PROVE  f = <<u, k>> \/ \E n \in DOMAIN q : q[n] = <<u, k>>
      <4>1. CASE i = Len(q) + 1
        BY <1>1, <3>1, <4>1
      <4>2. CASE i # Len(q) + 1
        <5>1. i \in DOMAIN q /\ a[i] = q[i]
          BY <1>1, <4>2
        <5> QED BY <3>1, <5>1
      <4> QED BY <4>1, <4>2
    <3>2. ASSUME NEW i \in DOMAIN q, q[i] = <<u, k>>
          PROVE  \E n \in DOMAIN a : a[n] = <<u, k>>
      <4>1. i \in DOMAIN a /\ a[i] = q[i]
        BY <1>1
      <4> QED BY <3>2, <4>1
    <3>3. Len(q) + 1 \in DOMAIN a /\ a[Len(q) + 1] = f
      BY <1>1
    <3> QED BY <3>1, <3>2, <3>3
  <2>2. f = <<u, k>> <=> (u = t /\ k = p[t] + 1)
    BY <1>2 DEF f
  <2>3. (\E i \in DOMAIN q : q[i] = <<u, k>>) <=> (r[u] < k /\ k <= p[u])
    BY DEF Fifo
  <2>4. (r[u] < k /\ k <= pp[u])
           <=> ((u = t /\ k = p[t] + 1) \/ (r[u] < k /\ k <= p[u]))
    BY <1>2 DEF Count
  <2> QED BY <2>1, <2>2, <2>3, <2>4
<1>4. ASSUME NEW i \in DOMAIN a, NEW j \in DOMAIN a, i < j, a[i][1] = a[j][1]
      PROVE  a[i][2] < a[j][2]
  <2>1. i \in DOMAIN q /\ a[i] = q[i]
    BY <1>1, <1>4
  <2>2. CASE j = Len(q) + 1
    <3>1. a[j] = f
      BY <1>1, <2>2
    <3>2. q[i][1] = t
      BY <1>2, <1>4, <2>1, <3>1
    <3>3. q[i] \in Functor
      BY <2>1
    <3>4. q[i][2] \in 1 .. MaxPosts /\ q[i] = <<t, q[i][2]>>
      BY <3>2, <3>3 DEF Functor
    <3>5. q[i][2] <= p[t]
      BY <2>1, <3>4 DEF Fifo
    <3> QED BY <1>2, <2>1, <3>1, <3>4, <3>5
  <2>3. CASE j # Len(q) + 1
    <3>1. j \in DOMAIN q /\ a[j] = q[j]
      BY <1>1, <2>3
    <3> QED BY <1>4, <2>1, <3>1 DEF Fifo
  <2> QED BY <2>2, <2>3
<1> QED BY <1>3, <1>4 DEF Fifo, a, pp, f
\* The owner executes the functor at the head: it is the oldest of its thread.
LEMMA PopHead ==
    ASSUME NEW q \in Seq(Functor), NEW p \in Count, NEW r \in Count, Fifo(q, p, r),
           q # <<>>,
           NEW rr, rr = IF Head(q)[1] = Owner THEN r
                        ELSE [r EXCEPT ![Head(q)[1]] = @ + 1]
    PROVE  /\ Fifo(Tail(q), p, rr)
           /\ rr \in Count
           /\ (\A t \in Thread : r[t] <= p[t]) => \A t \in Thread : rr[t] <= p[t]
<1> DEFINE h == q[1]
           b == Tail(q)
<1>1. /\ Len(q) \in Nat \ {0} /\ DOMAIN q = 1 .. Len(q)
      /\ DOMAIN b = 1 .. Len(q) - 1
      /\ \A i \in 1 .. Len(q) - 1 : b[i] = q[i + 1]
      /\ Head(q) = h /\ h \in Functor
  OBVIOUS
<1> HIDE DEF h, b
<1>2. ASSUME NEW i \in DOMAIN b, NEW j \in DOMAIN b, i < j, b[i][1] = b[j][1]
      PROVE  b[i][2] < b[j][2]
  <2>1. /\ i + 1 \in DOMAIN q /\ b[i] = q[i + 1]
        /\ j + 1 \in DOMAIN q /\ b[j] = q[j + 1]
        /\ i + 1 < j + 1
    BY <1>1, <1>2
  <2> QED BY <1>2, <2>1 DEF Fifo
<1>3. ASSUME NEW t \in Thread, NEW k \in 1 .. MaxPosts
      PROVE  (\E i \in DOMAIN q : q[i] = <<t, k>>)
                <=> (h = <<t, k>> \/ \E i \in DOMAIN b : b[i] = <<t, k>>)
  <2>1. ASSUME NEW i \in DOMAIN q, q[i] = <<t, k>>
        PROVE  h = <<t, k>> \/ \E n \in DOMAIN b : b[n] = <<t, k>>
    <3>1. CASE i = 1
      BY <2>1, <3>1 DEF h
    <3>2. CASE i # 1
      <4>1. i - 1 \in DOMAIN b /\ b[i - 1] = q[(i - 1) + 1] /\ (i - 1) + 1 = i
        BY <1>1, <3>2
      <4> QED BY <2>1, <4>1
    <3> QED BY <3>1, <3>2
  <2>2. ASSUME NEW i \in DOMAIN b, b[i] = <<t, k>>
        PROVE  \E n \in DOMAIN q : q[n] = <<t, k>>
    <3>1. i + 1 \in DOMAIN q /\ q[i + 1] = b[i]
      BY <1>1
    <3> QED BY <2>2, <3>1
  <2>3. h = <<t, k>> => \E i \in DOMAIN q : q[i] = <<t, k>>
    BY <1>1 DEF h
  <2> QED BY <2>1, <2>2, <2>3
<1>4. CASE h[1] = Owner
  <2>1. rr = r
    BY <1>1, <1>4
  <2>2. ASSUME NEW t \in Thread, NEW k \in 1 .. MaxPosts
        PROVE  h # <<t, k>>
    BY <1>4
  <2>3. \A t \in Thread : \A k \in 1 .. MaxPosts :
           (rr[t] < k /\ k <= p[t]) <=> \E i \in DOMAIN b : b[i] = <<t, k>>
    BY <1>3, <2>1, <2>2 DEF Fifo
  <2> QED BY <1>2, <2>1, <2>3 DEF Fifo, b
<1>5. CASE h[1] # Owner
  <2>1. PICK t \in Thread, k \in 1 .. MaxPosts : h = <<t, k>>
    BY <1>1, <1>5 DEF Functor
  <2>2. r[t] < k /\ k <= p[t] /\ r[t] \in Nat /\ p[t] \in 0 .. MaxPosts
    <3>1. 1 \in DOMAIN q /\ q[1] = <<t, k>>
      BY <1>1, <2>1 DEF h
    <3> QED BY <3>1 DEF Fifo, Count
  <2>3. ASSUME NEW n \in 1 .. MaxPosts, NEW i \in DOMAIN b, b[i] = <<t, n>>
        PROVE  k < n
    <3>1. /\ 1 \in DOMAIN q /\ i + 1 \in DOMAIN q /\ 1 < i + 1
          /\ q[i + 1] = <<t, n>> /\ q[1] = <<t, k>>
      BY <1>1, <2>1, <2>3 DEF h
    <3>2. q[1][1] = q[i + 1][1] /\ q[1][2] = k /\ q[i + 1][2] = n
      BY <3>1
    <3> QED BY <3>1, <3>2 DEF Fifo
  <2>4. k = r[t] + 1
    <3> SUFFICES ASSUME k # r[t] + 1 PROVE FALSE
      OBVIOUS
    <3>1. r[t] + 1 \in 1 .. MaxPosts /\ r[t] + 1 <= p[t] /\ r[t] < r[t] + 1
      BY <2>2
    <3>2. \E i \in DOMAIN q : q[i] = <<t, r[t] + 1>>
      BY <3>1 DEF Fifo
    <3>3. h # <<t, r[t] + 1>>
      BY <2>1
    <3>4. PICK i \in DOMAIN b : b[i] = <<t, r[t] + 1>>
      BY <1>3, <3>1, <3>2, <3>3
    <3>5. k < r[t] + 1
      BY <2>3, <3>1, <3>4
    <3> QED BY <2>2, <3>5
  <2>5. rr = [r EXCEPT ![t] = @ + 1]
    <3>1. Head(q)[1] = t /\ Head(q)[1] # Owner
      BY <1>1, <1>5, <2>1
    <3>2. rr = [r EXCEPT ![Head(q)[1]] = @ + 1]
      BY <3>1
    <3> QED BY <3>1, <3>2
  <2>6. /\ rr[t] = k /\ \A u \in Thread : u # t => rr[u] = r[u]
        /\ rr \in Count
    BY <2>2, <2>4, <2>5 DEF Count
  <2>7. ASSUME NEW u \in Thread, NEW n \in 1 .. MaxPosts
        PROVE  (rr[u] < n /\ n <= p[u]) <=> \E i \in DOMAIN b : b[i] = <<u, n>>
    <3>1. (r[u] < n /\ n <= p[u])
             <=> (h = <<u, n>> \/ \E i \in DOMAIN b : b[i] = <<u, n>>)
      BY <1>3 DEF Fifo
    <3>2. CASE u # t
      <4>1. rr[u] = r[u] /\ h # <<u, n>>
        BY <2>1, <2>6, <3>2
      <4> QED BY <3>1, <4>1
    <3>3. CASE u = t
      <4>1. (\E i \in DOMAIN b : b[i] = <<u, n>>) => k < n
        BY <2>3, <3>3
      <4>2. h = <<u, n>> <=> n = k
        BY <2>1, <3>3
      <4>3. rr[u] = k /\ r[u] = k - 1 /\ r[u] \in Nat
        BY <2>2, <2>4, <2>6, <3>3
      <4> QED BY <3>1, <4>1, <4>2, <4>3
    <3> QED BY <3>2, <3>3
  <2>8. (\A u \in Thread : r[u] <= p[u]) => \A u \in Thread : rr[u] <= p[u]
    BY <2>2, <2>6
  <2> QED BY <1>2, <2>6, <2>7, <2>8 DEF Fifo, b
<1> QED BY <1>4, <1>5
-----------------------------------------------------------------------------
(* Preservation.                                                           *)

CountInv == \A t \in Thread : ran[t] <= posted[t]

\* QueueIsFifo, as the relation of the three sequences that the steps change.
LEMMA FifoIsQueueIsFifo == QueueIsFifo <=> Fifo(Queue, posted, ran)
  BY DEF QueueIsFifo, Fifo

\* All functors that wait are functors.
LEMMA QueueType == LoopTypeOK => Queue \in Seq(Functor)
  BY DEF LoopTypeOK, Queue

\* The functors that wait, as the two parts they wait in.
LEMMA QueueParts ==
    LoopTypeOK => functors \in Seq(Functor) /\ pending_functors_ \in Seq(Functor)
  BY DEF LoopTypeOK

\* What is appended to the second part is appended to the whole.
LEMMA AppendToConcat ==
    ASSUME NEW S, NEW s \in Seq(S), NEW u \in Seq(S), NEW e \in S
    PROVE  s \o Append(u, e) = Append(s \o u, e)
<1>1. Append(u, e) = u \o <<e>> /\ <<e>> \in Seq(S) /\ s \o u \in Seq(S)
  BY AppendIsConcat
<1>2. Append(s \o u, e) = (s \o u) \o <<e>>
  BY <1>1, AppendIsConcat, Zenon
<1>3. (s \o u) \o <<e>> = s \o (u \o <<e>>)
  BY <1>1, ConcatAssociative
<1> QED BY <1>1, <1>2, <1>3, Zenon

\* What client code run by the owner does to the queues and the eventfd,
\* cur being the queue that remains and loc the local part of it.
LEMMA ClientCodeKeeps ==
    ASSUME LoopTypeOK, NEW loc \in Seq(Functor), functors' = loc,
           NEW p \in Count, NEW r \in Count,
           Fifo(loc \o pending_functors_, p, r),
           ClientCode(loc \o pending_functors_)
             \/ OwnerRunInLoop(loc \o pending_functors_)
    PROVE  /\ Fifo(Queue', p, r)
           /\ pending_functors_' \in Seq(Functor)
           /\ \/ pending_functors_' = pending_functors_ /\ wakeup_fd_' = wakeup_fd_
              \/ wakeup_fd_' = TRUE
<1> DEFINE q == loc \o pending_functors_
<1>1. q \in Seq(Functor) /\ pending_functors_ \in Seq(Functor)
  BY DEF LoopTypeOK
<1>2. Queue' = loc \o pending_functors_'
  BY DEF Queue
<1>3. <<Owner, 0>> \in Functor
  BY DEF Functor
<1>4. \/ pending_functors_' = pending_functors_ /\ wakeup_fd_' = wakeup_fd_
      \/ /\ pending_functors_' = Append(pending_functors_, <<Owner, 0>>)
         /\ wakeup_fd_' = TRUE
         /\ \A i \in DOMAIN q : q[i][1] # Owner
  BY ClientCodeProperties, OwnerRunInLoopProperties
<1>5. CASE pending_functors_' = pending_functors_ /\ wakeup_fd_' = wakeup_fd_
  BY <1>1, <1>2, <1>5
<1>6. CASE /\ pending_functors_' = Append(pending_functors_, <<Owner, 0>>)
           /\ wakeup_fd_' = TRUE
           /\ \A i \in DOMAIN q : q[i][1] # Owner
  <2>1. pending_functors_' \in Seq(Functor)
    BY <1>1, <1>3, <1>6
  <2>2. Queue' = Append(q, <<Owner, 0>>)
    <3>1. loc \o Append(pending_functors_, <<Owner, 0>>) = Append(q, <<Owner, 0>>)
      BY <1>1, <1>3, AppendToConcat
    <3> HIDE DEF q
    <3> QED BY <1>2, <1>6, <3>1, Zenon
  <2>3. Fifo(Append(q, <<Owner, 0>>), p, r)
    BY <1>1, <1>6, AppendOwner
  <2> QED BY <1>6, <2>1, <2>2, <2>3
<1> QED BY <1>4, <1>5, <1>6

IInv == LoopInv /\ CountInv

\* A thread that was not started yet.
LEMMA IInvInit == LoopInit => IInv
  BY LoopInvInit DEF LoopInit, CountInv, IInv
\* Every step of the loop, or of a thread calling into it, keeps IInv.
LEMMA IInvStep ==
    ASSUME IInv, [LoopNext]_loopVars
    PROVE  IInv'
<1>0. /\ LoopTypeOK /\ LocalQueueInv /\ WakeupInv /\ CountInv
      /\ Fifo(Queue, posted, ran) /\ Queue \in Seq(Functor)
      /\ posted \in Count /\ ran \in Count
  BY FifoIsQueueIsFifo, QueueType DEF IInv, LoopInv, LoopTypeOK, Count
<1>1. FlagsOK'
  BY <1>0, FlagsStep DEF LoopTypeOK
\* It is enough to keep the four parts.
<1>2. ASSUME FlagsOK' => LoopTypeOK', LocalQueueInv', WakeupInv', CountInv',
             Fifo(Queue', posted', ran')
      PROVE  IInv'
  BY <1>1, <1>2 DEF IInv, LoopInv, QueueIsFifo, Fifo
<1> USE DEF LocalQueueInv, WakeupInv, CountInv
<1>3. ASSUME NEW t \in Thread, Push(t)
      PROVE  IInv'
  <2> DEFINE f == <<t, posted[t] + 1>>
  <2>1. f \in Functor
    BY <1>0, <1>3 DEF Push, Functor, Count
  <2>2. /\ posted' = [posted EXCEPT ![t] = @ + 1] /\ posted[t] < MaxPosts
        /\ pending_functors_' = Append(pending_functors_, f)
        /\ caller' = [caller EXCEPT ![t] = "wakeup"]
        /\ owner' = owner /\ functors' = functors /\ batch' = batch /\ ran' = ran
        /\ calling_pending_functors_' = calling_pending_functors_
    BY <1>3 DEF Push, ownerVars
  <2>3. Queue' = Append(Queue, f)
    <3>1. functors \in Seq(Functor) /\ pending_functors_ \in Seq(Functor)
      BY <1>0, QueueParts
    <3>2. functors \o Append(pending_functors_, f) = Append(functors \o pending_functors_, f)
      <4> HIDE DEF f
      <4> QED BY <2>1, <3>1, AppendToConcat
    <3>3. Queue' = functors \o Append(pending_functors_, f)
      BY <2>2, Zenon DEF Queue
    <3> QED BY <3>2, <3>3, Zenon DEF Queue
  <2>4. Fifo(Queue', posted', ran')
    BY <1>0, <2>2, <2>3, AppendPosted
  <2>5. FlagsOK' => LoopTypeOK'
    BY <1>0, <2>1, <2>2 DEF LoopTypeOK, CallerStates, Count
  <2>6. caller'[t] = "wakeup"
    BY <1>0, <2>2 DEF LoopTypeOK
  <2>7. CountInv'
    BY <1>0, <2>2 DEF Count
  <2> QED BY <1>0, <1>2, <2>2, <2>4, <2>5, <2>6, <2>7
<1>4. ASSUME NEW t \in Thread, Wakeup(t)
      PROVE  IInv'
  <2>1. Queue' = Queue
    BY <1>4 DEF Wakeup, Queue, ownerVars
  <2>2. FlagsOK' => LoopTypeOK'
    BY <1>0, <1>4 DEF Wakeup, LoopTypeOK, CallerStates, ownerVars
  <2> QED BY <1>0, <1>2, <1>4, <2>1, <2>2 DEF Wakeup, ownerVars
<1>5. ASSUME NEW t \in Thread, QuitByThread(t)
      PROVE  IInv'
  <2>1. Queue' = Queue
    BY <1>5 DEF QuitByThread, Queue, ownerVars
  <2>2. FlagsOK' => LoopTypeOK'
    BY <1>0, <1>5 DEF QuitByThread, LoopTypeOK, CallerStates, ownerVars
  <2>3. caller'[t] = "wakeup"
    BY <1>0, <1>5 DEF QuitByThread, LoopTypeOK
  <2> QED BY <1>0, <1>2, <1>5, <2>1, <2>2, <2>3 DEF QuitByThread, ownerVars
<1>6. CASE IoArrives
  <2>1. Queue' = Queue
    BY <1>6 DEF IoArrives, Queue, ownerVars
  <2>2. FlagsOK' => LoopTypeOK'
    BY <1>0, <1>6 DEF IoArrives, LoopTypeOK, ownerVars
  <2> QED BY <1>0, <1>2, <1>6, <2>1, <2>2 DEF IoArrives, ownerVars
<1>7. CASE Setup
  <2>1. /\ owner = "setup" /\ owner' = owner /\ functors' = functors
        /\ batch' = batch /\ caller' = caller
        /\ posted' = posted /\ ran' = ran
        /\ OwnerRunInLoop(functors \o pending_functors_)
    BY <1>7 DEF Setup, ownerVars, Queue
  <2>2. /\ Fifo(Queue', posted, ran)
        /\ pending_functors_' \in Seq(Functor)
    BY <1>0, <2>1, ClientCodeKeeps DEF LoopTypeOK, Queue
  <2>3. FlagsOK' => LoopTypeOK'
    BY <1>0, <2>1, <2>2 DEF LoopTypeOK
  <2> QED BY <1>0, <1>2, <2>1, <2>2, <2>3
<1>8. CASE EnterLoop
  <2>1. Queue' = Queue
    BY <1>8 DEF EnterLoop, Queue
  <2>2. FlagsOK' => LoopTypeOK'
    BY <1>0, <1>8 DEF EnterLoop, LoopTypeOK, OwnerStates
  <2> QED BY <1>0, <1>2, <1>8, <2>1, <2>2 DEF EnterLoop
<1>9. CASE LeaveLoop
  <2>1. Queue' = Queue
    BY <1>9 DEF LeaveLoop, Queue
  <2>2. FlagsOK' => LoopTypeOK'
    BY <1>0, <1>9 DEF LeaveLoop, LoopTypeOK, OwnerStates
  <2> QED BY <1>0, <1>2, <1>9, <2>1, <2>2 DEF LeaveLoop
<1>10. CASE SwapFunctors
  <2>1. functors = <<>> /\ functors' = pending_functors_ /\ pending_functors_' = <<>>
    BY <1>0, <1>10 DEF SwapFunctors
  <2>2. Queue' = Queue
    BY <1>0, <2>1 DEF Queue, LoopTypeOK
  <2>3. FlagsOK' => LoopTypeOK'
    BY <1>0, <1>10 DEF SwapFunctors, LoopTypeOK, OwnerStates
  <2> QED BY <1>0, <1>2, <1>10, <2>1, <2>2, <2>3 DEF SwapFunctors
<1>11. CASE RunFunctor
  <2> DEFINE loc == Tail(functors)
  <2>1. /\ owner = "run" /\ owner' = owner /\ functors # <<>> /\ functors' = loc
        /\ batch' = batch /\ caller' = caller /\ posted' = posted
        /\ calling_pending_functors_' = calling_pending_functors_
        /\ ran' = RanAfter(Head(functors))
        /\ ClientCode(loc \o pending_functors_)
    BY <1>11 DEF RunFunctor
  <2>2. /\ Queue # <<>> /\ Head(Queue) = Head(functors)
        /\ Tail(Queue) = loc \o pending_functors_ /\ loc \in Seq(Functor)
    <3>1. /\ functors \in Seq(Functor) /\ functors # <<>>
          /\ pending_functors_ \in Seq(Functor)
      BY <1>0, <2>1 DEF LoopTypeOK
    <3> QED BY <3>1 DEF Queue
  <2>3. /\ Fifo(loc \o pending_functors_, posted, ran') /\ ran' \in Count
        /\ \A t \in Thread : ran'[t] <= posted[t]
    <3>1. ran' = IF Head(Queue)[1] = Owner THEN ran
                 ELSE [ran EXCEPT ![Head(Queue)[1]] = @ + 1]
      BY <2>1, <2>2 DEF RanAfter
    <3> HIDE DEF loc
    <3> QED BY <1>0, <2>2, <3>1, PopHead
  <2>4. /\ Fifo(Queue', posted, ran')
        /\ pending_functors_' \in Seq(Functor)
        /\ \/ pending_functors_' = pending_functors_ /\ wakeup_fd_' = wakeup_fd_
           \/ wakeup_fd_' = TRUE
    <3> HIDE DEF loc
    <3> QED BY <1>0, <2>1, <2>2, <2>3, ClientCodeKeeps
  <2>5. FlagsOK' => LoopTypeOK'
    <3> HIDE DEF loc
    <3> QED BY <1>0, <2>1, <2>2, <2>3, <2>4 DEF LoopTypeOK, Count
  <2> HIDE DEF loc
  <2> QED BY <1>0, <1>2, <2>1, <2>3, <2>4, <2>5
<1>12. CASE EndFunctors
  <2>1. Queue' = Queue
    BY <1>12 DEF EndFunctors, Queue
  <2>2. FlagsOK' => LoopTypeOK'
    BY <1>0, <1>12 DEF EndFunctors, LoopTypeOK, OwnerStates
  <2> QED BY <1>0, <1>2, <1>12, <2>1, <2>2 DEF EndFunctors
<1>13. CASE PollReturns
  <2>1. Queue' = Queue
    BY <1>13 DEF PollReturns, Queue
  <2>2. FlagsOK' => LoopTypeOK'
    BY <1>0, <1>13 DEF PollReturns, LoopTypeOK, OwnerStates, ReadyChannels
  <2> QED BY <1>0, <1>2, <1>13, <2>1, <2>2 DEF PollReturns
<1>14. CASE PollTimesOut
  <2>1. Queue' = Queue
    BY <1>14 DEF PollTimesOut, Queue
  <2>2. FlagsOK' => LoopTypeOK'
    BY <1>0, <1>14 DEF PollTimesOut, LoopTypeOK, OwnerStates
  <2> QED BY <1>0, <1>2, <1>14, <2>1, <2>2 DEF PollTimesOut
<1>15. CASE HandleWakeup
  <2>1. Queue' = Queue
    BY <1>15 DEF HandleWakeup, Queue
  <2>2. FlagsOK' => LoopTypeOK'
    BY <1>0, <1>15 DEF HandleWakeup, LoopTypeOK
  <2> QED BY <1>0, <1>2, <1>15, <2>1, <2>2 DEF HandleWakeup
<1>16. CASE HandleIo
  <2>1. /\ owner = "dispatch" /\ owner' = owner /\ functors' = functors
        /\ batch' = batch \ {"io"} /\ caller' = caller
        /\ posted' = posted /\ ran' = ran
        /\ ClientCode(functors \o pending_functors_)
    BY <1>16 DEF HandleIo, Queue
  <2>2. /\ Fifo(Queue', posted, ran)
        /\ pending_functors_' \in Seq(Functor)
    BY <1>0, <2>1, ClientCodeKeeps DEF LoopTypeOK, Queue
  <2>3. FlagsOK' => LoopTypeOK'
    BY <1>0, <2>1, <2>2 DEF LoopTypeOK
  <2> QED BY <1>0, <1>2, <2>1, <2>2, <2>3
<1>17. CASE EndDispatch
  <2>1. Queue' = Queue
    BY <1>17 DEF EndDispatch, Queue
  <2>2. FlagsOK' => LoopTypeOK'
    BY <1>0, <1>17 DEF EndDispatch, LoopTypeOK, OwnerStates
  <2> QED BY <1>0, <1>2, <1>17, <2>1, <2>2 DEF EndDispatch
<1>18. CASE UNCHANGED loopVars
  <2>1. Queue' = Queue
    BY <1>18 DEF loopVars, Queue
  <2>2. FlagsOK' => LoopTypeOK'
    BY <1>0, <1>18 DEF loopVars, LoopTypeOK
  <2> QED BY <1>0, <1>2, <1>18, <2>1, <2>2 DEF loopVars
<1> QED
  BY <1>3, <1>4, <1>5, <1>6, <1>7, <1>8, <1>9, <1>10, <1>11, <1>12, <1>13, <1>14,
     <1>15, <1>16, <1>17, <1>18
  DEF LoopNext, Loop
-----------------------------------------------------------------------------
\* What the inductive invariant says of the properties the runs check.
LEMMA IInvImplies == IInv => LoopTypeOK /\ NoLostWakeup /\ QueueIsFifo
  BY DEF IInv, LoopInv, WakeupInv, NoLostWakeup

\* A base loop, or any EventLoop that other threads call into at any time:
\* its type, no lost wakeup, and execution in FIFO order without loss.
THEOREM LoopSafety == LoopSpec => [](LoopTypeOK /\ NoLostWakeup /\ QueueIsFifo)
<1>1. LoopInit => IInv
  BY IInvInit
<1>2. IInv /\ [LoopNext]_loopVars => IInv'
  BY IInvStep
<1> QED BY <1>1, <1>2, IInvImplies, PTL DEF LoopSpec

\* Every step of the thread's life is a step of its loop or leaves it alone.
LEMMA ThreadStepsAreLoopSteps == [Next]_vars => [LoopNext]_loopVars
<1> SUFFICES ASSUME [Next]_vars PROVE [LoopNext]_loopVars
  OBVIOUS
<1>1. CASE UNCHANGED vars
  BY <1>1 DEF vars, loopVars
<1>2. CASE SpawnThread \/ TestLoopPtr \/ SpuriousWakeup \/ Publish \/ Notify
           \/ ThreadFuncReturns \/ Join
  BY <1>2 DEF SpawnThread, TestLoopPtr, SpuriousWakeup, Publish, Notify,
              ThreadFuncReturns, Join
<1>3. CASE WorkerLoops
  BY <1>3 DEF WorkerLoops, LoopNext
<1>4. ASSUME NEW t \in Thread, Post(t) \/ FinishCall(t)
      PROVE  LoopNext
  BY <1>4 DEF Post, FinishCall, LoopNext
<1>5. CASE Stop \/ Destroy
  BY <1>5, CreatorAssumption DEF Stop, Destroy, LoopNext
<1>6. CASE IoArrives
  BY <1>6 DEF LoopNext
<1> QED BY <1>1, <1>2, <1>3, <1>4, <1>5, <1>6 DEF Next

\* The invariant of the loop holds of the one a thread starts.
LEMMA ThreadInv == Spec => []IInv
<1>1. Init => IInv
  BY IInvInit DEF Init
<1>2. IInv /\ [Next]_vars => IInv'
  BY IInvStep, ThreadStepsAreLoopSteps
<1> QED BY <1>1, <1>2, PTL DEF Spec

\* Type of the loop's state, for any threads and any number of functors.
THEOREM LoopTypeCorrect == Spec => []LoopTypeOK
  BY ThreadInv, IInvImplies, PTL

\* A functor queued while the owner sleeps in epoll_wait always has its wakeup
\* written or about to be written (event_loop.cpp:45-73).
THEOREM WakeupNeverLost == Spec => []NoLostWakeup
  BY ThreadInv, IInvImplies, PTL

\* Functors are executed once, and in the order their thread queued them.
THEOREM FunctorsInOrder == Spec => []QueueIsFifo
  BY ThreadInv, IInvImplies, PTL
=============================================================================
