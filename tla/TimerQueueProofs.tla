-------------------------- MODULE TimerQueueProofs --------------------------
(***************************************************************************)
(* For every set of addresses, number of timers, delays and intervals:     *)
(* no entry of the queue or of the running batch outlives its Timer, the   *)
(* two indexes agree, the timerfd covers the earliest timer, and a         *)
(* cancellation that took effect is final.                                 *)
(***************************************************************************)
EXTENDS TimerQueue, SequenceTheorems, WellFoundedInduction, TLAPS

-----------------------------------------------------------------------------
(* The inductive invariant.                                                *)

\* The batch handleRead works on exists while its callbacks run, the functors
\* loop() runs are all done before it polls, and what the poll returned is
\* handled before they run again.
PhasesOK ==
    /\ phase # "callbacks" => expired = {} /\ toRun = {}
    /\ phase # "functors" => functors = <<>>
    /\ timerEvent => phase = "events"

\* Sequence numbers are never given twice.
SeqsPast ==
    /\ \A a \in Allocated : heap[a].seq < numCreated
    /\ \A id \in issued \cup stopped : id.seq < numCreated

\* The timers whose insertion waits in a queue of functors.
AddsIn(q) == {q[i].id : i \in {j \in DOMAIN q : q[j].op = "add"}}
Once(q) ==
    \A i, j \in DOMAIN q :
        q[i].op = "add" /\ q[j].op = "add" /\ q[i].id = q[j].id => i = j

Waiting == {e.timer : e \in timers_}
Batch == {e.timer : e \in expired}
Queued == AddsIn(functors) \cup AddsIn(pending_functors_)

\* A Timer is in one of three places: waiting in the queue, in the running
\* batch, or its insertion is queued, once.
InOnePlace ==
    /\ Once(functors) /\ Once(pending_functors_)
    /\ AddsIn(functors) \cap AddsIn(pending_functors_) = {}
    /\ \A id \in Queued : Exists(id) /\ id.timer \notin Waiting \cup Batch
    /\ \A a \in Allocated : a \in Waiting \cup Batch \/ IdAt(a) \in Queued

\* What was cancelled is gone, or is in the running batch and marked.
StoppedGone ==
    \A id \in stopped : Exists(id) => id.timer \in Batch /\ id \in cancelingTimers_

TimerInv ==
    /\ TypeOK /\ PhasesOK /\ SeqsPast
    /\ NoDanglingTimer /\ IndexesAgree /\ InOnePlace
    /\ StoppedGone

-----------------------------------------------------------------------------
(* Facts about the model's operators.                                      *)

\* A Timer at an address is not the null pointer.
LEMMA FreeIsNoTimer == Free \notin Timer
<1>1. MaxTimers \in Nat /\ Intervals \subseteq Nat
  BY TimerAssumption
<1>2. ASSUME NEW t \in Timer PROVE t \in [seq : Nat, when : Nat, interval : Nat]
  <2>1. 0 .. MaxTimers - 1 \subseteq Nat /\ Intervals \cup {0} \subseteq Nat
    BY <1>1
  <2> QED BY <2>1 DEF Timer
<1> QED BY <1>2, TimerAssumption

\* The Timer at an address somebody holds, its id and its entry.
LEMMA AllocatedTimer ==
    ASSUME TypeOK, NEW a \in Allocated
    PROVE  /\ a \in Addr /\ heap[a] \in Timer
           /\ IdAt(a) \in Id /\ IdAt(a).timer = a /\ IdAt(a).seq = heap[a].seq
           /\ EntryAt(a) \in Entry /\ EntryAt(a).timer = a
<1>1. a \in Addr /\ heap[a] \in Timer
  BY DEF TypeOK, Allocated
<1>2. heap[a].seq \in 0 .. MaxTimers - 1 /\ heap[a].when \in Nat
  BY <1>1 DEF Timer
<1> QED BY <1>1, <1>2 DEF IdAt, EntryAt, Id, Entry

\* The earliest of a set of entries exists.
LEMMA EarliestIn ==
    ASSUME NEW S \in SUBSET Entry, S # {}
    PROVE  /\ Earliest(S) \in Nat /\ \E e \in S : Earliest(S) = e.when
           /\ \A e \in S : Earliest(S) <= e.when
<1> DEFINE T == {e.when : e \in S}
<1>1. T \subseteq Nat /\ T # {}
  BY DEF Entry
<1> HIDE DEF T
<1>2. PICK w \in T : \A v \in T : ~ (<<v, w>> \in OpToRel(<, Nat))
  <2> DEFINE R == OpToRel(<, Nat)
  <2>1. IsWellFoundedOn(R, Nat)
    BY NatLessThanWellFounded
  <2> HIDE DEF R
  <2>2. \E w \in T : \A v \in T : ~ (<<v, w>> \in R)
    BY <1>1, <2>1, WFMin
  <2> QED BY <2>2 DEF R
<1>3. \A v \in T : ~ (v < w)
  BY <1>1, <1>2 DEF OpToRel
<1>4. \A v \in T : w <= v
  BY <1>1, <1>3
<1>5. \A e \in S : e.when \in T
  BY DEF T
<1>6. Earliest(S) \in T /\ \A e \in S : Earliest(S) <= e.when
  BY <1>4, <1>5 DEF Earliest, T
<1> QED BY <1>1, <1>6 DEF T

\* The insertions queued in a sequence of functors, when one is added at the
\* end or taken from the front.
LEMMA AddsEmpty == AddsIn(<<>>) = {} /\ Once(<<>>)
BY DEF AddsIn, Once

\* A functor added at the end.
LEMMA AddsAppend ==
    ASSUME NEW q \in Seq(Op), NEW o \in Op, Once(q),
           o.op = "add" => o.id \notin AddsIn(q)
    PROVE  /\ Append(q, o) \in Seq(Op) /\ Once(Append(q, o))
           /\ AddsIn(Append(q, o)) = AddsIn(q) \cup IF o.op = "add" THEN {o.id} ELSE {}
<1> DEFINE r == Append(q, o)
           n == Len(q) + 1
<1>1. /\ q \in Seq(Op) /\ Len(q) \in Nat /\ DOMAIN q = 1 .. Len(q)
      /\ r \in Seq(Op) /\ Len(r) = n /\ DOMAIN r = 1 .. Len(r)
      /\ \A i \in 1 .. Len(q) : r[i] = q[i]
      /\ r[n] = o
  <2>1. r \in Seq(Op) /\ Len(r) = n /\ r[n] = o /\ \A i \in 1 .. Len(q) : r[i] = q[i]
    BY AppendProperties
  <2> HIDE DEF r
  <2> QED BY <2>1, LenProperties
<1>2. DOMAIN r = DOMAIN q \cup {n} /\ n \notin DOMAIN q
  BY <1>1
<1>3. \A i \in DOMAIN q : r[i] = q[i]
  BY <1>1
<1>4. r[n] = o /\ r \in Seq(Op)
  BY <1>1
<1> HIDE DEF r, n
<1>5. AddsIn(r) = AddsIn(q) \cup IF o.op = "add" THEN {o.id} ELSE {}
  BY <1>2, <1>3, <1>4 DEF AddsIn
<1>6. \A i \in DOMAIN q : q[i].op = "add" => q[i].id \in AddsIn(q)
  BY DEF AddsIn
<1>7. Once(r)
  BY <1>2, <1>3, <1>4, <1>6 DEF Once
<1> QED BY <1>4, <1>5, <1>7 DEF r

\* A functor taken from the front.
LEMMA AddsTail ==
    ASSUME NEW q \in Seq(Op), q # <<>>, Once(q)
    PROVE  /\ Head(q) \in Op /\ Tail(q) \in Seq(Op) /\ Once(Tail(q))
           /\ AddsIn(q) = AddsIn(Tail(q))
                \cup IF Head(q).op = "add" THEN {Head(q).id} ELSE {}
           /\ Head(q).op = "add" => Head(q).id \notin AddsIn(Tail(q))
<1> DEFINE r == Tail(q)
<1>1. /\ Len(q) \in Nat /\ DOMAIN q = 1 .. Len(q) /\ 1 \in DOMAIN q /\ Head(q) = q[1]
      /\ Head(q) \in Op /\ r \in Seq(Op) /\ Len(r) = Len(q) - 1
      /\ DOMAIN r = 1 .. Len(r)
      /\ \A i \in 1 .. Len(r) : r[i] = q[i + 1]
  <2>1. /\ Head(q) \in Op /\ r \in Seq(Op) /\ Len(r) = Len(q) - 1
        /\ \A i \in 1 .. Len(r) : r[i] = q[i + 1]
    BY HeadTailProperties
  <2> HIDE DEF r
  <2> QED BY <2>1, EmptySeq, LenProperties
<1> HIDE DEF r
<1>2. ASSUME NEW i \in DOMAIN r
      PROVE  i \in Nat /\ i + 1 \in DOMAIN q /\ i + 1 # 1 /\ r[i] = q[i + 1]
  BY <1>1
<1>3. ASSUME NEW j \in DOMAIN q, j # 1
      PROVE  \E i \in DOMAIN r : r[i] = q[j]
  <2> DEFINE i == j - 1
  <2>1. i \in DOMAIN r /\ i + 1 = j
    BY <1>1, <1>3
  <2> HIDE DEF i
  <2> QED BY <1>1, <2>1
<1>4. AddsIn(q) = AddsIn(r) \cup IF Head(q).op = "add" THEN {Head(q).id} ELSE {}
  <2>1. ASSUME NEW id \in AddsIn(q)
        PROVE  id \in AddsIn(r) \cup IF Head(q).op = "add" THEN {Head(q).id} ELSE {}
    <3>1. PICK j \in DOMAIN q : q[j].op = "add" /\ id = q[j].id
      BY DEF AddsIn
    <3>2. CASE j = 1
      BY <1>1, <3>1, <3>2
    <3>3. CASE j # 1
      <4>1. PICK i \in DOMAIN r : r[i] = q[j]
        BY <1>3, <3>3
      <4> QED BY <3>1, <4>1 DEF AddsIn
    <3> QED BY <3>2, <3>3
  <2>2. ASSUME NEW id \in AddsIn(r) PROVE id \in AddsIn(q)
    <3>1. PICK i \in DOMAIN r : r[i].op = "add" /\ id = r[i].id
      BY DEF AddsIn
    <3> DEFINE j == i + 1
    <3>2. j \in DOMAIN q /\ q[j].op = "add" /\ id = q[j].id
      BY <1>2, <3>1
    <3> HIDE DEF j
    <3> QED BY <3>2 DEF AddsIn
  <2>3. Head(q).op = "add" => Head(q).id \in AddsIn(q)
    BY <1>1 DEF AddsIn
  <2> QED BY <2>1, <2>2, <2>3
<1>5. Once(r)
  <2> SUFFICES ASSUME NEW i \in DOMAIN r, NEW j \in DOMAIN r,
                      r[i].op = "add", r[j].op = "add", r[i].id = r[j].id
               PROVE  i = j
    BY DEF Once
  <2>1. i + 1 = j + 1
    BY <1>2 DEF Once
  <2> QED BY <1>2, <2>1
<1>6. Head(q).op = "add" => Head(q).id \notin AddsIn(r)
  <2> SUFFICES ASSUME Head(q).op = "add", Head(q).id \in AddsIn(r) PROVE FALSE
    OBVIOUS
  <2>1. PICK i \in DOMAIN r : r[i].op = "add" /\ Head(q).id = r[i].id
    BY DEF AddsIn
  <2> DEFINE j == i + 1
  <2>2. j \in DOMAIN q /\ j # 1 /\ q[j].op = "add" /\ q[j].id = q[1].id
    BY <1>1, <1>2, <2>1
  <2> HIDE DEF j
  <2> QED BY <1>1, <2>2 DEF Once
<1> QED BY <1>1, <1>4, <1>5, <1>6 DEF r

-----------------------------------------------------------------------------
(* The books in terms of the addresses they are about.                     *)

\* Each list is told by the addresses it holds.
LEMMA Places ==
    ASSUME TimerInv
    PROVE  /\ Waiting \subseteq Allocated /\ Batch \subseteq Allocated
           /\ Waiting \cap Batch = {}
           /\ timers_ = {EntryAt(a) : a \in Waiting}
           /\ expired = {EntryAt(a) : a \in Batch}
           /\ activeTimers_ = {IdAt(a) : a \in Waiting}
           /\ \A id \in Queued : /\ id.timer \in Allocated /\ IdAt(id.timer) = id
                                 /\ id.timer \notin Waiting \cup Batch
           /\ Allocated \subseteq Addr
<1>1. \A e \in timers_ \cup expired : e.timer \in Allocated /\ e = EntryAt(e.timer)
  BY DEF TimerInv, NoDanglingTimer
<1>2. timers_ \cap expired = {}
  BY DEF TimerInv, NoDanglingTimer
<1>3. Waiting \subseteq Allocated /\ Batch \subseteq Allocated
  BY <1>1 DEF Waiting, Batch
<1>4. Waiting \cap Batch = {}
  <2> SUFFICES ASSUME NEW a \in Waiting, a \in Batch PROVE FALSE
    OBVIOUS
  <2>1. PICK e \in timers_ : a = e.timer
    BY DEF Waiting
  <2>2. PICK f \in expired : a = f.timer
    BY DEF Batch
  <2> QED BY <1>1, <1>2, <2>1, <2>2
<1>5. timers_ = {EntryAt(a) : a \in Waiting} /\ expired = {EntryAt(a) : a \in Batch}
  BY <1>1 DEF Waiting, Batch
<1>6. activeTimers_ = {IdAt(a) : a \in Waiting}
  BY DEF TimerInv, IndexesAgree, Waiting
<1>7. \A id \in Queued : /\ id.timer \in Allocated /\ IdAt(id.timer) = id
                         /\ id.timer \notin Waiting \cup Batch
  BY DEF TimerInv, InOnePlace, Exists
<1>8. Allocated \subseteq Addr
  BY DEF Allocated
<1> QED BY <1>3, <1>4, <1>5, <1>6, <1>7, <1>8

\* And the other way round: lists told by disjoint sets of addresses agree.
LEMMA PlacesNext ==
    ASSUME NEW W \in SUBSET Allocated', NEW B \in SUBSET Allocated', W \cap B = {},
           timers_' = {EntryAt(a)' : a \in W},
           expired' = {EntryAt(a)' : a \in B},
           activeTimers_' = {IdAt(a)' : a \in W}
    PROVE  NoDanglingTimer' /\ IndexesAgree' /\ Waiting' = W /\ Batch' = B
<1>1. \A a : EntryAt(a)'.timer = a /\ IdAt(a)'.timer = a
  BY DEF EntryAt, IdAt
<1>2. Waiting' = W /\ Batch' = B
  BY <1>1 DEF Waiting, Batch
<1>3. NoDanglingTimer'
  <2>1. ASSUME NEW e \in timers_' \cup expired'
        PROVE  e.timer \in Allocated' /\ e = EntryAt(e.timer)'
    <3>1. PICK a \in W \cup B : e = EntryAt(a)'
      OBVIOUS
    <3> QED BY <1>1, <3>1
  <2>2. timers_' \cap expired' = {}
    <3> SUFFICES ASSUME NEW e \in timers_', e \in expired' PROVE FALSE
      OBVIOUS
    <3>1. PICK a \in W : e = EntryAt(a)'
      OBVIOUS
    <3>2. PICK b \in B : e = EntryAt(b)'
      OBVIOUS
    <3>3. a = b
      BY <1>1, <3>1, <3>2
    <3> QED BY <3>3
  <2> QED BY <2>1, <2>2 DEF NoDanglingTimer
<1>4. IndexesAgree'
  <2>1. {IdAt(e.timer)' : e \in timers_'} = {IdAt(a)' : a \in W}
    BY <1>1
  <2> QED BY <2>1 DEF IndexesAgree
<1> QED BY <1>2, <1>3, <1>4

\* A step that moves no Timer and touches no list leaves the books as they are.
LEMMA SameBooks ==
    ASSUME TimerInv, UNCHANGED <<heap, numCreated, timers_, activeTimers_>>,
           UNCHANGED <<cancelingTimers_, expired, issued, stopped>>
    PROVE  /\ NoDanglingTimer' /\ IndexesAgree' /\ SeqsPast' /\ StoppedGone'
           /\ UNCHANGED <<pending_functors_, functors>> => InOnePlace'
<1>1. /\ Allocated' = Allocated /\ Waiting' = Waiting /\ Batch' = Batch
      /\ \A a : IdAt(a)' = IdAt(a) /\ EntryAt(a)' = EntryAt(a)
      /\ \A id : Exists(id)' <=> Exists(id)
  BY DEF Allocated, Waiting, Batch, IdAt, EntryAt, Exists
<1>2. NoDanglingTimer' /\ IndexesAgree'
  BY <1>1 DEF TimerInv, NoDanglingTimer, IndexesAgree
<1>3. SeqsPast'
  BY <1>1 DEF TimerInv, SeqsPast
<1>4. StoppedGone'
  BY <1>1 DEF TimerInv, StoppedGone
<1>5. UNCHANGED <<pending_functors_, functors>> => InOnePlace'
  BY <1>1 DEF TimerInv, InOnePlace, Queued
<1> QED BY <1>2, <1>3, <1>4, <1>5

\* A new Timer gets an address nobody has and a number nobody had.
LEMMA NewTimerFacts ==
    ASSUME TimerInv, NEW a \in Addr, NEW when \in Nat,
           NEW interval \in Intervals \cup {0}, NewTimer(a, when, interval),
           NEW new, new = [timer |-> a, seq |-> numCreated]
    PROVE  /\ heap' \in [Addr -> Timer \cup {Free}]
           /\ numCreated' \in 0 .. MaxTimers
           /\ new \in Id /\ issued' \subseteq Id
           /\ a \notin Allocated /\ Allocated' = Allocated \cup {a}
           /\ \A b \in Allocated : IdAt(b)' = IdAt(b) /\ EntryAt(b)' = EntryAt(b)
           /\ IdAt(a)' = new /\ EntryAt(a)' = [when |-> when, timer |-> a]
           /\ new \notin stopped /\ new \notin Queued
           /\ \A id \in stopped \cup Queued : Exists(id)' <=> Exists(id)
           /\ Exists(new)'
           /\ UNCHANGED stopped => SeqsPast'
<1> DEFINE t == [seq |-> numCreated, when |-> when, interval |-> interval]
<1>1. /\ heap \in [Addr -> Timer \cup {Free}] /\ numCreated \in 0 .. MaxTimers
      /\ issued \subseteq Id /\ stopped \subseteq Id /\ MaxTimers \in Nat
  BY TimerAssumption DEF TimerInv, TypeOK
<1>2. /\ heap[a] = Free /\ numCreated < MaxTimers /\ heap' = [heap EXCEPT ![a] = t]
      /\ numCreated' = numCreated + 1 /\ issued' = issued \cup {new}
  BY DEF NewTimer
<1>3. numCreated \in 0 .. MaxTimers - 1 /\ numCreated' \in 0 .. MaxTimers
  BY <1>1, <1>2
<1>4. t \in Timer /\ new \in Id
  BY <1>3 DEF Timer, Id
<1>5. /\ heap' \in [Addr -> Timer \cup {Free}] /\ heap'[a] = t
      /\ \A b \in Addr \ {a} : heap'[b] = heap[b]
  BY <1>1, <1>2, <1>4
<1>6. t # Free
  BY <1>4, FreeIsNoTimer
<1>7. a \notin Allocated /\ Allocated' = Allocated \cup {a} /\ Allocated \subseteq Addr
  <2>1. heap'[a] # Free
    BY <1>5, <1>6
  <2> QED BY <1>2, <1>5, <2>1 DEF Allocated
<1>8. /\ \A b \in Allocated : IdAt(b)' = IdAt(b) /\ EntryAt(b)' = EntryAt(b)
      /\ IdAt(a)' = new /\ EntryAt(a)' = [when |-> when, timer |-> a]
  BY <1>5, <1>7 DEF IdAt, EntryAt
<1>9. \A id \in stopped : id.seq < numCreated
  BY DEF TimerInv, SeqsPast
<1>10. \A id \in Queued : id.timer \in Allocated /\ IdAt(id.timer) = id
  BY Places
<1>11. new \notin stopped /\ new \notin Queued
  BY <1>1, <1>7, <1>9, <1>10
<1>12. ASSUME NEW id \in stopped \cup Queued
       PROVE  Exists(id)' <=> Exists(id)
  <2>1. CASE id.timer = a
    <3>1. id \in stopped /\ id # new
      BY <1>7, <1>10, <1>11, <2>1
    <3> QED BY <1>7, <1>8, <2>1, <3>1 DEF Exists
  <2>2. CASE id.timer # a
    BY <1>7, <1>8, <2>2 DEF Exists
  <2> QED BY <2>1, <2>2
<1>13. Exists(new)'
  BY <1>7, <1>8 DEF Exists
<1>14. UNCHANGED stopped => SeqsPast'
  <2> SUFFICES ASSUME UNCHANGED stopped PROVE SeqsPast'
    OBVIOUS
  <2>1. ASSUME NEW b \in Allocated' PROVE heap'[b].seq < numCreated'
    <3>1. CASE b = a
      BY <1>2, <1>3, <1>5, <3>1
    <3>2. CASE b # a
      <4>1. heap'[b] = heap[b] /\ heap[b].seq < numCreated /\ b \in Allocated
        BY <1>5, <1>7, <3>2 DEF TimerInv, SeqsPast
      <4>2. heap[b].seq \in Int
        BY <1>1, <4>1, AllocatedTimer DEF TimerInv, Timer
      <4> QED BY <1>2, <1>3, <4>1, <4>2
    <3> QED BY <3>1, <3>2
  <2>2. ASSUME NEW id \in issued' \cup stopped' PROVE id.seq < numCreated'
    <3>1. CASE id = new
      BY <1>2, <1>3, <3>1
    <3>2. CASE id # new
      <4>1. id \in issued \cup stopped /\ id.seq < numCreated /\ id \in Id
        BY <1>1, <1>2, <2>2, <3>2 DEF TimerInv, SeqsPast
      <4>2. id.seq \in Int
        BY <1>1, <4>1 DEF Id
      <4> QED BY <1>2, <1>3, <4>1, <4>2
    <3> QED BY <3>1, <3>2
  <2> QED BY <2>1, <2>2 DEF SeqsPast
<1> QED BY <1>1, <1>2, <1>3, <1>4, <1>5, <1>7, <1>8, <1>11, <1>12, <1>13, <1>14

-----------------------------------------------------------------------------
(* The client's steps.                                                     *)

\* addTimer from elsewhere: the Timer's place is the queue of functors.
LEMMA AddQueuedStep ==
    ASSUME TimerInv, NEW a \in Addr, NEW when \in Nat,
           NEW interval \in Intervals \cup {0}, AddQueued(a, when, interval)
    PROVE  TimerInv'
<1>1. PICK new : new = [timer |-> a, seq |-> numCreated]
  OBVIOUS
<1>2. /\ NewTimer(a, when, interval)
      /\ pending_functors_' = Append(pending_functors_, [op |-> "add", id |-> new])
      /\ UNCHANGED clockVars /\ UNCHANGED queueVars /\ UNCHANGED fdVars
      /\ UNCHANGED <<timerEvent, phase, functors>> /\ UNCHANGED batchVars
      /\ UNCHANGED stopped
  BY <1>1 DEF AddQueued, Enqueue
<1>3. /\ heap' \in [Addr -> Timer \cup {Free}]
      /\ numCreated' \in 0 .. MaxTimers
      /\ new \in Id /\ issued' \subseteq Id
      /\ a \notin Allocated /\ Allocated' = Allocated \cup {a}
      /\ \A b \in Allocated : IdAt(b)' = IdAt(b) /\ EntryAt(b)' = EntryAt(b)
      /\ IdAt(a)' = new
      /\ new \notin stopped /\ new \notin Queued
      /\ \A id \in stopped \cup Queued : Exists(id)' <=> Exists(id)
      /\ Exists(new)'
      /\ SeqsPast'
  BY <1>1, <1>2, NewTimerFacts
<1>4. /\ Waiting \subseteq Allocated /\ Batch \subseteq Allocated
      /\ Waiting \cap Batch = {}
      /\ timers_ = {EntryAt(b) : b \in Waiting}
      /\ expired = {EntryAt(b) : b \in Batch}
      /\ activeTimers_ = {IdAt(b) : b \in Waiting}
  BY Places
<1>5. NoDanglingTimer' /\ IndexesAgree' /\ Waiting' = Waiting /\ Batch' = Batch
  <2>1. /\ timers_' = {EntryAt(b)' : b \in Waiting}
        /\ expired' = {EntryAt(b)' : b \in Batch}
        /\ activeTimers_' = {IdAt(b)' : b \in Waiting}
    BY <1>2, <1>3, <1>4 DEF queueVars, batchVars
  <2>2. Waiting \in SUBSET Allocated' /\ Batch \in SUBSET Allocated'
    BY <1>3, <1>4
  <2> QED BY <1>4, <2>1, <2>2, PlacesNext
<1>6. /\ pending_functors_' \in Seq(Op) /\ Once(pending_functors_')
      /\ AddsIn(pending_functors_') = AddsIn(pending_functors_) \cup {new}
  <2> DEFINE o == [op |-> "add", id |-> new]
  <2>1. o \in Op /\ o.op = "add" /\ o.id = new
    BY <1>3 DEF Op
  <2>2. pending_functors_ \in Seq(Op) /\ Once(pending_functors_)
        /\ new \notin AddsIn(pending_functors_)
    BY <1>3 DEF TimerInv, TypeOK, InOnePlace, Queued
  <2>3. pending_functors_' = Append(pending_functors_, o)
    BY <1>2
  <2> HIDE DEF o
  <2> QED BY <2>1, <2>2, <2>3, AddsAppend
<1>7. InOnePlace'
  <2>1. Queued' = Queued \cup {new} /\ UNCHANGED functors
    BY <1>2, <1>6 DEF Queued
  <2>2. Once(functors') /\ AddsIn(functors') \cap AddsIn(pending_functors_') = {}
    BY <1>2, <1>3, <1>6 DEF TimerInv, InOnePlace, Queued
  <2>3. ASSUME NEW id \in Queued'
        PROVE  Exists(id)' /\ id.timer \notin Waiting' \cup Batch'
    <3>1. CASE id = new
      BY <1>1, <1>3, <1>4, <1>5, <3>1
    <3>2. CASE id # new
      BY <1>3, <1>5, <2>1, <3>2 DEF TimerInv, InOnePlace
    <3> QED BY <3>1, <3>2
  <2>4. ASSUME NEW b \in Allocated'
        PROVE  b \in Waiting' \cup Batch' \/ IdAt(b)' \in Queued'
    BY <1>3, <1>5, <2>1 DEF TimerInv, InOnePlace
  <2> QED BY <1>6, <2>2, <2>3, <2>4 DEF InOnePlace
<1>8. StoppedGone'
  BY <1>2, <1>3, <1>5 DEF TimerInv, StoppedGone, queueVars
<1>9. TypeOK'
  BY <1>2, <1>3, <1>6
     DEF TimerInv, TypeOK, clockVars, queueVars, fdVars, batchVars
<1>10. PhasesOK'
  BY <1>2 DEF TimerInv, PhasesOK, batchVars
<1> QED BY <1>3, <1>5, <1>7, <1>8, <1>9, <1>10 DEF TimerInv

\* insert: the types of what it writes.
LEMMA InsertTypes ==
    ASSUME TypeOK, NEW when \in Nat, NEW id \in Id, Insert(when, id)
    PROVE  /\ timers_' \subseteq Entry /\ activeTimers_' \subseteq Id
           /\ armed' \in Int \cup {NotArmed} /\ readable' \in BOOLEAN
<1>1. [when |-> when, timer |-> id.timer] \in Entry
  BY DEF Entry, Id
<1>2. timers_' \subseteq Entry /\ activeTimers_' \subseteq Id
  BY <1>1 DEF Insert, TypeOK
<1>3. now \in Int
  BY DEF TypeOK
<1>4. armed' \in Int \cup {NotArmed} /\ readable' \in BOOLEAN
  <2>1. ArmAt(when) \in Int
    BY <1>3 DEF ArmAt
  <2>2. CASE EarliestChanged(when)
    BY <2>1, <2>2 DEF Insert, ResetTimerfd
  <2>3. CASE ~ EarliestChanged(when)
    BY <2>3 DEF Insert, TypeOK, fdVars
  <2> QED BY <2>2, <2>3
<1> QED BY <1>2, <1>4

\* addTimer from a handler or a callback: its place is the queue of timers.
LEMMA AddInPlaceStep ==
    ASSUME TimerInv, NEW a \in Addr, NEW when \in Nat,
           NEW interval \in Intervals \cup {0}, AddInPlace(a, when, interval)
    PROVE  TimerInv'
<1>1. PICK new : new = [timer |-> a, seq |-> numCreated]
  OBVIOUS
<1>2. /\ NewTimer(a, when, interval) /\ Insert(when, new)
      /\ UNCHANGED clockVars /\ UNCHANGED <<cancelingTimers_, callingExpiredTimers_>>
      /\ UNCHANGED <<timerEvent, phase>> /\ UNCHANGED functorVars
      /\ UNCHANGED batchVars /\ UNCHANGED stopped
  BY <1>1 DEF AddInPlace
<1>3. /\ heap' \in [Addr -> Timer \cup {Free}]
      /\ numCreated' \in 0 .. MaxTimers
      /\ new \in Id /\ issued' \subseteq Id
      /\ a \notin Allocated /\ Allocated' = Allocated \cup {a}
      /\ \A b \in Allocated : IdAt(b)' = IdAt(b) /\ EntryAt(b)' = EntryAt(b)
      /\ IdAt(a)' = new /\ EntryAt(a)' = [when |-> when, timer |-> a]
      /\ new \notin stopped /\ new \notin Queued
      /\ \A id \in stopped \cup Queued : Exists(id)' <=> Exists(id)
      /\ SeqsPast'
  BY <1>1, <1>2, NewTimerFacts
<1>4. /\ Waiting \subseteq Allocated /\ Batch \subseteq Allocated
      /\ Waiting \cap Batch = {}
      /\ timers_ = {EntryAt(b) : b \in Waiting}
      /\ expired = {EntryAt(b) : b \in Batch}
      /\ activeTimers_ = {IdAt(b) : b \in Waiting}
      /\ \A id \in Queued : id.timer \in Allocated
  BY Places
<1>5. /\ NoDanglingTimer' /\ IndexesAgree'
      /\ Waiting' = Waiting \cup {a} /\ Batch' = Batch
  <2> DEFINE W == Waiting \cup {a}
  <2>1. timers_' = timers_ \cup {EntryAt(a)'} /\ activeTimers_' = activeTimers_ \cup {IdAt(a)'}
    BY <1>1, <1>2, <1>3 DEF Insert
  <2>2. /\ timers_' = {EntryAt(b)' : b \in W}
        /\ activeTimers_' = {IdAt(b)' : b \in W}
    BY <1>3, <1>4, <2>1
  <2>3. expired' = {EntryAt(b)' : b \in Batch}
    BY <1>2, <1>3, <1>4 DEF batchVars
  <2>4. W \in SUBSET Allocated' /\ Batch \in SUBSET Allocated' /\ W \cap Batch = {}
    BY <1>3, <1>4
  <2> HIDE DEF W
  <2>5. NoDanglingTimer' /\ IndexesAgree' /\ Waiting' = W /\ Batch' = Batch
    BY <2>2, <2>3, <2>4, PlacesNext
  <2> QED BY <2>5 DEF W
<1>6. InOnePlace'
  <2>1. Queued' = Queued /\ UNCHANGED <<functors, pending_functors_>>
    BY <1>2 DEF Queued, functorVars
  <2>2. ASSUME NEW id \in Queued'
        PROVE  Exists(id)' /\ id.timer \notin Waiting' \cup Batch'
    BY <1>3, <1>4, <1>5, <2>1 DEF TimerInv, InOnePlace
  <2>3. ASSUME NEW b \in Allocated'
        PROVE  b \in Waiting' \cup Batch' \/ IdAt(b)' \in Queued'
    BY <1>3, <1>5, <2>1 DEF TimerInv, InOnePlace
  <2> QED BY <2>1, <2>2, <2>3 DEF TimerInv, InOnePlace
<1>7. StoppedGone'
  BY <1>2, <1>3, <1>5 DEF TimerInv, StoppedGone
<1>8. TypeOK'
  <2>1. /\ timers_' \subseteq Entry /\ activeTimers_' \subseteq Id
        /\ armed' \in Int \cup {NotArmed} /\ readable' \in BOOLEAN
    BY <1>2, <1>3, InsertTypes DEF TimerInv
  <2> QED BY <1>2, <1>3, <2>1
          DEF TimerInv, TypeOK, clockVars, functorVars, batchVars
<1>9. PhasesOK'
  BY <1>2 DEF TimerInv, PhasesOK, functorVars, batchVars
<1> QED BY <1>3, <1>5, <1>6, <1>7, <1>8, <1>9 DEF TimerInv

\* cancelInLoop, wherever it is called from: the Timer it deletes leaves both
\* indexes, and no other list had it.
LEMMA CancelBooks ==
    ASSUME TimerInv, NEW id \in Id, CancelInLoop(id),
           UNCHANGED <<numCreated, issued, expired, pending_functors_>>,
           AddsIn(functors') = AddsIn(functors), Once(functors')
    PROVE  /\ NoDanglingTimer' /\ IndexesAgree' /\ InOnePlace' /\ SeqsPast'
           /\ StoppedGone'
           /\ heap' \in [Addr -> Timer \cup {Free}]
           /\ timers_' \subseteq Entry /\ activeTimers_' \subseteq Id
           /\ cancelingTimers_' \subseteq Id /\ stopped' \subseteq Id
<1>1. /\ heap \in [Addr -> Timer \cup {Free}]
      /\ timers_ \subseteq Entry /\ activeTimers_ \subseteq Id
      /\ cancelingTimers_ \subseteq Id /\ stopped \subseteq Id
  BY DEF TimerInv, TypeOK
<1>2. /\ Waiting \subseteq Allocated /\ Batch \subseteq Allocated
      /\ Waiting \cap Batch = {}
      /\ timers_ = {EntryAt(b) : b \in Waiting}
      /\ expired = {EntryAt(b) : b \in Batch}
      /\ activeTimers_ = {IdAt(b) : b \in Waiting}
      /\ \A i \in Queued : i.timer \in Allocated /\ i.timer \notin Waiting \cup Batch
      /\ Allocated \subseteq Addr
  BY Places
<1>3. \A b : IdAt(b).timer = b /\ EntryAt(b).timer = b
  BY DEF IdAt, EntryAt
<1>4. Queued' = Queued
  BY DEF Queued
<1>5. CASE id \in activeTimers_
  <2> DEFINE a == id.timer
             W == Waiting \ {a}
  <2>1. a \in Waiting /\ IdAt(a) = id /\ a \in Addr /\ a \in Allocated
    BY <1>2, <1>3, <1>5
  <2>2. /\ timers_' = timers_ \ {EntryAt(a)} /\ activeTimers_' = activeTimers_ \ {id}
        /\ heap' = [heap EXCEPT ![a] = Free]
        /\ stopped' = stopped \cup {id} /\ UNCHANGED cancelingTimers_
    BY <1>5 DEF CancelInLoop
  <2> HIDE DEF a
  <2>3. /\ heap' \in [Addr -> Timer \cup {Free}] /\ heap'[a] = Free
        /\ \A b \in Addr \ {a} : heap'[b] = heap[b]
    BY <1>1, <2>1, <2>2
  <2>4. Allocated' = Allocated \ {a}
    BY <1>2, <2>1, <2>3 DEF Allocated
  <2>5. \A b \in Allocated' : IdAt(b)' = IdAt(b) /\ EntryAt(b)' = EntryAt(b)
    BY <1>2, <2>3, <2>4 DEF IdAt, EntryAt
  <2>6. NoDanglingTimer' /\ IndexesAgree' /\ Waiting' = W /\ Batch' = Batch
    <3>1. W \in SUBSET Allocated' /\ Batch \in SUBSET Allocated' /\ W \cap Batch = {}
      BY <1>2, <2>1, <2>4
    <3>2. timers_' = {EntryAt(b) : b \in W} /\ activeTimers_' = {IdAt(b) : b \in W}
      <4>1. {EntryAt(b) : b \in Waiting} \ {EntryAt(a)} = {EntryAt(b) : b \in W}
        BY <1>3
      <4>2. {IdAt(b) : b \in Waiting} \ {IdAt(a)} = {IdAt(b) : b \in W}
        BY <1>3
      <4> QED BY <1>2, <2>1, <2>2, <4>1, <4>2
    <3> HIDE DEF W
    <3>3. /\ timers_' = {EntryAt(b)' : b \in W} /\ activeTimers_' = {IdAt(b)' : b \in W}
          /\ expired' = {EntryAt(b)' : b \in Batch}
      BY <1>2, <2>5, <3>1, <3>2
    <3> QED BY <1>2, <3>1, <3>3, PlacesNext
  <2>7. \A i : i.timer \in Allocated' => (Exists(i)' <=> Exists(i))
    BY <2>4, <2>5 DEF Exists
  <2>8. \A i : Exists(i)' => Exists(i) /\ i # id
    BY <2>4, <2>7 DEF Exists, a
  <2>9. InOnePlace'
    <3>1. ASSUME NEW i \in Queued'
          PROVE  Exists(i)' /\ i.timer \notin Waiting' \cup Batch'
      <4>1. i \in Queued /\ Exists(i) /\ i.timer \in Allocated'
        BY <1>2, <1>4, <2>1, <2>4 DEF TimerInv, InOnePlace
      <4> QED BY <1>2, <2>6, <2>7, <4>1
    <3>2. ASSUME NEW b \in Allocated'
          PROVE  b \in Waiting' \cup Batch' \/ IdAt(b)' \in Queued'
      BY <1>4, <2>4, <2>5, <2>6 DEF TimerInv, InOnePlace
    <3> QED BY <3>1, <3>2 DEF TimerInv, InOnePlace
  <2>10. id.seq < numCreated
    BY <2>1 DEF TimerInv, SeqsPast, IdAt
  <2>11. SeqsPast'
    <3>1. \A b \in Allocated' : heap'[b].seq < numCreated
      BY <1>2, <2>3, <2>4 DEF TimerInv, SeqsPast
    <3> QED BY <2>2, <2>10, <3>1 DEF TimerInv, SeqsPast
  <2>12. StoppedGone'
    BY <2>2, <2>6, <2>8 DEF TimerInv, StoppedGone
  <2> QED BY <1>1, <2>2, <2>3, <2>6, <2>9, <2>11, <2>12
<1>6. CASE id \notin activeTimers_
  <2>1. /\ UNCHANGED <<timers_, activeTimers_, heap>>
        /\ cancelingTimers_ \subseteq cancelingTimers_'
        /\ cancelingTimers_' \subseteq cancelingTimers_ \cup {id}
        /\ \/ UNCHANGED stopped
           \/ /\ stopped' = stopped \cup {id} /\ id \in cancelingTimers_'
              /\ \E e \in expired : IdAt(e.timer) = id
    BY <1>6 DEF CancelInLoop, MarkCanceling
  <2>2. /\ Allocated' = Allocated /\ Waiting' = Waiting /\ Batch' = Batch
        /\ \A b : IdAt(b)' = IdAt(b) /\ EntryAt(b)' = EntryAt(b)
        /\ \A i : Exists(i)' <=> Exists(i)
    BY <2>1 DEF Allocated, Waiting, Batch, IdAt, EntryAt, Exists
  <2>3. NoDanglingTimer' /\ IndexesAgree'
    BY <2>1, <2>2 DEF TimerInv, NoDanglingTimer, IndexesAgree
  <2>4. InOnePlace'
    BY <1>4, <2>2 DEF TimerInv, InOnePlace
  <2>5. \/ UNCHANGED stopped
        \/ /\ stopped' = stopped \cup {id} /\ id \in cancelingTimers_'
           /\ id.timer \in Batch /\ IdAt(id.timer) = id
    BY <1>3, <2>1 DEF Batch
  <2>6. SeqsPast'
    <3>1. UNCHANGED stopped \/ (stopped' = stopped \cup {id} /\ id.seq < numCreated)
      BY <1>2, <2>5 DEF TimerInv, SeqsPast, IdAt
    <3> QED BY <2>1, <2>2, <3>1 DEF TimerInv, SeqsPast
  <2>7. StoppedGone'
    BY <2>1, <2>2, <2>5 DEF TimerInv, StoppedGone
  <2> QED BY <1>1, <2>1, <2>3, <2>4, <2>6, <2>7
<1> QED BY <1>5, <1>6

\* cancel from elsewhere: nothing moves yet.
LEMMA CancelQueuedStep ==
    ASSUME TimerInv, NEW id \in Id, CancelQueued(id)
    PROVE  TimerInv'
<1> DEFINE o == [op |-> "cancel", id |-> id]
<1>1. /\ pending_functors_' = Append(pending_functors_, o)
      /\ UNCHANGED clockVars /\ UNCHANGED <<heap, numCreated>> /\ UNCHANGED queueVars
      /\ UNCHANGED fdVars /\ UNCHANGED <<timerEvent, phase, functors>>
      /\ UNCHANGED batchVars /\ UNCHANGED histVars
  BY DEF CancelQueued, Enqueue
<1>2. o \in Op /\ o.op # "add"
  BY DEF Op
<1>3. pending_functors_ \in Seq(Op) /\ Once(pending_functors_)
  BY DEF TimerInv, TypeOK, InOnePlace
<1> HIDE DEF o
<1>4. /\ pending_functors_' \in Seq(Op) /\ Once(pending_functors_')
      /\ AddsIn(pending_functors_') = AddsIn(pending_functors_)
  BY <1>1, <1>2, <1>3, AddsAppend
<1>5. NoDanglingTimer' /\ IndexesAgree' /\ SeqsPast' /\ StoppedGone'
  BY <1>1, SameBooks DEF queueVars, batchVars, histVars
<1>6. InOnePlace'
  <2>1. /\ Allocated' = Allocated /\ Waiting' = Waiting /\ Batch' = Batch
        /\ \A b : IdAt(b)' = IdAt(b)
        /\ \A i : Exists(i)' <=> Exists(i)
        /\ Queued' = Queued
    BY <1>1, <1>4
       DEF Allocated, Waiting, Batch, IdAt, Exists, Queued, queueVars, batchVars
  <2> QED BY <1>1, <1>4, <2>1 DEF TimerInv, InOnePlace
<1>7. TypeOK' /\ PhasesOK'
  BY <1>1, <1>4
     DEF TimerInv, TypeOK, PhasesOK, clockVars, queueVars, fdVars, batchVars, histVars
<1> QED BY <1>5, <1>6, <1>7 DEF TimerInv

\* cancel from a handler or a callback.
LEMMA CancelInPlaceStep ==
    ASSUME TimerInv, NEW id \in Id, CancelInPlace(id)
    PROVE  TimerInv'
<1>1. /\ CancelInLoop(id)
      /\ UNCHANGED clockVars /\ UNCHANGED numCreated
      /\ UNCHANGED <<timerEvent, phase>> /\ UNCHANGED functorVars
      /\ UNCHANGED batchVars /\ UNCHANGED issued
      /\ UNCHANGED <<callingExpiredTimers_, armed, readable>>
  BY DEF CancelInPlace, CancelInLoop
<1>2. /\ NoDanglingTimer' /\ IndexesAgree' /\ InOnePlace' /\ SeqsPast'
      /\ StoppedGone'
      /\ heap' \in [Addr -> Timer \cup {Free}]
      /\ timers_' \subseteq Entry /\ activeTimers_' \subseteq Id
      /\ cancelingTimers_' \subseteq Id /\ stopped' \subseteq Id
  <2>1. AddsIn(functors') = AddsIn(functors) /\ Once(functors')
    BY <1>1 DEF functorVars, TimerInv, InOnePlace
  <2> QED BY <1>1, <2>1, CancelBooks DEF functorVars, batchVars
<1>3. TypeOK' /\ PhasesOK'
  BY <1>1, <1>2 DEF TimerInv, TypeOK, PhasesOK, clockVars, functorVars, batchVars
<1> QED BY <1>2, <1>3 DEF TimerInv

-----------------------------------------------------------------------------
(* The loop's steps.                                                       *)

\* doPendingFunctors takes the queued functors over.
LEMMA SwapStep ==
    ASSUME TimerInv, SwapFunctors
    PROVE  TimerInv'
<1>1. /\ functors = <<>> /\ functors' = pending_functors_ /\ pending_functors_' = <<>>
      /\ phase # "callbacks" /\ phase' = "functors" /\ ~ timerEvent
      /\ UNCHANGED clockVars /\ UNCHANGED <<heap, numCreated>> /\ UNCHANGED queueVars
      /\ UNCHANGED fdVars /\ UNCHANGED timerEvent
      /\ UNCHANGED batchVars /\ UNCHANGED histVars
  BY DEF SwapFunctors, TimerInv, PhasesOK
<1>2. NoDanglingTimer' /\ IndexesAgree' /\ SeqsPast' /\ StoppedGone'
  BY <1>1, SameBooks DEF queueVars, batchVars, histVars
<1>3. InOnePlace'
  <2>1. /\ Allocated' = Allocated /\ Waiting' = Waiting /\ Batch' = Batch
        /\ \A b : IdAt(b)' = IdAt(b)
        /\ \A i : Exists(i)' <=> Exists(i)
    BY <1>1 DEF Allocated, Waiting, Batch, IdAt, Exists, queueVars, batchVars
  <2>2. /\ AddsIn(functors') = AddsIn(pending_functors_) /\ AddsIn(functors) = {}
        /\ AddsIn(pending_functors_') = {} /\ Once(pending_functors_')
        /\ Once(functors') /\ Queued' = Queued
    BY <1>1, AddsEmpty DEF TimerInv, InOnePlace, Queued
  <2> QED BY <2>1, <2>2 DEF TimerInv, InOnePlace
<1>4. TypeOK'
  <2>1. <<>> \in Seq(Op)
    BY EmptySeq
  <2> QED BY <1>1, <2>1
          DEF TimerInv, TypeOK, clockVars, queueVars, fdVars, batchVars, histVars,
              Phases
<1>5. PhasesOK'
  BY <1>1 DEF TimerInv, PhasesOK, batchVars
<1> QED BY <1>2, <1>3, <1>4, <1>5 DEF TimerInv

\* The functor at the front of the queue.
LEMMA FrontFunctor ==
    ASSUME TimerInv, RunFunctor
    PROVE  /\ Head(functors) \in Op /\ functors' = Tail(functors)
           /\ functors' \in Seq(Op) /\ Once(functors')
           /\ AddsIn(functors) = AddsIn(functors')
                \cup IF Head(functors).op = "add" THEN {Head(functors).id} ELSE {}
           /\ Head(functors).op = "add" => Head(functors).id \notin AddsIn(functors')
           /\ phase = "functors"
<1>1. functors \in Seq(Op) /\ functors # <<>> /\ Once(functors)
      /\ functors' = Tail(functors) /\ phase = "functors"
  BY DEF RunFunctor, TimerInv, TypeOK, InOnePlace
<1> QED BY <1>1, AddsTail

\* The queued insertion of a Timer: it moves from one list to the other.
LEMMA RunAddStep ==
    ASSUME TimerInv, RunFunctor, Head(functors).op = "add",
           AddTimerInLoop(Head(functors).id.timer)
    PROVE  TimerInv'
<1> DEFINE id == Head(functors).id
           a == id.timer
<1>1. /\ Insert(heap[a].when, IdAt(a))
      /\ UNCHANGED clockVars /\ UNCHANGED <<heap, numCreated>>
      /\ UNCHANGED <<timerEvent, phase, pending_functors_>>
      /\ UNCHANGED <<cancelingTimers_, callingExpiredTimers_>>
      /\ UNCHANGED batchVars /\ UNCHANGED issued /\ UNCHANGED stopped
  BY DEF RunFunctor, AddTimerInLoop
<1>2. /\ functors' \in Seq(Op) /\ Once(functors')
      /\ AddsIn(functors) = AddsIn(functors') \cup {id}
      /\ id \notin AddsIn(functors') /\ phase = "functors"
  BY FrontFunctor
<1> HIDE DEF id
<1>3. /\ Waiting \subseteq Allocated /\ Batch \subseteq Allocated
      /\ Waiting \cap Batch = {}
      /\ timers_ = {EntryAt(b) : b \in Waiting}
      /\ expired = {EntryAt(b) : b \in Batch}
      /\ activeTimers_ = {IdAt(b) : b \in Waiting}
      /\ \A i \in Queued : /\ i.timer \in Allocated /\ IdAt(i.timer) = i
                           /\ i.timer \notin Waiting \cup Batch
  BY Places
<1>4. /\ id \in Queued /\ Queued' = Queued \ {id} /\ Queued' \subseteq Queued
  <2>1. id \notin AddsIn(pending_functors_)
    BY <1>2 DEF TimerInv, InOnePlace
  <2> QED BY <1>1, <1>2, <2>1 DEF Queued
<1>5. a \in Allocated /\ IdAt(a) = id /\ a \notin Waiting \cup Batch
  BY <1>3, <1>4
<1>6. heap[a].when \in Nat /\ IdAt(a) \in Id /\ IdAt(a).timer = a
  BY <1>5, AllocatedTimer DEF TimerInv, Timer
<1> HIDE DEF a
<1>7. /\ Allocated' = Allocated
      /\ \A b : IdAt(b)' = IdAt(b) /\ EntryAt(b)' = EntryAt(b)
      /\ \A i : Exists(i)' <=> Exists(i)
  BY <1>1 DEF Allocated, IdAt, EntryAt, Exists
<1>8. /\ NoDanglingTimer' /\ IndexesAgree'
      /\ Waiting' = Waiting \cup {a} /\ Batch' = Batch
  <2> DEFINE W == Waiting \cup {a}
  <2>1. timers_' = timers_ \cup {EntryAt(a)} /\ activeTimers_' = activeTimers_ \cup {IdAt(a)}
    BY <1>1, <1>6 DEF Insert, EntryAt
  <2>2. /\ timers_' = {EntryAt(b) : b \in W} /\ activeTimers_' = {IdAt(b) : b \in W}
    BY <1>3, <2>1
  <2>3. W \in SUBSET Allocated' /\ Batch \in SUBSET Allocated' /\ W \cap Batch = {}
    BY <1>3, <1>5, <1>7
  <2> HIDE DEF W
  <2>4. /\ timers_' = {EntryAt(b)' : b \in W} /\ activeTimers_' = {IdAt(b)' : b \in W}
        /\ expired' = {EntryAt(b)' : b \in Batch}
    BY <1>1, <1>3, <1>7, <2>2 DEF batchVars
  <2>5. NoDanglingTimer' /\ IndexesAgree' /\ Waiting' = W /\ Batch' = Batch
    BY <2>3, <2>4, PlacesNext
  <2> QED BY <2>5 DEF W
<1>9. InOnePlace'
  <2>1. ASSUME NEW i \in Queued'
        PROVE  Exists(i)' /\ i.timer \notin Waiting' \cup Batch'
    <3>1. i \in Queued /\ i # id
      BY <1>4
    <3>2. i.timer # a
      BY <1>3, <1>5, <3>1
    <3> QED BY <1>3, <1>7, <1>8, <3>1, <3>2 DEF TimerInv, InOnePlace
  <2>2. ASSUME NEW b \in Allocated'
        PROVE  b \in Waiting' \cup Batch' \/ IdAt(b)' \in Queued'
    <3>1. b \in Waiting \cup Batch \/ IdAt(b) \in Queued
      BY <1>7 DEF TimerInv, InOnePlace
    <3>2. IdAt(b) = id => b = a
      BY DEF IdAt, a
    <3> QED BY <1>4, <1>7, <1>8, <3>1, <3>2
  <2>3. AddsIn(functors') \cap AddsIn(pending_functors_') = {} /\ Once(pending_functors_')
    BY <1>1, <1>2 DEF TimerInv, InOnePlace
  <2> QED BY <1>2, <2>1, <2>2, <2>3 DEF InOnePlace
<1>10. SeqsPast' /\ StoppedGone'
  BY <1>1, <1>7, <1>8 DEF TimerInv, SeqsPast, StoppedGone
<1>11. TypeOK'
  <2>1. /\ timers_' \subseteq Entry /\ activeTimers_' \subseteq Id
        /\ armed' \in Int \cup {NotArmed} /\ readable' \in BOOLEAN
    BY <1>1, <1>6, InsertTypes DEF TimerInv
  <2> QED BY <1>1, <1>2, <2>1 DEF TimerInv, TypeOK, clockVars, batchVars
<1>12. PhasesOK'
  BY <1>1, <1>2 DEF TimerInv, PhasesOK, batchVars
<1> QED BY <1>8, <1>9, <1>10, <1>11, <1>12 DEF TimerInv

\* The queued cancel of a timer.
LEMMA RunCancelStep ==
    ASSUME TimerInv, RunFunctor, Head(functors).op = "cancel",
           CancelInLoop(Head(functors).id)
    PROVE  TimerInv'
<1> DEFINE id == Head(functors).id
<1>1. /\ CancelInLoop(id)
      /\ UNCHANGED clockVars /\ UNCHANGED numCreated
      /\ UNCHANGED <<timerEvent, phase, pending_functors_>>
      /\ UNCHANGED batchVars /\ UNCHANGED issued
      /\ UNCHANGED <<callingExpiredTimers_, armed, readable>>
  BY DEF RunFunctor, CancelInLoop
<1>2. /\ functors' \in Seq(Op) /\ Once(functors') /\ id \in Id
      /\ AddsIn(functors') = AddsIn(functors) /\ phase = "functors"
  BY FrontFunctor DEF Op
<1> HIDE DEF id
<1>3. /\ NoDanglingTimer' /\ IndexesAgree' /\ InOnePlace' /\ SeqsPast'
      /\ StoppedGone'
      /\ heap' \in [Addr -> Timer \cup {Free}]
      /\ timers_' \subseteq Entry /\ activeTimers_' \subseteq Id
      /\ cancelingTimers_' \subseteq Id /\ stopped' \subseteq Id
  BY <1>1, <1>2, CancelBooks DEF batchVars
<1>4. TypeOK' /\ PhasesOK'
  BY <1>1, <1>2, <1>3 DEF TimerInv, TypeOK, PhasesOK, clockVars, batchVars
<1> QED BY <1>3, <1>4 DEF TimerInv

\* Steps that move no Timer: the poll, a callback, the clock and the timerfd.
LEMMA QuietStep ==
    ASSUME TimerInv,
           \/ Poll \/ Tick \/ ClockSetBack \/ TimerfdExpires
           \/ \E e \in toRun : RunCallback(e)
    PROVE  TimerInv'
<1>1. /\ UNCHANGED <<heap, numCreated, timers_, activeTimers_>>
      /\ UNCHANGED <<cancelingTimers_, expired, issued, stopped>>
      /\ UNCHANGED <<pending_functors_, functors>>
      /\ UNCHANGED <<callingExpiredTimers_, readTime>>
      /\ toRun' \subseteq toRun
      /\ phase' = phase \/ (phase = "functors" /\ functors = <<>> /\ phase' = "events")
      /\ timerEvent' \in {timerEvent, readable} /\ readable' \in {readable, TRUE}
      /\ timerEvent' = timerEvent \/ phase' = "events"
  BY DEF Poll, Tick, ClockSetBack, TimerfdExpires, RunCallback, clockVars, queueVars,
         fdVars, functorVars, batchVars, histVars
<1>2. NoDanglingTimer' /\ IndexesAgree' /\ SeqsPast' /\ StoppedGone' /\ InOnePlace'
  BY <1>1, SameBooks
<1>3. now' \in 1 .. MaxNow /\ steps' \in 0 .. MaxSteps /\ armed' \in Int \cup {NotArmed}
  <2>1. /\ now \in 1 .. MaxNow /\ steps \in 0 .. MaxSteps /\ armed \in Int \cup {NotArmed}
        /\ MaxNow \in Nat /\ MaxSteps \in Nat
    BY TimerAssumption DEF TimerInv, TypeOK
  <2>2. CASE Tick
    BY <2>1, <2>2 DEF Tick, fdVars
  <2>3. CASE ClockSetBack
    BY <2>1, <2>3 DEF ClockSetBack
  <2>4. CASE Poll \/ TimerfdExpires \/ \E e \in toRun : RunCallback(e)
    BY <2>1, <2>4 DEF Poll, TimerfdExpires, RunCallback, clockVars, fdVars
  <2> QED BY <2>2, <2>3, <2>4
<1>4. TypeOK'
  BY <1>1, <1>3 DEF TimerInv, TypeOK, Phases
<1>5. PhasesOK'
  BY <1>1 DEF TimerInv, PhasesOK, TypeOK
<1> QED BY <1>2, <1>4, <1>5 DEF TimerInv

\* getExpired: the timers that are due move from the queue to the batch.
LEMMA HandleReadStep ==
    ASSUME TimerInv, HandleRead
    PROVE  TimerInv'
<1>1. /\ phase = "events" /\ phase' = "callbacks" /\ timerEvent' = FALSE
      /\ readable' = FALSE /\ readTime' = now
      /\ expired' = {e \in timers_ : e.when <= now} /\ toRun' = expired'
      /\ timers_' = timers_ \ expired' /\ activeTimers_' = ActiveWithout(expired')
      /\ callingExpiredTimers_' = TRUE /\ cancelingTimers_' = {} /\ stopped' = {}
      /\ UNCHANGED clockVars /\ UNCHANGED <<heap, numCreated, armed, issued>>
      /\ UNCHANGED <<pending_functors_, functors>>
  BY DEF HandleRead, functorVars
<1>2. /\ Waiting \subseteq Allocated
      /\ timers_ = {EntryAt(a) : a \in Waiting}
      /\ activeTimers_ = {IdAt(a) : a \in Waiting}
  BY Places
<1>3. expired = {} /\ Batch = {}
  BY <1>1 DEF TimerInv, PhasesOK, Batch
<1>4. /\ Allocated' = Allocated
      /\ \A a : IdAt(a)' = IdAt(a) /\ EntryAt(a)' = EntryAt(a)
      /\ \A id : Exists(id)' <=> Exists(id)
  BY <1>1 DEF Allocated, IdAt, EntryAt, Exists
<1>5. \A a : /\ EntryAt(a).when = heap[a].when /\ EntryAt(a).timer = a
             /\ IdAt(a).timer = a
  BY DEF EntryAt, IdAt
<1> DEFINE B == {a \in Waiting : heap[a].when <= now}
           W == Waiting \ B
<1>6. expired' = {EntryAt(a) : a \in B}
  BY <1>1, <1>2, <1>5
<1>7. timers_' = {EntryAt(a) : a \in W}
  <2>1. \A a \in Waiting : EntryAt(a) \in expired' <=> a \in B
    BY <1>5, <1>6
  <2> HIDE DEF B
  <2> QED BY <1>1, <1>2, <2>1
<1>8. activeTimers_' = {IdAt(a) : a \in W}
  <2>1. {IdAt(e.timer) : e \in expired'} = {IdAt(a) : a \in B}
    BY <1>5, <1>6
  <2>2. activeTimers_' = activeTimers_ \ {IdAt(a) : a \in B}
    BY <1>1, <2>1 DEF ActiveWithout
  <2> HIDE DEF B
  <2> QED BY <1>2, <1>5, <2>2
<1>9. W \in SUBSET Allocated' /\ B \in SUBSET Allocated' /\ W \cap B = {}
  BY <1>2, <1>4
<1>10. W \cup B = Waiting
  OBVIOUS
<1> HIDE DEF W, B
<1>11. NoDanglingTimer' /\ IndexesAgree' /\ Waiting' = W /\ Batch' = B
  <2>1. /\ timers_' = {EntryAt(a)' : a \in W} /\ expired' = {EntryAt(a)' : a \in B}
        /\ activeTimers_' = {IdAt(a)' : a \in W}
    BY <1>4, <1>6, <1>7, <1>8
  <2> QED BY <1>9, <2>1, PlacesNext
<1>12. InOnePlace'
  <2>1. Queued' = Queued /\ Waiting' \cup Batch' = Waiting \cup Batch
    BY <1>1, <1>3, <1>10, <1>11 DEF Queued
  <2> QED BY <1>1, <1>4, <2>1 DEF TimerInv, InOnePlace
<1>13. SeqsPast'
  BY <1>1, <1>4 DEF TimerInv, SeqsPast
<1>14. StoppedGone'
  BY <1>1 DEF StoppedGone
<1>15. TypeOK'
  <2>1. activeTimers_' \subseteq activeTimers_
    BY <1>1 DEF ActiveWithout
  <2>2. readTime' \in Nat
    BY <1>1 DEF TimerInv, TypeOK
  <2>3. timers_' \subseteq Entry /\ expired' \subseteq Entry /\ toRun' \subseteq expired'
    BY <1>1 DEF TimerInv, TypeOK
  <2> HIDE DEF B, W
  <2>4. activeTimers_' \subseteq Id /\ cancelingTimers_' \subseteq Id /\ stopped' \subseteq Id
    BY <1>1, <2>1 DEF TimerInv, TypeOK
  <2>5. /\ now' \in 1 .. MaxNow /\ steps' \in 0 .. MaxSteps
        /\ heap' \in [Addr -> Timer \cup {Free}] /\ numCreated' \in 0 .. MaxTimers
        /\ armed' \in Int \cup {NotArmed} /\ issued' \subseteq Id
        /\ pending_functors_' \in Seq(Op) /\ functors' \in Seq(Op)
    BY <1>1 DEF TimerInv, TypeOK, clockVars
  <2>6. /\ callingExpiredTimers_' = (phase' = "callbacks") /\ phase' \in Phases
        /\ readable' \in BOOLEAN /\ timerEvent' \in BOOLEAN
    BY <1>1 DEF Phases
  <2> QED BY <2>2, <2>3, <2>4, <2>5, <2>6 DEF TypeOK
<1>16. PhasesOK'
  BY <1>1 DEF TimerInv, PhasesOK
<1> QED BY <1>11, <1>12, <1>13, <1>14, <1>15, <1>16 DEF TimerInv

\* reset: of the batch, the repeating timers nobody cancelled wait again, the
\* others are deleted.
LEMMA ResetStep ==
    ASSUME TimerInv, ResetExpired
    PROVE  TimerInv'
<1> DEFINE R == {a \in Batch : heap[a].interval > 0 /\ IdAt(a) \notin cancelingTimers_}
           again == {e.timer : e \in {f \in expired : Restarted(f)}}
<1>1. /\ phase = "callbacks" /\ phase' = "events" /\ toRun = {}
      /\ callingExpiredTimers_' = FALSE /\ heap' = HeapAfterReset
      /\ timers_' = timers_ \cup {[when |-> heap'[a].when, timer |-> a] : a \in again}
      /\ activeTimers_' = activeTimers_ \cup {IdAt(a) : a \in again}
      /\ Rearm(timers_') /\ expired' = {} /\ readTime' = 0
      /\ UNCHANGED clockVars /\ UNCHANGED <<numCreated, cancelingTimers_, timerEvent>>
      /\ UNCHANGED <<pending_functors_, functors, toRun>>
      /\ UNCHANGED <<issued, stopped>>
  BY DEF ResetExpired, functorVars, histVars
<1>2. /\ Waiting \subseteq Allocated /\ Batch \subseteq Allocated
      /\ Waiting \cap Batch = {} /\ Allocated \subseteq Addr
      /\ timers_ = {EntryAt(a) : a \in Waiting}
      /\ expired = {EntryAt(a) : a \in Batch}
      /\ activeTimers_ = {IdAt(a) : a \in Waiting}
      /\ \A id \in Queued : /\ id.timer \in Allocated /\ IdAt(id.timer) = id
                            /\ id.timer \notin Waiting \cup Batch
  BY Places
<1>3. \A a : EntryAt(a).timer = a /\ IdAt(a).timer = a
  BY DEF EntryAt, IdAt
<1>4. again = R
  BY <1>2, <1>3 DEF Restarted
<1> HIDE DEF again
<1>5. R \subseteq Batch
  OBVIOUS
<1>6. ASSUME NEW a \in Addr
      PROVE  /\ a \notin Batch => heap'[a] = heap[a]
             /\ a \in R => heap'[a] = [heap[a] EXCEPT !.when = readTime + heap[a].interval]
             /\ a \in Batch \ R => heap'[a] = Free
  <2>1. (\A e \in expired : e.timer # a) <=> a \notin Batch
    BY DEF Batch
  <2>2. CASE a \notin Batch
    BY <1>1, <1>5, <2>1, <2>2 DEF HeapAfterReset
  <2>3. CASE a \in Batch
    <3>1. (CHOOSE e \in expired : e.timer = a) = EntryAt(a)
      BY <1>2, <1>3, <2>3
    <3>2. Restarted(EntryAt(a)) <=> a \in R
      BY <1>3, <2>3 DEF Restarted
    <3> QED BY <1>1, <2>1, <2>3, <3>1, <3>2 DEF HeapAfterReset
  <2> QED BY <2>2, <2>3
<1>7. ASSUME NEW a \in R
      PROVE  /\ heap'[a] \in Timer /\ heap'[a].seq = heap[a].seq
             /\ heap'[a] # Free /\ a \in Addr
  <2>1. a \in Allocated /\ a \in Addr /\ heap[a] \in Timer /\ readTime \in Nat
    BY <1>2, <1>5, AllocatedTimer DEF TimerInv, TypeOK
  <2>2. heap[a].interval \in Nat
    <3>1. Intervals \cup {0} \subseteq Nat
      BY TimerAssumption
    <3>2. heap[a].interval \in Intervals \cup {0}
      BY <2>1 DEF Timer
    <3> QED BY <3>1, <3>2
  <2>3. heap'[a] = [heap[a] EXCEPT !.when = readTime + heap[a].interval]
    BY <1>6, <2>1
  <2> DEFINE w == readTime + heap[a].interval
  <2>4. w \in Nat
    BY <2>1, <2>2
  <2> HIDE DEF w
  <2>5. heap'[a] = [heap[a] EXCEPT !.when = w]
    BY <2>3 DEF w
  <2>6. heap'[a] \in Timer /\ heap'[a].seq = heap[a].seq
    BY <2>1, <2>4, <2>5 DEF Timer
  <2> QED BY <2>1, <2>6, FreeIsNoTimer
<1>8. heap' \in [Addr -> Timer \cup {Free}]
  <2>1. \A a \in Addr : heap[a] \in Timer \cup {Free}
    BY DEF TimerInv, TypeOK
  <2>2. \A a \in Addr : heap'[a] \in Timer \cup {Free}
    BY <1>6, <1>7, <2>1
  <2>3. heap' = [a \in Addr |-> heap'[a]]
    BY <1>1 DEF HeapAfterReset
  <2> QED BY <2>2, <2>3
<1> HIDE DEF R
<1>9. Allocated' = Allocated \ (Batch \ R)
  BY <1>2, <1>5, <1>6, <1>7 DEF Allocated
<1>10. \A a \in Allocated' : heap'[a].seq = heap[a].seq /\ IdAt(a)' = IdAt(a)
  BY <1>2, <1>6, <1>7, <1>9 DEF IdAt
<1>11. \A a \in Waiting : EntryAt(a)' = EntryAt(a)
  BY <1>2, <1>6 DEF EntryAt
<1>12. /\ NoDanglingTimer' /\ IndexesAgree'
       /\ Waiting' = Waiting \cup R /\ Batch' = {}
  <2> DEFINE W == Waiting \cup R
  <2>1. W \in SUBSET Allocated'
    BY <1>2, <1>5, <1>9
  <2>2. \A a : EntryAt(a)' = [when |-> heap'[a].when, timer |-> a]
    BY DEF EntryAt
  <2>3. timers_' = {EntryAt(a)' : a \in W}
    BY <1>1, <1>2, <1>4, <1>11, <2>2
  <2>4. activeTimers_' = {IdAt(a) : a \in W}
    BY <1>1, <1>2, <1>4
  <2> HIDE DEF W
  <2>5. activeTimers_' = {IdAt(a)' : a \in W}
    BY <1>10, <2>1, <2>4
  <2>6. NoDanglingTimer' /\ IndexesAgree' /\ Waiting' = W /\ Batch' = {}
    <3> DEFINE B == {}
    <3>1. expired' = {EntryAt(a)' : a \in B} /\ B \in SUBSET Allocated' /\ W \cap B = {}
      BY <1>1
    <3> HIDE DEF B
    <3>2. NoDanglingTimer' /\ IndexesAgree' /\ Waiting' = W /\ Batch' = B
      BY <2>1, <2>3, <2>5, <3>1, PlacesNext
    <3> QED BY <3>2 DEF B
  <2> QED BY <2>6 DEF W
<1>13. \A id : Exists(id)' => Exists(id) /\ id.timer \notin Batch \ R
  BY <1>9, <1>10 DEF Exists
<1>14. \A id : Exists(id) /\ id.timer \notin Batch \ R => Exists(id)'
  BY <1>9, <1>10 DEF Exists
<1>15. InOnePlace'
  <2>1. Queued' = Queued
    BY <1>1 DEF Queued
  <2>2. ASSUME NEW id \in Queued'
        PROVE  Exists(id)' /\ id.timer \notin Waiting' \cup Batch'
    BY <1>2, <1>5, <1>12, <1>14, <2>1 DEF Exists
  <2>3. ASSUME NEW a \in Allocated'
        PROVE  a \in Waiting' \cup Batch' \/ IdAt(a)' \in Queued'
    <3>1. a \in Waiting \cup Batch \/ IdAt(a) \in Queued
      BY <1>9 DEF TimerInv, InOnePlace
    <3> QED BY <1>9, <1>10, <1>12, <2>1, <3>1
  <2> QED BY <1>1, <2>2, <2>3 DEF TimerInv, InOnePlace
<1>16. SeqsPast'
  BY <1>1, <1>9, <1>10 DEF TimerInv, SeqsPast
<1>17. StoppedGone'
  <2> SUFFICES ASSUME NEW id \in stopped', Exists(id)' PROVE FALSE
    BY DEF StoppedGone
  <2>1. id.timer \in Batch /\ id \in cancelingTimers_ /\ IdAt(id.timer) = id
    BY <1>1, <1>13 DEF TimerInv, StoppedGone, Exists
  <2>2. id.timer \notin R
    BY <2>1 DEF R
  <2> QED BY <1>13, <2>1, <2>2
<1>18. TypeOK'
  <2>1. timers_' \subseteq Entry /\ activeTimers_' \subseteq Id
    <3>1. \A a \in Waiting \cup R : IdAt(a) \in Id
      BY <1>2, <1>5, AllocatedTimer DEF TimerInv
    <3>2. \A a \in R : [when |-> heap'[a].when, timer |-> a] \in Entry
      BY <1>7 DEF Timer, Entry
    <3> QED BY <1>1, <1>4, <3>1, <3>2 DEF TimerInv, TypeOK
  <2>2. armed' \in Int \cup {NotArmed} /\ readable' \in BOOLEAN
    <3>1. CASE timers_' = {}
      BY <1>1, <3>1 DEF Rearm, fdVars, TimerInv, TypeOK
    <3>2. CASE timers_' # {}
      <4>1. Earliest(timers_') \in Nat
        BY <2>1, <3>2, EarliestIn
      <4> DEFINE w == Earliest(timers_')
      <4> HIDE DEF w
      <4>2. w \in Nat /\ armed' = ArmAt(w) /\ readable' = FALSE
        BY <1>1, <3>2, <4>1 DEF Rearm, ResetTimerfd, w
      <4>3. ArmAt(w) \in Int
        <5>1. now \in Int
          BY DEF TimerInv, TypeOK
        <5> QED BY <4>2, <5>1 DEF ArmAt
      <4> QED BY <4>2, <4>3
    <3> QED BY <3>1, <3>2
  <2> QED BY <1>1, <1>8, <2>1, <2>2 DEF TimerInv, TypeOK, clockVars, Phases
<1>19. PhasesOK'
  BY <1>1 DEF TimerInv, PhasesOK
<1> QED BY <1>12, <1>15, <1>16, <1>17, <1>18, <1>19 DEF TimerInv

-----------------------------------------------------------------------------
(* The invariant holds throughout.                                         *)

\* Before the first timer there is nothing to keep in order.
LEMMA TimerInit == Init => TimerInv
<1> SUFFICES ASSUME Init PROVE TimerInv
  OBVIOUS
<1>1. Allocated = {} /\ Waiting = {} /\ Batch = {}
  BY DEF Init, Allocated, Waiting, Batch
<1>2. Queued = {} /\ Once(functors) /\ Once(pending_functors_)
  BY AddsEmpty DEF Init, Queued
<1>3. InOnePlace
  BY <1>1, <1>2 DEF InOnePlace, Queued
<1>4. PhasesOK /\ SeqsPast /\ NoDanglingTimer /\ IndexesAgree /\ StoppedGone
  BY <1>1 DEF Init, PhasesOK, SeqsPast, NoDanglingTimer, IndexesAgree, StoppedGone
<1>5. TypeOK
  <2>1. <<>> \in Seq(Op)
    BY EmptySeq
  <2>2. now \in 1 .. MaxNow /\ steps \in 0 .. MaxSteps /\ numCreated \in 0 .. MaxTimers
    BY TimerAssumption DEF Init
  <2>3. heap \in [Addr -> Timer \cup {Free}]
    BY DEF Init
  <2> QED BY <2>1, <2>2, <2>3 DEF Init, TypeOK, Phases
<1> QED BY <1>3, <1>4, <1>5 DEF TimerInv

\* What a client asks for is a natural number of ticks.
LEMMA Dues ==
    ASSUME TypeOK
    PROVE  /\ \A d \in Delays : now + d \in Nat
           /\ \A i \in Intervals : now + i \in Nat
<1>1. now \in Nat /\ Delays \subseteq Nat /\ Intervals \subseteq Nat
  BY TimerAssumption DEF TypeOK
<1> QED BY <1>1

\* Each step of a client, the loop or the kernel keeps the invariant.
LEMMA TimerNext == TimerInv /\ [Next]_vars => TimerInv'
<1> SUFFICES ASSUME TimerInv, [Next]_vars PROVE TimerInv'
  OBVIOUS
<1>1. TypeOK
  BY DEF TimerInv
<1>2. CASE UNCHANGED vars
  <2>1. /\ UNCHANGED <<heap, numCreated, timers_, activeTimers_>>
        /\ UNCHANGED <<cancelingTimers_, expired, issued, stopped>>
        /\ UNCHANGED <<pending_functors_, functors>>
        /\ UNCHANGED <<now, steps, callingExpiredTimers_, armed, readable>>
        /\ UNCHANGED <<timerEvent, phase, toRun, readTime>>
    BY <1>2
       DEF vars, clockVars, queueVars, fdVars, functorVars, batchVars, histVars
  <2>2. NoDanglingTimer' /\ IndexesAgree' /\ SeqsPast' /\ StoppedGone' /\ InOnePlace'
    BY <2>1, SameBooks
  <2>3. TypeOK' /\ PhasesOK'
    BY <2>1 DEF TimerInv, TypeOK, PhasesOK
  <2> QED BY <2>2, <2>3 DEF TimerInv
<1>3. CASE Client
  <2>1. ASSUME NEW a \in Addr, NEW d \in Delays,
               AddQueued(a, now + d, 0) \/ AddInPlace(a, now + d, 0)
        PROVE  TimerInv'
    <3>1. now + d \in Nat
      BY <1>1, Dues
    <3> QED BY <2>1, <3>1, AddQueuedStep, AddInPlaceStep
  <2>2. ASSUME NEW a \in Addr, NEW i \in Intervals,
               AddQueued(a, now + i, i) \/ AddInPlace(a, now + i, i)
        PROVE  TimerInv'
    <3>1. now + i \in Nat
      BY <1>1, Dues
    <3> QED BY <2>2, <3>1, AddQueuedStep, AddInPlaceStep
  <2>3. ASSUME NEW id \in Id, CancelQueued(id) \/ CancelInPlace(id)
        PROVE  TimerInv'
    BY <2>3, CancelQueuedStep, CancelInPlaceStep
  <2> QED BY <1>3, <2>1, <2>2, <2>3 DEF Client
<1>4. CASE SwapFunctors
  BY <1>4, SwapStep
<1>5. CASE RunFunctor
  <2>1. \/ Head(functors).op = "add" /\ AddTimerInLoop(Head(functors).id.timer)
        \/ Head(functors).op = "cancel" /\ CancelInLoop(Head(functors).id)
    BY <1>5 DEF RunFunctor
  <2> QED BY <1>5, <2>1, RunAddStep, RunCancelStep
<1>6. CASE HandleRead
  BY <1>6, HandleReadStep
<1>7. CASE ResetExpired
  BY <1>7, ResetStep
<1>8. CASE Poll \/ Tick \/ ClockSetBack \/ TimerfdExpires
           \/ \E e \in toRun : RunCallback(e)
  BY <1>8, QuietStep
<1> QED BY <1>2, <1>3, <1>4, <1>5, <1>6, <1>7, <1>8 DEF Next, Loop

\* Whatever clients add and cancel, from wherever they call, the books stay in
\* order: each Timer is in one place, each entry names its Timer, and what was
\* cancelled in the running batch is marked for reset to delete.
THEOREM TimerInvariant == Spec => []TimerInv
<1> QED BY TimerInit, TimerNext, PTL DEF Spec

\* The state of the queue has its type; the expiration the timerfd is set to is
\* an integer, as clocks set back may take it below zero.
THEOREM TimerTypeCorrect == Spec => []TypeOK
<1>1. TimerInv => TypeOK
  BY DEF TimerInv
<1> QED BY <1>1, TimerInvariant, PTL

\* No entry of the queue or of the batch that handleRead has yet to run and to
\* reset names a Timer that was deleted, and none is in both, so none is
\* deleted twice (timer_queue.cpp:95-154).
THEOREM NoTimerDangles == Spec => []NoDanglingTimer
<1>1. TimerInv => NoDanglingTimer
  BY DEF TimerInv
<1> QED BY <1>1, TimerInvariant, PTL

\* timers_ and activeTimers_ index the same timers after every step, although
\* addresses are reused: insert, cancelInLoop and getExpired write both
\* (timer_queue.cpp:95-106, 125-139, 165-178).
THEOREM TheIndexesAgree == Spec => []IndexesAgree
<1>1. TimerInv => IndexesAgree
  BY DEF TimerInv
<1> QED BY <1>1, TimerInvariant, PTL

\* A cancellation that took effect is final: reset does not put the timer back.
THEOREM CancelIsFinal == Spec => []StoppedStaysStopped
<1>1. TimerInv => StoppedStaysStopped
  <2> SUFFICES ASSUME TimerInv, phase # "callbacks",
                      NEW id \in activeTimers_, id \in stopped
               PROVE  FALSE
    BY DEF StoppedStaysStopped
  <2>1. PICK a \in Waiting : id = IdAt(a)
    BY Places
  <2>2. Exists(id) /\ id.timer \in Waiting
    BY <2>1, Places DEF Exists, IdAt
  <2>3. id.timer \in Batch
    BY <2>2 DEF TimerInv, StoppedGone
  <2> QED BY <2>3 DEF TimerInv, PhasesOK, Batch
<1> QED BY <1>1, TimerInvariant, PTL

-----------------------------------------------------------------------------
(* The timerfd.                                                            *)

\* The property says when the timerfd is set, for the earliest of some entries.
Covers(fd, S, time) == fd \in Int /\ (fd <= Earliest(S) \/ fd <= time + 1)

\* The earliest of more entries is no later.
LEMMA EarliestOfMore ==
    ASSUME NEW S \in SUBSET Entry, NEW T \in SUBSET S, T # {}
    PROVE  Earliest(S) \in Nat /\ Earliest(T) \in Nat /\ Earliest(S) <= Earliest(T)
<1>1. /\ Earliest(S) \in Nat /\ \A e \in S : Earliest(S) <= e.when
      /\ Earliest(T) \in Nat /\ \E e \in T : Earliest(T) = e.when
  <2>1. S # {} /\ T \in SUBSET Entry
    OBVIOUS
  <2> QED BY <2>1, EarliestIn
<1> QED BY <1>1

\* resetTimerfd for the earliest covers it.
LEMMA ArmCovers ==
    ASSUME NEW w \in Nat, NEW S, Earliest(S) = w, now \in Int, UNCHANGED now,
           ResetTimerfd(w)
    PROVE  Covers(armed', S, now')
<1>1. armed' = ArmAt(w) /\ Earliest(S) = w /\ now' = now
  BY DEF ResetTimerfd
<1>2. ArmAt(w) \in Int /\ (ArmAt(w) <= w \/ ArmAt(w) <= now + 1)
  BY DEF ArmAt
<1> QED BY <1>1, <1>2 DEF Covers

\* insert: a timer that is not the earliest leaves the earliest as it is.
LEMMA InsertCovers ==
    ASSUME TypeOK, NEW when \in Nat, NEW id \in Id, Insert(when, id),
           UNCHANGED now,
           timers_ # {} => readable \/ timerEvent \/ Covers(armed, timers_, now),
           UNCHANGED timerEvent
    PROVE  readable' \/ timerEvent' \/ Covers(armed', timers_', now')
<1> DEFINE new == [when |-> when, timer |-> id.timer]
           T == timers_ \cup {new}
<1>1. new \in Entry /\ new.when = when /\ timers_ \subseteq Entry /\ now \in Int
  BY DEF Entry, Id, TypeOK
<1> HIDE DEF new
<1>2. timers_' = T
  BY DEF Insert, new
<1>3. T \in SUBSET Entry /\ T # {} /\ new \in T
  BY <1>1
<1>4. /\ Earliest(T) \in Nat /\ \E e \in T : Earliest(T) = e.when
      /\ \A e \in T : Earliest(T) <= e.when
  BY <1>3, EarliestIn
<1>5. CASE EarliestChanged(when)
  <2>1. \A e \in timers_ : when < e.when /\ e.when \in Nat
    BY <1>1, <1>5 DEF EarliestChanged, Entry
  <2>2. PICK e \in T : Earliest(T) = e.when
    BY <1>4
  <2>3. Earliest(T) = when
    <3>1. Earliest(T) <= when
      BY <1>1, <1>3, <1>4
    <3>2. CASE e = new
      BY <1>1, <2>2, <3>2
    <3>3. CASE e # new
      BY <2>1, <2>2, <3>1, <3>3
    <3> QED BY <3>2, <3>3
  <2>4. ResetTimerfd(when)
    BY <1>5 DEF Insert
  <2> HIDE DEF T
  <2> QED BY <1>1, <1>2, <2>3, <2>4, ArmCovers
<1>6. CASE ~ EarliestChanged(when)
  <2>1. PICK e \in timers_ : ~ (when < e.when)
    BY <1>6 DEF EarliestChanged
  <2>2. armed' = armed /\ readable' = readable
    BY <1>6 DEF Insert, fdVars
  <2>3. e.when \in Nat /\ e.when <= when
    BY <1>1, <2>1 DEF Entry
  <2>4. Earliest(timers_) \in Nat /\ \A f \in timers_ : Earliest(timers_) <= f.when
    BY <1>1, <2>1, EarliestIn
  <2>5. Earliest(timers_) <= Earliest(T)
    <3>1. PICK f \in T : Earliest(T) = f.when
      BY <1>4
    <3>2. CASE f \in timers_
      BY <2>4, <3>1, <3>2
    <3>3. CASE f = new
      <4>1. Earliest(timers_) <= e.when
        BY <2>4
      <4> QED BY <1>1, <2>3, <2>4, <3>1, <3>3, <4>1
    <3> QED BY <3>2, <3>3 
  <2>6. readable \/ timerEvent \/ Covers(armed, timers_, now)
    BY <2>1
  <2>7. Covers(armed, timers_, now) => Covers(armed, T, now)
    <3> HIDE DEF T
    <3> QED BY <1>1, <1>4, <2>4, <2>5 DEF Covers
  <2> QED BY <1>2, <2>2, <2>6, <2>7
<1> QED BY <1>5, <1>6

\* No step leaves a waiting timer without a timerfd set for it.
LEMMA CoversNext ==
    TimerInv /\ TimerfdCoversEarliest /\ [Next]_vars => TimerfdCoversEarliest'
<1> DEFINE C == timers_ # {} /\ phase # "callbacks"
                  => readable \/ timerEvent \/ Covers(armed, timers_, now)
<1> SUFFICES ASSUME TimerInv, TimerfdCoversEarliest, [Next]_vars
             PROVE  TimerfdCoversEarliest'
  OBVIOUS
<1>1. /\ TypeOK /\ NotArmed \notin Int /\ timers_ \subseteq Entry
      /\ armed \in Int \cup {NotArmed} /\ now \in Int /\ timerEvent \in BOOLEAN
      /\ now \in Nat
  BY TimerAssumption DEF TimerInv, TypeOK
<1>2. C
  BY <1>1 DEF TimerfdCoversEarliest, Covers
<1>3. SUFFICES C'
  <2>1. NotArmed \notin Int
    BY TimerAssumption
  <2> QED BY <2>1 DEF TimerfdCoversEarliest, Covers
<1>4. CASE UNCHANGED vars
  BY <1>2, <1>4 DEF vars, clockVars, queueVars, fdVars, Covers, Earliest
<1>5. CASE Client
  <2>1. ASSUME NEW a \in Addr, NEW when \in Nat, NEW i, AddQueued(a, when, i)
        PROVE  C'
    BY <1>2, <2>1 DEF AddQueued, clockVars, queueVars, fdVars, Covers, Earliest
  <2>2. ASSUME NEW a \in Addr, NEW when \in Nat, NEW i, AddInPlace(a, when, i)
        PROVE  C'
    <3> DEFINE id == [timer |-> a, seq |-> numCreated]
    <3>1. id \in Id
      <4>1. numCreated \in 0 .. MaxTimers - 1
        BY <2>2, TimerAssumption DEF TimerInv, TypeOK, AddInPlace, NewTimer
      <4> QED BY <4>1 DEF Id
    <3>2. /\ Insert(when, id) /\ UNCHANGED now /\ UNCHANGED timerEvent
          /\ UNCHANGED phase
      BY <2>2 DEF AddInPlace, clockVars
    <3> HIDE DEF id
    <3> QED BY <1>1, <1>2, <3>1, <3>2, InsertCovers
  <2>3. ASSUME NEW id \in Id, CancelQueued(id)
        PROVE  C'
    BY <1>2, <2>3 DEF CancelQueued, clockVars, queueVars, fdVars, Covers, Earliest
  <2>4. ASSUME NEW id \in Id, CancelInPlace(id)
        PROVE  C'
    <3>1. /\ timers_' \subseteq timers_ /\ UNCHANGED <<armed, readable>>
          /\ UNCHANGED now /\ UNCHANGED timerEvent /\ UNCHANGED phase
      BY <2>4 DEF CancelInPlace, CancelInLoop, clockVars
    <3> QED BY <1>1, <1>2, <3>1, EarliestOfMore DEF Covers
  <2>5. /\ \A d \in Delays : now + d \in Nat
        /\ \A i \in Intervals : now + i \in Nat
    BY <1>1, Dues
  <2> HIDE DEF C
  <2> QED BY <1>5, <2>1, <2>2, <2>3, <2>4, <2>5 DEF Client
<1>6. CASE SwapFunctors
  BY <1>2, <1>6
     DEF SwapFunctors, clockVars, queueVars, fdVars, Covers, Earliest
<1>7. CASE RunFunctor
  <2> DEFINE h == Head(functors)
  <2>1. h \in Op /\ phase = "functors"
    BY <1>7, FrontFunctor
  <2>2. UNCHANGED now /\ UNCHANGED timerEvent /\ UNCHANGED phase
    BY <1>7 DEF RunFunctor, clockVars
  <2>3. CASE h.op = "add" /\ AddTimerInLoop(h.id.timer)
    <3> DEFINE a == h.id.timer
    <3>1. a \in Allocated
      <4>1. h.id \in Queued
        BY <1>7, <2>3, FrontFunctor DEF Queued
      <4> QED BY <4>1, Places
    <3> HIDE DEF a, h
    <3>2. heap[a].when \in Nat /\ IdAt(a) \in Id
      BY <1>1, <3>1, AllocatedTimer DEF Timer
    <3>3. Insert(heap[a].when, IdAt(a))
      BY <2>3 DEF AddTimerInLoop, a
    <3> QED BY <1>1, <1>2, <2>1, <2>2, <3>2, <3>3, InsertCovers
  <2>4. CASE h.op = "cancel" /\ CancelInLoop(h.id)
    <3>1. timers_' \subseteq timers_ /\ UNCHANGED <<armed, readable>>
      BY <2>4 DEF CancelInLoop
    <3> QED BY <1>1, <1>2, <2>2, <3>1, EarliestOfMore DEF Covers
  <2> QED BY <1>7, <2>3, <2>4 DEF RunFunctor
<1>8. CASE Poll
  <2>1. ~ timerEvent /\ phase = "functors"
    BY <1>8 DEF Poll, TimerInv, PhasesOK
  <2> QED BY <1>2, <1>8, <2>1
          DEF Poll, clockVars, queueVars, fdVars, Covers, Earliest
<1>9. CASE HandleRead
  BY <1>9 DEF HandleRead
<1>10. CASE \E e \in toRun : RunCallback(e)
  BY <1>2, <1>10 DEF RunCallback, clockVars, queueVars, fdVars, Covers, Earliest
<1>11. CASE ResetExpired
  <2> SUFFICES ASSUME timers_' # {} PROVE Covers(armed', timers_', now')
    OBVIOUS
  <2>1. ResetTimerfd(Earliest(timers_')) /\ UNCHANGED now
    BY <1>11 DEF ResetExpired, Rearm, clockVars
  <2>2. timers_' \subseteq Entry
    BY <1>11, ResetStep DEF TimerInv, TypeOK
  <2>3. Earliest(timers_') \in Nat
    BY <2>2, EarliestIn
  <2> DEFINE S == timers_'
  <2> HIDE DEF S
  <2>4. PICK w \in Nat : w = Earliest(S)
    BY <2>3 DEF S
  <2>5. ResetTimerfd(w)
    BY <2>1, <2>4 DEF S
  <2>6. Covers(armed', S, now')
    BY <1>1, <2>1, <2>4, <2>5, ArmCovers
  <2> QED BY <2>6 DEF S
<1>12. CASE Tick
  <2>1. UNCHANGED <<timers_, armed, readable, timerEvent, phase>> /\ now' = now + 1
    BY <1>12 DEF Tick, queueVars, fdVars
  <2> QED BY <1>1, <1>2, <2>1 DEF Covers, Earliest
<1>13. CASE ClockSetBack
  <2>1. /\ UNCHANGED <<timers_, readable, timerEvent, phase>> /\ now' = now - 1
        /\ armed' = IF armed = NotArmed THEN armed ELSE armed - 1
    BY <1>13 DEF ClockSetBack, queueVars
  <2>2. timers_ # {} => Earliest(timers_) \in Nat
    BY <1>1, EarliestIn
  <2>3. timers_' = timers_ => Earliest(timers_') = Earliest(timers_)
    OBVIOUS
  <2>4. ASSUME timers_ # {}, Covers(armed, timers_, now)
        PROVE  Covers(armed', timers_', now')
    <3>1. PICK w : w = Earliest(timers_)
      OBVIOUS
    <3>2. w \in Nat /\ armed \in Int /\ (armed <= w \/ armed <= now + 1)
      BY <2>2, <2>4, <3>1 DEF Covers
    <3>3. armed' = armed - 1
      BY <1>1, <2>1, <3>2
    <3>4. armed - 1 \in Int /\ (armed - 1 <= w \/ armed - 1 <= (now - 1) + 1)
      BY <1>1, <3>2
    <3> QED BY <2>1, <2>3, <3>1, <3>3, <3>4 DEF Covers
  <2> QED BY <1>2, <2>1, <2>4
<1>14. CASE TimerfdExpires
  BY <1>14 DEF TimerfdExpires
<1> HIDE DEF C
<1> QED BY <1>4, <1>5, <1>6, <1>7, <1>8, <1>9, <1>10, <1>11, <1>12, <1>13, <1>14
        DEF Next, Loop

\* While a timer waits, the timerfd is set for it or has expired and will be
\* handled: no wake-up is lost, although cancel never re-arms and resetTimerfd
\* drops an expiration that was not read.
THEOREM NoWakeupIsLost == Spec => []TimerfdCoversEarliest
<1>1. Init => TimerfdCoversEarliest
  BY DEF Init, TimerfdCoversEarliest
<1> QED BY <1>1, CoversNext, TimerInvariant, PTL DEF Spec

-----------------------------------------------------------------------------
(* What an in-place cancel reaches.                                        *)

\* An in-place cancel of a timer that exists finds it waiting or in the running
\* batch, unless its insertion is still queued.
THEOREM CancelReachesItsTimer == Spec => CancelReaches
<1>1. TimerInv /\ [Next]_vars =>
        [\A id \in issued :
            (CancelInPlace(id) /\ Exists(id)') =>
                id \in cancelingTimers_' \/ InsertionQueued(id)]_vars
  <2> SUFFICES ASSUME TimerInv, NEW id \in issued, CancelInPlace(id), Exists(id)'
               PROVE  id \in cancelingTimers_' \/ InsertionQueued(id)
    OBVIOUS
  <2>1. id \in Id /\ functors = <<>> /\ callingExpiredTimers_ = (phase = "callbacks")
    BY DEF TimerInv, TypeOK, CancelInPlace, PhasesOK
  <2>2. id \notin activeTimers_ /\ Exists(id)
    <3>1. CASE id \in activeTimers_
      <4>1. heap' = [heap EXCEPT ![id.timer] = Free] /\ id.timer \in Addr
        BY <2>1, <3>1 DEF CancelInPlace, CancelInLoop, Id
      <4>2. heap'[id.timer] = Free
        BY <4>1 DEF TimerInv, TypeOK
      <4> QED BY <4>2 DEF Exists, Allocated
    <3>2. CASE id \notin activeTimers_
      <4>1. UNCHANGED heap
        BY <3>2 DEF CancelInPlace, CancelInLoop
      <4> QED BY <3>2, <4>1 DEF Exists, Allocated, IdAt
    <3> QED BY <3>1, <3>2
  <2>3. CASE callingExpiredTimers_
    BY <2>2, <2>3 DEF CancelInPlace, CancelInLoop, MarkCanceling
  <2>4. CASE ~ callingExpiredTimers_
    <3>1. Batch = {} /\ id.timer \notin Waiting
      <4>1. Batch = {}
        BY <2>1, <2>4 DEF TimerInv, PhasesOK, Batch
      <4>2. IdAt(id.timer) = id
        BY <2>2 DEF Exists
      <4> QED BY <2>2, <4>1, <4>2, Places
    <3>2. id \in AddsIn(functors) \cup AddsIn(pending_functors_)
      BY <2>2, <3>1 DEF TimerInv, InOnePlace, Exists, Queued
    <3>3. id \in AddsIn(pending_functors_)
      BY <2>1, <3>2, AddsEmpty
    <3>4. PICK i \in DOMAIN pending_functors_ :
            pending_functors_[i].op = "add" /\ pending_functors_[i].id = id
      BY <3>3 DEF AddsIn
    <3>5. pending_functors_[i] = [op |-> "add", id |-> id]
      <4>1. pending_functors_[i] \in Op
        BY <3>4, ElementOfSeq DEF TimerInv, TypeOK
      <4> QED BY <3>4, <4>1 DEF Op
    <3>6. functors \o pending_functors_ = pending_functors_
      BY <2>1, ConcatEmptySeq DEF TimerInv, TypeOK
    <3> QED BY <3>4, <3>5, <3>6 DEF InsertionQueued
  <2> QED BY <2>3, <2>4
<1> QED BY <1>1, TimerInvariant, PTL DEF Spec, CancelReaches
=============================================================================
