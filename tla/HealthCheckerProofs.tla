------------------------- MODULE HealthCheckerProofs -------------------------
(***************************************************************************)
(* For every set of backends and every number of probes and descriptors:   *)
(* a probe that ended left no descriptor behind, no backend has two probes *)
(* waiting, and since the checker and the threads that configure the       *)
(* balancer call its methods only, what LoadBalancerProofs establishes     *)
(* holds under the checker.                                                *)
(***************************************************************************)
EXTENDS HealthChecker, LoadBalancerProofs, WellFoundedInduction

\* The lowest free number exists: what socket() hands out is free.
LEMMA LowestIn ==
    ASSUME NEW S \in SUBSET Nat, S # {}
    PROVE  Lowest(S) \in S
<1>1. PICK x \in S : \A y \in S : ~ (<<y, x>> \in OpToRel(<, Nat))
  <2> DEFINE R == OpToRel(<, Nat)
  <2>1. IsWellFoundedOn(R, Nat)
    BY NatLessThanWellFounded
  <2> HIDE DEF R
  <2>2. \E x \in S : \A y \in S : ~ (<<y, x>> \in R)
    BY <2>1, WFMin
  <2> QED BY <2>2 DEF R
<1>2. \A y \in S : ~ (y < x)
  BY <1>1 DEF OpToRel
<1>3. \A y \in S : x <= y
  BY <1>2
<1> QED BY <1>3 DEF Lowest

-----------------------------------------------------------------------------
(* The inductive invariant.                                                *)

ProbeShape == [state : {"none", "pending", "ended"},
               addr : Backend \cup {NoBackend}, sockfd : Int]

\* A probe whose callbacks may still run knows its address, and an event of
\* the batch reaches no other.
ProbesOK ==
    /\ probes \in [Slot -> ProbeShape]
    /\ \A k \in Slot : probes[k].state # "none" => probes[k].addr \in Backend
    /\ \A k \in batch : k \in Slot \cup {Timerfd}
    /\ \A k \in batch \cap Slot : probes[k].state # "none"

InputsOK ==
    /\ reach \in [Backend -> BOOLEAN]
    /\ todo \subseteq Backend
    /\ all_backends_set_ \subseteq Backend

FdsOK ==
    /\ fds \in [Fd -> [owner : Nat, connect : {"none", "inProgress", "done", "refused"}]]

HCInv == InputsOK /\ ProbesOK /\ FdsOK /\ SocketsHeld

\* The timers and the round.  Each pending probe's timeout is in the TimerQueue
\* or among those handleRead has yet to run, once; the round of probes comes
\* after all of them, and while it lasts nobody waits to run.
Elements(s) == {s[i] : i \in DOMAIN s}

TimersOK ==
    /\ timers \in Seq(Slot) /\ Distinct(timers) /\ ndue \in 0 .. Len(timers)
    /\ Elements(timers) \subseteq Pending
    /\ Elements(timers) \cap Elements(running) = {}
    /\ Pending \subseteq Elements(timers) \cup Elements(running)

RoundOK ==
    /\ running \in Seq(Slot \cup {Check})
    /\ \A i \in DOMAIN running : running[i] = Check => i = Len(running)
    /\ checkDue \in BOOLEAN
    /\ checkDue => ndue = Len(timers) /\ running = <<>> /\ todo = {}
    /\ Check \in Elements(running) => timers = <<>>
    /\ todo # {} => running = <<>>
    /\ \A k \in Pending : probes[k].addr \notin todo

QueueInv == TimersOK /\ RoundOK /\ OneProbeEach

\* Probe slots are what the constants say.
LEMMA SlotFacts ==
    /\ Slot \subseteq Nat /\ Timerfd \notin Slot /\ Foreign \notin Slot
    /\ 0 \notin Slot /\ Foreign \in Nat /\ Fd \subseteq Nat
BY CheckerAssumption DEF Slot, Timerfd, Foreign, Fd

\* Before the first check.
LEMMA HCInvInit == HCInit => HCInv
<1> SUFFICES ASSUME HCInit PROVE HCInv
  OBVIOUS
<1>1. InputsOK
  BY DEF HCInit, LBInit, InputsOK
<1>2. ProbesOK
  BY DEF HCInit, ProbesOK, NoProbe, ProbeShape
<1>3. FdsOK /\ SocketsHeld
  BY SlotFacts DEF HCInit, FdsOK, SocketsHeld, Closed
<1> QED BY <1>1, <1>2, <1>3 DEF HCInv

-----------------------------------------------------------------------------
(* What each piece of an action does to the balancer and to the sockets.   *)

\* updateHealthStatus, whether or not it finds something to change.
LEMMA VerdictStep ==
    ASSUME NEW b \in Backend, NEW up \in BOOLEAN, Verdict(b, up)
    PROVE  [LBNext]_lbVars /\ UNCHANGED all_backends_set_
BY DEF Verdict, LBNext, UpdateHealthStatus, MarkUp, MarkDown, lbVars

\* getsockopt tells of an error or of none.
LEMMA SoErrorBoolean ==
    ASSUME NEW f PROVE SoError(f) \subseteq BOOLEAN
BY DEF SoError

\* A callback that closes its socket and gives up its probe leaves every other
\* probe its own, even when the number had been reused.
LEMMA CloseSocket ==
    ASSUME HCInv, NEW k \in Slot,
           fds' = Close(probes[k].sockfd),
           \A j \in Slot \ {k} : probes'[j] = probes[j]
    PROVE  FdsOK' /\ SocketsHeld'
<1>1. FdsOK'
  BY DEF HCInv, FdsOK, Close, Closed
<1>2. ASSUME NEW f \in Fd, fds'[f].owner \in Slot
      PROVE  fds'[f].owner \in Pending' /\ probes'[fds'[f].owner].sockfd = f
  <2>1. f # probes[k].sockfd /\ fds'[f] = fds[f]
    BY <1>2, SlotFacts DEF HCInv, FdsOK, Close, Closed
  <2>2. fds[f].owner \in Pending /\ probes[fds[f].owner].sockfd = f
    BY <1>2, <2>1 DEF HCInv, SocketsHeld
  <2>3. fds[f].owner # k
    BY <2>1, <2>2
  <2> QED BY <2>1, <2>2, <2>3 DEF Pending
<1> QED BY <1>1, <1>2 DEF SocketsHeld

\* Descriptors of other threads come and go without touching a probe's.
LEMMA OtherSocket ==
    ASSUME HCInv, NEW f \in Fd, NEW r, UNCHANGED probes,
           fds' = [fds EXCEPT ![f] = r],
           r \in [owner : Nat, connect : {"none", "inProgress", "done", "refused"}],
           r.owner \notin Slot \/ r.owner = fds[f].owner
    PROVE  FdsOK' /\ SocketsHeld'
<1>1. FdsOK'
  BY DEF HCInv, FdsOK
<1>2. ASSUME NEW g \in Fd, fds'[g].owner \in Slot
      PROVE  fds'[g].owner = fds[g].owner
  BY <1>2 DEF HCInv, FdsOK
<1> QED BY <1>1, <1>2 DEF HCInv, SocketsHeld, Pending

-----------------------------------------------------------------------------
(* The steps.  Each lemma covers one process.                              *)

\* A backend comes, goes or answers.
LEMMA OthersStep ==
    ASSUME HCInv, Others
    PROVE  HCInv' /\ [LBNext]_lbVars
<1>1. CASE ReachChanges
  BY <1>1 DEF ReachChanges, loopVars, lbVars, HCInv, InputsOK, ProbesOK, FdsOK,
              SocketsHeld, Pending
<1>2. CASE ConnectEnds
  <2>1. PICK f \in Fd : fds' = [fds EXCEPT ![f].connect =
              IF reach[probes[fds[f].owner].addr] THEN "done" ELSE "refused"]
    BY <1>2 DEF ConnectEnds
  <2> DEFINE r == [fds[f] EXCEPT !.connect =
              IF reach[probes[fds[f].owner].addr] THEN "done" ELSE "refused"]
  <2>2. /\ fds' = [fds EXCEPT ![f] = r] /\ r.owner = fds[f].owner
        /\ r \in [owner : Nat, connect : {"none", "inProgress", "done", "refused"}]
    BY <2>1 DEF HCInv, FdsOK
  <2> HIDE DEF r
  <2>3. UNCHANGED <<lbVars, reach, loopVars>>
    BY <1>2 DEF ConnectEnds
  <2>4. FdsOK' /\ SocketsHeld'
    BY <2>2, <2>3, OtherSocket DEF loopVars
  <2> QED BY <2>3, <2>4 DEF HCInv, InputsOK, ProbesOK, loopVars, lbVars
<1>3. CASE ForeignOpens
  <2>1. Lowest(FreeFds) \in FreeFds
    BY <1>3, SlotFacts, LowestIn DEF ForeignOpens, FreeFds
  <2> DEFINE f == Lowest(FreeFds)
             r == [fds[f] EXCEPT !.owner = Foreign]
  <2>2. f \in Fd
    BY <2>1 DEF FreeFds
  <2>3. fds' = [fds EXCEPT ![f] = r]
    BY <1>3, <2>2 DEF ForeignOpens, HCInv, FdsOK
  <2>4. /\ r.owner \notin Slot
        /\ r \in [owner : Nat, connect : {"none", "inProgress", "done", "refused"}]
    BY <2>2, SlotFacts DEF HCInv, FdsOK
  <2>5. UNCHANGED <<lbVars, reach, loopVars>>
    BY <1>3 DEF ForeignOpens
  <2> HIDE DEF f, r
  <2>6. FdsOK' /\ SocketsHeld'
    BY <2>2, <2>3, <2>4, <2>5, OtherSocket DEF loopVars
  <2> QED BY <2>5, <2>6 DEF HCInv, InputsOK, ProbesOK, loopVars, lbVars
<1>4. CASE ForeignCloses
  <2>1. PICK f \in Fd : fds' = [fds EXCEPT ![f] = Closed]
    BY <1>4 DEF ForeignCloses
  <2>2. UNCHANGED <<lbVars, reach, loopVars>>
    BY <1>4 DEF ForeignCloses
  <2>3. Closed.owner \notin Slot
        /\ Closed \in [owner : Nat, connect : {"none", "inProgress", "done", "refused"}]
    BY SlotFacts DEF Closed
  <2>4. FdsOK' /\ SocketsHeld'
    BY <2>1, <2>2, <2>3, OtherSocket DEF loopVars
  <2> QED BY <2>2, <2>4 DEF HCInv, InputsOK, ProbesOK, loopVars, lbVars
<1>5. CASE Configure
  <2>1. LBNext
    BY <1>5 DEF Configure, LBNext
  <2>2. all_backends_set_' \subseteq Backend
    BY <1>5 DEF Configure, AddBackend, RemoveBackend, HCInv, InputsOK
  <2>3. UNCHANGED <<reach, fds, loopVars>>
    BY <1>5 DEF Configure
  <2> QED BY <2>1, <2>2, <2>3 DEF HCInv, InputsOK, ProbesOK, FdsOK, SocketsHeld,
                                  Pending, loopVars
<1> QED BY <1>1, <1>2, <1>3, <1>4, <1>5 DEF Others

\* Time passes.
LEMMA ClockStep ==
    ASSUME HCInv, Clock
    PROVE  HCInv' /\ [LBNext]_lbVars
BY DEF Clock, TimeoutDue, CheckTimerDue, lbVars, HCInv, InputsOK, ProbesOK, FdsOK,
       SocketsHeld, Pending

\* A probe's timeout gives its verdict, closes its socket and ends it.
LEMMA TimeoutStep ==
    ASSUME HCInv, Timeout
    PROVE  HCInv' /\ [LBNext]_lbVars
<1> DEFINE k == Head(running)
<1>0. UNCHANGED <<reach, todo, batch>>
  BY DEF Timeout
<1>1. CASE k \in Pending
  <2>1. k \in Slot /\ probes[k].state = "pending" /\ probes[k].addr \in Backend
    BY <1>1 DEF Pending, HCInv, ProbesOK
  <2>2. /\ TimeoutVerdict(probes[k].addr)
        /\ fds' = Close(probes[k].sockfd)
        /\ probes' = Ended(k)
    BY <1>1 DEF Timeout
  <2> HIDE DEF k
  <2>3. [LBNext]_lbVars /\ UNCHANGED all_backends_set_
    BY <2>1, <2>2, VerdictStep DEF TimeoutVerdict
  <2>4. FdsOK' /\ SocketsHeld'
    <3>1. \A j \in Slot \ {k} : probes'[j] = probes[j]
      BY <2>2 DEF Ended, HCInv, ProbesOK
    <3> QED BY <2>1, <2>2, <3>1, CloseSocket
  <2>5. ProbesOK'
    <3>1. CASE k \in batch
      <4>1. probes' = [probes EXCEPT ![k] = [probes[k] EXCEPT !.state = "ended"]]
        BY <2>2, <3>1 DEF Ended
      <4>2. [probes[k] EXCEPT !.state = "ended"] \in ProbeShape
            /\ [probes[k] EXCEPT !.state = "ended"].addr = probes[k].addr
            /\ [probes[k] EXCEPT !.state = "ended"].state = "ended"
        BY <2>1 DEF HCInv, ProbesOK, ProbeShape
      <4> QED BY <4>1, <4>2, <2>1, <1>0 DEF HCInv, ProbesOK
    <3>2. CASE k \notin batch
      <4>1. probes' = [probes EXCEPT ![k] = NoProbe]
        BY <2>2, <3>2 DEF Ended
      <4>2. NoProbe \in ProbeShape /\ NoProbe.state = "none"
        BY DEF NoProbe, ProbeShape
      <4> QED BY <4>1, <4>2, <3>2, <1>0 DEF HCInv, ProbesOK
    <3> QED BY <3>1, <3>2
  <2> QED BY <1>0, <2>3, <2>4, <2>5 DEF HCInv, InputsOK
<1>2. CASE k \notin Pending
  <2>1. UNCHANGED <<lbVars, fds, probes>>
    BY <1>2 DEF Timeout
  <2> QED BY <1>0, <2>1 DEF HCInv, InputsOK, ProbesOK, FdsOK, SocketsHeld, Pending, lbVars
<1> QED BY <1>1, <1>2

\* A write callback cancels the timeout and ends its probe the same way, even
\* when the timeout ended it first.
LEMMA WriteCallbackStep ==
    ASSUME HCInv, NEW k \in Slot, WriteCallback(k)
    PROVE  HCInv' /\ [LBNext]_lbVars
<1>1. probes[k].addr \in Backend
  BY DEF WriteCallback, HCInv, ProbesOK
<1>2. [LBNext]_lbVars /\ UNCHANGED all_backends_set_
  <2>1. PICK error \in SoError(probes[k].sockfd) : Verdict(probes[k].addr, ~error)
    BY DEF WriteCallback
  <2>2. (~error) \in BOOLEAN
    BY <2>1
  <2> QED BY <1>1, <2>1, <2>2, VerdictStep
<1>3. /\ fds' = Close(probes[k].sockfd)
      /\ probes' = [probes EXCEPT ![k] = NoProbe]
      /\ batch' = batch \ {k}
      /\ UNCHANGED <<reach, todo>>
  BY DEF WriteCallback
<1>4. FdsOK' /\ SocketsHeld'
  <2>1. \A j \in Slot \ {k} : probes'[j] = probes[j]
    BY <1>3 DEF HCInv, ProbesOK
  <2> QED BY <1>3, <2>1, CloseSocket
<1>5. ProbesOK'
  <2>1. NoProbe \in ProbeShape /\ NoProbe.state = "none"
    BY DEF NoProbe, ProbeShape
  <2> QED BY <1>3, <2>1 DEF HCInv, ProbesOK
<1> QED BY <1>2, <1>3, <1>4, <1>5 DEF HCInv, InputsOK

\* A probe that starts takes a free descriptor and a free slot.
LEMMA ProbeStep ==
    ASSUME HCInv, NEW b \in Backend, Probe(b)
    PROVE  HCInv' /\ [LBNext]_lbVars
<1>0. UNCHANGED <<reach, batch>> /\ todo' = todo \ {b}
  BY DEF Probe
<1>1. CASE ProbeAtOnce(b)
  <2>1. [LBNext]_lbVars /\ UNCHANGED all_backends_set_
    <3>1. CASE UNCHANGED lbVars
      BY <3>1 DEF lbVars
    <3>2. CASE \E up \in BOOLEAN : Verdict(b, up)
      BY <3>2, VerdictStep
    <3> QED BY <1>1, <3>1, <3>2
            DEF ProbeAtOnce, ProbeSkipped, ProbeAnswered, ProbeFails
  <2>2. UNCHANGED <<fds, probes>>
    BY <1>1 DEF ProbeAtOnce
  <2> QED BY <1>0, <2>1, <2>2 DEF HCInv, InputsOK, ProbesOK, FdsOK, SocketsHeld, Pending
<1>2. CASE ProbeStarts(b)
  <2> DEFINE f == Lowest(FreeFds)
             k == Lowest(FreeSlots)
             r == [owner |-> k, connect |-> "inProgress"]
             p == [state |-> "pending", addr |-> b, sockfd |-> f]
  <2>1. f \in FreeFds /\ k \in FreeSlots
    BY <1>2, SlotFacts, LowestIn DEF ProbeStarts, FreeFds, FreeSlots
  <2>2. f \in Fd /\ k \in Slot /\ probes[k].state = "none" /\ f \in Nat /\ k \in Nat
    BY <2>1, SlotFacts DEF FreeFds, FreeSlots
  <2>3. /\ fds' = [fds EXCEPT ![f] = r]
        /\ probes' = [probes EXCEPT ![k] = p]
        /\ UNCHANGED lbVars
    BY <1>2 DEF ProbeStarts
  <2>4. /\ r \in [owner : Nat, connect : {"none", "inProgress", "done", "refused"}]
        /\ r.owner = k
        /\ p \in ProbeShape /\ p.state = "pending" /\ p.addr = b /\ p.sockfd = f
    BY <2>2 DEF ProbeShape
  <2> HIDE DEF f, k, r, p
  <2>5. FdsOK'
    BY <2>2, <2>3, <2>4 DEF HCInv, FdsOK
  <2>6. ProbesOK'
    BY <1>0, <2>2, <2>3, <2>4 DEF HCInv, ProbesOK
  <2>7. SocketsHeld'
    <3> SUFFICES ASSUME NEW g \in Fd, fds'[g].owner \in Slot
                 PROVE  fds'[g].owner \in Pending' /\ probes'[fds'[g].owner].sockfd = g
      BY DEF SocketsHeld
    <3>1. CASE g = f
      <4>1. fds'[g].owner = k /\ probes'[k] = p
        BY <3>1, <2>2, <2>3, <2>4 DEF HCInv, FdsOK, ProbesOK
      <4> QED BY <4>1, <3>1, <2>2, <2>4 DEF Pending
    <3>2. CASE g # f
      <4>1. fds'[g] = fds[g]
        BY <3>2, <2>3 DEF HCInv, FdsOK
      <4>2. fds[g].owner \in Pending /\ probes[fds[g].owner].sockfd = g
        BY <4>1 DEF HCInv, SocketsHeld
      <4>3. fds[g].owner # k
        BY <4>2, <2>2 DEF Pending
      <4>4. probes'[fds[g].owner] = probes[fds[g].owner]
        BY <4>2, <4>3, <2>3 DEF HCInv, ProbesOK, Pending
      <4> QED BY <4>1, <4>2, <4>4 DEF Pending
    <3> QED BY <3>1, <3>2
  <2>8. InputsOK' /\ [LBNext]_lbVars
    BY <1>0, <2>3 DEF HCInv, InputsOK, lbVars
  <2> QED BY <2>5, <2>6, <2>7, <2>8 DEF HCInv
<1> QED BY <1>1, <1>2 DEF Probe

\* The main loop runs a timer or a write callback.
LEMMA MainLoopStep ==
    ASSUME HCInv, MainLoop
    PROVE  HCInv' /\ [LBNext]_lbVars
<1>1. CASE EpollWait
  <2>1. \A k \in batch' : k \in Slot \cup {Timerfd}
    BY <1>1 DEF EpollWait, Writable, Pending
  <2>2. \A k \in batch' \cap Slot : probes[k].state # "none"
    BY <1>1, SlotFacts DEF EpollWait, Writable, Pending
  <2>3. UNCHANGED <<lbVars, reach, fds, probes, todo>>
    BY <1>1 DEF EpollWait
  <2> QED BY <2>1, <2>2, <2>3 DEF HCInv, InputsOK, ProbesOK, FdsOK, SocketsHeld,
                                  Pending, lbVars
<1>2. CASE HandleTimerfd
  <2>1. UNCHANGED <<lbVars, reach, fds, probes, todo>> /\ batch' = batch \ {Timerfd}
    BY <1>2 DEF HandleTimerfd
  <2> QED BY <2>1 DEF HCInv, InputsOK, ProbesOK, FdsOK, SocketsHeld, Pending, lbVars
<1>3. CASE Timeout
  BY <1>3, TimeoutStep
<1>4. CASE CheckBackends
  <2>1. UNCHANGED <<lbVars, reach, fds, probes, batch>> /\ todo' = all_backends_set_
    BY <1>4 DEF CheckBackends, AllBackends
  <2> QED BY <2>1 DEF HCInv, InputsOK, ProbesOK, FdsOK, SocketsHeld, Pending, lbVars
<1>5. CASE \E b \in Backend : Probe(b)
  BY <1>5, ProbeStep
<1>6. CASE \E k \in Slot : WriteCallback(k)
  BY <1>6, WriteCallbackStep
<1> QED BY <1>1, <1>2, <1>3, <1>4, <1>5, <1>6 DEF MainLoop

\* Any step, with what it does to the balancer.
LEMMA HCInvStep == HCInv /\ [HCNext]_hcVars => HCInv' /\ [LBNext]_lbVars
<1> SUFFICES ASSUME HCInv, [HCNext]_hcVars PROVE HCInv' /\ [LBNext]_lbVars
  OBVIOUS
<1>1. CASE HCNext
  BY <1>1, OthersStep, ClockStep, MainLoopStep DEF HCNext
<1>2. CASE UNCHANGED hcVars
  BY <1>2 DEF hcVars, loopVars, lbVars, HCInv, InputsOK, ProbesOK, FdsOK, SocketsHeld,
              Pending
<1> QED BY <1>1, <1>2

\* The invariant holds always.
LEMMA HCInvariance == HCSpec => []HCInv
<1> QED BY HCInvInit, HCInvStep, PTL DEF HCSpec

-----------------------------------------------------------------------------
(* The timeouts of a round run before the next round's probes start.       *)

\* What a sequence holds, when one element is taken from the front or added at
\* the end, and when it is cut in two.
LEMMA ElementsTail ==
    ASSUME NEW S, NEW s \in Seq(S), s # <<>>
    PROVE  /\ Head(s) \in S /\ Tail(s) \in Seq(S) /\ Len(Tail(s)) = Len(s) - 1
           /\ \A i \in DOMAIN Tail(s) : i + 1 \in DOMAIN s /\ Tail(s)[i] = s[i + 1]
           /\ Elements(s) = Elements(Tail(s)) \cup {Head(s)}
<1> DEFINE t == Tail(s)
<1>1. /\ Head(s) \in S /\ t \in Seq(S) /\ Len(t) = Len(s) - 1 /\ Len(s) \in Nat
      /\ DOMAIN t = 1 .. Len(t) /\ DOMAIN s = 1 .. Len(s) /\ 1 \in DOMAIN s
      /\ \A i \in 1 .. Len(t) : t[i] = s[i + 1]
      /\ Head(s) = s[1]
  <2>1. /\ Head(s) \in S /\ t \in Seq(S) /\ Len(t) = Len(s) - 1
        /\ \A i \in 1 .. Len(t) : t[i] = s[i + 1]
    BY HeadTailProperties
  <2> HIDE DEF t
  <2> QED BY <2>1, EmptySeq, LenProperties
<1> HIDE DEF t
<1>2. \A i \in DOMAIN t : i + 1 \in DOMAIN s /\ t[i] = s[i + 1]
  BY <1>1
<1>3. ASSUME NEW j \in DOMAIN s, j # 1 PROVE \E i \in DOMAIN t : t[i] = s[j]
  <2> DEFINE i == j - 1
  <2>1. i \in DOMAIN t /\ i + 1 = j
    BY <1>1, <1>3
  <2> HIDE DEF i
  <2> QED BY <1>1, <2>1
<1>4. Elements(s) = Elements(t) \cup {Head(s)}
  <2>1. ASSUME NEW x \in Elements(s) PROVE x \in Elements(t) \cup {Head(s)}
    <3>1. PICK j \in DOMAIN s : x = s[j]
      BY DEF Elements
    <3>2. CASE j = 1
      BY <1>1, <3>1, <3>2
    <3>3. CASE j # 1
      BY <1>3, <3>1, <3>3 DEF Elements
    <3> QED BY <3>2, <3>3
  <2>2. ASSUME NEW x \in Elements(t) PROVE x \in Elements(s)
    BY <1>2 DEF Elements
  <2>3. Head(s) \in Elements(s)
    BY <1>1 DEF Elements
  <2> QED BY <2>1, <2>2, <2>3
<1> QED BY <1>1, <1>2, <1>4 DEF t

\* What a queue holds after an append.
LEMMA ElementsAppend ==
    ASSUME NEW S, NEW s \in Seq(S), NEW x \in S, Distinct(s), x \notin Elements(s)
    PROVE  /\ Append(s, x) \in Seq(S) /\ Len(Append(s, x)) = Len(s) + 1
           /\ Distinct(Append(s, x)) /\ Elements(Append(s, x)) = Elements(s) \cup {x}
<1> DEFINE t == Append(s, x)
           n == Len(s) + 1
<1>1. t \in Seq(S) /\ Len(t) = n /\ t[n] = x /\ \A i \in 1 .. Len(s) : t[i] = s[i]
  BY AppendProperties
<1> HIDE DEF t
<1>2. /\ Len(s) \in Nat /\ DOMAIN s = 1 .. Len(s) /\ DOMAIN t = DOMAIN s \cup {n}
      /\ n \notin DOMAIN s
  BY <1>1
<1> HIDE DEF n
<1>3. \A i \in DOMAIN s : t[i] = s[i] /\ s[i] # x
  BY <1>1, <1>2 DEF Elements
<1>4. Distinct(t) /\ Elements(t) = Elements(s) \cup {x}
  BY <1>1, <1>2, <1>3 DEF Distinct, Elements
<1> QED BY <1>1, <1>4 DEF t, n

\* What a queue holds, cut in two.
LEMMA ElementsSplit ==
    ASSUME NEW S, NEW s \in Seq(S), Distinct(s), NEW n \in 0 .. Len(s)
    PROVE  LET front == SubSeq(s, 1, n)
               rest == SubSeq(s, n + 1, Len(s))
           IN  /\ front \in Seq(S) /\ rest \in Seq(S) /\ Len(rest) = Len(s) - n
               /\ Distinct(rest)
               /\ Elements(front) \cap Elements(rest) = {}
               /\ Elements(front) \cup Elements(rest) = Elements(s)
<1> DEFINE front == SubSeq(s, 1, n)
           rest == SubSeq(s, n + 1, Len(s))
<1>1. Len(s) \in Nat /\ n \in Nat /\ n <= Len(s) /\ DOMAIN s = 1 .. Len(s)
  OBVIOUS
<1>2. /\ front \in Seq(S) /\ Len(front) = n /\ \A i \in 1 .. n : front[i] = s[i]
      /\ rest \in Seq(S) /\ Len(rest) = Len(s) - n
      /\ \A i \in 1 .. Len(s) - n : rest[i] = s[n + i]
  OBVIOUS
<1> HIDE DEF front, rest
<1>3. DOMAIN front = 1 .. n /\ DOMAIN rest = 1 .. Len(s) - n
  BY <1>2, LenProperties
<1> DEFINE m == Len(s)
<1>10. m \in Nat /\ n \in Nat /\ n <= m
  BY <1>1
<1>11. DOMAIN s = 1 .. m /\ DOMAIN front = 1 .. n /\ DOMAIN rest = 1 .. m - n
  BY <1>1, <1>3
<1>12. \A i \in 1 .. m - n : rest[i] = s[n + i]
  BY <1>2
<1> HIDE DEF m
<1>4. ASSUME NEW i \in DOMAIN rest
      PROVE  \E j \in DOMAIN s : j = n + i /\ j \notin DOMAIN front /\ rest[i] = s[j]
  <2> DEFINE j == n + i
  <2>1. i \in 1 .. m - n
    BY <1>11
  <2>2. rest[i] = s[j]
    BY <1>12, <2>1
  <2>3. j \in 1 .. m /\ j \notin 1 .. n
    BY <1>10, <2>1
  <2> HIDE DEF j
  <2> QED BY <1>11, <2>2, <2>3 DEF j
<1>5. ASSUME NEW j \in DOMAIN s, j \notin DOMAIN front
      PROVE  \E i \in DOMAIN rest : rest[i] = s[j]
  <2> DEFINE i == j - n
  <2>1. j \in 1 .. m /\ j \notin 1 .. n
    BY <1>5, <1>11
  <2>2. i \in 1 .. m - n /\ n + i = j
    BY <1>10, <2>1
  <2> HIDE DEF i
  <2>3. rest[i] = s[n + i] /\ i \in DOMAIN rest
    BY <1>11, <1>12, <2>2
  <2> QED BY <2>2, <2>3
<1>6. \A i \in DOMAIN front : i \in DOMAIN s /\ front[i] = s[i]
  <2>1. \A i \in 1 .. n : i \in 1 .. m
    BY <1>10
  <2> QED BY <1>2, <1>11, <2>1
<1>7. Distinct(rest)
  <2> SUFFICES ASSUME NEW i \in DOMAIN rest, NEW j \in DOMAIN rest, rest[i] = rest[j]
               PROVE  i = j
    BY DEF Distinct
  <2>1. PICK a \in DOMAIN s : a = n + i /\ rest[i] = s[a]
    BY <1>4
  <2>2. PICK b \in DOMAIN s : b = n + j /\ rest[j] = s[b]
    BY <1>4
  <2>3. a = b
    BY <2>1, <2>2 DEF Distinct
  <2>4. i \in 1 .. m - n /\ j \in 1 .. m - n
    BY <1>11
  <2> QED BY <1>10, <2>1, <2>2, <2>3, <2>4
<1>8. Elements(front) \cap Elements(rest) = {}
  BY <1>4, <1>6 DEF Elements, Distinct
<1>9. Elements(front) \cup Elements(rest) = Elements(s)
  <2>1. ASSUME NEW x \in Elements(s) PROVE x \in Elements(front) \cup Elements(rest)
    <3>1. PICK j \in DOMAIN s : x = s[j]
      BY DEF Elements
    <3> QED BY <1>5, <1>6, <3>1 DEF Elements
  <2>2. Elements(front) \subseteq Elements(s)
    BY <1>6 DEF Elements
  <2>3. ASSUME NEW x \in Elements(rest) PROVE x \in Elements(s)
    <3>1. PICK i \in DOMAIN rest : x = rest[i]
      BY DEF Elements
    <3>2. PICK j \in DOMAIN s : rest[i] = s[j]
      BY <1>4
    <3> QED BY <3>1, <3>2 DEF Elements
  <2> QED BY <2>1, <2>2, <2>3
<1> QED BY <1>2, <1>3, <1>7, <1>8, <1>9 DEF front, rest

\* What a queue holds after an erasure.
LEMMA EraseElements ==
    ASSUME NEW S, NEW s \in Seq(S), NEW b, Distinct(s), PositionsOf(s, b) # {}
    PROVE  LET t == EraseFound(s, b)
           IN  /\ t \in Seq(S) /\ Len(t) = Len(s) - 1 /\ Distinct(t)
               /\ Elements(t) = Elements(s) \ {b}
<1> DEFINE t == EraseFound(s, b)
<1>1. /\ t \in Seq(S) /\ Len(t) = Len(s) - 1 /\ Distinct(t)
      /\ {t[i] : i \in DOMAIN t} = {s[i] : i \in DOMAIN s} \ {b}
  BY EraseProperties
<1> HIDE DEF t
<1> QED BY <1>1 DEF Elements, t

\* The erasure of a probe's timeout, which may be gone already.
LEMMA CancelProperties ==
    ASSUME TimersOK, NEW k \in Slot, Cancel(k)
    PROVE  /\ timers' \in Seq(Slot) /\ Distinct(timers') /\ ndue' \in 0 .. Len(timers')
           /\ Elements(timers') = Elements(timers) \ {k}
           /\ ndue = Len(timers) => ndue' = Len(timers')
<1>1. /\ timers \in Seq(Slot) /\ Distinct(timers) /\ ndue \in 0 .. Len(timers)
      /\ Len(timers) \in Nat /\ DOMAIN timers = 1 .. Len(timers)
  BY DEF TimersOK
<1>2. /\ timers' = EraseFound(timers, k)
      /\ ndue' = IF \E i \in 1 .. ndue : timers[i] = k THEN ndue - 1 ELSE ndue
  BY DEF Cancel
<1>3. CASE PositionsOf(timers, k) = {}
  <2>1. timers' = timers /\ ndue' = ndue /\ k \notin Elements(timers)
    BY <1>1, <1>2, <1>3 DEF EraseFound, PositionsOf, Elements
  <2> QED BY <1>1, <2>1
<1>4. CASE PositionsOf(timers, k) # {}
  <2>1. /\ timers' \in Seq(Slot) /\ Len(timers') = Len(timers) - 1
        /\ Distinct(timers') /\ Elements(timers') = Elements(timers) \ {k}
    <3> DEFINE t == EraseFound(timers, k)
    <3>0. timers \in Seq(Slot) /\ Distinct(timers)
      BY <1>1
    <3>1. /\ t \in Seq(Slot) /\ Len(t) = Len(timers) - 1 /\ Distinct(t)
          /\ Elements(t) = Elements(timers) \ {k}
      BY <3>0, <1>4, EraseElements
    <3> HIDE DEF t
    <3>2. timers' = t
      BY <1>2 DEF t
    <3> QED BY <3>1, <3>2
  <2>2. PICK p \in DOMAIN timers : timers[p] = k
    BY <1>4 DEF PositionsOf
  <2>3. (\E i \in 1 .. ndue : timers[i] = k) <=> p <= ndue
    BY <1>1, <2>2 DEF Distinct
  <2>4. ndue' = IF p <= ndue THEN ndue - 1 ELSE ndue
    BY <1>2, <2>3
  <2>5. p \in Int /\ 1 <= p /\ p <= Len(timers) /\ ndue \in Int /\ 0 <= ndue
        /\ ndue <= Len(timers)
    BY <1>1, <2>2
  <2>6. ndue' \in 0 .. Len(timers) - 1 /\ (ndue = Len(timers) => ndue' = Len(timers) - 1)
    <3> DEFINE n == Len(timers)
               d == ndue
               e == ndue'
    <3>1. n \in Nat /\ d \in Int /\ 0 <= d /\ d <= n /\ p \in Int /\ 1 <= p /\ p <= n
      BY <1>1, <2>5
    <3>2. e = IF p <= d THEN d - 1 ELSE d
      BY <2>4
    <3> HIDE DEF n, d, e
    <3>3. e \in 0 .. n - 1 /\ (d = n => e = n - 1)
      BY <3>1, <3>2
    <3> QED BY <3>3 DEF n, d, e
  <2> QED BY <2>1, <2>6
<1> QED BY <1>3, <1>4

\* A step that leaves probes, timers and the round alone.
LEMMA SameQueue ==
    ASSUME QueueInv,
           UNCHANGED <<probes, timers, ndue, checkDue, running, todo>>
    PROVE  QueueInv'
BY DEF QueueInv, TimersOK, RoundOK, OneProbeEach, Pending

\* A probe that ends: nobody waits for it any more.
LEMMA EndsProbe ==
    ASSUME QueueInv, HCInv, NEW k \in Slot,
           \A j \in Slot \ {k} : probes'[j] = probes[j],
           probes'[k].state # "pending"
    PROVE  /\ Pending' = Pending \ {k} /\ OneProbeEach'
           /\ UNCHANGED todo => \A j \in Pending' : probes'[j].addr \notin todo'
<1>1. Pending' = Pending \ {k}
  BY DEF Pending
<1>2. \A j \in Pending' : j \in Pending /\ probes'[j] = probes[j]
  BY <1>1 DEF Pending
<1> QED BY <1>1, <1>2 DEF QueueInv, OneProbeEach, RoundOK

\* Before the first check no probe is pending.
LEMMA QueueInit == HCInit => QueueInv
<1> SUFFICES ASSUME HCInit PROVE QueueInv
  OBVIOUS
<1>1. Pending = {} /\ timers = <<>> /\ running = <<>> /\ ndue = 0 /\ todo = {}
      /\ checkDue = FALSE
  BY DEF HCInit, Pending, NoProbe
<1>2. Elements(<<>>) = {} /\ Distinct(<<>>)
  BY DEF Elements, Distinct
<1>3. <<>> \in Seq(Slot) /\ <<>> \in Seq(Slot \cup {Check}) /\ Len(<<>>) = 0
  BY EmptySeq
<1>4. TimersOK
  BY <1>1, <1>2, <1>3 DEF TimersOK
<1>5. RoundOK
  <2>1. running \in Seq(Slot \cup {Check})
    BY <1>1, <1>3
  <2>2. Elements(running) = {} /\ DOMAIN running = {}
    BY <1>1, <1>2 DEF Elements
  <2> QED BY <1>1, <2>1, <2>2 DEF RoundOK
<1> QED BY <1>1, <1>4, <1>5 DEF QueueInv, OneProbeEach

\* handleRead takes out the timers that are due, the repeating one last.
LEMMA HandleTimerfdQueue ==
    ASSUME QueueInv, HandleTimerfd
    PROVE  QueueInv'
<1> DEFINE front == SubSeq(timers, 1, ndue)
           check == IF checkDue THEN <<Check>> ELSE <<>>
<1>1. /\ running = <<>> /\ todo = {} /\ running' = front \o check
      /\ timers' = SubSeq(timers, ndue + 1, Len(timers))
      /\ ndue' = 0 /\ checkDue' = FALSE /\ UNCHANGED <<probes, todo>>
  BY DEF HandleTimerfd, Expired
<1>2. /\ timers \in Seq(Slot) /\ Distinct(timers) /\ ndue \in 0 .. Len(timers)
      /\ Elements(timers) \subseteq Pending /\ Pending \subseteq Elements(timers)
  BY <1>1 DEF QueueInv, TimersOK, Elements
<1>3. /\ front \in Seq(Slot) /\ timers' \in Seq(Slot) /\ Len(timers') = Len(timers) - ndue
      /\ Distinct(timers')
      /\ Elements(front) \cap Elements(timers') = {}
      /\ Elements(front) \cup Elements(timers') = Elements(timers)
  <2> DEFINE rest == SubSeq(timers, ndue + 1, Len(timers))
  <2>1. /\ front \in Seq(Slot) /\ rest \in Seq(Slot) /\ Len(rest) = Len(timers) - ndue
        /\ Distinct(rest)
        /\ Elements(front) \cap Elements(rest) = {}
        /\ Elements(front) \cup Elements(rest) = Elements(timers)
    BY <1>2, ElementsSplit
  <2> HIDE DEF front, rest
  <2>2. timers' = rest
    BY <1>1 DEF rest
  <2> QED BY <2>1, <2>2
<1> HIDE DEF front
<1>4. Check \notin Slot
  BY SlotFacts DEF Check
<1>5. /\ running' \in Seq(Slot \cup {Check})
      /\ \A i \in DOMAIN running' : running'[i] = Check => i = Len(running') /\ checkDue
      /\ Elements(running') = Elements(front) \cup (IF checkDue THEN {Check} ELSE {})
  <2>1. CASE checkDue
    <3>1. running' = front \o <<Check>>
      BY <1>1, <2>1
    <3>2. front \o <<Check>> = Append(front, Check)
      BY <1>3
    <3>3. Len(front) \in Nat /\ DOMAIN front = 1 .. Len(front)
      BY <1>3
    <3> DEFINE n == Len(front) + 1
    <3>4. /\ running' \in Seq(Slot \cup {Check}) /\ Len(running') = n /\ running'[n] = Check
          /\ DOMAIN running' = DOMAIN front \cup {n}
          /\ \A i \in DOMAIN front : running'[i] = front[i]
      <4>1. front \in Seq(Slot \cup {Check})
        BY <1>3
      <4> QED BY <3>1, <3>2, <3>3, <4>1
    <3> HIDE DEF n
    <3>5. \A i \in DOMAIN front : front[i] # Check
      BY <1>3, <1>4, <3>3
    <3> QED BY <2>1, <3>4, <3>5 DEF Elements
  <2>2. CASE ~ checkDue
    <3>1. running' = front
      BY <1>1, <1>3, <2>2, ConcatEmptySeq
    <3>2. \A i \in DOMAIN front : front[i] # Check
      BY <1>3, <1>4
    <3> QED BY <1>3, <2>2, <3>1, <3>2
  <2> QED BY <2>1, <2>2
<1>6. Pending' = Pending
  BY <1>1 DEF Pending
<1>7. Elements(timers') \subseteq Slot
  BY <1>3 DEF Elements
<1>8. TimersOK'
  <2>1. Elements(timers') \cap Elements(running') = {}
    BY <1>3, <1>4, <1>5, <1>7
  <2>2. 0 \in 0 .. Len(timers')
    BY <1>3
  <2> QED BY <1>1, <1>2, <1>3, <1>5, <1>6, <2>1, <2>2 DEF TimersOK
<1>9. RoundOK'
  <2>1. checkDue => timers' = <<>>
    <3>1. checkDue => Len(timers') = 0
      BY <1>2, <1>3 DEF QueueInv, RoundOK
    <3> QED BY <1>3, <3>1, EmptySeq
  <2>2. Check \in Elements(running') => checkDue
    BY <1>3, <1>4, <1>5 DEF Elements
  <2> QED BY <1>1, <1>5, <2>1, <2>2 DEF RoundOK
<1>10. OneProbeEach'
  BY <1>1, <1>6 DEF QueueInv, OneProbeEach
<1> QED BY <1>8, <1>9, <1>10 DEF QueueInv

\* The timers handleRead runs: what is left of them when one has run.
LEMMA RunsNext ==
    ASSUME QueueInv, running # <<>>, running' = Tail(running)
    PROVE  /\ running' \in Seq(Slot \cup {Check})
           /\ Head(running) \in Slot \cup {Check}
           /\ Elements(running) = Elements(running') \cup {Head(running)}
           /\ \A i \in DOMAIN running' : running'[i] = Check => i = Len(running')
           /\ Head(running) = Check => running' = <<>>
<1>1. /\ running \in Seq(Slot \cup {Check}) /\ Len(running) \in Nat
      /\ \A i \in DOMAIN running : running[i] = Check => i = Len(running)
  BY DEF QueueInv, RoundOK
<1>2. /\ running' \in Seq(Slot \cup {Check}) /\ Len(running') = Len(running) - 1
      /\ Head(running) \in Slot \cup {Check}
      /\ \A i \in DOMAIN running' : i + 1 \in DOMAIN running /\ running'[i] = running[i + 1]
      /\ Elements(running) = Elements(running') \cup {Head(running)}
  BY <1>1, ElementsTail
<1>3. ASSUME NEW i \in DOMAIN running', running'[i] = Check PROVE i = Len(running')
  <2> DEFINE j == i + 1
  <2>1. j \in DOMAIN running /\ running[j] = Check
    BY <1>2, <1>3
  <2> HIDE DEF j
  <2>2. j = Len(running)
    BY <1>1, <2>1
  <2>3. i \in Nat
    BY <1>2
  <2> QED BY <1>1, <1>2, <2>2, <2>3 DEF j
<1>4. ASSUME Head(running) = Check PROVE running' = <<>>
  <2>1. 1 \in DOMAIN running /\ running[1] = Check
    BY <1>1, <1>4, EmptySeq
  <2>2. Len(running') = 0
    BY <1>1, <1>2, <2>1
  <2> QED BY <1>2, <2>2, EmptySeq
<1> QED BY <1>2, <1>3, <1>4

\* A timeout that ends its probe.
LEMMA TimeoutQueue ==
    ASSUME QueueInv, HCInv, Timeout
    PROVE  QueueInv'
<1> DEFINE k == Head(running)
<1>1. /\ running # <<>> /\ running' = Tail(running) /\ todo = {} /\ k # Check
      /\ UNCHANGED <<timers, ndue, checkDue, todo>>
  BY DEF Timeout
<1>2. /\ running' \in Seq(Slot \cup {Check}) /\ k \in Slot
      /\ Elements(running) = Elements(running') \cup {k}
      /\ \A i \in DOMAIN running' : running'[i] = Check => i = Len(running')
  BY <1>1, RunsNext
<1>3. CASE k \in Pending
  <2>1. probes' = Ended(k)
    BY <1>3 DEF Timeout
  <2> HIDE DEF k
  <2>2. /\ \A j \in Slot \ {k} : probes'[j] = probes[j]
        /\ probes'[k].state # "pending"
    BY <1>2, <2>1 DEF Ended, NoProbe, HCInv, ProbesOK, ProbeShape
  <2>3. /\ Pending' = Pending \ {k} /\ OneProbeEach'
        /\ \A j \in Pending' : probes'[j].addr \notin todo'
    BY <1>1, <1>2, <2>2, EndsProbe
  <2> QED BY <1>1, <1>2, <2>3 DEF QueueInv, TimersOK, RoundOK
<1>4. CASE k \notin Pending
  <2>1. UNCHANGED probes
    BY <1>4 DEF Timeout
  <2> HIDE DEF k
  <2>2. Pending' = Pending /\ OneProbeEach'
    BY <2>1 DEF Pending, QueueInv, OneProbeEach
  <2> QED BY <1>1, <1>2, <1>4, <2>1, <2>2 DEF QueueInv, TimersOK, RoundOK
<1> QED BY <1>3, <1>4

\* When the round begins every earlier probe has ended.
LEMMA CheckBackendsQueue ==
    ASSUME QueueInv, CheckBackends
    PROVE  QueueInv'
<1>1. /\ running # <<>> /\ running' = Tail(running) /\ Head(running) = Check
      /\ UNCHANGED <<probes, timers, ndue, checkDue>>
  BY DEF CheckBackends
<1>2. running' = <<>> /\ Elements(running) = Elements(running') \cup {Check}
  BY <1>1, RunsNext
<1>3. Elements(<<>>) = {}
  BY DEF Elements
<1>4. timers = <<>> /\ Pending \subseteq {Check}
  BY <1>2, <1>3 DEF QueueInv, TimersOK, RoundOK
<1>5. Pending = {} /\ Pending' = {}
  <2>1. Check \notin Slot
    BY SlotFacts DEF Check
  <2> QED BY <1>1, <1>4, <2>1 DEF Pending
<1>6. ~ checkDue
  BY <1>1 DEF QueueInv, RoundOK
<1>7. TimersOK'
  BY <1>1, <1>2, <1>3, <1>4, <1>5 DEF QueueInv, TimersOK
<1>8. RoundOK'
  <2>1. running' \in Seq(Slot \cup {Check})
    BY <1>2
  <2> QED BY <1>1, <1>2, <1>3, <1>5, <1>6, <2>1 DEF QueueInv, RoundOK
<1> QED BY <1>5, <1>7, <1>8 DEF QueueInv, OneProbeEach

\* A probe starts: nobody else of this round has its address.
LEMMA ProbeQueue ==
    ASSUME QueueInv, HCInv, NEW b \in Backend, Probe(b)
    PROVE  QueueInv'
<1>1. /\ b \in todo /\ todo' = todo \ {b} /\ UNCHANGED <<ndue, checkDue, running>>
      /\ running = <<>> /\ ~ checkDue
  BY DEF Probe, QueueInv, RoundOK
<1>2. CASE ProbeAtOnce(b)
  <2>1. UNCHANGED <<probes, timers>>
    BY <1>2 DEF ProbeAtOnce
  <2> QED BY <1>1, <2>1 DEF QueueInv, TimersOK, RoundOK, OneProbeEach, Pending
<1>3. CASE ProbeStarts(b)
  <2> DEFINE k == Lowest(FreeSlots)
             p == [state |-> "pending", addr |-> b, sockfd |-> Lowest(FreeFds)]
  <2>1. k \in FreeSlots
    BY <1>3, SlotFacts, LowestIn DEF ProbeStarts, FreeSlots
  <2>2. k \in Slot /\ k \notin Pending
    BY <2>1 DEF FreeSlots, Pending
  <2>3. probes' = [probes EXCEPT ![k] = p] /\ timers' = Append(timers, k)
    BY <1>3 DEF ProbeStarts
  <2>4. p.state = "pending" /\ p.addr = b
    OBVIOUS
  <2> HIDE DEF k, p
  <2>5. probes'[k] = p /\ \A j \in Slot \ {k} : probes'[j] = probes[j]
    BY <2>2, <2>3 DEF HCInv, ProbesOK
  <2>6. Pending' = Pending \cup {k}
    BY <2>2, <2>4, <2>5 DEF Pending
  <2>7. \A j \in Pending : j \in Slot \ {k} /\ probes[j].addr # b /\ probes[j].addr \notin todo
    BY <1>1, <2>2 DEF QueueInv, RoundOK, Pending
  <2>8. /\ timers' \in Seq(Slot) /\ Distinct(timers') /\ Len(timers') = Len(timers) + 1
        /\ Elements(timers') = Elements(timers) \cup {k}
    <3>1. timers \in Seq(Slot) /\ Distinct(timers) /\ k \notin Elements(timers)
      BY <2>2 DEF QueueInv, TimersOK
    <3> QED BY <2>2, <2>3, <3>1, ElementsAppend
  <2>9. Elements(<<>>) = {}
    BY DEF Elements
  <2>10. TimersOK'
    <3>1. ndue' \in 0 .. Len(timers')
      BY <1>1, <2>8 DEF QueueInv, TimersOK
    <3> QED BY <1>1, <2>6, <2>8, <2>9, <3>1 DEF QueueInv, TimersOK
  <2>11. RoundOK'
    BY <1>1, <2>4, <2>5, <2>6, <2>7, <2>9 DEF QueueInv, RoundOK
  <2>12. OneProbeEach'
    BY <2>4, <2>5, <2>6, <2>7 DEF QueueInv, OneProbeEach
  <2> QED BY <2>10, <2>11, <2>12 DEF QueueInv
<1> QED BY <1>2, <1>3 DEF Probe

\* A write callback that ends its probe, cancelling its timeout.
LEMMA WriteCallbackQueue ==
    ASSUME QueueInv, HCInv, NEW k \in Slot, WriteCallback(k)
    PROVE  QueueInv'
<1>1. /\ running = <<>> /\ todo = {} /\ Cancel(k)
      /\ probes' = [probes EXCEPT ![k] = NoProbe]
      /\ UNCHANGED <<checkDue, running, todo>>
  BY DEF WriteCallback
<1>2. /\ timers' \in Seq(Slot) /\ Distinct(timers') /\ ndue' \in 0 .. Len(timers')
      /\ Elements(timers') = Elements(timers) \ {k}
      /\ ndue = Len(timers) => ndue' = Len(timers')
  BY <1>1, CancelProperties DEF QueueInv
<1>3. /\ \A j \in Slot \ {k} : probes'[j] = probes[j]
      /\ probes'[k].state # "pending"
  BY <1>1 DEF NoProbe, HCInv, ProbesOK
<1>4. /\ Pending' = Pending \ {k} /\ OneProbeEach'
      /\ \A j \in Pending' : probes'[j].addr \notin todo'
  BY <1>1, <1>3, EndsProbe
<1>5. Elements(running) = {} /\ Elements(running') = {}
  BY <1>1 DEF Elements
<1>6. TimersOK'
  BY <1>2, <1>4, <1>5 DEF QueueInv, TimersOK
<1>7. RoundOK'
  BY <1>1, <1>2, <1>4, <1>5 DEF QueueInv, RoundOK
<1> QED BY <1>4, <1>6, <1>7 DEF QueueInv

\* Any step keeps each probe its timeout.
LEMMA QueueNext == HCInv /\ QueueInv /\ [HCNext]_hcVars => QueueInv'
<1> SUFFICES ASSUME HCInv, QueueInv, [HCNext]_hcVars PROVE QueueInv'
  OBVIOUS
<1>1. CASE Others \/ EpollWait \/ UNCHANGED hcVars
  <2>1. UNCHANGED <<probes, timers, ndue, checkDue, running, todo>>
    BY <1>1 DEF Others, ReachChanges, ConnectEnds, ForeignOpens, ForeignCloses,
                Configure, EpollWait, hcVars, loopVars
  <2> QED BY <2>1, SameQueue
<1>2. CASE TimeoutDue
  <2>1. /\ ndue < Len(timers) /\ ndue' = ndue + 1
        /\ UNCHANGED <<probes, timers, checkDue, running, todo>>
    BY <1>2 DEF TimeoutDue
  <2>2. ndue \in 0 .. Len(timers) /\ Len(timers) \in Nat
    BY DEF QueueInv, TimersOK
  <2>3. ndue' \in 0 .. Len(timers) /\ ~ checkDue
    BY <2>1, <2>2 DEF QueueInv, RoundOK
  <2> QED BY <2>1, <2>3 DEF QueueInv, TimersOK, RoundOK, OneProbeEach, Pending
<1>3. CASE CheckTimerDue
  BY <1>3 DEF CheckTimerDue, QueueInv, TimersOK, RoundOK, OneProbeEach, Pending
<1>4. CASE HandleTimerfd
  BY <1>4, HandleTimerfdQueue
<1>5. CASE Timeout
  BY <1>5, TimeoutQueue
<1>6. CASE CheckBackends
  BY <1>6, CheckBackendsQueue
<1>7. CASE \E b \in Backend : Probe(b)
  BY <1>7, ProbeQueue
<1>8. CASE \E k \in Slot : WriteCallback(k)
  BY <1>8, WriteCallbackQueue
<1> QED BY <1>1, <1>2, <1>3, <1>4, <1>5, <1>6, <1>7, <1>8 DEF HCNext, Clock, MainLoop

\* No two probes of one backend wait at a time, however many backends there are
\* and however their timeouts are queued (health_checker.cpp:13-17, 43-51).
THEOREM ProbesDoNotOverlap == HCSpec => []OneProbeEach
<1>1. QueueInv => OneProbeEach
  BY DEF QueueInv
<1> QED BY <1>1, QueueInit, QueueNext, HCInvariance, PTL DEF HCSpec

-----------------------------------------------------------------------------
\* No probe leaks its socket: whatever order the timeout, the write callback
\* and the reuse of the number come in (health_checker.cpp:26-76).
THEOREM SocketsAreHeld == HCSpec => []SocketsHeld
<1>1. HCInv => SocketsHeld
  BY DEF HCInv
<1> QED BY <1>1, HCInvariance, PTL

\* Seen from the balancer, each step of the checker and of the threads that
\* configure it is one call of a method or none.
LEMMA CheckerCallsMethods == HCSpec => LBSpec
<1>1. HCInit => LBInit
  BY DEF HCInit
<1>2. HCInv /\ [HCNext]_hcVars => [LBNext]_lbVars
  BY HCInvStep
<1> QED BY <1>1, <1>2, HCInvariance, PTL DEF HCSpec, LBSpec

\* Hence, under the checker, the cursor never leaves the vector and no address
\* is in it twice.
THEOREM CheckedCursorSafe == HCSpec => [](CursorInBounds /\ NoDuplicate)
<1> QED BY CheckerCallsMethods, LBCursorSafe, LBDistinct, PTL
=============================================================================
