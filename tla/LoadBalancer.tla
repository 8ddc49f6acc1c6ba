---------------------------- MODULE LoadBalancer ----------------------------
(***************************************************************************)
(* app::LoadBalancer: the round-robin list of healthy backends that the    *)
(* main loop's health checker updates and every worker loop picks from.    *)
(* Each method holds mutex_ from its first statement to its last, so each  *)
(* is one atomic action, whichever thread calls it.                        *)
(***************************************************************************)
EXTENDS Naturals, Sequences, SequencesExt

CONSTANTS
    Backend,    \* the net::InetAddress values a backend can have
    NoBackend   \* getNextBackend returned false

ASSUME BackendAssumption == NoBackend \notin Backend

VARIABLES
    all_backends_set_,  \* std::set of the configured addresses
    healthy_backends_,  \* std::vector the rotation runs over
    next_index_,        \* position (from 0) of the next backend to hand out
    reply,              \* what the last getNextBackend answered
    turn,               \* history: backends handed out since the rotation began
    parity              \* history: parity of the number of answers given

lbVars == <<all_backends_set_, healthy_backends_, next_index_, reply, turn,
            parity>>

Healthy == {healthy_backends_[i] : i \in DOMAIN healthy_backends_}
Size == Len(healthy_backends_)

-----------------------------------------------------------------------------
(* Helpers on the vector.                                                  *)

\* std::find: some position that holds b; positions count from 1 here.
PositionsOf(s, b) == {i \in DOMAIN s : s[i] = b}
Find(s, b) == CHOOSE i \in PositionsOf(s, b) : \A j \in PositionsOf(s, b) : i <= j

\* vector::erase of the first occurrence, which std::find returned.
EraseFound(s, b) == IF PositionsOf(s, b) = {} THEN s ELSE RemoveAt(s, Find(s, b))

\* std::remove and erase: every occurrence goes.  On a vector that holds b at
\* most once that is the erasure of the one found.
EraseAll(s, b) ==
    IF \A i, j \in PositionsOf(s, b) : i = j
    THEN EraseFound(s, b)
    ELSE SelectSeq(s, LAMBDA c : c # b)

-----------------------------------------------------------------------------
\* The operations.  CursorStays, CursorWrapsLate, MarkUpUnchecked, CursorKept
\* and CursorShifted are not the code's: each is a mistake the definition
\* after it could have made, and the properties below tell it apart.
LBInit ==
    /\ all_backends_set_ = {}
    /\ healthy_backends_ = <<>>
    /\ next_index_ = 0
    /\ reply = NoBackend
    /\ turn = {}
    /\ parity = 0

AddBackend(b) ==
    /\ all_backends_set_' = all_backends_set_ \cup {b}
    /\ UNCHANGED <<healthy_backends_, next_index_, reply, turn, parity>>

\* The cursor is put back to 0 when it falls off the shrunken vector, but not
\* when the vector becomes empty.
CursorAfterRemove(s) == IF next_index_ >= Len(s) /\ s # <<>> THEN 0 ELSE next_index_

RemoveBackend(b) ==
    /\ all_backends_set_' = all_backends_set_ \ {b}
    /\ healthy_backends_' = EraseAll(healthy_backends_, b)
    /\ next_index_' = CursorAfterRemove(healthy_backends_')
    /\ turn' = IF b \in Healthy THEN {} ELSE turn
    /\ UNCHANGED <<reply, parity>>

CursorStays(i) == i % Size
CursorWrapsLate(i) == (i + 1) % (Size + 1)
Advance(i) == (i + 1) % Size

TurnAfter(b) == IF Healthy \subseteq turn \cup {b} THEN {} ELSE turn \cup {b}

GetNextBackend ==
    \/ /\ Size = 0
       /\ reply' = NoBackend
       /\ parity' = 1 - parity
       /\ UNCHANGED <<all_backends_set_, healthy_backends_, next_index_, turn>>
    \/ /\ Size # 0
       /\ reply' = healthy_backends_[next_index_ + 1]
       /\ next_index_' = Advance(next_index_)
       /\ turn' = TurnAfter(reply')
       /\ parity' = 1 - parity
       /\ UNCHANGED <<all_backends_set_, healthy_backends_>>

MarkUpUnchecked(b) ==
    /\ healthy_backends_' = Append(healthy_backends_, b)
    /\ turn' = {}
    /\ UNCHANGED <<all_backends_set_, next_index_, reply, parity>>

\* updateHealthStatus(addr, true): nothing checks that b is still configured.
MarkUp(b) ==
    /\ b \notin Healthy
    /\ healthy_backends_' = Append(healthy_backends_, b)
    /\ turn' = {}
    /\ UNCHANGED <<all_backends_set_, next_index_, reply, parity>>

CursorKept(s) == next_index_
CursorShifted(s) == next_index_ - 1
CursorAfterDown(s) == IF next_index_ >= Len(s) THEN 0 ELSE next_index_

MarkDown(b) ==
    /\ b \in Healthy
    /\ healthy_backends_' = EraseFound(healthy_backends_, b)
    /\ next_index_' = CursorAfterDown(healthy_backends_')
    /\ turn' = {}
    /\ UNCHANGED <<all_backends_set_, reply, parity>>

UpdateHealthStatus(b, healthy) ==
    IF healthy THEN MarkUp(b) ELSE MarkDown(b)

LBNext ==
    \/ GetNextBackend
    \/ \E b \in Backend :
          \/ AddBackend(b)
          \/ RemoveBackend(b)
          \/ \E healthy \in BOOLEAN : UpdateHealthStatus(b, healthy)

LBSpec == LBInit /\ [][LBNext]_lbVars

-----------------------------------------------------------------------------
(* Properties.                                                             *)

\* Type of the balancer's state.
LBTypeOK ==
    /\ all_backends_set_ \subseteq Backend
    /\ healthy_backends_ \in Seq(Backend)
    /\ next_index_ \in Nat
    /\ reply \in Backend \cup {NoBackend}
    /\ turn \subseteq Backend
    /\ parity \in {0, 1}

\* healthy_backends_[next_index_] (load_balancer.cpp:32) never reads past the
\* vector, although three methods on several threads shrink the vector and
\* removeBackend leaves the cursor alone when the vector becomes empty: an
\* empty vector always has cursor 0, so that the next push_back makes it valid.
CursorInBounds ==
    IF Size = 0 THEN next_index_ = 0 ELSE next_index_ < Size

\* No address is in the rotation twice, whatever order verdicts arrive in: a
\* duplicate would double that backend's share, and would survive one DOWN.
NoDuplicate ==
    \A i, j \in DOMAIN healthy_backends_ :
        healthy_backends_[i] = healthy_backends_[j] => i = j

\* x was handed out since the rotation began at s, the cursor now at n.
Passed(x, s, n) == IF s <= n THEN s <= x /\ x < n ELSE s <= x \/ x < n

\* The backends handed out since the rotation began are exactly those the
\* cursor passed: the rotation misses none and repeats none.
RotationInvariant ==
    IF Size = 0
    THEN turn = {}
    ELSE /\ turn \subseteq Healthy
         /\ \E s \in 0 .. Size - 1 :
               \A x \in 0 .. Size - 1 :
                  healthy_backends_[x + 1] \in turn <=> Passed(x, s, next_index_)

\* The vector and its cursor implement the abstract pool: every pick answers
\* with a healthy backend not yet picked in this round, and answers "none"
\* only when no backend is healthy.
Pool == INSTANCE BackendPool WITH
    configured <- all_backends_set_,
    healthy <- Healthy,
    served <- turn

ImplementsPool == Pool!Spec
=============================================================================
