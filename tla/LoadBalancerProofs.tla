------------------------- MODULE LoadBalancerProofs -------------------------
(***************************************************************************)
(* For every set of backends: the type of the balancer's state, that its   *)
(* rotation holds no address twice and that its cursor stays inside the    *)
(* vector, and from these that the vector implements the abstract pool.    *)
(***************************************************************************)
EXTENDS LoadBalancer, SequenceTheorems, TLAPS

\* Erasing position k of s: the elements before k stay, those after move down.
LEMMA RemoveAtProperties ==
    ASSUME NEW S, NEW s \in Seq(S), NEW k \in DOMAIN s
    PROVE  /\ RemoveAt(s, k) \in Seq(S)
           /\ Len(RemoveAt(s, k)) = Len(s) - 1
           /\ \A i \in 1 .. Len(s) - 1 :
                 RemoveAt(s, k)[i] = IF i < k THEN s[i] ELSE s[i + 1]
<1> DEFINE pre == SubSeq(s, 1, k - 1)
           post == SubSeq(s, k + 1, Len(s))
<1>1. k \in 1 .. Len(s) /\ Len(s) \in Nat
  OBVIOUS
<1>2. /\ pre \in Seq(S) /\ Len(pre) = k - 1
      /\ \A i \in 1 .. k - 1 : pre[i] = s[i]
  BY <1>1
<1>3. /\ post \in Seq(S) /\ Len(post) = Len(s) - k
      /\ \A i \in 1 .. Len(s) - k : post[i] = s[k + i]
  BY <1>1
<1>4. RemoveAt(s, k) = pre \o post
  BY DEF RemoveAt
<1> HIDE DEF pre, post
<1>5. /\ pre \o post \in Seq(S) 
      /\ Len(pre \o post) = Len(s) - 1
  BY <1>1, <1>2, <1>3
<1>6. ASSUME NEW i \in 1 .. Len(s) - 1
      PROVE  (pre \o post)[i] = IF i < k THEN s[i] ELSE s[i + 1]
  <2>1. CASE i < k
    BY <1>1, <1>2, <1>3, <2>1
  <2>2. CASE ~ (i < k)
    <3>1. /\ i - Len(pre) \in 1 .. Len(s) - k /\ ~ (i <= Len(pre))
          /\ i \in 1 .. Len(pre) + Len(post)
      BY <1>1, <1>2, <1>3, <2>2
    <3>2. (pre \o post)[i] = IF i <= Len(pre) THEN pre[i] ELSE post[i - Len(pre)]
      BY <1>2, <1>3, <3>1, ConcatProperties
    <3>3. post[i - Len(pre)] = s[k + (i - Len(pre))]
      BY <1>3, <3>1
    <3>4. k + (i - Len(pre)) = i + 1
      BY <1>1, <1>2
    <3> QED BY <2>2, <3>1, <3>2, <3>3, <3>4
  <2> QED BY <2>1, <2>2
<1> QED BY <1>4, <1>5, <1>6

Distinct(s) == \A i, j \in DOMAIN s : s[i] = s[j] => i = j

\* In a vector without duplicates std::find returns the one position of b.
LEMMA FindProperties ==
    ASSUME NEW S, NEW s \in Seq(S), NEW b, Distinct(s), PositionsOf(s, b) # {}
    PROVE  Find(s, b) \in DOMAIN s /\ s[Find(s, b)] = b
<1>1. PICK p \in DOMAIN s : s[p] = b
  BY DEF PositionsOf
<1>2. PositionsOf(s, b) = {p}
  BY <1>1 DEF PositionsOf, Distinct
<1>3. p \in Int
  BY <1>1
<1>4. Find(s, b) \in PositionsOf(s, b)
  BY <1>2, <1>3 DEF Find
<1> QED BY <1>4 DEF PositionsOf

\* Erasing b from a vector without duplicates: one shorter, still without
\* duplicates, and exactly b is gone.
LEMMA EraseProperties ==
    ASSUME NEW S, NEW s \in Seq(S), NEW b, Distinct(s),
           PositionsOf(s, b) # {}
    PROVE  /\ EraseFound(s, b) \in Seq(S)
           /\ EraseAll(s, b) = EraseFound(s, b)
           /\ Len(EraseFound(s, b)) = Len(s) - 1
           /\ Distinct(EraseFound(s, b))
           /\ b \notin {EraseFound(s, b)[i] : i \in DOMAIN EraseFound(s, b)}
           /\ {EraseFound(s, b)[i] : i \in DOMAIN EraseFound(s, b)}
                 = {s[i] : i \in DOMAIN s} \ {b}
<1> DEFINE k == Find(s, b)
           t == RemoveAt(s, k)
<1>1. k \in DOMAIN s /\ s[k] = b
  BY FindProperties
<1>2. EraseFound(s, b) = t /\ EraseAll(s, b) = t
  BY DEF EraseFound, EraseAll, PositionsOf, Distinct
<1> HIDE DEF k
<1>3. /\ t \in Seq(S) /\ Len(t) = Len(s) - 1
      /\ \A i \in 1 .. Len(s) - 1 : t[i] = IF i < k THEN s[i] ELSE s[i + 1]
  BY <1>1, RemoveAtProperties
<1> HIDE DEF t
<1>4. DOMAIN s = 1 .. Len(s) /\ DOMAIN t = 1 .. Len(s) - 1 /\ Len(s) \in Nat
  BY <1>3
<1>5. Distinct(t)
  <2> SUFFICES ASSUME NEW i \in DOMAIN t, NEW j \in DOMAIN t, t[i] = t[j]
               PROVE  i = j
    BY DEF Distinct
  <2> DEFINE old(x) == IF x < k THEN x ELSE x + 1
  <2>1. old(i) \in DOMAIN s /\ old(j) \in DOMAIN s
    BY <1>4
  <2>2. t[i] = s[old(i)] /\ t[j] = s[old(j)]
    BY <1>3, <1>4
  <2>3. old(i) = old(j)
    BY <2>1, <2>2 DEF Distinct
  <2> QED BY <1>1, <1>4, <2>3
<1>6. ASSUME NEW i \in DOMAIN t
      PROVE  t[i] \in {s[j] : j \in DOMAIN s} \ {b}
  <2>1. i \in DOMAIN s /\ i + 1 \in DOMAIN s
    BY <1>4
  <2>2. t[i] = IF i < k THEN s[i] ELSE s[i + 1]
    BY <1>3, <1>4
  <2> QED BY <1>1, <1>4, <2>1, <2>2 DEF Distinct
<1>7. ASSUME NEW j \in DOMAIN s, s[j] # b
      PROVE  \E i \in DOMAIN t : t[i] = s[j]
  <2>1. CASE j < k
    <3>1. j \in 1 .. Len(s) - 1
      BY <1>1, <1>4, <2>1
    <3> QED BY <1>3, <1>4, <2>1, <3>1
  <2>2. CASE ~ (j < k)
    <3>1. j - 1 \in 1 .. Len(s) - 1 /\ ~ (j - 1 < k) /\ (j - 1) + 1 = j
      BY <1>1, <1>4, <1>7, <2>2
    <3>2. t[j - 1] = s[(j - 1) + 1]
      BY <1>3, <3>1
    <3> QED BY <1>4, <3>1, <3>2
  <2> QED BY <2>1, <2>2
<1>8. {t[i] : i \in DOMAIN t} = {s[i] : i \in DOMAIN s} \ {b}
  BY <1>6, <1>7
<1> QED BY <1>2, <1>3, <1>5, <1>8
-----------------------------------------------------------------------------
\* The inductive invariant.  CursorInBounds needs NoDuplicate (erasing one
\* address shortens the vector by exactly one, so an emptied vector had cursor
\* 0), and RotationInvariant needs both.
LBInv == LBTypeOK /\ CursorInBounds /\ NoDuplicate /\ RotationInvariant

\* A step that empties the turn leaves a rotation that has just begun.
LEMMA FreshRotation ==
    ASSUME LBTypeOK', CursorInBounds', turn' = {}
    PROVE  RotationInvariant'
<1>1. CASE Size' = 0
  BY <1>1 DEF RotationInvariant
<1>2. CASE Size' # 0
  <2>1. next_index_' \in 0 .. Size' - 1
    BY <1>2 DEF LBTypeOK, CursorInBounds, Size
  <2>2. \A x \in 0 .. Size' - 1 : ~ Passed(x, next_index_', next_index_')
    BY <2>1 DEF Passed, LBTypeOK, Size
  <2> QED BY <1>2, <2>1, <2>2 DEF RotationInvariant
<1> QED BY <1>1, <1>2

\* The cursor points at a backend the rotation has not handed out.
LEMMA CursorIsFresh ==
    ASSUME LBInv, Size # 0
    PROVE  /\ next_index_ \in 0 .. Size - 1
           /\ healthy_backends_[next_index_ + 1] \in Healthy \ turn
<1>1. next_index_ \in 0 .. Size - 1
  BY DEF LBInv, LBTypeOK, CursorInBounds, Size
<1>2. healthy_backends_[next_index_ + 1] \in Healthy
  BY <1>1 DEF LBInv, LBTypeOK, Healthy, Size
<1>3. PICK s \in 0 .. Size - 1 :
         \A x \in 0 .. Size - 1 :
            healthy_backends_[x + 1] \in turn <=> Passed(x, s, next_index_)
  BY DEF LBInv, RotationInvariant
<1>4. ~ Passed(next_index_, s, next_index_)
  BY <1>1 DEF Passed, LBInv, LBTypeOK, Size
<1> QED BY <1>1, <1>2, <1>3, <1>4

\* The cursor wraps at the end of the vector and moves by one before it.
LEMMA AdvanceProperties ==
    ASSUME NEW n \in Nat \ {0}, NEW i \in 0 .. n - 1
    PROVE  (i + 1) % n = IF i + 1 = n THEN 0 ELSE i + 1
<1>1. CASE i + 1 = n
  BY <1>1, n % n = 0
<1>2. CASE i + 1 # n
  BY <1>2, i + 1 \in 0 .. n - 1
<1> QED BY <1>1, <1>2
-----------------------------------------------------------------------------
\* A pick keeps the invariant: it moves the cursor over one more position.
LEMMA PickPreserves ==
    ASSUME LBInv, GetNextBackend
    PROVE  LBInv'
<1>1. CASE Size = 0
  BY <1>1 DEF GetNextBackend, LBInv, LBTypeOK, CursorInBounds, NoDuplicate,
              RotationInvariant, Size, Healthy
<1>2. CASE Size # 0
  <2> DEFINE n == next_index_
             b == healthy_backends_[n + 1]
  <2>1. /\ reply' = b /\ next_index_' = Advance(n) /\ turn' = TurnAfter(b)
        /\ parity' = 1 - parity
        /\ UNCHANGED <<all_backends_set_, healthy_backends_>>
    BY <1>2 DEF GetNextBackend
  <2>2. n \in 0 .. Size - 1 /\ b \in Healthy \ turn
    BY <1>2, CursorIsFresh
  <2>3. Size \in Nat \ {0} /\ Size' = Size /\ Healthy' = Healthy
    BY <1>2, <2>1 DEF LBInv, LBTypeOK, Size, Healthy
  <2>4. next_index_' = IF n + 1 = Size THEN 0 ELSE n + 1
    BY <2>1, <2>2, <2>3, AdvanceProperties DEF Advance
  <2>5. LBTypeOK'
    <3>1. Healthy \subseteq Backend
      BY DEF LBInv, LBTypeOK, Healthy
    <3>2. next_index_' \in Nat
      BY <2>2, <2>3, <2>4
    <3> QED BY <2>1, <2>2, <3>1, <3>2 DEF LBInv, LBTypeOK, TurnAfter
  <2>6. CursorInBounds' /\ NoDuplicate'
    BY <2>1, <2>2, <2>3, <2>4 DEF LBInv, CursorInBounds, NoDuplicate
  <2>7. RotationInvariant'
    <3>1. CASE Healthy \subseteq turn \cup {b}
      <4>1. turn' = {}
        BY <2>1, <3>1 DEF TurnAfter
      <4> QED BY <2>5, <2>6, <4>1, FreshRotation
    <3>2. CASE ~ (Healthy \subseteq turn \cup {b})
      <4>1. turn' = turn \cup {b}
        BY <2>1, <3>2 DEF TurnAfter
      <4>2. PICK s \in 0 .. Size - 1 :
               \A x \in 0 .. Size - 1 :
                  healthy_backends_[x + 1] \in turn <=> Passed(x, s, n)
        BY <1>2 DEF LBInv, RotationInvariant
      <4>3. PICK y \in 0 .. Size - 1 : y # n /\ ~ Passed(y, s, n)
        <5>1. PICK i \in DOMAIN healthy_backends_ :
                 healthy_backends_[i] \notin turn /\ healthy_backends_[i] # b
          BY <3>2 DEF Healthy
        <5>2. i - 1 \in 0 .. Size - 1 /\ i - 1 # n /\ (i - 1) + 1 = i
          BY <2>3, <5>1 DEF LBInv, LBTypeOK, Size
        <5> QED BY <4>2, <5>1, <5>2
      <4>4. ASSUME NEW x \in 0 .. Size - 1
            PROVE  Passed(x, s, next_index_') <=> (x = n \/ Passed(x, s, n))
        BY <2>2, <2>3, <2>4, <4>3 DEF Passed
      <4>5. ASSUME NEW x \in 0 .. Size - 1
            PROVE  healthy_backends_[x + 1] = b <=> x = n
        <5>1. /\ x + 1 \in DOMAIN healthy_backends_
              /\ n + 1 \in DOMAIN healthy_backends_
          BY <2>2, <2>3 DEF LBInv, LBTypeOK, Size
        <5> QED BY <2>2, <2>3, <5>1 DEF LBInv, NoDuplicate
      <4>6. turn' \subseteq Healthy
        BY <1>2, <2>2, <4>1 DEF LBInv, RotationInvariant
      <4>7. \A x \in 0 .. Size - 1 :
               healthy_backends_[x + 1] \in turn' <=> Passed(x, s, next_index_')
        BY <4>1, <4>2, <4>4, <4>5
      <4> QED BY <1>2, <2>1, <2>3, <4>6, <4>7 DEF RotationInvariant
    <3> QED BY <3>1, <3>2
  <2> QED BY <2>5, <2>6, <2>7 DEF LBInv
<1> QED BY <1>1, <1>2

\* Every step keeps the invariant.
LEMMA LBInvStep ==
    ASSUME LBInv, [LBNext]_lbVars
    PROVE  LBInv'
<1>1. CASE GetNextBackend
  BY <1>1, PickPreserves
<1>2. ASSUME NEW b \in Backend, AddBackend(b)
      PROVE  LBInv'
  BY <1>2 DEF AddBackend, LBInv, LBTypeOK, CursorInBounds, NoDuplicate,
              RotationInvariant, Size, Healthy
<1>3. ASSUME NEW b \in Backend, RemoveBackend(b)
      PROVE  LBInv'
  <2>1. CASE b \in Healthy
    <3>1. /\ healthy_backends_ \in Seq(Backend) /\ Distinct(healthy_backends_)
          /\ PositionsOf(healthy_backends_, b) # {}
      BY <2>1 DEF LBInv, LBTypeOK, NoDuplicate, Distinct, Healthy, PositionsOf
    <3>2. /\ healthy_backends_' \in Seq(Backend) /\ Distinct(healthy_backends_')
          /\ Len(healthy_backends_') = Size - 1
      BY <1>3, <3>1, EraseProperties DEF RemoveBackend, Size
    <3>3. next_index_' = CursorAfterRemove(healthy_backends_') /\ turn' = {}
      BY <1>3, <2>1 DEF RemoveBackend
    <3>4. LBTypeOK' /\ CursorInBounds'
      BY <1>3, <3>1, <3>2, <3>3
      DEF RemoveBackend, LBInv, LBTypeOK, CursorInBounds, CursorAfterRemove, Size
    <3>5. NoDuplicate'
      BY <3>2 DEF NoDuplicate, Distinct
    <3> QED BY <3>3, <3>4, <3>5, FreshRotation DEF LBInv
  <2>2. CASE b \notin Healthy
    <3>1. healthy_backends_' = healthy_backends_ /\ turn' = turn
      BY <1>3, <2>2 DEF RemoveBackend, EraseAll, EraseFound, PositionsOf, Healthy
    <3>2. next_index_' = next_index_
      BY <1>3, <3>1 DEF RemoveBackend, CursorAfterRemove, LBInv, LBTypeOK,
                        CursorInBounds, Size
    <3>3. LBTypeOK'
      BY <1>3, <3>1, <3>2 DEF RemoveBackend, LBInv, LBTypeOK
    <3>4. CursorInBounds' /\ NoDuplicate' /\ RotationInvariant'
      BY <3>1, <3>2 DEF LBInv, CursorInBounds, NoDuplicate, RotationInvariant,
                        Size, Healthy
    <3> QED BY <3>3, <3>4 DEF LBInv
  <2> QED BY <2>1, <2>2
<1>4. ASSUME NEW b \in Backend, MarkUp(b)
      PROVE  LBInv'
  <2>1. /\ healthy_backends_' \in Seq(Backend)
        /\ Len(healthy_backends_') = Size + 1
        /\ \A i \in 1 .. Size : healthy_backends_'[i] = healthy_backends_[i]
        /\ healthy_backends_'[Size + 1] = b
    BY <1>4 DEF MarkUp, LBInv, LBTypeOK, Size
  <2>2. LBTypeOK' /\ CursorInBounds'
    BY <1>4, <2>1 DEF MarkUp, LBInv, LBTypeOK, CursorInBounds, Size
  <2>3. NoDuplicate'
    BY <1>4, <2>1 DEF MarkUp, LBInv, LBTypeOK, NoDuplicate, Healthy, Size
  <2> QED BY <1>4, <2>2, <2>3, FreshRotation DEF MarkUp, LBInv
<1>5. ASSUME NEW b \in Backend, MarkDown(b)
      PROVE  LBInv'
  <2>1. /\ healthy_backends_ \in Seq(Backend) /\ Distinct(healthy_backends_)
        /\ PositionsOf(healthy_backends_, b) # {}
    BY <1>5 DEF MarkDown, LBInv, LBTypeOK, NoDuplicate, Distinct, Healthy, PositionsOf
  <2>2. /\ healthy_backends_' \in Seq(Backend) /\ Distinct(healthy_backends_')
        /\ Len(healthy_backends_') = Size - 1
    BY <1>5, <2>1, EraseProperties DEF MarkDown, Size
  <2>3. next_index_' = CursorAfterDown(healthy_backends_') /\ turn' = {}
    BY <1>5 DEF MarkDown
  <2>4. LBTypeOK' /\ CursorInBounds'
    BY <1>5, <2>1, <2>2, <2>3
    DEF MarkDown, LBInv, LBTypeOK, CursorInBounds, CursorAfterDown, Size
  <2>5. NoDuplicate'
    BY <2>2 DEF NoDuplicate, Distinct
  <2> QED BY <2>3, <2>4, <2>5, FreshRotation DEF LBInv
<1>6. CASE UNCHANGED lbVars
  BY <1>6 DEF lbVars, LBInv, LBTypeOK, CursorInBounds, NoDuplicate,
              RotationInvariant, Size, Healthy
<1> QED BY <1>1, <1>2, <1>3, <1>4, <1>5, <1>6 DEF LBNext, UpdateHealthStatus
\* A balancer without backends yet.
LEMMA LBInvInit == LBInit => LBInv
  BY DEF LBInit, LBInv, LBTypeOK, CursorInBounds, NoDuplicate, RotationInvariant,
         Size

\* The inductive invariant holds in every reachable state.
THEOREM LBInvariance == LBSpec => []LBInv
<1>1. LBInit => LBInv
  BY LBInvInit
<1>2. LBInv /\ [LBNext]_lbVars => LBInv'
  BY LBInvStep
<1> QED BY <1>1, <1>2, PTL DEF LBSpec

\* The balancer's state keeps its type (load_balancer.h:28-32).
THEOREM LBTypeCorrect == LBSpec => []LBTypeOK
<1>1. LBInv => LBTypeOK
  BY DEF LBInv
<1> QED BY <1>1, LBInvariance, PTL

\* getNextBackend never indexes past healthy_backends_ (load_balancer.cpp:32).
THEOREM LBCursorSafe == LBSpec => []CursorInBounds
<1>1. LBInv => CursorInBounds
  BY DEF LBInv
<1> QED BY <1>1, LBInvariance, PTL

\* No address is twice in the rotation (load_balancer.cpp:40-47).
THEOREM LBDistinct == LBSpec => []NoDuplicate
<1>1. LBInv => NoDuplicate
  BY DEF LBInv
<1> QED BY <1>1, LBInvariance, PTL

\* The rotation hands out every healthy backend once per round.
THEOREM LBRotation == LBSpec => []RotationInvariant
<1>1. LBInv => RotationInvariant
  BY DEF LBInv
<1> QED BY <1>1, LBInvariance, PTL

-----------------------------------------------------------------------------
\* Every step of the balancer is a step of the abstract pool or leaves it alone.
LEMMA PoolStep ==
    ASSUME LBInv, [LBNext]_lbVars
    PROVE  [Pool!Next]_(Pool!vars)
<1> USE DEF Pool!vars
<1>1. CASE GetNextBackend
  <2>1. CASE Size = 0
    <3>1. Healthy = {} /\ Healthy' = Healthy
      BY <1>1, <2>1 DEF GetNextBackend, Healthy, Size, LBInv, LBTypeOK
    <3>2. Pool!PickNone
      BY <1>1, <2>1, <3>1 DEF GetNextBackend, Pool!PickNone
    <3> QED BY <3>2 DEF Pool!Next
  <2>2. CASE Size # 0
    <3> DEFINE b == healthy_backends_[next_index_ + 1]
    <3>1. b \in Healthy \ turn
      BY <2>2, CursorIsFresh
    <3>2. Healthy' = Healthy
      BY <1>1, <2>2 DEF GetNextBackend, Healthy
    <3>3. Pool!Pick(b)
      BY <1>1, <2>2, <3>1, <3>2 DEF GetNextBackend, TurnAfter, Pool!Pick
    <3>4. b \in Backend
      BY <3>1 DEF Healthy, LBInv, LBTypeOK
    <3> QED BY <3>3, <3>4 DEF Pool!Next
  <2> QED BY <2>1, <2>2
<1>2. ASSUME NEW b \in Backend, AddBackend(b)
      PROVE  [Pool!Next]_(Pool!vars)
  <2>1. Pool!Configure(b)
    BY <1>2 DEF AddBackend, Pool!Configure, Healthy
  <2> QED BY <2>1 DEF Pool!Next
<1>3. ASSUME NEW b \in Backend, RemoveBackend(b)
      PROVE  [Pool!Next]_(Pool!vars)
  <2>1. Healthy' = Healthy \ {b}
    <3>1. CASE b \in Healthy
      <4>1. /\ healthy_backends_ \in Seq(Backend) /\ Distinct(healthy_backends_)
            /\ PositionsOf(healthy_backends_, b) # {}
        <5>1. healthy_backends_ \in Seq(Backend) /\ Distinct(healthy_backends_)
          BY DEF LBInv, LBTypeOK, NoDuplicate, Distinct
        <5>2. PositionsOf(healthy_backends_, b) # {}
          BY <3>1 DEF Healthy, PositionsOf
        <5> QED BY <5>1, <5>2
      <4>2. healthy_backends_' = EraseFound(healthy_backends_, b)
        BY <1>3, <4>1, EraseProperties DEF RemoveBackend
      <4>3. {EraseFound(healthy_backends_, b)[i] :
                i \in DOMAIN EraseFound(healthy_backends_, b)}
              = {healthy_backends_[i] : i \in DOMAIN healthy_backends_} \ {b}
        BY <4>1, EraseProperties
      <4> QED BY <4>2, <4>3 DEF Healthy
    <3>2. CASE b \notin Healthy
      BY <1>3, <3>2 DEF RemoveBackend, EraseAll, EraseFound, PositionsOf, Healthy
    <3> QED BY <3>1, <3>2
  <2>2. Pool!Discard(b)
    BY <1>3, <2>1 DEF RemoveBackend, Pool!Discard
  <2> QED BY <2>2 DEF Pool!Next
<1>4. ASSUME NEW b \in Backend, MarkUp(b)
      PROVE  [Pool!Next]_(Pool!vars)
  <2>1. Healthy' = Healthy \cup {b}
    <3>1. /\ healthy_backends_ \in Seq(Backend)
          /\ DOMAIN healthy_backends_' = 1 .. Size + 1
          /\ \A i \in 1 .. Size : healthy_backends_'[i] = healthy_backends_[i]
          /\ healthy_backends_'[Size + 1] = b
      BY <1>4 DEF MarkUp, LBInv, LBTypeOK, Size
    <3>2. DOMAIN healthy_backends_ = 1 .. Size /\ Size \in Nat
      BY <3>1 DEF Size
    <3> QED BY <3>1, <3>2 DEF Healthy
  <2>2. Pool!Up(b)
    BY <1>4, <2>1 DEF MarkUp, Pool!Up
  <2> QED BY <2>2 DEF Pool!Next
<1>5. ASSUME NEW b \in Backend, MarkDown(b)
      PROVE  [Pool!Next]_(Pool!vars)
  <2>1. Healthy' = Healthy \ {b}
    <3>1. /\ healthy_backends_ \in Seq(Backend) /\ Distinct(healthy_backends_)
          /\ PositionsOf(healthy_backends_, b) # {}
      BY <1>5 DEF MarkDown, LBInv, LBTypeOK, NoDuplicate, Distinct, Healthy,
                  PositionsOf
    <3>2. {EraseFound(healthy_backends_, b)[i] :
              i \in DOMAIN EraseFound(healthy_backends_, b)} = Healthy \ {b}
      BY <3>1, EraseProperties DEF Healthy
    <3> QED BY <1>5, <3>2 DEF MarkDown, Healthy
  <2>2. Pool!Down(b)
    BY <1>5, <2>1 DEF MarkDown, Pool!Down
  <2> QED BY <2>2 DEF Pool!Next
<1>6. CASE UNCHANGED lbVars
  BY <1>6 DEF lbVars, Healthy
<1> QED BY <1>1, <1>2, <1>3, <1>4, <1>5, <1>6 DEF LBNext, UpdateHealthStatus

\* The vector and cursor implement the abstract round-robin pool.
THEOREM LBImplementsPool == LBSpec => ImplementsPool
<1>1. LBInit => Pool!Init
  BY DEF LBInit, Pool!Init, Healthy
<1>2. LBInv /\ [LBNext]_lbVars => [Pool!Next]_(Pool!vars)
  BY PoolStep
<1> QED BY <1>1, <1>2, LBInvariance, PTL DEF LBSpec, ImplementsPool, Pool!Spec
=============================================================================
