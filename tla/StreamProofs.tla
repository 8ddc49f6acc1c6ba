---------------------------- MODULE StreamProofs ----------------------------
(***************************************************************************)
(* The bytes that travel in one direction of a relay, as a chain of the    *)
(* queues they pass, and what each operation of a TcpConnection does to    *)
(* it: nothing is lost, repeated or overtaken at any place of the chain.   *)
(***************************************************************************)
EXTENDS HttpProxyHandler, SequenceTheorems, TLAPS

-----------------------------------------------------------------------------
(* One direction.  Its bytes are numbered as the sender wrote them; the    *)
(* byte at place x, if x is not 0, is replaced by the proxy's own.         *)

\* s holds the bytes that come after the first n.
Follows(s, n, x) ==
    \A i \in DOMAIN s : s[i] = IF n + i = x THEN OwnByte ELSE n + i

\* The bytes on their way, from the receiver back to the sender: read by it
\* (g), in the kernel (s), in output_buffer_ (w), in the hands of a callback
\* (h), in the sender's input_buffer_ (q) and in its socket (r); n were sent.
\* state and link are those of the receiver's connection: what it was sent
\* before it closed or was reset is in order; while it is open, all is there.
Flow(x, g, s, w, h, q, r, n, state, link) ==
    /\ Follows(g, 0, x) /\ Len(g) <= n
    /\ link # "dead" =>
          /\ Follows(s, Len(g), x) /\ Follows(w, Len(g) + Len(s), x)
          /\ Len(g) + Len(s) + Len(w) <= n
    /\ Len(r) <= n /\ Follows(r, n - Len(r), 0)
    /\ link # "dead" /\ state \in {"kConnecting", "kConnected"} =>
          /\ Follows(h, Len(g) + Len(s) + Len(w), x)
          /\ Follows(q, Len(g) + Len(s) + Len(w) + Len(h), 0)
          /\ Len(g) + Len(s) + Len(w) + Len(h) + Len(q) + Len(r) = n

-----------------------------------------------------------------------------
(* Sequences of numbered bytes.                                            *)

\* Two pieces are in order when the second goes on where the first ends.
LEMMA FollowsConcat ==
    ASSUME NEW S, NEW s \in Seq(S), NEW t \in Seq(S), NEW n \in Nat, NEW x \in Nat
    PROVE  /\ s \o t \in Seq(S) /\ Len(s \o t) = Len(s) + Len(t)
           /\ Follows(s \o t, n, x) <=>
                 Follows(s, n, x) /\ Follows(t, n + Len(s), x)
<1> DEFINE c == s \o t
           l == Len(s)
           m == Len(t)
<1>1. /\ c \in Seq(S) /\ Len(c) = l + m /\ l \in Nat /\ m \in Nat
      /\ \A i \in 1 .. l + m : c[i] = IF i <= l THEN s[i] ELSE t[i - l]
      /\ DOMAIN s = 1 .. l /\ DOMAIN t = 1 .. m
  BY ConcatProperties, LenProperties
<1>2. DOMAIN c = 1 .. l + m
  <2>1. c \in Seq(S) /\ Len(c) = l + m
    BY <1>1
  <2> HIDE DEF c, l, m
  <2> QED BY <2>1, LenProperties
<1> HIDE DEF c, l, m
<1>3. ASSUME Follows(c, n, x) PROVE Follows(s, n, x)
  <2> SUFFICES ASSUME NEW i \in 1 .. l
               PROVE  s[i] = IF n + i = x THEN OwnByte ELSE n + i
    BY <1>1 DEF Follows
  <2>1. i \in 1 .. l + m /\ i <= l
    BY <1>1
  <2> QED BY <1>1, <1>2, <1>3, <2>1 DEF Follows
<1>4. ASSUME Follows(c, n, x) PROVE Follows(t, n + l, x)
  <2> SUFFICES ASSUME NEW i \in 1 .. m
               PROVE  t[i] = IF n + l + i = x THEN OwnByte ELSE n + l + i
    BY <1>1 DEF Follows
  <2> DEFINE j == l + i
  <2>1. j \in 1 .. l + m /\ ~ (j <= l) /\ j - l = i /\ n + j = n + l + i
    BY <1>1
  <2> HIDE DEF j
  <2>2. c[j] = t[i]
    BY <1>1, <2>1
  <2>3. c[j] = IF n + j = x THEN OwnByte ELSE n + j
    BY <1>2, <1>4, <2>1 DEF Follows
  <2> QED BY <2>1, <2>2, <2>3
<1>5. ASSUME Follows(s, n, x), Follows(t, n + l, x) PROVE Follows(c, n, x)
  <2> SUFFICES ASSUME NEW j \in 1 .. l + m
               PROVE  c[j] = IF n + j = x THEN OwnByte ELSE n + j
    BY <1>2 DEF Follows
  <2>1. CASE j <= l
    <3>1. j \in 1 .. l
      BY <1>1, <2>1
    <3> QED BY <1>1, <1>5, <2>1, <3>1 DEF Follows
  <2>2. CASE ~ (j <= l)
    <3> DEFINE i == j - l
    <3>1. i \in 1 .. m /\ n + l + i = n + j
      BY <1>1, <2>2
    <3>2. c[j] = t[i]
      BY <1>1, <2>2
    <3> HIDE DEF i
    <3>3. t[i] = IF n + l + i = x THEN OwnByte ELSE n + l + i
      BY <1>1, <1>5, <3>1 DEF Follows
    <3> QED BY <3>1, <3>2, <3>3
  <2> QED BY <2>1, <2>2
<1>6. Follows(c, n, x) <=> Follows(s, n, x) /\ Follows(t, n + l, x)
  BY <1>3, <1>4, <1>5
<1> QED BY <1>1, <1>6 DEF c, l, m

\* A piece cut in two.
LEMMA FollowsCut ==
    ASSUME NEW S, NEW s \in Seq(S), NEW k \in 0 .. Len(s), NEW n \in Nat, NEW x \in Nat
    PROVE  LET a == SubSeq(s, 1, k)
               b == SubSeq(s, k + 1, Len(s))
           IN  /\ a \in Seq(S) /\ Len(a) = k /\ b \in Seq(S) /\ Len(b) = Len(s) - k
               /\ a \o b = s
               /\ Follows(s, n, x) <=> Follows(a, n, x) /\ Follows(b, n + k, x)
<1> DEFINE a == SubSeq(s, 1, k)
           b == SubSeq(s, k + 1, Len(s))
<1>0. a \in Seq(S) /\ Len(a) = k /\ b \in Seq(S) /\ Len(b) = Len(s) - k
  OBVIOUS
<1>3. a \o b = s
  <2>0. /\ Len(s) \in Nat /\ 1 \in 1 .. Len(s) + 1 /\ k \in 1 - 1 .. Len(s)
        /\ Len(s) \in k .. Len(s)
    OBVIOUS
  <2>1. a \o b = SubSeq(s, 1, Len(s))
    BY <2>0, ConcatAdjacentSubSeq
  <2> HIDE DEF a, b
  <2> QED BY <2>1, SubSeqFull
<1> HIDE DEF a, b
<1>1. a \in Seq(S) /\ Len(a) = k /\ b \in Seq(S) /\ Len(b) = Len(s) - k /\ a \o b = s
  BY <1>0, <1>3
<1>2. Follows(a \o b, n, x) <=> Follows(a, n, x) /\ Follows(b, n + Len(a), x)
  BY <1>1, FollowsConcat
<1> QED BY <1>1, <1>2 DEF a, b

\* No bytes are in order anywhere.
LEMMA FollowsEmpty ==
    ASSUME NEW n, NEW x
    PROVE  Follows(<<>>, n, x) /\ Len(<<>>) = 0
BY DEF Follows

\* Bytes that are past the host are the same with it and without.
LEMMA FollowsPast ==
    ASSUME NEW S, NEW s \in Seq(S), NEW n \in Nat, NEW x \in Nat, n >= x, Follows(s, n, 0)
    PROVE  Follows(s, n, x)
BY DEF Follows

\* The bytes of the first request with its Host line rewritten.
LEMMA ModifiedFollows ==
    ASSUME NEW S, OwnByte \in S, NEW s \in Seq(S)
    PROVE  /\ Modified(s) \in Seq(S) /\ Len(Modified(s)) = Len(s)
           /\ Follows(s, 0, 0) => Follows(Modified(s), 0, HostAt)
<1>1. Modified(s) \in [1 .. Len(s) -> S]
  BY DEF Modified
<1>2. Modified(s) \in Seq(S) /\ Len(Modified(s)) = Len(s)
  BY <1>1
<1>3. ASSUME Follows(s, 0, 0) PROVE Follows(Modified(s), 0, HostAt)
  BY <1>3 DEF Follows, Modified, OwnByte
<1> QED BY <1>2, <1>3

-----------------------------------------------------------------------------
(* What the operations do to one direction.                                *)

FlowTypes(S, x, g, s, w, h, q, r, n) ==
    /\ x \in Nat /\ n \in Nat
    /\ g \in Seq(S) /\ s \in Seq(S) /\ w \in Seq(S)
    /\ h \in Seq(S) /\ q \in Seq(S) /\ r \in Seq(S)

\* The sender writes its next byte.
LEMMA FlowWrite ==
    ASSUME NEW S, NEW x, NEW g, NEW s, NEW w, NEW h, NEW q, NEW r, NEW n,
           NEW state, NEW link, FlowTypes(S, x, g, s, w, h, q, r, n), n + 1 \in S,
           Flow(x, g, s, w, h, q, r, n, state, link)
    PROVE  Flow(x, g, s, w, h, q, Append(r, n + 1), n + 1, state, link)
<1> DEFINE t == Append(r, n + 1)
           u == <<n + 1>>
<1>1. r \in Seq(S) /\ n \in Nat /\ u \in Seq(S) /\ Len(u) = 1 /\ u[1] = n + 1
  BY DEF FlowTypes
<1>2. t = r \o u
  BY <1>1, AppendIsConcat
<1> HIDE DEF t
<1>3. Len(r) \in Nat /\ Len(r) <= n /\ Follows(r, n - Len(r), 0)
  BY <1>1 DEF Flow
<1> DEFINE m == n - Len(r)
<1>4. m \in Nat /\ m + Len(r) = n
  BY <1>1, <1>3
<1>5. Follows(u, n, 0)
  BY <1>1 DEF Follows
<1> HIDE DEF u
<1>6. Len(t) = Len(r) + 1 /\ Follows(t, m, 0)
  <2>1. Follows(r, m, 0) /\ Follows(u, m + Len(r), 0)
    BY <1>3, <1>4, <1>5
  <2> HIDE DEF m
  <2> QED BY <1>1, <1>2, <1>4, <2>1, FollowsConcat
<1>7. m = (n + 1) - Len(t) /\ Len(t) <= n + 1 /\ n + 1 \in Nat
  BY <1>1, <1>3, <1>6
<1>8. Follows(t, (n + 1) - Len(t), 0)
  BY <1>6, <1>7
<1> HIDE DEF m
<1>9. /\ Len(g) \in Nat /\ Len(s) \in Nat /\ Len(w) \in Nat /\ Len(h) \in Nat
      /\ Len(q) \in Nat
  BY DEF FlowTypes
<1> DEFINE p == Len(g) + Len(s) + Len(w)
<1>10. p \in Nat
  BY <1>9
<1>11. Len(g) <= n + 1 /\ (p <= n => p <= n + 1)
  BY <1>1, <1>9, <1>10 DEF Flow
<1>12. p + Len(h) + Len(q) + Len(r) = n => p + Len(h) + Len(q) + Len(t) = n + 1
  BY <1>1, <1>3, <1>6, <1>9, <1>10
<1>13. link # "dead" =>
          /\ Follows(s, Len(g), x) /\ Follows(w, Len(g) + Len(s), x) /\ p <= n + 1
  BY <1>1, <1>10, <1>11 DEF Flow
<1>14. link # "dead" /\ state \in {"kConnecting", "kConnected"} =>
          /\ Follows(h, p, x) /\ Follows(q, p + Len(h), 0)
          /\ p + Len(h) + Len(q) + Len(t) = n + 1
  BY <1>12 DEF Flow
<1>15. Follows(g, 0, x)
  BY DEF Flow
<1> QED BY <1>7, <1>8, <1>11, <1>13, <1>14, <1>15 DEF Flow, t

\* The receiver reads a byte.
LEMMA FlowRead ==
    ASSUME NEW S, NEW x, NEW g, NEW s, NEW w, NEW h, NEW q, NEW r, NEW n,
           NEW state, NEW link, FlowTypes(S, x, g, s, w, h, q, r, n),
           Flow(x, g, s, w, h, q, r, n, state, link), link = "up", s # <<>>
    PROVE  /\ Flow(x, Append(g, Head(s)), Tail(s), w, h, q, r, n, state, link)
           /\ Len(g) < n /\ Head(s) = IF Len(g) + 1 = x THEN OwnByte ELSE Len(g) + 1
<1> DEFINE a == <<Head(s)>>
           b == Tail(s)
           t == Append(g, Head(s))
<1>1. /\ Head(s) \in S /\ a \in Seq(S) /\ b \in Seq(S) /\ Len(b) = Len(s) - 1
      /\ Len(a) = 1 /\ a[1] = Head(s) /\ a \o b = s
  <2>1. s \in Seq(S)
    BY DEF FlowTypes
  <2> QED BY <2>1, HeadTailProperties
<1>2. t = g \o a
  BY <1>1, AppendIsConcat DEF FlowTypes
<1>3. /\ Len(g) \in Nat /\ Len(s) \in Nat /\ Len(w) \in Nat /\ x \in Nat /\ n \in Nat
      /\ g \in Seq(S) /\ s \in Seq(S)
  BY DEF FlowTypes
<1> HIDE DEF a, b, t
<1>4. /\ Follows(g, 0, x) /\ Follows(s, Len(g), x)
      /\ Follows(w, Len(g) + Len(s), x) /\ Len(g) + Len(s) + Len(w) <= n
  BY DEF Flow
<1>5. Follows(a, Len(g), x) /\ Follows(b, Len(g) + 1, x)
  BY <1>1, <1>3, <1>4, FollowsConcat
<1>6. Follows(t, 0, x) /\ Len(t) = Len(g) + 1
  <2>1. 0 + Len(g) = Len(g)
    BY <1>3
  <2> QED BY <1>1, <1>2, <1>3, <1>4, <1>5, <2>1, FollowsConcat
<1>7. Len(t) + Len(b) = Len(g) + Len(s) /\ Len(t) <= n /\ Len(g) < n
  BY <1>1, <1>3, <1>4, <1>6
<1>8. Head(s) = IF Len(g) + 1 = x THEN OwnByte ELSE Len(g) + 1
  BY <1>1, <1>5 DEF Follows
<1>9. Flow(x, t, b, w, h, q, r, n, state, link)
  BY <1>4, <1>5, <1>6, <1>7 DEF Flow
<1> QED BY <1>7, <1>8, <1>9 DEF t, b

\* The connection is reset, and what the kernel held is gone.
LEMMA FlowReset ==
    ASSUME NEW x, NEW g, NEW s, NEW w, NEW h, NEW q, NEW r, NEW n,
           NEW state, NEW link, Flow(x, g, s, w, h, q, r, n, state, link)
    PROVE  Flow(x, g, <<>>, w, h, q, r, n, state, "dead")
BY DEF Flow

\* A callback takes what waits in input_buffer_ and in the socket.
LEMMA FlowTake ==
    ASSUME NEW S, NEW x, NEW g, NEW s, NEW w, NEW q, NEW r, NEW n,
           NEW state, NEW link, FlowTypes(S, x, g, s, w, <<>>, q, r, n),
           Flow(x, g, s, w, <<>>, q, r, n, state, link)
    PROVE  Flow(x, g, s, w, <<>>, q \o r, <<>>, n, state, link)
<1> DEFINE p == Len(g) + Len(s) + Len(w)
           t == q \o r
<1>1. /\ p \in Nat /\ Len(q) \in Nat /\ Len(r) \in Nat /\ n \in Nat /\ Len(<<>>) = 0
      /\ q \in Seq(S) /\ r \in Seq(S)
  BY DEF FlowTypes
<1>2. Len(t) = Len(q) + Len(r) /\ Follows(<<>>, p, x) /\ Follows(<<>>, n - 0, 0)
  BY <1>1, ConcatProperties DEF Follows
<1>3. ASSUME link # "dead", state \in {"kConnecting", "kConnected"}
      PROVE  /\ Follows(t, p + Len(<<>>), 0)
             /\ p + Len(<<>>) + Len(t) + Len(<<>>) = n
  <2>1. /\ Follows(q, p + 0, 0) /\ p + 0 + Len(q) + Len(r) = n /\ Follows(r, n - Len(r), 0)
    BY <1>1, <1>3 DEF Flow
  <2> HIDE DEF p, t
  <2>2. n - Len(r) = p + Len(q) /\ p + 0 = p
    BY <1>1, <2>1
  <2>3. Follows(q \o r, p, 0)
    BY <1>1, <2>1, <2>2, FollowsConcat
  <2> QED BY <1>1, <1>2, <2>1, <2>3 DEF t
<1>4. 0 <= n
  BY <1>1
<1> HIDE DEF t
<1> QED BY <1>1, <1>2, <1>3, <1>4 DEF Flow, t

\* ... and takes it in hand as h, rewritten if the host is in it.
LEMMA FlowHold ==
    ASSUME NEW S, NEW x, NEW g, NEW s, NEW w, NEW h, NEW q, NEW r, NEW n,
           NEW state, NEW link, FlowTypes(S, x, g, s, w, <<>>, q, r, n),
           Flow(x, g, s, w, <<>>, q, r, n, state, link), Len(h) = Len(q),
           Follows(q, Len(g) + Len(s) + Len(w), 0) =>
               Follows(h, Len(g) + Len(s) + Len(w), x)
    PROVE  Flow(x, g, s, w, h, <<>>, r, n, state, link)
<1> DEFINE p == Len(g) + Len(s) + Len(w)
<1>1. p \in Nat /\ Len(q) \in Nat /\ Len(r) \in Nat /\ n \in Nat /\ Len(<<>>) = 0
  BY DEF FlowTypes
<1>2. Follows(<<>>, p + Len(h), 0)
  BY DEF Follows
<1>3. ASSUME link # "dead", state \in {"kConnecting", "kConnected"}
      PROVE  Follows(h, p, x) /\ p + Len(h) + Len(<<>>) + Len(r) = n
  <2>1. Follows(q, p + 0, 0) /\ p + 0 + Len(q) + Len(r) = n
    BY <1>1, <1>3 DEF Flow
  <2> HIDE DEF p
  <2>2. p + 0 = p /\ p + Len(h) + 0 + Len(r) = n
    BY <1>1, <2>1
  <2> QED BY <1>1, <2>1, <2>2 DEF p
<1> QED BY <1>2, <1>3 DEF Flow

\* send: the kernel takes k bytes of what is in hand and the rest is buffered;
\* older bytes wait only when it takes none.
LEMMA FlowSend ==
    ASSUME NEW S, NEW x, NEW g, NEW s, NEW w, NEW h, NEW q, NEW r, NEW n,
           NEW link, FlowTypes(S, x, g, s, w, h, q, r, n),
           Flow(x, g, s, w, h, q, r, n, "kConnected", link),
           NEW k \in 0 .. Len(h), w = <<>> \/ k = 0
    PROVE  Flow(x, g, s \o SubSeq(h, 1, k), w \o SubSeq(h, k + 1, Len(h)),
                <<>>, q, r, n, "kConnected", link)
<1> DEFINE a == SubSeq(h, 1, k)
           b == SubSeq(h, k + 1, Len(h))
           t == s \o a
           v == w \o b
           G == Len(g)
           L == Len(s)
           W == Len(w)
<1>0. /\ g \in Seq(S) /\ s \in Seq(S) /\ w \in Seq(S) /\ h \in Seq(S) /\ x \in Nat
      /\ n \in Nat /\ Len(q) \in Nat /\ Len(r) \in Nat /\ G \in Nat /\ L \in Nat
      /\ W \in Nat /\ Len(h) \in Nat /\ k \in Nat /\ k <= Len(h)
  BY DEF FlowTypes
<1>1. /\ a \in Seq(S) /\ Len(a) = k /\ b \in Seq(S) /\ Len(b) = Len(h) - k
      /\ \A m \in Nat : Follows(h, m, x) <=> Follows(a, m, x) /\ Follows(b, m + k, x)
  <2>1. ASSUME NEW m \in Nat
        PROVE  /\ a \in Seq(S) /\ Len(a) = k /\ b \in Seq(S) /\ Len(b) = Len(h) - k
               /\ Follows(h, m, x) <=> Follows(a, m, x) /\ Follows(b, m + k, x)
    <3>1. h \in Seq(S) /\ k \in 0 .. Len(h) /\ m \in Nat /\ x \in Nat
      BY <1>0
    <3> QED BY <3>1, FollowsCut, Zenon
  <2>2. 0 \in Nat
    OBVIOUS
  <2> HIDE DEF a, b
  <2> QED BY <2>1, <2>2
<1>2. /\ Len(t) = L + k /\ Len(v) = W + (Len(h) - k)
      /\ \A m \in Nat : Follows(t, m, x) <=> Follows(s, m, x) /\ Follows(a, m + L, x)
      /\ \A m \in Nat : Follows(v, m, x) <=> Follows(w, m, x) /\ Follows(b, m + W, x)
  <2> HIDE DEF a, b
  <2> QED BY <1>0, <1>1, FollowsConcat
<1> HIDE DEF a, b, t, v
<1>3. CASE link = "dead"
  BY <1>3 DEF Flow
<1>4. CASE link # "dead"
  <2>1. /\ Follows(s, G, x) /\ Follows(w, G + L, x) /\ G + L + W <= n
        /\ Follows(h, G + L + W, x) /\ Follows(q, G + L + W + Len(h), 0)
        /\ G + L + W + Len(h) + Len(q) + Len(r) = n
    BY <1>4 DEF Flow
  <2> HIDE DEF G, L, W
  <2>2. G + L \in Nat /\ G + L + W \in Nat /\ G + L + k \in Nat /\ G + (L + k) = G + L + k
    BY <1>0
  <2>3. Follows(a, G + L + W, x) /\ Follows(b, G + L + W + k, x)
    BY <1>1, <2>1, <2>2
  <2>4. G + L + W + k = G + L + k + W
    BY <1>0
  <2>5. Follows(a, G + L, x) /\ Follows(w, G + L + k, x)
    <3>1. CASE k = 0
      <4>1. a = <<>> /\ G + L + k = G + L
        BY <1>0, <1>1, <3>1, EmptySeq
      <4> QED BY <2>1, <4>1, FollowsEmpty
    <3>2. CASE w = <<>>
      <4>1. G + L + W = G + L
        BY <1>0, <3>2 DEF W
      <4> QED BY <2>3, <3>2, <4>1, FollowsEmpty
    <3> QED BY <3>1, <3>2
  <2>6. Follows(t, G, x)
    BY <1>0, <1>2, <2>1, <2>5
  <2>7. Follows(v, G + L + k, x)
    BY <1>2, <2>2, <2>3, <2>4, <2>5
  <2>8. /\ G + Len(t) = G + L + k
        /\ G + Len(t) + Len(v) = G + L + W + Len(h)
        /\ G + L + W + Len(h) <= n
    BY <1>0, <1>2, <2>1
  <2>9. Follows(<<>>, G + Len(t) + Len(v), x) /\ Len(<<>>) = 0
    BY FollowsEmpty
  <2>10. G + L + W + Len(h) + 0 = G + L + W + Len(h)
    BY <1>0
  <2> DEFINE p == G + Len(t) + Len(v)
  <2>11. /\ Follows(q, p + Len(<<>>), 0) /\ p + Len(<<>>) + Len(q) + Len(r) = n
        /\ p <= n /\ Follows(<<>>, p, x)
    <3>1. p = G + L + W + Len(h) /\ p \in Nat /\ p + 0 = p
      BY <1>0, <2>8
    <3> HIDE DEF p
    <3> QED BY <2>1, <2>8, <2>9, <3>1
  <2>12. Follows(g, 0, x) /\ G <= n /\ Len(r) <= n /\ Follows(r, n - Len(r), 0)
    BY DEF Flow, G
  <2> QED BY <2>6, <2>7, <2>8, <2>11, <2>12 DEF Flow, G, a, b, t, v
<1> QED BY <1>3, <1>4 DEF a, b, t, v

\* handleWrite: the kernel takes k bytes of what waits.
LEMMA FlowFlush ==
    ASSUME NEW S, NEW x, NEW g, NEW s, NEW w, NEW h, NEW q, NEW r, NEW n,
           NEW state, NEW link, FlowTypes(S, x, g, s, w, h, q, r, n),
           Flow(x, g, s, w, h, q, r, n, state, link), NEW k \in 0 .. Len(w)
    PROVE  Flow(x, g, s \o SubSeq(w, 1, k), SubSeq(w, k + 1, Len(w)),
                h, q, r, n, state, link)
<1> DEFINE a == SubSeq(w, 1, k)
           b == SubSeq(w, k + 1, Len(w))
           t == s \o a
           G == Len(g)
           L == Len(s)
           W == Len(w)
<1>0. /\ g \in Seq(S) /\ s \in Seq(S) /\ w \in Seq(S) /\ x \in Nat
      /\ G \in Nat /\ L \in Nat /\ W \in Nat /\ k \in Nat /\ k <= W
  BY DEF FlowTypes
<1>1. /\ a \in Seq(S) /\ Len(a) = k /\ b \in Seq(S) /\ Len(b) = W - k
      /\ \A m \in Nat : Follows(w, m, x) <=> Follows(a, m, x) /\ Follows(b, m + k, x)
  <2>1. ASSUME NEW m \in Nat
        PROVE  /\ a \in Seq(S) /\ Len(a) = k /\ b \in Seq(S) /\ Len(b) = W - k
               /\ Follows(w, m, x) <=> Follows(a, m, x) /\ Follows(b, m + k, x)
    BY <1>0, FollowsCut
  <2>2. 0 \in Nat
    OBVIOUS
  <2> HIDE DEF a, b
  <2> QED BY <2>1, <2>2
<1>2. /\ Len(t) = L + k
      /\ \A m \in Nat : Follows(t, m, x) <=> Follows(s, m, x) /\ Follows(a, m + L, x)
  <2> HIDE DEF a, b
  <2> QED BY <1>0, <1>1, FollowsConcat
<1> HIDE DEF a, b, t, G, L, W
<1>3. /\ G + L \in Nat /\ G + (L + k) = G + L + k
      /\ G + (L + k) + (W - k) = G + L + W
  BY <1>0
<1>4. Follows(s, G, x) /\ Follows(w, G + L, x) =>
          Follows(t, G, x) /\ Follows(b, G + Len(t), x)
  BY <1>0, <1>1, <1>2, <1>3
<1>5. G + Len(t) + Len(b) = G + L + W
  BY <1>1, <1>2, <1>3
<1> QED BY <1>4, <1>5 DEF Flow, a, b, t, G, L, W

\* Once the receiver's connection closes or is reset, what is on its way to it
\* may be dropped.
LEMMA FlowDrop ==
    ASSUME NEW x, NEW g, NEW s, NEW w, NEW h, NEW q, NEW r, NEW n,
           NEW state, NEW link, Flow(x, g, s, w, h, q, r, n, state, link),
           NEW h2, NEW q2, NEW state2,
           link = "dead" \/ state2 \notin {"kConnecting", "kConnected"}
    PROVE  Flow(x, g, s, w, h2, q2, r, n, state2, link)
BY DEF Flow

\* The socket is emptied by a callback that drops what it read.
LEMMA FlowDropRead ==
    ASSUME NEW x, NEW g, NEW s, NEW w, NEW h, NEW q, NEW r, NEW n \in Nat,
           NEW state, NEW link, Flow(x, g, s, w, h, q, r, n, state, link),
           link = "dead" \/ state \notin {"kConnecting", "kConnected"}
    PROVE  Flow(x, g, s, w, h, q, <<>>, n, state, link)
<1>1. Follows(<<>>, n - Len(<<>>), 0) /\ Len(<<>>) <= n
  BY DEF Follows
<1> QED BY <1>1 DEF Flow

\* A connect that is accepted, and the connection that is established then.
LEMMA FlowUp ==
    ASSUME NEW x, NEW g, NEW s, NEW w, NEW h, NEW q, NEW r, NEW n,
           NEW state, NEW link, Flow(x, g, s, w, h, q, r, n, state, link),
           NEW state2, state \in {"kConnecting", "kConnected"} \/ state = state2,
           NEW link2, link # "dead" \/ link2 = "dead"
    PROVE  Flow(x, g, s, w, h, q, r, n, state2, link2)
BY DEF Flow
=============================================================================
