---------------------------- MODULE RelayProofs -----------------------------
(***************************************************************************)
(* For every number of bytes, size of the kernel's buffers and high-water  *)
(* mark, either handler and either build: each direction of a relay is a   *)
(* pipe that loses, repeats and reorders nothing, interest in writability  *)
(* follows the buffer, a paused side will be resumed, no connection is     *)
(* revived, and a request is routed once.                                  *)
(***************************************************************************)
EXTENDS Relay, StreamProofs

-----------------------------------------------------------------------------
(* What is consistent about the connections cs, the sockets ks and their   *)
(* lives lf while a callback holds the bytes hb for the backend and hf for *)
(* the client; between two callbacks these are conn, sock, life, and none. *)

ConnShape ==
    [Conn -> [state : States, events : SUBSET {"in", "out"},
              input : Seq(Nat), output : Seq(Nat)]]

SockShape ==
    [Conn -> [rcv : Seq(Nat), snd : Seq(Nat), link : {"pending", "up", "dead"},
              fin : BOOLEAN, err : BOOLEAN]]

LifeShape == [Conn -> {"none", "live", "freed"}]

\* A sequence cut in two after k places.
LEMMA Cut ==
    ASSUME NEW s \in Seq(Nat), NEW k \in 0 .. Len(s)
    PROVE  LET a == SubSeq(s, 1, k)
               b == SubSeq(s, k + 1, Len(s))
           IN  a \in Seq(Nat) /\ Len(a) = k /\ b \in Seq(Nat) /\ Len(b) = Len(s) - k
<1>1. 0 \in Nat
  OBVIOUS
<1> QED BY <1>1, FollowsCut, Zenon

\* enableRead, disableWrite and their like, and what they leave alone.
WithEvents(cs, c, E) == [cs EXCEPT ![c].events = E]

OnlyEvents(ds, cs, c, E) ==
    /\ ds \in ConnShape /\ ds[c].events = E
    /\ ds[c].state = cs[c].state /\ ds[c].input = cs[c].input
    /\ ds[c].output = cs[c].output
    /\ \A d \in Conn \ {c} : ds[d] = cs[d]

\* Setting a connection's events changes nothing else of any connection.
LEMMA EventsSet ==
    ASSUME NEW cs \in ConnShape, NEW c \in Conn, NEW E, E \subseteq {"in", "out"}
    PROVE  OnlyEvents(WithEvents(cs, c, E), cs, c, E)
<1> DEFINE ds == WithEvents(cs, c, E)
<1> DEFINE R == [state : States, events : SUBSET {"in", "out"},
                 input : Seq(Nat), output : Seq(Nat)]
<1>1. cs \in [Conn -> R] /\ cs[c] \in R
  BY DEF ConnShape
<1> DEFINE r == [cs[c] EXCEPT !.events = E]
<1>2. /\ r \in R /\ r.events = E /\ r.state = cs[c].state
      /\ r.input = cs[c].input /\ r.output = cs[c].output
  BY <1>1
<1>3. ds = [cs EXCEPT ![c] = r]
  BY DEF WithEvents
<1> HIDE DEF R, r, ds
<1>4. ds \in [Conn -> R] /\ ds[c] = r /\ \A d \in Conn \ {c} : ds[d] = cs[d]
  BY <1>1, <1>2, <1>3
<1>5. OnlyEvents(ds, cs, c, E)
  BY <1>2, <1>4 DEF OnlyEvents, ConnShape, R
<1> QED BY <1>5 DEF ds

\* The same for what is in a connection's output buffer.
WithOutput(cs, c, t) == [cs EXCEPT ![c].output = t]

OnlyOutput(ds, cs, c, t) ==
    /\ ds \in ConnShape /\ ds[c].output = t
    /\ ds[c].state = cs[c].state /\ ds[c].input = cs[c].input
    /\ ds[c].events = cs[c].events
    /\ \A d \in Conn \ {c} : ds[d] = cs[d]

\* Setting a connection's output buffer changes nothing else of any connection.
LEMMA OutputSet ==
    ASSUME NEW cs \in ConnShape, NEW c \in Conn, NEW t \in Seq(Nat)
    PROVE  OnlyOutput(WithOutput(cs, c, t), cs, c, t)
<1> DEFINE R == [state : States, events : SUBSET {"in", "out"},
                 input : Seq(Nat), output : Seq(Nat)]
           ds == WithOutput(cs, c, t)
           r == [cs[c] EXCEPT !.output = t]
<1>1. cs \in [Conn -> R] /\ cs[c] \in R
  BY DEF ConnShape
<1>2. /\ r \in R /\ r.output = t /\ r.state = cs[c].state
      /\ r.input = cs[c].input /\ r.events = cs[c].events
  BY <1>1
<1>3. ds = [cs EXCEPT ![c] = r]
  BY DEF WithOutput
<1> HIDE DEF R, r, ds
<1>4. ds \in [Conn -> R] /\ ds[c] = r /\ \A d \in Conn \ {c} : ds[d] = cs[d]
  BY <1>1, <1>2, <1>3
<1>5. OnlyOutput(ds, cs, c, t)
  BY <1>2, <1>4 DEF OnlyOutput, ConnShape, R
<1> QED BY <1>5 DEF ds

\* A step that changes what is in one queue of one socket.
WithSnd(ks, c, t) == [ks EXCEPT ![c].snd = t]

OnlySnd(ls, ks, c, t) ==
    /\ ls \in SockShape /\ ls[c].snd = t
    /\ ls[c].rcv = ks[c].rcv /\ ls[c].link = ks[c].link
    /\ (ls[c].fin <=> ks[c].fin) /\ (ls[c].err <=> ks[c].err)
    /\ \A d \in Conn \ {c} : ls[d] = ks[d]

\* Setting a socket's snd changes nothing else of any socket.
LEMMA SndSet ==
    ASSUME NEW ks \in SockShape, NEW c \in Conn, NEW t \in Seq(Nat)
    PROVE  OnlySnd(WithSnd(ks, c, t), ks, c, t)
<1> DEFINE R == [rcv : Seq(Nat), snd : Seq(Nat), link : {"pending", "up", "dead"},
                 fin : BOOLEAN, err : BOOLEAN]
           ls == WithSnd(ks, c, t)
           r == [ks[c] EXCEPT !.snd = t]
<1>1. ks \in [Conn -> R] /\ ks[c] \in R
  BY DEF SockShape
<1>2. r \in R /\ r.snd = t /\ r.rcv = ks[c].rcv /\ r.link = ks[c].link
  BY <1>1
<1>3. (r.fin <=> ks[c].fin) /\ (r.err <=> ks[c].err)
  BY <1>1
<1>4. ls = [ks EXCEPT ![c] = r]
  BY DEF WithSnd
<1> HIDE DEF R, r, ls
<1>5. ls \in [Conn -> R] /\ ls[c] = r /\ \A d \in Conn \ {c} : ls[d] = ks[d]
  BY <1>1, <1>2, <1>4
<1>6. OnlySnd(ls, ks, c, t)
  BY <1>2, <1>3, <1>5 DEF OnlySnd, SockShape, R
<1> QED BY <1>6 DEF ls

\* A step that changes what is in one queue of one socket.
WithRcv(ks, c, t) == [ks EXCEPT ![c].rcv = t]

OnlyRcv(ls, ks, c, t) ==
    /\ ls \in SockShape /\ ls[c].rcv = t
    /\ ls[c].snd = ks[c].snd /\ ls[c].link = ks[c].link
    /\ (ls[c].fin <=> ks[c].fin) /\ (ls[c].err <=> ks[c].err)
    /\ \A d \in Conn \ {c} : ls[d] = ks[d]

\* Setting a socket's rcv changes nothing else of any socket.
LEMMA RcvSet ==
    ASSUME NEW ks \in SockShape, NEW c \in Conn, NEW t \in Seq(Nat)
    PROVE  OnlyRcv(WithRcv(ks, c, t), ks, c, t)
<1> DEFINE R == [rcv : Seq(Nat), snd : Seq(Nat), link : {"pending", "up", "dead"},
                 fin : BOOLEAN, err : BOOLEAN]
           ls == WithRcv(ks, c, t)
           r == [ks[c] EXCEPT !.rcv = t]
<1>1. ks \in [Conn -> R] /\ ks[c] \in R
  BY DEF SockShape
<1>2. r \in R /\ r.rcv = t /\ r.snd = ks[c].snd /\ r.link = ks[c].link
  BY <1>1
<1>3. (r.fin <=> ks[c].fin) /\ (r.err <=> ks[c].err)
  BY <1>1
<1>4. ls = [ks EXCEPT ![c] = r]
  BY DEF WithRcv
<1> HIDE DEF R, r, ls
<1>5. ls \in [Conn -> R] /\ ls[c] = r /\ \A d \in Conn \ {c} : ls[d] = ks[d]
  BY <1>1, <1>2, <1>4
<1>6. OnlyRcv(ls, ks, c, t)
  BY <1>2, <1>3, <1>5 DEF OnlyRcv, SockShape, R
<1> QED BY <1>6 DEF ls

HostIn(c) == IF c = "back" /\ Http THEN HostAt ELSE 0

\* The direction to c.
Towards(cs, ks, c, h) ==
    Flow(HostIn(c), got[c], ks[c].snd, cs[c].output, h, cs[Other(c)].input,
         ks[Other(c)].rcv, sent[Other(c)], cs[c].state, ks[c].link)

Passed(cs, ks, c) == Len(got[c]) + Len(ks[c].snd) + Len(cs[c].output)

\* A connection not made yet is untouched, and only a backend's connection is
\* made by a connect, which nothing is sent to before it is up.
Made(cs, ks, lf) ==
    /\ \A c \in Conn : lf[c] = "none" => cs[c] = NewConn /\ ks[c] = NewSock
    /\ lf["front"] # "none" => cs["front"].state # "kConnecting"
    /\ ks["front"].link # "pending"
    /\ ks["back"].link = "pending" =>
          /\ cs["back"].state = "kConnecting"
          /\ ks["back"].rcv = <<>> /\ ~ ks["back"].fin /\ ~ ks["back"].err
    /\ cs["back"].state = "kConnecting" =>
          cs["back"].output = <<>> /\ ks["back"].snd = <<>> /\ got["back"] = <<>>
    /\ \A c \in Conn : ks[c].link = "dead" => ks[c].snd = <<>>
    /\ cs["back"].input = <<>>

\* WritingWhilePending; and PausedWillResume without its hypothesis that the
\* other side is up as well.
Interest(cs, lf) ==
    \A c \in Conn : lf[c] = "live" =>
        /\ cs[c].state \in Closing => ("out" \in cs[c].events <=> cs[c].output # <<>>)
        /\ cs[c].state = "kConnected" /\ "in" \notin cs[c].events
              => cs[Other(c)].output # <<>>

\* Before a backend's connection is made the client was sent nothing, or the
\* 404 response and will be sent nothing more; after that, nothing of the
\* proxy's own.
Answer(cs, ks, g, s) ==
    got["front"] = g /\ ks["front"].snd = s /\ cs["front"].output = <<>>

Answers(cs, ks, lf) ==
    /\ lf["back"] = "none" =>
          \/ Answer(cs, ks, <<>>, <<>>)
          \/ /\ Http /\ route = "none" /\ cs["front"].state # "kConnected"
             /\ Answer(cs, ks, <<OwnByte>>, <<>>) \/ Answer(cs, ks, <<>>, <<OwnByte>>)
    /\ lf["back"] # "none" => OwnByte \notin Range(cs["front"].output)

\* The Host line is in what is sent on first.
HeadFirst(cs, ks, lf, hb) ==
    Http /\ lf["back"] # "none" =>
        /\ cs["back"].state = "kConnecting" => Len(cs["front"].input) >= HeadLen
        /\ cs["back"].state = "kConnected" /\ ks["back"].link # "dead" =>
              Passed(cs, ks, "back") + Len(hb) >= HeadLen

Consistent(cs, ks, lf, hb, hf) ==
    /\ cs \in ConnShape /\ ks \in SockShape /\ lf \in LifeShape
    /\ \A c \in Conn : Len(ks[c].snd) <= SendSpace
    /\ Made(cs, ks, lf) /\ Interest(cs, lf)
    /\ Towards(cs, ks, "back", hb)
    /\ lf["back"] # "none" => Towards(cs, ks, "front", hf)
    /\ Answers(cs, ks, lf) /\ HeadFirst(cs, ks, lf, hb)

-----------------------------------------------------------------------------
(* The inductive invariant.                                                *)

\* A connection that was not made has no peer and no events, and epoll reports
\* nothing of one whose connect is under way.
Quiet ==
    /\ \A c \in Conn : life[c] = "none" => sent[c] = 0 /\ got[c] = <<>>
    /\ \A c \in Conn : life[c] = "none" \/ sock[c].link = "pending" =>
          batch[c] = {} /\ (todo # {} => current # c)
    /\ life["front"] = "none" =>
          /\ phase = "functors" /\ life["back"] = "none"
          /\ removals = 0 /\ deferred = <<>>

\* A request is routed, and a backend's connection made, once.
Routed ==
    /\ waiting_for_initial_data_ <=> ~ (Http /\ life["back"] # "none")
    /\ opened = IF waiting_for_initial_data_ THEN 0 ELSE 1
    /\ ~ Http => route = "none"
    /\ Http => deferred = <<>>
    /\ deferred \in {<<>>, <<"addTimer">>, <<"createBackend">>,
                     <<"addTimer", "createBackend">>}
    /\ life["back"] # "none" => deferred \in {<<>>, <<"addTimer">>}
    /\ conn["back"].state = "kConnecting" => ~ backend_connected_

RelayInv ==
    /\ TypeOK /\ Quiet /\ Routed
    /\ Consistent(conn, sock, life, <<>>, <<>>)

-----------------------------------------------------------------------------
(* Facts about the operations of a TcpConnection.                          *)

\* Everything that travels is typed.
LEMMA TowardsTypes ==
    ASSUME sent \in [Conn -> Nat], got \in [Conn -> Seq(Nat)],
           NEW cs \in ConnShape, NEW ks \in SockShape, NEW h \in Seq(Nat),
           NEW c \in Conn
    PROVE  /\ FlowTypes(Nat, HostIn(c), got[c], ks[c].snd, cs[c].output, h,
                        cs[Other(c)].input, ks[Other(c)].rcv, sent[Other(c)])
           /\ Other(c) \in Conn
<1>1. HostIn(c) \in Nat
  BY HeadAssumption DEF HostIn
<1>2. Other(c) \in Conn
  BY DEF Other, Conn
<1>3. /\ cs[c].output \in Seq(Nat) /\ cs[Other(c)].input \in Seq(Nat)
      /\ ks[c].snd \in Seq(Nat) /\ ks[Other(c)].rcv \in Seq(Nat)
  BY <1>2 DEF ConnShape, SockShape
<1> QED BY <1>1, <1>2, <1>3 DEF FlowTypes

\* What closing and shutting down do to the connections.
Lowered(cs, ds) ==
    \A c \in Conn :
        /\ ds[c].input = cs[c].input /\ ds[c].output = cs[c].output
        /\ \/ ds[c].state = cs[c].state /\ ds[c].events = cs[c].events
           \/ cs[c].state \in Closing /\ ds[c].state = "kDisConnected"
           \/ /\ cs[c].state = "kConnected" /\ ds[c].state = "kDisConnecting"
              /\ ds[c].events = cs[c].events

SameData(ks, ms) ==
    \A c \in Conn : /\ ms[c].rcv = ks[c].rcv /\ ms[c].snd = ks[c].snd
                    /\ ms[c].link = ks[c].link /\ ms[c].fin = ks[c].fin
                    /\ ms[c].err => ks[c].err

Ages(lf, lf2) ==
    \A c \in Conn : lf2[c] = lf[c] \/ (lf[c] = "live" /\ lf2[c] = "freed")

\* A connection that closes keeps everything consistent; what a callback held
\* for it is dropped.
LEMMA LoweredKeeps ==
    ASSUME NEW cs, NEW ks, NEW lf, NEW hb, NEW hf, Consistent(cs, ks, lf, hb, hf),
           NEW ds \in ConnShape, Lowered(cs, ds),
           NEW ms \in SockShape, SameData(ks, ms),
           NEW lf2 \in LifeShape, Ages(lf, lf2),
           \A c \in Conn : lf2[c] = "none" => ds[c] = cs[c] /\ ms[c] = ks[c],
           hb = <<>> \/ ds["back"].state \notin {"kConnecting", "kConnected"}
               \/ ks["back"].link = "dead",
           hf = <<>> \/ ds["front"].state \notin {"kConnecting", "kConnected"}
               \/ ks["front"].link = "dead"
    PROVE  Consistent(ds, ms, lf2, <<>>, <<>>)
<1>1. "front" \in Conn /\ "back" \in Conn /\ Other("front") = "back" /\ Other("back") = "front"
  BY DEF Conn, Other
<1>2. \A c \in Conn : lf2[c] = "none" <=> lf[c] = "none"
  BY DEF Ages
<1>3. \A c \in Conn : Len(ms[c].snd) <= SendSpace
  BY DEF Consistent, SameData
<1>4. Made(ds, ms, lf2)
  BY <1>1, <1>2 DEF Consistent, Made, Lowered, SameData, Closing
<1>5. Interest(ds, lf2)
  <2>1. \A c \in Conn : Other(c) \in Conn
    BY DEF Other, Conn
  <2> QED BY <2>1 DEF Consistent, Interest, Lowered, Ages, Closing
<1>6. Towards(ds, ms, "back", <<>>)
  <2>1. Towards(cs, ks, "back", hb)
    BY DEF Consistent
  <2>2. CASE ds["back"].state = cs["back"].state /\ hb = <<>>
    BY <1>1, <2>1, <2>2 DEF Towards, Lowered, SameData
  <2>3. CASE \/ ds["back"].state \notin {"kConnecting", "kConnected"}
             \/ ks["back"].link = "dead"
    BY <1>1, <2>1, <2>3, FlowDrop DEF Towards, Lowered, SameData
  <2> QED BY <1>1, <2>2, <2>3 DEF Lowered
<1>7. ASSUME lf2["back"] # "none" PROVE Towards(ds, ms, "front", <<>>)
  <2>1. Towards(cs, ks, "front", hf)
    BY <1>1, <1>2, <1>7 DEF Consistent
  <2>2. CASE ds["front"].state = cs["front"].state /\ hf = <<>>
    BY <1>1, <2>1, <2>2 DEF Towards, Lowered, SameData
  <2>3. CASE \/ ds["front"].state \notin {"kConnecting", "kConnected"}
             \/ ks["front"].link = "dead"
    BY <1>1, <2>1, <2>3, FlowDrop DEF Towards, Lowered, SameData
  <2> QED BY <1>1, <2>2, <2>3 DEF Lowered
<1>8. Answers(ds, ms, lf2)
  BY <1>1, <1>2 DEF Consistent, Answers, Answer, Lowered, SameData, Closing
<1>9. HeadFirst(ds, ms, lf2, <<>>)
  <2>1. HeadFirst(cs, ks, lf, hb)
    BY DEF Consistent
  <2>2. Passed(ds, ms, "back") = Passed(cs, ks, "back")
    BY <1>1 DEF Passed, Lowered, SameData
  <2>3. ds["back"].state = "kConnecting" => cs["back"].state = "kConnecting"
    BY <1>1 DEF Lowered, Closing
  <2>4. ds["back"].state = "kConnected" /\ ks["back"].link # "dead" =>
            cs["back"].state = "kConnected" /\ hb = <<>>
    BY <1>1 DEF Lowered, Closing
  <2> QED BY <1>1, <1>2, <2>1, <2>2, <2>3, <2>4 DEF HeadFirst, Lowered, SameData
<1> QED BY <1>3, <1>4, <1>5, <1>6, <1>7, <1>8, <1>9 DEF Consistent

\* Shutdown marks one connection.
LEMMA ShutdownIs ==
    ASSUME NEW cs \in ConnShape, NEW c \in Conn
    PROVE  /\ Shutdown(cs, c) \in ConnShape /\ Lowered(cs, Shutdown(cs, c))
           /\ \A d \in Conn \ {c} : Shutdown(cs, c)[d] = cs[d]
           /\ Shutdown(cs, c)[c].state # "kConnected"
           /\ Shutdown(cs, c)[c].state \in Closing <=> cs[c].state \in Closing
           /\ Shutdown(cs, c)[c].events = cs[c].events
BY DEF Shutdown, ConnShape, Lowered, States, Closing

\* Closing, with the close callback: AfterClose alone, then all of it.
LEMMA AfterCloseIs ==
    ASSUME NEW cs \in ConnShape, NEW c \in Conn
    PROVE  LET ds == AfterClose(cs, c)
           IN  /\ ds \in ConnShape /\ Lowered(cs, ds)
               /\ cs[c].state \in Closing => ds[c].state = "kDisConnected"
               /\ c = "front" => ds["back"] = cs["back"]
<1> DEFINE gone == IF cs[c].state \in Closing
                   THEN [cs EXCEPT ![c].state = "kDisConnected", ![c].events = {}]
                   ELSE cs
<1>1. /\ gone \in ConnShape /\ Lowered(cs, gone)
      /\ cs[c].state \in Closing => gone[c].state = "kDisConnected"
      /\ \A d \in Conn \ {c} : gone[d] = cs[d]
  BY DEF ConnShape, Lowered, States, Closing
<1>2. "front" \in Conn /\ "back" \in Conn
  BY DEF Conn
<1> HIDE DEF gone
<1>3. CASE c = "back" /\ handler_ = "LoadBalancerHandler"
  <2> DEFINE ds == Shutdown(gone, "front")
  <2>1. /\ ds \in ConnShape /\ Lowered(gone, ds)
        /\ \A d \in Conn \ {"front"} : ds[d] = gone[d]
    BY <1>1, <1>2, ShutdownIs
  <2>2. AfterClose(cs, c) = ds
    BY <1>3 DEF AfterClose, gone
  <2> HIDE DEF ds
  <2>3. Lowered(cs, ds)
    BY <1>1, <1>2, <1>3, <2>1 DEF Lowered, Conn
  <2> QED BY <1>1, <1>2, <1>3, <2>1, <2>2, <2>3
<1>4. CASE ~ (c = "back" /\ handler_ = "LoadBalancerHandler")
  <2>1. AfterClose(cs, c) = gone
    BY <1>4 DEF AfterClose, gone
  <2> QED BY <1>1, <1>2, <2>1
<1> QED BY <1>3, <1>4

\* handleClose: states go down, and nothing that was made is unmade.
LEMMA CloseIs ==
    ASSUME NEW cs \in ConnShape, life \in LifeShape, removals \in 0 .. 2,
           NEW c \in Conn, HandleClose(cs, c)
    PROVE  /\ conn' \in ConnShape /\ Lowered(cs, conn')
           /\ life' \in LifeShape /\ Ages(life, life')
           /\ removals' \in 0 .. 2
           /\ fault' \in {fault, "eventsLeft", "notDisconnected"}
           /\ cs[c].state \in Closing => conn'[c].state = "kDisConnected"
           /\ c = "front" /\ life["back"] = "none" => conn'["back"] = cs["back"]
<1>1. "front" \in Conn /\ "back" \in Conn
  BY DEF Conn
<1>2. CASE c = "back"
  <2>1. conn' = AfterClose(cs, "back") /\ UNCHANGED <<life, removals>>
        /\ fault' \in {fault, "eventsLeft"}
    BY <1>2 DEF HandleClose, CloseBack
  <2>2. /\ AfterClose(cs, "back") \in ConnShape /\ Lowered(cs, AfterClose(cs, "back"))
        /\ cs["back"].state \in Closing => AfterClose(cs, "back")["back"].state = "kDisConnected"
    BY <1>1, AfterCloseIs
  <2>3. life' \in LifeShape /\ Ages(life, life') /\ removals' \in 0 .. 2
    BY <2>1 DEF Ages
  <2> QED BY <1>2, <2>1, <2>2, <2>3
<1>3. CASE c = "front"
  <2> DEFINE drops == cs["front"].state \in Closing /\ life["back"] = "live"
             left == IF drops /\ handler_ = "LoadBalancerHandler"
                     THEN Shutdown(cs, "back") ELSE cs
  <2>1. /\ conn' = AfterClose(left, "front")
        /\ life' = IF drops THEN [life EXCEPT !["back"] = "freed"] ELSE life
        /\ fault' \in {fault, "notDisconnected"}
        /\ removals' = MinOf(removals + 1, 2)
    BY <1>3 DEF HandleClose, CloseFront
  <2>2. /\ left \in ConnShape /\ Lowered(cs, left) /\ left["front"] = cs["front"]
        /\ life["back"] = "none" => left["back"] = cs["back"]
    <3>1. Shutdown(cs, "back") \in ConnShape /\ Lowered(cs, Shutdown(cs, "back"))
          /\ Shutdown(cs, "back")["front"] = cs["front"]
      BY <1>1, ShutdownIs
    <3>2. Lowered(cs, cs)
      BY DEF Lowered
    <3>3. CASE drops /\ handler_ = "LoadBalancerHandler"
      BY <3>1, <3>3
    <3>4. CASE ~ (drops /\ handler_ = "LoadBalancerHandler")
      BY <3>2, <3>4
    <3> QED BY <3>3, <3>4
  <2>3. life' \in LifeShape /\ Ages(life, life') /\ removals' \in 0 .. 2
    BY <2>1 DEF LifeShape, Ages, MinOf, Conn
  <2> HIDE DEF left, drops
  <2>4. /\ conn' \in ConnShape /\ Lowered(left, conn') /\ conn'["back"] = left["back"]
        /\ cs["front"].state \in Closing => conn'["front"].state = "kDisConnected"
    BY <1>1, <2>1, <2>2, AfterCloseIs
  <2>5. Lowered(cs, conn')
    BY <2>2, <2>4 DEF Lowered, Conn
  <2> QED BY <1>3, <2>1, <2>2, <2>3, <2>4, <2>5
<1> QED BY <1>2, <1>3 DEF Conn

\* ... and everything stays consistent.
LEMMA CloseKeeps ==
    ASSUME NEW cs, NEW ks, NEW hb, NEW hf, Consistent(cs, ks, life, hb, hf),
           removals \in 0 .. 2, NEW c \in Conn, HandleClose(cs, c),
           life[c] # "none", life["front"] # "none",
           sock' \in SockShape, SameData(ks, sock'), sock'[Other(c)] = ks[Other(c)],
           hb = <<>> \/ (c = "back" /\ cs["back"].state \in Closing),
           hf = <<>> \/ (c = "front" /\ cs["front"].state \in Closing)
    PROVE  Consistent(conn', sock', life', <<>>, <<>>)
<1>1. cs \in ConnShape /\ life \in LifeShape
  BY DEF Consistent
<1>2. /\ conn' \in ConnShape /\ Lowered(cs, conn')
      /\ life' \in LifeShape /\ Ages(life, life')
      /\ cs[c].state \in Closing => conn'[c].state = "kDisConnected"
      /\ c = "front" /\ life["back"] = "none" => conn'["back"] = cs["back"]
  BY <1>1, CloseIs
<1>3. \A d \in Conn : life'[d] = "none" =>
          conn'[d] = cs[d] /\ sock'[d] = ks[d]
  BY <1>2 DEF Ages, Conn, Other
<1> QED BY <1>2, <1>3, LoweredKeeps

\* What sendInLoop leaves of the connections when the kernel takes bytes or
\* older ones wait: k bytes go to the socket, and the rest is appended.
LEMMA AfterSendIs ==
    ASSUME NEW cs \in ConnShape, NEW c \in Conn, NEW bytes \in Seq(Nat),
           Len(sock[c].snd) \in Nat, Len(sock[c].snd) <= SendSpace
    PROVE  LET k == Direct(cs, c, bytes)
               rest == SubSeq(bytes, k + 1, Len(bytes))
               ds == AfterSend(cs, c, bytes)
           IN  /\ k \in 0 .. Len(bytes) /\ Len(sock[c].snd) + k <= SendSpace
               /\ cs[c].output = <<>> \/ k = 0
               /\ ds \in ConnShape
               /\ \A d \in Conn : ds[d].state = cs[d].state /\ ds[d].input = cs[d].input
               /\ ds[c].output = cs[c].output \o rest
               /\ ds[c].events = IF k = Len(bytes) THEN cs[c].events
                                                   ELSE cs[c].events \cup {"out"}
               /\ ds[Other(c)].output = cs[Other(c)].output
               /\ "out" \in ds[Other(c)].events <=> "out" \in cs[Other(c)].events
               /\ "in" \in cs[Other(c)].events /\ "in" \notin ds[Other(c)].events
                     => k # Len(bytes)
               /\ k = Len(bytes) /\ Open(cs, Other(c)) => "in" \in ds[Other(c)].events
               /\ k # Len(bytes) => Len(rest) > 0
<1> DEFINE o == Other(c)
           k == Direct(cs, c, bytes)
           rest == SubSeq(bytes, k + 1, Len(bytes))
           ds == AfterSend(cs, c, bytes)
           room == SendSpace - Len(sock[c].snd)
<1>1. o \in Conn /\ o # c /\ SendSpace \in Nat /\ Len(bytes) \in Nat /\ room \in Nat
  BY TcpAssumption DEF Other, Conn
<1>2. /\ k \in 0 .. Len(bytes) /\ Len(sock[c].snd) + k <= SendSpace
      /\ cs[c].output = <<>> \/ k = 0
  <2>1. CASE cs[c].output = <<>>
    <3>1. k = IF Len(bytes) <= room THEN Len(bytes) ELSE room
      <4>1. Accepted(c, bytes) = IF Len(bytes) <= room THEN Len(bytes) ELSE room
        BY Zenon DEF Accepted, MinOf
      <4>2. k = Accepted(c, bytes)
        BY <2>1 DEF Direct
      <4> HIDE DEF k, room
      <4> QED BY <4>1, <4>2, Zenon
    <3> DEFINE l == Len(bytes)
               m == Len(sock[c].snd)
    <3>2. l \in Nat /\ m \in Nat /\ m <= SendSpace /\ SendSpace \in Nat
      BY <1>1
    <3>3. k = IF l <= SendSpace - m THEN l ELSE SendSpace - m
      BY <3>1
    <3> HIDE DEF k, l, m
    <3>4. k \in 0 .. l /\ m + k <= SendSpace
      BY <3>2, <3>3
    <3> QED BY <2>1, <3>4 DEF l, m
  <2>2. CASE cs[c].output # <<>>
    BY <1>1, <2>2 DEF Direct
  <2> QED BY <2>1, <2>2
<1>3. rest \in Seq(Nat) /\ Len(rest) = Len(bytes) - k /\ (k = Len(bytes) => rest = <<>>)
  <2> HIDE DEF k
  <2> QED BY <1>2
<1>4. ds = IF k = Len(bytes) THEN StartRead(cs, o) ELSE Buffered(cs, c, rest)
  BY DEF AfterSend, Drop
<1> HIDE DEF k, rest, ds, room
<1>5. cs[c].output \in Seq(Nat) /\ cs[c].output \o rest \in Seq(Nat)
      /\ cs[c].output \o <<>> = cs[c].output
  BY <1>3, ConcatProperties, ConcatEmptySeq DEF ConnShape
<1>6. CASE k = Len(bytes)
  <2>1. ds = IF Open(cs, o) THEN [cs EXCEPT ![o].events = @ \cup {"in"}] ELSE cs
    BY <1>4, <1>6 DEF StartRead, Enable
  <2> HIDE DEF o
  <2>2. /\ ds \in ConnShape
        /\ \A d \in Conn : /\ ds[d].state = cs[d].state /\ ds[d].input = cs[d].input
                           /\ ds[d].output = cs[d].output
        /\ ds[c] = cs[c] /\ ("out" \in ds[o].events <=> "out" \in cs[o].events)
        /\ "in" \in cs[o].events => "in" \in ds[o].events
        /\ Open(cs, o) => "in" \in ds[o].events
    BY <1>1, <2>1 DEF ConnShape
  <2> QED BY <1>1, <1>2, <1>3, <1>5, <1>6, <2>2 DEF k, rest, ds, o
<1>7. CASE k # Len(bytes)
  <2> DEFINE kept == [cs EXCEPT ![c].output = @ \o rest, ![c].events = @ \cup {"out"}]
  <2>1. ds = StopRead(kept, o) \/ ds = kept
    <3>1. kept = Enable([cs EXCEPT ![c].output = @ \o rest], c, "out")
      BY DEF Enable, ConnShape
    <3> HIDE DEF kept
    <3> QED BY <1>4, <1>7, <3>1 DEF Buffered
  <2>2. /\ kept \in ConnShape
        /\ \A d \in Conn : kept[d].state = cs[d].state /\ kept[d].input = cs[d].input
        /\ kept[c].output = cs[c].output \o rest
        /\ kept[c].events = cs[c].events \cup {"out"} /\ kept[o] = cs[o]
    BY <1>1, <1>5 DEF ConnShape
  <2> HIDE DEF kept, o
  <2>3. /\ ds \in ConnShape
        /\ \A d \in Conn : /\ ds[d].state = kept[d].state /\ ds[d].input = kept[d].input
                           /\ ds[d].output = kept[d].output
        /\ ds[c] = kept[c] /\ ("out" \in ds[o].events <=> "out" \in kept[o].events)
    <3>1. CASE ds = kept
      BY <2>2, <3>1
    <3>2. CASE ds = [kept EXCEPT ![o].events = @ \ {"in"}]
      BY <1>1, <2>2, <3>2 DEF ConnShape
    <3> QED BY <2>1, <3>1, <3>2 DEF StopRead, Disable
  <2>4. Len(rest) > 0
    BY <1>1, <1>2, <1>3, <1>7
  <2> QED BY <1>1, <1>2, <1>7, <2>2, <2>3, <2>4 DEF k, rest, ds, o
<1> QED BY <1>6, <1>7

\* sendInLoop leaves the states of the connections alone.
LEMMA AfterSendStates ==
    ASSUME NEW cs \in ConnShape, NEW c \in Conn, NEW bytes \in Seq(Nat),
           Len(sock[c].snd) \in Nat, Len(sock[c].snd) <= SendSpace
    PROVE  \A d \in Conn : AfterSend(cs, c, bytes)[d].state = cs[d].state
<1> DEFINE ds == AfterSend(cs, c, bytes)
<1>1. \A d \in Conn : ds[d].state = cs[d].state /\ ds[d].input = cs[d].input
  BY AfterSendIs
<1> HIDE DEF ds
<1>2. \A d \in Conn : ds[d].state = cs[d].state
  BY <1>1
<1> QED BY <1>2 DEF ds

\* States only go down: NeverReopened for one step.
Sinks(cs, ds) ==
    \A c \in Conn :
        \/ ds[c].state = cs[c].state
        \/ cs[c].state = "kConnected" /\ ds[c].state \in {"kDisConnecting", "kDisConnected"}
        \/ cs[c].state = "kDisConnecting" /\ ds[c].state = "kDisConnected"

\* A callback that left cs and ks has ended, and all is consistent again.
Ends(cs, ks) ==
    /\ Consistent(conn', sock', life', <<>>, <<>>)
    /\ Sinks(cs, conn') /\ Ages(life, life')
    /\ \A c \in Conn : sock'[c].link = ks[c].link
    /\ removals' \in 0 .. 2
    /\ fault' \in {fault, "eventsLeft", "notDisconnected", "sigpipe"}

\* Closing and shutting down only take states down.
LEMMA LoweredSinks ==
    ASSUME NEW cs, NEW ds, Lowered(cs, ds)
    PROVE  Sinks(cs, ds)
BY DEF Lowered, Sinks, Closing

\* The ends of a callback that closes, at any of its places.
LEMMA CloseEnds ==
    ASSUME NEW cs, NEW ks, NEW hb, NEW hf, Consistent(cs, ks, life, hb, hf),
           removals \in 0 .. 2, NEW c \in Conn, HandleClose(cs, c),
           life[c] # "none", life["front"] # "none",
           sock' \in SockShape, SameData(ks, sock'), sock'[Other(c)] = ks[Other(c)],
           hb = <<>> \/ (c = "back" /\ cs["back"].state \in Closing),
           hf = <<>> \/ (c = "front" /\ cs["front"].state \in Closing)
    PROVE  Ends(cs, ks)
<1>1. Consistent(conn', sock', life', <<>>, <<>>)
  BY CloseKeeps
<1>2. /\ Lowered(cs, conn') /\ Ages(life, life') /\ removals' \in 0 .. 2
      /\ fault' \in {fault, "eventsLeft", "notDisconnected"}
  BY CloseIs DEF Consistent
<1>3. \A d \in Conn : sock'[d].link = ks[d].link
  BY DEF SameData
<1> QED BY <1>1, <1>2, <1>3, LoweredSinks DEF Ends

\* No byte of a sequence without the proxy's own is in a part of it.
LEMMA RangeAppend ==
    ASSUME NEW s \in Seq(Nat), NEW t \in Seq(Nat), NEW k \in 0 .. Len(t),
           OwnByte \notin Range(s), OwnByte \notin Range(t)
    PROVE  OwnByte \notin Range(s \o SubSeq(t, k + 1, Len(t)))
<1> DEFINE u == SubSeq(t, k + 1, Len(t))
<1>1. u \in Seq(Nat) /\ \A i \in 1 .. Len(u) : k + i \in 1 .. Len(t) /\ u[i] = t[k + i]
  OBVIOUS
<1> HIDE DEF u
<1>2. OwnByte \notin Range(u)
  <2>1. ASSUME NEW i \in DOMAIN u PROVE u[i] # OwnByte
    <3>1. i \in 1 .. Len(u)
      BY <1>1, LenProperties
    <3>2. k + i \in DOMAIN t /\ u[i] = t[k + i]
      BY <1>1, <3>1, LenProperties
    <3> QED BY <3>2 DEF Range
  <2> QED BY <2>1 DEF Range
<1>3. Range(s \o u) = Range(s) \cup Range(u)
  BY <1>1, RangeConcatenation
<1> QED BY <1>2, <1>3 DEF u

\* The first way of SendConnected: the bytes are written or buffered.
LEMMA BufferedKeeps ==
    ASSUME sent \in [Conn -> Nat], got \in [Conn -> Seq(Nat)],
           NEW cs, NEW ks, NEW c \in Conn, NEW bytes \in Seq(Nat), bytes # <<>>,
           Consistent(cs, ks, life, IF c = "back" THEN bytes ELSE <<>>,
                      IF c = "front" THEN bytes ELSE <<>>),
           cs[c].state = "kConnected", life["back"] # "none", life["front"] # "none",
           ks[c].snd = sock[c].snd, ks[c].link = "up" \/ cs[c].output # <<>>,
           c = "front" => OwnByte \notin Range(bytes),
           conn' = AfterSend(cs, c, bytes), life' = life,
           sock' = [ks EXCEPT ![c].snd = @ \o SubSeq(bytes, 1, Direct(cs, c, bytes))]
    PROVE  Consistent(conn', sock', life', <<>>, <<>>)
<1> DEFINE o == Other(c)
           k == Direct(cs, c, bytes)
           a == SubSeq(bytes, 1, k)
           rest == SubSeq(bytes, k + 1, Len(bytes))
           hb == IF c = "back" THEN bytes ELSE <<>>
           hf == IF c = "front" THEN bytes ELSE <<>>
<1>0. /\ o \in Conn /\ o # c /\ Conn = {c, o} /\ Other(o) = c /\ SendSpace \in Nat
      /\ "front" \in Conn /\ "back" \in Conn
  BY TcpAssumption DEF Other, Conn
<1>1. /\ cs \in ConnShape /\ ks \in SockShape /\ life \in LifeShape
      /\ \A d \in Conn : Len(ks[d].snd) <= SendSpace
      /\ Made(cs, ks, life) /\ Interest(cs, life) /\ Towards(cs, ks, "back", hb)
      /\ Towards(cs, ks, "front", hf)
      /\ Answers(cs, ks, life) /\ HeadFirst(cs, ks, life, hb)
  BY DEF Consistent
<1>2. ks[c].snd \in Seq(Nat) /\ Len(ks[c].snd) \in Nat /\ cs[c].output \in Seq(Nat)
  BY <1>1 DEF SockShape, ConnShape
<1>3. /\ k \in 0 .. Len(bytes) /\ Len(sock[c].snd) + k <= SendSpace
      /\ cs[c].output = <<>> \/ k = 0
      /\ conn' \in ConnShape
      /\ \A d \in Conn : conn'[d].state = cs[d].state /\ conn'[d].input = cs[d].input
      /\ conn'[c].output = cs[c].output \o rest
      /\ conn'[c].events = IF k = Len(bytes) THEN cs[c].events
                                             ELSE cs[c].events \cup {"out"}
      /\ conn'[o].output = cs[o].output
      /\ "out" \in conn'[o].events <=> "out" \in cs[o].events
      /\ k = Len(bytes) /\ Open(cs, o) => "in" \in conn'[o].events
  <2> DEFINE ds == AfterSend(cs, c, bytes)
  <2>1. Len(sock[c].snd) \in Nat /\ Len(sock[c].snd) <= SendSpace /\ cs \in ConnShape
    BY <1>1, <1>2
  <2>2. /\ k \in 0 .. Len(bytes) /\ Len(sock[c].snd) + k <= SendSpace
        /\ cs[c].output = <<>> \/ k = 0
        /\ ds \in ConnShape
        /\ \A d \in Conn : ds[d].state = cs[d].state /\ ds[d].input = cs[d].input
        /\ ds[c].output = cs[c].output \o rest
        /\ ds[c].events = IF k = Len(bytes) THEN cs[c].events
                                            ELSE cs[c].events \cup {"out"}
        /\ ds[o].output = cs[o].output
        /\ "out" \in ds[o].events <=> "out" \in cs[o].events
        /\ k = Len(bytes) /\ Open(cs, o) => "in" \in ds[o].events
    BY <2>1, AfterSendIs
  <2>3. conn' = ds
    OBVIOUS
  <2> HIDE DEF ds, k, rest, o
  <2> QED BY <2>2, <2>3
<1>31. k \in 0 .. Len(bytes)
  BY <1>3
<1>4. Len(bytes) \in Nat /\ Len(bytes) > 0 /\ k \in Nat
  <2>1. Len(bytes) \in Nat /\ Len(bytes) > 0
    BY EmptySeq
  <2> HIDE DEF k
  <2> QED BY <1>31, <2>1
<1>5. /\ a \in Seq(Nat) /\ Len(a) = k /\ rest \in Seq(Nat) /\ Len(rest) = Len(bytes) - k
      /\ k = 0 => a = <<>>
      /\ k = Len(bytes) => rest = <<>>
  <2> HIDE DEF k
  <2>1. a \in Seq(Nat) /\ Len(a) = k /\ rest \in Seq(Nat) /\ Len(rest) = Len(bytes) - k
    <3>1. bytes \in Seq(Nat) /\ k \in 0 .. Len(bytes)
      BY <1>31
    <3> QED BY <3>1, Cut DEF a, rest
  <2>2. k = 0 => a = <<>>
    BY SubSeqEmpty
  <2>3. k = Len(bytes) => rest = <<>>
    BY <1>4, SubSeqEmpty
  <2> QED BY <2>1, <2>2, <2>3
<1>51. a \in Seq(Nat) /\ rest \in Seq(Nat)
  BY <1>5
<1> HIDE DEF k, a, rest, o
<1>6. /\ cs[c].output \o rest \in Seq(Nat)
      /\ Len(cs[c].output \o rest) = Len(cs[c].output) + Len(rest)
      /\ ks[c].snd \o a \in Seq(Nat) /\ Len(ks[c].snd \o a) = Len(ks[c].snd) + k
  <2>1. /\ cs[c].output \o rest \in Seq(Nat)
        /\ Len(cs[c].output \o rest) = Len(cs[c].output) + Len(rest)
    BY <1>2, <1>51, ConcatProperties
  <2>2. ks[c].snd \o a \in Seq(Nat) /\ Len(ks[c].snd \o a) = Len(ks[c].snd) + Len(a)
    BY <1>2, <1>51, ConcatProperties
  <2> QED BY <1>5, <2>1, <2>2
<1>7. /\ sock' \in SockShape /\ sock'[c].snd = ks[c].snd \o a /\ sock'[o] = ks[o]
      /\ sock'[c].rcv = ks[c].rcv /\ sock'[c].link = ks[c].link
      /\ (sock'[c].fin <=> ks[c].fin) /\ (sock'[c].err <=> ks[c].err)
  <2> DEFINE t == ks[c].snd \o a
  <2>1. sock' = WithSnd(ks, c, t)
    BY DEF a, k, WithSnd
  <2>2. t \in Seq(Nat) /\ ks \in SockShape /\ o \in Conn \ {c}
    BY <1>0, <1>1, <1>6
  <2> HIDE DEF t
  <2>3. OnlySnd(sock', ks, c, t)
    <3>1. OnlySnd(WithSnd(ks, c, t), ks, c, t)
      BY <2>2, SndSet, Zenon
    <3> QED BY <2>1, <3>1
  <2>4. /\ sock' \in SockShape /\ sock'[c].snd = t /\ sock'[o] = ks[o]
        /\ sock'[c].rcv = ks[c].rcv /\ sock'[c].link = ks[c].link
        /\ (sock'[c].fin <=> ks[c].fin) /\ (sock'[c].err <=> ks[c].err)
    BY <2>2, <2>3 DEF OnlySnd
  <2> QED BY <2>4 DEF t
<1>8. \A d \in Conn : Len(sock'[d].snd) <= SendSpace
  <2>1. Len(sock'[c].snd) = Len(sock[c].snd) + k
    BY <1>6, <1>7
  <2>2. Len(sock'[c].snd) <= SendSpace
    BY <1>3, <2>1
  <2>3. Len(sock'[o].snd) <= SendSpace
    BY <1>0, <1>1, <1>7
  <2> QED BY <1>0, <2>2, <2>3
<1>9. k = Len(bytes) => cs[c].output = <<>> /\ conn'[c].output = <<>>
  <2>1. k = Len(bytes) => cs[c].output = <<>> /\ rest = <<>>
    BY <1>3, <1>4, <1>5
  <2>2. <<>> \o <<>> = <<>>
    BY EmptySeq, ConcatEmptySeq
  <2> QED BY <1>3, <2>1, <2>2
<1>10. k # Len(bytes) => conn'[c].output # <<>>
  <2> DEFINE l == Len(bytes)
             m == Len(rest)
             n == Len(cs[c].output)
  <2>1. m \in Nat /\ n \in Nat
    BY <1>2, <1>51, LenProperties
  <2>2. k \in 0 .. l /\ l \in Nat /\ m = l - k
    BY <1>31, <1>4, <1>5
  <2>4. Len(conn'[c].output) = n + m
    BY <1>3, <1>6
  <2> HIDE DEF l, m, n
  <2>5. k # l => n + m > 0
    BY <2>1, <2>2
  <2>3. k # Len(bytes) => Len(conn'[c].output) > 0
    BY <2>4, <2>5 DEF l
  <2> QED BY <2>3, EmptySeq
<1>11. Made(conn', sock', life')
  <2>1. ASSUME ks[c].link = "dead" PROVE sock'[c].snd = <<>>
    <3>1. ks[c].snd = <<>> /\ a = <<>>
      BY <1>1, <1>3, <1>5, <2>1 DEF Made
    <3>2. <<>> \o <<>> = <<>>
      BY EmptySeq, ConcatEmptySeq
    <3> QED BY <1>7, <3>1, <3>2
  <2>2. /\ \A d \in Conn : sock'[d].link = "dead" => sock'[d].snd = <<>>
        /\ \A d \in Conn : /\ sock'[d].link = ks[d].link /\ sock'[d].rcv = ks[d].rcv
                           /\ (sock'[d].fin <=> ks[d].fin) /\ (sock'[d].err <=> ks[d].err)
    BY <1>0, <1>1, <1>7, <2>1 DEF Made
  <2>3. \A d \in Conn : life'[d] # "none"
    BY DEF Conn
  <2>4. conn'["back"].state = "kConnecting" =>
            conn'["back"].output = <<>> /\ sock'["back"].snd = <<>> /\ got["back"] = <<>>
    <3>1. conn'["back"].state = "kConnecting" => "back" = o
      BY <1>0, <1>3
    <3>2. conn'["back"].state = "kConnecting" => cs["back"].state = "kConnecting"
      BY <1>0, <1>3
    <3>3. cs["back"].state = "kConnecting" =>
              cs["back"].output = <<>> /\ ks["back"].snd = <<>> /\ got["back"] = <<>>
      BY <1>1 DEF Made
    <3>4. "back" = o => conn'["back"].output = cs["back"].output
                        /\ sock'["back"].snd = ks["back"].snd
      BY <1>3, <1>7
    <3> QED BY <3>1, <3>2, <3>3, <3>4
  <2> QED BY <1>0, <1>1, <1>3, <2>2, <2>3, <2>4 DEF Made
<1>12. Interest(conn', life')
  <2>1. ASSUME life[c] = "live"
        PROVE  /\ "out" \in conn'[c].events <=> conn'[c].output # <<>>
               /\ conn'[c].state = "kConnected" /\ "in" \notin conn'[c].events
                     => conn'[o].output # <<>>
    <3>1. /\ "out" \in cs[c].events <=> cs[c].output # <<>>
          /\ "in" \notin cs[c].events => cs[o].output # <<>>
      BY <1>1, <2>1 DEF Interest, Closing, o
    <3>2. "out" \in conn'[c].events <=> conn'[c].output # <<>>
      BY <1>3, <1>9, <1>10, <3>1
    <3> QED BY <1>3, <3>1, <3>2
  <2>2. ASSUME life[o] = "live"
        PROVE  /\ conn'[o].state \in Closing =>
                     ("out" \in conn'[o].events <=> conn'[o].output # <<>>)
               /\ conn'[o].state = "kConnected" /\ "in" \notin conn'[o].events
                     => conn'[c].output # <<>>
    BY <1>0, <1>1, <1>3, <1>10, <2>2 DEF Interest, Open
  <2> QED BY <1>0, <2>1, <2>2 DEF Interest, o
<1>13. Towards(conn', sock', c, <<>>)
  <2>1. Towards(cs, ks, c, bytes)
    BY <1>0, <1>1 DEF Other, Conn
  <2>2. FlowTypes(Nat, HostIn(c), got[c], ks[c].snd, cs[c].output, bytes,
                  cs[o].input, ks[o].rcv, sent[o])
    BY <1>1, TowardsTypes DEF o
  <2>3. Flow(HostIn(c), got[c], ks[c].snd \o a, cs[c].output \o rest, <<>>,
             cs[o].input, ks[o].rcv, sent[o], "kConnected", ks[c].link)
    BY <1>3, <1>31, <2>1, <2>2, FlowSend DEF Towards, o, a, rest
  <2> QED BY <1>0, <1>3, <1>7, <2>3 DEF Towards, o
<1>14. Towards(conn', sock', o, <<>>)
  <2>1. Towards(cs, ks, o, <<>>)
    BY <1>0, <1>1 DEF Other, Conn
  <2> QED BY <1>0, <1>3, <1>7, <2>1 DEF Towards
<1>15. Answers(conn', sock', life')
  <2>1. OwnByte \notin Range(cs["front"].output)
    BY <1>1 DEF Answers
  <2>2. CASE c = "front"
    BY <1>2, <1>3, <1>31, <2>1, <2>2, RangeAppend DEF Answers, rest
  <2>3. CASE c = "back"
    BY <1>0, <1>3, <2>1, <2>3 DEF Answers
  <2> QED BY <2>2, <2>3 DEF Conn
<1>16. HeadFirst(conn', sock', life', <<>>)
  <2>1. HeadFirst(cs, ks, life, hb)
    BY <1>1
  <2>2. CASE c = "back"
    <3> DEFINE g == Len(got["back"])
               m == Len(ks["back"].snd)
               w == Len(cs["back"].output)
               l == Len(bytes)
    <3>1. g \in Nat /\ m \in Nat /\ w \in Nat /\ l \in Nat /\ k \in Nat /\ Len(<<>>) = 0
      <4>1. got["back"] \in Seq(Nat) /\ ks["back"].snd \in Seq(Nat)
            /\ cs["back"].output \in Seq(Nat)
        BY <1>0, <1>2, <2>2
      <4>2. g \in Nat /\ m \in Nat /\ w \in Nat
        BY <4>1, LenProperties
      <4> QED BY <1>4, <4>2, EmptySeq
    <3>3. Passed(conn', sock', "back") = g + (m + k) + (w + (l - k))
      <4>1. Len(sock'["back"].snd) = m + k
        BY <1>6, <1>7, <2>2
      <4>2. Len(conn'["back"].output) = w + (l - k)
        BY <1>3, <1>5, <1>6, <2>2
      <4> HIDE DEF m, w, l
      <4> QED BY <4>1, <4>2 DEF Passed
    <3>4. Passed(cs, ks, "back") = g + m + w
      BY DEF Passed
    <3> HIDE DEF g, m, w, l
    <3>5. g + (m + k) + (w + (l - k)) + 0 = g + m + w + l
      BY <3>1
    <3>2. Passed(conn', sock', "back") + Len(<<>>) = Passed(cs, ks, "back") + Len(bytes)
      BY <3>1, <3>3, <3>4, <3>5 DEF l
    <3> QED BY <1>0, <1>3, <1>7, <2>1, <2>2, <3>2 DEF HeadFirst
  <2>3. CASE c = "front"
    <3>1. o = "back" /\ hb = <<>>
      BY <2>3 DEF o, Other
    <3>2. Passed(conn', sock', "back") = Passed(cs, ks, "back")
      BY <1>3, <1>7, <3>1 DEF Passed
    <3> QED BY <1>0, <1>3, <1>7, <2>1, <3>1, <3>2 DEF HeadFirst
  <2> QED BY <2>2, <2>3 DEF Conn
<1>17. Towards(conn', sock', "back", <<>>) /\ Towards(conn', sock', "front", <<>>)
  BY <1>0, <1>13, <1>14
<1> QED BY <1>1, <1>3, <1>7, <1>8, <1>11, <1>12, <1>15, <1>16, <1>17 DEF Consistent

\* Send, whatever state the connection is in.
LEMMA SendEnds ==
    ASSUME sent \in [Conn -> Nat], got \in [Conn -> Seq(Nat)], removals \in 0 .. 2,
           NEW cs, NEW ks, NEW c \in Conn, NEW bytes \in Seq(Nat), bytes # <<>>,
           Consistent(cs, ks, life, IF c = "back" THEN bytes ELSE <<>>,
                      IF c = "front" THEN bytes ELSE <<>>),
           cs[c].state # "kConnecting", life["back"] # "none", life["front"] # "none",
           ks[c].snd = sock[c].snd, c = "front" => OwnByte \notin Range(bytes),
           Send(cs, ks, c, bytes)
    PROVE  Ends(cs, ks)
<1> DEFINE hb == IF c = "back" THEN bytes ELSE <<>>
           hf == IF c = "front" THEN bytes ELSE <<>>
<1>1. /\ cs \in ConnShape /\ ks \in SockShape /\ life \in LifeShape
      /\ Consistent(cs, ks, life, hb, hf)
  BY DEF Consistent
<1>2. /\ Lowered(cs, cs) /\ SameData(ks, ks) /\ Ages(life, life) /\ Sinks(cs, cs)
      /\ \A d \in Conn : life[d] # "none"
  BY DEF Lowered, SameData, Ages, Sinks, Conn
<1>3. ASSUME cs[c].state # "kConnected" \/ ks[c].link = "dead",
             conn' = cs, sock' = ks, life' = life, removals' = removals,
             fault' \in {fault, "sigpipe"}
      PROVE  Ends(cs, ks)
  <2>1. cs[c].state \notin {"kConnecting", "kConnected"} \/ ks[c].link = "dead"
    BY <1>3
  <2>2. /\ hb = <<>> \/ cs["back"].state \notin {"kConnecting", "kConnected"}
                    \/ ks["back"].link = "dead"
        /\ hf = <<>> \/ cs["front"].state \notin {"kConnecting", "kConnected"}
                    \/ ks["front"].link = "dead"
    BY <2>1
  <2> HIDE DEF hb, hf
  <2>3. Consistent(cs, ks, life, <<>>, <<>>)
    BY <1>1, <1>2, <2>2, LoweredKeeps
  <2> QED BY <1>2, <1>3, <2>3 DEF Ends
<1>4. CASE cs[c].state # "kConnected"
  BY <1>3, <1>4 DEF Send, Leaves
<1>5. CASE cs[c].state = "kConnected"
  <2>1. SendConnected(cs, ks, c, bytes)
    BY <1>5 DEF Send
  <2>2. CASE /\ ks[c].link = "up" \/ cs[c].output # <<>>
             /\ Leaves(AfterSend(cs, c, bytes),
                   [ks EXCEPT ![c].snd = @ \o SubSeq(bytes, 1, Direct(cs, c, bytes))])
    <3>1. /\ conn' = AfterSend(cs, c, bytes) /\ life' = life /\ removals' = removals
          /\ sock' = [ks EXCEPT ![c].snd = @ \o SubSeq(bytes, 1, Direct(cs, c, bytes))]
          /\ fault' = fault
      BY <2>2 DEF Leaves
    <3>2. Consistent(conn', sock', life', <<>>, <<>>)
      BY <1>5, <2>2, <3>1, BufferedKeeps
    <3>3. Sinks(cs, conn')
      <4>1. Len(sock[c].snd) \in Nat /\ Len(sock[c].snd) <= SendSpace
        BY <1>1, LenProperties DEF Consistent, SockShape
      <4>2. cs \in ConnShape
        BY <1>1
      <4>3. \A d \in Conn : AfterSend(cs, c, bytes)[d].state = cs[d].state
        BY <4>1, <4>2, AfterSendStates
      <4> QED BY <3>1, <4>3 DEF Sinks
    <3>4. \A d \in Conn : sock'[d].link = ks[d].link
      BY <1>1, <3>1 DEF SockShape
    <3> QED BY <1>2, <3>1, <3>2, <3>3, <3>4 DEF Ends
  <2>3. CASE /\ ks[c].link = "dead" /\ cs[c].output = <<>> /\ ks[c].err
             /\ HandleClose(cs, c) /\ sock' = [ks EXCEPT ![c].err = FALSE]
    <3>1. sock' \in SockShape /\ SameData(ks, sock') /\ sock'[Other(c)] = ks[Other(c)]
      BY <1>1, <2>3 DEF SockShape, SameData, Other, Conn
    <3>2. /\ hb = <<>> \/ (c = "back" /\ cs["back"].state \in Closing)
          /\ hf = <<>> \/ (c = "front" /\ cs["front"].state \in Closing)
      BY <1>5 DEF Closing
    <3> HIDE DEF hb, hf
    <3> QED BY <1>1, <1>2, <2>3, <3>1, <3>2, CloseEnds DEF Conn
  <2>4. CASE /\ ks[c].link = "dead" /\ cs[c].output = <<>> /\ ~ ks[c].err
             /\ fault' = "sigpipe"
             /\ conn' = cs /\ sock' = ks /\ UNCHANGED <<life, removals>>
    BY <1>3, <2>4
  <2> QED BY <2>1, <2>2, <2>3, <2>4 DEF SendConnected
<1> QED BY <1>4, <1>5

\* handleWrite on a socket that takes bytes.
LEMMA FlushEnds ==
    ASSUME sent \in [Conn -> Nat], got \in [Conn -> Seq(Nat)], removals \in 0 .. 2,
           Consistent(conn, sock, life, <<>>, <<>>), NEW c \in Conn,
           life[c] = "live", conn[c].state # "kConnecting", sock[c].link = "up",
           "out" \in conn[c].events, NEW k, k = Accepted(c, conn[c].output),
           Leaves(AfterWrite(c, k),
                  [sock EXCEPT ![c].snd = @ \o SubSeq(conn[c].output, 1, k)])
    PROVE  Ends(conn, sock)
<1> DEFINE o == Other(c)
           w == conn[c].output
           a == SubSeq(w, 1, k)
           rest == SubSeq(w, k + 1, Len(w))
           ds == AfterWrite(c, k)
           t == sock[c].snd \o a
<1>0. /\ o \in Conn /\ o # c /\ Conn = {c, o} /\ Other(o) = c /\ SendSpace \in Nat
      /\ "front" \in Conn /\ "back" \in Conn
  BY TcpAssumption DEF Other, Conn
<1>1. /\ conn \in ConnShape /\ sock \in SockShape /\ life \in LifeShape
      /\ \A d \in Conn : Len(sock[d].snd) <= SendSpace
      /\ Made(conn, sock, life) /\ Interest(conn, life)
      /\ Towards(conn, sock, "back", <<>>)
      /\ life["back"] # "none" => Towards(conn, sock, "front", <<>>)
      /\ Answers(conn, sock, life) /\ HeadFirst(conn, sock, life, <<>>)
  BY DEF Consistent
<1>2. /\ sock[c].snd \in Seq(Nat) /\ Len(sock[c].snd) \in Nat
      /\ w \in Seq(Nat) /\ Len(w) \in Nat
  BY <1>1, LenProperties DEF SockShape, ConnShape
<1>3. k \in 0 .. Len(w) /\ Len(sock[c].snd) + k <= SendSpace
  <2> DEFINE l == Len(w)
             m == Len(sock[c].snd)
  <2>1. l \in Nat /\ m \in Nat /\ m <= SendSpace
    BY <1>1, <1>2
  <2>2. k = IF l <= SendSpace - m THEN l ELSE SendSpace - m
    BY Zenon DEF Accepted, MinOf
  <2> HIDE DEF l, m
  <2>3. k \in 0 .. l /\ m + k <= SendSpace
    BY <1>0, <2>1, <2>2
  <2> QED BY <2>3 DEF l, m
<1>4. /\ a \in Seq(Nat) /\ Len(a) = k /\ rest \in Seq(Nat) /\ Len(rest) = Len(w) - k
      /\ (k = Len(w) => rest = <<>>) /\ (k < Len(w) => rest # <<>>) /\ k \in Nat
  <2> HIDE DEF w
  <2>1. a \in Seq(Nat) /\ Len(a) = k /\ rest \in Seq(Nat) /\ Len(rest) = Len(w) - k
    <3>1. w \in Seq(Nat) /\ k \in 0 .. Len(w)
      BY <1>2, <1>3
    <3> QED BY <3>1, Cut
  <2>2. k = Len(w) => rest = <<>>
    BY <1>2, SubSeqEmpty
  <2> HIDE DEF a, rest
  <2>3. k < Len(w) => Len(rest) > 0
    BY <1>2, <1>3, <2>1
  <2> QED BY <1>3, <2>1, <2>2, <2>3, EmptySeq
<1>5. t \in Seq(Nat) /\ Len(t) = Len(sock[c].snd) + k
  <2>1. sock[c].snd \in Seq(Nat) /\ a \in Seq(Nat) /\ Len(a) = k
    BY <1>2, <1>4
  <2> HIDE DEF a
  <2>2. Len(t) = Len(sock[c].snd) + Len(a) /\ t \in Seq(Nat)
    BY <2>1, ConcatProperties
  <2> QED BY <2>1, <2>2
<1>6. /\ conn' = ds /\ sock' = [sock EXCEPT ![c].snd = t]
      /\ life' = life /\ removals' = removals /\ fault' = fault
  BY DEF Leaves
<1>7. /\ ds \in ConnShape
      /\ \A d \in Conn : ds[d].state = conn[d].state /\ ds[d].input = conn[d].input
      /\ ds[c].output = rest /\ ds[o].output = conn[o].output
      /\ "in" \in ds[c].events <=> "in" \in conn[c].events
      /\ "out" \in ds[o].events <=> "out" \in conn[o].events
      /\ life[o] = "none" => ds[o] = conn[o]
      /\ IF k < Len(w) THEN ds[c].events = conn[c].events
         ELSE "out" \notin ds[c].events /\ (Open(conn, o) => "in" \in ds[o].events)
  <2> DEFINE written == [conn EXCEPT ![c].output = rest]
             quiet == [written EXCEPT ![c].events = @ \ {"out"}]
  <2>1. /\ written \in ConnShape /\ written[c].output = rest
        /\ written[c].state = conn[c].state /\ written[c].input = conn[c].input
        /\ written[c].events = conn[c].events /\ written[o] = conn[o]
    <3>1. written = WithOutput(conn, c, rest)
      BY DEF WithOutput
    <3>2. conn \in ConnShape /\ rest \in Seq(Nat) /\ o \in Conn \ {c}
      BY <1>0, <1>1, <1>4
    <3> HIDE DEF written, rest, o
    <3>3. OnlyOutput(WithOutput(conn, c, rest), conn, c, rest)
      BY <3>2, OutputSet, Zenon
    <3> QED BY <3>1, <3>2, <3>3 DEF OnlyOutput
  <2>2. ds = IF k < Len(w) THEN written ELSE StartRead(quiet, o)
    BY DEF AfterWrite, Drop, Disable
  <2> HIDE DEF written
  <2>3. /\ quiet \in ConnShape /\ quiet[c].output = rest
        /\ quiet[c].state = conn[c].state /\ quiet[c].input = conn[c].input
        /\ quiet[c].events = conn[c].events \ {"out"} /\ quiet[o] = conn[o]
    <3> HIDE DEF rest, o
    <3> DEFINE E == conn[c].events \ {"out"}
    <3>1. E \subseteq {"in", "out"}
      BY <1>1 DEF ConnShape
    <3>2. quiet = WithEvents(written, c, E)
      BY <2>1 DEF WithEvents
    <3> HIDE DEF quiet, E
    <3>3. OnlyEvents(quiet, written, c, E)
      BY <2>1, <3>1, <3>2, EventsSet
    <3> QED BY <1>0, <2>1, <3>3 DEF E, OnlyEvents
  <2> HIDE DEF quiet, ds, rest, w, o
  <2>4. CASE k < Len(w)
    BY <1>0, <2>1, <2>2, <2>4
  <2>5. CASE ~ (k < Len(w))
    <3>1. ds = IF Open(quiet, o) THEN [quiet EXCEPT ![o].events = @ \cup {"in"}] ELSE quiet
      BY <2>2, <2>5 DEF StartRead, Enable
    <3>2. Open(quiet, o) <=> Open(conn, o)
      BY <2>3 DEF Open
    <3>3. CASE Open(quiet, o)
      <4>1. ds = [quiet EXCEPT ![o].events = @ \cup {"in"}]
        BY <3>1, <3>3
      <4>2. /\ ds \in ConnShape /\ ds[c] = quiet[c] /\ ds[o].state = quiet[o].state
            /\ ds[o].input = quiet[o].input /\ ds[o].output = quiet[o].output
            /\ ds[o].events = quiet[o].events \cup {"in"}
        <5> DEFINE E == quiet[o].events \cup {"in"}
        <5>1. quiet \in ConnShape /\ o \in Conn /\ c \in Conn \ {o}
          BY <1>0, <2>3
        <5>2. E \subseteq {"in", "out"}
          BY <5>1 DEF ConnShape
        <5>3. ds = WithEvents(quiet, o, E)
          BY <4>1 DEF WithEvents
        <5> HIDE DEF E
        <5>4. OnlyEvents(ds, quiet, o, E)
          BY <5>1, <5>2, <5>3, EventsSet
        <5> QED BY <5>1, <5>4 DEF E, OnlyEvents
      <4>3. life[o] # "none"
        BY <3>3 DEF Open
      <4> QED BY <1>0, <2>3, <2>5, <3>2, <3>3, <4>2, <4>3
    <3>4. CASE ~ Open(quiet, o)
      BY <1>0, <2>3, <2>5, <3>1, <3>2, <3>4
    <3> QED BY <3>3, <3>4
  <2> QED BY <2>4, <2>5
<1>8. /\ sock' \in SockShape /\ sock'[c].snd = t /\ sock'[o] = sock[o]
      /\ sock'[c].rcv = sock[c].rcv /\ sock'[c].link = sock[c].link
      /\ sock'[c].fin = sock[c].fin /\ sock'[c].err = sock[c].err
  <2> HIDE DEF t, o
  <2> QED BY <1>0, <1>1, <1>5, <1>6 DEF SockShape
<1> HIDE DEF a, rest, ds, t, o, w
<1>9. \A d \in Conn : Len(sock'[d].snd) <= SendSpace
  BY <1>0, <1>1, <1>3, <1>5, <1>8
<1>10. Made(conn', sock', life')
  <2>1. life["front"] # "none" => conn'["front"].state # "kConnecting"
    BY <1>0, <1>1, <1>6, <1>7 DEF Made
  <2>2. \A d \in Conn : life'[d] = "none" => conn'[d] = NewConn /\ sock'[d] = NewSock
    BY <1>0, <1>1, <1>6, <1>7, <1>8 DEF Made
  <2>3. /\ \A d \in Conn : sock'[d].link = "dead" => sock'[d].snd = <<>>
        /\ \A d \in Conn : /\ sock'[d].link = sock[d].link /\ sock'[d].rcv = sock[d].rcv
                           /\ sock'[d].fin = sock[d].fin /\ sock'[d].err = sock[d].err
    BY <1>0, <1>1, <1>8 DEF Made
  <2>4. conn'["back"].state = "kConnecting" =>
            conn'["back"].output = <<>> /\ sock'["back"].snd = <<>> /\ got["back"] = <<>>
    <3>1. conn'["back"].state = "kConnecting" => "back" = o
      BY <1>0, <1>6, <1>7
    <3> QED BY <1>0, <1>1, <1>6, <1>7, <1>8, <3>1 DEF Made
  <2>5. conn'["back"].input = <<>> /\ conn'["back"].state = conn["back"].state
    BY <1>0, <1>1, <1>6, <1>7 DEF Made
  <2> QED BY <1>0, <1>1, <1>6, <2>1, <2>2, <2>3, <2>4, <2>5 DEF Made
<1>11. Interest(conn', life')
  <2>1. /\ conn[c].state \in Closing =>
             ("out" \in conn'[c].events <=> conn'[c].output # <<>>)
        /\ conn[c].state = "kConnected" /\ "in" \notin conn'[c].events
             => conn'[o].output # <<>>
    <3>1. /\ conn[c].state = "kConnected" /\ "in" \notin conn[c].events
                => conn[o].output # <<>>
      BY <1>0, <1>1 DEF Interest, o
    <3>2. CASE k < Len(w)
      BY <1>4, <1>6, <1>7, <3>1, <3>2
    <3>3. CASE ~ (k < Len(w))
      <4>1. rest = <<>>
        BY <1>2, <1>3, <1>4, <3>3
      <4> QED BY <1>6, <1>7, <3>1, <3>3, <4>1
    <3> QED BY <3>2, <3>3
  <2>2. ASSUME life[o] = "live"
        PROVE  /\ conn'[o].state \in Closing =>
                     ("out" \in conn'[o].events <=> conn'[o].output # <<>>)
               /\ conn'[o].state = "kConnected" /\ "in" \notin conn'[o].events
                     => conn'[c].output # <<>>
    <3>1. conn'[o].state \in Closing =>
              ("out" \in conn'[o].events <=> conn'[o].output # <<>>)
      BY <1>0, <1>1, <1>6, <1>7, <2>2 DEF Interest
    <3>2. CASE k < Len(w)
      BY <1>4, <1>6, <1>7, <3>1, <3>2
    <3>3. CASE ~ (k < Len(w))
      <4>1. conn'[o].state = "kConnected" => Open(conn, o)
        BY <1>0, <1>6, <1>7, <2>2 DEF Open
      <4>2. Open(conn, o) => "in" \in conn'[o].events
        BY <1>6, <1>7, <3>3
      <4> QED BY <3>1, <4>1, <4>2
    <3> QED BY <3>2, <3>3
  <2> QED BY <1>0, <1>6, <1>7, <2>1, <2>2 DEF Interest, o
<1>12. ASSUME Towards(conn, sock, c, <<>>) PROVE Towards(conn', sock', c, <<>>)
  <2>1. FlowTypes(Nat, HostIn(c), got[c], sock[c].snd, w, <<>>,
                  conn[o].input, sock[o].rcv, sent[o])
    BY <1>1, TowardsTypes, EmptySeq DEF o, w
  <2>2. Flow(HostIn(c), got[c], t, rest, <<>>, conn[o].input, sock[o].rcv, sent[o],
             conn[c].state, sock[c].link)
    BY <1>3, <1>12, <2>1, FlowFlush DEF Towards, o, a, rest, t, w
  <2> QED BY <1>0, <1>6, <1>7, <1>8, <2>2 DEF Towards, o
<1>13. ASSUME Towards(conn, sock, o, <<>>) PROVE Towards(conn', sock', o, <<>>)
  BY <1>0, <1>6, <1>7, <1>8, <1>13 DEF Towards
<1>14. /\ Towards(conn', sock', "back", <<>>)
       /\ life'["back"] # "none" => Towards(conn', sock', "front", <<>>)
  BY <1>0, <1>1, <1>6, <1>12, <1>13
<1>15. Answers(conn', sock', life')
  <2>1. CASE c = "back"
    BY <1>0, <1>1, <1>6, <1>7, <1>8, <2>1 DEF Answers, Answer
  <2>2. CASE c = "front" /\ life["back"] # "none"
    <3>1. OwnByte \notin Range(w)
      BY <1>1, <2>2 DEF Answers, w
    <3>2. OwnByte \notin Range(<<>> \o rest)
      <4>1. <<>> \in Seq(Nat) /\ OwnByte \notin Range(<<>>)
        BY EmptySeq DEF Range
      <4> QED BY <1>2, <1>3, <3>1, <4>1, RangeAppend DEF rest
    <3>3. <<>> \o rest = rest
      BY <1>4, ConcatEmptySeq
    <3> QED BY <1>6, <1>7, <2>2, <3>2, <3>3 DEF Answers
  <2>3. CASE c = "front" /\ life["back"] = "none"
    <3>1. w = <<>>
      BY <1>1, <2>3 DEF Answers, Answer, w
    <3>2. Len(w) = 0
      BY <3>1, EmptySeq
    <3>3. k = 0 /\ Len(a) = 0 /\ rest = <<>>
      BY <1>3, <1>4, <3>2
    <3>4. a = <<>> /\ t = sock[c].snd
      BY <1>2, <1>4, <3>3, EmptySeq, ConcatEmptySeq DEF t
    <3> QED BY <1>1, <1>6, <1>7, <1>8, <2>3, <3>1, <3>3, <3>4 DEF Answers, Answer
  <2> QED BY <2>1, <2>2, <2>3 DEF Conn
<1>16. HeadFirst(conn', sock', life', <<>>)
  <2>1. Passed(conn', sock', "back") = Passed(conn, sock, "back")
    <3>1. CASE c = "front"
      BY <1>0, <1>6, <1>7, <1>8, <3>1 DEF Passed
    <3>2. CASE c = "back"
      <4> DEFINE g == Len(got["back"])
                 m == Len(sock["back"].snd)
                 l == Len(w)
      <4>1. g \in Nat /\ m \in Nat /\ l \in Nat /\ k \in Nat
        BY <1>0, <1>2, <1>4, <3>2, LenProperties
      <4>2. Passed(conn', sock', "back") = g + (m + k) + (l - k)
        BY <1>4, <1>5, <1>6, <1>7, <1>8, <3>2 DEF Passed
      <4>3. Passed(conn, sock, "back") = g + m + l
        BY <3>2 DEF Passed, w
      <4> HIDE DEF g, m, l
      <4> QED BY <4>1, <4>2, <4>3
    <3> QED BY <3>1, <3>2 DEF Conn
  <2> QED BY <1>0, <1>1, <1>6, <1>7, <1>8, <2>1 DEF HeadFirst
<1>17. Consistent(conn', sock', life', <<>>, <<>>)
  BY <1>1, <1>6, <1>7, <1>8, <1>9, <1>10, <1>11, <1>14, <1>15, <1>16 DEF Consistent
<1>18. /\ Sinks(conn, conn') /\ Ages(life, life')
       /\ \A d \in Conn : sock'[d].link = sock[d].link
  BY <1>0, <1>6, <1>7, <1>8 DEF Sinks, Ages
<1> QED BY <1>6, <1>17, <1>18 DEF Ends

-----------------------------------------------------------------------------
(* From a step of the connections to a step of the whole.                  *)

LoopType ==
    /\ phase \in {"functors", "poll", "events"}
    /\ batch \in [Conn -> SUBSET Events] /\ current \in Conn /\ todo \in SUBSET Events

HandlerType ==
    /\ backend_connected_ \in BOOLEAN /\ first_byte_received_ \in BOOLEAN
    /\ initial \in {"none", "queued", "armed"}
    /\ idleHeld \in BOOLEAN /\ orphans \in 0 .. MaxOrphans
    /\ deferred \in Seq({"addTimer", "createBackend"})
    /\ waiting_for_initial_data_ \in BOOLEAN /\ route \in Routes /\ opened \in Nat

PeerType ==
    /\ sent \in [Conn -> Nat] /\ \A c \in Conn : sent[c] <= MaxBytes[c]
    /\ got \in [Conn -> Seq(Nat)]

\* The type invariant, part by part.
LEMMA TypeParts ==
    TypeOK <=> /\ handler_ \in Handlers
               /\ conn \in ConnShape /\ life \in LifeShape /\ sock \in SockShape
               /\ removals \in 0 .. 2
               /\ fault \in {"none", "useAfterFree", "sigpipe", "notDisconnected",
                             "notErased", "eventsLeft"}
               /\ \A c \in Conn : Len(sock[c].snd) <= SendSpace
               /\ LoopType /\ HandlerType /\ PeerType
BY DEF TypeOK, ConnShape, LifeShape, SockShape, LoopType, HandlerType, PeerType

\* What is consistent between two callbacks is so after a step of the worker.
LEMMA Unmoved ==
    ASSUME handler_' = handler_, route' = route, sent' = sent, got' = got,
           Consistent(conn', sock', life', <<>>, <<>>)
    PROVE  Consistent(conn, sock, life, <<>>, <<>>)'
<1>1. /\ Made(conn, sock, life)' <=> Made(conn', sock', life')
      /\ Interest(conn, life)' <=> Interest(conn', life')
      /\ Answers(conn, sock, life)' <=> Answers(conn', sock', life')
      /\ HeadFirst(conn, sock, life, <<>>)' <=> HeadFirst(conn', sock', life', <<>>)
  BY DEF Made, Interest, Answers, Answer, HeadFirst, Passed, Http
<1>2. ASSUME NEW c \in Conn
      PROVE  Towards(conn, sock, c, <<>>)' <=> Towards(conn', sock', c, <<>>)
  BY DEF Towards, HostIn, Http
<1> QED BY <1>1, <1>2 DEF Consistent, Conn

\* No connection is reopened: NeverReopened for one step.
Stays(cs, ds) ==
    \A c \in Conn :
        /\ cs[c].state = "kDisConnected" => ds[c].state = "kDisConnected"
        /\ cs[c].state = "kDisConnecting" => ds[c].state # "kConnected"

\* A callback that the worker ran keeps the invariant when it ends as Ends
\* says, cs being the connections as it found them or made them.
LEMMA CallbackKeeps ==
    ASSUME RelayInv, handler_' = handler_, sent' = sent, got' = got,
           route' = route, opened' = opened,
           waiting_for_initial_data_' = waiting_for_initial_data_,
           deferred' = deferred, HandlerType',
           NEW cs, NEW ks, Ends(cs, ks), Stays(conn, cs),
           \A c \in Conn : ks[c].link = sock[c].link,
           cs["back"].state = "kConnecting" => conn["back"].state = "kConnecting",
           cs["back"].state = "kConnecting" => backend_connected_' = backend_connected_,
           fault = "none", life["front"] # "none",
           phase' = phase, batch' = batch, todo' \subseteq todo, current' \in Conn,
           todo' # {} => current' = current
    PROVE  RelayInv' /\ Stays(conn, conn')
<1>1. /\ Consistent(conn', sock', life', <<>>, <<>>) /\ Sinks(cs, conn')
      /\ Ages(life, life') /\ removals' \in 0 .. 2
      /\ \A c \in Conn : sock'[c].link = sock[c].link
      /\ fault' \in {fault, "eventsLeft", "notDisconnected", "sigpipe"}
  BY DEF Ends
<1>2. /\ conn' \in ConnShape /\ sock' \in SockShape /\ life' \in LifeShape
      /\ \A c \in Conn : Len(sock'[c].snd) <= SendSpace
  BY <1>1 DEF Consistent
<1>3. "front" \in Conn /\ "back" \in Conn
  BY DEF Conn
<1>4. TypeOK'
  <2>1. LoopType /\ PeerType /\ handler_ \in Handlers
    BY TypeParts DEF RelayInv
  <2>2. LoopType' /\ PeerType'
    BY <2>1 DEF LoopType, PeerType
  <2> QED BY <1>1, <1>2, <2>1, <2>2
           DEF TypeOK, ConnShape, SockShape, LifeShape, LoopType, PeerType, HandlerType
<1>5. Quiet'
  BY <1>1, <1>3 DEF RelayInv, Quiet, Ages
<1>6. \A c \in Conn : life'[c] = "none" <=> life[c] = "none"
  BY <1>1 DEF Ages
<1>7. Routed'
  <2>1. conn'["back"].state = "kConnecting" => cs["back"].state = "kConnecting"
    BY <1>1, <1>3 DEF Sinks
  <2> QED BY <1>3, <1>6, <2>1 DEF RelayInv, Routed, Http
<1>8. Consistent(conn, sock, life, <<>>, <<>>)'
  BY <1>1, Unmoved
<1>9. Stays(conn, conn')
  BY <1>1 DEF Sinks, Stays
<1> QED BY <1>4, <1>5, <1>7, <1>8, <1>9 DEF RelayInv

\* A step of the worker that leaves the handlers' own state as it is, but for
\* the timers.
HandlersRest ==
    /\ handler_' = handler_ /\ route' = route /\ opened' = opened
    /\ waiting_for_initial_data_' = waiting_for_initial_data_
    /\ deferred' = deferred /\ backend_connected_' = backend_connected_
    /\ HandlerType'

\* A callback is called on a connection that exists.
LEMMA CalledOnLive ==
    ASSUME RelayInv, todo # {}
    PROVE  /\ life[current] # "none" /\ sock[current].link # "pending"
           /\ life["front"] # "none" /\ current \in Conn
           /\ removals \in 0 .. 2 /\ sent \in [Conn -> Nat] /\ got \in [Conn -> Seq(Nat)]
<1>1. current \in Conn /\ removals \in 0 .. 2
      /\ sent \in [Conn -> Nat] /\ got \in [Conn -> Seq(Nat)]
  BY DEF RelayInv, TypeOK
<1> QED BY <1>1 DEF RelayInv, Quiet, Conn

\* The callback for e returns to handleEvent.
LEMMA FinishIs ==
    ASSUME RelayInv, NEW e, Finish(e)
    PROVE  /\ phase' = phase /\ batch' = batch /\ todo' \subseteq todo
           /\ current' \in Conn /\ (todo' # {} => current' = current)
           /\ sent' = sent /\ got' = got
BY DEF Finish, RelayInv, TypeOK, Conn

\* A callback that changes a socket's error flag at most.
LEMMA SameEnds ==
    ASSUME RelayInv, conn' = conn, life' = life, removals' = removals,
           sock' \in SockShape, SameData(sock, sock'),
           \A c \in Conn : life[c] = "none" => sock'[c] = sock[c],
           fault' \in {fault, "eventsLeft", "notDisconnected", "sigpipe"}
    PROVE  Ends(conn, sock)
<1>1. /\ Consistent(conn, sock, life, <<>>, <<>>) /\ conn \in ConnShape
      /\ life \in LifeShape /\ removals \in 0 .. 2
  BY TypeParts DEF RelayInv
<1>2. Lowered(conn, conn) /\ Ages(life, life) /\ Sinks(conn, conn)
  BY DEF Lowered, Ages, Sinks
<1>3. Consistent(conn, sock', life, <<>>, <<>>)
  BY <1>1, <1>2, LoweredKeeps
<1> QED BY <1>1, <1>2, <1>3 DEF Ends, SameData

\* handleEvent finds an error and closes.
LEMMA ErrorKeeps ==
    ASSUME RelayInv, fault = "none", HandlersRest, NEW c \in Conn, HandleError(c)
    PROVE  RelayInv' /\ Stays(conn, conn')
<1>1. /\ Finish("err") /\ HandleClose(conn, c) /\ sock' = sock
      /\ todo # {} /\ current = c
  BY DEF HandleError
<1>2. SameData(sock, sock) /\ sock \in SockShape /\ Stays(conn, conn)
  BY TypeParts DEF SameData, Stays, RelayInv
<1>3. Ends(conn, sock)
  BY <1>1, <1>2, CalledOnLive, CloseEnds DEF RelayInv
<1> QED BY <1>1, <1>2, <1>3, CalledOnLive, FinishIs, CallbackKeeps DEF HandlersRest

\* handleRead comes to its end: nothing left, or the end of the stream.
LEMMA ReadEndsKeeps ==
    ASSUME RelayInv, fault = "none", HandlersRest, NEW c \in Conn, ReadEnds(c)
    PROVE  RelayInv' /\ Stays(conn, conn')
<1>1. /\ Finish("in") /\ sock' = [sock EXCEPT ![c].err = FALSE]
      /\ todo # {} /\ current = c
      /\ HandleClose(conn, c) \/ UNCHANGED objectVars
  BY DEF ReadEnds, Reading
<1>2. sock \in SockShape /\ Stays(conn, conn)
  BY TypeParts DEF Stays, RelayInv
<1>3. /\ sock' \in SockShape /\ SameData(sock, sock')
      /\ sock'[Other(c)] = sock[Other(c)]
      /\ \A d \in Conn : life[d] = "none" => sock'[d] = sock[d]
  BY <1>1, <1>2, CalledOnLive DEF SockShape, SameData, Other, Conn
<1>4. Ends(conn, sock)
  <2>1. CASE HandleClose(conn, c)
    BY <1>1, <1>3, <2>1, CalledOnLive, CloseEnds DEF RelayInv
  <2>2. CASE UNCHANGED objectVars
    BY <1>3, <2>2, SameEnds DEF objectVars
  <2> QED BY <1>1, <2>1, <2>2
<1> QED BY <1>1, <1>2, <1>4, CalledOnLive, FinishIs, CallbackKeeps DEF HandlersRest

\* handleWrite, in each of its outcomes.
LEMMA HandleWriteKeeps ==
    ASSUME RelayInv, fault = "none", HandlersRest, NEW c \in Conn, HandleWrite(c)
    PROVE  RelayInv' /\ Stays(conn, conn')
<1>1. /\ Finish("out") /\ todo # {} /\ current = c /\ life[c] = "live"
      /\ conn[c].state # "kConnecting"
  BY DEF HandleWrite, Writing
<1>2. sock \in SockShape /\ Stays(conn, conn) /\ SameData(sock, sock)
  BY TypeParts DEF Stays, RelayInv, SameData
<1>3. Ends(conn, sock)
  <2>1. CASE UNCHANGED <<objectVars, sock>>
    BY <1>2, <2>1, SameEnds DEF objectVars
  <2>2. CASE /\ "out" \in conn[c].events /\ sock[c].link = "up"
             /\ LET n == Accepted(c, conn[c].output)
                IN  Leaves(AfterWrite(c, n),
                        [sock EXCEPT ![c].snd = @ \o SubSeq(conn[c].output, 1, n)])
    BY <1>1, <2>2, CalledOnLive, FlushEnds DEF RelayInv
  <2>3. CASE sock' = [sock EXCEPT ![c].err = FALSE] /\ HandleClose(conn, c)
    <3>1. /\ sock' \in SockShape /\ SameData(sock, sock')
          /\ sock'[Other(c)] = sock[Other(c)]
      BY <1>2, <2>3 DEF SockShape, SameData, Other, Conn
    <3> QED BY <1>1, <2>3, <3>1, CalledOnLive, CloseEnds DEF RelayInv
  <2>4. CASE fault' = "sigpipe" /\ UNCHANGED <<conn, life, removals, sock>>
    BY <1>2, <2>4, SameEnds
  <2> QED BY <2>1, <2>2, <2>3, <2>4 DEF HandleWrite, HasToWrite
<1> QED BY <1>1, <1>2, <1>3, CalledOnLive, FinishIs, CallbackKeeps DEF HandlersRest

\* A step outside the callbacks, which closes connections at most.
LEMMA ControlKeeps ==
    ASSUME RelayInv, handler_' = handler_, route' = route, opened' = opened,
           waiting_for_initial_data_' = waiting_for_initial_data_,
           backend_connected_' = backend_connected_, HandlerType',
           sent' = sent, got' = got, sock' = sock,
           conn' \in ConnShape, Lowered(conn, conn'), Sinks(conn, conn'),
           \A c \in Conn : life'[c] = "none" => conn'[c] = conn[c],
           life' \in LifeShape, Ages(life, life'), removals' \in 0 .. 2,
           fault' \in {fault, "useAfterFree", "notDisconnected", "notErased"},
           life["front"] # "none", LoopType',
           \A c \in Conn : life[c] = "none" \/ sock[c].link = "pending" =>
               batch'[c] = {} /\ (todo' # {} => current' # c),
           deferred' = deferred \/ (deferred # <<>> /\ deferred' = Tail(deferred))
    PROVE  RelayInv' /\ Stays(conn, conn')
<1>1. /\ Consistent(conn, sock, life, <<>>, <<>>) /\ sock \in SockShape
      /\ SameData(sock, sock) /\ "front" \in Conn /\ "back" \in Conn
  BY TypeParts DEF RelayInv, SameData, Conn
<1>2. \A c \in Conn : life'[c] = "none" => conn'[c] = conn[c] /\ sock[c] = sock[c]
  OBVIOUS
<1>3. Consistent(conn', sock', life', <<>>, <<>>)
  BY <1>1, <1>2, LoweredKeeps
<1>4. \A c \in Conn : life'[c] = "none" <=> life[c] = "none"
  BY DEF Ages
<1>5. TypeOK'
  <2>1. handler_ \in Handlers /\ fault' \in {"none", "useAfterFree", "sigpipe",
            "notDisconnected", "notErased", "eventsLeft"} /\ PeerType
        /\ \A c \in Conn : Len(sock[c].snd) <= SendSpace
    BY TypeParts DEF RelayInv
  <2>2. PeerType'
    BY <2>1 DEF PeerType
  <2> QED BY <1>1, <2>1, <2>2
           DEF TypeOK, ConnShape, SockShape, LifeShape, LoopType, PeerType, HandlerType
<1>6. Quiet'
  BY <1>1, <1>4 DEF RelayInv, Quiet
<1>7. Routed'
  <2>1. deferred' \in {<<>>, <<"addTimer">>, <<"createBackend">>,
                       <<"addTimer", "createBackend">>}
        /\ (deferred = <<>> => deferred' = <<>>)
        /\ (deferred = <<"addTimer">> => deferred' \in {<<>>, <<"addTimer">>})
    <3>1. deferred \in {<<>>, <<"addTimer">>, <<"createBackend">>,
                        <<"addTimer", "createBackend">>}
      BY DEF RelayInv, Routed
    <3>2. /\ Tail(<<"addTimer">>) = <<>> /\ Tail(<<"createBackend">>) = <<>>
          /\ Tail(<<"addTimer", "createBackend">>) = <<"createBackend">>
      OBVIOUS
    <3> QED BY <3>1, <3>2
  <2>2. conn'["back"].state = "kConnecting" => conn["back"].state = "kConnecting"
    BY <1>1 DEF Sinks
  <2> QED BY <1>1, <1>4, <2>1, <2>2 DEF RelayInv, Routed, Http
<1>8. Consistent(conn, sock, life, <<>>, <<>>)'
  BY <1>3, Unmoved
<1>9. Stays(conn, conn')
  BY DEF Sinks, Stays
<1> QED BY <1>5, <1>6, <1>7, <1>8, <1>9 DEF RelayInv

\* What a step keeps when it does not touch the connections.
LEMMA Same ==
    ASSUME RelayInv
    PROVE  /\ conn \in ConnShape /\ Lowered(conn, conn) /\ Sinks(conn, conn)
           /\ sock \in SockShape /\ life \in LifeShape /\ Ages(life, life)
           /\ removals \in 0 .. 2 /\ LoopType /\ HandlerType /\ Stays(conn, conn)
BY TypeParts DEF RelayInv, Lowered, Sinks, Ages, Stays

LoopSteps ==
    \/ EndFunctors \/ Poll \/ EndEvents \/ HandleDestroyed
    \/ \E c \in Conn : HandleEvent(c)

\* The loop itself: no callback runs.
LEMMA LoopKeeps ==
    ASSUME RelayInv, handler_' = handler_, UNCHANGED <<lbVars, httpVars>>, LoopSteps
    PROVE  RelayInv' /\ Stays(conn, conn')
<1>1. /\ route' = route /\ opened' = opened /\ deferred' = deferred
      /\ waiting_for_initial_data_' = waiting_for_initial_data_
      /\ backend_connected_' = backend_connected_ /\ HandlerType'
  BY Same DEF lbVars, httpVars, timerVars, HandlerType
<1>2. /\ LoopType /\ Quiet /\ Made(conn, sock, life)
  BY Same DEF RelayInv, Consistent
<1>3. CASE EndFunctors
  BY <1>1, <1>2, <1>3, Same, ControlKeeps DEF EndFunctors, objectVars, LoopType, Quiet
<1>4. CASE Poll
  <2>1. life["front"] # "none"
    BY <1>2, <1>4 DEF Poll, Quiet
  <2>2. \A c \in Conn : Revents(c) \in SUBSET Events
    BY DEF Revents
  <2>3. \A c \in Conn : life[c] = "none" \/ sock[c].link = "pending" => Revents(c) = {}
    <3>1. ASSUME sock["back"].link = "pending" PROVE Revents("back") = {}
      BY <1>2, <3>1 DEF Made, Revents, Events
    <3>2. \A c \in Conn : sock[c].link = "pending" => c = "back"
      BY <1>2 DEF Made, Conn
    <3>3. \A c \in Conn : life[c] = "none" => Revents(c) = {}
      BY DEF Revents
    <3> QED BY <3>1, <3>2, <3>3
  <2>4. LoopType' /\ \A c \in Conn : batch'[c] = Revents(c)
    BY <1>2, <1>4, <2>2 DEF Poll, LoopType
  <2> QED BY <1>1, <1>2, <1>4, <2>1, <2>3, <2>4, Same, ControlKeeps DEF Poll, objectVars, Quiet
<1>5. CASE EndEvents
  <2>1. life["front"] # "none"
    BY <1>2, <1>5 DEF EndEvents, Quiet
  <2> QED BY <1>1, <1>2, <1>5, <2>1, Same, ControlKeeps DEF EndEvents, objectVars, LoopType, Quiet
<1>6. CASE HandleDestroyed
  <2>1. life["front"] # "none"
    BY <1>6, CalledOnLive DEF HandleDestroyed
  <2> QED BY <1>1, <1>2, <1>6, <2>1, Same, ControlKeeps
           DEF HandleDestroyed, loopVars, LoopType, Quiet
<1>7. CASE \E c \in Conn : HandleEvent(c)
  <2> PICK c \in Conn : HandleEvent(c)
    BY <1>7
  <2>1. life["front"] # "none"
    BY <1>2 DEF HandleEvent, Quiet
  <2>2. LoopType'
    BY <1>2 DEF HandleEvent, LoopType
  <2>3. \A d \in Conn : life[d] = "none" \/ sock[d].link = "pending" =>
            batch'[d] = {} /\ (todo' # {} => current' # d)
    BY <1>2 DEF HandleEvent, Quiet, LoopType
  <2> QED BY <1>1, <2>1, <2>2, <2>3, Same, ControlKeeps DEF HandleEvent
<1> QED BY <1>3, <1>4, <1>5, <1>6, <1>7 DEF LoopSteps

\* A timer is added or fires.
LEMMA TimerKeeps ==
    ASSUME RelayInv, handler_' = handler_, UNCHANGED httpVars,
           AddInitialTimer \/ LBTimers
    PROVE  RelayInv' /\ Stays(conn, conn')
<1>1. /\ route' = route /\ opened' = opened
      /\ waiting_for_initial_data_' = waiting_for_initial_data_
  BY DEF httpVars
<1>2. LoopType /\ Quiet /\ HandlerType /\ "front" \in Conn
  BY Same DEF RelayInv, Conn
<1>3. CASE AddInitialTimer
  <2>1. life["front"] # "none"
    BY <1>2, <1>3 DEF AddInitialTimer, Quiet
  <2>2. deferred' \in Seq({"addTimer", "createBackend"})
    BY <1>2, <1>3 DEF AddInitialTimer, HandlerType
  <2>3. HandlerType'
    BY <1>1, <1>2, <1>3, <2>2 DEF AddInitialTimer, HandlerType
  <2> QED BY <1>1, <1>2, <1>3, <2>1, <2>3, Same, ControlKeeps
           DEF AddInitialTimer, objectVars, loopVars, LoopType, Quiet
<1>4. ASSUME LBTimers PROVE RelayInv' /\ Stays(conn, conn')
  <2>1. HandlerType' /\ deferred' = deferred /\ backend_connected_' = backend_connected_
    <3>1. CASE InitialTimerFires
      BY <1>1, <1>2, <3>1 DEF InitialTimerFires, HandlerType
    <3>2. CASE IdleTimerFires
      <4>0. /\ idleHeld' = FALSE \/ idleHeld' = idleHeld
            /\ orphans' = orphans \/ (orphans > 0 /\ orphans' = orphans - 1)
        BY <3>2, Zenon DEF IdleTimerFires
      <4>1. orphans' \in 0 .. MaxOrphans /\ idleHeld' \in BOOLEAN
        <5>1. orphans \in 0 .. MaxOrphans /\ idleHeld \in BOOLEAN
          BY <1>2 DEF HandlerType
        <5>2. orphans' \in 0 .. MaxOrphans
          BY <4>0, <5>1, MaxOrphansAssumption
        <5>3. idleHeld' \in BOOLEAN
          BY <4>0, <5>1, Zenon
        <5> QED BY <5>2, <5>3
      <4> QED BY <1>1, <1>2, <3>2, <4>1 DEF IdleTimerFires, HandlerType
    <3> QED BY <1>4, <3>1, <3>2 DEF LBTimers
  <2>2. /\ phase = "events" /\ UNCHANGED <<life, removals, loopVars, sock, sent, got>>
        /\ \/ conn' = conn /\ fault' \in {fault, "useAfterFree"}
           \/ life["front"] = "live" /\ conn' = Shutdown(conn, "front") /\ fault' = fault
    BY <1>4 DEF LBTimers, InitialTimerFires, IdleTimerFires
  <2>3. life["front"] # "none"
    BY <1>2, <2>2 DEF Quiet
  <2>4. /\ conn' \in ConnShape /\ Lowered(conn, conn')
        /\ \A c \in Conn : life'[c] = "none" => conn'[c] = conn[c]
    <3>1. CASE conn' = conn
      BY <3>1, Same
    <3>2. CASE conn' = Shutdown(conn, "front")
      BY <1>2, <2>2, <2>3, <3>2, Same, ShutdownIs
    <3> QED BY <2>2, <3>1, <3>2
  <2>5. Sinks(conn, conn')
    BY <2>4, LoweredSinks
  <2> QED BY <1>1, <1>2, <2>1, <2>2, <2>3, <2>4, <2>5, Same, ControlKeeps
           DEF loopVars, LoopType, Quiet
<1> QED BY <1>3, <1>4

\* The main loop erases the connection.
LEMMA EraseKeeps ==
    ASSUME RelayInv, handler_' = handler_, UNCHANGED <<lbVars, httpVars>>, EraseConnection
    PROVE  RelayInv' /\ Stays(conn, conn')
<1>1. /\ route' = route /\ opened' = opened /\ deferred' = deferred
      /\ waiting_for_initial_data_' = waiting_for_initial_data_
      /\ backend_connected_' = backend_connected_ /\ HandlerType'
  BY Same DEF lbVars, httpVars, timerVars, HandlerType
<1>2. LoopType /\ Quiet /\ life \in LifeShape /\ removals \in 0 .. 2
  BY Same DEF RelayInv
<1>3. /\ life["front"] # "none" /\ removals' \in 0 .. 2
      /\ UNCHANGED <<conn, loopVars, sock, sent, got>>
  BY <1>2 DEF EraseConnection, Quiet
<1>4. /\ life' \in LifeShape /\ Ages(life, life')
      /\ fault' \in {fault, "notDisconnected", "notErased"}
  BY <1>2 DEF EraseConnection, LifeShape, Ages
<1> QED BY <1>1, <1>2, <1>3, <1>4, Same, ControlKeeps DEF loopVars, LoopType, Quiet

-----------------------------------------------------------------------------
(* Bytes that are received.                                                *)

\* What the client sent; its socket once that was read, and the connections
\* once it was appended to input_buffer_, or taken from there.
Received == conn["front"].input \o sock["front"].rcv
ReadSock == [sock EXCEPT !["front"].rcv = <<>>]
KeptConn == [conn EXCEPT !["front"].input = @ \o sock["front"].rcv]
TakenConn == [conn EXCEPT !["front"].input = <<>>]

\* handleRead appends what the client's socket holds to input_buffer_.
LEMMA TakeKeeps ==
    ASSUME RelayInv, life["front"] # "none"
    PROVE  /\ Consistent(KeptConn, ReadSock, life, <<>>, <<>>)
           /\ KeptConn["front"].input = Received
           /\ \A c \in Conn : /\ KeptConn[c].state = conn[c].state
                              /\ ReadSock[c].link = sock[c].link
           /\ ReadSock["back"] = sock["back"]
           /\ ReadSock["front"].snd = sock["front"].snd
<1> DEFINE q == conn["front"].input \o sock["front"].rcv
           cs == KeptConn
           ks == ReadSock
<1>1. /\ conn \in ConnShape /\ sock \in SockShape /\ life \in LifeShape
      /\ \A c \in Conn : Len(sock[c].snd) <= SendSpace
      /\ Made(conn, sock, life) /\ Interest(conn, life)
      /\ Towards(conn, sock, "back", <<>>)
      /\ life["back"] # "none" => Towards(conn, sock, "front", <<>>)
      /\ Answers(conn, sock, life) /\ HeadFirst(conn, sock, life, <<>>)
      /\ "front" \in Conn /\ "back" \in Conn
  BY DEF RelayInv, Consistent, Conn
<1>2. /\ q \in Seq(Nat) /\ <<>> \in Seq(Nat) /\ conn["front"].input \in Seq(Nat)
      /\ Len(conn["front"].input) <= Len(q)
  <2>1. conn["front"].input \in Seq(Nat) /\ sock["front"].rcv \in Seq(Nat)
    BY <1>1 DEF ConnShape, SockShape
  <2>2. q \in Seq(Nat) /\ Len(q) = Len(conn["front"].input) + Len(sock["front"].rcv)
    BY <2>1, ConcatProperties
  <2>3. Len(conn["front"].input) \in Nat /\ Len(sock["front"].rcv) \in Nat
    BY <2>1, LenProperties
  <2> DEFINE a == Len(conn["front"].input)
             b == Len(sock["front"].rcv)
             l == Len(q)
  <2>4. l = a + b /\ a \in Nat /\ b \in Nat
    BY <2>2, <2>3
  <2>5. a <= l
    <3> HIDE DEF a, b, l
    <3> QED BY <2>4
  <2>6. <<>> \in Seq(Nat)
    BY EmptySeq
  <2> QED BY <2>1, <2>2, <2>5, <2>6
<1>3. cs = [conn EXCEPT !["front"].input = q]
  BY DEF q, KeptConn
<1>31. ks = [sock EXCEPT !["front"].rcv = <<>>]
  BY DEF ReadSock
<1> HIDE DEF q, cs, ks
<1>4. /\ cs \in ConnShape /\ cs["back"] = conn["back"] /\ cs["front"].input = q
      /\ cs["front"].state = conn["front"].state /\ cs["front"].output = conn["front"].output
      /\ cs["front"].events = conn["front"].events
  BY <1>1, <1>2, <1>3 DEF ConnShape
<1>5. /\ ks \in SockShape /\ ks["back"] = sock["back"] /\ ks["front"].rcv = <<>>
      /\ ks["front"].snd = sock["front"].snd /\ ks["front"].link = sock["front"].link
  BY <1>1, <1>2, <1>31 DEF SockShape
<1>6. \A c \in Conn : /\ Len(ks[c].snd) <= SendSpace /\ ks[c].link = sock[c].link
                      /\ ks[c].snd = sock[c].snd /\ cs[c].state = conn[c].state
                      /\ cs[c].output = conn[c].output /\ cs[c].events = conn[c].events
  BY <1>1, <1>4, <1>5 DEF Conn
<1>7. Made(cs, ks, life)
  BY <1>1, <1>4, <1>5, <1>6 DEF Made, Conn
<1>8. Interest(cs, life)
  BY <1>1, <1>4 DEF Interest, Conn, Other
<1>9. Towards(cs, ks, "back", <<>>)
  <2>1. FlowTypes(Nat, HostIn("back"), got["back"], sock["back"].snd, conn["back"].output,
                  <<>>, conn["front"].input, sock["front"].rcv, sent["front"])
    <3>1. sent \in [Conn -> Nat] /\ got \in [Conn -> Seq(Nat)]
      BY DEF RelayInv, TypeOK
    <3> QED BY <1>1, <1>2, <3>1, TowardsTypes DEF Other
  <2>2. Flow(HostIn("back"), got["back"], sock["back"].snd, conn["back"].output, <<>>,
             q, <<>>, sent["front"], conn["back"].state, sock["back"].link)
    BY <1>1, <2>1, FlowTake DEF Towards, Other, q
  <2> QED BY <1>4, <1>5, <2>2 DEF Towards, Other
<1>10. life["back"] # "none" => Towards(cs, ks, "front", <<>>)
  BY <1>1, <1>4, <1>5 DEF Towards, Other
<1>11. Answers(cs, ks, life)
  BY <1>1, <1>4, <1>5 DEF Answers, Answer
<1>12. HeadFirst(cs, ks, life, <<>>)
  <2>1. Len(conn["front"].input) \in Nat /\ Len(q) \in Nat
    BY <1>2, LenProperties
  <2>2. Passed(cs, ks, "back") = Passed(conn, sock, "back")
    BY <1>4, <1>5 DEF Passed
  <2>3. Len(conn["front"].input) >= HeadLen => Len(q) >= HeadLen
    BY <1>2, <2>1, HeadAssumption
  <2> QED BY <1>1, <1>4, <1>5, <2>2, <2>3 DEF HeadFirst
<1> QED BY <1>1, <1>4, <1>5, <1>6, <1>7, <1>8, <1>9, <1>10, <1>11, <1>12
     DEF Consistent, Received, q, cs, ks

\* input_buffer_ is handed over to the backend's connection, as it is or with
\* its Host line rewritten; or the connect is complete and it is handed over.
LEMMA HandOver ==
    ASSUME sent \in [Conn -> Nat], got \in [Conn -> Seq(Nat)],
           NEW cs, NEW ks, Consistent(cs, ks, life, <<>>, <<>>),
           life["front"] # "none", life["back"] # "none",
           NEW h \in Seq(Nat), Len(h) = Len(cs["front"].input),
           ks["back"].link # "dead" /\ cs["back"].state \in {"kConnecting", "kConnected"}
                /\ Follows(cs["front"].input, Passed(cs, ks, "back"), 0)
              => Follows(h, Passed(cs, ks, "back"), HostIn("back")),
           NEW ds \in ConnShape,
           /\ ds["front"].state = cs["front"].state /\ ds["front"].input = <<>>
           /\ ds["front"].events = cs["front"].events
           /\ ds["front"].output = cs["front"].output,
           \/ ds["back"] = cs["back"] /\ cs["back"].state # "kConnecting"
           \/ /\ cs["back"].state = "kConnecting" /\ ks["back"].link # "pending"
              /\ ds["back"].state = "kConnected" /\ ds["back"].input = cs["back"].input
              /\ ds["back"].output = cs["back"].output
              /\ "out" \notin ds["back"].events /\ "in" \in ds["back"].events
    PROVE  Consistent(ds, ks, life, h, <<>>)
<1>1. /\ cs \in ConnShape /\ ks \in SockShape /\ life \in LifeShape
      /\ \A c \in Conn : Len(ks[c].snd) <= SendSpace
      /\ Made(cs, ks, life) /\ Interest(cs, life)
      /\ Towards(cs, ks, "back", <<>>) /\ Towards(cs, ks, "front", <<>>)
      /\ Answers(cs, ks, life) /\ HeadFirst(cs, ks, life, <<>>)
      /\ "front" \in Conn /\ "back" \in Conn
  BY DEF Consistent, Conn
<1>2. ds["back"].input = cs["back"].input /\ ds["back"].output = cs["back"].output
  OBVIOUS
<1>3. Made(ds, ks, life)
  BY <1>1, <1>2 DEF Made, Conn
<1>4. Interest(ds, life)
  <2>1. cs["back"].state = "kConnecting" => cs["back"].output = <<>>
    BY <1>1 DEF Made
  <2> QED BY <1>1, <1>2, <2>1 DEF Interest, Conn, Other, Closing
<1>5. Towards(ds, ks, "back", h)
  <2> DEFINE g == got["back"]
             s == ks["back"].snd
             w == cs["back"].output
             q == cs["front"].input
             r == ks["front"].rcv
             n == sent["front"]
             x == HostIn("back")
  <2>1. FlowTypes(Nat, x, g, s, w, <<>>, q, r, n)
    BY <1>1, TowardsTypes, EmptySeq DEF Other
  <2>2. Flow(x, g, s, w, <<>>, q, r, n, cs["back"].state, ks["back"].link)
    BY <1>1 DEF Towards, Other
  <2>3. Passed(cs, ks, "back") = Len(g) + Len(s) + Len(w)
    BY DEF Passed
  <2>4. CASE ks["back"].link = "dead" \/ cs["back"].state \notin {"kConnecting", "kConnected"}
    <3> HIDE DEF g, s, w, q, r, n, x
    <3>1. ks["back"].link = "dead" \/ ds["back"].state \notin {"kConnecting", "kConnected"}
      BY <2>4
    <3>2. Flow(x, g, s, w, h, <<>>, r, n, ds["back"].state, ks["back"].link)
      BY <2>2, <3>1, FlowDrop
    <3> QED BY <1>2, <3>2 DEF Towards, Other, g, s, w, q, r, n, x
  <2>5. CASE ks["back"].link # "dead" /\ cs["back"].state \in {"kConnecting", "kConnected"}
    <3> HIDE DEF g, s, w, n, x, r
    <3>1. Flow(x, g, s, w, h, <<>>, r, n, cs["back"].state, ks["back"].link)
      <4>1. Follows(q, Len(g) + Len(s) + Len(w), 0) => Follows(h, Len(g) + Len(s) + Len(w), x)
        BY <2>3, <2>5 DEF x
      <4> HIDE DEF q
      <4> QED BY <2>1, <2>2, <4>1, FlowHold DEF q
    <3>2. Flow(x, g, s, w, h, <<>>, r, n, ds["back"].state, ks["back"].link)
      BY <2>5, <3>1, FlowUp
    <3> QED BY <1>2, <3>2 DEF Towards, Other, g, s, w, q, r, n, x
  <2> QED BY <2>4, <2>5
<1>6. Towards(ds, ks, "front", <<>>)
  BY <1>1, <1>2 DEF Towards, Other
<1>7. Answers(ds, ks, life)
  BY <1>1 DEF Answers
<1>8. HeadFirst(ds, ks, life, h)
  <2> DEFINE g == Len(got["back"])
             s == Len(ks["back"].snd)
             w == Len(cs["back"].output)
             l == Len(h)
  <2>1. g \in Nat /\ s \in Nat /\ w \in Nat /\ l \in Nat
    BY <1>1, LenProperties DEF ConnShape, SockShape
  <2>2. Passed(ds, ks, "back") = g + s + w /\ Passed(cs, ks, "back") = g + s + w
    BY <1>2 DEF Passed
  <2>3. ds["back"].state # "kConnecting"
    OBVIOUS
  <2>4. Len(<<>>) = 0
    BY EmptySeq
  <2>5. ASSUME Http, ds["back"].state = "kConnected", ks["back"].link # "dead"
        PROVE  g + s + w + l >= HeadLen
    <3>1. CASE cs["back"].state = "kConnecting"
      <4>1. l >= HeadLen
        BY <1>1, <2>5, <3>1 DEF HeadFirst
      <4> HIDE DEF g, s, w, l
      <4> QED BY <2>1, <4>1, HeadAssumption
    <3>2. CASE cs["back"].state # "kConnecting"
      <4>1. g + s + w + 0 >= HeadLen
        BY <1>1, <2>2, <2>4, <2>5, <3>2 DEF HeadFirst
      <4> HIDE DEF g, s, w, l
      <4> QED BY <2>1, <4>1, HeadAssumption
    <3> QED BY <3>1, <3>2
  <2> HIDE DEF g, s, w
  <2> QED BY <2>2, <2>3, <2>5 DEF HeadFirst
<1> QED BY <1>1, <1>3, <1>4, <1>5, <1>6, <1>7, <1>8 DEF Consistent

\* What is received from the backend is sent to the client.
LEMMA ReadBackendKeeps ==
    ASSUME RelayInv, fault = "none", HandlersRest, ReadBackend
    PROVE  RelayInv' /\ Stays(conn, conn')
<1> DEFINE r == sock["back"].rcv
           ks == [sock EXCEPT !["back"].rcv = <<>>]
<1>1. /\ todo # {} /\ current = "back" /\ life["back"] = "live" /\ r # <<>>
      /\ Send(conn, ks, "front", r) /\ UNCHANGED <<loopVars, sent, got>>
  BY DEF ReadBackend, Reading
<1>2. /\ conn \in ConnShape /\ sock \in SockShape /\ life \in LifeShape
      /\ \A c \in Conn : Len(sock[c].snd) <= SendSpace
      /\ Made(conn, sock, life) /\ Interest(conn, life)
      /\ Towards(conn, sock, "back", <<>>) /\ Towards(conn, sock, "front", <<>>)
      /\ Answers(conn, sock, life) /\ HeadFirst(conn, sock, life, <<>>)
      /\ "front" \in Conn /\ "back" \in Conn
  BY <1>1 DEF RelayInv, Consistent, Conn
<1>3. /\ life["front"] # "none" /\ removals \in 0 .. 2
      /\ sent \in [Conn -> Nat] /\ got \in [Conn -> Seq(Nat)]
      /\ sock["back"].link # "pending"
  BY <1>1, CalledOnLive
<1>4. r \in Seq(Nat) /\ <<>> \in Seq(Nat)
  BY <1>2, EmptySeq DEF SockShape
<1>5. /\ ks \in SockShape /\ ks["front"] = sock["front"] /\ ks["back"].rcv = <<>>
      /\ ks["back"].snd = sock["back"].snd /\ ks["back"].link = sock["back"].link
  BY <1>2, <1>4 DEF SockShape
<1> HIDE DEF ks
<1>6. Towards(conn, sock, "front", <<>>) =
          Flow(0, got["front"], sock["front"].snd, conn["front"].output, <<>>, <<>>,
               r, sent["back"], conn["front"].state, sock["front"].link)
  BY <1>2 DEF Towards, HostIn, Other, Made
<1>7. FlowTypes(Nat, 0, got["front"], sock["front"].snd, conn["front"].output, <<>>,
                <<>>, r, sent["back"])
  <2>1. /\ got["front"] \in Seq(Nat) /\ sock["front"].snd \in Seq(Nat)
        /\ conn["front"].output \in Seq(Nat) /\ sent["back"] \in Nat
    BY <1>2, <1>3 DEF ConnShape, SockShape
  <2> QED BY <1>4, <2>1 DEF FlowTypes
<1>8. Towards(conn, ks, "front", r)
  <2> DEFINE g == got["front"]
             s == sock["front"].snd
             w == conn["front"].output
             n == sent["back"]
             state == conn["front"].state
             link == sock["front"].link
  <2>1. Flow(0, g, s, w, <<>>, <<>>, r, n, state, link) /\ FlowTypes(Nat, 0, g, s, w, <<>>, <<>>, r, n)
    BY <1>2, <1>6, <1>7
  <2>2. <<>> \o r = r
    BY <1>4, ConcatEmptySeq
  <2> HIDE DEF g, s, w, n, state, link, r
  <2>3. Flow(0, g, s, w, <<>>, r, <<>>, n, state, link)
    BY <2>1, <2>2, FlowTake
  <2>4. FlowTypes(Nat, 0, g, s, w, <<>>, r, <<>>, n)
    BY <2>1 DEF FlowTypes
  <2>5. Flow(0, g, s, w, r, <<>>, <<>>, n, state, link)
    BY <2>3, <2>4, FlowHold
  <2> QED BY <1>2, <1>5, <2>5 DEF Towards, HostIn, Other, Made, g, s, w, n, state, link
<1>9. OwnByte \notin Range(r)
  <2>1. Len(r) <= sent["back"] /\ Follows(r, sent["back"] - Len(r), 0)
    BY <1>2, <1>6 DEF Flow
  <2> DEFINE m == sent["back"] - Len(r)
  <2>2. m \in Nat /\ DOMAIN r = 1 .. Len(r) /\ Len(r) \in Nat
    BY <1>3, <1>2, <1>4, <2>1, LenProperties
  <2> HIDE DEF m
  <2>3. ASSUME NEW i \in DOMAIN r PROVE r[i] # OwnByte
    <3>1. r[i] = IF m + i = 0 THEN OwnByte ELSE m + i
      BY <2>1 DEF Follows, m
    <3>2. i \in Nat /\ i >= 1
      BY <2>2
    <3> QED BY <2>2, <3>1, <3>2 DEF OwnByte
  <2> QED BY <2>3 DEF Range
<1>10. Consistent(conn, ks, life, <<>>, r)
  <2>1. \A c \in Conn : Len(ks[c].snd) <= SendSpace /\ ks[c].link = sock[c].link
                        /\ ks[c].snd = sock[c].snd
    BY <1>2, <1>5 DEF Conn
  <2>2. Made(conn, ks, life)
    BY <1>1, <1>2, <1>3, <1>5, <2>1 DEF Made, Conn
  <2>3. Towards(conn, ks, "back", <<>>)
    BY <1>2, <1>5 DEF Towards, Other
  <2>4. Answers(conn, ks, life) /\ HeadFirst(conn, ks, life, <<>>)
    BY <1>2, <1>5 DEF Answers, Answer, HeadFirst, Passed
  <2> QED BY <1>2, <1>5, <1>8, <2>1, <2>2, <2>3, <2>4 DEF Consistent
<1>11. Ends(conn, ks)
  <2>1. conn["front"].state # "kConnecting" /\ ks["front"].snd = sock["front"].snd
    BY <1>2, <1>3, <1>5 DEF Made
  <2>2. /\ "front" \in Conn /\ r \in Seq(Nat) /\ r # <<>> /\ life["back"] # "none"
        /\ Send(conn, ks, "front", r)
        /\ Consistent(conn, ks, life, IF "front" = "back" THEN r ELSE <<>>,
                      IF "front" = "front" THEN r ELSE <<>>)
    BY <1>1, <1>2, <1>4, <1>10
  <2> HIDE DEF r
  <2> QED BY <1>3, <1>9, <2>1, <2>2, SendEnds
<1>12. \A c \in Conn : ks[c].link = sock[c].link
  BY <1>5 DEF Conn
<1>13. /\ phase' = phase /\ batch' = batch /\ todo' \subseteq todo
       /\ current' \in Conn /\ current' = current /\ sent' = sent /\ got' = got
  BY <1>1, <1>2 DEF loopVars
<1> QED BY <1>3, <1>11, <1>12, <1>13, Same, CallbackKeeps DEF HandlersRest

\* What the client sent is forwarded, to a connection that is not connecting.
LEMMA ForwardEnds ==
    ASSUME RelayInv, fault = "none", life["front"] # "none", life["back"] # "none",
           conn["back"].state # "kConnecting", sock["front"].rcv # <<>>,
           Http => conn["back"].state = "kConnected",
           Send(TakenConn, ReadSock, "back", Received)
    PROVE  /\ Ends(TakenConn, ReadSock) /\ Stays(conn, TakenConn)
           /\ TakenConn["back"] = conn["back"]
           /\ \A c \in Conn : ReadSock[c].link = sock[c].link
<1> DEFINE ms == KeptConn
           cs == TakenConn
           ks == ReadSock
           bytes == Received
<1>1. /\ Consistent(ms, ks, life, <<>>, <<>>) /\ ms["front"].input = bytes
      /\ \A c \in Conn : ms[c].state = conn[c].state /\ ks[c].link = sock[c].link
      /\ ks["back"] = sock["back"] /\ ks["front"].snd = sock["front"].snd
  BY TakeKeeps
<1>2. /\ conn \in ConnShape /\ sock \in SockShape /\ removals \in 0 .. 2
      /\ sent \in [Conn -> Nat] /\ got \in [Conn -> Seq(Nat)] /\ <<>> \in Seq(Nat)
      /\ "front" \in Conn /\ "back" \in Conn
  BY TypeParts, EmptySeq DEF RelayInv, PeerType, Conn
<1>3. /\ ms["back"] = conn["back"] /\ ms["front"].state = conn["front"].state
      /\ ms["front"].events = conn["front"].events
      /\ ms["front"].output = conn["front"].output
  BY <1>2 DEF ConnShape, KeptConn
<1> HIDE DEF ms
<1>4. /\ cs \in ConnShape /\ cs["back"] = conn["back"] /\ cs["front"].input = <<>>
      /\ cs["front"].state = conn["front"].state
      /\ cs["front"].events = conn["front"].events
      /\ cs["front"].output = conn["front"].output
  BY <1>2 DEF ConnShape, TakenConn
<1>5. bytes \in Seq(Nat) /\ bytes # <<>>
  <2>1. conn["front"].input \in Seq(Nat) /\ sock["front"].rcv \in Seq(Nat)
    BY <1>2 DEF ConnShape, SockShape
  <2>2. bytes \in Seq(Nat) /\ Len(bytes) = Len(conn["front"].input) + Len(sock["front"].rcv)
    BY <2>1, ConcatProperties DEF Received
  <2>3. Len(conn["front"].input) \in Nat /\ Len(sock["front"].rcv) \in Nat /\ Len(<<>>) = 0
        /\ Len(sock["front"].rcv) > 0
    BY <2>1, EmptySeq, LenProperties
  <2> DEFINE a == Len(conn["front"].input)
             b == Len(sock["front"].rcv)
  <2>4. Len(bytes) = a + b /\ a \in Nat /\ b \in Nat /\ b > 0
    BY <2>2, <2>3
  <2> HIDE DEF a, b
  <2>5. Len(bytes) > 0
    BY <2>4
  <2>6. Received \in Seq(Nat)
    BY <2>2
  <2> HIDE DEF bytes
  <2>7. bytes # <<>>
    BY <2>3, <2>5
  <2> QED BY <2>6, <2>7 DEF bytes
<1>6. /\ ks["back"].link # "dead" /\ ms["back"].state \in {"kConnecting", "kConnected"}
                /\ Follows(ms["front"].input, Passed(ms, ks, "back"), 0)
         => Follows(bytes, Passed(ms, ks, "back"), HostIn("back"))
  <2> DEFINE P == Passed(ms, ks, "back")
  <2>1. ASSUME ks["back"].link # "dead", Follows(bytes, P, 0)
        PROVE  Follows(bytes, P, HostIn("back"))
    <3>1. CASE ~ Http
      BY <2>1, <3>1 DEF HostIn
    <3>2. CASE Http
      <4>1. Passed(ms, ks, "back") + Len(<<>>) >= HeadLen
        BY <1>1, <1>3, <2>1, <3>2 DEF Consistent, HeadFirst
      <4>2. P \in Nat /\ Len(<<>>) = 0
        <5>1. ms["back"].output \in Seq(Nat) /\ ks["back"].snd \in Seq(Nat)
              /\ got["back"] \in Seq(Nat)
          BY <1>1, <1>2 DEF Consistent, ConnShape, SockShape
        <5>2. /\ Len(ms["back"].output) \in Nat /\ Len(ks["back"].snd) \in Nat
              /\ Len(got["back"]) \in Nat
          BY <5>1, LenProperties
        <5> DEFINE g == Len(got["back"])
                   m == Len(ks["back"].snd)
                   w == Len(ms["back"].output)
        <5>3. P = g + m + w
          BY DEF Passed
        <5>4. Len(<<>>) = 0
          BY EmptySeq
        <5> HIDE DEF P, g, m, w
        <5>5. g \in Nat /\ m \in Nat /\ w \in Nat
          BY <5>2 DEF g, m, w
        <5> QED BY <5>3, <5>4, <5>5
      <4> HIDE DEF P
      <4>3. P >= HeadLen
        BY <4>1, <4>2, HeadAssumption DEF P
      <4>4. P >= HostAt /\ HostAt \in Nat
        BY <4>2, <4>3, HeadAssumption
      <4> QED BY <1>5, <2>1, <3>2, <4>2, <4>4, FollowsPast DEF HostIn
    <3> QED BY <3>1, <3>2
  <2> QED BY <1>1, <2>1
<1>7. Consistent(cs, ks, life, bytes, <<>>)
  <2>1. /\ cs \in ConnShape /\ bytes \in Seq(Nat) /\ Len(bytes) = Len(ms["front"].input)
        /\ cs["front"].state = ms["front"].state /\ cs["front"].input = <<>>
        /\ cs["front"].events = ms["front"].events
        /\ cs["front"].output = ms["front"].output
        /\ cs["back"] = ms["back"] /\ ms["back"].state # "kConnecting"
    BY <1>1, <1>3, <1>4, <1>5
  <2> QED BY <1>1, <1>2, <1>6, <2>1, HandOver
<1>8. Ends(cs, ks)
  <2>1. /\ cs["back"].state # "kConnecting" /\ ks["back"].snd = sock["back"].snd
        /\ Consistent(cs, ks, life, IF "back" = "back" THEN bytes ELSE <<>>,
                      IF "back" = "front" THEN bytes ELSE <<>>)
    BY <1>1, <1>4, <1>7
  <2> QED BY <1>2, <1>5, <2>1, SendEnds
<1>9. Stays(conn, cs)
  BY <1>2, <1>4 DEF Stays, Conn
<1> QED BY <1>1, <1>4, <1>8, <1>9

\* A connect that is complete sends on what the client sent meanwhile; one that
\* failed closes the connection.
LEMMA ConnectKeeps ==
    ASSUME RelayInv, fault = "none", handler_' = handler_, route' = route,
           opened' = opened, waiting_for_initial_data_' = waiting_for_initial_data_,
           deferred' = deferred, HandlerType',
           sock["back"].err => backend_connected_' = backend_connected_,
           NEW bytes, ConnectCompletes(bytes),
           bytes = IF Http THEN Modified(conn["front"].input) ELSE conn["front"].input
    PROVE  RelayInv' /\ Stays(conn, conn')
<1>1. /\ Finish("out") /\ todo # {} /\ current = "back" /\ life["back"] = "live"
      /\ conn["back"].state = "kConnecting"
  BY DEF ConnectCompletes, Writing
<1>2. /\ life["front"] # "none" /\ removals \in 0 .. 2
      /\ sent \in [Conn -> Nat] /\ got \in [Conn -> Seq(Nat)]
      /\ sock["back"].link # "pending" /\ "front" \in Conn /\ "back" \in Conn
  BY <1>1, CalledOnLive DEF Conn
<1>3. /\ conn \in ConnShape /\ sock \in SockShape /\ Made(conn, sock, life)
      /\ Consistent(conn, sock, life, <<>>, <<>>) /\ Stays(conn, conn)
  BY Same DEF RelayInv, Consistent
<1>4. CASE sock["back"].err
  <2>1. CloseBack(conn) /\ sock' = [sock EXCEPT !["back"].err = FALSE]
    BY <1>4 DEF ConnectCompletes
  <2>2. /\ sock' \in SockShape /\ SameData(sock, sock')
        /\ sock'[Other("back")] = sock[Other("back")]
    BY <1>2, <1>3, <2>1 DEF SockShape, SameData, Other, Conn
  <2>3. Ends(conn, sock)
    BY <1>1, <1>2, <1>3, <2>1, <2>2, CloseEnds DEF HandleClose
  <2> QED BY <1>1, <1>2, <1>3, <1>4, <2>3, FinishIs, CallbackKeeps
<1>5. CASE ~ sock["back"].err
  <2> DEFINE up == Enable(Disable([conn EXCEPT !["back"].state = "kConnected"],
                                  "back", "out"), "back", "in")
             cs == [up EXCEPT !["front"].input = <<>>]
             q == conn["front"].input
  <2>1. IF bytes # <<>> THEN Send(cs, sock, "back", bytes) ELSE Leaves(up, sock)
    BY <1>5 DEF ConnectCompletes
  <2>2. /\ up \in ConnShape /\ up["front"] = conn["front"]
        /\ up["back"].state = "kConnected" /\ up["back"].input = conn["back"].input
        /\ up["back"].output = conn["back"].output
        /\ "out" \notin up["back"].events /\ "in" \in up["back"].events
    <3> DEFINE made == [conn EXCEPT !["back"].state = "kConnected"]
               mute == Disable(made, "back", "out")
    <3>1. /\ made \in ConnShape /\ made["front"] = conn["front"]
          /\ made["back"].state = "kConnected" /\ made["back"].input = conn["back"].input
          /\ made["back"].output = conn["back"].output
      BY <1>2, <1>3 DEF ConnShape, States
    <3> HIDE DEF made
    <3>2. /\ mute \in ConnShape /\ mute["front"] = conn["front"]
          /\ mute["back"].state = "kConnected" /\ mute["back"].input = conn["back"].input
          /\ mute["back"].output = conn["back"].output /\ "out" \notin mute["back"].events
      BY <1>2, <3>1 DEF ConnShape, Disable
    <3>3. up = Enable(mute, "back", "in")
      BY DEF made
    <3> HIDE DEF mute, up
    <3> QED BY <1>2, <3>2, <3>3 DEF ConnShape, Enable
  <2> HIDE DEF up
  <2>3. /\ cs \in ConnShape /\ cs["back"] = up["back"] /\ cs["front"].input = <<>>
        /\ cs["front"].state = conn["front"].state
        /\ cs["front"].events = conn["front"].events
        /\ cs["front"].output = conn["front"].output
    BY <1>2, <2>2, EmptySeq DEF ConnShape
  <2> HIDE DEF cs
  <2>4. q \in Seq(Nat) /\ bytes \in Seq(Nat) /\ Len(bytes) = Len(q)
        /\ (Follows(q, 0, 0) => Follows(bytes, 0, HostIn("back")))
    <3>1. q \in Seq(Nat)
      BY <1>2, <1>3 DEF ConnShape
    <3>2. CASE Http
      <4>1. OwnByte \in Nat
        BY DEF OwnByte
      <4> HIDE DEF q
      <4> QED BY <3>1, <3>2, <4>1, ModifiedFollows DEF HostIn, q
    <3>3. CASE ~ Http
      BY <3>1, <3>3 DEF HostIn
    <3> QED BY <3>2, <3>3
  <2>5. Passed(conn, sock, "back") = 0
    <3>1. Len(<<>>) = 0
      BY EmptySeq
    <3>2. conn["back"].output = <<>> /\ sock["back"].snd = <<>> /\ got["back"] = <<>>
      BY <1>1, <1>3 DEF Made
    <3> QED BY <3>1, <3>2 DEF Passed
  <2>6. /\ Stays(conn, up) /\ Stays(conn, cs)
        /\ up["back"].state # "kConnecting" /\ cs["back"].state # "kConnecting"
    BY <1>1, <2>2, <2>3 DEF Stays, Conn
  <2>7. CASE bytes # <<>>
    <3>1. Consistent(cs, sock, life, bytes, <<>>)
      <4>1. /\ cs["front"].state = conn["front"].state /\ cs["front"].input = <<>>
            /\ cs["front"].events = conn["front"].events
            /\ cs["front"].output = conn["front"].output
            /\ conn["back"].state = "kConnecting" /\ sock["back"].link # "pending"
            /\ cs["back"].state = "kConnected" /\ cs["back"].input = conn["back"].input
            /\ cs["back"].output = conn["back"].output
            /\ "out" \notin cs["back"].events /\ "in" \in cs["back"].events
        BY <1>1, <1>2, <2>2, <2>3
      <4> QED BY <1>1, <1>2, <1>3, <2>3, <2>4, <2>5, <4>1, HandOver
    <3>2. Ends(cs, sock)
      <4>1. /\ cs["back"].state # "kConnecting" /\ sock["back"].snd = sock["back"].snd
            /\ Consistent(cs, sock, life, IF "back" = "back" THEN bytes ELSE <<>>,
                          IF "back" = "front" THEN bytes ELSE <<>>)
            /\ Send(cs, sock, "back", bytes)
        BY <2>1, <2>6, <2>7, <3>1
      <4> QED BY <1>1, <1>2, <2>4, <2>7, <4>1, SendEnds
    <3> QED BY <1>1, <1>2, <2>6, <3>2, FinishIs, CallbackKeeps
  <2>8. CASE bytes = <<>>
    <3>1. Leaves(up, sock)
      BY <2>1, <2>8
    <3>2. q = <<>>
      <4>1. Len(q) = 0
        BY <2>4, <2>8, EmptySeq
      <4> QED BY <2>4, <4>1, EmptySeq
    <3>3. Consistent(up, sock, life, <<>>, <<>>)
      <4>1. /\ up["front"].state = conn["front"].state /\ up["front"].input = <<>>
            /\ up["front"].events = conn["front"].events
            /\ up["front"].output = conn["front"].output
            /\ conn["back"].state = "kConnecting" /\ sock["back"].link # "pending"
            /\ up["back"].state = "kConnected" /\ up["back"].input = conn["back"].input
            /\ up["back"].output = conn["back"].output
            /\ "out" \notin up["back"].events /\ "in" \in up["back"].events
        BY <1>1, <1>2, <2>2, <3>2
      <4>2. bytes = <<>>
        BY <2>8
      <4>3. Consistent(up, sock, life, bytes, <<>>)
        BY <1>1, <1>2, <1>3, <2>2, <2>4, <2>5, <4>1, HandOver
      <4> QED BY <4>2, <4>3
    <3>4. Ends(up, sock)
      <4>1. /\ conn' = up /\ sock' = sock /\ life' = life /\ removals' = removals
            /\ fault' = fault
        BY <3>1 DEF Leaves
      <4> QED BY <1>2, <3>3, <4>1 DEF Ends, Sinks, Ages
    <3> QED BY <1>1, <1>2, <2>6, <3>4, FinishIs, CallbackKeeps
  <2> QED BY <2>7, <2>8
<1> QED BY <1>4, <1>5

\* Bytes of the client's are kept, and only that.
LEMMA KeepEnds ==
    ASSUME RelayInv, life["front"] # "none", Leaves(KeptConn, ReadSock)
    PROVE  Ends(KeptConn, ReadSock)
<1>1. Consistent(KeptConn, ReadSock, life, <<>>, <<>>) /\ removals \in 0 .. 2
  BY TakeKeeps, Same
<1>2. /\ conn' = KeptConn /\ sock' = ReadSock /\ life' = life /\ removals' = removals
      /\ fault' = fault
  BY DEF Leaves
<1> QED BY <1>1, <1>2 DEF Ends, Sinks, Ages

\* The timers after a message are typed.
LEMMA OnMessageTypes ==
    ASSUME HandlerType, OnMessageTimers,
           UNCHANGED <<backend_connected_, deferred, httpVars>>
    PROVE  HandlerType'
<1>1. initial' \in {"none", "queued", "armed"}
  BY DEF OnMessageTimers, Cancelled, HandlerType
<1>2. orphans' \in 0 .. MaxOrphans
  <2>1. \/ orphans' = orphans
        \/ orphans' \in {orphans, orphans + 1} /\ orphans' <= MaxOrphans
    BY Zenon DEF OnMessageTimers
  <2>2. orphans \in 0 .. MaxOrphans
    BY DEF HandlerType
  <2> QED BY <2>1, <2>2, MaxOrphansAssumption
<1>3. first_byte_received_' = TRUE /\ idleHeld' = TRUE
  BY DEF OnMessageTimers
<1> QED BY <1>1, <1>2, <1>3 DEF HandlerType, httpVars

\* The message callback of either handler once it does not wait for a request:
\* the bytes are forwarded or kept.
LEMMA OnMessageKeeps ==
    ASSUME RelayInv, fault = "none", HandlersRest,
           UNCHANGED <<loopVars, sent, got>>, todo # {}, current = "front",
           sock["front"].rcv # <<>>,
           \/ /\ life["back"] # "none" /\ conn["back"].state # "kConnecting"
              /\ Http => conn["back"].state = "kConnected"
              /\ Send(TakenConn, ReadSock, "back", Received)
           \/ Leaves(KeptConn, ReadSock)
    PROVE  RelayInv' /\ Stays(conn, conn')
<1>1. /\ life["front"] # "none" /\ phase' = phase /\ batch' = batch /\ todo' \subseteq todo
      /\ current' \in Conn /\ current' = current /\ sent' = sent /\ got' = got
  BY CalledOnLive DEF loopVars
<1>2. \A c \in Conn : ReadSock[c].link = sock[c].link /\ KeptConn[c].state = conn[c].state
  BY <1>1, TakeKeeps
<1>3. CASE /\ life["back"] # "none" /\ conn["back"].state # "kConnecting"
           /\ Http => conn["back"].state = "kConnected"
           /\ Send(TakenConn, ReadSock, "back", Received)
  <2>1. /\ Ends(TakenConn, ReadSock) /\ Stays(conn, TakenConn)
        /\ TakenConn["back"] = conn["back"]
    BY <1>1, <1>3, ForwardEnds
  <2> QED BY <1>1, <1>2, <1>3, <2>1, CallbackKeeps DEF HandlersRest
<1>4. CASE Leaves(KeptConn, ReadSock)
  <2>1. Ends(KeptConn, ReadSock)
    BY <1>1, <1>4, KeepEnds
  <2>2. Stays(conn, KeptConn) /\ KeptConn["back"].state = conn["back"].state
    BY <1>2 DEF Stays, Conn
  <2> QED BY <1>1, <1>2, <2>1, <2>2, CallbackKeeps DEF HandlersRest
<1> QED BY <1>3, <1>4

\* LoadBalancerHandler reads from its client.
LEMMA ReadClientKeeps ==
    ASSUME RelayInv, fault = "none", handler_ = "LoadBalancerHandler",
           handler_' = handler_, UNCHANGED httpVars, ReadClient
    PROVE  RelayInv' /\ Stays(conn, conn')
<1>1. /\ todo # {} /\ current = "front" /\ sock["front"].rcv # <<>>
      /\ OnMessageTimers /\ UNCHANGED <<loopVars, sent, got, backend_connected_, deferred>>
  BY DEF ReadClient, Reading
<1>2. HandlersRest /\ ~ Http
  BY <1>1, Same, OnMessageTypes DEF HandlersRest, httpVars, Http
<1>3. Forwards => life["back"] # "none" /\ conn["back"].state # "kConnecting"
  BY DEF Forwards, RelayInv, Routed
<1>4. IF Forwards THEN Send(TakenConn, ReadSock, "back", Received)
      ELSE Leaves(KeptConn, ReadSock)
  BY DEF ReadClient, TakenConn, ReadSock, Received, KeptConn
<1> QED BY <1>1, <1>2, <1>3, <1>4, OnMessageKeeps

\* HttpProxyHandler reads from its client after the first request.
LEMMA ForwardRequestKeeps ==
    ASSUME RelayInv, fault = "none", handler_' = handler_, UNCHANGED lbVars, ReadRequest,
           ~ waiting_for_initial_data_
    PROVE  RelayInv' /\ Stays(conn, conn')
<1>1. /\ todo # {} /\ current = "front" /\ life["front"] = "live"
      /\ sock["front"].rcv # <<>> /\ UNCHANGED <<loopVars, sent, got>>
      /\ ForwardRequest(KeptConn, ReadSock)
  BY DEF ReadRequest, Reading, KeptConn, ReadSock
<1>2. HandlersRest
  BY <1>1, Same DEF HandlersRest, httpVars, lbVars, timerVars, ForwardRequest, HandlerType
<1>3. KeptConn["front"].input = Received
  BY <1>1, TakeKeeps
<1>4. [KeptConn EXCEPT !["front"].input = <<>>] = TakenConn
  BY Same DEF ConnShape, KeptConn, TakenConn
<1>5. CASE BackendReady
  <2>1. life["back"] # "none" /\ conn["back"].state = "kConnected"
    BY <1>5 DEF BackendReady
  <2>2. Send([KeptConn EXCEPT !["front"].input = <<>>], ReadSock, "back",
             KeptConn["front"].input)
    BY <1>1, <1>5 DEF ForwardRequest
  <2>3. Send(TakenConn, ReadSock, "back", Received)
    BY <1>3, <1>4, <2>2
  <2> QED BY <1>1, <1>2, <2>1, <2>3, OnMessageKeeps
<1>6. CASE ~ BackendReady
  <2>1. Leaves(KeptConn, ReadSock)
    BY <1>1, <1>6 DEF ForwardRequest
  <2> QED BY <1>1, <1>2, <2>1, OnMessageKeeps
<1> QED BY <1>5, <1>6

-----------------------------------------------------------------------------
(* A backend's connection is made.                                         *)

\* A backend's connection is made, whatever its connect has done so far.
LEMMA StartedKeeps ==
    ASSUME sent \in [Conn -> Nat], got \in [Conn -> Seq(Nat)],
           NEW cs, NEW ks, Consistent(cs, ks, life, <<>>, <<>>),
           life["front"] # "none", life["back"] = "none",
           got["back"] = <<>>, sent["back"] = 0, Http => route # "none",
           Http => Len(cs["front"].input) >= HeadLen,
           NEW link \in {"pending", "up"}, ConnectStarted(cs, ks, link)
    PROVE  /\ Consistent(conn', sock', life', <<>>, <<>>)
           /\ conn'["back"].state = "kConnecting" /\ conn'["front"] = cs["front"]
           /\ life'["back"] = "live" /\ life'["front"] = life["front"]
           /\ sock'["front"] = ks["front"]
<1>1. /\ cs \in ConnShape /\ ks \in SockShape /\ life \in LifeShape
      /\ \A c \in Conn : Len(ks[c].snd) <= SendSpace
      /\ Made(cs, ks, life) /\ Interest(cs, life)
      /\ Towards(cs, ks, "back", <<>>)
      /\ Answers(cs, ks, life)
      /\ "front" \in Conn /\ "back" \in Conn
  BY DEF Consistent, Conn
<1>2. cs["back"] = NewConn /\ ks["back"] = NewSock
  BY <1>1 DEF Made
<1>3. <<>> \in Seq(Nat) /\ Len(<<>>) = 0
  BY EmptySeq
<1>4. /\ conn' \in ConnShape /\ conn'["front"] = cs["front"]
      /\ conn'["back"].state = "kConnecting" /\ conn'["back"].input = <<>>
      /\ conn'["back"].output = <<>>
  <2> DEFINE made == [cs EXCEPT !["back"] = NewConn]
  <2>1. /\ made \in ConnShape /\ made["front"] = cs["front"] /\ made["back"] = NewConn
    BY <1>1, <1>3 DEF ConnShape, NewConn, States
  <2>2. conn' = Enable(made, "back", "out")
    BY DEF ConnectStarted
  <2> HIDE DEF made
  <2>3. /\ conn' \in ConnShape /\ conn'["front"] = made["front"]
        /\ conn'["back"].state = made["back"].state
        /\ conn'["back"].input = made["back"].input
        /\ conn'["back"].output = made["back"].output
    BY <1>1, <2>1, <2>2 DEF ConnShape, Enable
  <2> QED BY <2>1, <2>3 DEF NewConn
<1>5. /\ sock' \in SockShape /\ sock'["front"] = ks["front"]
      /\ sock'["back"].rcv = <<>> /\ sock'["back"].snd = <<>>
      /\ sock'["back"].link = link /\ ~ sock'["back"].fin /\ ~ sock'["back"].err
  <2> DEFINE new == [NewSock EXCEPT !.link = link]
  <2>1. /\ new \in [rcv : Seq(Nat), snd : Seq(Nat), link : {"pending", "up", "dead"},
                    fin : BOOLEAN, err : BOOLEAN]
        /\ new.rcv = <<>> /\ new.snd = <<>> /\ new.link = link /\ ~ new.fin /\ ~ new.err
    BY <1>3 DEF NewSock
  <2>2. sock' = [ks EXCEPT !["back"] = new]
    BY DEF ConnectStarted
  <2> HIDE DEF new
  <2>3. sock' \in SockShape /\ sock'["front"] = ks["front"] /\ sock'["back"] = new
    BY <1>1, <2>1, <2>2 DEF SockShape
  <2> QED BY <2>1, <2>3
<1>6. life' \in LifeShape /\ life'["back"] = "live" /\ life'["front"] = life["front"]
  BY <1>1 DEF ConnectStarted, LifeShape
<1>7. Answer(cs, ks, <<>>, <<>>)
  BY <1>1 DEF Answers
<1>8. Made(conn', sock', life')
  BY <1>1, <1>4, <1>5, <1>6 DEF Made, Conn
<1>9. Interest(conn', life')
  <2>1. cs["back"].output = <<>>
    BY <1>2 DEF NewConn
  <2> QED BY <1>1, <1>4, <1>6, <2>1 DEF Interest, Conn, Other, Closing
<1>10. Towards(conn', sock', "back", <<>>)
  <2> DEFINE x == HostIn("back")
             g == got["back"]
             q == cs["front"].input
             r == ks["front"].rcv
             n == sent["front"]
  <2>1. Flow(x, g, <<>>, <<>>, <<>>, q, r, n, "kConnecting", "up")
    BY <1>1, <1>2 DEF Towards, Other, NewConn, NewSock
  <2> HIDE DEF x, g, q, r, n
  <2>2. Flow(x, g, <<>>, <<>>, <<>>, q, r, n, "kConnecting", link)
    BY <2>1, FlowUp
  <2> QED BY <1>4, <1>5, <2>2 DEF Towards, Other, x, g, q, r, n
<1>11. Towards(conn', sock', "front", <<>>)
  <2>1. /\ got["front"] = <<>> /\ sock'["front"].snd = <<>> /\ conn'["front"].output = <<>>
        /\ conn'["back"].input = <<>> /\ sock'["back"].rcv = <<>> /\ sent["back"] = 0
    BY <1>4, <1>5, <1>7 DEF Answer
  <2>2. \A m : Follows(<<>>, m, 0)
    BY FollowsEmpty
  <2>3. \A state, s : Flow(0, <<>>, <<>>, <<>>, <<>>, <<>>, <<>>, 0, state, s)
    BY <1>3, <2>2 DEF Flow
  <2> QED BY <2>1, <2>3 DEF Towards, Other, HostIn
<1>12. Answers(conn', sock', life')
  <2>1. conn'["front"].output = <<>>
    BY <1>4, <1>7 DEF Answer
  <2>2. OwnByte \notin Range(<<>>)
    BY DEF Range
  <2> QED BY <1>6, <2>1, <2>2 DEF Answers
<1>13. HeadFirst(conn', sock', life', <<>>)
  BY <1>4 DEF HeadFirst
<1>14. \A c \in Conn : Len(sock'[c].snd) <= SendSpace
  BY <1>1, <1>3, <1>5, TcpAssumption DEF Conn
<1> QED BY <1>4, <1>5, <1>6, <1>8, <1>9, <1>10, <1>11, <1>12, <1>13, <1>14 DEF Consistent

\* ... as the end of a callback of either handler.
LEMMA StartKeeps ==
    ASSUME RelayInv, fault = "none", handler_' = handler_, route' = route,
           UNCHANGED <<loopVars, sent, got, backend_connected_>>, HandlerType',
           NEW cs, NEW ks, Consistent(cs, ks, life, <<>>, <<>>),
           cs["front"].state = conn["front"].state, ks["front"].link = sock["front"].link,
           life["front"] # "none", life["back"] = "none", Http => route # "none",
           Http => Len(cs["front"].input) >= HeadLen,
           NEW link \in {"pending", "up"}, ConnectStarted(cs, ks, link),
           deferred' = <<>>, waiting_for_initial_data_' <=> ~ Http,
           opened' = IF Http THEN 1 ELSE 0
    PROVE  RelayInv' /\ Stays(conn, conn')
<1>1. /\ sent \in [Conn -> Nat] /\ got \in [Conn -> Seq(Nat)] /\ removals \in 0 .. 2
      /\ got["back"] = <<>> /\ sent["back"] = 0 /\ conn["back"].state = "kConnecting"
      /\ PeerType /\ LoopType /\ handler_ \in Handlers
      /\ "front" \in Conn /\ "back" \in Conn
  <2>1. "front" \in Conn /\ "back" \in Conn
    BY DEF Conn
  <2>2. conn["back"] = NewConn
    BY <2>1 DEF RelayInv, Consistent, Made
  <2> QED BY <2>1, <2>2, TypeParts DEF RelayInv, Quiet, PeerType, NewConn
<1>2. /\ Consistent(conn', sock', life', <<>>, <<>>)
      /\ conn'["back"].state = "kConnecting" /\ conn'["front"] = cs["front"]
      /\ life'["back"] = "live" /\ life'["front"] = life["front"]
      /\ sock'["front"] = ks["front"]
  BY <1>1, StartedKeeps
<1>3. TypeOK'
  <2>1. /\ conn' \in ConnShape /\ sock' \in SockShape /\ life' \in LifeShape
        /\ \A c \in Conn : Len(sock'[c].snd) <= SendSpace
    BY <1>2 DEF Consistent
  <2>2. removals' = removals /\ fault' = "none"
    BY DEF ConnectStarted
  <2>3. PeerType' /\ LoopType'
    BY <1>1 DEF PeerType, LoopType, loopVars
  <2> QED BY <1>1, <2>1, <2>2, <2>3
           DEF TypeOK, ConnShape, SockShape, LifeShape, LoopType, PeerType, HandlerType
<1>4. Quiet'
  <2>1. batch["back"] = {} /\ (todo # {} => current # "back")
    BY <1>1 DEF RelayInv, Quiet
  <2>2. sock'["front"].link # "pending"
    BY <1>2 DEF Consistent, Made
  <2> QED BY <1>1, <1>2, <2>1, <2>2 DEF RelayInv, Quiet, Conn, loopVars
<1>5. Routed'
  <2>1. ~ backend_connected_
    BY <1>1 DEF RelayInv, Routed
  <2> QED BY <1>2, <2>1 DEF RelayInv, Routed, Http
<1>6. Consistent(conn, sock, life, <<>>, <<>>)'
  BY <1>2, Unmoved
<1>7. Stays(conn, conn')
  BY <1>1, <1>2 DEF Stays, Conn
<1> QED BY <1>3, <1>4, <1>5, <1>6, <1>7 DEF RelayInv

\* LoadBalancerHandler::createBackendConnection.
LEMMA CreateBackendConnectionKeeps ==
    ASSUME RelayInv, fault = "none", handler_ = "LoadBalancerHandler",
           handler_' = handler_, UNCHANGED httpVars,
           NEW link \in {"dead", "pending", "up"}, CreateBackendConnection(link)
    PROVE  RelayInv' /\ Stays(conn, conn')
<1>1. /\ deferred # <<>> /\ Head(deferred) = "createBackend" /\ deferred' = Tail(deferred)
      /\ UNCHANGED <<loopVars, sent, got, backend_connected_, first_byte_received_,
                     timerVars>>
      /\ route' = route /\ opened' = opened /\ ~ Http
      /\ waiting_for_initial_data_' = waiting_for_initial_data_
  BY DEF CreateBackendConnection, httpVars, Http
<1>2. deferred = <<"createBackend">> /\ deferred' = <<>>
  <2>1. deferred \in {<<>>, <<"addTimer">>, <<"createBackend">>,
                      <<"addTimer", "createBackend">>}
    BY DEF RelayInv, Routed
  <2>2. /\ Head(<<"addTimer">>) = "addTimer" /\ Head(<<"addTimer", "createBackend">>) = "addTimer"
        /\ Tail(<<"createBackend">>) = <<>>
    OBVIOUS
  <2> QED BY <1>1, <2>1, <2>2
<1>3. life["back"] = "none" /\ life["front"] # "none"
  BY <1>2 DEF RelayInv, Routed, Quiet
<1>4. HandlerType'
  BY <1>1, <1>2, Same DEF HandlerType, timerVars
<1>5. CASE fault' = "useAfterFree" /\ UNCHANGED <<conn, life, removals, sock>>
  BY <1>1, <1>3, <1>4, <1>5, Same, ControlKeeps DEF loopVars, LoopType, RelayInv, Quiet
<1>6. CASE Leaves(Shutdown(conn, "front"), sock)
  <2>1. "front" \in Conn
    BY DEF Conn
  <2>2. /\ conn' \in ConnShape /\ Lowered(conn, conn')
        /\ \A d \in Conn \ {"front"} : conn'[d] = conn[d]
    BY <1>6, <2>1, Same, ShutdownIs DEF Leaves
  <2>3. Sinks(conn, conn')
    BY <2>2, LoweredSinks
  <2>4. life' = life /\ removals' = removals /\ fault' = fault /\ sock' = sock
    BY <1>6 DEF Leaves
  <2> QED BY <1>1, <1>3, <1>4, <2>2, <2>3, <2>4, Same, ControlKeeps
           DEF loopVars, LoopType, RelayInv, Quiet
<1>7. CASE link # "dead" /\ ConnectStarted(conn, sock, link)
  <2>1. waiting_for_initial_data_ /\ opened = 0
    BY <1>1 DEF RelayInv, Routed
  <2>2. Consistent(conn, sock, life, <<>>, <<>>)
    BY DEF RelayInv
  <2> QED BY <1>1, <1>2, <1>3, <1>4, <1>7, <2>1, <2>2, StartKeeps
<1> QED BY <1>5, <1>6, <1>7 DEF CreateBackendConnection

-----------------------------------------------------------------------------
(* The first request of a client of HttpProxyHandler.                      *)

\* The 404 response goes to the kernel at once: nothing waits before it.
LEMMA NotFoundEnds ==
    ASSUME RelayInv, fault = "none", life["front"] # "none", life["back"] = "none",
           Http, route = "none", NotFound(KeptConn, ReadSock)
    PROVE  Ends(KeptConn, ReadSock)
<1> DEFINE cs == KeptConn
           ks == ReadSock
           ds == Shutdown(cs, "front")
<1>1. /\ Consistent(cs, ks, life, <<>>, <<>>) /\ cs \in ConnShape /\ ks \in SockShape
      /\ life \in LifeShape /\ removals \in 0 .. 2
      /\ "front" \in Conn /\ "back" \in Conn
  BY TakeKeeps, Same DEF Consistent, Conn
<1>2. CASE cs["front"].state # "kConnected"
  BY <1>2, KeepEnds DEF NotFound
<1>3. CASE cs["front"].state = "kConnected"
  <2>1. SendConnected(ds, ks, "front", <<OwnByte>>)
    BY <1>3 DEF NotFound, NotFoundShutdown
  <2>2. /\ ds \in ConnShape /\ Lowered(cs, ds) /\ ds["back"] = cs["back"]
        /\ ds["front"].state = "kDisConnecting"
        /\ ds["front"].events = cs["front"].events
        /\ ds["front"].output = cs["front"].output
    BY <1>1, <1>3 DEF Shutdown, ConnShape, Lowered, States, Closing, Conn
  <2>3. Sinks(cs, ds) /\ SameData(ks, ks) /\ Ages(life, life)
    BY <2>2, LoweredSinks DEF SameData, Ages
  <2> HIDE DEF cs, ks, ds
  <2>4. Consistent(ds, ks, life, <<>>, <<>>)
    <3>1. \A c \in Conn : life[c] = "none" => ds[c] = cs[c] /\ ks[c] = ks[c]
      BY <2>2 DEF Conn
    <3> QED BY <1>1, <2>2, <2>3, <3>1, LoweredKeeps
  <2>5. /\ got["front"] = <<>> /\ ks["front"].snd = <<>> /\ ds["front"].output = <<>>
    BY <1>1, <1>3, <2>2 DEF Consistent, Answers, Answer
  <2>6. ASSUME fault' \in {fault, "sigpipe"}, conn' = ds, sock' = ks,
               UNCHANGED <<life, removals>>
        PROVE  Ends(cs, ks)
    BY <1>1, <2>3, <2>4, <2>6 DEF Ends
  <2>7. CASE /\ ks["front"].link = "up" \/ ds["front"].output # <<>>
             /\ Leaves(AfterSend(ds, "front", <<OwnByte>>),
                       [ks EXCEPT !["front"].snd =
                            @ \o SubSeq(<<OwnByte>>, 1, Direct(ds, "front", <<OwnByte>>))])
    <3>1. Direct(ds, "front", <<OwnByte>>) = 1
      <4>1. sock["front"].snd = <<>>
        BY <2>5, TakeKeeps DEF ks
      <4>2. Accepted("front", <<OwnByte>>) = MinOf(1, SendSpace - 0)
        BY <4>1 DEF Accepted
      <4> QED BY <2>5, <4>2, TcpAssumption DEF Direct, MinOf
    <3>2. conn' = ds
      <4>1. AfterSend(ds, "front", <<OwnByte>>) = StartRead(ds, "back")
        BY <3>1 DEF AfterSend, Other
      <4>2. StartRead(ds, "back") = ds
        BY DEF StartRead, Open
      <4> QED BY <2>7, <4>1, <4>2 DEF Leaves
    <3>3. sock' = [ks EXCEPT !["front"].snd = <<OwnByte>>]
      <4>1. SubSeq(<<OwnByte>>, 1, 1) = <<OwnByte>>
        <5>1. <<OwnByte>> \in Seq(Nat) /\ Len(<<OwnByte>>) = 1
          BY DEF OwnByte
        <5> QED BY <5>1, SubSeqFull
      <4>2. <<>> \o <<OwnByte>> = <<OwnByte>>
        BY ConcatEmptySeq DEF OwnByte
      <4>3. sock' = [ks EXCEPT !["front"].snd = @ \o <<OwnByte>>]
        BY <2>7, <3>1, <4>1 DEF Leaves
      <4>4. sock' = [ks EXCEPT !["front"].snd = ks["front"].snd \o <<OwnByte>>]
        BY <1>1, <4>3 DEF SockShape
      <4> QED BY <2>5, <4>2, <4>4
    <3>4. <<OwnByte>> \in Seq(Nat) /\ Len(<<OwnByte>>) = 1
      BY DEF OwnByte
    <3>5. /\ sock' \in SockShape /\ sock'["back"] = ks["back"]
          /\ sock'["front"].snd = <<OwnByte>> /\ sock'["front"].rcv = ks["front"].rcv
          /\ sock'["front"].link = ks["front"].link
      <4> DEFINE t == <<OwnByte>>
      <4>1. t \in Seq(Nat) /\ sock' = [ks EXCEPT !["front"].snd = t]
        BY <3>3, <3>4
      <4> HIDE DEF t
      <4>2. /\ sock' \in SockShape /\ sock'["back"] = ks["back"]
            /\ sock'["front"].snd = t /\ sock'["front"].rcv = ks["front"].rcv
            /\ sock'["front"].link = ks["front"].link
        BY <1>1, <4>1 DEF SockShape
      <4> QED BY <4>2 DEF t
    <3>6. ks["front"].link = "up"
      BY <2>5, <2>7
    <3>7. \A c \in Conn : Len(sock'[c].snd) <= SendSpace
      <4>1. Len(sock'["front"].snd) <= SendSpace
        BY <3>4, <3>5, TcpAssumption
      <4> QED BY <2>4, <3>5, <4>1 DEF Consistent, Conn
    <3>8. Made(ds, sock', life)
      BY <2>4, <3>5, <3>6 DEF Consistent, Made, Conn
    <3>9. Towards(ds, sock', "back", <<>>)
      <4>1. Towards(ds, ks, "back", <<>>)
        BY <2>4 DEF Consistent
      <4> QED BY <3>5, <4>1 DEF Towards, Other
    <3>10. Answers(ds, sock', life)
      <4>1. Answer(ds, sock', <<>>, <<OwnByte>>)
        BY <2>5, <3>5 DEF Answer
      <4> QED BY <2>2, <4>1 DEF Answers
    <3>11. HeadFirst(ds, sock', life, <<>>)
      BY DEF HeadFirst
    <3>12. Consistent(ds, sock', life, <<>>, <<>>)
      BY <2>4, <3>5, <3>7, <3>8, <3>9, <3>10, <3>11 DEF Consistent
    <3>13. life' = life /\ removals' = removals /\ fault' = fault
      BY <2>7 DEF Leaves
    <3>14. \A c \in Conn : sock'[c].link = ks[c].link
      BY <3>5 DEF Conn
    <3> QED BY <1>1, <2>3, <3>2, <3>12, <3>13, <3>14 DEF Ends, cs, ks
  <2>8. CASE /\ ks["front"].link = "dead" /\ ds["front"].output = <<>> /\ ks["front"].err
             /\ HandleClose(ds, "front") /\ sock' = [ks EXCEPT !["front"].err = FALSE]
    <3>1. sock' \in SockShape /\ SameData(ks, sock') /\ sock'[Other("front")] = ks[Other("front")]
      BY <1>1, <2>8 DEF SockShape, SameData, Other, Conn
    <3>2. Ends(ds, ks)
      BY <1>1, <2>4, <2>8, <3>1, CloseEnds
    <3>3. Sinks(cs, conn')
      BY <2>3, <3>2 DEF Ends, Sinks
    <3> QED BY <3>2, <3>3 DEF Ends, cs, ks
  <2>9. CASE /\ fault' = "sigpipe" /\ conn' = ds /\ sock' = ks
             /\ UNCHANGED <<life, removals>>
    BY <2>6, <2>9 DEF cs, ks
  <2> QED BY <2>1, <2>7, <2>8, <2>9 DEF SendConnected
<1> QED BY <1>2, <1>3

\* HttpProxyHandler reads the first request, or a part of it.
LEMMA FirstRequestKeeps ==
    ASSUME RelayInv, fault = "none", handler_ = "HttpProxyHandler",
           handler_' = handler_, UNCHANGED lbVars, ReadRequest,
           waiting_for_initial_data_
    PROVE  RelayInv' /\ Stays(conn, conn')
<1>1. /\ todo # {} /\ current = "front" /\ life["front"] = "live"
      /\ UNCHANGED <<loopVars, sent, got>> /\ FirstRequest(KeptConn, ReadSock)
  BY DEF ReadRequest, Reading, KeptConn, ReadSock
<1>2. /\ life["back"] = "none" /\ Http /\ deferred = <<>> /\ opened = 0
  BY DEF RelayInv, Routed, Http
<1>3. /\ Consistent(KeptConn, ReadSock, life, <<>>, <<>>)
      /\ \A c \in Conn : /\ KeptConn[c].state = conn[c].state
                         /\ ReadSock[c].link = sock[c].link
  BY <1>1, TakeKeeps
<1>4. ASSUME Ends(KeptConn, ReadSock), UNCHANGED httpVars
      PROVE  RelayInv' /\ Stays(conn, conn')
  <2>1. HandlersRest
    BY <1>4, Same DEF HandlersRest, httpVars, lbVars, timerVars, HandlerType
  <2>2. Stays(conn, KeptConn) /\ KeptConn["back"].state = conn["back"].state
    BY <1>3 DEF Stays, Conn
  <2>3. /\ phase' = phase /\ batch' = batch /\ todo' \subseteq todo
        /\ current' \in Conn /\ current' = current /\ sent' = sent /\ got' = got
        /\ life["front"] # "none"
    BY <1>1 DEF loopVars, Conn
  <2> QED BY <1>3, <1>4, <2>1, <2>2, <2>3, CallbackKeeps DEF HandlersRest
<1>5. CASE Leaves(KeptConn, ReadSock) /\ UNCHANGED httpVars
  BY <1>1, <1>4, <1>5, KeepEnds
<1>6. CASE route = "none" /\ NotFound(KeptConn, ReadSock)
  <2>1. UNCHANGED httpVars
    BY <1>6 DEF NotFound
  <2> QED BY <1>1, <1>2, <1>4, <1>6, <2>1, NotFoundEnds
<1>7. ASSUME HeadComplete(KeptConn), route = "backend",
             NEW link \in {"dead", "pending", "up"},
             CreateBackend(KeptConn, ReadSock, link)
      PROVE  RelayInv' /\ Stays(conn, conn')
  <2>1. CASE Leaves(KeptConn, ReadSock) /\ UNCHANGED httpVars
    BY <1>5, <2>1
  <2>2. CASE /\ link # "dead" /\ ConnectStarted(KeptConn, ReadSock, link)
             /\ waiting_for_initial_data_' = WaitingAfterSetup
             /\ opened' = opened + 1 /\ UNCHANGED route
    <3>1. /\ HandlerType' /\ deferred' = <<>> /\ backend_connected_' = backend_connected_
          /\ ~ waiting_for_initial_data_' /\ opened' = 1 /\ route' = route
      <4>1. waiting_for_initial_data_' = FALSE /\ opened' = 1 /\ route' = route
        BY <1>2, <2>2 DEF WaitingAfterSetup
      <4>2. HandlerType' /\ deferred' = <<>> /\ backend_connected_' = backend_connected_
        BY <1>2, <4>1, Same DEF lbVars, timerVars, HandlerType
      <4> QED BY <4>1, <4>2
    <3>2. /\ "front" \in Conn /\ life["front"] # "none" /\ route # "none"
          /\ Len(KeptConn["front"].input) >= HeadLen /\ link \in {"pending", "up"}
      BY <1>1, <1>7, <2>2 DEF Conn, HeadComplete
    <3> QED BY <1>1, <1>2, <1>3, <2>2, <3>1, <3>2, StartKeeps
  <2> QED BY <1>7, <2>1, <2>2 DEF CreateBackend
<1> QED BY <1>1, <1>5, <1>6, <1>7 DEF FirstRequest

-----------------------------------------------------------------------------
(* The client's connection is established.                                 *)

\* The client's connection is established.
LEMMA EstablishedKeeps ==
    ASSUME RelayInv, handler_' = handler_, route' = route, opened' = opened,
           waiting_for_initial_data_' = waiting_for_initial_data_,
           backend_connected_' = backend_connected_, HandlerType',
           NEW state \in {"kConnected", "kDisConnecting"}, ConnectEstablished(state),
           Http => deferred' = <<>>,
           deferred' \in {<<>>, <<"addTimer">>, <<"addTimer", "createBackend">>}
    PROVE  RelayInv' /\ Stays(conn, conn')
<1>1. /\ conn \in ConnShape /\ sock \in SockShape /\ life \in LifeShape
      /\ \A c \in Conn : Len(sock[c].snd) <= SendSpace
      /\ Made(conn, sock, life) /\ Towards(conn, sock, "back", <<>>)
      /\ "front" \in Conn /\ "back" \in Conn /\ handler_ \in Handlers
      /\ removals \in 0 .. 2 /\ LoopType /\ PeerType /\ Quiet
      /\ fault \in {"none", "useAfterFree", "sigpipe", "notDisconnected",
                    "notErased", "eventsLeft"}
  BY TypeParts DEF RelayInv, Consistent, Conn
<1>2. /\ phase = "functors" /\ phase' = "poll" /\ life["front"] = "none"
      /\ UNCHANGED <<removals, fault, batch, current, todo, sock, sent, got>>
  BY DEF ConnectEstablished
<1>3. life["back"] = "none" /\ got["front"] = <<>> /\ removals = 0
  BY <1>1, <1>2 DEF Quiet
<1>4. /\ conn["front"] = NewConn /\ sock["front"] = NewSock
      /\ conn["back"] = NewConn /\ sock["back"] = NewSock
  BY <1>1, <1>2, <1>3 DEF Made
<1>5. /\ conn' \in ConnShape /\ conn'["back"] = conn["back"]
      /\ conn'["front"].state = state /\ conn'["front"].events = {"in"}
      /\ conn'["front"].input = <<>> /\ conn'["front"].output = <<>>
  <2> DEFINE cs == Enable(conn, "front", "in")
  <2>1. /\ cs \in ConnShape /\ cs["back"] = conn["back"]
        /\ cs["front"].events = {"in"} /\ cs["front"].input = <<>>
        /\ cs["front"].output = <<>>
    BY <1>1, <1>4 DEF ConnShape, Enable, NewConn
  <2>2. conn' = [cs EXCEPT !["front"].state = state]
    BY DEF ConnectEstablished
  <2> HIDE DEF cs
  <2>3. /\ conn' \in ConnShape /\ conn'["back"] = cs["back"]
        /\ conn'["front"].state = state /\ conn'["front"].events = cs["front"].events
        /\ conn'["front"].input = cs["front"].input
        /\ conn'["front"].output = cs["front"].output
    BY <1>1, <2>1, <2>2 DEF ConnShape, States
  <2> QED BY <2>1, <2>3
<1>6. life' \in LifeShape /\ life'["front"] = "live" /\ life'["back"] = "none"
  BY <1>1, <1>3 DEF ConnectEstablished, LifeShape
<1>7. Consistent(conn', sock', life', <<>>, <<>>)
  <2>1. Made(conn', sock', life')
    BY <1>1, <1>2, <1>4, <1>5, <1>6 DEF Made, Conn
  <2>2. Interest(conn', life')
    BY <1>5, <1>6 DEF Interest, Conn
  <2>3. Towards(conn', sock', "back", <<>>)
    BY <1>1, <1>2, <1>4, <1>5 DEF Towards, Other, NewConn
  <2>4. Answers(conn', sock', life')
    BY <1>2, <1>3, <1>4, <1>5, <1>6 DEF Answers, Answer, NewSock
  <2>5. HeadFirst(conn', sock', life', <<>>)
    BY <1>6 DEF HeadFirst
  <2> QED BY <1>1, <1>2, <1>5, <1>6, <2>1, <2>2, <2>3, <2>4, <2>5 DEF Consistent
<1>8. TypeOK'
  <2>1. PeerType' /\ LoopType'
    BY <1>1, <1>2 DEF PeerType, LoopType
  <2> QED BY <1>1, <1>2, <1>5, <1>6, <2>1
           DEF TypeOK, ConnShape, SockShape, LifeShape, LoopType, PeerType, HandlerType
<1>9. Quiet'
  BY <1>1, <1>2, <1>6 DEF Quiet, Conn
<1>10. Routed'
  <2>1. ~ backend_connected_
    BY <1>4 DEF RelayInv, Routed, NewConn
  <2> QED BY <1>3, <1>6, <2>1 DEF RelayInv, Routed, Http
<1>11. Consistent(conn, sock, life, <<>>, <<>>)'
  BY <1>2, <1>7, Unmoved
<1>12. Stays(conn, conn')
  BY <1>4, <1>5 DEF Stays, Conn, NewConn
<1> QED BY <1>8, <1>9, <1>10, <1>11, <1>12 DEF RelayInv

\* ... and LoadBalancerHandler told of it.
LEMMA OnConnectionKeeps ==
    ASSUME RelayInv, handler_ = "LoadBalancerHandler", handler_' = handler_,
           UNCHANGED httpVars, NEW found \in BOOLEAN, OnConnection(found)
    PROVE  RelayInv' /\ Stays(conn, conn')
<1>1. /\ route' = route /\ opened' = opened
      /\ waiting_for_initial_data_' = waiting_for_initial_data_
      /\ backend_connected_' = backend_connected_ /\ ~ Http
      /\ initial' = "queued"
      /\ UNCHANGED <<first_byte_received_, idleHeld, orphans>>
  BY DEF OnConnection, httpVars, Http
<1>2. deferred' \in {<<"addTimer">>, <<"addTimer", "createBackend">>}
  BY DEF OnConnection
<1>3. deferred' \in Seq({"addTimer", "createBackend"})
  <2>1. /\ <<"addTimer">> \in Seq({"addTimer", "createBackend"})
        /\ <<"addTimer", "createBackend">> \in Seq({"addTimer", "createBackend"})
    OBVIOUS
  <2> QED BY <1>2, <2>1
<1>4. HandlerType'
  BY <1>1, <1>3, Same DEF HandlerType
<1>5. \E state \in {"kConnected", "kDisConnecting"} : ConnectEstablished(state)
  BY DEF OnConnection
<1> QED BY <1>1, <1>2, <1>4, <1>5, EstablishedKeeps

-----------------------------------------------------------------------------
(* The peers.                                                              *)

\* A step of a peer changes nothing of the process.
LEMMA PeerKeeps ==
    ASSUME RelayInv, handler_' = handler_,
           UNCHANGED <<objectVars, loopVars, lbVars, httpVars>>,
           sock' \in SockShape, PeerType',
           \A c \in Conn : Len(sock'[c].snd) <= SendSpace,
           \A c \in Conn : life[c] = "none" => sent'[c] = sent[c] /\ got'[c] = got[c],
           \A c \in Conn : sock'[c].link = "pending" => sock[c].link = "pending",
           Made(conn, sock, life)', Towards(conn, sock, "back", <<>>)',
           life["back"] # "none" => Towards(conn, sock, "front", <<>>)',
           Answers(conn, sock, life)', HeadFirst(conn, sock, life, <<>>)'
    PROVE  RelayInv' /\ Stays(conn, conn')
<1>1. /\ conn \in ConnShape /\ life \in LifeShape /\ removals \in 0 .. 2
      /\ fault \in {"none", "useAfterFree", "sigpipe", "notDisconnected",
                    "notErased", "eventsLeft"}
      /\ LoopType /\ HandlerType /\ Quiet /\ Routed /\ handler_ \in Handlers
      /\ Interest(conn, life)
  BY TypeParts DEF RelayInv, Consistent
<1>2. /\ conn' = conn /\ life' = life /\ removals' = removals /\ fault' = fault
      /\ UNCHANGED <<loopVars, lbVars, httpVars>>
  BY DEF objectVars
<1>3. TypeOK'
  <2>1. HandlerType' /\ LoopType'
    BY <1>1, <1>2 DEF HandlerType, LoopType, loopVars, lbVars, timerVars, httpVars
  <2> QED BY <1>1, <1>2, <2>1
           DEF TypeOK, ConnShape, SockShape, LifeShape, LoopType, PeerType, HandlerType
<1>4. Quiet'
  BY <1>1, <1>2 DEF Quiet, loopVars, lbVars
<1>5. Routed'
  BY <1>1, <1>2 DEF Routed, Http, lbVars, httpVars
<1>6. Interest(conn, life)'
  BY <1>1, <1>2 DEF Interest
<1>7. Consistent(conn, sock, life, <<>>, <<>>)'
  BY <1>1, <1>2, <1>6 DEF Consistent
<1>8. Stays(conn, conn')
  BY <1>2 DEF Stays
<1> QED BY <1>3, <1>4, <1>5, <1>7, <1>8 DEF RelayInv

\* What the peers rely on.
LEMMA PeerFacts ==
    ASSUME RelayInv
    PROVE  /\ conn \in ConnShape /\ sock \in SockShape /\ life \in LifeShape /\ PeerType
           /\ \A c \in Conn : Len(sock[c].snd) <= SendSpace
           /\ Made(conn, sock, life) /\ Towards(conn, sock, "back", <<>>)
           /\ life["back"] # "none" => Towards(conn, sock, "front", <<>>)
           /\ Answers(conn, sock, life) /\ HeadFirst(conn, sock, life, <<>>)
           /\ "front" \in Conn /\ "back" \in Conn
           /\ \A c \in Conn : Other(c) \in Conn /\ Other(c) # c /\ Conn = {c, Other(c)}
                              /\ Other(Other(c)) = c
BY TypeParts DEF RelayInv, Consistent, Conn, Other

\* A peer writes its next byte.
LEMMA PeerWritesKeeps ==
    ASSUME RelayInv, handler_' = handler_, UNCHANGED <<lbVars, httpVars>>,
           NEW c \in Conn, PeerWrites(c)
    PROVE  RelayInv' /\ Stays(conn, conn')
<1> DEFINE n == sent[c]
           r == sock[c].rcv
           o == Other(c)
           t == Append(r, n + 1)
<1>1. /\ conn \in ConnShape /\ sock \in SockShape /\ life \in LifeShape /\ PeerType
      /\ \A d \in Conn : Len(sock[d].snd) <= SendSpace
      /\ Made(conn, sock, life) /\ Towards(conn, sock, "back", <<>>)
      /\ life["back"] # "none" => Towards(conn, sock, "front", <<>>)
      /\ Answers(conn, sock, life) /\ HeadFirst(conn, sock, life, <<>>)
      /\ "front" \in Conn /\ "back" \in Conn
      /\ o \in Conn /\ o # c /\ Conn = {c, o} /\ Other(o) = c
  BY PeerFacts
<1>2. /\ life[c] = "live" /\ sock[c].link = "up" /\ n < MaxBytes[c]
      /\ UNCHANGED <<objectVars, loopVars, got>>
      /\ sent' = [sent EXCEPT ![c] = n + 1]
      /\ sock' = [sock EXCEPT ![c].rcv = Append(r, sent'[c])]
  BY <1>1 DEF PeerWrites, SockShape, PeerType
<1>3. n \in Nat /\ r \in Seq(Nat) /\ MaxBytes[c] \in Nat
  BY <1>1, TcpAssumption DEF PeerType, SockShape, Conn
<1>4. /\ sent'[c] = n + 1 /\ sent'[o] = sent[o] /\ sent' \in [Conn -> Nat]
      /\ n + 1 \in Nat /\ n + 1 <= MaxBytes[c]
  BY <1>1, <1>2, <1>3 DEF PeerType
<1>5. PeerType'
  BY <1>1, <1>2, <1>4 DEF PeerType
<1>6. t \in Seq(Nat) /\ sock' = [sock EXCEPT ![c].rcv = t]
  BY <1>2, <1>3, <1>4
<1> HIDE DEF t, o
<1>7. /\ sock' \in SockShape /\ sock'[o] = sock[o] /\ sock'[c].rcv = t
      /\ sock'[c].snd = sock[c].snd /\ sock'[c].link = sock[c].link
  <2>1. sock' = WithRcv(sock, c, t) /\ o \in Conn \ {c}
    BY <1>1, <1>6 DEF WithRcv
  <2>2. OnlyRcv(sock', sock, c, t)
    BY <1>1, <1>6, <2>1, RcvSet
  <2> QED BY <2>1, <2>2 DEF OnlyRcv
<1>8. conn' = conn /\ life' = life /\ got' = got /\ route' = route
  BY <1>2 DEF objectVars, httpVars
<1>9. ASSUME Towards(conn, sock, o, <<>>) PROVE Towards(conn, sock, o, <<>>)'
  <2>1. Flow(HostIn(o), got[o], sock[o].snd, conn[o].output, <<>>, conn[c].input,
             r, n, conn[o].state, sock[o].link)
    BY <1>1, <1>9 DEF Towards
  <2>2. FlowTypes(Nat, HostIn(o), got[o], sock[o].snd, conn[o].output, <<>>,
                  conn[c].input, r, n)
    BY <1>1, TowardsTypes, EmptySeq DEF PeerType
  <2>3. Flow(HostIn(o), got[o], sock[o].snd, conn[o].output, <<>>, conn[c].input,
             t, n + 1, conn[o].state, sock[o].link)
    BY <1>4, <2>1, <2>2, FlowWrite DEF t
  <2> QED BY <1>1, <1>4, <1>7, <1>8, <2>3 DEF Towards, HostIn, Http
<1>10. ASSUME Towards(conn, sock, c, <<>>) PROVE Towards(conn, sock, c, <<>>)'
  <2>1. /\ sock'[c].snd = sock[c].snd /\ sock'[o].rcv = sock[o].rcv
        /\ sock'[c].link = sock[c].link /\ sent'[o] = sent[o]
    BY <1>4, <1>7
  <2> QED BY <1>8, <1>10, <2>1 DEF Towards, HostIn, Http, o
<1>11. /\ Towards(conn, sock, "back", <<>>)'
       /\ life["back"] # "none" => Towards(conn, sock, "front", <<>>)'
  BY <1>1, <1>9, <1>10
<1>12. Made(conn, sock, life)'
  BY <1>1, <1>2, <1>7, <1>8 DEF Made
<1>13. Answers(conn, sock, life)' /\ HeadFirst(conn, sock, life, <<>>)'
  BY <1>1, <1>7, <1>8 DEF Answers, Answer, HeadFirst, Passed, Http
<1>14. \A d \in Conn : /\ Len(sock'[d].snd) <= SendSpace
                       /\ sock'[d].link = "pending" => sock[d].link = "pending"
                       /\ life[d] = "none" => sent'[d] = sent[d] /\ got'[d] = got[d]
  BY <1>1, <1>2, <1>4, <1>7, <1>8
<1> QED BY <1>2, <1>5, <1>7, <1>11, <1>12, <1>13, <1>14, PeerKeeps

\* What a peer reads next: the byte after those it has, or the 404 response.
LEMMA NextByte ==
    ASSUME RelayInv, NEW c \in Conn, PeerReads(c)
    PROVE  \/ /\ c = "back" \/ life["back"] # "none"
              /\ Len(got[c]) < sent[Other(c)]
              /\ Head(sock[c].snd) = IF Len(got[c]) + 1 = HostIn(c) THEN OwnByte
                                     ELSE Len(got[c]) + 1
              /\ Flow(HostIn(c), Append(got[c], Head(sock[c].snd)), Tail(sock[c].snd),
                      conn[c].output, <<>>, conn[Other(c)].input, sock[Other(c)].rcv,
                      sent[Other(c)], conn[c].state, sock[c].link)
           \/ /\ c = "front" /\ life["back"] = "none" /\ got["front"] = <<>>
              /\ sock["front"].snd = <<OwnByte>> /\ conn["front"].output = <<>>
              /\ Http /\ route = "none" /\ conn["front"].state # "kConnected"
<1>1. sock[c].link = "up" /\ sock[c].snd # <<>>
  BY DEF PeerReads
<1>2. ASSUME Towards(conn, sock, c, <<>>)
      PROVE  /\ Len(got[c]) < sent[Other(c)]
             /\ Head(sock[c].snd) = IF Len(got[c]) + 1 = HostIn(c) THEN OwnByte
                                    ELSE Len(got[c]) + 1
             /\ Flow(HostIn(c), Append(got[c], Head(sock[c].snd)), Tail(sock[c].snd),
                     conn[c].output, <<>>, conn[Other(c)].input, sock[Other(c)].rcv,
                     sent[Other(c)], conn[c].state, sock[c].link)
  <2>1. FlowTypes(Nat, HostIn(c), got[c], sock[c].snd, conn[c].output, <<>>,
                  conn[Other(c)].input, sock[Other(c)].rcv, sent[Other(c)])
    BY PeerFacts, TowardsTypes, EmptySeq DEF PeerType
  <2>2. Flow(HostIn(c), got[c], sock[c].snd, conn[c].output, <<>>,
             conn[Other(c)].input, sock[Other(c)].rcv, sent[Other(c)],
             conn[c].state, sock[c].link)
    BY <1>2 DEF Towards
  <2> QED BY <1>1, <2>1, <2>2, FlowRead
<1>3. CASE c = "back" \/ life["back"] # "none"
  BY <1>2, <1>3, PeerFacts DEF Conn
<1>4. CASE c = "front" /\ life["back"] = "none"
  BY <1>1, <1>4, PeerFacts DEF Answers, Answer
<1> QED BY <1>3, <1>4 DEF Conn

\* A peer reads a byte.
LEMMA PeerReadsKeeps ==
    ASSUME RelayInv, handler_' = handler_, UNCHANGED <<lbVars, httpVars>>,
           NEW c \in Conn, PeerReads(c)
    PROVE  RelayInv' /\ Stays(conn, conn')
<1> DEFINE o == Other(c)
           g == got[c]
           s == sock[c].snd
           u == Append(g, Head(s))
           t == Tail(s)
<1>1. /\ conn \in ConnShape /\ sock \in SockShape /\ life \in LifeShape /\ PeerType
      /\ \A d \in Conn : Len(sock[d].snd) <= SendSpace
      /\ Made(conn, sock, life) /\ Towards(conn, sock, "back", <<>>)
      /\ life["back"] # "none" => Towards(conn, sock, "front", <<>>)
      /\ Answers(conn, sock, life) /\ HeadFirst(conn, sock, life, <<>>)
      /\ "front" \in Conn /\ "back" \in Conn
      /\ o \in Conn /\ o # c /\ Conn = {c, o} /\ Other(o) = c
  BY PeerFacts
<1>2. /\ sock[c].link = "up" /\ s # <<>> /\ UNCHANGED <<objectVars, loopVars, sent>>
      /\ got' = [got EXCEPT ![c] = u]
  BY <1>1 DEF PeerReads, PeerType
<1>21. sock' = [sock EXCEPT ![c].snd = t]
  BY <1>1 DEF PeerReads, SockShape
<1>3. /\ g \in Seq(Nat) /\ s \in Seq(Nat) /\ Len(s) \in Nat /\ Len(s) > 0 /\ Len(g) \in Nat
  BY <1>1, <1>2, EmptySeq, LenProperties DEF PeerType, SockShape
<1>4. /\ Head(s) \in Nat /\ t \in Seq(Nat) /\ Len(t) = Len(s) - 1
      /\ u \in Seq(Nat) /\ Len(u) = Len(g) + 1
  <2>1. Head(s) \in Nat /\ t \in Seq(Nat) /\ Len(t) = Len(s) - 1
    BY <1>2, <1>3, HeadTailProperties
  <2>2. u \in Seq(Nat) /\ Len(u) = Len(g) + 1
    BY <1>3, <2>1, AppendProperties
  <2> QED BY <2>1, <2>2
<1> HIDE DEF u, t, o
<1>22. OnlySnd(sock', sock, c, t)
  <2>1. sock' = WithSnd(sock, c, t)
    BY <1>21 DEF WithSnd
  <2> QED BY <1>1, <1>4, <2>1, SndSet
<1>5. /\ sock' \in SockShape /\ sock'[o] = sock[o] /\ sock'[c].snd = t
      /\ sock'[c].rcv = sock[c].rcv /\ sock'[c].link = sock[c].link
  <2>1. o \in Conn \ {c}
    BY <1>1
  <2> QED BY <1>22, <2>1 DEF OnlySnd
<1>51. (sock'[c].fin <=> sock[c].fin) /\ (sock'[c].err <=> sock[c].err)
  BY <1>22 DEF OnlySnd
<1>6. /\ got'[c] = u /\ got'[o] = got[o] /\ PeerType'
  BY <1>1, <1>2, <1>4 DEF PeerType
<1>7. conn' = conn /\ life' = life /\ sent' = sent /\ route' = route
  BY <1>2 DEF objectVars, httpVars
<1>8. life[c] # "none"
  BY <1>1, <1>2 DEF Made, NewSock
<1>9. ASSUME Towards(conn, sock, o, <<>>) PROVE Towards(conn, sock, o, <<>>)'
  <2>1. /\ sock'[o].snd = sock[o].snd /\ sock'[c].rcv = sock[c].rcv
        /\ sock'[o].link = sock[o].link /\ sent'[c] = sent[c] /\ got'[o] = got[o]
    BY <1>5, <1>6, <1>7
  <2> QED BY <1>1, <1>7, <1>9, <2>1 DEF Towards, HostIn, Http
<1>10. CASE /\ c = "back" \/ life["back"] # "none"
            /\ Flow(HostIn(c), u, t, conn[c].output, <<>>, conn[o].input, sock[o].rcv,
                    sent[o], conn[c].state, sock[c].link)
  <2>1. Towards(conn, sock, c, <<>>)'
    <3>1. /\ sock'[c].snd = t /\ sock'[o].rcv = sock[o].rcv
          /\ sock'[c].link = sock[c].link /\ got'[c] = u
      BY <1>5, <1>6
    <3> QED BY <1>7, <1>10, <3>1 DEF Towards, HostIn, Http, o
  <2>2. /\ Towards(conn, sock, "back", <<>>)'
        /\ life["back"] # "none" => Towards(conn, sock, "front", <<>>)'
    BY <1>1, <1>9, <2>1
  <2>3. Answers(conn, sock, life)'
    BY <1>8, <1>10, <1>1, <1>7 DEF Answers
  <2>4. Made(conn, sock, life)'
    <3>1. conn["back"].state = "kConnecting" => c # "back"
      BY <1>1, <1>2 DEF Made
    <3>2. conn["back"].state = "kConnecting" =>
             conn["back"].output = <<>> /\ sock'["back"].snd = <<>> /\ got'["back"] = <<>>
      BY <1>1, <1>5, <1>6, <3>1 DEF Made
    <3>3. \A d \in Conn : sock'[d].link = "dead" => sock'[d].snd = <<>>
      BY <1>1, <1>2, <1>5 DEF Made
    <3>4. \A d \in Conn : life[d] = "none" => sock'[d] = NewSock
      BY <1>1, <1>5, <1>8 DEF Made
    <3>5. /\ sock'["front"].link # "pending"
          /\ sock'["back"].link = "pending" =>
                /\ conn["back"].state = "kConnecting"
                /\ sock'["back"].rcv = <<>> /\ ~ sock'["back"].fin /\ ~ sock'["back"].err
      BY <1>1, <1>5, <1>51 DEF Made
    <3> QED BY <1>1, <1>7, <3>2, <3>3, <3>4, <3>5 DEF Made
  <2>5. HeadFirst(conn, sock, life, <<>>)'
    <3>1. Passed(conn, sock, "back")' = Passed(conn, sock, "back")
      <4>1. CASE c = "front"
        BY <1>1, <1>5, <1>6, <1>7, <4>1 DEF Passed
      <4>2. CASE c = "back"
        <5> DEFINE a == Len(g)
                   b == Len(s)
                   w == Len(conn["back"].output)
        <5>1. a \in Nat /\ b \in Nat /\ w \in Nat
          BY <1>1, <1>3, LenProperties DEF ConnShape
        <5>2. /\ Passed(conn, sock, "back") = a + b + w
              /\ Passed(conn, sock, "back")' = (a + 1) + (b - 1) + w
          BY <1>4, <1>5, <1>6, <1>7, <4>2 DEF Passed
        <5> HIDE DEF a, b, w
        <5> QED BY <5>1, <5>2
      <4> QED BY <4>1, <4>2 DEF Conn
    <3>2. sock'["back"].link = sock["back"].link
      BY <1>1, <1>5
    <3> QED BY <1>1, <1>7, <3>1, <3>2 DEF HeadFirst, Http
  <2>6. \A d \in Conn : /\ Len(sock'[d].snd) <= SendSpace
                        /\ sock'[d].link = "pending" => sock[d].link = "pending"
                        /\ life[d] = "none" => sent'[d] = sent[d] /\ got'[d] = got[d]
    <3>1. Len(sock[c].snd) - 1 <= SendSpace
      BY <1>1, <1>3, TcpAssumption
    <3> QED BY <1>1, <1>4, <1>5, <1>6, <1>7, <1>8, <3>1
  <2> QED BY <1>2, <1>5, <1>6, <1>7, <2>2, <2>3, <2>4, <2>5, <2>6, PeerKeeps
<1>11. CASE /\ c = "front" /\ life["back"] = "none" /\ g = <<>> /\ s = <<OwnByte>>
            /\ conn["front"].output = <<>> /\ Http /\ route = "none"
            /\ conn["front"].state # "kConnected"
  <2>1. u = <<OwnByte>> /\ t = <<>>
    BY <1>11 DEF u, t, OwnByte
  <2>2. Answers(conn, sock, life)'
    BY <1>5, <1>6, <1>7, <1>11, <2>1 DEF Answers, Answer, Http
  <2>3. o = "back"
    BY <1>11 DEF o, Other
  <2>4. Towards(conn, sock, "back", <<>>)'
    BY <1>1, <1>9, <2>3
  <2>5. Made(conn, sock, life)'
    BY <1>1, <1>2, <1>5, <1>6, <1>7, <1>8, <1>11, <2>1, <2>3 DEF Made
  <2>6. HeadFirst(conn, sock, life, <<>>)'
    BY <1>7, <1>11 DEF HeadFirst
  <2>7. \A d \in Conn : /\ Len(sock'[d].snd) <= SendSpace
                        /\ sock'[d].link = "pending" => sock[d].link = "pending"
                        /\ life[d] = "none" => sent'[d] = sent[d] /\ got'[d] = got[d]
    BY <1>1, <1>5, <1>6, <1>7, <1>8, <2>1, EmptySeq, TcpAssumption
  <2> QED BY <1>2, <1>5, <1>6, <1>7, <1>11, <2>2, <2>4, <2>5, <2>6, <2>7, PeerKeeps
<1>12. \/ /\ c = "back" \/ life["back"] # "none"
          /\ Flow(HostIn(c), u, t, conn[c].output, <<>>, conn[o].input, sock[o].rcv,
                  sent[o], conn[c].state, sock[c].link)
       \/ /\ c = "front" /\ life["back"] = "none" /\ g = <<>> /\ s = <<OwnByte>>
          /\ conn["front"].output = <<>> /\ Http /\ route = "none"
          /\ conn["front"].state # "kConnected"
  <2> DEFINE p == Other(c)
             ug == Append(got[c], Head(sock[c].snd))
             ts == Tail(sock[c].snd)
  <2>1. \/ /\ c = "back" \/ life["back"] # "none"
           /\ Flow(HostIn(c), ug, ts, conn[c].output, <<>>, conn[p].input, sock[p].rcv,
                   sent[p], conn[c].state, sock[c].link)
        \/ /\ c = "front" /\ life["back"] = "none" /\ g = <<>> /\ s = <<OwnByte>>
           /\ conn["front"].output = <<>> /\ Http /\ route = "none"
           /\ conn["front"].state # "kConnected"
    BY NextByte
  <2>2. ug = u /\ ts = t /\ p = o
    BY DEF u, t, o
  <2> HIDE DEF ug, ts, p
  <2> QED BY <2>1, <2>2
<1> QED BY <1>10, <1>11, <1>12

\* A peer that closes its end, a reset, and a connect that is accepted.
LEMMA PeerEndsKeeps ==
    ASSUME RelayInv, handler_' = handler_, UNCHANGED <<lbVars, httpVars>>,
           \/ \E c \in Conn : PeerCloses(c) \/ PeerResets(c)
           \/ PeerAccepts
    PROVE  RelayInv' /\ Stays(conn, conn')
<1>1. /\ conn \in ConnShape /\ sock \in SockShape /\ life \in LifeShape /\ PeerType
      /\ \A d \in Conn : Len(sock[d].snd) <= SendSpace
      /\ Made(conn, sock, life) /\ Towards(conn, sock, "back", <<>>)
      /\ life["back"] # "none" => Towards(conn, sock, "front", <<>>)
      /\ Answers(conn, sock, life) /\ HeadFirst(conn, sock, life, <<>>)
      /\ "front" \in Conn /\ "back" \in Conn
      /\ \A c \in Conn : Other(c) \in Conn /\ Other(c) # c /\ Conn = {c, Other(c)}
  BY PeerFacts
<1>2. UNCHANGED <<objectVars, loopVars, sent, got>>
  BY DEF PeerCloses, PeerResets, PeerAccepts
<1>3. /\ conn' = conn /\ life' = life /\ got' = got /\ sent' = sent /\ route' = route
      /\ PeerType'
  BY <1>1, <1>2 DEF objectVars, httpVars, PeerType
<1>4. ASSUME NEW c \in Conn,
             sock' \in SockShape, \A d \in Conn \ {c} : sock'[d] = sock[d],
             sock'[c].rcv = sock[c].rcv,
             \/ sock'[c].snd = sock[c].snd /\ sock'[c].link = sock[c].link
                /\ sock[c].link = "up"
             \/ sock'[c].snd = <<>> /\ sock'[c].link = "dead"
             \/ /\ sock'[c].snd = sock[c].snd /\ sock'[c].link = "up"
                /\ c = "back" /\ sock[c].link = "pending",
             life[c] # "none"
      PROVE  RelayInv' /\ Stays(conn, conn')
  <2> DEFINE o == Other(c)
  <2>1. /\ o \in Conn /\ o # c /\ Conn = {c, o} /\ Other(o) = c /\ sock'[o] = sock[o]
    BY <1>1, <1>4 DEF Other, Conn
  <2>2. \A d \in Conn : Towards(conn, sock, d, <<>>) => Towards(conn, sock, d, <<>>)'
    <3>1. ASSUME Towards(conn, sock, c, <<>>) PROVE Towards(conn, sock, c, <<>>)'
      <4> DEFINE x == HostIn(c)
                 g == got[c]
                 s == sock[c].snd
                 w == conn[c].output
                 q == conn[Other(c)].input
                 r == sock[Other(c)].rcv
                 n == sent[Other(c)]
                 st == conn[c].state
      <4>1. Flow(x, g, s, w, <<>>, q, r, n, st, sock[c].link)
        BY <3>1 DEF Towards
      <4> HIDE DEF x, g, s, w, q, r, n, st
      <4>2. /\ Flow(x, g, <<>>, w, <<>>, q, r, n, st, "dead")
            /\ sock[c].link = "pending" => Flow(x, g, s, w, <<>>, q, r, n, st, "up")
        BY <4>1, FlowReset, FlowUp
      <4>3. Flow(x, g, sock'[c].snd, w, <<>>, q, r, n, st, sock'[c].link)
        BY <1>4, <4>1, <4>2 DEF s
      <4>4. sock'[Other(c)].rcv = sock[Other(c)].rcv
        BY <2>1
      <4> QED BY <1>3, <4>3, <4>4 DEF Towards, HostIn, Http, x, g, w, q, r, n, st
    <3>2. ASSUME Towards(conn, sock, o, <<>>) PROVE Towards(conn, sock, o, <<>>)'
      <4> HIDE DEF o
      <4>1. /\ sock'[o].snd = sock[o].snd /\ sock'[c].rcv = sock[c].rcv
            /\ sock'[o].link = sock[o].link
        BY <1>4, <2>1
      <4> QED BY <1>3, <2>1, <3>2, <4>1 DEF Towards, HostIn, Http
    <3> QED BY <2>1, <3>1, <3>2
  <2>3. /\ Towards(conn, sock, "back", <<>>)'
        /\ life["back"] # "none" => Towards(conn, sock, "front", <<>>)'
    BY <1>1, <2>2
  <2> HIDE DEF o
  <2>4. Made(conn, sock, life)'
    BY <1>1, <1>3, <1>4, <2>1 DEF Made
  <2>5. Answers(conn, sock, life)'
    BY <1>1, <1>3, <1>4, <2>1 DEF Answers, Answer, Http
  <2>6. HeadFirst(conn, sock, life, <<>>)'
    <3>1. sock'["back"].link = "dead" \/ Passed(conn, sock, "back")' = Passed(conn, sock, "back")
      BY <1>1, <1>3, <1>4, <2>1 DEF Passed
    <3>2. sock'["back"].link # "dead" => sock["back"].link # "dead"
      BY <1>1, <1>4, <2>1
    <3> QED BY <1>1, <1>3, <3>1, <3>2 DEF HeadFirst, Http
  <2>7. \A d \in Conn : /\ Len(sock'[d].snd) <= SendSpace
                        /\ sock'[d].link = "pending" => sock[d].link = "pending"
                        /\ life[d] = "none" => sent'[d] = sent[d] /\ got'[d] = got[d]
    <3>1. Len(<<>>) <= SendSpace
      BY EmptySeq, TcpAssumption
    <3> QED BY <1>1, <1>3, <1>4, <2>1, <3>1
  <2> QED BY <1>2, <1>3, <1>4, <2>3, <2>4, <2>5, <2>6, <2>7, PeerKeeps
<1>s. sock \in SockShape
  BY <1>1
<1>5. ASSUME NEW c \in Conn, PeerCloses(c) PROVE RelayInv' /\ Stays(conn, conn')
  <2>1. /\ sock' = [sock EXCEPT ![c].fin = TRUE] /\ sock[c].link = "up" /\ life[c] # "none"
    BY <1>5 DEF PeerCloses
  <2>2. /\ sock' \in SockShape /\ \A d \in Conn \ {c} : sock'[d] = sock[d]
        /\ sock'[c].rcv = sock[c].rcv /\ sock'[c].snd = sock[c].snd
        /\ sock'[c].link = sock[c].link
    BY <1>s, <2>1 DEF SockShape
  <2> QED BY <1>4, <2>1, <2>2
<1>6. ASSUME NEW c \in Conn, PeerResets(c) PROVE RelayInv' /\ Stays(conn, conn')
  <2>1. /\ sock' = [sock EXCEPT ![c].link = "dead", ![c].err = TRUE, ![c].snd = <<>>]
        /\ life[c] # "none" /\ <<>> \in Seq(Nat)
    BY <1>6, EmptySeq DEF PeerResets
  <2>2. /\ sock' \in SockShape /\ \A d \in Conn \ {c} : sock'[d] = sock[d]
        /\ sock'[c].rcv = sock[c].rcv /\ sock'[c].snd = <<>>
        /\ sock'[c].link = "dead"
    <3> DEFINE k == sock[c]
               k2 == [k EXCEPT !.link = "dead", !.err = TRUE, !.snd = <<>>]
    <3>1. k \in [rcv : Seq(Nat), snd : Seq(Nat), link : {"pending", "up", "dead"},
                 fin : BOOLEAN, err : BOOLEAN]
      BY <1>s DEF SockShape
    <3>2. sock' = [sock EXCEPT ![c] = k2]
      BY <1>s, <2>1 DEF SockShape
    <3> HIDE DEF k
    <3>3. /\ k2 \in [rcv : Seq(Nat), snd : Seq(Nat), link : {"pending", "up", "dead"},
                     fin : BOOLEAN, err : BOOLEAN]
          /\ k2.rcv = k.rcv /\ k2.snd = <<>> /\ k2.link = "dead"
      BY <2>1, <3>1
    <3> HIDE DEF k2
    <3>4. sock' \in SockShape /\ sock'[c] = k2 /\ \A d \in Conn \ {c} : sock'[d] = sock[d]
      BY <1>s, <3>2, <3>3 DEF SockShape
    <3> QED BY <3>3, <3>4 DEF k
  <2> QED BY <1>4, <2>1, <2>2
<1>7. CASE PeerAccepts
  <2>1. sock' = [sock EXCEPT !["back"].link = "up"] /\ sock["back"].link = "pending"
    BY <1>7 DEF PeerAccepts
  <2>2. /\ sock' \in SockShape /\ \A d \in Conn \ {"back"} : sock'[d] = sock[d]
        /\ sock'["back"].rcv = sock["back"].rcv /\ sock'["back"].snd = sock["back"].snd
        /\ sock'["back"].link = "up"
    <3>1. "back" \in Conn
      BY DEF Conn
    <3> QED BY <1>s, <2>1, <3>1 DEF SockShape
  <2>3. life["back"] # "none"
    BY <1>1, <2>1 DEF Made, NewSock
  <2> QED BY <1>1, <1>4, <2>1, <2>2, <2>3
<1> QED BY <1>5, <1>6, <1>7

-----------------------------------------------------------------------------
(* The invariant.                                                          *)

\* Before the first connection.
LEMMA InitHolds == Init => RelayInv
<1> SUFFICES ASSUME Init PROVE RelayInv
  OBVIOUS
<1> USE DEF Init, TcpInit, LBInit, HttpInit
<1>1. "front" \in Conn /\ "back" \in Conn /\ <<>> \in Seq(Nat) /\ Len(<<>>) = 0
      /\ <<>> \in Seq({"addTimer", "createBackend"})
  BY EmptySeq DEF Conn
<1>2. conn \in ConnShape /\ sock \in SockShape /\ life \in LifeShape
  BY <1>1 DEF ConnShape, SockShape, LifeShape, NewConn, NewSock, States
<1>3. PeerType
  BY <1>1, TcpAssumption DEF PeerType, Conn
<1>4. HandlerType /\ LoopType
  <2>1. route \in Routes
    BY DEF Routes
  <2>2. HandlerType
    <3>1. deferred \in Seq({"addTimer", "createBackend"})
      BY <1>1
    <3>2. orphans \in 0 .. MaxOrphans /\ opened \in Nat
      BY MaxOrphansAssumption
    <3>3. /\ backend_connected_ = FALSE /\ first_byte_received_ = FALSE
          /\ initial = "none" /\ idleHeld = FALSE /\ waiting_for_initial_data_ = TRUE
      OBVIOUS
    <3> HIDE DEF Init
    <3> QED BY <2>1, <3>1, <3>2, <3>3 DEF HandlerType
  <2>3. LoopType
    BY <1>1 DEF LoopType, Events
  <2> QED BY <2>2, <2>3
<1>5. \A c \in Conn : Len(sock[c].snd) <= SendSpace
  BY <1>1, TcpAssumption DEF NewSock
<1>6. TypeOK
  BY <1>2, <1>3, <1>4, <1>5, TypeParts
<1>7. Quiet
  BY <1>1 DEF Quiet
<1>8. Routed
  BY <1>1 DEF Routed, Http, Routes
<1>9. Made(conn, sock, life) /\ Interest(conn, life) /\ HeadFirst(conn, sock, life, <<>>)
      /\ Answers(conn, sock, life)
  BY <1>1 DEF Made, Interest, HeadFirst, Answers, Answer, NewConn, NewSock
<1>10. Towards(conn, sock, "back", <<>>)
  <2>1. /\ got["back"] = <<>> /\ sock["back"].snd = <<>> /\ conn["back"].output = <<>>
        /\ conn["front"].input = <<>> /\ sock["front"].rcv = <<>> /\ sent["front"] = 0
    BY <1>1 DEF NewConn, NewSock
  <2>2. \A m, x : Follows(<<>>, m, x)
    BY FollowsEmpty
  <2>3. \A x, state, s : Flow(x, <<>>, <<>>, <<>>, <<>>, <<>>, <<>>, 0, state, s)
    BY <1>1, <2>2 DEF Flow
  <2> QED BY <2>1, <2>3 DEF Towards, Other
<1>11. Consistent(conn, sock, life, <<>>, <<>>)
  BY <1>1, <1>2, <1>5, <1>9, <1>10 DEF Consistent
<1> QED BY <1>6, <1>7, <1>8, <1>11 DEF RelayInv

\* A step of a worker that runs a LoadBalancerHandler.
LEMMA LBWorkerKeeps ==
    ASSUME RelayInv, fault = "none", handler_ = "LoadBalancerHandler",
           handler_' = handler_, LBWorker, UNCHANGED httpVars
    PROVE  RelayInv' /\ Stays(conn, conn')
<1>1. CASE \E found \in BOOLEAN : OnConnection(found)
  BY <1>1, OnConnectionKeeps
<1>2. CASE AddInitialTimer
  BY <1>2, TimerKeeps
<1>3. CASE \E link \in {"dead", "pending", "up"} : CreateBackendConnection(link)
  BY <1>3, CreateBackendConnectionKeeps
<1>4. CASE LoopSteps /\ UNCHANGED lbVars
  BY <1>4, LoopKeeps
<1>5. CASE ReadClient
  BY <1>5, ReadClientKeeps
<1>6. ASSUME NEW held \in BOOLEAN, OnCloseTimers(held), UNCHANGED backend_connected_
      PROVE  HandlersRest
  BY <1>6, Same DEF HandlersRest, OnCloseTimers, httpVars, HandlerType, Cancelled
<1>7. CASE ReadResponse
  <2>1. HandlersRest
    BY <1>6, <1>7 DEF ReadResponse
  <2> QED BY <1>7, <2>1, ReadBackendKeeps DEF ReadResponse
<1>8. CASE OnBackendConnected
  <2>1. /\ ConnectCompletes(conn["front"].input) /\ ~ Http
        /\ backend_connected_' = (backend_connected_ \/ ~ sock["back"].err)
        /\ UNCHANGED <<first_byte_received_, timerVars, deferred, httpVars>>
    BY <1>8 DEF OnBackendConnected, SentOnConnect, Http
  <2>2. backend_connected_ \in BOOLEAN /\ backend_connected_' \in BOOLEAN
    BY <2>1, Same DEF HandlerType
  <2>3. sock["back"].err => backend_connected_' = backend_connected_
    BY <2>1, <2>2
  <2>4. HandlerType'
    BY <2>1, <2>2, Same DEF HandlerType, timerVars, httpVars
  <2> QED BY <2>1, <2>3, <2>4, ConnectKeeps DEF httpVars
<1>9. ASSUME NEW c \in Conn, HandleError(c) \/ ReadEnds(c) \/ HandleWrite(c),
             OnCloseTimers(idleHeld), UNCHANGED backend_connected_
      PROVE  RelayInv' /\ Stays(conn, conn')
  <2>1. HandlersRest
    BY <1>6, <1>9, Same DEF HandlerType
  <2> QED BY <1>9, <2>1, ErrorKeeps, ReadEndsKeeps, HandleWriteKeeps
<1> QED BY <1>1, <1>2, <1>3, <1>4, <1>5, <1>7, <1>8, <1>9 DEF LBWorker, LoopSteps

\* A step of a worker that runs an HttpProxyHandler.
LEMMA HttpWorkerKeeps ==
    ASSUME RelayInv, fault = "none", handler_ = "HttpProxyHandler",
           handler_' = handler_, HttpWorker, UNCHANGED lbVars
    PROVE  RelayInv' /\ Stays(conn, conn')
<1>1. CASE ReadRequest
  BY <1>1, FirstRequestKeeps, ForwardRequestKeeps
<1>2. ASSUME UNCHANGED httpVars PROVE HandlersRest
  BY <1>2, Same DEF HandlersRest, httpVars, lbVars, timerVars, HandlerType
<1>3. CASE ConnectEstablished("kConnected") /\ UNCHANGED httpVars
  <2>1. deferred' = <<>>
    <3>1. deferred = <<>>
      BY DEF RelayInv, Routed, Http
    <3> QED BY <3>1 DEF lbVars
  <2> QED BY <1>2, <1>3, <2>1, EstablishedKeeps DEF HandlersRest
<1>4. CASE LoopSteps /\ UNCHANGED httpVars
  BY <1>4, LoopKeeps
<1>5. CASE ReadBackend /\ UNCHANGED httpVars
  BY <1>2, <1>5, ReadBackendKeeps
<1>6. CASE ConnectCompletes(DelayedRequest) /\ UNCHANGED httpVars
  <2>1. HandlersRest /\ Http
    BY <1>2, <1>6 DEF Http
  <2> QED BY <1>6, <2>1, ConnectKeeps DEF HandlersRest, DelayedRequest
<1>7. ASSUME NEW c \in Conn, HandleError(c) \/ ReadEnds(c) \/ HandleWrite(c),
             UNCHANGED httpVars
      PROVE  RelayInv' /\ Stays(conn, conn')
  BY <1>2, <1>7, ErrorKeeps, ReadEndsKeeps, HandleWriteKeeps
<1> QED BY <1>1, <1>3, <1>4, <1>5, <1>6, <1>7 DEF HttpWorker, LoopSteps

\* One step of the whole.
LEMMA NextKeeps ==
    ASSUME RelayInv, [Next]_vars
    PROVE  RelayInv' /\ Stays(conn, conn')
<1>1. ASSUME UNCHANGED vars PROVE RelayInv' /\ Stays(conn, conn')
  <2>1. /\ handler_' = handler_ /\ UNCHANGED <<objectVars, loopVars, lbVars, httpVars>>
        /\ sock' = sock /\ sent' = sent /\ got' = got
    BY <1>1 DEF vars, tcpVars
  <2>2. TypeOK'
    BY <2>1 DEF RelayInv, TypeOK, objectVars, loopVars, lbVars, timerVars, httpVars
  <2>3. Quiet' /\ Routed'
    BY <2>1 DEF RelayInv, Quiet, Routed, Http, objectVars, loopVars, lbVars, httpVars
  <2>4. Consistent(conn, sock, life, <<>>, <<>>)'
    BY <2>1, Unmoved DEF RelayInv, objectVars, httpVars
  <2>5. Stays(conn, conn')
    BY <2>1, Same DEF objectVars
  <2> QED BY <2>2, <2>3, <2>4, <2>5 DEF RelayInv
<1>2. ASSUME Next PROVE RelayInv' /\ Stays(conn, conn')
  <2>1. /\ fault = "none" /\ handler_' = handler_
        /\ Worker \/ Timers \/ Outside(EraseConnection \/ Peers)
    BY <1>2 DEF Next, Step
  <2>2. CASE Worker
    BY <2>1, <2>2, LBWorkerKeeps, HttpWorkerKeeps DEF Worker
  <2>3. CASE Timers
    BY <2>1, <2>3, TimerKeeps DEF Timers
  <2>4. CASE Outside(EraseConnection \/ Peers)
    BY <2>1, <2>4, EraseKeeps, PeerWritesKeeps, PeerReadsKeeps, PeerEndsKeeps
       DEF Outside, Peers
  <2> QED BY <2>1, <2>2, <2>3, <2>4
<1> QED BY <1>1, <1>2

-----------------------------------------------------------------------------
(* What the invariant says of the bytes.                                   *)

\* Numbered bytes are their own numbers, the host's name put back.
LEMMA FromClientIs ==
    ASSUME NEW g \in Seq(Nat), Follows(g, 0, HostIn("back"))
    PROVE  FromClient(g) = [i \in 1 .. Len(g) |-> i]
<1>1. DOMAIN g = 1 .. Len(g) /\ Len(g) \in Nat
  BY LenProperties
<1>2. ASSUME NEW i \in 1 .. Len(g)
      PROVE  (IF g[i] = OwnByte THEN HostAt ELSE g[i]) = i
  <2>1. g[i] = IF 0 + i = HostIn("back") THEN OwnByte ELSE 0 + i
    BY <1>1 DEF Follows
  <2>2. 0 + i = i /\ i # 0
    BY <1>1
  <2>3. HostIn("back") = 0 \/ HostIn("back") = HostAt
    BY DEF HostIn
  <2> QED BY <2>1, <2>2, <2>3 DEF OwnByte
<1> QED BY <1>1, <1>2 DEF FromClient

\* Numbered bytes without the proxy's own are their own numbers.
LEMMA Unmarked ==
    ASSUME NEW g \in Seq(Nat), Follows(g, 0, 0)
    PROVE  g = [i \in 1 .. Len(g) |-> i] /\ g # <<OwnByte>>
<1>1. DOMAIN g = 1 .. Len(g) /\ Len(g) \in Nat
  BY LenProperties
<1>2. ASSUME NEW i \in 1 .. Len(g) PROVE g[i] = i
  <2>1. g[i] = IF 0 + i = 0 THEN OwnByte ELSE 0 + i
    BY <1>1 DEF Follows
  <2>2. 0 + i = i /\ i # 0
    BY <1>1
  <2> QED BY <2>1, <2>2
<1>3. g = [i \in 1 .. Len(g) |-> g[i]]
  BY <1>1
<1>4. g # <<OwnByte>>
  <2> SUFFICES ASSUME g = <<OwnByte>> PROVE FALSE
    OBVIOUS
  <2>1. Len(g) = 1 /\ g[1] = OwnByte
    OBVIOUS
  <2> QED BY <1>2, <2>1 DEF OwnByte
<1> QED BY <1>2, <1>3, <1>4

\* Two pieces without a byte of the proxy's own.
LEMMA NoOwnConcat ==
    ASSUME NEW s \in Seq(Nat), NEW t \in Seq(Nat),
           \A i \in DOMAIN s : s[i] # OwnByte, \A i \in DOMAIN t : t[i] # OwnByte
    PROVE  s \o t \in Seq(Nat) /\ \A i \in DOMAIN (s \o t) : (s \o t)[i] # OwnByte
<1> DEFINE c == s \o t
           l == Len(s)
           m == Len(t)
<1>1. /\ c \in Seq(Nat) /\ Len(c) = l + m /\ l \in Nat /\ m \in Nat
      /\ \A i \in 1 .. l + m : c[i] = IF i <= l THEN s[i] ELSE t[i - l]
      /\ DOMAIN s = 1 .. l /\ DOMAIN t = 1 .. m
  BY ConcatProperties, LenProperties
<1> HIDE DEF c, l, m
<1>2. DOMAIN c = 1 .. l + m
  BY <1>1, LenProperties
<1>3. ASSUME NEW i \in 1 .. l + m PROVE c[i] # OwnByte
  <2>1. CASE i <= l
    <3>1. i \in 1 .. l
      BY <1>1, <2>1
    <3> QED BY <1>1, <2>1, <3>1
  <2>2. CASE ~ (i <= l)
    <3> DEFINE j == i - l
    <3>1. j \in 1 .. m /\ c[i] = t[j]
      BY <1>1, <2>2
    <3> HIDE DEF j
    <3> QED BY <1>1, <3>1
  <2> QED BY <2>1, <2>2
<1> QED BY <1>1, <1>2, <1>3 DEF c

\* The pieces of a direction that is up, put together.
LEMMA InOrder ==
    ASSUME NEW g \in Seq(Nat), NEW s \in Seq(Nat), NEW w \in Seq(Nat),
           NEW q \in Seq(Nat), NEW r \in Seq(Nat), NEW x \in Nat, NEW n \in Nat,
           Follows(g, 0, x), Follows(s, Len(g), x), Follows(w, Len(g) + Len(s), x),
           Follows(q, Len(g) + Len(s) + Len(w), x), Follows(r, n - Len(r), x),
           Len(g) + Len(s) + Len(w) + Len(q) + Len(r) = n
    PROVE  LET all == g \o (s \o w \o q \o r)
           IN  all \in Seq(Nat) /\ Len(all) = n /\ Follows(all, 0, x)
<1> DEFINE G == Len(g)
           f1 == s \o w
           f2 == f1 \o q
           f3 == f2 \o r
           all == g \o f3
<1>1. /\ G \in Nat /\ Len(s) \in Nat /\ Len(w) \in Nat /\ Len(q) \in Nat /\ Len(r) \in Nat
  OBVIOUS
<1> HIDE DEF G
<1>2. f1 \in Seq(Nat) /\ Len(f1) = Len(s) + Len(w) /\ Follows(f1, G, x)
  BY <1>1, FollowsConcat DEF G
<1> HIDE DEF f1
<1>3. f2 \in Seq(Nat) /\ Len(f2) = Len(s) + Len(w) + Len(q) /\ Follows(f2, G, x)
  <2>1. G + Len(f1) = G + Len(s) + Len(w)
    BY <1>1, <1>2
  <2>2. Follows(q, G + Len(f1), x)
    BY <2>1 DEF G
  <2> QED BY <1>1, <1>2, <2>2, FollowsConcat
<1> HIDE DEF f2
<1>4. f3 \in Seq(Nat) /\ Len(f3) = Len(s) + Len(w) + Len(q) + Len(r) /\ Follows(f3, G, x)
  <2>1. G + Len(f2) = n - Len(r)
    BY <1>1, <1>3 DEF G
  <2>2. Follows(r, G + Len(f2), x)
    BY <2>1
  <2> QED BY <1>1, <1>3, <2>2, FollowsConcat
<1> HIDE DEF f3
<1>5. all \in Seq(Nat) /\ Len(all) = G + Len(f3) /\ Follows(all, 0, x)
  <2>1. 0 + Len(g) = G
    BY <1>1 DEF G
  <2>2. Follows(f3, 0 + Len(g), x)
    BY <1>4, <2>1
  <2> QED BY <1>4, <2>2, FollowsConcat DEF G
<1>6. G + Len(f3) = n
  BY <1>1, <1>4 DEF G
<1> HIDE DEF all
<1>7. all \in Seq(Nat) /\ Len(all) = n /\ Follows(all, 0, x)
  BY <1>5, <1>6
<1> QED BY <1>7 DEF all, f1, f2, f3

\* ... in the terms of the invariant.
LEMMA FlowInOrder ==
    ASSUME NEW x, NEW g, NEW s, NEW w, NEW q, NEW r, NEW n,
           FlowTypes(Nat, x, g, s, w, <<>>, q, r, n),
           Flow(x, g, s, w, <<>>, q, r, n, "kConnected", "up"),
           x <= Len(g) + Len(s) + Len(w)
    PROVE  LET all == g \o (s \o w \o q \o r)
           IN  all \in Seq(Nat) /\ Len(all) = n /\ Follows(all, 0, x)
<1> DEFINE p == Len(g) + Len(s) + Len(w)
<1>1. /\ x \in Nat /\ n \in Nat /\ g \in Seq(Nat) /\ s \in Seq(Nat) /\ w \in Seq(Nat)
      /\ q \in Seq(Nat) /\ r \in Seq(Nat) /\ p \in Nat /\ Len(q) \in Nat /\ Len(r) \in Nat
      /\ Len(<<>>) = 0
  BY DEF FlowTypes
<1>2. /\ Follows(g, 0, x) /\ Follows(s, Len(g), x) /\ Follows(w, Len(g) + Len(s), x)
      /\ Follows(r, n - Len(r), 0) /\ Follows(q, p + 0, 0) /\ p + 0 + Len(q) + Len(r) = n
  BY <1>1 DEF Flow
<1>3. x <= p
  OBVIOUS
<1> HIDE DEF p
<1>4. p + 0 = p /\ p + Len(q) + Len(r) = n
  BY <1>1, <1>2
<1> DEFINE m == n - Len(r)
<1>5. m \in Nat /\ x <= m
  BY <1>1, <1>3, <1>4
<1>6. Follows(q, p, 0) /\ Follows(r, m, 0)
  BY <1>2, <1>4
<1> HIDE DEF m
<1>7. Follows(q, p, x) /\ Follows(r, m, x)
  BY <1>1, <1>3, <1>5, <1>6, FollowsPast
<1> QED BY <1>1, <1>2, <1>4, <1>7, InOrder DEF p, m

-----------------------------------------------------------------------------
(* Theorems.                                                               *)

\* The inductive invariant holds always.
THEOREM RelayInvariant == Spec => []RelayInv
<1>1. Init => RelayInv
  BY InitHolds
<1>2. RelayInv /\ [Next]_vars => RelayInv'
  BY NextKeeps
<1> QED BY <1>1, <1>2, PTL DEF Spec

\* The state is typed, and the kernel holds no more than it has room for.
THEOREM RelayTypeCorrect == Spec => []TypeOK
<1>1. RelayInv => TypeOK
  BY DEF RelayInv
<1> QED BY <1>1, RelayInvariant, PTL

\* Interest in writability is neither lost, which would leave bytes waiting,
\* nor kept, which would keep epoll from blocking
\* (tcp_connection.cpp:196, 318).
THEOREM WritabilityFollowsTheBuffer == Spec => []WritingWhilePending
<1>1. RelayInv => WritingWhilePending
  BY DEF RelayInv, Consistent, Interest, WritingWhilePending
<1> QED BY <1>1, RelayInvariant, PTL

\* A side that was told to stop reading has somebody to tell it to go on
\* (load_balancer_handler.cpp:139-148, http_proxy_handler.cpp:176-201).
THEOREM ThePausedAreResumed == Spec => []PausedWillResume
<1>1. RelayInv => PausedWillResume
  BY DEF RelayInv, Consistent, Interest, PausedWillResume, Relaying
<1> QED BY <1>1, RelayInvariant, PTL

\* A backend's connection is opened once for a client's, whatever the routing
\* table says (http_proxy_handler.cpp:20, 117).
THEOREM OneBackendIsOpened == Spec => []OneBackend
<1>1. RelayInv => OneBackend
  BY DEF RelayInv, Routed, OneBackend
<1> QED BY <1>1, RelayInvariant, PTL

\* A backend never sees the Host that its client sent, and sees the rest of
\* the request as it was written (http_proxy_handler.cpp:20-54, 244-255).
THEOREM BackendsSeeTheirHost == Spec => []HostRewritten
<1>1. ASSUME RelayInv PROVE HostRewritten
  <2>1. Follows(got["back"], 0, HostIn("back"))
    BY <1>1, PeerFacts DEF Towards, Flow
  <2> SUFFICES ASSUME Http, NEW i \in DOMAIN got["back"]
               PROVE  got["back"][i] = IF i = HostAt THEN OwnByte ELSE i
    BY DEF HostRewritten
  <2>2. HostIn("back") = HostAt
    BY DEF HostIn
  <2>3. i \in Nat
    <3>1. got["back"] \in Seq(Nat)
      BY <1>1, PeerFacts DEF PeerType
    <3> QED BY <3>1
  <2>4. 0 + i = i
    BY <2>3
  <2> QED BY <2>1, <2>2, <2>4 DEF Follows
<1> QED BY <1>1, RelayInvariant, PTL

\* A relay that is up loses, repeats and reorders nothing, wherever its bytes
\* are (tcp_connection.cpp:142-216, 273-344).
THEOREM NothingIsLost == Spec => []NothingLost
<1>1. ASSUME RelayInv, Relaying PROVE
        /\ FromClient(got["back"] \o InFlight("front")) = [i \in 1 .. sent["front"] |-> i]
        /\ got["front"] \o InFlight("back") = [i \in 1 .. sent["back"] |-> i]
  <2>1. /\ conn \in ConnShape /\ sock \in SockShape /\ PeerType
        /\ "front" \in Conn /\ "back" \in Conn
        /\ Towards(conn, sock, "back", <<>>) /\ Towards(conn, sock, "front", <<>>)
        /\ HeadFirst(conn, sock, life, <<>>) /\ life["back"] # "none"
        /\ <<>> \in Seq(Nat) /\ Len(<<>>) = 0
    BY <1>1, PeerFacts, EmptySeq DEF Relaying
  <2>2. Other("front") = "back" /\ Other("back") = "front"
    BY DEF Other
  <2>p. ASSUME NEW c \in Conn PROVE Passed(conn, sock, c) \in Nat
    <3>1. conn[c].output \in Seq(Nat) /\ sock[c].snd \in Seq(Nat)
      BY <2>1 DEF ConnShape, SockShape
    <3>2. got[c] \in Seq(Nat)
      BY <2>1 DEF PeerType
    <3>3. Len(got[c]) \in Nat /\ Len(sock[c].snd) \in Nat /\ Len(conn[c].output) \in Nat
      BY <3>1, <3>2
    <3> DEFINE k == Len(got[c])
               l == Len(sock[c].snd)
               m == Len(conn[c].output)
    <3> HIDE DEF k, l, m
    <3>4. k \in Nat /\ l \in Nat /\ m \in Nat
      BY <3>3 DEF k, l, m
    <3>5. k + l + m \in Nat
      BY <3>4
    <3>6. Passed(conn, sock, c) = k + l + m
      BY DEF Passed, k, l, m
    <3> QED BY <3>5, <3>6
  <2>3. HostIn("back") <= Passed(conn, sock, "back")
    <3>1. Passed(conn, sock, "back") \in Nat
      BY <2>1, <2>p
    <3>2. CASE Http
      <4>1. Passed(conn, sock, "back") + 0 >= HeadLen
        BY <1>1, <2>1, <3>2 DEF HeadFirst, Relaying
      <4> QED BY <3>1, <3>2, <4>1, HeadAssumption DEF HostIn
    <3>3. CASE ~ Http
      BY <3>1, <3>3 DEF HostIn
    <3> QED BY <3>2, <3>3
  <2>4. ASSUME NEW c \in Conn, Towards(conn, sock, c, <<>>),
               HostIn(c) <= Passed(conn, sock, c)
        PROVE  LET all == got[c] \o InFlight(Other(c))
               IN  /\ all \in Seq(Nat) /\ Len(all) = sent[Other(c)]
                   /\ Follows(all, 0, HostIn(c))
    <3>1. FlowTypes(Nat, HostIn(c), got[c], sock[c].snd, conn[c].output, <<>>,
                    conn[Other(c)].input, sock[Other(c)].rcv, sent[Other(c)])
      BY <2>1, TowardsTypes DEF PeerType
    <3>2. Flow(HostIn(c), got[c], sock[c].snd, conn[c].output, <<>>,
               conn[Other(c)].input, sock[Other(c)].rcv, sent[Other(c)],
               "kConnected", "up")
      BY <1>1, <2>4 DEF Towards, Relaying
    <3>3. InFlight(Other(c)) = sock[c].snd \o conn[c].output \o conn[Other(c)].input
                                   \o sock[Other(c)].rcv
      <4>1. Other(Other(c)) = c
        BY DEF Other, Conn
      <4> QED BY <4>1 DEF InFlight
    <3> DEFINE x == HostIn(c)
               g == got[c]
               s == sock[c].snd
               w == conn[c].output
               q == conn[Other(c)].input
               r == sock[Other(c)].rcv
               n == sent[Other(c)]
    <3>4. x <= Len(g) + Len(s) + Len(w)
      BY <2>4 DEF Passed
    <3> HIDE DEF x, g, s, w, q, r, n
    <3>5. /\ FlowTypes(Nat, x, g, s, w, <<>>, q, r, n)
          /\ Flow(x, g, s, w, <<>>, q, r, n, "kConnected", "up")
      BY <3>1, <3>2 DEF x, g, s, w, q, r, n
    <3>6. LET all == g \o (s \o w \o q \o r)
          IN  all \in Seq(Nat) /\ Len(all) = n /\ Follows(all, 0, x)
      BY <3>4, <3>5, FlowInOrder
    <3> QED BY <3>3, <3>6 DEF x, g, s, w, q, r, n
  <2>5. FromClient(got["back"] \o InFlight("front")) = [i \in 1 .. sent["front"] |-> i]
    <3> DEFINE all == got["back"] \o InFlight("front")
    <3>1. all \in Seq(Nat) /\ Len(all) = sent["front"] /\ Follows(all, 0, HostIn("back"))
      BY <2>1, <2>2, <2>3, <2>4
    <3> HIDE DEF all
    <3>2. FromClient(all) = [i \in 1 .. sent["front"] |-> i]
      BY <3>1, FromClientIs
    <3> QED BY <3>2 DEF all
  <2>6. got["front"] \o InFlight("back") = [i \in 1 .. sent["back"] |-> i]
    <3> DEFINE all == got["front"] \o InFlight("back")
    <3>1. HostIn("front") = 0 /\ HostIn("front") <= Passed(conn, sock, "front")
      <4>1. HostIn("front") = 0 /\ Passed(conn, sock, "front") \in Nat
        BY <2>1, <2>p DEF HostIn
      <4> QED BY <4>1
    <3>2. all \in Seq(Nat) /\ Len(all) = sent["back"] /\ Follows(all, 0, HostIn("front"))
      BY <2>1, <2>2, <2>4, <3>1
    <3> HIDE DEF all
    <3>3. all = [i \in 1 .. sent["back"] |-> i]
      BY <3>1, <3>2, Unmarked
    <3> QED BY <3>3 DEF all
  <2> QED BY <2>5, <2>6
<1>2. RelayInv => NothingLost
  BY <1>1 DEF NothingLost
<1> QED BY <1>2, RelayInvariant, PTL

\* The 404 response is all its client is ever sent, and is sent once
\* (http_proxy_handler.cpp:79-92).
THEOREM NotFoundIsAnsweredOnce == Spec => []NotFoundOnce
<1>1. ASSUME RelayInv PROVE NotFoundOnce
  <2> DEFINE g == got["front"]
             s == sock["front"].snd
             w == conn["front"].output
             answer == g \o s \o w
  <2>1. /\ g \in Seq(Nat) /\ s \in Seq(Nat) /\ w \in Seq(Nat)
        /\ Answers(conn, sock, life) /\ Made(conn, sock, life) /\ "front" \in Conn
        /\ life["back"] # "none" => Towards(conn, sock, "front", <<>>)
    BY <1>1, PeerFacts DEF PeerType, ConnShape, SockShape
  <2>2. CASE life["back"] = "none"
    <3>1. \/ g = <<>> /\ s = <<>> /\ w = <<>>
          \/ g = <<OwnByte>> /\ s = <<>> /\ w = <<>>
          \/ g = <<>> /\ s = <<OwnByte>> /\ w = <<>>
      BY <2>1, <2>2 DEF Answers, Answer
    <3> HIDE DEF g, s, w
    <3>2. answer = <<>> \/ answer = <<OwnByte>>
      <4>1. /\ <<>> \o <<>> = <<>> /\ <<OwnByte>> \o <<>> = <<OwnByte>>
            /\ <<>> \o <<OwnByte>> = <<OwnByte>>
        <5>1. <<OwnByte>> \in Seq(Nat)
          BY DEF OwnByte
        <5> QED BY <5>1, ConcatEmptySeq
      <4> QED BY <3>1, <4>1
    <3>3. (\E i \in DOMAIN answer : answer[i] = OwnByte) => answer = <<OwnByte>>
      <4> HIDE DEF answer
      <4>1. DOMAIN <<>> = {}
        OBVIOUS
      <4> QED BY <3>2, <4>1
    <3> QED BY <2>2, <3>3 DEF NotFoundOnce, g, s, w
  <2>3. CASE life["back"] # "none"
    <3>1. /\ Follows(g, 0, 0)
          /\ sock["front"].link # "dead" => Follows(s, Len(g), 0)
          /\ sock["front"].link = "dead" => s = <<>>
          /\ OwnByte \notin Range(w)
      <4>1. HostIn("front") = 0
        BY DEF HostIn
      <4> QED BY <2>1, <2>3, <4>1 DEF Towards, Flow, Made, Answers
    <3>2. \A m \in Nat : \A t \in Seq(Nat) : Follows(t, m, 0) =>
              \A i \in DOMAIN t : t[i] # OwnByte
      <4> SUFFICES ASSUME NEW m \in Nat, NEW t \in Seq(Nat), Follows(t, m, 0),
                          NEW i \in DOMAIN t
                   PROVE  t[i] # OwnByte
        OBVIOUS
      <4>1. i \in Nat /\ i >= 1
        OBVIOUS
      <4>2. m + i # 0
        BY <4>1
      <4> QED BY <4>2 DEF Follows, OwnByte
    <3>3. \A i \in DOMAIN s : s[i] # OwnByte
      <4>1. CASE sock["front"].link = "dead"
        BY <3>1, <4>1
      <4>2. CASE sock["front"].link # "dead"
        <5>1. Len(g) \in Nat
          BY <2>1
        <5> QED BY <2>1, <3>1, <3>2, <4>2, <5>1
      <4> QED BY <4>1, <4>2
    <3>4. /\ \A i \in DOMAIN g : g[i] # OwnByte
          /\ \A i \in DOMAIN w : w[i] # OwnByte
      BY <2>1, <3>1, <3>2 DEF Range
    <3> HIDE DEF g, s, w
    <3>5. \A i \in DOMAIN answer : answer[i] # OwnByte
      <4>1. g \o s \in Seq(Nat) /\ \A i \in DOMAIN (g \o s) : (g \o s)[i] # OwnByte
        BY <2>1, <3>3, <3>4, NoOwnConcat
      <4> QED BY <2>1, <3>4, <4>1, NoOwnConcat
    <3> QED BY <3>5 DEF NotFoundOnce, g, s, w
  <2> QED BY <2>2, <2>3
<1> QED BY <1>1, RelayInvariant, PTL

\* A connection that was closed stays closed, and one that is closing is not
\* made to send again (tcp_connection.cpp:117-123).
THEOREM NoConnectionIsRevived == Spec => NeverReopened
<1>1. RelayInv /\ [Next]_vars =>
        [\A c \in Conn :
          /\ conn[c].state = "kDisConnected" => conn'[c].state = "kDisConnected"
          /\ conn[c].state = "kDisConnecting" => conn'[c].state # "kConnected"]_vars
  BY NextKeeps DEF Stays
<1> QED BY <1>1, RelayInvariant, PTL DEF Spec, NeverReopened

\* Only the peers write and read what is history.
LEMMA OnlyPeersCount ==
    ASSUME Next
    PROVE  \/ UNCHANGED <<sent, got>>
           \/ \E c \in Conn : PeerWrites(c)
           \/ \E c \in Conn : PeerReads(c)
<1>1. CASE LBWorker
  BY <1>1 DEF LBWorker, OnConnection, ConnectEstablished, AddInitialTimer,
      CreateBackendConnection, EndFunctors, Poll, EndEvents, HandleDestroyed,
      ReadClient, ReadResponse, ReadBackend, OnBackendConnected, ConnectCompletes,
      HandleEvent, HandleError, ReadEnds, HandleWrite, Finish
<1>2. CASE HttpWorker
  BY <1>2 DEF HttpWorker, ReadRequest, ConnectEstablished, EndFunctors, Poll, EndEvents,
      HandleDestroyed, ReadBackend, ConnectCompletes, HandleEvent, HandleError,
      ReadEnds, HandleWrite, Finish
<1>3. CASE LBTimers
  BY <1>3 DEF LBTimers, InitialTimerFires, IdleTimerFires
<1>4. CASE EraseConnection \/ Peers
  BY <1>4 DEF EraseConnection, Peers, PeerCloses, PeerResets, PeerAccepts
<1> QED BY <1>1, <1>2, <1>3, <1>4 DEF Next, Step, Worker, Timers, Outside

\* Bytes that are their own numbers, and the next.
LEMMA OneMore ==
    ASSUME NEW n \in Nat
    PROVE  LET s == [i \in 1 .. n |-> i]
           IN  Len(s) = n /\ Append(s, Len(s) + 1) = [i \in 1 .. n + 1 |-> i]
<1> DEFINE s == [i \in 1 .. n |-> i]
<1>1. s \in Seq(Nat) /\ Len(s) = n
  <2>1. s \in [1 .. n -> Nat]
    OBVIOUS
  <2> HIDE DEF s
  <2>2. s \in Seq(Nat)
    BY <2>1
  <2>3. DOMAIN s = 1 .. n
    BY <2>1
  <2> QED BY <2>2, <2>3, LenProperties
<1>2. \A i \in 1 .. n : s[i] = i
  OBVIOUS
<1> HIDE DEF s
<1> DEFINE t == Append(s, n + 1)
<1>3. /\ t \in Seq(Nat) /\ Len(t) = n + 1 /\ \A i \in 1 .. n : t[i] = s[i]
      /\ t[n + 1] = n + 1
  BY <1>1, AppendProperties
<1> HIDE DEF t
<1>4. DOMAIN t = 1 .. n + 1 /\ \A i \in 1 .. n + 1 : t[i] = i
  <2>1. DOMAIN t = 1 .. n + 1
    BY <1>3, LenProperties
  <2>2. \A i \in 1 .. n + 1 : i \in 1 .. n \/ i = n + 1
    OBVIOUS
  <2> QED BY <1>2, <1>3, <2>1, <2>2
<1>5. t = [i \in DOMAIN t |-> t[i]]
  BY <1>3
<1>6. t = [i \in 1 .. n + 1 |-> i]
  BY <1>4, <1>5
<1> QED BY <1>1, <1>6 DEF s, t

\* The backend reads the next of the client's bytes.
LEMMA BackendReads ==
    ASSUME NEW g \in Seq(Nat), NEW b \in Nat, Follows(g, 0, HostIn("back")),
           Follows(Append(g, b), 0, HostIn("back"))
    PROVE  /\ Len(FromClient(g)) = Len(g)
           /\ FromClient(Append(g, b)) = Append(FromClient(g), Len(FromClient(g)) + 1)
<1> DEFINE n == Len(g)
           t == Append(g, b)
<1>1. n \in Nat /\ t \in Seq(Nat) /\ Len(t) = n + 1
  BY AppendProperties, LenProperties
<1>2. FromClient(g) = [i \in 1 .. n |-> i]
  BY FromClientIs
<1> HIDE DEF n, t
<1>3. FromClient(t) = [i \in 1 .. n + 1 |-> i]
  <2>1. Follows(t, 0, HostIn("back"))
    BY DEF t
  <2> QED BY <1>1, <2>1, FromClientIs
<1> QED BY <1>1, <1>2, <1>3, OneMore DEF n, t

\* The client reads the next of the backend's bytes, or the proxy's own.
LEMMA ClientReads ==
    ASSUME NEW g \in Seq(Nat), NEW b \in Nat, Follows(g, 0, 0),
           Follows(Append(g, b), 0, 0)
    PROVE  /\ FromBackend(g) = g /\ FromBackend(Append(g, b)) = Append(g, b)
           /\ b = Len(g) + 1
<1> DEFINE t == Append(g, b)
           n == Len(g)
<1>1. n \in Nat /\ t \in Seq(Nat) /\ Len(t) = n + 1 /\ t[n + 1] = b
  BY AppendProperties, LenProperties
<1>2. g # <<OwnByte>>
  BY Unmarked
<1> HIDE DEF t, n
<1>3. t # <<OwnByte>> /\ t = [i \in 1 .. n + 1 |-> i]
  <2>1. Follows(t, 0, 0)
    BY DEF t
  <2> QED BY <1>1, <2>1, Unmarked
<1>4. b = n + 1
  <2>1. n + 1 \in 1 .. n + 1
    BY <1>1
  <2> QED BY <1>1, <1>3, <2>1
<1> QED BY <1>2, <1>3, <1>4 DEF FromBackend, t, n

\* A step of the peers is a step of the pipes.
LEMMA PipeWrites ==
    ASSUME RelayInv, NEW c \in Conn, PeerWrites(c)
    PROVE  [ToBackend!Next]_(ToBackend!pipeVars) /\ [ToClient!Next]_(ToClient!pipeVars)
<1>1. sent' = [sent EXCEPT ![c] = @ + 1] /\ got' = got /\ sent \in [Conn -> Nat]
  BY PeerFacts DEF PeerWrites, PeerType
<1>2. "front" \in Conn /\ "back" \in Conn
  BY DEF Conn
<1>3. /\ FromClient(got["back"])' = FromClient(got["back"])
      /\ FromBackend(got["front"])' = FromBackend(got["front"])
  BY <1>1 DEF FromClient, FromBackend
<1>4. CASE c = "front"
  <2>1. sent'["front"] = sent["front"] + 1 /\ sent'["back"] = sent["back"]
    BY <1>1, <1>2, <1>4
  <2> QED BY <1>3, <2>1 DEF ToBackend!Next, ToBackend!Write, ToClient!pipeVars
<1>5. CASE c = "back"
  <2>1. sent'["back"] = sent["back"] + 1 /\ sent'["front"] = sent["front"]
    BY <1>1, <1>2, <1>5
  <2> QED BY <1>3, <2>1 DEF ToClient!Next, ToClient!Write, ToBackend!pipeVars
<1> QED BY <1>4, <1>5 DEF Conn

\* ... and so is one in which it reads.
LEMMA PipeReads ==
    ASSUME RelayInv, NEW c \in Conn, PeerReads(c)
    PROVE  [ToBackend!Next]_(ToBackend!pipeVars) /\ [ToClient!Next]_(ToClient!pipeVars)
<1> DEFINE b == Head(sock[c].snd)
           g == got[c]
<1>1. /\ got' = [got EXCEPT ![c] = Append(g, b)] /\ sent' = sent /\ sock[c].snd # <<>>
      /\ got \in [Conn -> Seq(Nat)] /\ sent \in [Conn -> Nat]
  BY PeerFacts DEF PeerReads, PeerType
<1>2. "front" \in Conn /\ "back" \in Conn
  BY DEF Conn
<1>3. g \in Seq(Nat) /\ b \in Nat
  <2>1. sock[c].snd \in Seq(Nat)
    BY PeerFacts DEF SockShape
  <2> QED BY <1>1, <2>1, HeadTailProperties
<1>4. c = "back" \/ life["back"] # "none" => Follows(g, 0, HostIn(c))
  BY PeerFacts DEF Towards, Flow, Conn
<1>5. \/ /\ c = "back" \/ life["back"] # "none"
         /\ Len(g) < sent[Other(c)] /\ Follows(Append(g, b), 0, HostIn(c))
      \/ /\ c = "front" /\ g = <<>> /\ sock["front"].snd = <<OwnByte>>
  BY NextByte DEF Flow
<1>6. CASE c = "back"
  <2>1. got'["front"] = got["front"] /\ got'["back"] = Append(g, b) /\ g = got["back"]
    BY <1>1, <1>2, <1>6
  <2>2. Len(g) < sent["front"] /\ Follows(Append(g, b), 0, HostIn("back"))
        /\ Follows(g, 0, HostIn("back"))
    BY <1>4, <1>5, <1>6 DEF Other
  <2> HIDE DEF b, g
  <2>3. /\ Len(FromClient(g)) = Len(g)
        /\ FromClient(Append(g, b)) = Append(FromClient(g), Len(FromClient(g)) + 1)
    BY <1>3, <2>2, BackendReads
  <2>4. /\ FromClient(got["back"])' = FromClient(Append(g, b))
        /\ FromClient(got["back"]) = FromClient(g)
        /\ FromBackend(got["front"])' = FromBackend(got["front"])
    BY <2>1 DEF FromClient, FromBackend
  <2>5. ToBackend!Read
    BY <1>1, <2>2, <2>3, <2>4 DEF ToBackend!Read
  <2>6. UNCHANGED ToClient!pipeVars
    BY <1>1, <2>4 DEF ToClient!pipeVars
  <2> QED BY <2>5, <2>6 DEF ToBackend!Next
<1>7. CASE c = "front"
  <2>1. got'["back"] = got["back"] /\ got'["front"] = Append(g, b) /\ g = got["front"]
    BY <1>1, <1>2, <1>7
  <2>2. HostIn("front") = 0 /\ Other("front") = "back"
    BY DEF HostIn, Other
  <2>3. /\ FromClient(got["back"])' = FromClient(got["back"])
        /\ FromBackend(got["front"])' = FromBackend(Append(g, b))
        /\ FromBackend(got["front"]) = FromBackend(g)
    BY <2>1 DEF FromClient, FromBackend
  <2>4. UNCHANGED ToBackend!pipeVars
    BY <1>1, <2>3 DEF ToBackend!pipeVars
  <2>5. CASE g = <<>> /\ sock["front"].snd = <<OwnByte>>
    <3>1. b = OwnByte
      BY <1>7, <2>5
    <3> HIDE DEF b, g
    <3>2. Append(g, b) = <<OwnByte>>
      BY <2>5, <3>1
    <3>3. FromBackend(Append(g, b)) = <<>> /\ FromBackend(g) = <<>>
      BY <2>5, <3>2 DEF FromBackend
    <3> QED BY <1>1, <2>3, <2>4, <3>3 DEF ToClient!pipeVars
  <2>6. CASE /\ c = "back" \/ life["back"] # "none"
             /\ Len(g) < sent["back"] /\ Follows(Append(g, b), 0, 0)
    <3>1. Follows(g, 0, 0)
      BY <1>4, <1>7, <2>2, <2>6
    <3> HIDE DEF b, g
    <3>2. /\ FromBackend(g) = g /\ FromBackend(Append(g, b)) = Append(g, b)
          /\ b = Len(g) + 1
      BY <1>3, <2>6, <3>1, ClientReads
    <3>3. ToClient!Read
      BY <1>1, <2>3, <2>6, <3>2 DEF ToClient!Read
    <3> QED BY <2>4, <3>3 DEF ToClient!Next
  <2> QED BY <1>5, <1>7, <2>2, <2>5, <2>6
<1> QED BY <1>6, <1>7 DEF Conn

\* Each direction is the abstract pipe: what its receiver reads is the next
\* byte its sender wrote (load_balancer_handler.cpp:57, 154,
\* http_proxy_handler.cpp:39-47, 244-254).
THEOREM EachDirectionIsAPipe == Spec => ImplementsPipes
<1>1. Init => ToBackend!Init /\ ToClient!Init
  <2> SUFFICES ASSUME Init PROVE ToBackend!Init /\ ToClient!Init
    OBVIOUS
  <2>1. /\ sent["front"] = 0 /\ sent["back"] = 0
        /\ got["front"] = <<>> /\ got["back"] = <<>>
    BY DEF Init, TcpInit, Conn
  <2>2. FromClient(<<>>) = <<>>
    BY DEF FromClient
  <2>3. FromBackend(<<>>) = <<>>
    BY DEF FromBackend
  <2> QED BY <2>1, <2>2, <2>3 DEF ToBackend!Init, ToClient!Init
<1>2. RelayInv /\ [Next]_vars =>
          [ToBackend!Next]_(ToBackend!pipeVars) /\ [ToClient!Next]_(ToClient!pipeVars)
  <2>1. ASSUME UNCHANGED <<sent, got>>
        PROVE  UNCHANGED ToBackend!pipeVars /\ UNCHANGED ToClient!pipeVars
    BY <2>1 DEF ToBackend!pipeVars, ToClient!pipeVars, FromClient, FromBackend
  <2>2. UNCHANGED vars => UNCHANGED <<sent, got>>
    BY DEF vars, tcpVars
  <2> QED BY <2>1, <2>2, OnlyPeersCount, PipeWrites, PipeReads
<1> QED BY <1>1, <1>2, RelayInvariant, PTL DEF Spec, ImplementsPipes, ToBackend!Spec, ToClient!Spec
=============================================================================
