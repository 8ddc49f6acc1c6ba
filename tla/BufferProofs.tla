---------------------------- MODULE BufferProofs ----------------------------
(***************************************************************************)
(* For every size of the prepend area, of the vector, of readFd's buffer   *)
(* on the stack and of the backlog: the indices stay in order, the vector  *)
(* stays within its bound, and the operations are those of a queue.        *)
(***************************************************************************)
EXTENDS Buffer, SequenceTheorems, TLAPS

-----------------------------------------------------------------------------
(* Copying into a vector.                                                  *)

\* std::copy inside the vector changes the elements it covers and no other.
LEMMA OverlayProperties ==
    ASSUME NEW cells \in Seq(Byte), NEW data \in Seq(Byte), NEW at \in Nat
    PROVE  /\ Overlay(cells, at, data) \in Seq(Byte)
           /\ Len(Overlay(cells, at, data)) = Len(cells)
           /\ \A i \in 1 .. Len(cells) :
                 Overlay(cells, at, data)[i] =
                    IF at < i /\ i <= at + Len(data) THEN data[i - at] ELSE cells[i]
<1>1. /\ DOMAIN cells = 1 .. Len(cells) /\ Len(cells) \in Nat
      /\ \A i \in 1 .. Len(cells) : cells[i] \in Byte
  BY LenProperties, ElementOfSeq
<1>2. Len(data) \in Nat /\ \A i \in 1 .. Len(data) : data[i] \in Byte
  BY LenProperties, ElementOfSeq
<1>3. ASSUME NEW i \in 1 .. Len(cells), at < i, i <= at + Len(data)
      PROVE  data[i - at] \in Byte
  <2>1. i - at \in 1 .. Len(data)
    BY <1>1, <1>2, <1>3
  <2> QED BY <1>2, <2>1
<1>4. Overlay(cells, at, data) \in [1 .. Len(cells) -> Byte]
  BY <1>1, <1>3 DEF Overlay
<1>5. Overlay(cells, at, data) \in Seq(Byte)
  BY <1>1, <1>4
<1>6. Len(Overlay(cells, at, data)) = Len(cells)
  BY <1>1, <1>4, <1>5, LenProperties
<1> QED BY <1>1, <1>5, <1>6 DEF Overlay

\* The bytes queued in a store s, and what every store satisfies.
Content(s) == SubSeq(s.cells, s.reader + 1, s.writer)

StoreOK(s) ==
    /\ s \in [cells : Seq(Byte), reader : Nat, writer : Nat]
    /\ s.reader <= s.writer /\ s.writer <= Len(s.cells)

\* The elements after the first m up to the n-th.
LEMMA Slice ==
    ASSUME NEW cells \in Seq(Byte), NEW m \in Nat, NEW n \in Nat,
           m <= n, n <= Len(cells)
    PROVE  /\ SubSeq(cells, m + 1, n) \in Seq(Byte)
           /\ Len(SubSeq(cells, m + 1, n)) = n - m
           /\ \A i \in 1 .. n - m : SubSeq(cells, m + 1, n)[i] = cells[m + i]
<1>1. Len(cells) \in Nat
  BY LenProperties
<1>2. m + 1 \in Int /\ n \in Int
  OBVIOUS
<1>3. ASSUME NEW i \in m + 1 .. n PROVE cells[i] \in Byte
  <2>1. i \in 1 .. Len(cells)
    BY <1>1
  <2> QED BY <2>1, ElementOfSeq
<1> DEFINE first == m + 1
<1>4. first \in Int /\ \A i \in first .. n : cells[i] \in Byte
  BY <1>2, <1>3
<1> HIDE DEF first
<1>5. /\ SubSeq(cells, first, n) \in Seq(Byte)
      /\ Len(SubSeq(cells, first, n)) = IF first <= n THEN n - first + 1 ELSE 0
      /\ \A i \in 1 .. n - first + 1 :
            SubSeq(cells, first, n)[i] = cells[first + i - 1]
  BY <1>2, <1>4, SubSeqProperties
<1>6. /\ SubSeq(cells, m + 1, n) \in Seq(Byte)
      /\ Len(SubSeq(cells, m + 1, n)) = IF m + 1 <= n THEN n - (m + 1) + 1 ELSE 0
      /\ \A i \in 1 .. n - (m + 1) + 1 :
            SubSeq(cells, m + 1, n)[i] = cells[m + 1 + i - 1]
  BY <1>5 DEF first
<1>7. Len(SubSeq(cells, m + 1, n)) = n - m /\ n - (m + 1) + 1 = n - m
  BY <1>6
<1>8. ASSUME NEW i \in 1 .. n - m PROVE SubSeq(cells, m + 1, n)[i] = cells[m + i]
  <2>1. m + 1 + i - 1 = m + i
    OBVIOUS
  <2> QED BY <1>6, <1>7, <2>1
<1> QED BY <1>6, <1>7, <1>8

\* What is readable: the bytes between the two indices.
LEMMA ContentProperties ==
    ASSUME NEW s, StoreOK(s)
    PROVE  /\ s.cells \in Seq(Byte) /\ s.reader \in Nat /\ s.writer \in Nat
           /\ s.reader <= s.writer /\ s.writer <= Len(s.cells) /\ Len(s.cells) \in Nat
           /\ Content(s) \in Seq(Byte)
           /\ Len(Content(s)) = s.writer - s.reader
           /\ \A i \in 1 .. s.writer - s.reader : Content(s)[i] = s.cells[s.reader + i]
<1>1. /\ s.cells \in Seq(Byte) /\ s.reader \in Nat /\ s.writer \in Nat
      /\ s.reader <= s.writer /\ s.writer <= Len(s.cells) /\ Len(s.cells) \in Nat
  BY LenProperties DEF StoreOK
<1> QED BY <1>1, Slice DEF Content

\* Two stores that hold the same bytes in the same order hold the same queue.
LEMMA SameContent ==
    ASSUME NEW s, StoreOK(s), NEW q \in Seq(Byte),
           Len(q) = s.writer - s.reader,
           \A i \in 1 .. s.writer - s.reader : s.cells[s.reader + i] = q[i]
    PROVE  Content(s) = q
<1>1. /\ Content(s) \in Seq(Byte)
      /\ Len(Content(s)) = s.writer - s.reader
      /\ \A i \in 1 .. s.writer - s.reader : Content(s)[i] = s.cells[s.reader + i]
  BY ContentProperties
<1>2. \A i \in 1 .. Len(Content(s)) : Content(s)[i] = q[i]
  BY <1>1
<1> HIDE DEF Content
<1> QED BY <1>1, <1>2, SeqEqual

-----------------------------------------------------------------------------
(* The helpers.                                                            *)

\* A fresh or enlarged part of the vector is as long as asked for.
LEMMA ZerosProperties ==
    ASSUME NEW n \in Nat
    PROVE  Zeros(n) \in Seq(Byte) /\ Len(Zeros(n)) = n
<1>1. Zeros(n) \in [1 .. n -> Byte]
  BY BufferAssumption DEF Zeros
<1> QED BY <1>1

\* Bytes written into room that is there are queued behind the others.
LEMMA WriteProperties ==
    ASSUME NEW s, StoreOK(s), NEW data \in Seq(Byte),
           s.writer + Len(data) <= Len(s.cells),
           NEW t, t = [s EXCEPT !.cells = Overlay(@, s.writer, data),
                                !.writer = @ + Len(data)]
    PROVE  /\ StoreOK(t)
           /\ Len(t.cells) = Len(s.cells)
           /\ Content(t) = Content(s) \o data
<1>1. /\ s.cells \in Seq(Byte) /\ s.reader \in Nat /\ s.writer \in Nat
      /\ s.reader <= s.writer /\ s.writer <= Len(s.cells) /\ Len(s.cells) \in Nat
      /\ Content(s) \in Seq(Byte) /\ Len(Content(s)) = s.writer - s.reader
      /\ \A i \in 1 .. s.writer - s.reader : Content(s)[i] = s.cells[s.reader + i]
  BY ContentProperties
<1>2. Len(data) \in Nat
  BY LenProperties
<1> DEFINE cells == Overlay(s.cells, s.writer, data)
<1>3. /\ cells \in Seq(Byte) /\ Len(cells) = Len(s.cells)
      /\ \A i \in 1 .. Len(s.cells) :
            cells[i] = IF s.writer < i /\ i <= s.writer + Len(data)
                       THEN data[i - s.writer] ELSE s.cells[i]
  BY <1>1, OverlayProperties
<1>4. /\ t.cells = cells /\ t.reader = s.reader /\ t.writer = s.writer + Len(data)
      /\ t = [cells |-> cells, reader |-> s.reader, writer |-> s.writer + Len(data)]
  BY DEF StoreOK
<1> HIDE DEF cells
<1>5. t \in [cells : Seq(Byte), reader : Nat, writer : Nat]
  <2>1. s.writer + Len(data) \in Nat
    BY <1>1, <1>2
  <2> QED BY <1>1, <1>3, <1>4, <2>1
<1>6. StoreOK(t)
  BY <1>1, <1>2, <1>3, <1>4, <1>5 DEF StoreOK
<1> DEFINE q == Content(s) \o data
<1>7. /\ q \in Seq(Byte) /\ Len(q) = t.writer - t.reader
      /\ \A i \in 1 .. t.writer - t.reader :
            q[i] = IF i <= s.writer - s.reader THEN Content(s)[i]
                   ELSE data[i - (s.writer - s.reader)]
  <2> DEFINE c == Content(s)
  <2>1. c \in Seq(Byte) /\ Len(c) = s.writer - s.reader
    BY <1>1
  <2> HIDE DEF c
  <2>2. /\ c \o data \in Seq(Byte) /\ Len(c \o data) = Len(c) + Len(data)
        /\ \A i \in 1 .. Len(c) + Len(data) :
              (c \o data)[i] = IF i <= Len(c) THEN c[i] ELSE data[i - Len(c)]
    BY <2>1, ConcatProperties
  <2>3. t.writer - t.reader = Len(c) + Len(data)
    BY <1>1, <1>2, <1>4, <2>1
  <2>4. q = c \o data
    BY DEF c
  <2> HIDE DEF q
  <2>5. /\ q \in Seq(Byte) /\ Len(q) = t.writer - t.reader
        /\ \A i \in 1 .. t.writer - t.reader :
              q[i] = IF i <= s.writer - s.reader THEN c[i]
                     ELSE data[i - (s.writer - s.reader)]
    BY <2>1, <2>2, <2>3, <2>4
  <2> QED BY <2>5 DEF c
<1>8. ASSUME NEW i \in 1 .. t.writer - t.reader
      PROVE  t.cells[t.reader + i] = q[i]
  <2>1. s.reader + i \in 1 .. Len(s.cells)
    BY <1>1, <1>2, <1>4
  <2>2. CASE i <= s.writer - s.reader
    <3>1. ~ (s.writer < s.reader + i) /\ i \in 1 .. s.writer - s.reader
      BY <1>1, <2>2, <2>1
    <3> QED BY <1>1, <1>3, <1>4, <1>7, <2>1, <2>2, <3>1
  <2>3. CASE ~ (i <= s.writer - s.reader)
    <3> DEFINE j == s.reader + i
    <3>1. /\ j \in 1 .. Len(s.cells) /\ s.writer < j /\ j <= s.writer + Len(data)
          /\ j - s.writer = i - (s.writer - s.reader)
      BY <1>1, <1>2, <1>4, <2>1, <2>3
    <3>2. t.cells[t.reader + i] = cells[j]
      BY <1>4
    <3> HIDE DEF j
    <3>3. cells[j] = data[j - s.writer]
      BY <1>3, <3>1
    <3>4. q[i] = data[i - (s.writer - s.reader)]
      BY <1>7, <2>3
    <3> QED BY <3>1, <3>2, <3>3, <3>4
  <2> QED BY <2>2, <2>3
<1> HIDE DEF q
<1>9. Content(t) = q
  BY <1>6, <1>7, <1>8, SameContent
<1> QED BY <1>3, <1>4, <1>6, <1>9 DEF q

\* makeSpace leaves the queue as it was and makes the room asked for; when it
\* grows the vector, the room in front of the queue was less than that.
LEMMA MakeSpaceProperties ==
    ASSUME NEW s, StoreOK(s), NEW len \in Nat, Len(s.cells) - s.writer < len,
           NEW t, t = MakeSpace(s, len)
    PROVE  /\ StoreOK(t)
           /\ Content(t) = Content(s)
           /\ t.writer - t.reader = s.writer - s.reader
           /\ t.writer + len <= Len(t.cells)
           /\ Len(s.cells) <= Len(t.cells)
           /\ \/ Len(t.cells) = Len(s.cells)
              \/ Len(t.cells) < cacheHeapPrepend_ + (s.writer - s.reader) + len + len
<1>1. /\ s.cells \in Seq(Byte) /\ s.reader \in Nat /\ s.writer \in Nat
      /\ s.reader <= s.writer /\ s.writer <= Len(s.cells) /\ Len(s.cells) \in Nat
      /\ Content(s) \in Seq(Byte) /\ Len(Content(s)) = s.writer - s.reader
      /\ \A i \in 1 .. s.writer - s.reader : Content(s)[i] = s.cells[s.reader + i]
  BY ContentProperties
<1>2. cacheHeapPrepend_ \in Nat
  BY BufferAssumption
<1>3. CASE Len(s.cells) - s.writer + s.reader < len + cacheHeapPrepend_
  <2> DEFINE more == Zeros(s.writer + len - Len(s.cells))
             cells == s.cells \o more
  <2>1. more \in Seq(Byte) /\ Len(more) = s.writer + len - Len(s.cells)
    <3>1. s.writer + len - Len(s.cells) \in Nat
      BY <1>1
    <3> QED BY <3>1, ZerosProperties
  <2>2. t = [cells |-> cells, reader |-> s.reader, writer |-> s.writer]
    BY <1>3 DEF MakeSpace, StoreOK
  <2> HIDE DEF more
  <2>3. /\ cells \in Seq(Byte) /\ Len(cells) = s.writer + len
        /\ \A i \in 1 .. Len(s.cells) : cells[i] = s.cells[i]
    <3>1. /\ cells \in Seq(Byte) /\ Len(cells) = Len(s.cells) + Len(more)
          /\ \A i \in 1 .. Len(s.cells) + Len(more) :
                cells[i] = IF i <= Len(s.cells) THEN s.cells[i]
                           ELSE more[i - Len(s.cells)]
      BY <1>1, <2>1, ConcatProperties
    <3> HIDE DEF cells
    <3>2. Len(s.cells) + Len(more) = s.writer + len /\ Len(more) \in Nat
      BY <1>1, <2>1
    <3>3. ASSUME NEW i \in 1 .. Len(s.cells) PROVE cells[i] = s.cells[i]
      <4>1. i \in 1 .. Len(s.cells) + Len(more) /\ i <= Len(s.cells)
        BY <1>1, <3>2
      <4> QED BY <3>1, <4>1
    <3> QED BY <3>1, <3>2, <3>3
  <2> HIDE DEF cells
  <2>4. StoreOK(t)
    BY <1>1, <2>2, <2>3 DEF StoreOK
  <2>5. ASSUME NEW i \in 1 .. t.writer - t.reader
        PROVE  t.cells[t.reader + i] = Content(s)[i]
    <3> DEFINE j == s.reader + i
    <3>1. j \in 1 .. Len(s.cells) /\ i \in 1 .. s.writer - s.reader
      BY <1>1, <2>2
    <3> HIDE DEF j
    <3>2. cells[j] = s.cells[j]
      BY <2>3, <3>1
    <3>3. cells[s.reader + i] = s.cells[s.reader + i]
      BY <3>2 DEF j
    <3>4. Content(s)[i] = s.cells[s.reader + i]
      BY <1>1, <3>1
    <3> QED BY <2>2, <3>3, <3>4
  <2>6. Content(t) = Content(s)
    <3>1. Content(s) \in Seq(Byte) /\ Len(Content(s)) = t.writer - t.reader
      BY <1>1, <2>2
    <3> QED BY <2>4, <2>5, <3>1, SameContent, Zenon
  <2>7. Len(cells) < cacheHeapPrepend_ + (s.writer - s.reader) + len + len
    <3>1. /\ s.reader \in Nat /\ s.writer \in Nat /\ Len(s.cells) \in Nat
          /\ s.writer <= Len(s.cells) /\ Len(cells) = s.writer + len
      BY <1>1, <2>3
    <3>2. s.reader < len + cacheHeapPrepend_
      BY <1>2, <1>3, <3>1
    <3> HIDE <1>3
    <3> QED BY <1>2, <3>1, <3>2
  <2>8. Len(s.cells) <= s.writer + len
    BY <1>1
  <2> QED BY <1>1, <2>2, <2>3, <2>4, <2>6, <2>7, <2>8
<1>4. CASE ~ (Len(s.cells) - s.writer + s.reader < len + cacheHeapPrepend_)
  <2> DEFINE cells == Overlay(s.cells, cacheHeapPrepend_, Content(s))
  <2>1. t = [cells |-> cells, reader |-> cacheHeapPrepend_,
             writer |-> cacheHeapPrepend_ + (s.writer - s.reader)]
    BY <1>4 DEF MakeSpace, Content
  <2>2. /\ cells \in Seq(Byte) /\ Len(cells) = Len(s.cells)
        /\ \A i \in 1 .. Len(s.cells) :
              cells[i] = IF /\ cacheHeapPrepend_ < i
                            /\ i <= cacheHeapPrepend_ + (s.writer - s.reader)
                         THEN Content(s)[i - cacheHeapPrepend_] ELSE s.cells[i]
    <3> HIDE DEF Content
    <3>1. /\ cells \in Seq(Byte) /\ Len(cells) = Len(s.cells)
          /\ \A i \in 1 .. Len(s.cells) :
              cells[i] = IF /\ cacheHeapPrepend_ < i
                            /\ i <= cacheHeapPrepend_ + Len(Content(s))
                         THEN Content(s)[i - cacheHeapPrepend_] ELSE s.cells[i]
      BY <1>1, <1>2, OverlayProperties
    <3> QED BY <1>1, <3>1
  <2> HIDE DEF cells
  <2>3. cacheHeapPrepend_ + (s.writer - s.reader) + len <= Len(s.cells)
    BY <1>1, <1>2, <1>4
  <2>4. StoreOK(t)
    <3>1. cacheHeapPrepend_ + (s.writer - s.reader) \in Nat
      BY <1>1, <1>2
    <3>2. t \in [cells : Seq(Byte), reader : Nat, writer : Nat]
      BY <1>2, <2>1, <2>2, <3>1
    <3> QED BY <1>1, <1>2, <2>1, <2>2, <2>3, <3>2 DEF StoreOK
  <2>5. t.writer - t.reader = s.writer - s.reader
    BY <1>1, <1>2, <2>1
  <2>6. ASSUME NEW i \in 1 .. t.writer - t.reader
        PROVE  t.cells[t.reader + i] = Content(s)[i]
    <3> DEFINE j == cacheHeapPrepend_ + i
    <3>1. /\ j \in 1 .. Len(s.cells)
          /\ cacheHeapPrepend_ < j
          /\ j <= cacheHeapPrepend_ + (s.writer - s.reader)
          /\ j - cacheHeapPrepend_ = i
      BY <1>1, <1>2, <2>3, <2>5
    <3> HIDE DEF j
    <3>2. cells[j] = Content(s)[j - cacheHeapPrepend_]
      BY <2>2, <3>1
    <3>3. t.cells[t.reader + i] = cells[j]
      BY <2>1 DEF j
    <3> QED BY <3>1, <3>2, <3>3
  <2>7. Content(t) = Content(s)
    <3>1. Content(s) \in Seq(Byte) /\ Len(Content(s)) = t.writer - t.reader
      BY <1>1, <2>5
    <3> QED BY <2>4, <2>6, <3>1, SameContent, Zenon
  <2> QED BY <1>1, <1>2, <2>1, <2>2, <2>3, <2>4, <2>5, <2>7
<1> QED BY <1>3, <1>4

\* append: whatever the room, the bytes are queued behind the others.
LEMMA AppendedProperties ==
    ASSUME NEW s, StoreOK(s), NEW data \in Seq(Byte), NEW t, t = Appended(s, data)
    PROVE  /\ StoreOK(t)
           /\ Content(t) = Content(s) \o data
           /\ Len(s.cells) <= Len(t.cells)
           /\ \/ Len(t.cells) = Len(s.cells)
              \/ Len(t.cells) < cacheHeapPrepend_ + (s.writer - s.reader)
                                    + Len(data) + Len(data)
<1>1. Len(data) \in Nat /\ Len(s.cells) \in Nat /\ s.writer \in Nat
  BY ContentProperties, LenProperties
<1> DEFINE r == EnsureWriteableBytes(s, Len(data))
<1>2. /\ StoreOK(r) /\ Content(r) = Content(s)
      /\ r.writer + Len(data) <= Len(r.cells)
      /\ Len(s.cells) <= Len(r.cells)
      /\ \/ Len(r.cells) = Len(s.cells)
         \/ Len(r.cells) < cacheHeapPrepend_ + (s.writer - s.reader)
                               + Len(data) + Len(data)
  <2>1. CASE Len(s.cells) - s.writer < Len(data)
    BY <1>1, <2>1, MakeSpaceProperties DEF EnsureWriteableBytes
  <2>2. CASE ~ (Len(s.cells) - s.writer < Len(data))
    BY <1>1, <2>2 DEF EnsureWriteableBytes
  <2> QED BY <2>1, <2>2
<1>3. t = [r EXCEPT !.cells = Overlay(@, r.writer, data), !.writer = @ + Len(data)]
  BY DEF Appended
<1> HIDE DEF r
<1>4. /\ StoreOK(t) /\ Len(t.cells) = Len(r.cells) /\ Content(t) = Content(r) \o data
  BY <1>2, <1>3, WriteProperties
<1> QED BY <1>2, <1>4

-----------------------------------------------------------------------------
(* The operations.                                                         *)

\* The invariant: the vector never shrinks below the prepend area, so that
\* retrieve may put the indices there.
BufferInv ==
    /\ TypeOK /\ CapacityBounded
    /\ cacheHeapPrepend_ <= Len(buffer_)

\* What callers write is a sequence of bytes.
LEMMA StringsAreSequences ==
    ASSUME NEW data \in Strings PROVE data \in Seq(Byte) /\ Len(data) \in Nat
<1>1. PICK n \in 0 .. MaxReadable : data \in [1 .. n -> Byte]
  BY DEF Strings
<1>2. n \in Nat
  BY BufferAssumption
<1> QED BY <1>1, <1>2, LenProperties

\* The type of the buffer says the indices are in order and inside the vector.
LEMMA StoreIsOK ==
    ASSUME BufferInv
    PROVE  /\ StoreOK(Store) /\ Content(Store) = Readable
           /\ Readable \in Seq(Byte) /\ Len(Readable) = readableBytes
           /\ buffer_ \in Seq(Byte) /\ Len(buffer_) \in Nat
           /\ readerIndex_ \in Nat /\ writerIndex_ \in Nat
           /\ readerIndex_ <= writerIndex_ /\ writerIndex_ <= Len(buffer_)
<1>1. StoreOK(Store)
  BY DEF BufferInv, TypeOK, Store, StoreOK
<1>2. Content(Store) = Readable
  BY DEF Content, Store, Readable
<1> QED BY <1>1, <1>2, ContentProperties DEF Store, readableBytes

\* An operation whose result is a store no larger than the bound allows keeps
\* the invariant.
LEMMA BecomesKeeps ==
    ASSUME BufferInv, NEW s, StoreOK(s), Becomes(s), call'.data \in Seq(Byte),
           Len(buffer_) <= Len(s.cells),
           \/ Len(s.cells) = Len(buffer_)
           \/ Len(s.cells) < cacheHeapPrepend_ + 2 * MaxReadable
    PROVE  BufferInv' /\ Readable' = Content(s)
<1>1. /\ s.cells \in Seq(Byte) /\ s.reader \in Nat /\ s.writer \in Nat
      /\ s.reader <= s.writer /\ s.writer <= Len(s.cells) /\ Len(s.cells) \in Nat
  BY ContentProperties
<1>2. TypeOK'
  BY <1>1 DEF TypeOK, Becomes
<1>3. CapacityBounded'
  BY DEF BufferInv, CapacityBounded, Becomes
<1>4. cacheHeapPrepend_ <= Len(buffer_')
  BY <1>1, StoreIsOK, BufferAssumption DEF BufferInv, Becomes
<1>5. Readable' = Content(s)
  BY DEF Readable, Content, Becomes
<1> QED BY <1>2, <1>3, <1>4, <1>5 DEF BufferInv

\* append: the bytes go behind what is readable.
LEMMA AppendStep ==
    ASSUME BufferInv, NEW data \in Strings, AppendBytes(data)
    PROVE  BufferInv' /\ Queue!PutBack
<1>1. data \in Seq(Byte) /\ Len(data) \in Nat
  BY StringsAreSequences
<1>2. /\ readerIndex_ \in Nat /\ writerIndex_ \in Nat /\ readerIndex_ <= writerIndex_
      /\ Len(buffer_) \in Nat
      /\ MaxReadable \in Nat /\ cacheHeapPrepend_ \in Nat
      /\ writerIndex_ - readerIndex_ + Len(data) <= MaxReadable
  BY StoreIsOK, BufferAssumption DEF AppendBytes, readableBytes
<1> DEFINE s == Appended(Store, data)
<1>3. Becomes(s) /\ call' = [op |-> "append", data |-> data]
  BY DEF AppendBytes, Called
<1>4. /\ StoreOK(s) /\ Content(s) = Content(Store) \o data
      /\ Len(Store.cells) <= Len(s.cells)
      /\ \/ Len(s.cells) = Len(Store.cells)
         \/ Len(s.cells) < cacheHeapPrepend_ + (Store.writer - Store.reader)
                               + Len(data) + Len(data)
  BY <1>1, StoreIsOK, AppendedProperties
<1> HIDE DEF s
<1>5. /\ Store.cells = buffer_ /\ Store.reader = readerIndex_
      /\ Store.writer = writerIndex_
  BY DEF Store
<1>6. \/ Len(s.cells) = Len(buffer_)
      \/ Len(s.cells) < cacheHeapPrepend_ + 2 * MaxReadable
  <2>1. Len(s.cells) \in Nat
    BY <1>4, ContentProperties
  <2> QED BY <1>1, <1>2, <1>4, <1>5, <2>1
<1>7. BufferInv' /\ Readable' = Content(s)
  BY <1>1, <1>3, <1>4, <1>5, <1>6, BecomesKeeps
<1>8. Readable' = Readable \o call'.data /\ call'.op = "append"
  BY <1>3, <1>4, <1>7, StoreIsOK
<1> QED BY <1>7, <1>8 DEF Queue!PutBack

\* prepend writes in front of the queue, inside the room that is there.
LEMMA PrependStep ==
    ASSUME BufferInv, NEW data \in Strings, Prepend(data)
    PROVE  BufferInv' /\ Queue!PutFront
<1>1. data \in Seq(Byte) /\ Len(data) \in Nat
  BY StringsAreSequences
<1>2. /\ readerIndex_ \in Nat /\ writerIndex_ \in Nat
      /\ readerIndex_ <= writerIndex_ /\ writerIndex_ <= Len(buffer_)
      /\ buffer_ \in Seq(Byte) /\ Len(buffer_) \in Nat
      /\ Readable \in Seq(Byte) /\ Len(Readable) = writerIndex_ - readerIndex_
      /\ \A i \in 1 .. writerIndex_ - readerIndex_ :
            Readable[i] = buffer_[readerIndex_ + i]
  <2>1. /\ \A i \in 1 .. writerIndex_ - readerIndex_ :
              Content(Store)[i] = buffer_[readerIndex_ + i]
    BY StoreIsOK, ContentProperties DEF Store
  <2> QED BY <2>1, StoreIsOK DEF readableBytes
<1> DEFINE at == readerIndex_ - Len(data)
           cells == Overlay(buffer_, at, data)
<1>3. /\ at \in Nat /\ at + Len(data) = readerIndex_ /\ at <= writerIndex_
      /\ writerIndex_ - at = Len(data) + (writerIndex_ - readerIndex_)
  BY <1>1, <1>2 DEF Prepend, prependableBytes
<1>4. /\ buffer_' = cells /\ readerIndex_' = at /\ writerIndex_' = writerIndex_
      /\ call' = [op |-> "prepend", data |-> data]
  BY DEF Prepend, Called
<1> HIDE DEF at
<1>5. /\ cells \in Seq(Byte) /\ Len(cells) = Len(buffer_)
      /\ \A i \in 1 .. Len(buffer_) :
            cells[i] = IF at < i /\ i <= at + Len(data) THEN data[i - at]
                       ELSE buffer_[i]
  BY <1>1, <1>2, <1>3, OverlayProperties
<1> HIDE DEF cells
<1> DEFINE s == [cells |-> cells, reader |-> at, writer |-> writerIndex_]
<1>6. StoreOK(s) /\ Becomes(s) /\ s.cells = cells
  BY <1>2, <1>3, <1>4, <1>5 DEF StoreOK, Becomes
<1> DEFINE q == data \o Readable
<1>7. /\ q \in Seq(Byte) /\ Len(q) = writerIndex_ - at
      /\ \A i \in 1 .. writerIndex_ - at :
            q[i] = IF i <= Len(data) THEN data[i] ELSE Readable[i - Len(data)]
  <2>1. /\ q \in Seq(Byte) /\ Len(q) = Len(data) + Len(Readable)
        /\ \A i \in 1 .. Len(data) + Len(Readable) :
              q[i] = IF i <= Len(data) THEN data[i] ELSE Readable[i - Len(data)]
    <3> HIDE DEF Readable
    <3> QED BY <1>1, <1>2, ConcatProperties
  <2> HIDE DEF q
  <2> QED BY <1>2, <1>3, <2>1
<1>8. ASSUME NEW i \in 1 .. writerIndex_ - at
      PROVE  cells[at + i] = q[i]
  <2> DEFINE j == at + i
  <2>1. j \in 1 .. Len(buffer_) /\ at < j /\ j - at = i
    BY <1>2, <1>3
  <2>2. CASE i <= Len(data)
    <3>1. j <= at + Len(data)
      BY <1>1, <1>3, <2>2
    <3> HIDE DEF j
    <3>2. cells[j] = data[i]
      BY <1>5, <2>1, <3>1
    <3>3. q[i] = data[i]
      BY <1>7, <2>2
    <3> QED BY <3>2, <3>3 DEF j
  <2>3. CASE ~ (i <= Len(data))
    <3> DEFINE k == i - Len(data)
    <3>6. /\ i \in Nat /\ at \in Nat /\ Len(data) \in Nat
          /\ i <= Len(data) + (writerIndex_ - readerIndex_)
      BY <1>1, <1>3
    <3>1. ~ (j <= at + Len(data)) /\ k \in 1 .. writerIndex_ - readerIndex_
          /\ readerIndex_ + k = j
      <4>1. i > Len(data) /\ at = readerIndex_ - Len(data)
        BY <1>2, <1>3, <2>3, <3>6
      <4>2. k \in 1 .. writerIndex_ - readerIndex_
        BY <1>2, <3>6, <4>1
      <4> QED BY <1>2, <3>6, <4>1, <4>2
    <3>2. q[i] = Readable[k]
      BY <1>7, <2>3
    <3> HIDE DEF j, k
    <3>3. cells[j] = buffer_[j]
      BY <1>5, <2>1, <3>1
    <3>4. Readable[k] = buffer_[readerIndex_ + k]
      BY <1>2, <3>1
    <3>5. cells[j] = q[i]
      BY <3>1, <3>2, <3>3, <3>4
    <3> QED BY <3>5 DEF j
  <2> QED BY <2>2, <2>3
<1> HIDE DEF q
<1>9. Content(s) = q
  BY <1>6, <1>7, <1>8, SameContent
<1> HIDE DEF s
<1>10. BufferInv' /\ Readable' = Content(s)
  BY <1>1, <1>2, <1>4, <1>5, <1>6, BecomesKeeps
<1>11. Readable' = call'.data \o Readable /\ call'.op = "prepend"
  BY <1>4, <1>9, <1>10 DEF q
<1> QED BY <1>10, <1>11 DEF Queue!PutFront

\* A prefix of the queue and what retrieving that many bytes leaves make up
\* the queue.
LEMMA RetrieveProperties ==
    ASSUME BufferInv, NEW len \in Nat, Becomes(AfterRetrieve(len)),
           call'.data = IF len < readableBytes THEN SubSeq(Readable, 1, len)
                        ELSE Readable
    PROVE  BufferInv' /\ Readable = call'.data \o Readable'
<1>1. /\ readerIndex_ \in Nat /\ writerIndex_ \in Nat
      /\ readerIndex_ <= writerIndex_ /\ writerIndex_ <= Len(buffer_)
      /\ buffer_ \in Seq(Byte) /\ Len(buffer_) \in Nat
      /\ Readable \in Seq(Byte) /\ Len(Readable) = writerIndex_ - readerIndex_
      /\ cacheHeapPrepend_ \in Nat /\ cacheHeapPrepend_ <= Len(buffer_)
  BY StoreIsOK, BufferAssumption DEF readableBytes, BufferInv
<1> DEFINE s == AfterRetrieve(len)
<1>2. CASE len < readableBytes
  <2>1. s = [cells |-> buffer_, reader |-> readerIndex_ + len, writer |-> writerIndex_]
    BY <1>2 DEF AfterRetrieve, Store
  <2>2. readerIndex_ + len \in Nat /\ readerIndex_ + len <= writerIndex_
    BY <1>1, <1>2 DEF readableBytes
  <2> HIDE DEF s
  <2>3. StoreOK(s)
    BY <1>1, <2>1, <2>2 DEF StoreOK
  <2>4. SubSeq(Readable, 1, len) \o Readable' = Readable /\ SubSeq(Readable, 1, len) \in Seq(Byte)
    <3> DEFINE r == Readable
    <3>1. /\ r \in Seq(Byte) /\ Len(r) \in Nat /\ len \in 0 .. Len(r)
      BY <1>1, <1>2 DEF readableBytes
    <3>2. SubSeq(r, 1, len) \o SubSeq(r, len + 1, Len(r)) = SubSeq(r, 1, Len(r))
      <4>1. 1 \in 1 .. Len(r) + 1 /\ len \in 1 - 1 .. Len(r) /\ Len(r) \in len .. Len(r)
        BY <3>1
      <4> HIDE DEF r
      <4> QED BY <3>1, <4>1, ConcatAdjacentSubSeq
    <3>3. SubSeq(r, 1, Len(r)) = r
      <4> HIDE DEF r
      <4> QED BY <3>1, SubSeqFull
    <3>4. SubSeq(r, 0 + 1, len) \in Seq(Byte)
      <4> HIDE DEF r
      <4> QED BY <3>1, Slice
    <3>5. SubSeq(r, len + 1, Len(r)) = Readable'
      <4> DEFINE q == SubSeq(r, len + 1, Len(r))
      <4>1. /\ q \in Seq(Byte) /\ Len(q) = Len(r) - len
            /\ \A i \in 1 .. Len(r) - len : q[i] = r[len + i]
        <5> HIDE DEF r
        <5> QED BY <3>1, Slice
      <4>2. /\ \A i \in 1 .. writerIndex_ - readerIndex_ :
                  r[i] = buffer_[readerIndex_ + i]
        BY StoreIsOK, ContentProperties DEF Store
      <4>3. Len(q) = s.writer - s.reader /\ Len(r) - len = s.writer - s.reader
        BY <1>1, <2>1, <4>1
      <4>4. ASSUME NEW i \in 1 .. s.writer - s.reader
            PROVE  s.cells[s.reader + i] = q[i]
        <5> DEFINE j == len + i
        <5>1. i \in 1 .. Len(r) - len /\ j \in 1 .. writerIndex_ - readerIndex_
          BY <1>1, <1>2, <4>3 DEF readableBytes
        <5>2. q[i] = r[j]
          BY <4>1, <5>1
        <5> HIDE DEF j
        <5>3. r[j] = buffer_[readerIndex_ + j]
          BY <4>2, <5>1
        <5>4. readerIndex_ + j = s.reader + i
          BY <1>1, <2>1 DEF j
        <5> QED BY <2>1, <5>2, <5>3, <5>4
      <4> HIDE DEF q
      <4>5. Content(s) = q
        BY <2>3, <4>1, <4>3, <4>4, SameContent
      <4>6. Readable' = Content(s)
        BY DEF Readable, Content, Becomes, s
      <4> QED BY <4>5, <4>6 DEF q
    <3>6. 0 + 1 = 1
      OBVIOUS
    <3>7. SubSeq(r, 1, len) \in Seq(Byte)
      BY <3>4, <3>6
    <3> QED BY <3>2, <3>3, <3>5, <3>7
  <2>5. BufferInv'
    <3>1. Becomes(s) /\ call'.data \in Seq(Byte)
      BY <1>2, <2>4 DEF s
    <3> QED BY <1>1, <2>1, <2>3, <3>1, BecomesKeeps
  <2> QED BY <1>2, <2>4, <2>5
<1>3. CASE ~ (len < readableBytes)
  <2>1. s = [cells |-> buffer_, reader |-> cacheHeapPrepend_, writer |-> cacheHeapPrepend_]
    BY <1>3 DEF AfterRetrieve, Store
  <2>2. Becomes(s)
    OBVIOUS
  <2> HIDE DEF s
  <2>3. StoreOK(s)
    BY <1>1, <2>1 DEF StoreOK
  <2>4. BufferInv' /\ Readable' = Content(s)
    BY <1>1, <1>3, <2>1, <2>2, <2>3, BecomesKeeps
  <2>5. Readable' = <<>>
    <3>1. Content(s) = SubSeq(buffer_, cacheHeapPrepend_ + 1, cacheHeapPrepend_)
      BY <2>1 DEF Content
    <3>2. /\ cacheHeapPrepend_ + 1 \in Int /\ cacheHeapPrepend_ \in Int
          /\ cacheHeapPrepend_ < cacheHeapPrepend_ + 1
      BY <1>1
    <3> QED BY <2>4, <3>1, <3>2, SubSeqEmpty
  <2>6. Readable \o <<>> = Readable
    <3> HIDE DEF Readable
    <3> QED BY <1>1, ConcatEmptySeq
  <2> QED BY <1>3, <2>4, <2>5, <2>6
<1> QED BY <1>2, <1>3

\* retrieve: the first n readable bytes are gone.
LEMMA RetrieveStep ==
    ASSUME BufferInv, NEW len \in Nat, Retrieve(len)
    PROVE  BufferInv' /\ Queue!Discard
<1>1. /\ Becomes(AfterRetrieve(len)) /\ call'.op = "discard"
      /\ call'.data = IF len < readableBytes THEN SubSeq(Readable, 1, len)
                      ELSE Readable
  BY DEF Retrieve, Called
<1> QED BY <1>1, RetrieveProperties DEF Queue!Discard

\* retrieveAsString: the same bytes leave, as a string.
LEMMA RetrieveAsStringStep ==
    ASSUME BufferInv, NEW len \in Nat, RetrieveAsString(len)
    PROVE  BufferInv' /\ Queue!Take
<1>1. /\ readerIndex_ \in Nat /\ writerIndex_ \in Nat
      /\ readerIndex_ <= writerIndex_ /\ writerIndex_ <= Len(buffer_)
      /\ buffer_ \in Seq(Byte) /\ Len(buffer_) \in Nat
      /\ Readable \in Seq(Byte) /\ Len(Readable) = writerIndex_ - readerIndex_
      /\ len <= writerIndex_ - readerIndex_
  BY StoreIsOK DEF readableBytes, RetrieveAsString
<1>2. /\ Becomes(AfterRetrieve(len)) /\ call'.op = "take"
      /\ call'.data = SubSeq(buffer_, readerIndex_ + 1, readerIndex_ + len)
  BY DEF RetrieveAsString, Called
<1>3. CASE len < readableBytes
  <2> DEFINE a == SubSeq(Readable, 0 + 1, len)
             b == SubSeq(buffer_, readerIndex_ + 1, readerIndex_ + len)
  <2>1. /\ a \in Seq(Byte) /\ Len(a) = len
        /\ \A i \in 1 .. len : a[i] = Readable[i]
    <3> DEFINE r == Readable
    <3>1. r \in Seq(Byte) /\ len <= Len(r) /\ 0 \in Nat /\ 0 <= len /\ len - 0 = len
      BY <1>1
    <3> HIDE DEF r
    <3>2. /\ SubSeq(r, 0 + 1, len) \in Seq(Byte) /\ Len(SubSeq(r, 0 + 1, len)) = len - 0
          /\ \A i \in 1 .. len - 0 : SubSeq(r, 0 + 1, len)[i] = r[0 + i]
      BY <3>1, Slice
    <3> QED BY <3>1, <3>2 DEF r
  <2>2. /\ b \in Seq(Byte) /\ Len(b) = len
        /\ \A i \in 1 .. len : b[i] = buffer_[readerIndex_ + i]
    <3> DEFINE n == readerIndex_ + len
    <3>1. n \in Nat /\ readerIndex_ <= n /\ n <= Len(buffer_) /\ n - readerIndex_ = len
      BY <1>1
    <3> HIDE DEF n
    <3>2. /\ SubSeq(buffer_, readerIndex_ + 1, n) \in Seq(Byte)
          /\ Len(SubSeq(buffer_, readerIndex_ + 1, n)) = n - readerIndex_
          /\ \A i \in 1 .. n - readerIndex_ :
                SubSeq(buffer_, readerIndex_ + 1, n)[i] = buffer_[readerIndex_ + i]
      BY <1>1, <3>1, Slice
    <3> QED BY <3>1, <3>2 DEF n
  <2>3. ASSUME NEW i \in 1 .. len PROVE a[i] = b[i]
    <3>1. i \in 1 .. writerIndex_ - readerIndex_
      BY <1>1
    <3>2. Readable[i] = buffer_[readerIndex_ + i]
      BY <3>1, StoreIsOK, ContentProperties DEF Store
    <3> QED BY <2>1, <2>2, <3>2
  <2> HIDE DEF a, b
  <2>4. a = b
    BY <2>1, <2>2, <2>3, SeqEqual
  <2>5. call'.data = SubSeq(Readable, 1, len)
    <3>1. 0 + 1 = 1
      OBVIOUS
    <3>2. a = SubSeq(Readable, 1, len)
      BY <3>1 DEF a
    <3>3. call'.data = b
      BY <1>2 DEF b
    <3> QED BY <2>4, <3>2, <3>3
  <2> QED BY <1>2, <1>3, <2>5, RetrieveProperties DEF Queue!Take
<1>4. CASE ~ (len < readableBytes)
  <2>1. readerIndex_ + len = writerIndex_
    BY <1>1, <1>4 DEF readableBytes
  <2>2. call'.data = Readable
    BY <1>2, <2>1 DEF Readable
  <2> QED BY <1>2, <1>4, <2>2, RetrieveProperties DEF Queue!Take
<1> QED BY <1>3, <1>4

\* readFd queues what readv returned, in order, also when it is split over the
\* vector's room and the buffer on the stack.
LEMMA ReadFdStep ==
    ASSUME BufferInv, NEW data \in Strings, ReadFd(data)
    PROVE  BufferInv' /\ Queue!PutBack
<1>1. data \in Seq(Byte) /\ Len(data) \in Nat
  BY StringsAreSequences
<1>2. /\ readerIndex_ \in Nat /\ writerIndex_ \in Nat
      /\ readerIndex_ <= writerIndex_ /\ writerIndex_ <= Len(buffer_)
      /\ buffer_ \in Seq(Byte) /\ Len(buffer_) \in Nat
      /\ StoreOK(Store) /\ Content(Store) = Readable /\ Readable \in Seq(Byte)
      /\ MaxReadable \in Nat /\ cacheHeapPrepend_ \in Nat
      /\ writerIndex_ - readerIndex_ + Len(data) <= MaxReadable
  BY StoreIsOK, BufferAssumption DEF ReadFd, readableBytes
<1>3. /\ Becomes(Received(data)) /\ call' = [op |-> "append", data |-> data]
  BY DEF ReadFd, Called
<1>4. /\ Store.cells = buffer_ /\ Store.reader = readerIndex_
      /\ Store.writer = writerIndex_
      /\ Store \in [cells : Seq(Byte), reader : Nat, writer : Nat]
  BY <1>2 DEF Store
<1> DEFINE s == Received(data)
<1>5. /\ StoreOK(s) /\ Content(s) = Readable \o data
      /\ Len(buffer_) <= Len(s.cells)
      /\ \/ Len(s.cells) = Len(buffer_)
         \/ Len(s.cells) < cacheHeapPrepend_ + 2 * MaxReadable
  <2>1. CASE Len(data) <= writableBytes
    <3>1. s = [Store EXCEPT !.cells = Overlay(@, Store.writer, data),
                            !.writer = @ + Len(data)]
      BY <1>4, <2>1 DEF Received
    <3>2. Store.writer + Len(data) <= Len(Store.cells)
      BY <1>1, <1>2, <1>4, <2>1 DEF writableBytes
    <3> HIDE DEF s
    <3>3. /\ StoreOK(s) /\ Len(s.cells) = Len(Store.cells)
          /\ Content(s) = Content(Store) \o data
      BY <1>1, <1>2, <3>1, <3>2, WriteProperties
    <3> QED BY <1>2, <1>4, <3>3
  <2>2. CASE ~ (Len(data) <= writableBytes)
    <3> DEFINE n == writableBytes
               head == SubSeq(data, 0 + 1, n)
               tail == SubSeq(data, n + 1, Len(data))
               r == [Store EXCEPT !.cells = Overlay(@, Store.writer, head),
                                  !.writer = @ + Len(head)]
    <3>1. /\ n \in Nat /\ n <= Len(data) /\ Len(buffer_) = writerIndex_ + n
          /\ n - 0 = n /\ 0 \in Nat /\ 0 <= n /\ 0 + 1 = 1
          /\ n < Len(data)
      BY <1>1, <1>2, <2>2 DEF writableBytes
    <3>2. head \in Seq(Byte) /\ Len(head) = n
      <4> HIDE DEF n
      <4>1. head \in Seq(Byte) /\ Len(head) = n - 0
        BY <1>1, <3>1, Slice
      <4> QED BY <3>1, <4>1
    <3>3. tail \in Seq(Byte) /\ Len(tail) = Len(data) - n
      <4> HIDE DEF n
      <4> QED BY <1>1, <3>1, Slice
    <3>4. head \o tail = data
      <4> HIDE DEF n
      <4>1. SubSeq(data, 1, n) \o SubSeq(data, n + 1, Len(data)) = SubSeq(data, 1, Len(data))
        <5>1. 1 \in 1 .. Len(data) + 1 /\ n \in 1 - 1 .. Len(data) /\ Len(data) \in n .. Len(data)
          BY <1>1, <3>1
        <5> QED BY <1>1, <5>1, ConcatAdjacentSubSeq
      <4>2. SubSeq(data, 1, Len(data)) = data
        BY <1>1, SubSeqFull
      <4>3. head = SubSeq(data, 1, n)
        BY <3>1
      <4> QED BY <4>1, <4>2, <4>3
    <3>5. s = Appended(r, tail)
      <4>1. head = SubSeq(data, 1, writableBytes)
        BY <3>1
      <4>2. Store.writer + Len(head) = Len(buffer_)
        BY <1>4, <3>1, <3>2
      <4> HIDE DEF head
      <4>3. r = [Store EXCEPT
                   !.cells = Overlay(@, writerIndex_, SubSeq(data, 1, writableBytes)),
                   !.writer = Len(buffer_)]
        BY <1>4, <4>1, <4>2
      <4>4. tail = SubSeq(data, writableBytes + 1, Len(data))
        OBVIOUS
      <4> HIDE DEF r, tail
      <4> QED BY <2>2, <4>3, <4>4 DEF Received
    <3> HIDE DEF s, n, head, tail
    <3>6. /\ StoreOK(r) /\ Len(r.cells) = Len(Store.cells)
          /\ Content(r) = Content(Store) \o head
      <4>1. Store.writer + Len(head) <= Len(Store.cells)
        BY <1>2, <1>4, <3>1, <3>2
      <4> QED BY <1>2, <3>2, <4>1, WriteProperties
    <3>7. r.reader = readerIndex_ /\ r.writer = writerIndex_ + n
      BY <1>4, <3>2
    <3> HIDE DEF r
    <3>8. /\ StoreOK(s) /\ Content(s) = Content(r) \o tail
          /\ Len(r.cells) <= Len(s.cells)
          /\ \/ Len(s.cells) = Len(r.cells)
             \/ Len(s.cells) < cacheHeapPrepend_ + (r.writer - r.reader)
                                   + Len(tail) + Len(tail)
      BY <3>3, <3>5, <3>6, AppendedProperties
    <3>9. Content(s) = Readable \o data
      <4>1. Content(s) = (Readable \o head) \o tail
        BY <1>2, <3>6, <3>8
      <4>2. (Readable \o head) \o tail = Readable \o (head \o tail)
        <5>1. Readable \in Seq(Byte) /\ head \in Seq(Byte) /\ tail \in Seq(Byte)
          BY <1>2, <3>2, <3>3
        <5> HIDE DEF Readable
        <5> QED BY <5>1, ConcatAssociative
      <4> QED BY <3>4, <4>1, <4>2
    <3>10. Len(s.cells) \in Nat
      BY <3>8, ContentProperties
    <3>11. \/ Len(s.cells) = Len(buffer_)
           \/ Len(s.cells) < cacheHeapPrepend_ + 2 * MaxReadable
      <4>1. CASE Len(s.cells) = Len(r.cells)
        BY <1>4, <3>6, <4>1
      <4>2. CASE ~ (Len(s.cells) = Len(r.cells))
        <5>1. r.writer - r.reader = (writerIndex_ - readerIndex_) + n
          BY <1>2, <3>1, <3>7
        <5>2. /\ Len(s.cells) < cacheHeapPrepend_ + (writerIndex_ - readerIndex_) + n
                                    + Len(tail) + Len(tail)
              /\ Len(tail) + n = Len(data) /\ Len(tail) \in Nat
          BY <1>1, <1>2, <3>1, <3>3, <3>8, <4>2, <5>1
        <5> QED BY <1>1, <1>2, <3>1, <3>10, <5>2
      <4> QED BY <4>1, <4>2
    <3> QED BY <1>4, <3>6, <3>8, <3>9, <3>11
  <2> QED BY <2>1, <2>2
<1>6. Becomes(s) /\ call'.data \in Seq(Byte) /\ call'.op = "append"
  BY <1>1, <1>3
<1> HIDE DEF s
<1>7. BufferInv' /\ Readable' = Content(s)
  BY <1>5, <1>6, BecomesKeeps
<1> QED BY <1>3, <1>5, <1>6, <1>7 DEF Queue!PutBack

-----------------------------------------------------------------------------
(* The theorems.                                                           *)

\* The constructor leaves an empty queue.
LEMMA BufferInit == Init => BufferInv /\ Queue!Init
<1> SUFFICES ASSUME Init PROVE BufferInv /\ Queue!Init
  OBVIOUS
<1>1. cacheHeapPrepend_ \in Nat /\ initialSize_ \in Nat /\ MaxReadable \in Nat
  BY BufferAssumption
<1>2. cacheHeapPrepend_ + initialSize_ \in Nat
  BY <1>1
<1>3. /\ buffer_ \in Seq(Byte) /\ Len(buffer_) = cacheHeapPrepend_ + initialSize_
  BY <1>2, ZerosProperties DEF Init
<1>4. BufferInv
  BY <1>1, <1>3 DEF Init, BufferInv, TypeOK, CapacityBounded
<1>5. Readable = <<>>
  <2>1. /\ cacheHeapPrepend_ + 1 \in Int /\ cacheHeapPrepend_ \in Int
        /\ cacheHeapPrepend_ < cacheHeapPrepend_ + 1
    BY <1>1
  <2>2. Readable = SubSeq(buffer_, cacheHeapPrepend_ + 1, cacheHeapPrepend_)
    BY DEF Init, Readable
  <2> QED BY <2>1, <2>2, SubSeqEmpty
<1> QED BY <1>4, <1>5 DEF Init, Queue!Init

\* Each operation keeps the invariant and is the queue's operation of its name.
LEMMA BufferNext ==
    ASSUME BufferInv, [Next]_bufferVars
    PROVE  BufferInv' /\ [Queue!Next]_(Queue!queueVars)
<1>1. CASE UNCHANGED bufferVars
  BY <1>1 DEF bufferVars, BufferInv, TypeOK, CapacityBounded, Queue!queueVars, Readable
<1>2. CASE Next
  <2>1. ASSUME NEW data \in Strings, AppendBytes(data)
        PROVE  BufferInv' /\ Queue!Next
    BY <2>1, AppendStep DEF Queue!Next
  <2>2. ASSUME NEW data \in Strings, Prepend(data)
        PROVE  BufferInv' /\ Queue!Next
    BY <2>2, PrependStep DEF Queue!Next
  <2>3. ASSUME NEW data \in Strings, ReadFd(data)
        PROVE  BufferInv' /\ Queue!Next
    BY <2>3, ReadFdStep DEF Queue!Next
  <2>4. ASSUME NEW len \in 0 .. MaxReadable + 1, Retrieve(len)
        PROVE  BufferInv' /\ Queue!Next
    <3>1. len \in Nat
      BY BufferAssumption
    <3> QED BY <2>4, <3>1, RetrieveStep DEF Queue!Next
  <2>5. ASSUME NEW len \in 0 .. MaxReadable + 1, RetrieveAsString(len)
        PROVE  BufferInv' /\ Queue!Next
    <3>1. len \in Nat
      BY BufferAssumption
    <3> QED BY <2>5, <3>1, RetrieveAsStringStep DEF Queue!Next
  <2> QED BY <1>2, <2>1, <2>2, <2>3, <2>4, <2>5 DEF Next
<1> QED BY <1>1, <1>2

\* However the operations follow one another, the indices stay in order and the
\* prepend area a retrieve resets them to lies inside the vector.
THEOREM BufferInvariant == Spec => []BufferInv
<1>1. Init => BufferInv
  BY BufferInit
<1>2. BufferInv /\ [Next]_bufferVars => BufferInv'
  BY BufferNext
<1> QED BY <1>1, <1>2, PTL DEF Spec

\* The indices stay in order and inside the vector (buffer.cpp, buffer.h).
THEOREM BufferTypeCorrect == Spec => []TypeOK
<1>1. BufferInv => TypeOK
  BY DEF BufferInv
<1> QED BY <1>1, BufferInvariant, PTL

\* The vector never outgrows twice the largest backlog (buffer.cpp:102-115).
THEOREM CapacityIsBounded == Spec => []CapacityBounded
<1>1. BufferInv => CapacityBounded
  BY DEF BufferInv
<1> QED BY <1>1, BufferInvariant, PTL

\* A Buffer is a queue of bytes: every operation, whatever the sizes and
\* wherever the indices are, does to the bytes queued what the queue's does.
THEOREM BufferIsQueue == Spec => ImplementsQueue
<1>1. Init => Queue!Init
  BY BufferInit
<1>2. BufferInv /\ [Next]_bufferVars => [Queue!Next]_(Queue!queueVars)
  BY BufferNext
<1> QED BY <1>1, <1>2, BufferInvariant, PTL DEF Spec, ImplementsQueue, Queue!Spec
=============================================================================
