------------------------------- MODULE Buffer -------------------------------
(***************************************************************************)
(* net::Buffer: a vector with a reader and a writer index.  The bytes from *)
(* readerIndex_ to writerIndex_ are queued; the room before them is for    *)
(* prepending, and is reclaimed by moving them down when the room behind   *)
(* does not suffice.  Byte number i of the vector is buffer_[i + 1].       *)
(***************************************************************************)
EXTENDS Naturals, Sequences

CONSTANTS
    Byte,               \* values of a byte
    Zero,               \* the value of a fresh element of the vector
    cacheHeapPrepend_,  \* 8 in the code
    initialSize_,       \* 1024 in the code
    ExtraSize,          \* 65536: readFd's buffer on the stack
    MaxReadable         \* bound: bytes queued

ASSUME BufferAssumption ==
    /\ Zero \in Byte
    /\ cacheHeapPrepend_ \in Nat /\ initialSize_ \in Nat
    /\ ExtraSize \in Nat /\ MaxReadable \in Nat

VARIABLES
    buffer_, readerIndex_, writerIndex_,
    call    \* history: the last operation and the bytes it took or returned

bufferVars == <<buffer_, readerIndex_, writerIndex_, call>>

readableBytes == writerIndex_ - readerIndex_
writableBytes == Len(buffer_) - writerIndex_
prependableBytes == readerIndex_

\* The bytes queued, in order.
Readable == SubSeq(buffer_, readerIndex_ + 1, writerIndex_)

Called(op, data) == call' = [op |-> op, data |-> data]

Zeros(n) == [i \in 1 .. n |-> Zero]

Init ==
    /\ buffer_ = Zeros(cacheHeapPrepend_ + initialSize_)
    /\ readerIndex_ = cacheHeapPrepend_ /\ writerIndex_ = cacheHeapPrepend_
    /\ call = [op |-> "none", data |-> <<>>]

-----------------------------------------------------------------------------
(* Helpers.  A store is the vector and the two indices.  GrowAlways,       *)
(* CompactInPlace and RetrievePast are not the code's: each is a mistake   *)
(* the definition after it could have made.                                *)

\* std::copy of data to the elements after the first at.
Overlay(cells, at, data) ==
    [i \in DOMAIN cells |->
        IF at < i /\ i <= at + Len(data) THEN data[i - at] ELSE cells[i]]

GrowAlways(s, len) == [s EXCEPT !.cells = @ \o Zeros(s.writer + len - Len(@))]

CompactInPlace(s, len) ==
    IF Len(s.cells) - s.writer + s.reader < len + cacheHeapPrepend_
    THEN GrowAlways(s, len)
    ELSE [cells |-> s.cells, reader |-> cacheHeapPrepend_,
          writer |-> cacheHeapPrepend_ + (s.writer - s.reader)]

\* makeSpace, called when fewer than len elements are writable: grow the
\* vector, or move the queued bytes down to the prepend area.
MakeSpace(s, len) ==
    IF Len(s.cells) - s.writer + s.reader < len + cacheHeapPrepend_
    THEN [s EXCEPT !.cells = @ \o Zeros(s.writer + len - Len(@))]
    ELSE [cells |-> Overlay(s.cells, cacheHeapPrepend_,
                            SubSeq(s.cells, s.reader + 1, s.writer)),
          reader |-> cacheHeapPrepend_,
          writer |-> cacheHeapPrepend_ + (s.writer - s.reader)]

EnsureWriteableBytes(s, len) ==
    IF Len(s.cells) - s.writer < len THEN MakeSpace(s, len) ELSE s

Appended(s, data) ==
    LET t == EnsureWriteableBytes(s, Len(data))
    IN  [t EXCEPT !.cells = Overlay(@, t.writer, data), !.writer = @ + Len(data)]

Store == [cells |-> buffer_, reader |-> readerIndex_, writer |-> writerIndex_]

Becomes(s) ==
    buffer_' = s.cells /\ readerIndex_' = s.reader /\ writerIndex_' = s.writer

-----------------------------------------------------------------------------
(* The operations.                                                         *)

AppendBytes(data) ==
    /\ readableBytes + Len(data) <= MaxReadable
    /\ Becomes(Appended(Store, data))
    /\ Called("append", data)

Prepend(data) ==
    /\ Len(data) <= prependableBytes
    /\ readableBytes + Len(data) <= MaxReadable
    /\ readerIndex_' = readerIndex_ - Len(data)
    /\ buffer_' = Overlay(buffer_, readerIndex_ - Len(data), data)
    /\ UNCHANGED writerIndex_
    /\ Called("prepend", data)

\* The store after retrieve(len): a len beyond the queue empties it.
RetrievePast(len) == [Store EXCEPT !.reader = @ + len]
AfterRetrieve(len) ==
    IF len < readableBytes THEN [Store EXCEPT !.reader = @ + len]
    ELSE [Store EXCEPT !.reader = cacheHeapPrepend_, !.writer = cacheHeapPrepend_]

Retrieve(len) ==
    /\ Becomes(AfterRetrieve(len))
    /\ Called("discard", IF len < readableBytes THEN SubSeq(Readable, 1, len) ELSE Readable)

\* retrieveAsString, and with all the bytes retrieveAllAsString.  The code does
\* not compare len with readableBytes(), and would copy bytes past writerIndex_
\* into the string; that it is at most that is its callers' duty.
RetrieveAsString(len) ==
    /\ len <= readableBytes
    /\ Becomes(AfterRetrieve(len))
    /\ Called("take", SubSeq(buffer_, readerIndex_ + 1, readerIndex_ + len))

\* readFd: readv fills the writable elements and then, if they are few, the
\* buffer on the stack, whose bytes are appended.
ReadCapacity ==
    writableBytes + (IF writableBytes < ExtraSize THEN ExtraSize ELSE 0)

Received(data) ==
    IF Len(data) <= writableBytes
    THEN [Store EXCEPT !.cells = Overlay(@, writerIndex_, data),
                       !.writer = @ + Len(data)]
    ELSE Appended([Store EXCEPT
                     !.cells = Overlay(@, writerIndex_, SubSeq(data, 1, writableBytes)),
                     !.writer = Len(buffer_)],
                  SubSeq(data, writableBytes + 1, Len(data)))

ReadFd(data) ==
    /\ Len(data) <= ReadCapacity
    /\ readableBytes + Len(data) <= MaxReadable
    /\ Becomes(Received(data))
    /\ Called("append", data)

Strings == UNION {[1 .. n -> Byte] : n \in 0 .. MaxReadable}

Next ==
    \/ \E data \in Strings : AppendBytes(data) \/ Prepend(data) \/ ReadFd(data)
    \/ \E len \in 0 .. MaxReadable + 1 : Retrieve(len) \/ RetrieveAsString(len)

Spec == Init /\ [][Next]_bufferVars

-----------------------------------------------------------------------------
(* Properties.                                                             *)

\* Type of the buffer's state.  The indices are in order and inside the
\* vector, so that no peek, copy or readv reaches outside it.
TypeOK ==
    /\ buffer_ \in Seq(Byte)
    /\ readerIndex_ \in Nat /\ writerIndex_ \in Nat
    /\ readerIndex_ <= writerIndex_ /\ writerIndex_ <= Len(buffer_)
    /\ call.data \in Seq(Byte)

\* The vector does not outgrow what is queued: space in front of the queue is
\* reclaimed before the vector grows, so that a connection that keeps up with
\* its peer never needs more than twice its largest backlog
\* (buffer.cpp:102-115).
CapacityBounded ==
    \/ Len(buffer_) = cacheHeapPrepend_ + initialSize_
    \/ Len(buffer_) < cacheHeapPrepend_ + 2 * MaxReadable

\* Whatever the sizes and wherever the indices are, the operations are those
\* of a queue: nothing is lost, repeated or reordered when the vector grows,
\* when the bytes move down, or when a read is split over two areas.
Queue == INSTANCE ByteQueue WITH bytes <- Readable

ImplementsQueue == Queue!Spec
=============================================================================
