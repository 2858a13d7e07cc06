----------------------------- MODULE MuduoBuffer -----------------------------
(***************************************************************************)
(* muduo's Buffer, the queue of bytes between a socket and its user: a     *)
(* vector with a reader and a writer index.                                *)
(*                                                                         *)
(* A buffer is [size, buffer_, readerIndex_, writerIndex_], where buffer_  *)
(* maps 0 .. size - 1 to bytes.                                            *)
(***************************************************************************)
EXTENDS Integers, Sequences

CONSTANTS Byte,
          kCheapPrepend,   \* room kept in front of the readable bytes
          kInitialSize,
          kExtrabuf,       \* size of readFd's buffer on the stack
          MaxChunk,        \* bound: bytes written, read or reserved at once
          MaxReadable      \* bound: bytes in the buffer

ASSUME BufferAssumption ==
    /\ Byte # {}
    /\ kCheapPrepend \in Nat /\ kInitialSize \in Nat
    /\ kExtrabuf \in Nat
    /\ MaxChunk \in Nat /\ MaxReadable \in Nat

VARIABLES buf,
          call   \* the last operation and its argument, as ByteQueue records them

vars == <<buf, call>>

-----------------------------------------------------------------------------
readableBytes(b)    == b.writerIndex_ - b.readerIndex_
writableBytes(b)    == b.size - b.writerIndex_
prependableBytes(b) == b.readerIndex_

\* std::vector fills new elements with one value; which one does not matter.
zero == CHOOSE x \in Byte : TRUE

Buffer(size, vector, reader, writer) ==
    [size |-> size, buffer_ |-> vector, readerIndex_ |-> reader, writerIndex_ |-> writer]

NewBuffer(initialSize) ==
    Buffer(kCheapPrepend + initialSize,
           [i \in 0 .. kCheapPrepend + initialSize - 1 |-> zero],
           kCheapPrepend, kCheapPrepend)

\* The readable bytes, from peek() on.
Contents(b) == [i \in 1 .. readableBytes(b) |-> b.buffer_[b.readerIndex_ + i - 1]]

\* std::copy of data to begin() + at.
copy(b, at, data) ==
    [i \in 0 .. b.size - 1 |->
        IF at <= i /\ i < at + Len(data) THEN data[i - at + 1] ELSE b.buffer_[i]]

-----------------------------------------------------------------------------
(* Making space *)

resize(b, n) ==
    Buffer(n, [i \in 0 .. n - 1 |-> IF i < b.size THEN b.buffer_[i] ELSE zero],
           b.readerIndex_, b.writerIndex_)

moveToFront(b) ==
    Buffer(b.size, copy(b, kCheapPrepend, Contents(b)),
           kCheapPrepend, kCheapPrepend + readableBytes(b))

makeSpace(b, len) ==
    IF writableBytes(b) + prependableBytes(b) < len + kCheapPrepend
    THEN resize(b, b.writerIndex_ + len)
    ELSE moveToFront(b)

ensureWritableBytes(b, len) == IF writableBytes(b) < len THEN makeSpace(b, len) ELSE b

\* The assertions of makeSpace and ensureWritableBytes for a request of len bytes.
spaceAsserts(b, len) ==
    writableBytes(b) < len =>
        /\ \/ writableBytes(b) + prependableBytes(b) < len + kCheapPrepend
           \/ kCheapPrepend < b.readerIndex_
        /\ writableBytes(makeSpace(b, len)) >= len

-----------------------------------------------------------------------------
(* Writing and reading *)

\* Bytes copied to beginWrite() and counted by hasWritten.
written(b, data) ==
    Buffer(b.size, copy(b, b.writerIndex_, data), b.readerIndex_, b.writerIndex_ + Len(data))

append(b, data) == written(ensureWritableBytes(b, Len(data)), data)

retrieveAll(b) == Buffer(b.size, b.buffer_, kCheapPrepend, kCheapPrepend)

retrieve(b, len) ==
    IF len < readableBytes(b)
    THEN Buffer(b.size, b.buffer_, b.readerIndex_ + len, b.writerIndex_)
    ELSE retrieveAll(b)

unwrite(b, len) == Buffer(b.size, b.buffer_, b.readerIndex_, b.writerIndex_ - len)

prepend(b, data) ==
    Buffer(b.size, copy(b, b.readerIndex_ - Len(data), data),
           b.readerIndex_ - Len(data), b.writerIndex_)

shrink(b, reserve) ==
    append(ensureWritableBytes(NewBuffer(kInitialSize), readableBytes(b) + reserve), Contents(b))

\* readv fills the writable bytes and then, when they are few, the buffer on
\* the stack.
readvMax(b) == writableBytes(b) + (IF writableBytes(b) < kExtrabuf THEN kExtrabuf ELSE 0)

\* Faulty variant: the bytes beyond the writable ones are lost.
readFdTruncates(b, data) ==
    IF Len(data) <= writableBytes(b) THEN written(b, data)
    ELSE written(b, SubSeq(data, 1, writableBytes(b)))

readFd(b, data) ==
    IF Len(data) <= writableBytes(b) THEN written(b, data)
    ELSE append(written(b, SubSeq(data, 1, writableBytes(b))),
                SubSeq(data, writableBytes(b) + 1, Len(data)))

-----------------------------------------------------------------------------
Call(op, data, n) == [op |-> op, data |-> data, n |-> n]

Init == buf = NewBuffer(kInitialSize) /\ call = Call("none", <<>>, 0)

Chunk == UNION {[1 .. n -> Byte] : n \in 0 .. MaxChunk}

Appends  == \E data \in Chunk : /\ readableBytes(buf) + Len(data) <= MaxReadable
                                /\ buf' = append(buf, data)
                                /\ call' = Call("write", data, 0)
Prepends == \E data \in Chunk : /\ readableBytes(buf) + Len(data) <= MaxReadable
                                /\ Len(data) <= prependableBytes(buf)
                                /\ buf' = prepend(buf, data)
                                /\ call' = Call("prepend", data, 0)
ReadsFd  == \E data \in Chunk : /\ readableBytes(buf) + Len(data) <= MaxReadable
                                /\ Len(data) <= readvMax(buf)
                                /\ buf' = readFd(buf, data)
                                /\ call' = Call("write", data, 0)

Retrieves == \E n \in 0 .. readableBytes(buf) : /\ buf' = retrieve(buf, n)
                                               /\ call' = Call("retrieve", <<>>, n)
Unwrites  == \E n \in 0 .. readableBytes(buf) : /\ buf' = unwrite(buf, n)
                                               /\ call' = Call("unwrite", <<>>, n)
Reserves  == \E n \in 0 .. MaxChunk : /\ buf' = ensureWritableBytes(buf, n)
                                     /\ call' = Call("none", <<>>, 0)
Shrinks   == \E n \in 0 .. MaxChunk : /\ buf' = shrink(buf, n)
                                     /\ call' = Call("none", <<>>, 0)

Next == Appends \/ Prepends \/ ReadsFd \/ Retrieves \/ Unwrites \/ Reserves \/ Shrinks

Spec == Init /\ [][Next]_vars

-----------------------------------------------------------------------------
(* Properties *)

IsBuffer(b) ==
    /\ b.size \in Nat /\ kCheapPrepend <= b.size
    /\ b.buffer_ \in [0 .. b.size - 1 -> Byte]
    /\ b.readerIndex_ \in 0 .. b.writerIndex_
    /\ b.writerIndex_ \in 0 .. b.size

\* The indices stay in order and inside the vector: "0 <= readerIndex <=
\* writerIndex <= size" (Buffer.h:40).
TypeOK == IsBuffer(buf)

\* Whatever is asked for next, makeSpace finds the room it asserts: it moves
\* bytes only when they are not at the front already.
SpaceIsFound == \A len \in 0 .. MaxChunk : spaceAsserts(buf, len)

\* Bytes that were read do not pile up in front of the others: the vector
\* grows with what it holds and what comes at once, not with the traffic.
SizeIsBounded ==
    \/ buf.size <= kCheapPrepend + kInitialSize
    \/ buf.size <= kCheapPrepend + MaxReadable + 2 * MaxChunk

\* The buffer is a queue of bytes, whatever is moved and grown inside: each
\* operation does to the readable bytes exactly what its user asked for.
Queue == INSTANCE ByteQueue WITH queue <- Contents(buf)

ImplementsQueue == Queue!Spec
==============================================================================
