-------------------------- MODULE MuduoBufferProofs --------------------------
(***************************************************************************)
(* A muduo Buffer of any size and with any traffic keeps its indices in    *)
(* order, finds the space it asserts, grows no more than its contents      *)
(* need, and is a queue of bytes.                                          *)
(***************************************************************************)
EXTENDS MuduoBuffer, SequenceTheorems, TLAPS

-----------------------------------------------------------------------------
(* The parts a buffer is made of *)

\* zero is a byte.
LEMMA ZeroIsByte == zero \in Byte
  BY BufferAssumption DEF zero

\* The fields of Buffer(...).
LEMMA Fields ==
    ASSUME NEW n, NEW v, NEW r, NEW w
    PROVE  /\ Buffer(n, v, r, w).size = n
           /\ Buffer(n, v, r, w).buffer_ = v
           /\ Buffer(n, v, r, w).readerIndex_ = r
           /\ Buffer(n, v, r, w).writerIndex_ = w
  BY DEF Buffer

\* The facts about lengths that every proof below uses.
LEMMA Sizes ==
    ASSUME NEW b, IsBuffer(b)
    PROVE  /\ b.size \in Nat /\ b.readerIndex_ \in Nat /\ b.writerIndex_ \in Nat
           /\ b.readerIndex_ <= b.writerIndex_ /\ b.writerIndex_ <= b.size
           /\ kCheapPrepend <= b.size /\ kCheapPrepend \in Nat
           /\ readableBytes(b) \in Nat /\ writableBytes(b) \in Nat
           /\ readableBytes(b) = b.writerIndex_ - b.readerIndex_
           /\ writableBytes(b) = b.size - b.writerIndex_
           /\ prependableBytes(b) = b.readerIndex_
  BY BufferAssumption DEF IsBuffer, readableBytes, writableBytes, prependableBytes

\* The readable bytes are a sequence of bytes.
LEMMA ContentsSeq ==
    ASSUME NEW b, IsBuffer(b)
    PROVE  /\ Contents(b) \in Seq(Byte)
           /\ Len(Contents(b)) = readableBytes(b)
           /\ \A i \in 1 .. readableBytes(b) :
                  Contents(b)[i] = b.buffer_[b.readerIndex_ + i - 1]
<1> DEFINE n == readableBytes(b)
<1>1. n \in Nat
  BY Sizes
<1>2. ASSUME NEW i \in 1 .. n
      PROVE  b.buffer_[b.readerIndex_ + i - 1] \in Byte
  <2>1. b.readerIndex_ + i - 1 \in 0 .. b.size - 1
    BY Sizes
  <2> QED
    BY <2>1 DEF IsBuffer
<1>3. Contents(b) \in [1 .. n -> Byte]
  BY <1>2 DEF Contents
<1>4. Contents(b) \in Seq(Byte)
  BY <1>1, <1>3, SeqDef
<1>5. Len(Contents(b)) = n
  BY <1>1, <1>3, <1>4, LenProperties
<1> QED
  BY <1>4, <1>5 DEF Contents

\* std::copy into a buffer's vector.
LEMMA Copy ==
    ASSUME NEW b, IsBuffer(b), NEW at \in Nat, NEW data \in Seq(Byte),
           at + Len(data) <= b.size
    PROVE  /\ copy(b, at, data) \in [0 .. b.size - 1 -> Byte]
           /\ \A i \in 0 .. b.size - 1 :
                copy(b, at, data)[i] = IF at <= i /\ i < at + Len(data) THEN data[i - at + 1]
                                       ELSE b.buffer_[i]
<1>1. Len(data) \in Nat
  BY LenProperties
<1>2. ASSUME NEW i \in 0 .. b.size - 1
      PROVE  (IF at <= i /\ i < at + Len(data) THEN data[i - at + 1] ELSE b.buffer_[i]) \in Byte
  <2>1. CASE at <= i /\ i < at + Len(data)
    <3>1. i - at + 1 \in 1 .. Len(data)
      BY <1>1, <2>1, Sizes
    <3> QED
      BY <2>1, <3>1, ElementOfSeq
  <2>2. CASE ~(at <= i /\ i < at + Len(data))
    BY <2>2 DEF IsBuffer
  <2> QED
    BY <2>1, <2>2
<1> QED
  BY <1>2 DEF copy

\* What a sequence of bytes is known by.
LEMMA SameContents ==
    ASSUME NEW b, IsBuffer(b), NEW s \in Seq(Byte), Len(s) = readableBytes(b),
           \A i \in 1 .. readableBytes(b) : s[i] = b.buffer_[b.readerIndex_ + i - 1]
    PROVE  Contents(b) = s
  BY ContentsSeq, SeqEqual

-----------------------------------------------------------------------------
(* Making space *)

\* The buffer of a new connection.
LEMMA NewIsBuffer ==
    ASSUME NEW n \in Nat
    PROVE  /\ IsBuffer(NewBuffer(n))
           /\ readableBytes(NewBuffer(n)) = 0
           /\ NewBuffer(n).size = kCheapPrepend + n
           /\ NewBuffer(n).readerIndex_ = kCheapPrepend
           /\ NewBuffer(n).writerIndex_ = kCheapPrepend
  BY BufferAssumption, ZeroIsByte, Fields DEF NewBuffer, IsBuffer, readableBytes

\* Growing the vector moves nothing.
LEMMA Resize ==
    ASSUME NEW b, IsBuffer(b), NEW n \in Nat, b.size <= n
    PROVE  /\ IsBuffer(resize(b, n))
           /\ Contents(resize(b, n)) = Contents(b)
           /\ readableBytes(resize(b, n)) = readableBytes(b)
           /\ resize(b, n).size = n
           /\ resize(b, n).writerIndex_ = b.writerIndex_
<1> DEFINE v == [i \in 0 .. n - 1 |-> IF i < b.size THEN b.buffer_[i] ELSE zero]
           c == resize(b, n)
<1>1. c.size = n /\ c.buffer_ = v /\ c.readerIndex_ = b.readerIndex_ /\ c.writerIndex_ = b.writerIndex_
  BY Fields DEF resize
<1>2. v \in [0 .. n - 1 -> Byte]
  <2>1. ASSUME NEW i \in 0 .. n - 1 PROVE (IF i < b.size THEN b.buffer_[i] ELSE zero) \in Byte
    <3>1. CASE i < b.size
      <4>1. i \in 0 .. b.size - 1
        BY <3>1, Sizes
      <4> QED
        BY <3>1, <4>1 DEF IsBuffer
    <3>2. CASE ~(i < b.size)
      BY <3>2, ZeroIsByte
    <3> QED
      BY <3>1, <3>2
  <2> QED
    BY <2>1
<1>3. IsBuffer(c)
  <2> HIDE DEF c, v
  <2> QED
    BY <1>1, <1>2, Sizes, SMTT(30) DEF IsBuffer
<1>4. readableBytes(c) = readableBytes(b)
  BY <1>1 DEF readableBytes
<1>5. ASSUME NEW i \in 1 .. readableBytes(c)
      PROVE  Contents(b)[i] = c.buffer_[c.readerIndex_ + i - 1]
  <2>1. b.readerIndex_ + i - 1 \in 0 .. n - 1 /\ b.readerIndex_ + i - 1 < b.size
    BY <1>4, Sizes
  <2>2. c.buffer_[c.readerIndex_ + i - 1] = b.buffer_[b.readerIndex_ + i - 1]
    BY <1>1, <2>1
  <2> QED
    BY <1>4, <2>2, ContentsSeq
<1>6. Contents(c) = Contents(b)
  <2> HIDE DEF c
  <2> QED
    BY <1>3, <1>4, <1>5, ContentsSeq, SameContents
<1> QED
  BY <1>1, <1>3, <1>4, <1>6

\* Moving the readable bytes to the front, when they are not there yet.
LEMMA MoveToFront ==
    ASSUME NEW b, IsBuffer(b), kCheapPrepend < b.readerIndex_
    PROVE  /\ IsBuffer(moveToFront(b))
           /\ Contents(moveToFront(b)) = Contents(b)
           /\ readableBytes(moveToFront(b)) = readableBytes(b)
           /\ moveToFront(b).size = b.size
           /\ moveToFront(b).writerIndex_ = kCheapPrepend + readableBytes(b)
<1> DEFINE v == copy(b, kCheapPrepend, Contents(b))
           c == moveToFront(b)
<1>0. Contents(b) \in Seq(Byte) /\ Len(Contents(b)) = readableBytes(b)
  BY ContentsSeq
<1>1. /\ c.size = b.size /\ c.buffer_ = v /\ c.readerIndex_ = kCheapPrepend
      /\ c.writerIndex_ = kCheapPrepend + readableBytes(b)
  BY Fields DEF moveToFront
<1>2. kCheapPrepend + Len(Contents(b)) <= b.size /\ kCheapPrepend \in Nat
  BY <1>0, Sizes
<1>3. /\ v \in [0 .. b.size - 1 -> Byte]
      /\ \A i \in 0 .. b.size - 1 :
            v[i] = IF kCheapPrepend <= i /\ i < kCheapPrepend + Len(Contents(b))
                   THEN Contents(b)[i - kCheapPrepend + 1] ELSE b.buffer_[i]
  BY <1>0, <1>2, Copy
<1> HIDE DEF c, v
<1>4. IsBuffer(c)
  BY <1>1, <1>2, <1>3, <1>0, Sizes DEF IsBuffer
<1>5. readableBytes(c) = readableBytes(b)
  BY <1>1, Sizes DEF readableBytes
<1>6. ASSUME NEW i \in 1 .. readableBytes(c)
      PROVE  Contents(b)[i] = c.buffer_[c.readerIndex_ + i - 1]
  <2> DEFINE j == kCheapPrepend + i - 1
  <2>1. /\ j \in 0 .. b.size - 1 /\ kCheapPrepend <= j /\ j < kCheapPrepend + Len(Contents(b))
        /\ j - kCheapPrepend + 1 = i
    BY <1>0, <1>2, <1>5, Sizes
  <2> HIDE DEF j
  <2>2. v[j] = Contents(b)[i]
    BY <1>3, <2>1
  <2> QED
    BY <1>1, <2>2 DEF j
<1>7. Contents(c) = Contents(b)
  BY <1>0, <1>4, <1>5, <1>6, SameContents
<1> QED
  BY <1>1, <1>4, <1>5, <1>7 DEF c

\* makeSpace finds the room, keeps the bytes, and bounds the vector.
LEMMA MakeSpace ==
    ASSUME NEW b, IsBuffer(b), NEW len \in Nat, writableBytes(b) < len
    PROVE  LET c == makeSpace(b, len)
           IN  /\ IsBuffer(c)
               /\ Contents(c) = Contents(b) /\ readableBytes(c) = readableBytes(b)
               /\ writableBytes(c) >= len
               /\ c.size = b.size \/ c.size <= kCheapPrepend + readableBytes(b) + 2 * len
<1>1. CASE writableBytes(b) + prependableBytes(b) < len + kCheapPrepend
  <2> DEFINE n == b.writerIndex_ + len
             c == resize(b, n)
  <2>1. makeSpace(b, len) = c
    BY <1>1 DEF makeSpace
  <2>2. n \in Nat /\ b.size <= n
    BY Sizes
  <2>3. /\ IsBuffer(c) /\ Contents(c) = Contents(b) /\ readableBytes(c) = readableBytes(b)
        /\ c.size = n /\ c.writerIndex_ = b.writerIndex_
    BY <2>2, Resize
  <2> HIDE DEF c
  <2>4. writableBytes(c) >= len
    BY <2>3, Sizes DEF writableBytes
  <2>5. c.size <= kCheapPrepend + readableBytes(b) + 2 * len
    BY <1>1, <2>3, Sizes
  <2> QED
    BY <2>1, <2>3, <2>4, <2>5
<1>2. CASE ~(writableBytes(b) + prependableBytes(b) < len + kCheapPrepend)
  <2> DEFINE c == moveToFront(b)
  <2>1. makeSpace(b, len) = c
    BY <1>2 DEF makeSpace
  <2>2. kCheapPrepend < b.readerIndex_
    BY <1>2, Sizes
  <2>3. /\ IsBuffer(c) /\ Contents(c) = Contents(b) /\ readableBytes(c) = readableBytes(b)
        /\ c.size = b.size /\ c.writerIndex_ = kCheapPrepend + readableBytes(b)
    BY <2>2, MoveToFront
  <2> HIDE DEF c
  <2>4. writableBytes(c) >= len
    BY <1>2, <2>3, Sizes DEF writableBytes
  <2> QED
    BY <2>1, <2>3, <2>4
<1> QED
  BY <1>1, <1>2

\* ensureWritableBytes, whether it has to make space or not.
LEMMA EnsureWritable ==
    ASSUME NEW b, IsBuffer(b), NEW len \in Nat
    PROVE  LET c == ensureWritableBytes(b, len)
           IN  /\ IsBuffer(c)
               /\ Contents(c) = Contents(b) /\ readableBytes(c) = readableBytes(b)
               /\ writableBytes(c) >= len
               /\ c.size = b.size \/ c.size <= kCheapPrepend + readableBytes(b) + 2 * len
<1>1. CASE writableBytes(b) < len
  BY <1>1, MakeSpace DEF ensureWritableBytes
<1>2. CASE ~(writableBytes(b) < len)
  BY <1>2, Sizes DEF ensureWritableBytes
<1> QED
  BY <1>1, <1>2

-----------------------------------------------------------------------------
(* Writing and reading *)

\* A size below a bound is below a larger one.
LEMMA AtMost ==
    ASSUME NEW x \in Int, NEW y \in Int, NEW z \in Int, x <= y, y <= z
    PROVE  x <= z
OBVIOUS

\* Writing within the writable bytes.
LEMMA Written ==
    ASSUME NEW b, IsBuffer(b), NEW data \in Seq(Byte), Len(data) <= writableBytes(b)
    PROVE  LET c == written(b, data)
           IN  /\ IsBuffer(c)
               /\ Contents(c) = Contents(b) \o data
               /\ readableBytes(c) = readableBytes(b) + Len(data)
               /\ writableBytes(c) = writableBytes(b) - Len(data)
               /\ c.size = b.size
<1> DEFINE v == copy(b, b.writerIndex_, data)
           c == written(b, data)
           q == Contents(b) \o data
<1>0. /\ Contents(b) \in Seq(Byte) /\ Len(Contents(b)) = readableBytes(b)
      /\ Len(data) \in Nat
  BY ContentsSeq, LenProperties
<1>1. /\ c.size = b.size /\ c.buffer_ = v /\ c.readerIndex_ = b.readerIndex_
      /\ c.writerIndex_ = b.writerIndex_ + Len(data)
  BY Fields DEF written
<1>2. b.writerIndex_ + Len(data) <= b.size /\ b.writerIndex_ \in Nat
  BY <1>0, Sizes
<1>3. /\ v \in [0 .. b.size - 1 -> Byte]
      /\ \A i \in 0 .. b.size - 1 :
            v[i] = IF b.writerIndex_ <= i /\ i < b.writerIndex_ + Len(data)
                   THEN data[i - b.writerIndex_ + 1] ELSE b.buffer_[i]
  BY <1>2, Copy
<1>4. /\ q \in Seq(Byte) /\ Len(q) = readableBytes(b) + Len(data)
      /\ \A i \in 1 .. readableBytes(b) + Len(data) :
            q[i] = IF i <= readableBytes(b) THEN Contents(b)[i] ELSE data[i - readableBytes(b)]
  <2>1. /\ q \in Seq(Byte) /\ Len(q) = Len(Contents(b)) + Len(data)
        /\ \A i \in 1 .. Len(Contents(b)) + Len(data) :
              q[i] = IF i <= Len(Contents(b)) THEN Contents(b)[i] ELSE data[i - Len(Contents(b))]
    BY <1>0, ConcatProperties
  <2> HIDE DEF q
  <2> QED
    BY <1>0, <2>1
<1> HIDE DEF c, v, q
<1>5. IsBuffer(c)
  BY <1>0, <1>1, <1>2, <1>3, Sizes DEF IsBuffer
<1>6. readableBytes(c) = readableBytes(b) + Len(data) /\ writableBytes(c) = writableBytes(b) - Len(data)
  BY <1>0, <1>1, Sizes, SMTT(30) DEF readableBytes, writableBytes
<1>6a. /\ b.size \in Nat /\ b.readerIndex_ \in Nat /\ b.writerIndex_ \in Nat
       /\ readableBytes(b) = b.writerIndex_ - b.readerIndex_
       /\ b.readerIndex_ <= b.writerIndex_
  BY Sizes
<1>7. ASSUME NEW i \in 1 .. readableBytes(c)
      PROVE  q[i] = c.buffer_[c.readerIndex_ + i - 1]
  <2> DEFINE j == b.readerIndex_ + i - 1
  <2>0. readableBytes(b) \in Nat /\ Len(data) \in Nat
    BY <1>0, Sizes
  <2>0a. i \in Nat /\ 1 <= i /\ i <= readableBytes(b) + Len(data)
    BY <1>6, <2>0
  <2>1. j \in 0 .. b.size - 1
    <3> DEFINE r == b.readerIndex_
               w == b.writerIndex_
               n == Len(data)
               size == b.size
    <3>1. /\ r \in Nat /\ w \in Nat /\ n \in Nat /\ size \in Nat /\ i \in Nat
          /\ r <= w /\ w + n <= size /\ 1 <= i /\ i <= (w - r) + n
      BY <1>2, <1>6a, <2>0, <2>0a
    <3> HIDE DEF r, w, n, size
    <3>2. r + i - 1 \in 0 .. size - 1
      BY <3>1
    <3> QED
      BY <3>2 DEF r, size
  <2>2. CASE i <= readableBytes(b)
    <3>1. j < b.writerIndex_ /\ i \in 1 .. readableBytes(b)
      BY <2>2, <1>0, <1>6, Sizes, SMTT(30)
    <3>2. v[j] = b.buffer_[j]
      BY <1>0, <1>2, <1>3, <2>1, <3>1
    <3>3. Contents(b)[i] = b.buffer_[j]
      BY <3>1, ContentsSeq
    <3> QED
      BY <1>1, <1>4, <1>6, <2>2, <3>2, <3>3
  <2>3. CASE ~(i <= readableBytes(b))
    <3>1. /\ b.writerIndex_ <= j /\ j < b.writerIndex_ + Len(data)
          /\ j - b.writerIndex_ + 1 = i - readableBytes(b)
      <4> DEFINE r == b.readerIndex_
                 w == b.writerIndex_
                 n == Len(data)
                 m == readableBytes(b)
      <4>1. /\ r \in Nat /\ w \in Nat /\ n \in Nat /\ m \in Nat /\ i \in Nat
            /\ m = w - r /\ ~(i <= m) /\ i <= m + n
        BY <2>3, <1>6a, <2>0, <2>0a
      <4> HIDE DEF r, w, n, m
      <4>2. w <= r + i - 1 /\ r + i - 1 < w + n /\ (r + i - 1) - w + 1 = i - m
        BY <4>1
      <4> QED
        BY <4>2 DEF r, w, n, m
    <3> HIDE DEF j
    <3>2. v[j] = data[i - readableBytes(b)]
      BY <1>3, <2>1, <3>1
    <3> QED
      BY <1>1, <1>4, <1>6, <2>3, <3>2 DEF j
  <2> QED
    BY <2>2, <2>3
<1>8. Contents(c) = q
  BY <1>4, <1>5, <1>6, <1>7, SameContents
<1> QED
  BY <1>1, <1>5, <1>6, <1>8 DEF c, q

\* append, whatever space there is.
LEMMA Appended ==
    ASSUME NEW b, IsBuffer(b), NEW data \in Seq(Byte)
    PROVE  LET c == append(b, data)
           IN  /\ IsBuffer(c)
               /\ Contents(c) = Contents(b) \o data
               /\ readableBytes(c) = readableBytes(b) + Len(data)
               /\ c.size = b.size \/ c.size <= kCheapPrepend + readableBytes(b) + 2 * Len(data)
<1> DEFINE e == ensureWritableBytes(b, Len(data))
<1>1. Len(data) \in Nat
  BY LenProperties
<1>2. /\ IsBuffer(e) /\ Contents(e) = Contents(b) /\ readableBytes(e) = readableBytes(b)
      /\ writableBytes(e) >= Len(data)
      /\ e.size = b.size \/ e.size <= kCheapPrepend + readableBytes(b) + 2 * Len(data)
  BY <1>1, EnsureWritable
<1>3. append(b, data) = written(e, data)
  BY DEF append
<1> HIDE DEF e
<1>4. Len(data) <= writableBytes(e)
  BY <1>1, <1>2, Sizes
<1> QED
  BY <1>2, <1>3, <1>4, Written

\* retrieve takes bytes from the front.
LEMMA Retrieved ==
    ASSUME NEW b, IsBuffer(b), NEW n \in 0 .. readableBytes(b)
    PROVE  LET c == retrieve(b, n)
           IN  /\ IsBuffer(c)
               /\ Contents(c) = SubSeq(Contents(b), n + 1, Len(Contents(b)))
               /\ readableBytes(c) = readableBytes(b) - n
               /\ c.size = b.size
<1> DEFINE c == retrieve(b, n)
           m == readableBytes(b)
           q == SubSeq(Contents(b), n + 1, m)
<1>0. Contents(b) \in Seq(Byte) /\ Len(Contents(b)) = m /\ m \in Nat /\ n \in Nat /\ n <= m
  BY ContentsSeq, Sizes
<1>1. /\ q \in Seq(Byte) /\ Len(q) = m - n
      /\ \A i \in 1 .. m - n : q[i] = Contents(b)[n + i]
  BY <1>0, SubSeqProperties, SMTT(30)
<1>2. CASE n < m
  <2>1. /\ c.size = b.size /\ c.buffer_ = b.buffer_ /\ c.readerIndex_ = b.readerIndex_ + n
        /\ c.writerIndex_ = b.writerIndex_
    BY <1>2, Fields DEF retrieve
  <2> HIDE DEF c, q
  <2>2. IsBuffer(c) /\ readableBytes(c) = m - n
    BY <1>0, <1>2, <2>1, Sizes DEF IsBuffer, readableBytes
  <2>3. ASSUME NEW i \in 1 .. readableBytes(c)
        PROVE  q[i] = c.buffer_[c.readerIndex_ + i - 1]
    <3>1. i \in 1 .. m - n /\ n + i \in 1 .. m
      BY <1>0, <2>2
    <3>2. Contents(b)[n + i] = b.buffer_[b.readerIndex_ + (n + i) - 1]
      BY <3>1, ContentsSeq
    <3>3. b.readerIndex_ + (n + i) - 1 = c.readerIndex_ + i - 1
      BY <1>0, <2>1, <3>1, Sizes
    <3> QED
      BY <1>1, <2>1, <3>1, <3>2, <3>3
  <2>4. Contents(c) = q
    BY <1>1, <2>2, <2>3, SameContents
  <2> QED
    BY <1>0, <2>1, <2>2, <2>4 DEF c, q
<1>3. CASE n = m
  <2>1. /\ c.size = b.size /\ c.buffer_ = b.buffer_ /\ c.readerIndex_ = kCheapPrepend
        /\ c.writerIndex_ = kCheapPrepend
    BY <1>0, <1>3, Fields DEF retrieve, retrieveAll
  <2> HIDE DEF c, q
  <2>2. IsBuffer(c) /\ readableBytes(c) = m - n
    BY <1>0, <1>3, <2>1, Sizes DEF IsBuffer, readableBytes
  <2>3. Contents(c) = q
    BY <1>0, <1>1, <1>3, <2>2, SameContents
  <2> QED
    BY <1>0, <2>1, <2>2, <2>3 DEF c, q
<1> QED
  BY <1>0, <1>2, <1>3

\* unwrite takes bytes from the back.
LEMMA Unwritten ==
    ASSUME NEW b, IsBuffer(b), NEW n \in 0 .. readableBytes(b)
    PROVE  LET c == unwrite(b, n)
           IN  /\ IsBuffer(c)
               /\ Contents(c) = SubSeq(Contents(b), 1, Len(Contents(b)) - n)
               /\ readableBytes(c) = readableBytes(b) - n
               /\ c.size = b.size
<1> DEFINE c == unwrite(b, n)
           m == readableBytes(b)
           q == SubSeq(Contents(b), 1, m - n)
<1>0. Contents(b) \in Seq(Byte) /\ Len(Contents(b)) = m /\ m \in Nat /\ n \in Nat /\ n <= m
  BY ContentsSeq, Sizes
<1>1. /\ q \in Seq(Byte) /\ Len(q) = m - n
      /\ \A i \in 1 .. m - n : q[i] = Contents(b)[i]
  BY <1>0, SubSeqProperties
<1>2. /\ c.size = b.size /\ c.buffer_ = b.buffer_ /\ c.readerIndex_ = b.readerIndex_
      /\ c.writerIndex_ = b.writerIndex_ - n
  BY Fields DEF unwrite
<1> HIDE DEF c, q
<1>3. IsBuffer(c) /\ readableBytes(c) = m - n
  BY <1>0, <1>2, Sizes, SMTT(30) DEF IsBuffer, readableBytes
<1>4. ASSUME NEW i \in 1 .. readableBytes(c)
      PROVE  q[i] = c.buffer_[c.readerIndex_ + i - 1]
  <2>1. i \in 1 .. m - n /\ i \in 1 .. m
    BY <1>0, <1>3
  <2> QED
    BY <1>1, <1>2, <2>1, ContentsSeq
<1>5. Contents(c) = q
  BY <1>1, <1>3, <1>4, SameContents
<1> QED
  BY <1>0, <1>2, <1>3, <1>5 DEF c, q

\* prepend uses the room in front.
LEMMA Prepended ==
    ASSUME NEW b, IsBuffer(b), NEW data \in Seq(Byte), Len(data) <= prependableBytes(b)
    PROVE  LET c == prepend(b, data)
           IN  /\ IsBuffer(c)
               /\ Contents(c) = data \o Contents(b)
               /\ readableBytes(c) = readableBytes(b) + Len(data)
               /\ c.size = b.size
<1> DEFINE at == b.readerIndex_ - Len(data)
           v == copy(b, at, data)
           c == prepend(b, data)
           q == data \o Contents(b)
<1>0. /\ Contents(b) \in Seq(Byte) /\ Len(Contents(b)) = readableBytes(b)
      /\ Len(data) \in Nat
  BY ContentsSeq, LenProperties
<1>0a. /\ b.size \in Nat /\ b.readerIndex_ \in Nat /\ b.writerIndex_ \in Nat
       /\ readableBytes(b) \in Nat /\ readableBytes(b) = b.writerIndex_ - b.readerIndex_
       /\ b.readerIndex_ <= b.writerIndex_ /\ b.writerIndex_ <= b.size
       /\ Len(data) <= b.readerIndex_ /\ kCheapPrepend <= b.size
  BY Sizes
<1>1. /\ c.size = b.size /\ c.buffer_ = v /\ c.readerIndex_ = at /\ c.writerIndex_ = b.writerIndex_
  BY Fields DEF prepend
<1>2. at \in Nat /\ at + Len(data) = b.readerIndex_ /\ at + Len(data) <= b.size
  BY <1>0, <1>0a
<1>3. /\ v \in [0 .. b.size - 1 -> Byte]
      /\ \A i \in 0 .. b.size - 1 :
            v[i] = IF at <= i /\ i < at + Len(data) THEN data[i - at + 1] ELSE b.buffer_[i]
  BY <1>2, Copy
<1>4. /\ q \in Seq(Byte) /\ Len(q) = readableBytes(b) + Len(data)
      /\ \A i \in 1 .. readableBytes(b) + Len(data) :
            q[i] = IF i <= Len(data) THEN data[i] ELSE Contents(b)[i - Len(data)]
  <2>1. /\ q \in Seq(Byte) /\ Len(q) = Len(data) + Len(Contents(b))
        /\ \A i \in 1 .. Len(data) + Len(Contents(b)) :
              q[i] = IF i <= Len(data) THEN data[i] ELSE Contents(b)[i - Len(data)]
    BY <1>0, ConcatProperties
  <2>2. Len(data) + Len(Contents(b)) = readableBytes(b) + Len(data)
    BY <1>0, <1>0a
  <2> HIDE DEF q
  <2> QED
    BY <2>1, <2>2
<1> HIDE DEF at, c, v, q
<1>5. IsBuffer(c) /\ readableBytes(c) = readableBytes(b) + Len(data)
  <2>1. IsBuffer(c)
    BY <1>0, <1>0a, <1>1, <1>2, <1>3 DEF IsBuffer
  <2>2. readableBytes(c) = readableBytes(b) + Len(data)
    BY <1>0, <1>0a, <1>1, <1>2 DEF readableBytes
  <2> QED
    BY <2>1, <2>2
<1>6. ASSUME NEW i \in 1 .. readableBytes(c)
      PROVE  q[i] = c.buffer_[c.readerIndex_ + i - 1]
  <2> DEFINE j == at + i - 1
  <2>1. i \in Nat /\ 1 <= i /\ i <= readableBytes(b) + Len(data)
    BY <1>0, <1>0a, <1>5
  <2>2. j \in 0 .. b.size - 1 /\ at <= j
    BY <1>0, <1>0a, <1>2, <2>1, SMTT(30)
  <2>3. CASE i <= Len(data)
    <3>1. j < at + Len(data) /\ j - at + 1 = i
      BY <1>0, <1>2, <2>1, <2>3
    <3> HIDE DEF j
    <3>2. v[j] = data[i]
      BY <1>3, <2>2, <3>1
    <3> QED
      BY <1>1, <1>4, <1>5, <2>3, <3>2 DEF j
  <2>4. CASE ~(i <= Len(data))
    <3>1. ~(j < at + Len(data)) /\ i - Len(data) \in 1 .. readableBytes(b)
      BY <1>0, <1>0a, <1>2, <2>1, <2>4, SMTT(30)
    <3>2. j = b.readerIndex_ + (i - Len(data)) - 1
      BY <1>0, <1>0a, <1>2, <2>1
    <3> HIDE DEF j
    <3>3. v[j] = b.buffer_[j]
      BY <1>3, <2>2, <3>1
    <3>4. Contents(b)[i - Len(data)] = b.buffer_[j]
      BY <3>1, <3>2, ContentsSeq
    <3> QED
      BY <1>1, <1>4, <1>5, <2>4, <3>3, <3>4 DEF j
  <2> QED
    BY <2>3, <2>4
<1>7. Contents(c) = q
  BY <1>4, <1>5, <1>6, SameContents
<1> QED
  BY <1>1, <1>5, <1>7 DEF c, q

\* readFd, with or without the buffer on the stack.
LEMMA ReadFromFd ==
    ASSUME NEW b, IsBuffer(b), NEW data \in Seq(Byte)
    PROVE  LET c == readFd(b, data)
           IN  /\ IsBuffer(c)
               /\ Contents(c) = Contents(b) \o data
               /\ readableBytes(c) = readableBytes(b) + Len(data)
               /\ \/ c.size = b.size
                  \/ c.size <= kCheapPrepend + readableBytes(b) + 2 * Len(data)
<1> DEFINE w == writableBytes(b)
           d1 == SubSeq(data, 1, w)
           d2 == SubSeq(data, w + 1, Len(data))
           m == written(b, d1)
<1>0. Len(data) \in Nat /\ w \in Nat /\ readableBytes(b) \in Nat /\ kCheapPrepend \in Nat
  BY LenProperties, Sizes
<1>1. CASE Len(data) <= w
  BY <1>1, Written DEF readFd
<1>2. CASE ~(Len(data) <= w)
  <2>1. \A i \in 1 .. Len(data) : data[i] \in Byte
    BY ElementOfSeq
  <2>2. d1 \in Seq(Byte) /\ Len(d1) = w
    BY <1>0, <1>2, <2>1, SubSeqProperties
  <2>3. d2 \in Seq(Byte) /\ Len(d2) = Len(data) - w
    BY <1>0, <1>2, <2>1, SubSeqProperties
  <2>4. d1 \o d2 = data
    <3>1. SubSeq(data, 1, w) \o SubSeq(data, w + 1, Len(data)) = SubSeq(data, 1, Len(data))
      <4>1. 1 \in 1 .. Len(data) + 1 /\ w \in 1 - 1 .. Len(data) /\ Len(data) \in w .. Len(data)
        BY <1>0, <1>2
      <4> HIDE DEF w
      <4> QED
        BY <4>1, ConcatAdjacentSubSeq
    <3> QED
      BY <3>1, SubSeqFull
  <2>5. readFd(b, data) = append(m, d2)
    BY <1>2 DEF readFd
  <2> HIDE DEF d1, d2
  <2>6. /\ IsBuffer(m) /\ Contents(m) = Contents(b) \o d1
        /\ readableBytes(m) = readableBytes(b) + w /\ m.size = b.size
    <3>1. Len(d1) <= writableBytes(b)
      BY <1>0, <2>2
    <3>2. /\ IsBuffer(m) /\ Contents(m) = Contents(b) \o d1
          /\ readableBytes(m) = readableBytes(b) + Len(d1) /\ m.size = b.size
      BY <2>2, <3>1, Written
    <3> QED
      BY <2>2, <3>2
  <2> HIDE DEF m
  <2>7. LET c == append(m, d2)
        IN  /\ IsBuffer(c) /\ Contents(c) = Contents(m) \o d2
            /\ readableBytes(c) = readableBytes(m) + Len(d2)
            /\ c.size = m.size \/ c.size <= kCheapPrepend + readableBytes(m) + 2 * Len(d2)
    BY <2>3, <2>6, Appended
  <2>8. (Contents(b) \o d1) \o d2 = Contents(b) \o (d1 \o d2)
    <3>1. Contents(b) \in Seq(Byte)
      BY ContentsSeq
    <3>2. d1 \in Seq(Byte) /\ d2 \in Seq(Byte)
      BY <2>2, <2>3
    <3> QED
      BY <3>1, <3>2, ConcatAssociative, SMTT(60)
  <2>9. readableBytes(m) + Len(d2) = readableBytes(b) + Len(data)
    BY <1>0, <2>3, <2>6
  <2>10. kCheapPrepend + readableBytes(m) + 2 * Len(d2)
             <= kCheapPrepend + readableBytes(b) + 2 * Len(data)
    BY <1>0, <1>2, <2>3, <2>6, SMTT(30)
  <2>11. append(m, d2).size \in Nat
    BY <2>7, Sizes
  <2>12. Contents(append(m, d2)) = Contents(b) \o data
    BY <2>4, <2>6, <2>7, <2>8
  <2>13. readableBytes(append(m, d2)) = readableBytes(b) + Len(data)
    BY <2>7, <2>9
  <2>14. \/ append(m, d2).size = b.size
         \/ append(m, d2).size <= kCheapPrepend + readableBytes(b) + 2 * Len(data)
    <3>1. CASE append(m, d2).size = m.size
      BY <3>1, <2>6
    <3>2. CASE append(m, d2).size <= kCheapPrepend + readableBytes(m) + 2 * Len(d2)
      <4>1. /\ kCheapPrepend + readableBytes(m) + 2 * Len(d2) \in Int
            /\ kCheapPrepend + readableBytes(b) + 2 * Len(data) \in Int
            /\ append(m, d2).size \in Int
        <5>1. Len(d2) \in Int /\ readableBytes(m) \in Int
          BY <1>0, <2>3, <2>6
        <5> QED
          BY <1>0, <2>11, <5>1, SMTT(30)
      <4> QED
        BY <2>10, <3>2, <4>1, AtMost, Zenon
    <3> QED
      BY <2>7, <3>1, <3>2
  <2> QED
    BY <2>5, <2>7, <2>12, <2>13, <2>14
<1> QED
  BY <1>1, <1>2

\* shrink copies the readable bytes into a buffer made for them.
LEMMA Shrunk ==
    ASSUME NEW b, IsBuffer(b), NEW reserve \in Nat
    PROVE  LET c == shrink(b, reserve)
           IN  /\ IsBuffer(c)
               /\ Contents(c) = Contents(b)
               /\ readableBytes(c) = readableBytes(b)
               /\ \/ c.size = kCheapPrepend + kInitialSize
                  \/ c.size <= kCheapPrepend + readableBytes(b) + reserve
<1> DEFINE new == NewBuffer(kInitialSize)
           len == readableBytes(b) + reserve
           e == ensureWritableBytes(new, len)
           d == Contents(b)
<1>0. /\ readableBytes(b) \in Nat /\ len \in Nat /\ kInitialSize \in Nat /\ kCheapPrepend \in Nat
      /\ d \in Seq(Byte) /\ Len(d) = readableBytes(b)
  BY Sizes, ContentsSeq, BufferAssumption
<1>1. /\ IsBuffer(new) /\ readableBytes(new) = 0 /\ new.size = kCheapPrepend + kInitialSize
      /\ new.readerIndex_ = kCheapPrepend /\ new.writerIndex_ = kCheapPrepend
  BY <1>0, NewIsBuffer
<1> HIDE DEF new, len, d
<1>2. /\ IsBuffer(e) /\ Contents(e) = Contents(new) /\ readableBytes(e) = 0
      /\ writableBytes(e) >= len
  BY <1>0, <1>1, EnsureWritable
<1>3. e.size = kCheapPrepend + kInitialSize \/ e.size = kCheapPrepend + len
  <2>1. CASE writableBytes(new) < len
    <3>1. e = makeSpace(new, len)
      BY <2>1 DEF ensureWritableBytes
    <3>2. writableBytes(new) + prependableBytes(new) < len + kCheapPrepend
      BY <1>0, <1>1, <2>1 DEF writableBytes, prependableBytes
    <3>3. e = resize(new, new.writerIndex_ + len)
      BY <3>1, <3>2 DEF makeSpace
    <3> QED
      BY <1>1, <3>3, Fields DEF resize
  <2>2. CASE ~(writableBytes(new) < len)
    BY <1>1, <2>2 DEF ensureWritableBytes
  <2> QED
    BY <2>1, <2>2
<1> HIDE DEF e
<1>4. Len(d) <= writableBytes(e)
  BY <1>0, <1>2, Sizes DEF len
<1>5. ensureWritableBytes(e, Len(d)) = e
  BY <1>0, <1>2, <1>4, Sizes DEF ensureWritableBytes
<1>6. shrink(b, reserve) = written(e, d)
  BY <1>5 DEF shrink, append, e, d, new, len
<1>7. LET c == written(e, d)
      IN  /\ IsBuffer(c) /\ Contents(c) = Contents(e) \o d
          /\ readableBytes(c) = readableBytes(e) + Len(d)
          /\ c.size = e.size
  BY <1>0, <1>2, <1>4, Written
<1>8. Contents(e) = <<>>
  <2>1. Contents(e) \in Seq(Byte) /\ Len(Contents(e)) = 0
    BY <1>2, ContentsSeq
  <2> QED
    BY <2>1, EmptySeq
<1>9. Contents(e) \o d = d
  BY <1>0, <1>8, ConcatEmptySeq
<1>10. written(e, d).size \in Nat
  BY <1>7, Sizes
<1>11. readableBytes(e) + Len(d) = readableBytes(b)
  BY <1>0, <1>2
<1>12. \/ written(e, d).size = kCheapPrepend + kInitialSize
       \/ written(e, d).size <= kCheapPrepend + readableBytes(b) + reserve
  BY <1>0, <1>3, <1>7, <1>10 DEF len
<1> QED
  BY <1>6, <1>7, <1>9, <1>11, <1>12 DEF d

-----------------------------------------------------------------------------
(* The specification *)

\* TypeOK, the bound on the contents that the actions keep, and the bound on
\* the vector that follows from it.
Inv ==
    /\ TypeOK
    /\ readableBytes(buf) <= MaxReadable
    /\ SizeIsBounded

\* Chunks are sequences of bytes.
LEMMA ChunkSeq ==
    ASSUME NEW data \in Chunk
    PROVE  data \in Seq(Byte) /\ Len(data) \in 0 .. MaxChunk
<1>1. PICK n \in 0 .. MaxChunk : data \in [1 .. n -> Byte]
  BY DEF Chunk
<1>2. n \in Nat
  BY <1>1, BufferAssumption
<1>3. data \in Seq(Byte)
  BY <1>1, <1>2, SeqDef
<1>4. Len(data) = n
  BY <1>1, <1>2, <1>3, LenProperties
<1> QED
  BY <1>3, <1>4

\* Init establishes the invariant.
LEMMA InitInv == Init => Inv
<1> SUFFICES ASSUME Init PROVE Inv
  OBVIOUS
<1>1. kInitialSize \in Nat /\ MaxReadable \in Nat /\ kCheapPrepend \in Nat
  BY BufferAssumption
<1>2. /\ IsBuffer(buf) /\ readableBytes(buf) = 0 /\ buf.size = kCheapPrepend + kInitialSize
  BY <1>1, NewIsBuffer DEF Init
<1> QED
  BY <1>1, <1>2 DEF Inv, TypeOK, SizeIsBounded

\* The invariant holds of a successor that keeps the size or grows within the
\* bound.
LEMMA Keeps ==
    ASSUME Inv, IsBuffer(buf'),
           readableBytes(buf') <= MaxReadable,
           NEW len \in 0 .. MaxChunk, NEW n \in Nat, n <= MaxReadable,
           \/ buf'.size = buf.size
           \/ buf'.size = kCheapPrepend + kInitialSize
           \/ buf'.size <= kCheapPrepend + n + 2 * len
    PROVE  Inv'
<1>1. /\ kInitialSize \in Nat /\ MaxReadable \in Nat /\ kCheapPrepend \in Nat /\ MaxChunk \in Nat
      /\ buf'.size \in Nat
  BY BufferAssumption DEF IsBuffer
<1>2. SizeIsBounded'
  BY <1>1 DEF Inv, SizeIsBounded
<1>3. TypeOK'
  BY DEF TypeOK, IsBuffer
<1>4. (readableBytes(buf) <= MaxReadable)'
  OBVIOUS
<1> QED
  BY <1>2, <1>3, <1>4 DEF Inv

\* Every operation keeps the invariant and is one of ByteQueue's, or none.
LEMMA Step ==
    ASSUME Inv, Next
    PROVE  Inv' /\ Queue!Next
<1>0. /\ IsBuffer(buf) /\ readableBytes(buf) \in Nat /\ readableBytes(buf) <= MaxReadable
      /\ MaxReadable \in Nat /\ MaxChunk \in Nat /\ 0 \in 0 .. MaxChunk
  BY Sizes, BufferAssumption DEF Inv, TypeOK
<1>0a. Len(Contents(buf)) = readableBytes(buf)
  BY <1>0, ContentsSeq
<1>1. CASE Appends \/ ReadsFd
  <2>1. PICK data \in Chunk : /\ readableBytes(buf) + Len(data) <= MaxReadable
                              /\ buf' = append(buf, data) \/ buf' = readFd(buf, data)
                              /\ call' = Call("write", data, 0)
    BY <1>1 DEF Appends, ReadsFd
  <2>2. data \in Seq(Byte) /\ Len(data) \in 0 .. MaxChunk
    BY ChunkSeq
  <2>3. /\ IsBuffer(buf') /\ Contents(buf') = Contents(buf) \o data
        /\ readableBytes(buf') = readableBytes(buf) + Len(data)
        /\ buf'.size = buf.size \/ buf'.size <= kCheapPrepend + readableBytes(buf) + 2 * Len(data)
    BY <1>0, <2>1, <2>2, Appended, ReadFromFd
  <2>4. Inv'
    BY <1>0, <2>1, <2>2, <2>3, Keeps
  <2> QED
    BY <2>1, <2>3, <2>4 DEF Queue!Next, Queue!Write, Queue!Call, Call
<1>2. CASE Prepends
  <2>1. PICK data \in Chunk : /\ readableBytes(buf) + Len(data) <= MaxReadable
                              /\ Len(data) <= prependableBytes(buf)
                              /\ buf' = prepend(buf, data)
                              /\ call' = Call("prepend", data, 0)
    BY <1>2 DEF Prepends
  <2>2. data \in Seq(Byte) /\ Len(data) \in 0 .. MaxChunk
    BY ChunkSeq
  <2>3. /\ IsBuffer(buf') /\ Contents(buf') = data \o Contents(buf)
        /\ readableBytes(buf') = readableBytes(buf) + Len(data)
        /\ buf'.size = buf.size
    BY <1>0, <2>1, <2>2, Prepended
  <2>4. Inv'
    BY <1>0, <2>1, <2>3, Keeps
  <2> QED
    BY <2>1, <2>3, <2>4 DEF Queue!Next, Queue!Prepend, Queue!Call, Call
<1>3. CASE Retrieves
  <2>1. PICK n \in 0 .. readableBytes(buf) : /\ buf' = retrieve(buf, n)
                                              /\ call' = Call("retrieve", <<>>, n)
    BY <1>3 DEF Retrieves
  <2>2. /\ IsBuffer(buf') /\ Contents(buf') = SubSeq(Contents(buf), n + 1, Len(Contents(buf)))
        /\ readableBytes(buf') = readableBytes(buf) - n /\ buf'.size = buf.size
    BY <1>0, <2>1, Retrieved
  <2>3. readableBytes(buf') <= MaxReadable
    BY <1>0, <2>2
  <2>4. Inv'
    BY <1>0, <2>2, <2>3, Keeps
  <2> QED
    BY <1>0a, <2>1, <2>2, <2>4 DEF Queue!Next, Queue!Retrieve, Queue!Call, Call
<1>4. CASE Unwrites
  <2>1. PICK n \in 0 .. readableBytes(buf) : /\ buf' = unwrite(buf, n)
                                              /\ call' = Call("unwrite", <<>>, n)
    BY <1>4 DEF Unwrites
  <2>2. /\ IsBuffer(buf') /\ Contents(buf') = SubSeq(Contents(buf), 1, Len(Contents(buf)) - n)
        /\ readableBytes(buf') = readableBytes(buf) - n /\ buf'.size = buf.size
    BY <1>0, <2>1, Unwritten
  <2>3. readableBytes(buf') <= MaxReadable
    BY <1>0, <2>2
  <2>4. Inv'
    BY <1>0, <2>2, <2>3, Keeps
  <2> QED
    BY <1>0a, <2>1, <2>2, <2>4 DEF Queue!Next, Queue!Unwrite, Queue!Call, Call
<1>5. CASE Reserves
  <2>1. PICK n \in 0 .. MaxChunk : /\ buf' = ensureWritableBytes(buf, n)
                                    /\ call' = Call("none", <<>>, 0)
    BY <1>5 DEF Reserves
  <2>2. n \in Nat
    BY <1>0, <2>1
  <2>3. /\ IsBuffer(buf') /\ Contents(buf') = Contents(buf)
        /\ readableBytes(buf') = readableBytes(buf)
        /\ buf'.size = buf.size \/ buf'.size <= kCheapPrepend + readableBytes(buf) + 2 * n
    BY <1>0, <2>1, <2>2, EnsureWritable
  <2>4. Inv'
    BY <1>0, <2>1, <2>3, Keeps
  <2> QED
    BY <2>1, <2>3, <2>4 DEF Queue!Next, Queue!Reserve, Queue!Call, Call
<1>6. CASE Shrinks
  <2>1. PICK n \in 0 .. MaxChunk : /\ buf' = shrink(buf, n)
                                    /\ call' = Call("none", <<>>, 0)
    BY <1>6 DEF Shrinks
  <2>2. n \in Nat /\ kCheapPrepend \in Nat
    BY <1>0, <2>1, BufferAssumption
  <2>3. /\ IsBuffer(buf') /\ Contents(buf') = Contents(buf)
        /\ readableBytes(buf') = readableBytes(buf)
        /\ \/ buf'.size = kCheapPrepend + kInitialSize
           \/ buf'.size <= kCheapPrepend + readableBytes(buf) + n
    BY <1>0, <2>1, <2>2, Shrunk
  <2>4. \/ buf'.size = kCheapPrepend + kInitialSize
        \/ buf'.size <= kCheapPrepend + readableBytes(buf) + 2 * n
    BY <1>0, <2>2, <2>3, Sizes
  <2>5. Inv'
    BY <1>0, <2>1, <2>3, <2>4, Keeps
  <2> QED
    BY <2>1, <2>3, <2>5 DEF Queue!Next, Queue!Reserve, Queue!Call, Call
<1> QED
  BY <1>1, <1>2, <1>3, <1>4, <1>5, <1>6 DEF Next

\* The invariant is inductive.
LEMMA InvHolds == Spec => []Inv
<1>1. ASSUME Inv, UNCHANGED vars PROVE Inv'
  BY <1>1 DEF Inv, TypeOK, SizeIsBounded, vars
<1>2. Inv /\ [Next]_vars => Inv'
  BY <1>1, Step
<1> QED
  BY InitInv, <1>2, PTL DEF Spec

\* The indices of every Buffer stay in order and inside its vector.
THEOREM BufferTypeCorrect == Spec => []TypeOK
  BY InvHolds, PTL DEF Inv

\* makeSpace's assertions hold whatever ensureWritableBytes is asked for.
THEOREM BufferFindsSpace == Spec => []SpaceIsFound
<1>1. TypeOK => SpaceIsFound
  <2> SUFFICES ASSUME TypeOK, NEW len \in 0 .. MaxChunk, writableBytes(buf) < len
               PROVE  /\ \/ writableBytes(buf) + prependableBytes(buf) < len + kCheapPrepend
                         \/ kCheapPrepend < buf.readerIndex_
                      /\ writableBytes(makeSpace(buf, len)) >= len
    BY DEF SpaceIsFound, spaceAsserts
  <2>1. len \in Nat /\ IsBuffer(buf)
    BY BufferAssumption DEF TypeOK
  <2>2. writableBytes(makeSpace(buf, len)) >= len
    BY <2>1, MakeSpace
  <2>3. \/ writableBytes(buf) + prependableBytes(buf) < len + kCheapPrepend
        \/ kCheapPrepend < buf.readerIndex_
    BY <2>1, Sizes
  <2> QED
    BY <2>2, <2>3
<1> QED
  BY BufferTypeCorrect, <1>1, PTL

\* However much goes through it, a Buffer is no larger than its largest
\* contents and twice its largest chunk need.
THEOREM BufferSizeIsBounded == Spec => []SizeIsBounded
  BY InvHolds, PTL DEF Inv

\* Buffer is a queue of bytes: append and readFd write at the back, retrieve
\* reads at the front, prepend and unwrite undo one or the other, and making
\* space and shrinking change nothing.
THEOREM BufferIsAQueue == Spec => ImplementsQueue
<1>1. Init => Queue!Init
  <2> SUFFICES ASSUME Init PROVE Contents(buf) = <<>>
    BY DEF Init, Queue!Init, Queue!Call, Call
  <2>1. IsBuffer(buf) /\ readableBytes(buf) = 0
    BY NewIsBuffer, BufferAssumption DEF Init
  <2>2. Contents(buf) \in Seq(Byte) /\ Len(Contents(buf)) = 0
    BY <2>1, ContentsSeq
  <2> QED
    BY <2>2, EmptySeq
<1>2. ASSUME Inv, [Next]_vars PROVE [Queue!Next]_<<Contents(buf), call>>
  <2>1. CASE Next
    BY <1>2, <2>1, Step
  <2>2. CASE UNCHANGED vars
    BY <2>2 DEF Contents, readableBytes, vars
  <2> QED
    BY <1>2, <2>1, <2>2
<1> QED
  BY <1>1, <1>2, InvHolds, PTL DEF Spec, ImplementsQueue, Queue!Spec
==============================================================================
