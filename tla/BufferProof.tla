---------------------------- MODULE BufferProof ----------------------------
(***************************************************************************)
(* Buffer implements BufferSpec, for every capacity, every slice and every *)
(* count.  The argument: a shift changes where the unread bytes lie and    *)
(* nothing else (ShiftKeeps); after the shift that precedes it, a write    *)
(* sees the room the abstract queue has, unless it had room without one    *)
(* (ShiftIfShort); and Put appends (PutAppends).                           *)
(***************************************************************************)
EXTENDS Buffer, ByteQueueLemmas, TLAPS

\* The part of TypeOK that speaks of the struct.
Valid(b) ==
  /\ b \in [inner : [Index -> Byte], rpos : Nat, wpos : Nat]
  /\ b.rpos <= b.wpos
  /\ b.wpos <= Capacity

\* The unread bytes of a valid struct are a sequence of bytes.
LEMMA ContentsType ==
  ASSUME NEW b, Valid(b)
  PROVE  /\ Contents(b) \in Seq(Byte)
         /\ Len(Contents(b)) = b.wpos - b.rpos
         /\ b.wpos - b.rpos \in Nat
         /\ \A i \in 1 .. b.wpos - b.rpos : Contents(b)[i] = b.inner[b.rpos + i - 1]
<1> USE BufferAssumption DEF Valid, Contents, available_read, Index
<1>1. b.wpos - b.rpos \in Nat
  OBVIOUS
<1>2. \A i \in 1 .. b.wpos - b.rpos : b.inner[b.rpos + i - 1] \in Byte
  OBVIOUS
<1>3. Contents(b) \in [1 .. b.wpos - b.rpos -> Byte]
  BY <1>2
<1>4. Contents(b) \in Seq(Byte)
  BY <1>1, <1>3, FunctionIsSeq, ZenonT(60)
<1> QED
  BY <1>1, <1>3, <1>4, FunctionIsSeq

\* Buffer::shift moves the unread bytes without changing them.
LEMMA ShiftKeeps ==
  ASSUME NEW b, Valid(b)
  PROVE  /\ Valid(shift(b))
         /\ Contents(shift(b)) = Contents(b)
         /\ available_write(shift(b)) = Room(Contents(b), Capacity)
<1> DEFINE n == b.wpos - b.rpos
<1>1. /\ n \in Nat
      /\ Len(Contents(b)) = n
      /\ Contents(b) \in Seq(Byte)
  BY ContentsType
<1>2. CASE b.rpos = b.wpos
  <2>1. shift(b) = clear(b)
    BY <1>2 DEF shift
  <2>2. /\ clear(b) \in [inner : [Index -> Byte], rpos : Nat, wpos : Nat]
        /\ clear(b).rpos = 0
        /\ clear(b).wpos = 0
    BY DEF Valid, clear
  <2>3. Valid(shift(b)) /\ shift(b).rpos = 0 /\ shift(b).wpos = 0
    BY <2>1, <2>2, BufferAssumption DEF Valid
  <2>4. Contents(shift(b)) = <<>> /\ Contents(b) = <<>>
    BY <2>3, <1>1, <1>2, ContentsType, EmptySeq DEF Valid
  <2> QED
    BY <2>3, <2>4, <1>1, <1>2, BufferAssumption DEF available_write, Room
<1>3. CASE b.rpos # b.wpos
  <2>1. /\ shift(b).rpos = 0
        /\ shift(b).wpos = n
        /\ \A k \in Index : shift(b).inner[k] = IF k < n THEN b.inner[k + b.rpos] ELSE b.inner[k]
        /\ shift(b) = [inner |-> shift(b).inner, rpos |-> 0, wpos |-> n]
        /\ shift(b).inner \in [Index -> Byte]
    BY <1>3, <1>1, BufferAssumption DEF shift, Valid, available_read, Index
  <2>2. Valid(shift(b))
    BY <2>1, <1>1, BufferAssumption DEF Valid
  <2>3. ASSUME NEW i \in 1 .. n
        PROVE  shift(b).inner[i - 1] = b.inner[b.rpos + i - 1]
    <3>1. i - 1 \in Index /\ i - 1 < n /\ (i - 1) + b.rpos = b.rpos + i - 1
      BY <1>1, BufferAssumption DEF Valid, Index
    <3> QED
      BY <2>1, <3>1
  <2>4. /\ Contents(shift(b)) \in Seq(Byte)
        /\ Len(Contents(shift(b))) = n
        /\ \A i \in 1 .. n : Contents(shift(b))[i] = Contents(b)[i]
    BY <2>1, <2>2, <2>3, <1>1, ContentsType
  <2>5. Contents(shift(b)) = Contents(b)
    BY <2>4, <1>1, SeqEqual
  <2> QED
    BY <2>1, <2>2, <2>5, <1>1, BufferAssumption DEF available_write, Room
<1> QED
  BY <1>2, <1>3

\* The test `available_write() < n` and the shift under it: the contents stay,
\* and what the call then compares n with is as good as the room of the queue.
LEMMA ShiftIfShort ==
  ASSUME NEW b, Valid(b), NEW n \in Nat
  PROVE  LET c == shift_if_short(b, n) IN
         /\ Valid(c)
         /\ Contents(c) = Contents(b)
         /\ available_write(c) \in Nat
         /\ available_write(c) < n <=> Room(Contents(b), Capacity) < n
         /\ MinOf(available_write(c), n) = MinOf(Room(Contents(b), Capacity), n)
<1> DEFINE room == Room(Contents(b), Capacity)
<1>1. /\ available_write(b) \in Nat
      /\ room \in Nat
      /\ available_write(b) <= room
  BY ContentsType, BufferAssumption DEF Valid, available_write, Room
<1>2. CASE available_write(b) < n
  <2>1. shift_if_short(b, n) = shift(b)
    BY <1>2 DEF shift_if_short
  <2> QED
    BY <2>1, <1>1, ShiftKeeps
<1>3. CASE ~(available_write(b) < n)
  <2>1. shift_if_short(b, n) = b
    BY <1>3 DEF shift_if_short
  <2>2. MinOf(available_write(b), n) = n /\ MinOf(room, n) = n /\ ~(room < n)
    BY <1>1, <1>3 DEF MinOf
  <2> QED
    BY <2>1, <2>2, <1>1, <1>3
<1> QED
  BY <1>2, <1>3

\* What Put leaves in the array: data from wpos on, and the old bytes elsewhere.
LEMMA PutFields ==
  ASSUME NEW b, Valid(b), NEW data \in Seq(Byte), Len(data) <= available_write(b)
  PROVE  LET c == Put(b, data) IN
         /\ c.rpos = b.rpos
         /\ c.wpos = b.wpos + Len(data)
         /\ c.inner \in [Index -> Byte]
         /\ \A k \in Index : c.inner[k] = IF k \in b.wpos .. b.wpos + Len(data) - 1
                                          THEN data[k - b.wpos + 1] ELSE b.inner[k]
         /\ c = [inner |-> c.inner, rpos |-> b.rpos, wpos |-> b.wpos + Len(data)]
<1> DEFINE c == Put(b, data)
           m == Len(data)
           f == [k \in Index |-> IF k \in b.wpos .. b.wpos + m - 1
                                 THEN data[k - b.wpos + 1] ELSE b.inner[k]]
<1>1. m \in Nat /\ (\A i \in 1 .. m : data[i] \in Byte)
  BY LenProperties, ElementOfSeq
<1>2. b.wpos \in Nat /\ b.rpos \in Nat
  BY DEF Valid
<1>3. ASSUME NEW k \in Index
      PROVE  (IF k \in b.wpos .. b.wpos + m - 1
              THEN data[k - b.wpos + 1] ELSE b.inner[k]) \in Byte
  <2>1. CASE k \in b.wpos .. b.wpos + m - 1
    <3>1. k - b.wpos + 1 \in 1 .. m
      BY <2>1, <1>1, <1>2
    <3> QED
      BY <2>1, <3>1, <1>1
  <2> QED
    BY <2>1 DEF Valid
<1>4. f \in [Index -> Byte]
  BY <1>3
<1>5. c = [inner |-> f, rpos |-> b.rpos, wpos |-> b.wpos + m]
  BY DEF Put
<1> HIDE DEF f, c, m
<1>6. c.inner = f /\ c.rpos = b.rpos /\ c.wpos = b.wpos + m
  BY <1>5
<1> QED
  BY <1>4, <1>5, <1>6 DEF f, c, m

\* The struct after data was put behind wpos and wpos advanced by n, and the n bytes
\* that lie there.
Advanced(b, data, n) == [Put(b, data) EXCEPT !.wpos = b.wpos + n]
Claimed(b, data, n) == [i \in 1 .. n |-> Put(b, data).inner[b.wpos + i - 1]]

\* Buffer::write_all: the n bytes appended to the contents begin with data, as far as
\* it goes.
LEMMA PutAdvance ==
  ASSUME NEW b, Valid(b), NEW data \in Seq(Byte), Len(data) <= available_write(b),
         NEW n \in Nat, n <= available_write(b)
  PROVE  /\ Valid(Advanced(b, data, n))
         /\ Claimed(b, data, n) \in [1 .. n -> Byte]
         /\ \A i \in 1 .. MinOf(n, Len(data)) : Claimed(b, data, n)[i] = data[i]
         /\ Contents(Advanced(b, data, n)) = Contents(b) \o Claimed(b, data, n)
<1> DEFINE c == Advanced(b, data, n)
           g == Put(b, data).inner
           s == Claimed(b, data, n)
           l == b.wpos - b.rpos
           m == Len(data)
<1>1. m \in Nat
  BY LenProperties
<1>2. /\ l \in Nat
      /\ b.wpos = b.rpos + l
      /\ Contents(b) \in Seq(Byte)
      /\ Len(Contents(b)) = l
      /\ \A i \in 1 .. l : Contents(b)[i] = b.inner[b.rpos + i - 1]
  BY ContentsType DEF Valid
<1>3. /\ b.wpos \in Nat /\ b.rpos \in Nat /\ Capacity \in Nat
      /\ b.wpos + m <= Capacity /\ b.wpos + n <= Capacity
  BY <1>1, BufferAssumption DEF Valid, available_write
<1>4. /\ g \in [Index -> Byte]
      /\ \A k \in Index : g[k] = IF k \in b.wpos .. b.wpos + m - 1
                                 THEN data[k - b.wpos + 1] ELSE b.inner[k]
      /\ Put(b, data) = [inner |-> g, rpos |-> b.rpos, wpos |-> b.wpos + m]
  BY PutFields
<1> HIDE DEF m, l
<1>5. /\ c = [inner |-> g, rpos |-> b.rpos, wpos |-> b.wpos + n]
      /\ s = [i \in 1 .. n |-> g[b.wpos + i - 1]]
  BY <1>4 DEF Advanced, Claimed
<1> HIDE DEF g, s
<1> HIDE DEF c
<1>6. /\ Valid(c)
      /\ c.inner = g /\ c.rpos = b.rpos /\ c.wpos = b.wpos + n
      /\ c.wpos - c.rpos = l + n
  <2>1. /\ c.inner = g /\ c.rpos = b.rpos /\ c.wpos = b.wpos + n
        /\ c \in [inner : [Index -> Byte], rpos : Nat, wpos : Nat]
    BY <1>3, <1>4, <1>5
  <2> QED
    BY <1>2, <1>3, <2>1, SMTT(60) DEF Valid
<1>7. \A i \in 1 .. n : b.wpos + i - 1 \in Index
  BY <1>3, SMTT(60) DEF Index
<1>8. s \in [1 .. n -> Byte]
  BY <1>4, <1>5, <1>7
<1>9. s \in Seq(Byte) /\ Len(s) = n /\ (\A i \in 1 .. n : s[i] = g[b.wpos + i - 1])
  BY <1>5, <1>8, FunctionIsSeq
<1>10. ASSUME NEW i \in 1 .. MinOf(n, m)
       PROVE  s[i] = data[i]
  <2>1. /\ i \in 1 .. n
        /\ b.wpos + i - 1 \in b.wpos .. b.wpos + m - 1
        /\ (b.wpos + i - 1) - b.wpos + 1 = i
    BY <1>1, <1>3, SMTT(60) DEF MinOf
  <2> QED
    BY <2>1, <1>4, <1>7, <1>9
<1>11. /\ Contents(c) \in Seq(Byte)
       /\ Len(Contents(c)) = l + n
       /\ \A i \in 1 .. l + n : Contents(c)[i] = g[b.rpos + i - 1]
  BY <1>6, ContentsType
<1>12. /\ Contents(b) \o s \in Seq(Byte)
       /\ Len(Contents(b) \o s) = l + n
       /\ \A i \in 1 .. l + n : (Contents(b) \o s)[i] =
             IF i <= l THEN Contents(b)[i] ELSE s[i - l]
  <2>1. /\ Contents(b) \in Seq(Byte) /\ Len(Contents(b)) = l
        /\ s \in Seq(Byte) /\ Len(s) = n
    BY <1>2, <1>9
  <2>2. /\ Contents(b) \o s \in Seq(Byte)
        /\ Len(Contents(b) \o s) = Len(Contents(b)) + Len(s)
        /\ \A i \in 1 .. Len(Contents(b)) + Len(s) : (Contents(b) \o s)[i] =
              IF i <= Len(Contents(b)) THEN Contents(b)[i] ELSE s[i - Len(Contents(b))]
    BY <2>1, ConcatProperties, ZenonT(30)
  <2> QED
    BY <2>1, <2>2, ZenonT(30)
<1>13. ASSUME NEW i \in 1 .. l + n
       PROVE  Contents(c)[i] = (Contents(b) \o s)[i]
  <2>1. CASE i <= l
    <3>1. /\ i \in 1 .. l
          /\ b.rpos + i - 1 \in Index
          /\ ~(b.rpos + i - 1 \in b.wpos .. b.wpos + m - 1)
      <4> DEFINE r == b.rpos
                 w == b.wpos
      <4>1. /\ l \in Nat /\ m \in Nat /\ r \in Nat /\ w = r + l
            /\ Capacity \in Nat /\ w + m <= Capacity /\ w + n <= Capacity
        BY <1>1, <1>2, <1>3
      <4> HIDE DEF r, w
      <4>2. i \in 1 .. l /\ r + i - 1 \in Index /\ ~(r + i - 1 \in w .. w + m - 1)
        BY <2>1, <4>1 DEF Index
      <4> QED
        BY <4>2, Zenon DEF r, w
    <3>2. g[b.rpos + i - 1] = b.inner[b.rpos + i - 1]
      BY <3>1, <1>4
    <3> QED
      BY <2>1, <3>1, <3>2, <1>2, <1>11, <1>12
  <2>2. CASE ~(i <= l)
    <3>0. l \in Nat /\ b.wpos = b.rpos + l
      BY <1>2
    <3>1. i - l \in 1 .. n /\ b.wpos + (i - l) - 1 = b.rpos + i - 1
      BY <2>2, <3>0, <1>3
    <3>2. s[i - l] = g[b.rpos + i - 1]
      BY <3>1, <1>9
    <3> QED
      BY <2>2, <3>2, <1>11, <1>12, ZenonT(60)
  <2> QED
    BY <2>1, <2>2, ZenonT(30)
<1>14. Contents(c) = Contents(b) \o s
  BY <1>11, <1>12, <1>13, SeqEqual, ZenonT(60)
<1> QED
  BY <1>6, <1>8, <1>10, <1>14 DEF c, s, m

\* Bytes copied behind wpos are appended to the contents.
LEMMA PutAppends ==
  ASSUME NEW b, Valid(b), NEW data \in Seq(Byte), Len(data) <= available_write(b)
  PROVE  /\ Valid(Put(b, data))
         /\ Contents(Put(b, data)) = Contents(b) \o data
<1> DEFINE n == Len(data)
           c == Advanced(b, data, n)
           s == Claimed(b, data, n)
<1>1. n \in Nat /\ MinOf(n, n) = n
  BY LenProperties DEF MinOf
<1>2. c = Put(b, data)
  BY PutFields DEF Advanced
<1>3. /\ Valid(c)
      /\ s \in [1 .. n -> Byte]
      /\ \A i \in 1 .. MinOf(n, Len(data)) : s[i] = data[i]
      /\ Contents(c) = Contents(b) \o s
  BY <1>1, PutAdvance
<1> HIDE DEF c, s
<1>4. s \in Seq(Byte) /\ Len(s) = n /\ (\A i \in 1 .. n : s[i] = data[i])
  BY <1>1, <1>3, FunctionIsSeq
<1>5. s = data
  BY <1>1, <1>4, SeqEqual
<1> QED
  BY <1>2, <1>3, <1>5

\* Buffer::read: advancing rpos removes the oldest bytes.
LEMMA AdvanceDrops ==
  ASSUME NEW b, Valid(b), NEW n \in 0 .. b.wpos - b.rpos
  PROVE  LET c == [b EXCEPT !.rpos = b.rpos + n] IN
         /\ Valid(c)
         /\ Contents(c) = Drop(Contents(b), n)
<1> DEFINE c == [b EXCEPT !.rpos = b.rpos + n]
           m == b.wpos - b.rpos
<1>1. /\ m \in Nat
      /\ n \in Nat
      /\ Contents(b) \in Seq(Byte)
      /\ Len(Contents(b)) = m
      /\ \A i \in 1 .. m : Contents(b)[i] = b.inner[b.rpos + i - 1]
  BY ContentsType
<1>2. Valid(c) /\ c.inner = b.inner /\ c.rpos = b.rpos + n /\ c.wpos - c.rpos = m - n
  BY BufferAssumption, SMTT(60) DEF Valid
<1> HIDE DEF c
<1>3. /\ Contents(c) \in Seq(Byte)
      /\ Len(Contents(c)) = m - n
      /\ \A i \in 1 .. m - n : Contents(c)[i] = b.inner[b.rpos + n + i - 1]
  BY <1>2, ContentsType
<1>4. /\ Drop(Contents(b), n) \in Seq(Byte)
      /\ Len(Drop(Contents(b), n)) = m - n
      /\ \A i \in 1 .. m - n : Drop(Contents(b), n)[i] = Contents(b)[n + i]
  <2>1. n \in 0 .. Len(Contents(b))
    BY <1>1
  <2>2. /\ Drop(Contents(b), n) \in Seq(Byte)
        /\ Len(Drop(Contents(b), n)) = Len(Contents(b)) - n
        /\ \A i \in 1 .. Len(Contents(b)) - n : Drop(Contents(b), n)[i] = Contents(b)[n + i]
    BY <2>1, <1>1, DropProperties, ZenonT(60)
  <2> QED
    BY <2>2, <1>1
<1>5. ASSUME NEW i \in 1 .. m - n
      PROVE  Contents(c)[i] = Drop(Contents(b), n)[i]
  <2>1. n + i \in 1 .. m /\ b.rpos + (n + i) - 1 = b.rpos + n + i - 1
    <3>1. b.rpos \in Nat /\ m \in Nat /\ n \in Nat
      BY <1>1 DEF Valid
    <3> HIDE DEF m
    <3> QED
      BY <3>1, SMTT(30)
  <2> QED
    BY <2>1, <1>1, <1>3, <1>4, ZenonT(30)
<1>6. Contents(c) = Drop(Contents(b), n)
  BY <1>3, <1>4, <1>5, SeqEqual
<1> QED
  BY <1>2, <1>6 DEF c

-----------------------------------------------------------------------------

\* The operators of ByteQueue as BufferSpec sees them are those Buffer sees.
LEMMA SameOperators ==
  ASSUME NEW s, NEW d, NEW n, NEW v
  PROVE  /\ Abstract!Queued(s, d, n) = Queued(s, d, n)
         /\ Abstract!QWrite(s, d, n) = QWrite(s, d, n)
         /\ Abstract!QOverflows(s, v, n) <=> QOverflows(s, v, n)
         /\ Abstract!QRead(s, n) = QRead(s, n)
         /\ Abstract!MinOf(v, n) = MinOf(v, n)
         /\ Abstract!Room(s, n) = Room(s, n)
         /\ Abstract!QFillUpTo(s, v, d, n) = QFillUpTo(s, v, d, n)
BY DEF Abstract!Queued, Queued, Abstract!QWrite, QWrite, Abstract!QOverflows, QOverflows,
       Abstract!QRead, QRead, Abstract!QFillUpTo, QFillUpTo, Abstract!MinOf, MinOf,
       Abstract!Room, Room, Abstract!Take, Take, Abstract!Drop, Drop, Abstract!Fill, Fill

\* An empty, in-range buffer at the start.
LEMMA InitTypeOK == Init => TypeOK
BY BufferAssumption DEF Init, TypeOK

\* Each call keeps the positions in order and acts on the contents as the same
\* call of the abstract queue does.
LEMMA StepRefines ==
  ASSUME TypeOK, Next
  PROVE  TypeOK' /\ Abstract!SNext
<1> USE DEF Overflow, CallerErr, Abstract!Overflow, Abstract!CallerErr
<1> DEFINE q == Contents(buf)
<1>0. Contents(buf)' = Contents(buf')
  BY DEF Contents, available_read
<1>1. Valid(buf) /\ q \in Seq(Byte) /\ Len(q) \in Nat /\ Len(q) <= Capacity /\ Len(q) = available_read(buf)
  BY ContentsType, BufferAssumption DEF TypeOK, Valid, available_read
<1>2. ASSUME Valid(buf'), ret' \in Nat \cup {Overflow, CallerErr}
      PROVE  TypeOK'
  BY <1>2 DEF TypeOK, Valid
<1>3. Room(q, Capacity) \in Nat
  BY <1>1, BufferAssumption DEF Room
<1>4. ASSUME NEW data \in Chunks, write(data)
      PROVE  TypeOK' /\ Abstract!SWrite(data)
  <2> DEFINE b == shift_if_short(buf, Len(data))
             count == MinOf(available_write(b), Len(data))
  <2>1. data \in Seq(Byte) /\ Len(data) \in Nat
    BY BufferAssumption, LenProperties
  <2>2. /\ Valid(b)
        /\ Contents(b) = q
        /\ available_write(b) \in Nat
        /\ count = Queued(q, data, Capacity)
    BY <1>1, <2>1, ShiftIfShort DEF Queued
  <2>3. count \in Nat /\ count <= available_write(b) /\ count <= Len(data)
    BY <2>1, <2>2, MinOfProperties
  <2>4. buf' = Put(b, Take(data, count)) /\ ret' = count
    BY <1>4 DEF write
  <2> HIDE DEF b, count, q
  <2>5. Take(data, count) \in Seq(Byte) /\ Len(Take(data, count)) = count
    BY <2>1, <2>3, TakeProperties
  <2>6. Valid(buf') /\ Contents(buf') = q \o Take(data, count)
    BY <2>2, <2>3, <2>4, <2>5, PutAppends, ZenonT(30)
  <2> QED
    BY <1>2, <1>0, <2>2, <2>3, <2>4, <2>6, SameOperators, ZenonT(60) DEF Abstract!SWrite, QWrite, q
<1>5. ASSUME NEW max_count \in Counts, NEW count \in Counts, NEW data \in Chunks,
             write_all(max_count, data, count)
      PROVE  TypeOK' /\ Abstract!SWriteAll(max_count, data, count)
  <2> DEFINE b == shift_if_short(buf, max_count)
             room == available_write(b)
             n == MinOf(count, room)
             s == Claimed(b, data, n)
  <2>1. /\ data \in Seq(Byte) /\ Len(data) \in Nat /\ Len(data) <= max_count
        /\ max_count \in Nat /\ count \in Nat
    BY <1>5, BufferAssumption, LenProperties DEF write_all
  <2>2. /\ Valid(b)
        /\ Contents(b) = q
        /\ available_write(b) \in Nat
        /\ available_write(b) < max_count <=> QOverflows(q, max_count, Capacity)
    BY <1>1, <2>1, ShiftIfShort DEF QOverflows
  <2>3. CASE available_write(b) < max_count
    <3>1. buf' = b /\ ret' = Overflow
      BY <1>5, <2>1, <2>2, <2>3 DEF write_all
    <3> HIDE DEF b, q
    <3> QED
      BY <1>2, <1>0, <2>1, <2>2, <2>3, <3>1, SameOperators DEF Abstract!SWriteAll, q
  <2>4. CASE ~(available_write(b) < max_count)
    <3>1. buf' = Advanced(b, data, n) /\ ret' = n
      BY <1>5, <2>1, <2>2, <2>4 DEF write_all, Advanced
    <3>2. room <= Room(q, Capacity)
      BY <2>2, ContentsType, BufferAssumption, SMTT(60) DEF available_write, Room, Valid
    <3>3. /\ Len(data) <= room /\ n \in Nat /\ n <= room
          /\ n \in MinOf(count, max_count) .. MinOf(count, Room(q, Capacity))
      <4>1. room \in Nat /\ ~(room < max_count) /\ room <= Room(q, Capacity)
        BY <2>2, <2>4, <3>2
      <4> HIDE DEF room, q, b
      <4> QED
        BY <1>3, <2>1, <4>1 DEF MinOf
    <3>4. Valid(b) /\ data \in Seq(Byte) /\ Len(data) <= available_write(b)
          /\ n \in Nat /\ n <= available_write(b)
      BY <2>1, <2>2, <3>3
    <3> HIDE DEF n, b
    <3>5. /\ Valid(buf')
          /\ s \in [1 .. n -> Byte]
          /\ \A i \in 1 .. MinOf(n, Len(data)) : s[i] = data[i]
          /\ Contents(buf') = q \o s
      <4>1. /\ Valid(Advanced(b, data, n))
            /\ s \in [1 .. n -> Byte]
            /\ \A i \in 1 .. MinOf(n, Len(data)) : s[i] = data[i]
            /\ Contents(Advanced(b, data, n)) = Contents(b) \o s
        BY <3>4, PutAdvance, ZenonT(30)
      <4> QED
        BY <2>2, <3>1, <4>1, ZenonT(30)
    <3> HIDE DEF s, room
    <3>6. TypeOK'
      BY <1>2, <3>1, <3>3, <3>5
    <3>7. Contents(buf)' = q \o s
      BY <1>0, <3>5
    <3>8. Abstract!SWriteAll(max_count, data, count)
      BY <2>1, <2>2, <2>4, <3>1, <3>3, <3>5, <3>7, SameOperators, ZenonT(30)
         DEF Abstract!SWriteAll
    <3> QED
      BY <3>6, <3>8
  <2> QED
    BY <2>3, <2>4
<1>6. ASSUME NEW max_count \in Counts, write_all_err(max_count)
      PROVE  TypeOK' /\ Abstract!SWriteAllErr(max_count)
  <2> DEFINE b == shift_if_short(buf, max_count)
  <2>1. max_count \in Nat
    BY BufferAssumption
  <2>2. /\ Valid(b)
        /\ Contents(b) = q
        /\ available_write(b) < max_count <=> QOverflows(q, max_count, Capacity)
    BY <1>1, <2>1, ShiftIfShort DEF QOverflows
  <2>3. buf' = b /\ ret' = IF available_write(b) < max_count THEN Overflow ELSE CallerErr
    BY <1>6 DEF write_all_err
  <2> HIDE DEF b, q
  <2> QED
    BY <1>2, <1>0, <2>2, <2>3, SameOperators DEF Abstract!SWriteAllErr, q
<1>7. ASSUME NEW count \in Counts, read(count)
      PROVE  TypeOK' /\ Abstract!SRead(count)
  <2> DEFINE n == MinOf(count, available_read(buf))
  <2>1. /\ n \in 0 .. buf.wpos - buf.rpos
        /\ n = MinOf(count, Len(q))
    BY <1>1, BufferAssumption, MinOfProperties DEF Valid, available_read
  <2>2. buf' = [buf EXCEPT !.rpos = buf.rpos + n] /\ ret' = n
    BY <1>7 DEF read
  <2> HIDE DEF n, q
  <2>3. Valid(buf') /\ Contents(buf') = Drop(q, n)
    BY <1>1, <2>1, <2>2, AdvanceDrops DEF q
  <2>4. n \in Nat
    BY <2>1, <1>1 DEF Valid
  <2> QED
    BY <1>2, <1>0, <2>1, <2>2, <2>3, <2>4, SameOperators, ZenonT(30) DEF Abstract!SRead, QRead, q
<1>8. ASSUME read_err
      PROVE  TypeOK' /\ Abstract!SReadErr
  BY <1>1, <1>2, <1>8, <1>0 DEF read_err, Abstract!SReadErr
<1>9. ASSUME NEW value \in Byte, NEW up_to \in Counts, fill_up_to(value, up_to)
      PROVE  TypeOK' /\ Abstract!SFillUpTo(value, up_to)
  <2> DEFINE b == shift_if_short(buf, up_to)
             count == MinOf(available_write(b), up_to)
  <2>1. up_to \in Nat
    BY BufferAssumption
  <2>2. /\ Valid(b)
        /\ Contents(b) = q
        /\ available_write(b) \in Nat
        /\ count = MinOf(Room(q, Capacity), up_to)
    BY <1>1, <2>1, ShiftIfShort
  <2>3. count \in Nat /\ count <= available_write(b)
    BY <2>1, <2>2, MinOfProperties
  <2>4. buf' = Put(b, Fill(value, count)) /\ ret' = 0
    BY <1>9 DEF fill_up_to
  <2> HIDE DEF b, count, q
  <2>5. Fill(value, count) \in Seq(Byte) /\ Len(Fill(value, count)) = count
    BY <2>3, FillProperties
  <2>6. Valid(buf') /\ Contents(buf') = q \o Fill(value, count)
    BY <2>2, <2>3, <2>4, <2>5, PutAppends, ZenonT(30)
  <2>7. Contents(buf)' = QFillUpTo(Contents(buf), value, up_to, Capacity)
    BY <1>0, <2>2, <2>6 DEF QFillUpTo, q
  <2>8. Contents(buf)' = Abstract!QFillUpTo(Contents(buf), value, up_to, Capacity)
    BY <2>7, SameOperators
  <2> QED
    BY <1>2, <2>4, <2>6, <2>8 DEF Abstract!SFillUpTo
<1>10. ASSUME Clear
      PROVE  TypeOK' /\ Abstract!SClear
  <2>1. Valid(buf') /\ buf'.rpos = 0 /\ buf'.wpos = 0 /\ ret' = 0
    BY <1>1, <1>10, BufferAssumption DEF Clear, clear, Valid
  <2>2. Contents(buf') = <<>>
    BY <2>1, ContentsType, EmptySeq
  <2> QED
    BY <1>2, <1>0, <2>1, <2>2 DEF Abstract!SClear
<1> QED
  BY <1>4, <1>5, <1>6, <1>7, <1>8, <1>9, <1>10 DEF Next, Abstract!SNext

\* The positions of the IO buffer stay ordered and inside the array, and no
\* debug_assert! of buffer.rs fails, for every capacity.
THEOREM BufferTypeOK == Spec => []TypeOK
<1>1. TypeOK /\ [Next]_vars => TypeOK'
  <2>1. TypeOK /\ UNCHANGED vars => TypeOK'
    BY DEF TypeOK, vars
  <2> QED
    BY <2>1, StepRefines
<1> QED
  BY <1>1, InitTypeOK, PTL DEF Spec

\* The IO buffer of buffer.rs is a bounded byte queue, for every capacity: what
\* is read is what was written, in order, and each call reports what the queue
\* would report, wherever the bytes lie and whenever they are shifted.
THEOREM BufferImplementsQueue == Spec => ImplementsQueue
<1>1. Init => Abstract!SInit
  <2>1. Init => Contents(buf) = <<>>
    BY InitTypeOK, ContentsType, EmptySeq DEF Init, TypeOK, Valid
  <2> QED
    BY <2>1 DEF Init, Abstract!SInit
<1>2. TypeOK /\ [Next]_vars => [Abstract!SNext]_(Abstract!specVars)
  <2>1. UNCHANGED vars => UNCHANGED (Abstract!specVars)
    BY DEF vars, Abstract!specVars, Contents, available_read
  <2> QED
    BY <2>1, StepRefines
<1> QED
  BY <1>1, <1>2, BufferTypeOK, PTL DEF Spec, ImplementsQueue, Abstract!SSpec
=============================================================================
