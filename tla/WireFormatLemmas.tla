-------------------------- MODULE WireFormatLemmas --------------------------
(***************************************************************************)
(* Lemmas about the wire formats: the types of what is decoded and of what *)
(* is encoded, and where in a CBW and a CSW each field lies.               *)
(***************************************************************************)
EXTENDS CommandBlockWrapper, ByteQueueLemmas, TLAPS

\* u32::to_le_bytes yields four bytes.
LEMMA LeBytes ==
  ASSUME NEW n \in Nat
  PROVE  /\ u32_to_le_bytes(n) \in Seq(Byte)
         /\ Len(u32_to_le_bytes(n)) = 4
<1>1. /\ n % 256 \in Byte
      /\ (n \div 256) % 256 \in Byte
      /\ (n \div 65536) % 256 \in Byte
      /\ (n \div 16777216) % 256 \in Byte
  BY DEF Byte
<1> QED
  BY <1>1 DEF u32_to_le_bytes

\* from_le_bytes undoes to_le_bytes on the whole range of a u32.
LEMMA LeRoundTrip ==
  ASSUME NEW n \in U32
  PROVE  u32_from_le_bytes(u32_to_le_bytes(n)) = n
BY DEF U32, u32_from_le_bytes, u32_to_le_bytes

\* build_csw returns CSW_LEN bytes.
LEMMA CswType ==
  ASSUME NEW tag \in Nat, NEW residue \in Nat, NEW status \in CommandStatus
  PROVE  /\ CswBytes(tag, residue, status) \in Seq(Byte)
         /\ Len(CswBytes(tag, residue, status)) = CSW_LEN
<1> DEFINE a == u32_to_le_bytes(tag)
           b == u32_to_le_bytes(residue)
           c == <<StatusByte(status)>>
           sa == CSW_SIGNATURE_LE \o a
           sab == sa \o b
           sabc == sab \o c
<1>1. CSW_SIGNATURE_LE \in Seq(Byte) /\ Len(CSW_SIGNATURE_LE) = 4
  BY DEF CSW_SIGNATURE_LE, Byte
<1>2. a \in Seq(Byte) /\ Len(a) = 4 /\ b \in Seq(Byte) /\ Len(b) = 4
  BY LeBytes
<1>3. c \in Seq(Byte) /\ Len(c) = 1
  BY DEF StatusByte, CommandStatus, Byte
<1>4. CswBytes(tag, residue, status) = sabc
  BY DEF CswBytes
<1> HIDE DEF a, b, c
<1>5. sa \in Seq(Byte) /\ Len(sa) = Len(CSW_SIGNATURE_LE) + Len(a)
  BY <1>1, <1>2, ConcatProperties, Zenon
<1>6. sab \in Seq(Byte) /\ Len(sab) = Len(sa) + Len(b)
  BY <1>2, <1>5, ConcatProperties, Zenon
<1>7. sabc \in Seq(Byte) /\ Len(sabc) = Len(sab) + Len(c)
  BY <1>3, <1>6, ConcatProperties, Zenon
<1> HIDE DEF sa, sab, sabc
<1> QED
  BY <1>1, <1>2, <1>3, <1>4, <1>5, <1>6, <1>7 DEF CSW_LEN

\* A direction that is meant only if there is data.
LEMMA DirectionType ==
  ASSUME NEW len \in Nat, NEW flags \in Byte
  PROVE  /\ Direction(len, flags) \in DataDirection
         /\ len = 0 <=> Direction(len, flags) = "NotExpected"
<1>1. Direction(len, flags) \in DataDirection
  BY DEF Byte, Direction, DataDirection
<1>2. len = 0 <=> Direction(len, flags) = "NotExpected"
  BY DEF Byte, Direction
<1> QED
  BY <1>1, <1>2

\* What from_le_bytes makes of the CBW_LEN bytes that try_parse_cbw reads.
LEMMA ParsedCbwType ==
  ASSUME NEW raw \in Seq(Byte), Len(raw) = CBW_LEN
  PROVE  /\ ParsedCbw(raw) \in CbwType
         /\ ParsedCbw(raw).data_transfer_len = 0 <=> ParsedCbw(raw).direction = "NotExpected"
<1> DEFINE v == Drop(raw, 4)
<1>1. v \in Seq(Byte) /\ Len(v) = 27
  <2>1. 4 \in 0 .. Len(raw)
    BY DEF CBW_LEN
  <2>2. v \in Seq(Byte) /\ Len(v) = Len(raw) - 4
    BY <2>1, DropProperties
  <2> QED
    BY <2>2 DEF CBW_LEN
<1>2. \A i \in 1 .. 27 : v[i] \in Byte
  BY <1>1, ElementOfSeq, ZenonT(30)
<1> HIDE DEF v
<1>3. SubSeq(v, 1, 4) \in Seq(Byte) /\ Len(SubSeq(v, 1, 4)) = 4
  BY <1>1, <1>2, SubSeqProperties
<1>4. SubSeq(v, 5, 8) \in Seq(Byte) /\ Len(SubSeq(v, 5, 8)) = 4
  BY <1>1, <1>2, SubSeqProperties
<1>5. ASSUME NEW s \in Seq(Byte), Len(s) = 4
      PROVE  u32_from_le_bytes(s) \in Nat
  <2> DEFINE a == s[1]
             b == s[2]
             c == s[3]
             d == s[4]
  <2>0. 1 \in 1 .. Len(s) /\ 2 \in 1 .. Len(s) /\ 3 \in 1 .. Len(s) /\ 4 \in 1 .. Len(s)
    BY <1>5
  <2>1. a \in Byte /\ b \in Byte /\ c \in Byte /\ d \in Byte
    BY <2>0, ElementOfSeq
  <2>2. u32_from_le_bytes(s) = a + 256 * b + 65536 * c + 16777216 * d
    BY DEF u32_from_le_bytes
  <2> HIDE DEF a, b, c, d
  <2> QED
    BY <2>1, <2>2 DEF Byte
<1> DEFINE tag == u32_from_le_bytes(SubSeq(v, 1, 4))
           len == u32_from_le_bytes(SubSeq(v, 5, 8))
           flags == v[9]
           lun == v[10]
           block_len == v[11]
<1>6. tag \in Nat /\ len \in Nat
  BY <1>3, <1>4, <1>5, ZenonT(30)
<1>7. flags \in Byte /\ lun \in Byte /\ block_len \in Byte
  BY <1>2
<1>8. Drop(v, 11) \in Seq(Byte)
  <2>1. 11 \in 0 .. Len(v)
    BY <1>1
  <2> QED
    BY <1>1, <2>1, DropProperties, ZenonT(30)
<1> HIDE DEF tag, len, flags, lun, block_len
<1>9. /\ Direction(len, flags) \in DataDirection
      /\ len = 0 <=> Direction(len, flags) = "NotExpected"
  BY <1>6, <1>7, DirectionType
<1>10. lun % 16 \in 0 .. 15 /\ block_len \in Nat
  BY <1>7 DEF Byte
<1>11. ParsedCbw(raw) = [tag |-> tag, data_transfer_len |-> len, direction |-> Direction(len, flags),
                         lun |-> lun % 16, block_len |-> block_len, block |-> Drop(v, 11)]
  BY DEF ParsedCbw, from_le_bytes, v, tag, len, flags, lun, block_len
<1> QED
  BY <1>6, <1>8, <1>9, <1>10, <1>11 DEF CbwType

-----------------------------------------------------------------------------

Bytes == Seq(Byte)
Word  == {s \in Seq(Byte) : Len(s) = 4}

\* s is the word a, the word b and the rest c: the slices the decoders take lie
\* before, between and after the joints.
IsWords(s, a, b, c) ==
  /\ s \in Seq(Byte)
  /\ Len(s) = 8 + Len(c)
  /\ SubSeq(s, 1, 4) = a
  /\ SubSeq(s, 5, 8) = b
  /\ Drop(s, 8) = c
  /\ \A i \in 1 .. Len(c) : s[8 + i] = c[i]

\* s is a followed by b.
IsPair(s, a, b) ==
  /\ s \in Seq(Byte)
  /\ Len(s) = Len(a) + Len(b)
  /\ Take(s, Len(a)) = a
  /\ Drop(s, Len(a)) = b
  /\ \A i \in 1 .. Len(a) : s[i] = a[i]
  /\ \A i \in 1 .. Len(b) : s[Len(a) + i] = b[i]

\* Two words and a rest, concatenated, are found again.
LEMMA Slices ==
  ASSUME NEW a \in Seq(Byte), NEW b \in Seq(Byte), NEW c \in Seq(Byte), Len(a) = 4, Len(b) = 4
  PROVE  IsWords(a \o (b \o c), a, b, c)
<1> DEFINE t == b \o c
           s == a \o t
<1>1. Len(c) \in Nat
  BY LenProperties
<1>2. t \in Seq(Byte) /\ Len(t) = Len(b) + Len(c)
  BY ConcatProperties, Zenon
<1>3. Take(t, Len(b)) = b /\ Drop(t, Len(b)) = c
  BY SplitConcat, Zenon
<1>4. s \in Seq(Byte) /\ Len(s) = Len(a) + Len(t)
  BY <1>2, ConcatProperties, Zenon
<1>5. Take(s, Len(a)) = a /\ Drop(s, Len(a)) = t
  BY <1>2, SplitConcat, Zenon
<1> HIDE DEF s, t
<1>6. Len(s) = 8 + Len(c)
  BY <1>1, <1>2, <1>4
<1>7. /\ 4 \in 0 .. Len(s) /\ 4 \in 0 .. Len(s) - 4 /\ 8 \in 4 .. Len(s) /\ 8 \in 0 .. Len(s)
      /\ 4 + 1 = 5 /\ 8 - 4 = 4 /\ 4 + 4 = 8
  BY <1>1, <1>6
<1>8. Drop(s, 4) = t /\ SubSeq(s, 1, 4) = a
  BY <1>5 DEF Take
<1>9. Drop(t, 4) = c /\ Take(t, 4) = b
  BY <1>3
<1>10. SubSeq(s, 4 + 1, 8) = Take(Drop(s, 4), 8 - 4)
  BY <1>4, <1>7, SliceIsTakeDrop, ZenonT(30)
<1>11. Drop(Drop(s, 4), 4) = Drop(s, 4 + 4)
  BY <1>4, <1>7, DropDrop
<1>12. SubSeq(s, 5, 8) = b /\ Drop(s, 8) = c
  BY <1>7, <1>8, <1>9, <1>10, <1>11, SMTT(60)
<1>13. \A i \in 1 .. Len(s) - 8 : Drop(s, 8)[i] = s[8 + i]
  <2>1. 8 \in 0 .. Len(s) /\ s \in Seq(Byte)
    BY <1>4, <1>7
  <2> QED
    BY <2>1, DropProperties, ZenonT(60)
<1>14. Len(s) - 8 = Len(c)
  BY <1>1, <1>6
<1>15. \A i \in 1 .. Len(c) : s[8 + i] = c[i]
  BY <1>12, <1>13, <1>14, SMTT(60)
<1> QED
  BY <1>4, <1>6, <1>8, <1>12, <1>15, ZenonT(60) DEF s, t, IsWords

\* Concatenation under a name of its own, for the steps where only its
\* associativity matters.
Join(a, b) == a \o b

\* A field joined to another is a sequence of bytes.
LEMMA JoinType ==
  \A a, b \in Bytes : Join(a, b) \in Bytes
BY ConcatProperties DEF Join, Bytes

\* Appending fields one after the other is prepending each to the rest: one joint,
LEMMA JoinAssociative ==
  \A a, b, c \in Bytes : Join(Join(a, b), c) = Join(a, Join(b, c))
BY SMT DEF Join, Bytes

\* two joints,
LEMMA JoinAssociative4 ==
  \A a, b, c, d \in Bytes : Join(Join(Join(a, b), c), d) = Join(a, Join(b, Join(c, d)))
BY JoinType, JoinAssociative

\* three joints.
LEMMA JoinAssociative5 ==
  \A a, b, c, d, e \in Bytes :
    Join(Join(Join(Join(a, b), c), d), e) = Join(a, Join(b, Join(c, Join(d, e))))
<1> SUFFICES ASSUME NEW a \in Bytes, NEW b \in Bytes, NEW c \in Bytes, NEW d \in Bytes,
                    NEW e \in Bytes
             PROVE  Join(Join(Join(Join(a, b), c), d), e)
                      = Join(a, Join(b, Join(c, Join(d, e))))
  OBVIOUS
<1>1. Join(Join(a, b), c) \in Bytes /\ Join(d, e) \in Bytes
  BY JoinType
<1>2. Join(Join(Join(Join(a, b), c), d), e) = Join(Join(Join(a, b), c), Join(d, e))
  BY <1>1, JoinAssociative
<1> QED
  BY <1>1, <1>2, JoinAssociative4

\* Two words and a rest, joined, are found again.
LEMMA JoinWords ==
  \A a, b \in Word, c \in Bytes : IsWords(Join(a, Join(b, c)), a, b, c)
<1> SUFFICES ASSUME NEW a \in Seq(Byte), NEW b \in Seq(Byte), NEW c \in Seq(Byte),
                    Len(a) = 4, Len(b) = 4
             PROVE  IsWords(a \o (b \o c), a, b, c)
  BY DEF Word, Bytes, Join
<1> QED
  BY Slices

\* Two fields joined are found again.
LEMMA JoinPair ==
  \A a, b \in Bytes : IsPair(Join(a, b), a, b)
<1> SUFFICES ASSUME NEW a \in Seq(Byte), NEW b \in Seq(Byte)
             PROVE  IsPair(a \o b, a, b)
  BY DEF Bytes, Join
<1> DEFINE s == a \o b
           m == Len(a)
           n == Len(b)
<1>1. /\ s \in Seq(Byte)
      /\ Len(s) = m + n
      /\ \A i \in 1 .. m + n : s[i] = IF i <= m THEN a[i] ELSE b[i - m]
  BY ConcatProperties, Zenon
<1>2. Take(s, m) = a /\ Drop(s, m) = b
  BY SplitConcat, Zenon
<1>3. m \in Nat /\ n \in Nat
  BY LenProperties
<1> HIDE DEF s, m, n
<1>4. \A i \in 1 .. m : s[i] = a[i]
  BY <1>1, <1>3
<1>5. \A i \in 1 .. n : s[m + i] = b[i]
  <2> SUFFICES ASSUME NEW i \in 1 .. n
               PROVE  s[m + i] = b[i]
    OBVIOUS
  <2>1. m + i \in 1 .. m + n /\ ~(m + i <= m) /\ (m + i) - m = i
    BY <1>3
  <2> QED
    BY <1>1, <2>1
<1> QED
  BY <1>1, <1>2, <1>4, <1>5 DEF IsPair, s, m, n
=============================================================================
