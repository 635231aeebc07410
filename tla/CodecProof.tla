----------------------------- MODULE CodecProof -----------------------------
(***************************************************************************)
(* The wire formats are correct for every tag, length, residue, flags, LUN *)
(* and command block: each side decodes what the other encoded.  The       *)
(* argument is about where the fields lie (WireFormatLemmas): a CBW        *)
(* without its signature is tag, length, <<flags, lun, block_len>>, block, *)
(* and the slices from_le_bytes takes fall between the joints.             *)
(***************************************************************************)
EXTENDS Codec, WireFormatLemmas, TLAPS

\* raw is a CBW with these fields, at the places where try_parse_cbw looks for
\* them.
IsCbw(raw, tag, len, flags, lun, block_len, block) ==
  LET v == Drop(raw, 4) IN
  /\ Take(raw, 4) = CBW_SIGNATURE_LE
  /\ SubSeq(v, 1, 4) = u32_to_le_bytes(tag)
  /\ SubSeq(v, 5, 8) = u32_to_le_bytes(len)
  /\ v[9] = flags
  /\ v[10] = lun
  /\ v[11] = block_len
  /\ Drop(v, 11) = block

\* csw is a CSW with these fields, at the places where the host looks for them.
IsCsw(csw, tag, residue, status) ==
  /\ SubSeq(csw, 5, 8) = u32_to_le_bytes(tag)
  /\ SubSeq(csw, 9, 12) = u32_to_le_bytes(residue)
  /\ csw[13] = StatusByte(status)

\* The host's encoder puts the fields of a CBW where the device looks for them.
LEMMA CbwLayout ==
  ASSUME NEW tag \in U32, NEW len \in U32, NEW flags \in Byte, NEW lun \in Byte,
         NEW block_len \in Byte, NEW block \in Seq(Byte), Len(block) = MAX_CB_LEN
  PROVE  IsCbw(into_bytes(tag, len, flags, lun, block_len, block),
               tag, len, flags, lun, block_len, block)
<1> DEFINE sig == CBW_SIGNATURE_LE
           a == u32_to_le_bytes(tag)
           b == u32_to_le_bytes(len)
           h == <<flags, lun, block_len>>
           c == Join(h, block)
           v == Join(a, Join(b, c))
           raw == into_bytes(tag, len, flags, lun, block_len, block)
<1>1. sig \in Bytes /\ Len(sig) = 4
  BY DEF CBW_SIGNATURE_LE, Byte, Bytes
<1>2. a \in Word /\ b \in Word /\ a \in Bytes /\ b \in Bytes
  BY LeBytes DEF U32, Word, Bytes
<1>3. h \in Bytes /\ Len(h) = 3 /\ h[1] = flags /\ h[2] = lun /\ h[3] = block_len
  BY DEF Bytes
<1>4. block \in Bytes /\ Len(block) = 16
  BY DEF Bytes, MAX_CB_LEN
<1>5. raw = Join(Join(Join(Join(sig, a), b), h), block)
  BY DEF into_bytes, Join
<1> HIDE DEF sig, a, b, h, raw
<1>6. c \in Bytes /\ v \in Bytes
  BY <1>2, <1>3, <1>4, JoinType
<1>7. raw = Join(sig, v)
  BY <1>1, <1>2, <1>3, <1>4, <1>5, JoinAssociative5
<1>8. IsPair(c, h, block)
  BY <1>3, <1>4, JoinPair
<1> HIDE DEF c
<1>9. IsWords(v, a, b, c)
  BY <1>2, <1>6, JoinWords
<1> HIDE DEF v
<1>10. IsPair(raw, sig, v)
  BY <1>1, <1>6, <1>7, JoinPair
<1>11. /\ Len(c) = 19
       /\ c[1] = h[1] /\ c[2] = h[2] /\ c[3] = h[3]
       /\ Drop(c, 3) = block
  BY <1>3, <1>4, <1>8 DEF IsPair
<1>12. /\ v \in Seq(Byte)
       /\ Len(v) = 27
       /\ SubSeq(v, 1, 4) = a
       /\ SubSeq(v, 5, 8) = b
       /\ Drop(v, 8) = c
       /\ v[9] = c[1] /\ v[10] = c[2] /\ v[11] = c[3]
  <2>1. v \in Seq(Byte) /\ Len(v) = 8 + Len(c) /\ Drop(v, 8) = c
    BY <1>9 DEF IsWords
  <2>2. SubSeq(v, 1, 4) = a /\ SubSeq(v, 5, 8) = b
    BY <1>9 DEF IsWords
  <2>3. \A i \in 1 .. 19 : v[8 + i] = c[i]
    BY <1>9, <1>11, ZenonT(30) DEF IsWords
  <2>4. v[8 + 1] = c[1] /\ v[8 + 2] = c[2] /\ v[8 + 3] = c[3]
    BY <2>3
  <2> QED
    BY <1>11, <2>1, <2>2, <2>4
<1>13. Take(raw, 4) = sig /\ Drop(raw, 4) = v
  BY <1>1, <1>10 DEF IsPair
<1>14. Drop(v, 11) = block
  <2>1. 8 \in 0 .. Len(v) /\ 3 \in 0 .. Len(v) - 8 /\ 8 + 3 = 11
    BY <1>12
  <2>2. Drop(Drop(v, 8), 3) = Drop(v, 8 + 3)
    BY <1>12, <2>1, DropDrop, ZenonT(60)
  <2> QED
    BY <1>11, <1>12, <2>1, <2>2
<1>15. v[9] = flags /\ v[10] = lun /\ v[11] = block_len
  BY <1>3, <1>11, <1>12
<1> QED
  BY <1>12, <1>13, <1>14, <1>15, ZenonT(60) DEF IsCbw, raw, sig, a, b

\* The device's encoder puts the fields of a CSW where the host looks for them.
LEMMA CswLayout ==
  ASSUME NEW tag \in U32, NEW residue \in U32, NEW status \in CommandStatus
  PROVE  IsCsw(CswBytes(tag, residue, status), tag, residue, status)
<1> DEFINE sig == CSW_SIGNATURE_LE
           a == u32_to_le_bytes(tag)
           b == u32_to_le_bytes(residue)
           c == <<StatusByte(status)>>
           d == Join(b, c)
           csw == CswBytes(tag, residue, status)
<1>1. sig \in Word /\ sig \in Bytes
  BY DEF CSW_SIGNATURE_LE, Byte, Word, Bytes
<1>2. a \in Word /\ b \in Word /\ a \in Bytes /\ b \in Bytes /\ Len(b) = 4
  BY LeBytes DEF U32, Word, Bytes
<1>3. c \in Bytes /\ Len(c) = 1 /\ c[1] = StatusByte(status)
  BY DEF StatusByte, CommandStatus, Byte, Bytes
<1>4. csw = Join(Join(Join(sig, a), b), c)
  BY DEF CswBytes, Join
<1> HIDE DEF sig, a, b, c, csw
<1>5. d \in Bytes /\ csw = Join(sig, Join(a, d))
  BY <1>1, <1>2, <1>3, <1>4, JoinType, JoinAssociative4
<1>6. IsPair(d, b, c)
  BY <1>2, <1>3, JoinPair
<1> HIDE DEF d
<1>7. IsWords(csw, sig, a, d)
  BY <1>1, <1>2, <1>5, JoinWords
<1>8. Len(d) = 5 /\ Take(d, 4) = b /\ d[5] = c[1]
  BY <1>2, <1>3, <1>6 DEF IsPair
<1>9. /\ csw \in Seq(Byte)
      /\ Len(csw) = 13
      /\ SubSeq(csw, 5, 8) = a
      /\ Drop(csw, 8) = d
      /\ csw[13] = d[5]
  BY <1>7, <1>8 DEF IsWords
<1>10. SubSeq(csw, 9, 12) = b
  <2>1. 8 \in 0 .. Len(csw) /\ 12 \in 8 .. Len(csw) /\ 8 + 1 = 9 /\ 12 - 8 = 4
    BY <1>9
  <2>2. SubSeq(csw, 8 + 1, 12) = Take(Drop(csw, 8), 12 - 8)
    BY <1>9, <2>1, SliceIsTakeDrop, ZenonT(30)
  <2> QED
    BY <1>8, <1>9, <2>1, <2>2
<1>11. csw[13] = StatusByte(status)
  BY <1>3, <1>8, <1>9
<1> QED
  BY <1>9, <1>10, <1>11 DEF IsCsw, csw, a, b

-----------------------------------------------------------------------------

\* The fields stay in the ranges of their Rust types.
THEOREM CodecTypes == CodecSpec => []CodecTypeOK
<1>1. CodecInit => CodecTypeOK
  <2> SUFFICES ASSUME CodecInit
               PROVE  CodecTypeOK
    OBVIOUS
  <2>1. 0 \in U32 /\ 0 \in Byte /\ Fill(0, MAX_CB_LEN) \in {b \in Seq(Byte) : Len(b) = MAX_CB_LEN}
    BY CodecAssumption
  <2>2. "Passed" \in CommandStatus
    BY DEF CommandStatus
  <2> QED
    BY <2>1, <2>2 DEF CodecInit, CodecTypeOK
<1>2. CodecTypeOK /\ [CodecNext]_codecVars => CodecTypeOK'
  <2> SUFFICES ASSUME CodecTypeOK, [CodecNext]_codecVars
               PROVE  CodecTypeOK'
    OBVIOUS
  <2> USE DEF CodecTypeOK
  <2>1. ASSUME NEW n \in U32Values, SetTag(n) \/ SetLen(n)
        PROVE  CodecTypeOK'
    <3>1. n \in U32
      BY CodecAssumption
    <3> QED
      BY <2>1, <3>1 DEF SetTag, SetLen
  <2>2. ASSUME NEW b \in ByteValues, SetFlags(b) \/ SetLun(b) \/ SetBlockLen(b)
        PROVE  CodecTypeOK'
    <3>1. b \in Byte
      BY CodecAssumption
    <3> QED
      BY <2>2, <3>1 DEF SetFlags, SetLun, SetBlockLen
  <2>3. ASSUME NEW b \in Blocks, SetBlock(b)
        PROVE  CodecTypeOK'
    <3>1. b \in {x \in Seq(Byte) : Len(x) = MAX_CB_LEN}
      BY CodecAssumption
    <3> QED
      BY <2>3, <3>1, ZenonT(30) DEF SetBlock
  <2>4. ASSUME NEW n \in U32Values, NEW s \in CommandStatus, SetAnswer(n, s)
        PROVE  CodecTypeOK'
    <3>1. n \in U32
      BY CodecAssumption
    <3> QED
      BY <2>4, <3>1 DEF SetAnswer
  <2>5. CASE UNCHANGED codecVars
    BY <2>5 DEF codecVars
  <2> QED
    BY <2>1, <2>2, <2>3, <2>4, <2>5 DEF CodecNext
<1> QED
  BY <1>1, <1>2, PTL DEF CodecSpec

\* What the device decodes from a CBW is what the host encoded, for every command
\* the host can describe.
LEMMA DecodedCbw ==
  ASSUME CodecTypeOK
  PROVE  CbwDecoded /\ CbwAccepted
<1> DEFINE raw == CbwOnWire
           v == Drop(raw, 4)
<1>1. /\ cmd.tag \in U32 /\ cmd.len \in U32 /\ cmd.flags \in Byte /\ cmd.lun \in Byte
      /\ cmd.block_len \in Byte /\ cmd.block \in Seq(Byte) /\ Len(cmd.block) = MAX_CB_LEN
  BY DEF CodecTypeOK
<1>2. IsCbw(raw, cmd.tag, cmd.len, cmd.flags, cmd.lun, cmd.block_len, cmd.block)
  BY <1>1, CbwLayout DEF CbwOnWire
<1> HIDE DEF raw
<1>3. /\ u32_from_le_bytes(SubSeq(v, 1, 4)) = cmd.tag
      /\ u32_from_le_bytes(SubSeq(v, 5, 8)) = cmd.len
  BY <1>1, <1>2, LeRoundTrip, ZenonT(30) DEF IsCbw
<1>4. Direction(cmd.len, cmd.flags) = IF cmd.len = 0 THEN "NotExpected"
                                      ELSE IF (cmd.flags \div 128) % 2 = 1 THEN "In" ELSE "Out"
  <2> DEFINE n == cmd.len
             f == cmd.flags
  <2>1. n \in Nat /\ f \in 0 .. 255
    BY <1>1 DEF U32, Byte
  <2> HIDE DEF n, f
  <2>2. f >= 128 <=> (f \div 128) % 2 = 1
    BY <2>1
  <2>3. Direction(n, f) = IF n = 0 THEN "NotExpected"
                          ELSE IF (f \div 128) % 2 = 1 THEN "In" ELSE "Out"
    BY <2>1, <2>2 DEF Direction
  <2> QED
    BY <2>3 DEF n, f
<1>5. cmd.lun % 16 = cmd.lun - 16 * (cmd.lun \div 16)
  <2> DEFINE l == cmd.lun
  <2>1. l \in 0 .. 255
    BY <1>1 DEF Byte
  <2> HIDE DEF l
  <2>2. l % 16 = l - 16 * (l \div 16)
    BY <2>1
  <2> QED
    BY <2>2 DEF l
<1>6. CbwDecoded
  BY <1>2, <1>3, <1>4, <1>5 DEF CbwDecoded, ParsedCbw, from_le_bytes, IsCbw, raw
<1>7. CbwAccepted
  <2> DEFINE l == cmd.block_len
  <2>1. l \in 0 .. 255
    BY <1>1 DEF Byte
  <2>2. Take(raw, 4) = CBW_SIGNATURE_LE /\ v[11] = l
    BY <1>2 DEF IsCbw
  <2> HIDE DEF l, v
  <2>3. v[11] \in MIN_CB_LEN .. MAX_CB_LEN <=> l >= 1 /\ l <= 16
    BY <2>1, <2>2 DEF MIN_CB_LEN, MAX_CB_LEN
  <2> QED
    BY <2>2, <2>3 DEF CbwAccepted, ValidCbw, ValidBlockLen, raw, v, l
<1> QED
  BY <1>6, <1>7

\* What the host decodes from a CSW is what the device encoded, with the tag the
\* device had decoded from the host's CBW.
LEMMA DecodedCsw ==
  ASSUME CodecTypeOK
  PROVE  CswDecoded
<1> DEFINE csw == CswOnWire
<1>1. /\ cmd.tag \in U32
      /\ answer.data_residue \in U32
      /\ answer.status \in CommandStatus
  BY DEF CodecTypeOK
<1>2. ParsedCbw(CbwOnWire).tag = cmd.tag
  BY DecodedCbw DEF CbwDecoded
<1>3. csw = CswBytes(cmd.tag, answer.data_residue, answer.status)
  BY <1>2 DEF CswOnWire
<1>4. IsCsw(csw, cmd.tag, answer.data_residue, answer.status)
  BY <1>1, <1>3, CswLayout
<1>5. Len(csw) = CSW_LEN
  <2>1. cmd.tag \in Nat /\ answer.data_residue \in Nat
    BY <1>1 DEF U32
  <2> QED
    BY <1>1, <1>3, <2>1, CswType
<1> HIDE DEF csw
<1>6. CswTag(csw) = cmd.tag /\ CswResidue(csw) = answer.data_residue
  BY <1>1, <1>4, LeRoundTrip, ZenonT(30) DEF IsCsw, CswTag, CswResidue
<1>7. CswStatus(csw) = answer.status
  <2>1. csw[13] = StatusByte(answer.status)
    BY <1>4 DEF IsCsw
  <2>2. \A s, t \in CommandStatus : StatusByte(s) = StatusByte(t) => s = t
    BY DEF StatusByte, CommandStatus
  <2> QED
    BY <1>1, <2>1, <2>2, Zenon DEF CswStatus
<1> QED
  BY <1>5, <1>6, <1>7 DEF CswDecoded, csw

\* try_parse_cbw accepts what the host encodes exactly when the command block's
\* length is allowed, and decodes every field of it.
THEOREM CbwRoundTrip == CodecSpec => [](CbwAccepted /\ CbwDecoded)
<1>1. CodecTypeOK => CbwAccepted /\ CbwDecoded
  BY DecodedCbw
<1> QED
  BY <1>1, CodecTypes, PTL

\* The host finds in the CSW that build_csw returns its own tag, the residue and
\* the status.
THEOREM CswRoundTrip == CodecSpec => []CswDecoded
<1>1. CodecTypeOK => CswDecoded
  BY DecodedCsw
<1> QED
  BY <1>1, CodecTypes, PTL
=============================================================================
