------------------------- MODULE CommandBlockWrapper -------------------------
(***************************************************************************)
(* The two wire formats of the Bulk Only Transport, byte by byte: the      *)
(* Command Block Wrapper the device decodes (try_parse_cbw, from_le_bytes) *)
(* and the Command Status Wrapper it encodes (build_csw).                  *)
(*                                                                         *)
(* A decoder that can fail is a pair: a predicate, and the value where the *)
(* predicate holds.  Sequences count from 1, so value[10] of the source is *)
(* value[11] here.                                                         *)
(***************************************************************************)
EXTENDS ByteQueue

Byte == 0 .. 255

CBW_LEN == 31
CSW_LEN == 13

CBW_SIGNATURE_LE == <<85, 83, 66, 67>>   \* 0x43425355
CSW_SIGNATURE_LE == <<85, 83, 66, 83>>   \* 0x53425355

MIN_CB_LEN == 1
MAX_CB_LEN == 16

DataDirection == {"Out", "In", "NotExpected"}
CommandStatus == {"Passed", "Failed", "PhaseError"}

\* n < 2^32, in a form TLC's 32-bit integers can evaluate.
U32 == {n \in Nat : n \div 16777216 < 256}

CbwType ==
  [tag : Nat, data_transfer_len : Nat, direction : DataDirection,
   lun : 0 .. 15, block_len : Nat, block : Seq(Byte)]

\* CommandBlockWrapper::default()
DefaultCbw ==
  [tag |-> 0, data_transfer_len |-> 0, direction |-> "NotExpected",
   lun |-> 0, block_len |-> 0, block |-> Fill(0, MAX_CB_LEN)]

-----------------------------------------------------------------------------

\* u32::from_le_bytes and u32::to_le_bytes
u32_from_le_bytes(b) == b[1] + 256 * b[2] + 65536 * b[3] + 16777216 * b[4]
u32_to_le_bytes(n) ==
  <<n % 256, (n \div 256) % 256, (n \div 65536) % 256, (n \div 16777216) % 256>>

-----------------------------------------------------------------------------
(* Decoding a CBW.  value is the CBW without its signature. *)

\* Broken on purpose: off by one, and the largest command block is refused.
ValidBlockLen_Short(value) == value[11] \in MIN_CB_LEN .. MAX_CB_LEN - 1

ValidBlockLen(value) == value[11] \in MIN_CB_LEN .. MAX_CB_LEN

\* Broken on purpose: the reserved bits of bmCBWFlags are not masked out.
Direction_Unmasked(len, flags) ==
  IF len = 0 THEN "NotExpected" ELSE IF flags = 128 THEN "In" ELSE "Out"

\* Bit 7 of bmCBWFlags, looked at only if there is data to transfer.
Direction(len, flags) ==
  CASE len = 0                  -> "NotExpected"
    [] len # 0 /\ flags >= 128  -> "In"
    [] len # 0 /\ flags < 128   -> "Out"

from_le_bytes(value) ==
  LET len == u32_from_le_bytes(SubSeq(value, 5, 8)) IN
  [tag               |-> u32_from_le_bytes(SubSeq(value, 1, 4)),
   data_transfer_len |-> len,
   direction         |-> Direction(len, value[9]),
   lun               |-> value[10] % 16,
   block_len         |-> value[11],
   block             |-> Drop(value, 11)]

\* try_parse_cbw on the CBW_LEN bytes it takes out of the IO buffer.
ValidCbw(raw_cbw) ==
  /\ Take(raw_cbw, 4) = CBW_SIGNATURE_LE
  /\ ValidBlockLen(Drop(raw_cbw, 4))

ParsedCbw(raw_cbw) == from_le_bytes(Drop(raw_cbw, 4))

-----------------------------------------------------------------------------
(* Encoding a CSW. *)

StatusByte(status) ==
  CASE status = "Passed"     -> 0
    [] status = "Failed"     -> 1
    [] status = "PhaseError" -> 2

\* Broken on purpose: two fields swapped.
CswBytes_Swapped(tag, data_residue, status) ==
  CSW_SIGNATURE_LE \o u32_to_le_bytes(data_residue) \o u32_to_le_bytes(tag)
    \o <<StatusByte(status)>>

CswBytes(tag, data_residue, status) ==
  CSW_SIGNATURE_LE \o u32_to_le_bytes(tag) \o u32_to_le_bytes(data_residue)
    \o <<StatusByte(status)>>

-----------------------------------------------------------------------------
(* The host's side of the two formats, after tests/common/bbb.rs. *)

\* Cbw::into_bytes, with the tag, the flags and the LUN byte free, and the
\* command block already padded to 16 bytes.
into_bytes(tag, len, flags, lun, block_len, block) ==
  CBW_SIGNATURE_LE \o u32_to_le_bytes(tag) \o u32_to_le_bytes(len)
    \o <<flags, lun, block_len>> \o block

\* Csw::from_bytes.  It does not look at the tag, which CswTag reads from where build_csw
\* puts it.
CswTag(csw)     == u32_from_le_bytes(SubSeq(csw, 5, 8))
CswResidue(csw) == u32_from_le_bytes(SubSeq(csw, 9, 12))
CswStatus(csw)  == CHOOSE s \in CommandStatus : StatusByte(s) = csw[13]
=============================================================================
