------------------------------- MODULE Codec -------------------------------
(***************************************************************************)
(* The wire formats between the two sides: the host encodes a CBW, as the  *)
(* repository's integration tests do, and the device decodes it; the       *)
(* device encodes a CSW for it and the host decodes it.  A step changes    *)
(* one field of what one side has to say.                                  *)
(***************************************************************************)
EXTENDS CommandBlockWrapper

CONSTANTS U32Values, ByteValues, Blocks

ASSUME CodecAssumption ==
  /\ 0 \in U32Values
  /\ \A n \in U32Values : n \in U32
  /\ 0 \in ByteValues
  /\ ByteValues \subseteq Byte
  /\ Fill(0, MAX_CB_LEN) \in Blocks
  /\ \A b \in Blocks : b \in Seq(Byte) /\ Len(b) = MAX_CB_LEN

VARIABLES
  cmd,     \* the fields of the host's CBW
  answer   \* the residue and the status of the device's CSW

codecVars == <<cmd, answer>>

CodecInit ==
  /\ cmd = [tag |-> 0, len |-> 0, flags |-> 0, lun |-> 0, block_len |-> 0,
            block |-> Fill(0, MAX_CB_LEN)]
  /\ answer = [data_residue |-> 0, status |-> "Passed"]

SetTag(n)      == cmd' = [cmd EXCEPT !.tag = n] /\ answer' = answer
SetLen(n)      == cmd' = [cmd EXCEPT !.len = n] /\ answer' = answer
SetFlags(b)    == cmd' = [cmd EXCEPT !.flags = b] /\ answer' = answer
SetLun(b)      == cmd' = [cmd EXCEPT !.lun = b] /\ answer' = answer
SetBlockLen(b) == cmd' = [cmd EXCEPT !.block_len = b] /\ answer' = answer
SetBlock(b)    == cmd' = [cmd EXCEPT !.block = b] /\ answer' = answer
SetAnswer(n, s) == cmd' = cmd /\ answer' = [data_residue |-> n, status |-> s]

CodecNext ==
  \/ \E n \in U32Values : SetTag(n) \/ SetLen(n)
  \/ \E b \in ByteValues : SetFlags(b) \/ SetLun(b) \/ SetBlockLen(b)
  \/ \E b \in Blocks : SetBlock(b)
  \/ \E n \in U32Values, s \in CommandStatus : SetAnswer(n, s)

CodecSpec == CodecInit /\ [][CodecNext]_codecVars

-----------------------------------------------------------------------------

CodecTypeOK ==
  /\ cmd \in [tag : U32, len : U32, flags : Byte, lun : Byte, block_len : Byte,
              block : {b \in Seq(Byte) : Len(b) = MAX_CB_LEN}]
  /\ answer \in [data_residue : U32, status : CommandStatus]

CbwOnWire == into_bytes(cmd.tag, cmd.len, cmd.flags, cmd.lun, cmd.block_len, cmd.block)
CswOnWire == CswBytes(ParsedCbw(CbwOnWire).tag, answer.data_residue, answer.status)

\* The device accepts a well-formed CBW exactly when the length of its command
\* block is one to sixteen, whatever the other fields are.
CbwAccepted ==
  ValidCbw(CbwOnWire) <=> cmd.block_len >= 1 /\ cmd.block_len <= 16

\* Every field the device decodes is the one the host encoded; the reserved bits
\* of the LUN byte and of the flags are ignored, and the direction bit too if no
\* data is to be transferred.
CbwDecoded ==
  ParsedCbw(CbwOnWire) =
    [tag |-> cmd.tag, data_transfer_len |-> cmd.len,
     direction |-> IF cmd.len = 0 THEN "NotExpected"
                   ELSE IF (cmd.flags \div 128) % 2 = 1 THEN "In" ELSE "Out",
     lun |-> cmd.lun - 16 * (cmd.lun \div 16),
     block_len |-> cmd.block_len, block |-> cmd.block]

\* The host finds the tag of its own CBW in the CSW, and the residue and the
\* status the device set.
CswDecoded ==
  /\ Len(CswOnWire) = CSW_LEN
  /\ CswTag(CswOnWire) = cmd.tag
  /\ CswResidue(CswOnWire) = answer.data_residue
  /\ CswStatus(CswOnWire) = answer.status
=============================================================================
