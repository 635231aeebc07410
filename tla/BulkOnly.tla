------------------------------ MODULE BulkOnly ------------------------------
(***************************************************************************)
(* transport/bbb.rs: the Bulk Only Transport state machine, driven by the  *)
(* device's main loop (poll, the data methods, set_status), by control     *)
(* requests and resets, and by the two bulk endpoints, through which the   *)
(* host sends and collects packets at any time.                            *)
(*                                                                         *)
(* The struct BulkOnly is the record bbb.  A method of the source is an    *)
(* operator of the same name from the struct before the call to the struct *)
(* after it.  Where the code returns early with `?` (the endpoint would    *)
(* block, the buffer is full, a full packet is missing), what was assigned *)
(* before stays assigned and the rest of the method is skipped.  A failed  *)
(* assertion sets panicked, and nothing happens after it.                  *)
(*                                                                         *)
(* The IO buffer is the byte queue that module Buffer implements.  An      *)
(* endpoint is a queue of packets: a write is refused (WouldBlock) when    *)
(* the IN queue is full, a read when the OUT queue is empty.  A call is    *)
(* one step.  A poll reads up to two packets (a CBW, then data); the host  *)
(* that sends the second one while the call runs is the host that had sent *)
(* both before it, which needs OutDepth >= 2.                              *)
(***************************************************************************)
EXTENDS CommandBlockWrapper

CONSTANTS
  PacketSize,  \* max packet size of both endpoints
  BufLen,      \* length of the IO buffer
  InDepth,     \* packets the IN endpoint holds for the host
  OutDepth,    \* packets the OUT endpoint holds for the device
  OutPackets,  \* the packets the host may send
  Chunks,      \* the slices the user may write
  ReadSizes,   \* the lengths of the slices the user may read into
  Processed    \* the values of data_processed the user may report

\* BulkOnly::new returns BufferTooSmall otherwise.
ASSUME BufLenAssumption ==
  /\ PacketSize \in Nat \ {0}
  /\ BufLen \in Nat
  /\ BufLen >= CBW_LEN
  /\ BufLen >= PacketSize

ASSUME EnvironmentAssumption ==
  /\ InDepth \in Nat \ {0}
  /\ OutDepth \in Nat \ {0}
  /\ \A p \in OutPackets : p \in Seq(Byte) /\ Len(p) <= PacketSize
  /\ \A c \in Chunks : c \in Seq(Byte)
  /\ ReadSizes \subseteq Nat
  /\ Processed \subseteq Nat

VARIABLE bbb

vars == <<bbb>>

State ==
  {"CommandTransfer", "CommandTransferInvalid", "DataTransferNoData",
   "StatusTransfer", "DataTransferToHost", "DataTransferToHostEnding",
   "DataTransferFromHost", "DataTransferFromHostStatusAwait",
   "DataTransferFromHostEnding", "DataTransferStatusAwait"}

FILL_BYTE == 255

\* Option<StatusAndResidue>: None is a status of its own.
NoStatus == [status |-> "None", data_residue |-> 0]
StatusAndResidue == [status : CommandStatus \cup {"None"}, data_residue : Nat]

Packet == {p \in Seq(Byte) : Len(p) <= PacketSize}

TransportType ==
  [in_fifo : Seq(Packet), in_stalled : BOOLEAN,
   out_fifo : Seq(Packet), out_stalled : BOOLEAN,
   buf : Seq(Byte), state : State, cbw : CbwType, cs : StatusAndResidue,
   left_to_transfer : Nat, panicked : BOOLEAN]

\* u32::saturating_sub
saturating_sub(a, b) == IF a >= b THEN a - b ELSE 0

-----------------------------------------------------------------------------
(* Queries *)

has_status(t) == t.cs.status # "None"

\* get_command().is_some()
has_command(t) == t.state \notin {"CommandTransfer", "CommandTransferInvalid"}

\* Broken on purpose: the bytes already in the buffer are forgotten.
allowed_IgnoringBuffer(t) == t.left_to_transfer

allowed_to_append_to_data_transfer(t) == saturating_sub(t.left_to_transfer, Len(t.buf))

assert_buffer_len_not_exceeding(t) == Len(t.buf) <= t.left_to_transfer

panic(t) == [t EXCEPT !.panicked = TRUE]

mark_as_transferred(t, by) == [t EXCEPT !.left_to_transfer = saturating_sub(@, by)]

-----------------------------------------------------------------------------
(* Packets *)

\* read_packet returns Ok: there is room for a whole packet, whatever the size
\* of the one that waits, and one waits.
ReadOk(t) ==
  /\ ~QOverflows(t.buf, PacketSize, BufLen)
  /\ t.out_fifo # <<>>

read_packet(t) ==
  IF ReadOk(t)
  THEN [t EXCEPT !.buf = @ \o Head(t.out_fifo), !.out_fifo = Tail(@)]
  ELSE t

\* write_packet returns Ok: with an empty buffer, without touching the endpoint.
WriteOk(t) == t.buf = <<>> \/ Len(t.in_fifo) < InDepth

PacketLen(t) == MinOf(PacketSize, Len(t.buf))

\* Broken on purpose: the buffer is emptied whatever the endpoint has taken.
write_packet_Drops(t) ==
  IF t.buf # <<>> /\ WriteOk(t)
  THEN [t EXCEPT !.in_fifo = Append(@, Take(t.buf, PacketLen(t))), !.buf = <<>>]
  ELSE t

write_packet(t) ==
  IF t.buf # <<>> /\ WriteOk(t)
  THEN [t EXCEPT !.in_fifo = Append(@, Take(t.buf, PacketLen(t))),
                 !.buf = QRead(@, PacketLen(t))]
  ELSE t

\* `let n = self.read_packet()?; self.mark_as_transferred(n)`, and the same for
\* write_packet.
ReceiveData(t) ==
  IF ReadOk(t) THEN mark_as_transferred(read_packet(t), Len(Head(t.out_fifo))) ELSE t

SendData(t) ==
  IF WriteOk(t) THEN mark_as_transferred(write_packet(t), PacketLen(t)) ELSE t

\* Broken on purpose: a short packet in the middle of the data.
try_write_full_packet_Short(t) == SendData(t)

try_write_full_packet(t) == IF Len(t.buf) < PacketSize THEN t ELSE SendData(t)

-----------------------------------------------------------------------------
(* Status phase *)

\* Broken on purpose: the previous command's status, the halts or the buffer are
\* not reset.
enter_command_KeepsStatus(t) ==
  [t EXCEPT !.left_to_transfer = 0, !.in_stalled = FALSE, !.out_stalled = FALSE,
            !.buf = <<>>, !.state = "CommandTransfer"]
enter_command_KeepsHalts(t) ==
  [t EXCEPT !.cs = NoStatus, !.left_to_transfer = 0, !.buf = <<>>, !.state = "CommandTransfer"]
enter_command_KeepsBuffer(t) ==
  [t EXCEPT !.cs = NoStatus, !.left_to_transfer = 0, !.in_stalled = FALSE,
            !.out_stalled = FALSE, !.state = "CommandTransfer"]

enter_state_command_transfer(t) ==
  [t EXCEPT !.cs = NoStatus, !.left_to_transfer = 0, !.in_stalled = FALSE,
            !.out_stalled = FALSE, !.buf = <<>>, !.state = "CommandTransfer"]

build_csw(t) == CswBytes(t.cbw.tag, t.cs.data_residue, t.cs.status)

\* Broken on purpose: the CSW is put behind what is in the buffer.
enter_status_KeepsBuffer(t) ==
  IF has_status(t)
  THEN [t EXCEPT !.buf = QWrite(@, build_csw(t), BufLen), !.state = "StatusTransfer"]
  ELSE panic(t)

enter_state_status_transfer(t) ==
  IF has_status(t)
  THEN [t EXCEPT !.buf = QWrite(<<>>, build_csw(t), BufLen), !.state = "StatusTransfer"]
  ELSE panic(t)

\* enter_state_status_transfer(); handle_status_transfer(): the buffer has just
\* been given a CSW, so handle_status_transfer sends its first packet.
StartStatusTransfer(t) ==
  LET u == enter_state_status_transfer(t) IN
  IF u.panicked THEN u ELSE write_packet(u)

handle_data_transfer_status_await(t) ==
  IF has_status(t) THEN StartStatusTransfer(t) ELSE t

-----------------------------------------------------------------------------
(* Data phase *)

handle_data_transfer_no_data(t) ==
  handle_data_transfer_status_await([t EXCEPT !.state = "DataTransferStatusAwait"])

\* Broken on purpose: a status set early ends the data with a short packet.
FillPacket_None(t) == t

\* The bytes missing from the next packet are made up before it is written.
FillPacket(t) ==
  LET has_to_send == MinOf(t.left_to_transfer, PacketSize) IN
  IF Len(t.buf) < has_to_send
  THEN [t EXCEPT !.buf = QFillUpTo(@, FILL_BYTE, has_to_send - Len(@), BufLen)]
  ELSE t

handle_data_transfer_to_host_ending(t) ==
  CASE ~assert_buffer_len_not_exceeding(t) -> panic(t)
    [] assert_buffer_len_not_exceeding(t) /\ t.left_to_transfer = 0 -> StartStatusTransfer(t)
    [] assert_buffer_len_not_exceeding(t) /\ t.left_to_transfer # 0 -> SendData(FillPacket(t))

handle_data_transfer_to_host(t) ==
  IF ~assert_buffer_len_not_exceeding(t) THEN panic(t)
  ELSE IF t.left_to_transfer = 0
  THEN handle_data_transfer_status_await([t EXCEPT !.state = "DataTransferStatusAwait"])
  ELSE IF has_status(t)
  THEN handle_data_transfer_to_host_ending([t EXCEPT !.state = "DataTransferToHostEnding"])
  ELSE IF t.left_to_transfer < PacketSize
  THEN SendData(t)
  ELSE try_write_full_packet(t)

\* Broken on purpose: keeps reading after the last byte.
from_host_ending_ReadsOn(t) == ReceiveData([t EXCEPT !.buf = <<>>])

handle_data_transfer_from_host_ending(t) ==
  IF t.left_to_transfer > 0
  THEN ReceiveData([t EXCEPT !.buf = <<>>])
  ELSE StartStatusTransfer(t)

\* Broken on purpose: a status set early cuts the data phase short.
from_host_SkipsEnding(t) ==
  IF t.left_to_transfer = 0 \/ has_status(t)
  THEN handle_data_transfer_status_await([t EXCEPT !.state = "DataTransferFromHostStatusAwait"])
  ELSE ReceiveData(t)

handle_data_transfer_from_host(t) ==
  IF t.left_to_transfer = 0
  THEN handle_data_transfer_status_await([t EXCEPT !.state = "DataTransferFromHostStatusAwait"])
  ELSE IF has_status(t)
  THEN handle_data_transfer_from_host_ending([t EXCEPT !.state = "DataTransferFromHostEnding"])
  ELSE ReceiveData(t)

-----------------------------------------------------------------------------
(* Command phase *)

start_data_transfer(t, cbw) ==
  LET u == [t EXCEPT !.cbw = cbw, !.left_to_transfer = cbw.data_transfer_len, !.buf = <<>>] IN
  CASE cbw.direction = "Out" ->
         handle_data_transfer_from_host([u EXCEPT !.state = "DataTransferFromHost"])
    [] cbw.direction = "In" ->
         handle_data_transfer_to_host([u EXCEPT !.state = "DataTransferToHost"])
    [] cbw.direction = "NotExpected" ->
         handle_data_transfer_no_data([u EXCEPT !.state = "DataTransferNoData"])

\* Broken on purpose: a second poll listens again.
cbw_invalid_Recovers(t) ==
  IF t.in_stalled THEN [t EXCEPT !.state = "CommandTransfer"]
  ELSE [t EXCEPT !.in_stalled = TRUE, !.out_stalled = TRUE]

handle_cbw_invalid(t) == [t EXCEPT !.in_stalled = TRUE, !.out_stalled = TRUE]

\* The CBW is taken out of the buffer whether it is valid or not.
handle_read_cbw(t) ==
  LET u == read_packet(t)
      raw_cbw == Take(u.buf, CBW_LEN)
      parsed == [u EXCEPT !.buf = QRead(@, CBW_LEN)]
  IN IF ~ReadOk(t) \/ Len(u.buf) < CBW_LEN THEN u
     ELSE IF ValidCbw(raw_cbw) THEN start_data_transfer(parsed, ParsedCbw(raw_cbw))
     ELSE handle_cbw_invalid([parsed EXCEPT !.state = "CommandTransferInvalid"])

\* Broken on purpose: does not wait until the endpoint has taken the CSW.
status_transfer_Hasty(t) == handle_read_cbw(enter_state_command_transfer(write_packet(t)))

\* An empty buffer means that the whole CSW has been given to the endpoint.
handle_status_transfer(t) ==
  IF t.buf = <<>> THEN handle_read_cbw(enter_state_command_transfer(t)) ELSE write_packet(t)

-----------------------------------------------------------------------------
(* Methods *)

\* The dispatch on the state makes the assert_matches! that opens each handler
\* true.
poll(t) ==
  CASE t.state = "CommandTransfer"            -> handle_read_cbw(t)
    [] t.state = "CommandTransferInvalid"     -> handle_cbw_invalid(t)
    [] t.state = "DataTransferNoData"         -> handle_data_transfer_no_data(t)
    [] t.state = "DataTransferToHost"         -> handle_data_transfer_to_host(t)
    [] t.state = "DataTransferToHostEnding"   -> handle_data_transfer_to_host_ending(t)
    [] t.state = "DataTransferFromHost"       -> handle_data_transfer_from_host(t)
    [] t.state = "DataTransferFromHostEnding" -> handle_data_transfer_from_host_ending(t)
    [] t.state = "StatusTransfer"             -> handle_status_transfer(t)
    [] t.state \in {"DataTransferFromHostStatusAwait", "DataTransferStatusAwait"} ->
         handle_data_transfer_status_await(t)

set_status(t, status, data_processed) ==
  IF t.state \in {"DataTransferToHost", "DataTransferFromHost", "DataTransferNoData",
                  "DataTransferStatusAwait", "DataTransferFromHostStatusAwait"}
  THEN [t EXCEPT !.cs = [status |-> status,
                         data_residue |-> saturating_sub(t.cbw.data_transfer_len, data_processed)]]
  ELSE panic(t)

read_data(t, size) ==
  IF t.state \in {"DataTransferFromHost", "DataTransferFromHostStatusAwait"}
  THEN [t EXCEPT !.buf = QRead(@, size)]
  ELSE t

write_data(t, src) ==
  IF t.state = "DataTransferToHost"
  THEN [t EXCEPT !.buf =
          QWrite(@, Take(src, MinOf(Len(src), allowed_to_append_to_data_transfer(t))), BufLen)]
  ELSE t

\* Broken on purpose: the room in the buffer is not checked.
AllWritten_NoRoomCheck(t, src) ==
  /\ t.state = "DataTransferToHost"
  /\ Len(src) <= allowed_to_append_to_data_transfer(t)

\* try_write_data_all returns Ok.
AllWritten(t, src) ==
  /\ t.state = "DataTransferToHost"
  /\ Len(src) <= allowed_to_append_to_data_transfer(t)
  /\ ~QOverflows(t.buf, Len(src), BufLen)

try_write_data_all(t, src) ==
  IF AllWritten(t, src) THEN [t EXCEPT !.buf = @ \o src] ELSE t

reset(t) == enter_state_command_transfer(t)

-----------------------------------------------------------------------------
(* Steps *)

\* BulkOnly::new
Init ==
  bbb = [in_fifo |-> <<>>, in_stalled |-> FALSE, out_fifo |-> <<>>, out_stalled |-> FALSE,
         buf |-> <<>>, state |-> "CommandTransfer", cbw |-> DefaultCbw, cs |-> NoStatus,
         left_to_transfer |-> 0, panicked |-> FALSE]

Poll == ~bbb.panicked /\ bbb' = poll(bbb)

\* Broken on purpose: the user is called for a command that has a status.
SetStatus_NoGate(status, data_processed) ==
  /\ ~bbb.panicked
  /\ has_command(bbb)
  /\ bbb' = set_status(bbb, status, data_processed)

\* poll_command hands a command to the user, who is the one to set a status,
\* only if there is a command and it has no status.
SetStatus(status, data_processed) ==
  /\ ~bbb.panicked
  /\ has_command(bbb)
  /\ ~has_status(bbb)
  /\ bbb' = set_status(bbb, status, data_processed)

UserRead(size) == ~bbb.panicked /\ bbb' = read_data(bbb, size)

UserWrite(src) == ~bbb.panicked /\ bbb' = write_data(bbb, src)

UserWriteAll(src) == ~bbb.panicked /\ bbb' = try_write_data_all(bbb, src)

\* control_in with a Bulk-Only Mass Storage Reset.  (Get Max LUN and other
\* requests leave the transport alone.)  The endpoints keep their packets.
ControlInReset == ~bbb.panicked /\ bbb' = enter_state_command_transfer(bbb)

\* A USB bus reset: the bus driver resets the endpoints, then the class.
BusReset == ~bbb.panicked /\ bbb' = reset([bbb EXCEPT !.in_fifo = <<>>, !.out_fifo = <<>>])

\* The host sends a packet, unless the endpoint is halted or full (NAK).
HostSend(p) ==
  /\ ~bbb.out_stalled
  /\ Len(bbb.out_fifo) < OutDepth
  /\ bbb' = [bbb EXCEPT !.out_fifo = Append(@, p)]

\* The host collects a packet.
HostReceive ==
  /\ ~bbb.in_stalled
  /\ bbb.in_fifo # <<>>
  /\ bbb' = [bbb EXCEPT !.in_fifo = Tail(@)]

\* Clear Feature (ENDPOINT_HALT), served by usb-device without the class.
HostClearInHalt == bbb.in_stalled /\ bbb' = [bbb EXCEPT !.in_stalled = FALSE]
HostClearOutHalt == bbb.out_stalled /\ bbb' = [bbb EXCEPT !.out_stalled = FALSE]

Next ==
  \/ Poll
  \/ \E s \in CommandStatus, n \in Processed : SetStatus(s, n)
  \/ \E n \in ReadSizes : UserRead(n)
  \/ \E src \in Chunks : UserWrite(src)
  \/ \E src \in Chunks : UserWriteAll(src)
  \/ ControlInReset
  \/ BusReset
  \/ \E p \in OutPackets : HostSend(p)
  \/ HostReceive
  \/ HostClearInHalt
  \/ HostClearOutHalt

Spec == Init /\ [][Next]_vars

\* poll "must be called as often as possible", whether or not something happened on
\* the bus; the host keeps asking for what the device has to send, and does not send
\* empty packets for ever.
FairSpec ==
  /\ Spec
  /\ WF_vars(Poll)
  /\ WF_vars(HostReceive)
  /\ SF_vars(\E p \in OutPackets \ {<<>>} : HostSend(p))

-----------------------------------------------------------------------------
(* Properties *)

\* Every field has its type; the buffer and the endpoints stay within bounds.
TypeOK ==
  /\ bbb \in TransportType
  /\ Len(bbb.buf) <= BufLen
  /\ Len(bbb.in_fifo) <= InDepth
  /\ Len(bbb.out_fifo) <= OutDepth

\* No assertion of the transport ever fails, in any interleaving of polls, user
\* calls, resets and host packets: the buffer never holds more than is left to
\* send, a CSW is built only once there is a status, and the test poll_command
\* makes before it calls the user is enough for set_status not to panic.
NoPanic == ~bbb.panicked

\* In the data phase to the host the buffer holds only bytes that may still be
\* sent, whatever the user tried to write: the device never sends more than
\* dCBWDataTransferLength.
NeverSendsTooMuch ==
  bbb.state \in {"DataTransferToHost", "DataTransferToHostEnding"} =>
    Len(bbb.buf) <= bbb.left_to_transfer

\* The status phase starts only once the data phase is over: no CSW byte is
\* sent while the host still expects, or is still sending, data.
StatusAfterData ==
  bbb.state \in {"StatusTransfer", "DataTransferStatusAwait", "DataTransferFromHostStatusAwait"} =>
    bbb.left_to_transfer = 0

\* The invariant the source states for StatusTransfer: "buffer contains CSW bytes
\* left to send".  What is left is the end of the CSW of the current command.
CswLeftToSend ==
  bbb.state = "StatusTransfer" =>
    /\ has_status(bbb)
    /\ Len(bbb.buf) <= CSW_LEN
    /\ bbb.buf = Drop(build_csw(bbb), CSW_LEN - Len(bbb.buf))

\* A transport that waits for a CBW has forgotten the previous command: no
\* status, nothing left to transfer, no halted endpoint, and in the buffer less
\* than a CBW.  (Whose bytes these are is what OldBytesAreDropped says.)
FreshCommandTransfer ==
  bbb.state = "CommandTransfer" =>
    /\ ~has_status(bbb)
    /\ bbb.left_to_transfer = 0
    /\ ~bbb.in_stalled /\ ~bbb.out_stalled
    /\ Len(bbb.buf) < CBW_LEN

\* Endpoints are halted only by an invalid CBW.
HaltedOnlyWhenInvalid ==
  bbb.in_stalled \/ bbb.out_stalled => bbb.state = "CommandTransferInvalid"

\* A transport that waits for a CBW always has room for the next packet.  This
\* needs an IO buffer larger than the one BulkOnly::new insists on.
CommandTransferCanRead ==
  bbb.state = "CommandTransfer" => ~QOverflows(bbb.buf, PacketSize, BufLen)

\* What the documentation of set_status says: "all further writes to the IO buffer
\* won't succeed".
WritesFailOnceStatusSet ==
  has_status(bbb) =>
    \A src \in Chunks : write_data(bbb, src).buf = bbb.buf /\ ~AllWritten(bbb, src)

-----------------------------------------------------------------------------

\* "CBW is invalid. This state is terminal": only a reset leaves it, and every poll
\* halts both endpoints again.  A host that clears the halts and sends a valid CBW is
\* not listened to.
InvalidIsTerminal ==
  [][bbb.state = "CommandTransferInvalid" /\ ~(ControlInReset \/ BusReset) =>
       /\ bbb'.state = "CommandTransferInvalid"
       /\ Poll => bbb'.in_stalled /\ bbb'.out_stalled]_vars

\* A status, once set, is neither changed nor lost before its CSW has been
\* given to the endpoint in full, unless there is a reset.
StatusIsKept ==
  [][has_status(bbb) /\ ~(ControlInReset \/ BusReset) =>
       \/ bbb'.cs = bbb.cs /\ bbb'.cbw = bbb.cbw
       \/ bbb.state = "StatusTransfer" /\ bbb.buf = <<>>]_vars

\* The bytes a CBW is put together from were all received for it.  A transport that
\* waits for a CBW has in its buffer what it had while it waited before, and at most
\* one packet more: no data, no CSW and, after a reset, no half of an earlier CBW.
OldBytesAreDropped ==
  [][bbb'.state = "CommandTransfer" =>
       \/ bbb'.buf = <<>>
       \/ LET waited == IF bbb.state = "CommandTransfer" THEN bbb.buf ELSE <<>> IN
          /\ ~(ControlInReset \/ BusReset)
          /\ \/ bbb'.buf = waited
             \/ bbb.out_fifo # <<>> /\ bbb'.buf = waited \o Head(bbb.out_fifo)]_vars

\* The bytes of the packet that a step gives to the IN endpoint.
NewInPacket == bbb'.in_fifo[Len(bbb'.in_fifo)]
InPacketSent == Len(bbb'.in_fifo) > Len(bbb.in_fifo)

\* The CSW is handed to the endpoint whole and in order, in as many packets as it
\* takes: each poll of the status phase either sends the next packet of it, and keeps
\* the rest, or is refused and keeps it all.
CswIsSentWhole ==
  [][bbb'.state = "StatusTransfer" =>
       LET unsent == IF bbb.state = "StatusTransfer" THEN bbb.buf ELSE build_csw(bbb') IN
       unsent = IF InPacketSent THEN NewInPacket \o bbb'.buf ELSE bbb'.buf]_vars

\* In the data phase to the host left_to_transfer goes down by exactly the bytes
\* given to the endpoint, and while a whole packet or more is left to send, only
\* whole packets are sent, however small the pieces the user writes.  The packets
\* after that may be shorter than what is left: see ShortPacketIsLast.
DataInAccounting ==
  [][InPacketSent /\ bbb'.state # "StatusTransfer" =>
       /\ bbb'.state \in {"DataTransferToHost", "DataTransferToHostEnding"}
       /\ bbb'.left_to_transfer = bbb.left_to_transfer - Len(NewInPacket)
       /\ bbb.left_to_transfer >= PacketSize => Len(NewInPacket) = PacketSize]_vars

\* What handle_data_transfer_to_host means by "allow a short packet if needed": a packet
\* shorter than the maximum, which ends the data for the host, is sent only if it is
\* the last one, with all the bytes that are left.
ShortPacketIsLast ==
  [][InPacketSent /\ bbb'.state \in {"DataTransferToHost", "DataTransferToHostEnding"} =>
       Len(NewInPacket) = MinOf(bbb.left_to_transfer, PacketSize)]_vars

\* Once the user has set a status the device makes up the rest of the data: each
\* packet is full or is the last one, even if the endpoint refused it before and
\* it is sent by a later poll.
EndingPacketsAreFull ==
  [][InPacketSent /\ bbb'.state = "DataTransferToHostEnding" =>
       Len(NewInPacket) = MinOf(bbb.left_to_transfer, PacketSize)]_vars

\* A packet is taken from the OUT endpoint only as data that is still expected
\* or as part of a CBW: after the last data byte, and until the CSW is on its
\* way, a packet the host sends early (its next CBW) is left in the endpoint.
NextCbwIsLeftAlone ==
  [][Poll /\ Len(bbb'.out_fifo) < Len(bbb.out_fifo) =>
       \/ bbb.state = "CommandTransfer"
       \/ bbb.state = "StatusTransfer" /\ bbb.buf = <<>>
       \/ /\ bbb.state \in {"DataTransferFromHost", "DataTransferFromHostEnding"}
          /\ bbb.left_to_transfer > 0]_vars

\* Once a command has a status its CSW is eventually sent, also when the host
\* must first be sent, or first send, the rest of the data.
StatusIsSent == has_status(bbb) ~> ~has_status(bbb)
=============================================================================
