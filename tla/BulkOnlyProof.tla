---------------------------- MODULE BulkOnlyProof ----------------------------
(***************************************************************************)
(* The transport's safety properties hold for every packet size, buffer    *)
(* length, depth of the endpoints, host and user.                          *)
(*                                                                         *)
(* The inductive invariant is Inv: Sane, the types and the bounds with no  *)
(* failed assertion, and Phase, what each state of the source promises.    *)
(* There is one lemma per method: it takes the part of Inv that holds      *)
(* where the method is called, which is often not the whole of it (the     *)
(* handlers call each other between two assignments), to the whole of Inv  *)
(* where it returns.                                                       *)
(***************************************************************************)
EXTENDS BulkOnly, WireFormatLemmas, TLAPS

\* Types and bounds, and no assertion has failed.
Sane(t) ==
  /\ t \in TransportType
  /\ Len(t.buf) <= BufLen
  /\ Len(t.in_fifo) <= InDepth
  /\ Len(t.out_fifo) <= OutDepth
  /\ t.panicked = FALSE

\* Neither endpoint is halted.
Quiet(t) == t.in_stalled = FALSE /\ t.out_stalled = FALSE

\* The buffer holds the end of the CSW of the current command.
HoldsCsw(t) ==
  Len(t.buf) <= CSW_LEN /\ t.buf = Drop(build_csw(t), CSW_LEN - Len(t.buf))

\* What the code relies on in each state.
Phase(t) ==
  /\ t.state \in {"DataTransferToHost", "DataTransferToHostEnding"} =>
       Len(t.buf) <= t.left_to_transfer
  /\ t.state \in {"StatusTransfer", "DataTransferStatusAwait", "DataTransferFromHostStatusAwait"} =>
       t.left_to_transfer = 0
  /\ t.state = "DataTransferNoData" => t.left_to_transfer = 0
  /\ t.state \in {"StatusTransfer", "DataTransferToHostEnding", "DataTransferFromHostEnding"} =>
       has_status(t)
  /\ t.state = "StatusTransfer" => HoldsCsw(t)
  /\ t.state = "CommandTransfer" =>
       ~has_status(t) /\ t.left_to_transfer = 0 /\ Len(t.buf) < CBW_LEN
  /\ t.state # "CommandTransferInvalid" => Quiet(t)

Inv(t) == Sane(t) /\ Phase(t)

\* The step from t to u leaves the command and its status alone,
Kept(t, u) == u.cs = t.cs /\ u.cbw = t.cbw

\* and also the state and the halts of the endpoints.
Framed(t, u) ==
  /\ Kept(t, u)
  /\ u.state = t.state
  /\ u.in_stalled = t.in_stalled
  /\ u.out_stalled = t.out_stalled

-----------------------------------------------------------------------------
(* Updates of single fields *)

\* A new content of the buffer.
LEMMA SetBuf ==
  ASSUME NEW t, Sane(t), NEW b \in Seq(Byte), Len(b) <= BufLen
  PROVE  LET u == [t EXCEPT !.buf = b] IN
         /\ Sane(u)
         /\ Framed(t, u)
         /\ u.buf = b
         /\ u.left_to_transfer = t.left_to_transfer
BY ZenonT(30) DEF Sane, TransportType, Framed, Kept

\* A new state.
LEMMA SetState ==
  ASSUME NEW t, Sane(t), NEW s \in State
  PROVE  LET u == [t EXCEPT !.state = s] IN
         /\ Sane(u)
         /\ Kept(t, u)
         /\ u.state = s
         /\ u.buf = t.buf
         /\ u.left_to_transfer = t.left_to_transfer
         /\ Quiet(t) => Quiet(u)
         /\ has_status(t) => has_status(u)
BY ZenonT(30) DEF Sane, TransportType, Kept, Quiet, has_status

\* mark_as_transferred: left_to_transfer goes down, and stops at zero.
LEMMA MarkAsTransferred ==
  ASSUME NEW t, Sane(t), NEW n \in Nat
  PROVE  LET u == mark_as_transferred(t, n) IN
         /\ Sane(u)
         /\ Framed(t, u)
         /\ u.buf = t.buf
         /\ u.left_to_transfer = saturating_sub(t.left_to_transfer, n)
<1> DEFINE left == saturating_sub(t.left_to_transfer, n)
<1>1. t.left_to_transfer \in Nat
  BY DEF Sane, TransportType
<1>2. left \in Nat
  BY <1>1 DEF saturating_sub
<1>3. mark_as_transferred(t, n) = [t EXCEPT !.left_to_transfer = left]
  BY DEF mark_as_transferred
<1> HIDE DEF left
<1> QED
  BY <1>2, <1>3 DEF Sane, TransportType, Framed, Kept, left

-----------------------------------------------------------------------------
(* Packets *)

\* read_packet moves the packet that waits from the endpoint to the buffer.
LEMMA ReadPacket ==
  ASSUME NEW t, Sane(t), ReadOk(t)
  PROVE  LET u == read_packet(t)
             p == Head(t.out_fifo)
         IN /\ Sane(u)
            /\ Framed(t, u)
            /\ Len(p) \in Nat
            /\ Len(u.buf) = Len(t.buf) + Len(p)
            /\ u.left_to_transfer = t.left_to_transfer
<1> DEFINE p == Head(t.out_fifo)
           rest == Tail(t.out_fifo)
           b == t.buf \o p
           u == read_packet(t)
<1>1. t.out_fifo \in Seq(Packet) /\ t.buf \in Seq(Byte)
  BY DEF Sane, TransportType
<1>2. p \in Packet /\ rest \in Seq(Packet) /\ Len(rest) = Len(t.out_fifo) - 1
  BY <1>1, HeadTailProperties DEF ReadOk
<1>3. u = [t EXCEPT !.buf = b, !.out_fifo = rest]
  BY DEF read_packet
<1> HIDE DEF p, rest, u
<1>4. b \in Seq(Byte) /\ Len(b) = Len(t.buf) + Len(p)
  BY <1>1, <1>2, ConcatProperties DEF Packet
<1>5. Len(t.buf) \in Nat /\ Len(p) \in Nat /\ Len(p) <= PacketSize /\ Len(t.out_fifo) \in Nat
  BY <1>1, <1>2, LenProperties DEF Packet
<1>6. Len(b) <= BufLen
  BY <1>4, <1>5, BufLenAssumption DEF ReadOk, QOverflows, Room
<1> HIDE DEF b
<1>7. /\ u \in TransportType
      /\ u.buf = b
      /\ u.out_fifo = rest
      /\ u.in_fifo = t.in_fifo
      /\ u.panicked = t.panicked
      /\ u.left_to_transfer = t.left_to_transfer
      /\ Framed(t, u)
  BY <1>2, <1>3, <1>4, ZenonT(30) DEF Sane, TransportType, Framed, Kept
<1>8. Sane(u)
  BY <1>2, <1>5, <1>6, <1>7, EnvironmentAssumption DEF Sane
<1> QED
  BY <1>4, <1>5, <1>7, <1>8, ZenonT(30) DEF p, u

\* write_packet moves at most one packet from the buffer to the endpoint.
LEMMA WritePacket ==
  ASSUME NEW t, Sane(t)
  PROVE  LET u == write_packet(t)
             k == PacketLen(t)
         IN /\ Sane(u)
            /\ Framed(t, u)
            /\ u.left_to_transfer = t.left_to_transfer
            /\ k \in 0 .. Len(t.buf)
            /\ \/ u.buf = Drop(t.buf, k) /\ Len(u.buf) = Len(t.buf) - k /\ WriteOk(t)
               \/ u.buf = t.buf /\ ~WriteOk(t)
<1> DEFINE u == write_packet(t)
           k == PacketLen(t)
           p == Take(t.buf, k)
           rest == Drop(t.buf, k)
           f == Append(t.in_fifo, p)
<1>1. t.in_fifo \in Seq(Packet) /\ t.buf \in Seq(Byte) /\ Len(t.buf) \in Nat
  BY LenProperties DEF Sane, TransportType
<1>2. k \in 0 .. Len(t.buf) /\ k <= PacketSize
  BY <1>1, BufLenAssumption DEF PacketLen, MinOf
<1>3. MinOf(k, Len(t.buf)) = k
  BY <1>1, <1>2 DEF MinOf
<1> HIDE DEF k
<1>4. /\ p \in Seq(Byte) /\ Len(p) = k
      /\ rest \in Seq(Byte) /\ Len(rest) = Len(t.buf) - k
  BY <1>1, <1>2, TakeProperties, DropProperties, ZenonT(60)
<1>5. p \in Packet
  BY <1>2, <1>4 DEF Packet
<1> HIDE DEF p
<1>6. f \in Seq(Packet) /\ Len(f) = Len(t.in_fifo) + 1
  BY <1>1, <1>5, AppendProperties
<1>7. CASE t.buf # <<>> /\ WriteOk(t)
  <2>1. u = [t EXCEPT !.in_fifo = f, !.buf = rest]
    BY <1>3, <1>7 DEF write_packet, QRead, k, p
  <2>2. Len(t.in_fifo) < InDepth /\ Len(t.in_fifo) \in Nat
    BY <1>1, <1>7, LenProperties DEF WriteOk
  <2> HIDE DEF u, rest, f
  <2>3. /\ u \in TransportType
        /\ u.buf = rest
        /\ u.in_fifo = f
        /\ u.out_fifo = t.out_fifo
        /\ u.panicked = t.panicked
        /\ u.left_to_transfer = t.left_to_transfer
        /\ Framed(t, u)
    BY <1>4, <1>6, <2>1, ZenonT(30) DEF Sane, TransportType, Framed, Kept
  <2>4. Sane(u)
    <3>1. Len(t.buf) <= BufLen /\ Len(t.out_fifo) <= OutDepth /\ t.panicked = FALSE
      BY DEF Sane
    <3>2. k \in Nat /\ Len(rest) = Len(t.buf) - k /\ Len(f) = Len(t.in_fifo) + 1
      BY <1>1, <1>2, <1>4, <1>6
    <3>3. Len(rest) <= BufLen /\ Len(f) <= InDepth
      <4> HIDE DEF Sane
      <4> QED
        BY <1>1, <2>2, <3>1, <3>2, EnvironmentAssumption, BufLenAssumption, SMTT(30)
    <3> QED
      BY <2>3, <3>1, <3>3, ZenonT(30) DEF Sane
  <2> QED
    BY <1>2, <1>4, <1>7, <2>3, <2>4 DEF u, k, rest
<1>8. CASE t.buf = <<>>
  <2>1. u = t /\ WriteOk(t)
    BY <1>8 DEF write_packet, WriteOk
  <2>2. Len(t.buf) = 0 /\ k = 0
    BY <1>1, <1>2, <1>8
  <2>3. rest = t.buf
    BY <1>1, <2>2, DropNone
  <2> QED
    BY <1>1, <1>2, <2>1, <2>2, <2>3 DEF Framed, Kept, u, k, rest
<1>9. CASE ~WriteOk(t)
  <2>1. u = t
    BY <1>9 DEF write_packet
  <2> QED
    BY <1>2, <1>9, <2>1 DEF Framed, Kept, u, k
<1> QED
  BY <1>7, <1>8, <1>9

\* A data packet written: what is in the buffer may still all be sent.
LEMMA SendDataKeeps ==
  ASSUME NEW t, Sane(t), Len(t.buf) <= t.left_to_transfer
  PROVE  LET u == SendData(t) IN
         /\ Sane(u)
         /\ Framed(t, u)
         /\ Len(u.buf) <= u.left_to_transfer
<1> DEFINE w == write_packet(t)
           k == PacketLen(t)
           u == mark_as_transferred(w, k)
<1>1. t.left_to_transfer \in Nat /\ Len(t.buf) \in Nat
  BY LenProperties DEF Sane, TransportType
<1>2. /\ Sane(w)
      /\ Framed(t, w)
      /\ w.left_to_transfer = t.left_to_transfer
      /\ k \in 0 .. Len(t.buf)
      /\ WriteOk(t) => Len(w.buf) = Len(t.buf) - k
  BY WritePacket
<1> HIDE DEF w, k
<1>3. CASE WriteOk(t)
  <2>1. SendData(t) = u
    BY <1>3 DEF SendData, w, k
  <2>2. k \in Nat
    BY <1>1, <1>2
  <2>3. /\ Sane(u)
        /\ Framed(w, u)
        /\ u.buf = w.buf
        /\ u.left_to_transfer = saturating_sub(w.left_to_transfer, k)
    BY <1>2, <2>2, MarkAsTransferred
  <2> HIDE DEF u
  <2>4. Framed(t, u)
    BY <1>2, <2>3 DEF Framed, Kept
  <2>5. Len(u.buf) <= u.left_to_transfer
    BY <1>1, <1>2, <1>3, <2>3 DEF saturating_sub
  <2> QED
    BY <2>1, <2>3, <2>4, <2>5
<1>4. CASE ~WriteOk(t)
  BY <1>4 DEF SendData, Framed, Kept
<1> QED
  BY <1>3, <1>4

\* A data packet read.
LEMMA ReceiveDataKeeps ==
  ASSUME NEW t, Sane(t)
  PROVE  Sane(ReceiveData(t)) /\ Framed(t, ReceiveData(t))
<1> DEFINE r == read_packet(t)
           n == Len(Head(t.out_fifo))
           u == mark_as_transferred(r, n)
<1>1. CASE ReadOk(t)
  <2>1. Sane(r) /\ Framed(t, r) /\ n \in Nat
    BY <1>1, ReadPacket, ZenonT(30)
  <2>2. ReceiveData(t) = u
    BY <1>1 DEF ReceiveData
  <2> HIDE DEF r, n
  <2>3. Sane(u) /\ Framed(r, u)
    BY <2>1, MarkAsTransferred
  <2> QED
    BY <2>1, <2>2, <2>3 DEF Framed, Kept
<1>2. CASE ~ReadOk(t)
  BY <1>2 DEF ReceiveData, Framed, Kept
<1> QED
  BY <1>1, <1>2

-----------------------------------------------------------------------------
(* Status phase *)

\* build_csw, of a transport with a status, returns CSW_LEN bytes, which fit in
\* the buffer.
LEMMA BuildCsw ==
  ASSUME NEW t, Sane(t), has_status(t)
  PROVE  /\ build_csw(t) \in Seq(Byte)
         /\ Len(build_csw(t)) = CSW_LEN
         /\ QWrite(<<>>, build_csw(t), BufLen) = build_csw(t)
<1> DEFINE csw == build_csw(t)
<1>1. t.cbw.tag \in Nat /\ t.cs.data_residue \in Nat /\ t.cs.status \in CommandStatus
  BY DEF Sane, TransportType, CbwType, U32, StatusAndResidue, has_status
<1>2. csw \in Seq(Byte) /\ Len(csw) = CSW_LEN
  BY <1>1, CswType, ZenonT(60) DEF build_csw
<1> HIDE DEF csw
<1>3. Queued(<<>>, csw, BufLen) = Len(csw)
  BY <1>2, BufLenAssumption DEF Queued, Room, MinOf, CSW_LEN, CBW_LEN
<1>4. Take(csw, Len(csw)) = csw
  BY <1>2, SubSeqFull DEF Take
<1>5. <<>> \o csw = csw
  BY <1>2, ConcatEmptySeq
<1>6. QWrite(<<>>, csw, BufLen) = csw
  BY <1>3, <1>4, <1>5 DEF QWrite
<1> QED
  BY <1>2, <1>6 DEF csw

\* A step that leaves the command and its status alone leaves the CSW alone.
LEMMA SameCsw ==
  ASSUME NEW t, NEW u, Kept(t, u)
  PROVE  build_csw(u) = build_csw(t) /\ (has_status(u) <=> has_status(t))
BY DEF Kept, build_csw, has_status

\* The bytes of the CSW that write_packet leaves in the buffer are its end.
LEMMA WriteCsw ==
  ASSUME NEW t, Sane(t), has_status(t), HoldsCsw(t)
  PROVE  HoldsCsw(write_packet(t))
<1> DEFINE u == write_packet(t)
           k == PacketLen(t)
           csw == build_csw(t)
           n == Len(t.buf)
           l == Len(csw)
<1>1. /\ Sane(u)
      /\ Kept(t, u)
      /\ k \in 0 .. n
      /\ \/ u.buf = Drop(t.buf, k) /\ Len(u.buf) = n - k
         \/ u.buf = t.buf
  BY WritePacket DEF Framed
<1>2. csw \in Seq(Byte) /\ l = CSW_LEN
  BY BuildCsw
<1>3. build_csw(u) = csw
  BY <1>1, SameCsw
<1>4. n <= CSW_LEN /\ t.buf = Drop(csw, CSW_LEN - n)
  BY DEF HoldsCsw
<1>5. n \in Nat
  BY LenProperties DEF Sane, TransportType
<1> HIDE DEF u, k, csw, n, l
<1>6. ASSUME u.buf = t.buf
      PROVE  HoldsCsw(u)
  BY <1>3, <1>4, <1>6 DEF HoldsCsw, n
<1>7. ASSUME u.buf = Drop(t.buf, k), Len(u.buf) = n - k
      PROVE  HoldsCsw(u)
  <2>1. /\ CSW_LEN - n \in 0 .. l /\ k \in 0 .. l - (CSW_LEN - n)
        /\ (CSW_LEN - n) + k = CSW_LEN - (n - k) /\ n - k <= CSW_LEN
    BY <1>1, <1>2, <1>4, <1>5 DEF CSW_LEN
  <2>2. Drop(Drop(csw, CSW_LEN - n), k) = Drop(csw, (CSW_LEN - n) + k)
    BY <1>2, <2>1, DropDrop DEF l
  <2> QED
    BY <1>3, <1>4, <1>7, <2>1, <2>2 DEF HoldsCsw
<1> QED
  BY <1>1, <1>6, <1>7 DEF u

\* The status phase starts with the whole CSW in the buffer, and gives its first
\* packet to the endpoint if that has room.
LEMMA StartStatus ==
  ASSUME NEW t, Sane(t), Quiet(t), has_status(t), t.left_to_transfer = 0
  PROVE  /\ Inv(StartStatusTransfer(t))
         /\ Kept(t, StartStatusTransfer(t))
         /\ StartStatusTransfer(t).state = "StatusTransfer"
<1> DEFINE csw == build_csw(t)
           u == [t EXCEPT !.buf = csw, !.state = "StatusTransfer"]
           w == write_packet(u)
<1>1. csw \in Seq(Byte) /\ Len(csw) = CSW_LEN /\ QWrite(<<>>, csw, BufLen) = csw
  BY BuildCsw
<1>2. enter_state_status_transfer(t) = u
  BY <1>1, ZenonT(30) DEF enter_state_status_transfer
<1> HIDE DEF csw
<1>3. Len(csw) <= BufLen
  BY <1>1, BufLenAssumption DEF CSW_LEN, CBW_LEN
<1>4. /\ Sane(u)
      /\ Kept(t, u)
      /\ Quiet(u)
      /\ u.state = "StatusTransfer"
      /\ u.buf = csw
      /\ u.left_to_transfer = 0
      /\ u.panicked = FALSE
  BY <1>1, <1>3, ZenonT(30) DEF Sane, TransportType, State, Kept, Quiet
<1>5. StartStatusTransfer(t) = w
  BY <1>2, <1>4 DEF StartStatusTransfer
<1> HIDE DEF u
<1>6. has_status(u) /\ build_csw(u) = csw
  BY <1>4, SameCsw DEF csw
<1>7. HoldsCsw(u)
  <2>1. CSW_LEN - CSW_LEN = 0 /\ CSW_LEN <= CSW_LEN
    BY DEF CSW_LEN
  <2>2. Drop(csw, 0) = csw
    BY <1>1, DropNone
  <2> QED
    BY <1>1, <1>4, <1>6, <2>1, <2>2 DEF HoldsCsw
<1>8. Sane(w) /\ Framed(u, w) /\ w.left_to_transfer = 0
  BY <1>4, WritePacket
<1>9. HoldsCsw(w)
  BY <1>4, <1>6, <1>7, WriteCsw
<1> HIDE DEF w
<1>10. Phase(w)
  BY <1>4, <1>6, <1>8, <1>9 DEF Phase, Framed, Kept, Quiet, has_status
<1>11. Kept(t, w) /\ w.state = "StatusTransfer"
  BY <1>4, <1>8 DEF Framed, Kept
<1> QED
  BY <1>5, <1>8, <1>10, <1>11 DEF Inv

\* Waiting for the status once all data is transferred.
LEMMA StatusAwait ==
  ASSUME NEW t, Sane(t), Quiet(t), t.left_to_transfer = 0,
         t.state \in {"DataTransferStatusAwait", "DataTransferFromHostStatusAwait"}
  PROVE  LET u == handle_data_transfer_status_await(t) IN
         /\ Inv(u)
         /\ Kept(t, u)
         /\ has_status(t) => u.state = "StatusTransfer"
<1>1. CASE has_status(t)
  BY <1>1, StartStatus DEF handle_data_transfer_status_await
<1>2. CASE ~has_status(t)
  BY <1>2 DEF handle_data_transfer_status_await, Inv, Phase, Kept
<1> QED
  BY <1>1, <1>2

\* The last lines of three handlers: enter a state that waits for the status.
LEMMA EnterStatusAwait ==
  ASSUME NEW t, Sane(t), Quiet(t), t.left_to_transfer = 0,
         NEW s \in {"DataTransferStatusAwait", "DataTransferFromHostStatusAwait"}
  PROVE  LET u == handle_data_transfer_status_await([t EXCEPT !.state = s]) IN
         /\ Inv(u)
         /\ Kept(t, u)
         /\ has_status(t) => u.state = "StatusTransfer"
<1> DEFINE w == [t EXCEPT !.state = s]
           u == handle_data_transfer_status_await(w)
<1>1. s \in State
  BY DEF State
<1>2. Sane(w) /\ Kept(t, w) /\ w.state = s /\ w.left_to_transfer = 0 /\ Quiet(w)
  BY <1>1, SetState
<1> HIDE DEF w
<1>3. Inv(u) /\ Kept(w, u) /\ (has_status(w) => u.state = "StatusTransfer")
  BY <1>2, StatusAwait
<1> HIDE DEF u
<1>4. Kept(t, u) /\ (has_status(t) => has_status(w))
  BY <1>2, <1>3 DEF Kept, has_status
<1> QED
  BY <1>3, <1>4 DEF u, w

-----------------------------------------------------------------------------
(* Data phase *)

\* A command without data.
LEMMA NoData ==
  ASSUME NEW t, Sane(t), Quiet(t), t.left_to_transfer = 0
  PROVE  LET u == handle_data_transfer_no_data(t) IN Inv(u) /\ Kept(t, u)
BY EnterStatusAwait, ZenonT(30) DEF handle_data_transfer_no_data

\* What is made up fits in the buffer and in what is left to transfer.
LEMMA FillPacketKeeps ==
  ASSUME NEW t, Sane(t), Len(t.buf) <= t.left_to_transfer
  PROVE  LET u == FillPacket(t) IN
         /\ Sane(u)
         /\ Framed(t, u)
         /\ u.left_to_transfer = t.left_to_transfer
         /\ Len(u.buf) <= u.left_to_transfer
<1> DEFINE l == t.left_to_transfer
           n == Len(t.buf)
           h == MinOf(l, PacketSize)
           m == MinOf(Room(t.buf, BufLen), h - n)
           f == Fill(FILL_BYTE, m)
           b == t.buf \o f
<1>1. l \in Nat /\ n \in Nat /\ t.buf \in Seq(Byte) /\ n <= l /\ n <= BufLen
  BY LenProperties DEF Sane, TransportType
<1>2. CASE n < h
  <2>1. FillPacket(t) = [t EXCEPT !.buf = b]
    BY <1>2 DEF FillPacket, QFillUpTo
  <2>2. Room(t.buf, BufLen) = BufLen - n
    BY DEF Room
  <2> HIDE DEF n, l
  <2>3. m \in Nat /\ m <= BufLen - n /\ n + m <= l
    BY <1>1, <1>2, <2>2, BufLenAssumption DEF MinOf
  <2> HIDE DEF m, h
  <2>4. f \in Seq(Byte) /\ Len(f) = m
    <3>1. FILL_BYTE \in Byte
      BY DEF FILL_BYTE, Byte
    <3> QED
      BY <2>3, <3>1, FillProperties, Zenon
  <2> HIDE DEF f
  <2>5. b \in Seq(Byte) /\ Len(b) = n + m
    BY <1>1, <2>4, ConcatProperties, ZenonT(60) DEF n
  <2> HIDE DEF b
  <2>6. Len(b) <= BufLen /\ Len(b) <= l
    BY <1>1, <2>3, <2>5, BufLenAssumption
  <2> QED
    BY <2>1, <2>5, <2>6, SetBuf DEF l
<1>3. CASE ~(n < h)
  BY <1>1, <1>3 DEF FillPacket, Framed, Kept
<1> QED
  BY <1>2, <1>3

\* The end of a transfer to the host.
LEMMA ToHostEnding ==
  ASSUME NEW t, Sane(t), Quiet(t), has_status(t), t.state = "DataTransferToHostEnding",
         Len(t.buf) <= t.left_to_transfer
  PROVE  LET u == handle_data_transfer_to_host_ending(t) IN Inv(u) /\ Kept(t, u)
<1> DEFINE u == handle_data_transfer_to_host_ending(t)
           f == FillPacket(t)
           d == SendData(f)
<1>1. assert_buffer_len_not_exceeding(t)
  BY DEF assert_buffer_len_not_exceeding
<1>2. CASE t.left_to_transfer = 0
  <2>1. u = StartStatusTransfer(t)
    BY <1>1, <1>2 DEF handle_data_transfer_to_host_ending
  <2> QED
    BY <1>2, <2>1, StartStatus
<1>3. CASE t.left_to_transfer # 0
  <2>1. u = d
    BY <1>1, <1>3 DEF handle_data_transfer_to_host_ending
  <2>2. Sane(f) /\ Framed(t, f) /\ Len(f.buf) <= f.left_to_transfer
    BY FillPacketKeeps
  <2> HIDE DEF f
  <2>3. Sane(d) /\ Framed(f, d) /\ Len(d.buf) <= d.left_to_transfer
    BY <2>2, SendDataKeeps
  <2> HIDE DEF d, u
  <2>4. Framed(t, d)
    BY <2>2, <2>3 DEF Framed, Kept
  <2>5. has_status(d)
    BY <2>4, SameCsw DEF Framed
  <2>6. Phase(d)
    BY <2>3, <2>4, <2>5 DEF Phase, Framed, Quiet
  <2> QED
    BY <2>1, <2>3, <2>4, <2>6 DEF Inv, Framed, u
<1> QED
  BY <1>2, <1>3

\* A transfer to the host.
LEMMA ToHost ==
  ASSUME NEW t, Sane(t), Quiet(t), t.state = "DataTransferToHost",
         Len(t.buf) <= t.left_to_transfer
  PROVE  LET u == handle_data_transfer_to_host(t) IN Inv(u) /\ Kept(t, u)
<1> DEFINE u == handle_data_transfer_to_host(t)
           e == [t EXCEPT !.state = "DataTransferToHostEnding"]
           d == SendData(t)
<1>1. assert_buffer_len_not_exceeding(t)
  BY DEF assert_buffer_len_not_exceeding
<1>2. CASE t.left_to_transfer = 0
  <2>1. u = handle_data_transfer_status_await([t EXCEPT !.state = "DataTransferStatusAwait"])
    BY <1>1, <1>2 DEF handle_data_transfer_to_host
  <2> QED
    BY <1>2, <2>1, EnterStatusAwait, ZenonT(30)
<1>3. CASE t.left_to_transfer # 0 /\ has_status(t)
  <2>1. u = handle_data_transfer_to_host_ending(e)
    BY <1>1, <1>3 DEF handle_data_transfer_to_host
  <2>2. "DataTransferToHostEnding" \in State
    BY DEF State
  <2>3. /\ Sane(e) /\ Kept(t, e) /\ e.state = "DataTransferToHostEnding"
        /\ Len(e.buf) <= e.left_to_transfer /\ Quiet(e) /\ has_status(e)
    BY <1>3, <2>2, SetState
  <2> HIDE DEF e
  <2>4. Inv(u) /\ Kept(e, u)
    BY <2>1, <2>3, ToHostEnding
  <2> QED
    BY <2>3, <2>4 DEF Kept
<1>4. CASE t.left_to_transfer # 0 /\ ~has_status(t)
  <2>1. u = d \/ u = t
    BY <1>1, <1>4 DEF handle_data_transfer_to_host, try_write_full_packet
  <2>2. Sane(d) /\ Framed(t, d) /\ Len(d.buf) <= d.left_to_transfer
    BY SendDataKeeps
  <2> HIDE DEF d, u
  <2>3. Phase(d) /\ Phase(t)
    BY <2>2 DEF Phase, Framed, Quiet
  <2> QED
    BY <2>1, <2>2, <2>3 DEF Inv, Framed, Kept, u
<1> QED
  BY <1>2, <1>3, <1>4

\* The end of a transfer from the host.
LEMMA FromHostEnding ==
  ASSUME NEW t, Sane(t), Quiet(t), has_status(t), t.state = "DataTransferFromHostEnding"
  PROVE  LET u == handle_data_transfer_from_host_ending(t) IN Inv(u) /\ Kept(t, u)
<1> DEFINE u == handle_data_transfer_from_host_ending(t)
           c == [t EXCEPT !.buf = <<>>]
           d == ReceiveData(c)
<1>1. t.left_to_transfer \in Nat
  BY DEF Sane, TransportType
<1>2. CASE t.left_to_transfer = 0
  <2>1. u = StartStatusTransfer(t)
    BY <1>2 DEF handle_data_transfer_from_host_ending
  <2> QED
    BY <1>2, <2>1, StartStatus
<1>3. CASE t.left_to_transfer > 0
  <2>1. u = d
    BY <1>3 DEF handle_data_transfer_from_host_ending
  <2>2. <<>> \in Seq(Byte) /\ Len(<<>>) <= BufLen
    BY BufLenAssumption
  <2>3. Sane(c) /\ Framed(t, c)
    BY <2>2, SetBuf, ZenonT(30)
  <2> HIDE DEF c
  <2>4. Sane(d) /\ Framed(c, d)
    BY <2>3, ReceiveDataKeeps
  <2> HIDE DEF d, u
  <2>5. Framed(t, d)
    BY <2>3, <2>4 DEF Framed, Kept
  <2>6. has_status(d)
    BY <2>5, SameCsw DEF Framed
  <2>7. Phase(d)
    BY <2>5, <2>6 DEF Phase, Framed, Quiet
  <2> QED
    BY <2>1, <2>4, <2>5, <2>7 DEF Inv, Framed, u
<1> QED
  BY <1>1, <1>2, <1>3

\* A transfer from the host.
LEMMA FromHost ==
  ASSUME NEW t, Sane(t), Quiet(t), t.state = "DataTransferFromHost"
  PROVE  LET u == handle_data_transfer_from_host(t) IN Inv(u) /\ Kept(t, u)
<1> DEFINE u == handle_data_transfer_from_host(t)
           e == [t EXCEPT !.state = "DataTransferFromHostEnding"]
           d == ReceiveData(t)
<1>1. CASE t.left_to_transfer = 0
  <2>1. u = handle_data_transfer_status_await(
              [t EXCEPT !.state = "DataTransferFromHostStatusAwait"])
    BY <1>1 DEF handle_data_transfer_from_host
  <2> QED
    BY <1>1, <2>1, EnterStatusAwait, ZenonT(30)
<1>2. CASE t.left_to_transfer # 0 /\ has_status(t)
  <2>1. u = handle_data_transfer_from_host_ending(e)
    BY <1>2 DEF handle_data_transfer_from_host
  <2>2. "DataTransferFromHostEnding" \in State
    BY DEF State
  <2>3. /\ Sane(e) /\ Kept(t, e) /\ e.state = "DataTransferFromHostEnding"
        /\ Quiet(e) /\ has_status(e)
    BY <1>2, <2>2, SetState
  <2> HIDE DEF e
  <2>4. Inv(u) /\ Kept(e, u)
    BY <2>1, <2>3, FromHostEnding
  <2> QED
    BY <2>3, <2>4 DEF Kept
<1>3. CASE t.left_to_transfer # 0 /\ ~has_status(t)
  <2>1. u = d
    BY <1>3 DEF handle_data_transfer_from_host
  <2>2. Sane(d) /\ Framed(t, d)
    BY ReceiveDataKeeps
  <2> HIDE DEF d, u
  <2>3. Phase(d)
    BY <2>2 DEF Phase, Framed, Quiet
  <2> QED
    BY <2>1, <2>2, <2>3 DEF Inv, Framed, u
<1> QED
  BY <1>1, <1>2, <1>3

-----------------------------------------------------------------------------
(* Command phase *)

\* The data phase of a new command.
LEMMA StartDataTransfer ==
  ASSUME NEW t, Sane(t), Quiet(t), NEW cbw \in CbwType,
         cbw.data_transfer_len = 0 <=> cbw.direction = "NotExpected"
  PROVE  Inv(start_data_transfer(t, cbw))
<1> DEFINE len == cbw.data_transfer_len
           b == <<>>
           c == [t EXCEPT !.cbw = cbw, !.left_to_transfer = len, !.buf = b]
           W(s) == [c EXCEPT !.state = s]
<1>1. len \in Nat /\ cbw.direction \in {"NotExpected", "In", "Out"}
  BY DEF CbwType, U32, DataDirection
<1>2. ASSUME NEW s \in State
      PROVE  /\ Sane(W(s)) /\ Quiet(W(s)) /\ W(s).state = s
             /\ W(s).left_to_transfer = len
             /\ Len(W(s).buf) = 0
  <2>1. b \in Seq(Byte) /\ Len(b) = 0 /\ 0 <= BufLen
    BY BufLenAssumption
  <2> HIDE DEF len, b
  <2>2. Sane(c) /\ Quiet(c) /\ c.left_to_transfer = len /\ c.buf = b
    BY <1>1, <2>1, ZenonT(30) DEF Sane, TransportType, Quiet
  <2> HIDE DEF c
  <2> QED
    BY <2>1, <2>2, SetState
<1>3. CASE cbw.direction = "Out"
  <2>1. start_data_transfer(t, cbw) = handle_data_transfer_from_host(W("DataTransferFromHost"))
    BY <1>3 DEF start_data_transfer
  <2>2. "DataTransferFromHost" \in State
    BY DEF State
  <2> HIDE DEF W
  <2> QED
    BY <1>2, <2>1, <2>2, FromHost
<1>4. CASE cbw.direction = "In"
  <2>1. start_data_transfer(t, cbw) = handle_data_transfer_to_host(W("DataTransferToHost"))
    BY <1>4 DEF start_data_transfer
  <2>2. "DataTransferToHost" \in State
    BY DEF State
  <2> DEFINE w == W("DataTransferToHost")
  <2> HIDE DEF W, len
  <2>3. Sane(w) /\ Quiet(w) /\ w.state = "DataTransferToHost" /\ Len(w.buf) <= w.left_to_transfer
    BY <1>1, <1>2, <2>2
  <2> HIDE DEF w
  <2>4. Inv(handle_data_transfer_to_host(w))
    BY <2>3, ToHost
  <2> QED
    BY <2>1, <2>4 DEF w
<1>5. CASE cbw.direction = "NotExpected"
  <2>1. start_data_transfer(t, cbw) = handle_data_transfer_no_data(W("DataTransferNoData"))
    BY <1>5 DEF start_data_transfer
  <2>2. "DataTransferNoData" \in State
    BY DEF State
  <2> HIDE DEF W
  <2> QED
    BY <1>2, <1>5, <2>1, <2>2, NoData
<1> QED
  BY <1>1, <1>3, <1>4, <1>5

\* Reading a CBW, in one or more packets.
LEMMA ReadCbw ==
  ASSUME NEW t, Inv(t), t.state = "CommandTransfer"
  PROVE  Inv(handle_read_cbw(t))
<1> DEFINE u == read_packet(t)
           raw == Take(u.buf, CBW_LEN)
           rest == QRead(u.buf, CBW_LEN)
           parsed == [u EXCEPT !.buf = rest]
           i == [parsed EXCEPT !.state = "CommandTransferInvalid"]
<1>1. Sane(t) /\ Quiet(t) /\ ~has_status(t) /\ t.left_to_transfer = 0
  BY DEF Inv, Phase
<1>2. CASE ~ReadOk(t)
  <2>1. handle_read_cbw(t) = t
    BY <1>2 DEF handle_read_cbw, read_packet
  <2> QED
    BY <2>1
<1>3. CASE ReadOk(t)
  <2>1. Sane(u) /\ Framed(t, u) /\ u.left_to_transfer = 0
    BY <1>1, <1>3, ReadPacket, ZenonT(30)
  <2>2. Quiet(u) /\ ~has_status(u) /\ u.state = "CommandTransfer"
    BY <1>1, <2>1, SameCsw DEF Framed, Quiet
  <2>3. u.buf \in Seq(Byte) /\ Len(u.buf) \in Nat /\ Len(u.buf) <= BufLen
    BY <2>1, LenProperties DEF Sane, TransportType
  <2>4. CASE Len(u.buf) < CBW_LEN
    <3>1. handle_read_cbw(t) = u
      BY <2>4 DEF handle_read_cbw
    <3> HIDE DEF u
    <3> QED
      BY <2>1, <2>2, <2>4, <3>1 DEF Inv, Phase
  <2>5. CASE ~(Len(u.buf) < CBW_LEN)
    <3> HIDE DEF u
    <3>1. CBW_LEN \in 0 .. Len(u.buf)
      BY <2>3, <2>5 DEF CBW_LEN
    <3>2. raw \in Seq(Byte) /\ Len(raw) = CBW_LEN
      BY <2>3, <3>1, TakeProperties
    <3>3. MinOf(CBW_LEN, Len(u.buf)) = CBW_LEN
      BY <3>1 DEF MinOf, CBW_LEN
    <3>4. rest \in Seq(Byte) /\ Len(rest) = Len(u.buf) - CBW_LEN
      BY <2>3, <3>1, <3>3, DropProperties DEF QRead
    <3>5. Len(rest) <= BufLen
      BY <2>3, <3>4, BufLenAssumption DEF CBW_LEN
    <3> HIDE DEF raw, rest
    <3>6. Sane(parsed) /\ Framed(u, parsed)
      BY <2>1, <3>4, <3>5, SetBuf
    <3>7. Quiet(parsed)
      BY <2>2, <3>6 DEF Framed, Quiet
    <3> HIDE DEF parsed
    <3>8. CASE ValidCbw(raw)
      <4>1. handle_read_cbw(t) = start_data_transfer(parsed, ParsedCbw(raw))
        BY <1>3, <2>5, <3>8 DEF handle_read_cbw, u, raw, rest, parsed
      <4>2. /\ ParsedCbw(raw) \in CbwType
            /\ ParsedCbw(raw).data_transfer_len = 0 <=> ParsedCbw(raw).direction = "NotExpected"
        BY <3>2, <3>8, ParsedCbwType
      <4> QED
        BY <3>6, <3>7, <4>1, <4>2, StartDataTransfer
    <3>9. CASE ~ValidCbw(raw)
      <4>1. handle_read_cbw(t) = handle_cbw_invalid(i)
        BY <1>3, <2>5, <3>9 DEF handle_read_cbw, u, raw, rest, parsed
      <4>2. "CommandTransferInvalid" \in State
        BY DEF State
      <4>3. Sane(i) /\ i.state = "CommandTransferInvalid"
        BY <3>6, <4>2, SetState
      <4> HIDE DEF i
      <4>4. Inv(handle_cbw_invalid(i))
        BY <4>3, ZenonT(30) DEF handle_cbw_invalid, Inv, Sane, TransportType, Phase
      <4> QED
        BY <4>1, <4>4
    <3> QED
      BY <3>8, <3>9
  <2> QED
    BY <2>4, <2>5
<1> QED
  BY <1>2, <1>3

\* A reset, or the end of a status phase.
LEMMA EnterCommandTransfer ==
  ASSUME NEW t, Sane(t)
  PROVE  LET u == enter_state_command_transfer(t) IN
         Inv(u) /\ u.state = "CommandTransfer"
<1> DEFINE b == <<>>
           u == [t EXCEPT !.cs = NoStatus, !.left_to_transfer = 0, !.in_stalled = FALSE,
                          !.out_stalled = FALSE, !.buf = b, !.state = "CommandTransfer"]
<1>1. b \in Seq(Byte) /\ Len(b) = 0 /\ 0 <= BufLen /\ 0 < CBW_LEN
  BY BufLenAssumption DEF CBW_LEN
<1>2. enter_state_command_transfer(t) = u
  BY DEF enter_state_command_transfer
<1>3. NoStatus \in StatusAndResidue /\ NoStatus.status = "None"
  BY DEF NoStatus, StatusAndResidue
<1>4. "CommandTransfer" \in State
  BY DEF State
<1> HIDE DEF b
<1>5. Sane(u) /\ u.state = "CommandTransfer"
  BY <1>1, <1>3, <1>4, ZenonT(30) DEF Sane, TransportType
<1>6. u.cs = NoStatus /\ u.left_to_transfer = 0 /\ u.buf = b /\ Quiet(u)
  BY DEF Sane, TransportType, Quiet
<1> HIDE DEF u
<1>7. Phase(u)
  BY <1>1, <1>3, <1>5, <1>6 DEF Phase, has_status
<1> QED
  BY <1>2, <1>5, <1>7 DEF Inv

\* Sending the CSW.
LEMMA StatusTransfer ==
  ASSUME NEW t, Inv(t), t.state = "StatusTransfer"
  PROVE  LET u == handle_status_transfer(t) IN
         Inv(u) /\ (t.buf # <<>> => Kept(t, u))
<1> DEFINE w == write_packet(t)
<1>1. /\ Sane(t) /\ Quiet(t) /\ has_status(t) /\ HoldsCsw(t)
      /\ t.left_to_transfer = 0
  BY DEF Inv, Phase
<1>2. CASE t.buf = <<>>
  BY <1>1, <1>2, EnterCommandTransfer, ReadCbw DEF handle_status_transfer
<1>3. CASE t.buf # <<>>
  <2>1. handle_status_transfer(t) = w
    BY <1>3 DEF handle_status_transfer
  <2>2. Sane(w) /\ Framed(t, w) /\ w.left_to_transfer = 0
    BY <1>1, WritePacket
  <2>3. HoldsCsw(w)
    BY <1>1, WriteCsw
  <2>4. has_status(w)
    BY <1>1, <2>2, SameCsw DEF Framed
  <2> HIDE DEF w
  <2>5. Phase(w)
    BY <1>1, <2>2, <2>3, <2>4, ZenonT(60) DEF Phase, Framed, Quiet
  <2> QED
    BY <2>1, <2>2, <2>5 DEF Inv, Framed
<1> QED
  BY <1>2, <1>3

-----------------------------------------------------------------------------
(* Methods *)

\* A poll keeps the invariant, and the status with its command until the whole
\* CSW has been given to the endpoint.
LEMMA PollKeeps ==
  ASSUME NEW t, Inv(t)
  PROVE  /\ Inv(poll(t))
         /\ \/ Kept(t, poll(t))
            \/ t.state = "CommandTransfer"
            \/ t.state = "StatusTransfer" /\ t.buf = <<>>
<1> DEFINE u == poll(t)
           Goal == /\ Inv(u)
                   /\ \/ Kept(t, u)
                      \/ t.state = "CommandTransfer"
                      \/ t.state = "StatusTransfer" /\ t.buf = <<>>
<1>1. t.state \in State /\ Sane(t) /\ Phase(t)
  BY DEF Inv, Sane, TransportType
<1> SUFFICES Goal
  OBVIOUS
<1>2. CASE t.state = "CommandTransfer"
  <2>1. u = handle_read_cbw(t) /\ ~has_status(t)
    BY <1>1, <1>2 DEF poll, Phase
  <2> QED
    BY <1>2, <2>1, ReadCbw
<1>3. CASE t.state = "CommandTransferInvalid"
  <2>1. u = handle_cbw_invalid(t)
    BY <1>3 DEF poll
  <2>2. Inv(handle_cbw_invalid(t)) /\ Kept(t, handle_cbw_invalid(t))
    BY <1>1, <1>3, ZenonT(30) DEF handle_cbw_invalid, Inv, Sane, TransportType, Phase, Kept
  <2> QED
    BY <2>1, <2>2
<1>4. CASE t.state = "DataTransferNoData"
  <2>1. u = handle_data_transfer_no_data(t)
    BY <1>4 DEF poll
  <2>2. Quiet(t) /\ t.left_to_transfer = 0
    BY <1>1, <1>4 DEF Phase
  <2> QED
    BY <1>1, <2>1, <2>2, NoData
<1>5. CASE t.state = "DataTransferToHost"
  <2>1. u = handle_data_transfer_to_host(t)
    BY <1>5 DEF poll
  <2>2. Quiet(t) /\ Len(t.buf) <= t.left_to_transfer
    BY <1>1, <1>5 DEF Phase
  <2> QED
    BY <1>1, <1>5, <2>1, <2>2, ToHost
<1>6. CASE t.state = "DataTransferToHostEnding"
  <2>1. u = handle_data_transfer_to_host_ending(t)
    BY <1>6 DEF poll
  <2>2. Quiet(t) /\ has_status(t) /\ Len(t.buf) <= t.left_to_transfer
    BY <1>1, <1>6 DEF Phase
  <2> QED
    BY <1>1, <1>6, <2>1, <2>2, ToHostEnding
<1>7. CASE t.state = "DataTransferFromHost"
  <2>1. u = handle_data_transfer_from_host(t)
    BY <1>7 DEF poll
  <2>2. Quiet(t)
    BY <1>1, <1>7 DEF Phase
  <2> QED
    BY <1>1, <1>7, <2>1, <2>2, FromHost
<1>8. CASE t.state = "DataTransferFromHostEnding"
  <2>1. u = handle_data_transfer_from_host_ending(t)
    BY <1>8 DEF poll
  <2>2. Quiet(t) /\ has_status(t)
    BY <1>1, <1>8 DEF Phase
  <2> QED
    BY <1>1, <1>8, <2>1, <2>2, FromHostEnding
<1>9. CASE t.state = "StatusTransfer"
  <2>1. u = handle_status_transfer(t)
    BY <1>9 DEF poll
  <2> QED
    BY <1>9, <2>1, StatusTransfer
<1>10. CASE t.state \in {"DataTransferFromHostStatusAwait", "DataTransferStatusAwait"}
  <2>1. u = handle_data_transfer_status_await(t)
    BY <1>10 DEF poll
  <2>2. Quiet(t) /\ t.left_to_transfer = 0
    BY <1>1, <1>10 DEF Phase
  <2> QED
    BY <1>1, <1>10, <2>1, <2>2, StatusAwait
<1> QED
  BY <1>1, <1>2, <1>3, <1>4, <1>5, <1>6, <1>7, <1>8, <1>9, <1>10, ZenonT(60) DEF State

\* set_status does not panic where poll_command lets the user call it.
LEMMA SetStatusKeeps ==
  ASSUME NEW t, Inv(t), has_command(t), ~has_status(t), NEW s \in CommandStatus, NEW n \in Nat
  PROVE  Inv(set_status(t, s, n))
<1> DEFINE r == saturating_sub(t.cbw.data_transfer_len, n)
           c == [status |-> s, data_residue |-> r]
           u == [t EXCEPT !.cs = c]
<1>1. /\ t.state \in State /\ Sane(t) /\ Phase(t)
      /\ t.cbw.data_transfer_len \in Nat
  BY DEF Inv, Sane, TransportType, CbwType
<1>2. t.state \in {"DataTransferToHost", "DataTransferFromHost", "DataTransferNoData",
                   "DataTransferStatusAwait", "DataTransferFromHostStatusAwait"}
  BY <1>1 DEF State, Phase, has_command
<1>3. set_status(t, s, n) = u
  BY <1>2 DEF set_status
<1>4. r \in Nat
  BY <1>1 DEF saturating_sub
<1> HIDE DEF r
<1>5. c \in StatusAndResidue
  BY <1>4 DEF StatusAndResidue
<1> HIDE DEF c
<1>6. /\ Sane(u) /\ u.state = t.state /\ u.buf = t.buf
      /\ u.left_to_transfer = t.left_to_transfer /\ (Quiet(t) => Quiet(u))
  BY <1>1, <1>5, ZenonT(30) DEF Sane, TransportType, Quiet
<1> HIDE DEF u
<1>7. Phase(u)
  BY <1>1, <1>2, <1>6 DEF Phase
<1> QED
  BY <1>3, <1>6, <1>7, ZenonT(60) DEF Inv

\* A new content of the buffer in a data phase.
LEMMA NewContent ==
  ASSUME NEW t, Inv(t), t.state \notin {"StatusTransfer", "CommandTransfer"},
         NEW b \in Seq(Byte), Len(b) <= BufLen,
         t.state \in {"DataTransferToHost", "DataTransferToHostEnding"} =>
           Len(b) <= t.left_to_transfer
  PROVE  LET u == [t EXCEPT !.buf = b] IN Inv(u) /\ Framed(t, u)
<1> DEFINE u == [t EXCEPT !.buf = b]
<1>1. Sane(t) /\ Phase(t)
  BY DEF Inv
<1>2. Sane(u) /\ Framed(t, u) /\ u.buf = b /\ u.left_to_transfer = t.left_to_transfer
  BY <1>1, SetBuf
<1> HIDE DEF u
<1>3. has_status(u) <=> has_status(t)
  BY <1>2, SameCsw DEF Framed
<1>4. Phase(u)
  BY <1>1, <1>2, <1>3 DEF Phase, Framed, Quiet
<1> QED
  BY <1>2, <1>4 DEF Inv, u

\* The user takes bytes out of the buffer.
LEMMA ReadDataKeeps ==
  ASSUME NEW t, Inv(t), NEW size \in Nat
  PROVE  Inv(read_data(t, size)) /\ Framed(t, read_data(t, size))
<1> DEFINE n == Len(t.buf)
           k == MinOf(size, n)
           b == Drop(t.buf, k)
<1>1. t.buf \in Seq(Byte) /\ n \in Nat /\ n <= BufLen
  BY LenProperties DEF Inv, Sane, TransportType
<1>2. CASE t.state \in {"DataTransferFromHost", "DataTransferFromHostStatusAwait"}
  <2>1. read_data(t, size) = [t EXCEPT !.buf = b]
    BY <1>2 DEF read_data, QRead
  <2>2. k \in 0 .. n
    BY <1>1 DEF MinOf
  <2> HIDE DEF k
  <2>3. b \in Seq(Byte) /\ Len(b) = n - k
    BY <1>1, <2>2, DropProperties, ZenonT(30)
  <2>4. Len(b) <= BufLen
    BY <1>1, <2>2, <2>3, BufLenAssumption
  <2> HIDE DEF b
  <2> QED
    BY <1>2, <2>1, <2>3, <2>4, NewContent
<1>3. CASE t.state \notin {"DataTransferFromHost", "DataTransferFromHostStatusAwait"}
  BY <1>3 DEF read_data, Framed, Kept
<1> QED
  BY <1>2, <1>3

\* The user puts bytes into the buffer: as many as fit, and no more than may
\* still be sent.
LEMMA WriteDataKeeps ==
  ASSUME NEW t, Inv(t), NEW src \in Seq(Byte)
  PROVE  Inv(write_data(t, src)) /\ Framed(t, write_data(t, src))
<1> DEFINE n == Len(t.buf)
           left == t.left_to_transfer
           a == allowed_to_append_to_data_transfer(t)
           m == Len(src)
           k == MinOf(m, a)
           s == Take(src, k)
           q == Queued(t.buf, s, BufLen)
           w == Take(s, q)
           b == t.buf \o w
<1>1. /\ t.buf \in Seq(Byte) /\ n \in Nat /\ n <= BufLen /\ left \in Nat
      /\ m \in Nat
  BY LenProperties DEF Inv, Sane, TransportType
<1>2. CASE t.state = "DataTransferToHost"
  <2>1. write_data(t, src) = [t EXCEPT !.buf = b]
    BY <1>2 DEF write_data, QWrite
  <2>2. n <= left
    BY <1>2 DEF Inv, Phase
  <2>3. a = left - n
    BY <1>1, <2>2 DEF allowed_to_append_to_data_transfer, saturating_sub
  <2>4. Room(t.buf, BufLen) = BufLen - n
    BY DEF Room
  <2> HIDE DEF left, n, a, m
  <2>5. k \in 0 .. m /\ k <= left - n
    BY <1>1, <2>2, <2>3 DEF MinOf
  <2> HIDE DEF k
  <2>6. s \in Seq(Byte) /\ Len(s) = k
    BY <2>5, TakeProperties DEF m
  <2> HIDE DEF s
  <2>7. q \in 0 .. Len(s) /\ q <= BufLen - n /\ q <= left - n
    BY <1>1, <2>4, <2>5, <2>6, BufLenAssumption DEF Queued, MinOf
  <2> HIDE DEF q
  <2>8. w \in Seq(Byte) /\ Len(w) = q
    BY <2>6, <2>7, TakeProperties
  <2> HIDE DEF w
  <2>9. b \in Seq(Byte) /\ Len(b) = n + q
    BY <1>1, <2>8, ConcatProperties, ZenonT(30) DEF n
  <2> HIDE DEF b
  <2>10. Len(b) <= BufLen /\ Len(b) <= left
    BY <1>1, <2>5, <2>6, <2>7, <2>9, BufLenAssumption
  <2> QED
    BY <1>2, <2>1, <2>9, <2>10, NewContent DEF left
<1>3. CASE t.state # "DataTransferToHost"
  BY <1>3 DEF write_data, Framed, Kept
<1> QED
  BY <1>2, <1>3

\* The user puts bytes into the buffer, all or none.
LEMMA WriteAllKeeps ==
  ASSUME NEW t, Inv(t), NEW src \in Seq(Byte)
  PROVE  Inv(try_write_data_all(t, src)) /\ Framed(t, try_write_data_all(t, src))
<1> DEFINE n == Len(t.buf)
           left == t.left_to_transfer
           b == t.buf \o src
<1>1. /\ t.buf \in Seq(Byte) /\ n \in Nat /\ n <= BufLen /\ left \in Nat
      /\ Len(src) \in Nat
  BY LenProperties DEF Inv, Sane, TransportType
<1>2. CASE AllWritten(t, src)
  <2>1. try_write_data_all(t, src) = [t EXCEPT !.buf = b]
    BY <1>2 DEF try_write_data_all
  <2>2. t.state = "DataTransferToHost" /\ n <= left
    BY <1>2 DEF AllWritten, Inv, Phase
  <2>3. Len(src) <= left - n
    BY <1>1, <1>2, <2>2 DEF AllWritten, allowed_to_append_to_data_transfer, saturating_sub
  <2>4. Len(src) <= BufLen - n
    BY <1>1, <1>2, BufLenAssumption DEF AllWritten, QOverflows, Room
  <2> HIDE DEF left
  <2>5. b \in Seq(Byte) /\ Len(b) = n + Len(src)
    BY <1>1, ConcatProperties
  <2> HIDE DEF b, n
  <2>6. Len(b) <= BufLen /\ Len(b) <= left
    BY <1>1, <2>3, <2>4, <2>5, BufLenAssumption
  <2> QED
    BY <2>1, <2>2, <2>5, <2>6, NewContent DEF left
<1>3. CASE ~AllWritten(t, src)
  BY <1>3 DEF try_write_data_all, Framed, Kept
<1> QED
  BY <1>2, <1>3

-----------------------------------------------------------------------------
(* Steps *)

\* A new transport satisfies the invariant.
LEMMA InitInv == Init => Inv(bbb)
<1> SUFFICES ASSUME Init
             PROVE  Inv(bbb)
  OBVIOUS
<1>1. DefaultCbw \in CbwType
  <2>1. 0 \in Byte /\ MAX_CB_LEN \in Nat
    BY DEF Byte, MAX_CB_LEN
  <2>2. Fill(0, MAX_CB_LEN) \in Seq(Byte)
    BY <2>1, FillProperties, Zenon
  <2> QED
    BY <2>2 DEF DefaultCbw, CbwType, DataDirection
<1>2. NoStatus \in StatusAndResidue /\ NoStatus.status = "None"
  BY DEF NoStatus, StatusAndResidue
<1>3. "CommandTransfer" \in State
  BY DEF State
<1>4. bbb \in TransportType
  BY <1>1, <1>2, <1>3 DEF Init, TransportType
<1>5. Len(bbb.buf) = 0 /\ Len(bbb.in_fifo) = 0 /\ Len(bbb.out_fifo) = 0
  BY DEF Init
<1>6. /\ bbb.panicked = FALSE /\ bbb.state = "CommandTransfer" /\ bbb.left_to_transfer = 0
      /\ bbb.cs = NoStatus /\ Quiet(bbb)
  BY DEF Init, Quiet
<1>7. Sane(bbb)
  BY <1>4, <1>5, <1>6, BufLenAssumption, EnvironmentAssumption DEF Sane
<1>8. Phase(bbb)
  BY <1>2, <1>5, <1>6 DEF Phase, has_status, CBW_LEN
<1> QED
  BY <1>7, <1>8 DEF Inv

\* A step that changes nothing but the endpoints, and halts none.
OnlyEndpoints(t, u) ==
  /\ u \in TransportType
  /\ Kept(t, u)
  /\ u.state = t.state
  /\ u.buf = t.buf
  /\ u.left_to_transfer = t.left_to_transfer
  /\ u.panicked = t.panicked
  /\ Len(u.in_fifo) <= InDepth
  /\ Len(u.out_fifo) <= OutDepth
  /\ Quiet(t) => Quiet(u)

\* Such a step keeps the invariant.
LEMMA Endpoints ==
  ASSUME NEW t, Inv(t), NEW u, OnlyEndpoints(t, u)
  PROVE  Inv(u)
<1>1. Sane(t) /\ Phase(t)
  BY DEF Inv
<1>2. Sane(u)
  BY <1>1 DEF OnlyEndpoints, Sane
<1>3. build_csw(u) = build_csw(t) /\ (has_status(u) <=> has_status(t))
  BY SameCsw DEF OnlyEndpoints
<1>4. Phase(u)
  BY <1>1, <1>3 DEF Phase, OnlyEndpoints, HoldsCsw
<1> QED
  BY <1>2, <1>4 DEF Inv

\* The host's steps are of that kind.
LEMMA HostSteps ==
  ASSUME Inv(bbb),
         \/ \E p \in OutPackets : HostSend(p)
         \/ HostReceive \/ HostClearInHalt \/ HostClearOutHalt
  PROVE  OnlyEndpoints(bbb, bbb')
<1>1. /\ bbb \in TransportType
      /\ Len(bbb.in_fifo) <= InDepth /\ Len(bbb.out_fifo) <= OutDepth
      /\ bbb.in_fifo \in Seq(Packet) /\ bbb.out_fifo \in Seq(Packet)
      /\ Len(bbb.in_fifo) \in Nat /\ Len(bbb.out_fifo) \in Nat
  BY LenProperties DEF Inv, Sane, TransportType
<1>2. ASSUME NEW p \in OutPackets, HostSend(p)
      PROVE  OnlyEndpoints(bbb, bbb')
  <2> DEFINE f == Append(bbb.out_fifo, p)
  <2>1. p \in Packet
    BY EnvironmentAssumption DEF Packet
  <2>2. f \in Seq(Packet) /\ Len(f) = Len(bbb.out_fifo) + 1
    BY <1>1, <2>1, AppendProperties
  <2>3. bbb' = [bbb EXCEPT !.out_fifo = f] /\ Len(bbb.out_fifo) < OutDepth
    BY <1>2 DEF HostSend
  <2> HIDE DEF f
  <2>4. Len(f) <= OutDepth
    BY <1>1, <2>2, <2>3, EnvironmentAssumption
  <2> QED
    BY <1>1, <2>2, <2>3, <2>4, ZenonT(30) DEF OnlyEndpoints, TransportType, Kept, Quiet
<1>3. ASSUME HostReceive
      PROVE  OnlyEndpoints(bbb, bbb')
  <2> DEFINE f == Tail(bbb.in_fifo)
  <2>1. bbb' = [bbb EXCEPT !.in_fifo = f] /\ bbb.in_fifo # <<>>
    BY <1>3 DEF HostReceive
  <2>2. f \in Seq(Packet) /\ Len(f) = Len(bbb.in_fifo) - 1
    BY <1>1, <2>1, HeadTailProperties
  <2> HIDE DEF f
  <2>3. Len(f) <= InDepth
    BY <1>1, <2>2, EnvironmentAssumption
  <2> QED
    BY <1>1, <2>1, <2>2, <2>3, ZenonT(30) DEF OnlyEndpoints, TransportType, Kept, Quiet
<1>4. ASSUME HostClearInHalt
      PROVE  OnlyEndpoints(bbb, bbb')
  BY <1>1, <1>4, ZenonT(30) DEF HostClearInHalt, OnlyEndpoints, TransportType, Kept, Quiet
<1>5. ASSUME HostClearOutHalt
      PROVE  OnlyEndpoints(bbb, bbb')
  BY <1>1, <1>5, ZenonT(30) DEF HostClearOutHalt, OnlyEndpoints, TransportType, Kept, Quiet
<1> QED
  BY <1>2, <1>3, <1>4, <1>5

\* A reset, of the class or of the bus.
LEMMA Resets ==
  ASSUME Inv(bbb), ControlInReset \/ BusReset
  PROVE  Inv(bbb')
<1>1. Sane(bbb)
  BY DEF Inv
<1>2. ASSUME ControlInReset
      PROVE  Inv(bbb')
  BY <1>1, <1>2, EnterCommandTransfer DEF ControlInReset
<1>3. ASSUME BusReset
      PROVE  Inv(bbb')
  <2> DEFINE f == <<>>
             t == [bbb EXCEPT !.in_fifo = f, !.out_fifo = f]
  <2>1. f \in Seq(Packet) /\ Len(f) = 0 /\ 0 <= InDepth /\ 0 <= OutDepth
    BY EnvironmentAssumption
  <2>2. bbb' = enter_state_command_transfer(t)
    BY <1>3 DEF BusReset, reset
  <2> HIDE DEF f
  <2>3. Sane(t)
    BY <1>1, <2>1, ZenonT(30) DEF Sane, TransportType
  <2> HIDE DEF t
  <2> QED
    BY <2>2, <2>3, EnterCommandTransfer
<1> QED
  BY <1>2, <1>3

\* Every step keeps the invariant.
LEMMA NextInv == Inv(bbb) /\ [Next]_vars => Inv(bbb')
<1> SUFFICES ASSUME Inv(bbb), [Next]_vars
             PROVE  Inv(bbb')
  OBVIOUS
<1>1. CASE Poll
  BY <1>1, PollKeeps DEF Poll
<1>2. ASSUME NEW s \in CommandStatus, NEW n \in Processed, SetStatus(s, n)
      PROVE  Inv(bbb')
  BY <1>2, SetStatusKeeps, EnvironmentAssumption DEF SetStatus
<1>3. ASSUME NEW n \in ReadSizes, UserRead(n)
      PROVE  Inv(bbb')
  BY <1>3, ReadDataKeeps, EnvironmentAssumption DEF UserRead
<1>4. ASSUME NEW src \in Chunks, UserWrite(src)
      PROVE  Inv(bbb')
  BY <1>4, WriteDataKeeps, EnvironmentAssumption DEF UserWrite
<1>5. ASSUME NEW src \in Chunks, UserWriteAll(src)
      PROVE  Inv(bbb')
  BY <1>5, WriteAllKeeps, EnvironmentAssumption DEF UserWriteAll
<1>6. CASE ControlInReset \/ BusReset
  BY <1>6, Resets
<1>7. CASE \/ \E p \in OutPackets : HostSend(p)
           \/ HostReceive \/ HostClearInHalt \/ HostClearOutHalt
  BY <1>7, HostSteps, Endpoints
<1>8. CASE UNCHANGED vars
  BY <1>8 DEF vars
<1> QED
  BY <1>1, <1>2, <1>3, <1>4, <1>5, <1>6, <1>7, <1>8 DEF Next

-----------------------------------------------------------------------------
(* Theorems *)

IInv == Inv(bbb)

\* The inductive invariant holds in every reachable state.
THEOREM Invariant == Spec => []IInv
<1>1. Init => IInv
  BY InitInv DEF IInv
<1>2. IInv /\ [Next]_vars => IInv'
  BY NextInv DEF IInv
<1> QED
  BY <1>1, <1>2, PTL DEF Spec

\* Every field of the transport keeps its type, and the buffer and the endpoints
\* are never overfilled.
THEOREM TypeCorrect == Spec => []TypeOK
<1>1. IInv => TypeOK
  BY DEF IInv, Inv, Sane, TypeOK
<1> QED
  BY <1>1, Invariant, PTL

\* No assertion of the transport fails, whatever host and user do.
THEOREM NeverPanics == Spec => []NoPanic
<1>1. IInv => NoPanic
  BY DEF IInv, Inv, Sane, NoPanic
<1> QED
  BY <1>1, Invariant, PTL

\* The device never has more data to send than the host still expects.
THEOREM DataFits == Spec => []NeverSendsTooMuch
<1>1. IInv => NeverSendsTooMuch
  BY DEF IInv, Inv, Phase, NeverSendsTooMuch
<1> QED
  BY <1>1, Invariant, PTL

\* No CSW before the end of the data phase.
THEOREM DataBeforeStatus == Spec => []StatusAfterData
<1>1. IInv => StatusAfterData
  BY DEF IInv, Inv, Phase, StatusAfterData
<1> QED
  BY <1>1, Invariant, PTL

\* In the status phase the buffer holds the end of the command's own CSW.
THEOREM CswIsIntact == Spec => []CswLeftToSend
<1>1. IInv => CswLeftToSend
  BY DEF IInv, Inv, Phase, HoldsCsw, CswLeftToSend
<1> QED
  BY <1>1, Invariant, PTL

\* A transport that waits for a CBW has nothing left of the previous command, and
\* its endpoints are halted only after an invalid CBW.
THEOREM CleanStart == Spec => [](FreshCommandTransfer /\ HaltedOnlyWhenInvalid)
<1>1. IInv => FreshCommandTransfer /\ HaltedOnlyWhenInvalid
  <2> SUFFICES ASSUME IInv
               PROVE  FreshCommandTransfer /\ HaltedOnlyWhenInvalid
    OBVIOUS
  <2>1. Phase(bbb) /\ bbb.in_stalled \in BOOLEAN /\ bbb.out_stalled \in BOOLEAN
    BY DEF IInv, Inv, Sane, TransportType
  <2> QED
    BY <2>1 DEF Phase, Quiet, FreshCommandTransfer, HaltedOnlyWhenInvalid
<1> QED
  BY <1>1, Invariant, PTL

\* With a buffer that has room for a packet next to an almost complete CBW, more
\* than BulkOnly::new asks for, the next packet of a CBW can always be read.
THEOREM CommandsAreRead ==
  ASSUME BufLen >= CBW_LEN - 1 + PacketSize
  PROVE  Spec => []CommandTransferCanRead
<1>1. IInv => CommandTransferCanRead
  <2> SUFFICES ASSUME IInv, bbb.state = "CommandTransfer"
               PROVE  ~QOverflows(bbb.buf, PacketSize, BufLen)
    BY DEF CommandTransferCanRead
  <2>1. Len(bbb.buf) \in Nat /\ Len(bbb.buf) < CBW_LEN
    BY LenProperties DEF IInv, Inv, Sane, TransportType, Phase
  <2> QED
    BY <2>1, BufLenAssumption DEF QOverflows, Room, CBW_LEN
<1> QED
  BY <1>1, Invariant, PTL

\* A status is neither changed nor lost before its CSW is with the endpoint.
THEOREM StatusSurvives == Spec => StatusIsKept
<1> DEFINE A == has_status(bbb) /\ ~(ControlInReset \/ BusReset) =>
                  \/ bbb'.cs = bbb.cs /\ bbb'.cbw = bbb.cbw
                  \/ bbb.state = "StatusTransfer" /\ bbb.buf = <<>>
<1>1. IInv /\ [Next]_vars => [A]_vars
  <2> SUFFICES ASSUME Inv(bbb), Next, has_status(bbb), ~(ControlInReset \/ BusReset)
               PROVE  Kept(bbb, bbb') \/ (bbb.state = "StatusTransfer" /\ bbb.buf = <<>>)
    BY ZenonT(60) DEF IInv, Kept
  <2>1. CASE Poll
    BY <2>1, PollKeeps DEF Poll, Inv, Phase
  <2>2. ASSUME NEW s \in CommandStatus, NEW n \in Processed, SetStatus(s, n)
        PROVE  FALSE
    BY <2>2 DEF SetStatus
  <2>3. ASSUME NEW n \in ReadSizes, UserRead(n)
        PROVE  Kept(bbb, bbb')
    BY <2>3, ReadDataKeeps, EnvironmentAssumption DEF UserRead, Framed
  <2>4. ASSUME NEW src \in Chunks, UserWrite(src)
        PROVE  Kept(bbb, bbb')
    BY <2>4, WriteDataKeeps, EnvironmentAssumption DEF UserWrite, Framed
  <2>5. ASSUME NEW src \in Chunks, UserWriteAll(src)
        PROVE  Kept(bbb, bbb')
    BY <2>5, WriteAllKeeps, EnvironmentAssumption DEF UserWriteAll, Framed
  <2>6. CASE \/ \E p \in OutPackets : HostSend(p)
             \/ HostReceive \/ HostClearInHalt \/ HostClearOutHalt
    BY <2>6, HostSteps DEF OnlyEndpoints
  <2> QED
    BY <2>1, <2>2, <2>3, <2>4, <2>5, <2>6, ZenonT(60) DEF Next
<1> QED
  BY <1>1, Invariant, PTL DEF Spec, StatusIsKept

\* Only a reset makes the transport listen again after an invalid CBW, and every
\* poll until then halts both endpoints again.
THEOREM InvalidStays == Spec => InvalidIsTerminal
<1> DEFINE A == bbb.state = "CommandTransferInvalid" /\ ~(ControlInReset \/ BusReset) =>
                  /\ bbb'.state = "CommandTransferInvalid"
                  /\ Poll => bbb'.in_stalled /\ bbb'.out_stalled
<1>1. IInv /\ [Next]_vars => [A]_vars
  <2> SUFFICES ASSUME Inv(bbb), Next, bbb.state = "CommandTransferInvalid",
                      ~(ControlInReset \/ BusReset)
               PROVE  /\ bbb'.state = bbb.state
                      /\ Poll => bbb'.in_stalled /\ bbb'.out_stalled
    BY DEF IInv
  <2>1. ASSUME Poll
        PROVE  bbb'.state = bbb.state /\ bbb'.in_stalled /\ bbb'.out_stalled
    <3>1. bbb \in TransportType /\ bbb' = handle_cbw_invalid(bbb)
      BY <2>1 DEF Poll, poll, Inv, Sane
    <3> QED
      BY <3>1 DEF handle_cbw_invalid, TransportType
  <2>2. ASSUME NEW s \in CommandStatus, NEW n \in Processed, SetStatus(s, n)
        PROVE  FALSE
    BY <2>2 DEF SetStatus, has_command
  <2>3. ASSUME NEW n \in ReadSizes, UserRead(n)
        PROVE  bbb'.state = bbb.state
    BY <2>3, ReadDataKeeps, EnvironmentAssumption DEF UserRead, Framed
  <2>4. ASSUME NEW src \in Chunks, UserWrite(src)
        PROVE  bbb'.state = bbb.state
    BY <2>4, WriteDataKeeps, EnvironmentAssumption DEF UserWrite, Framed
  <2>5. ASSUME NEW src \in Chunks, UserWriteAll(src)
        PROVE  bbb'.state = bbb.state
    BY <2>5, WriteAllKeeps, EnvironmentAssumption DEF UserWriteAll, Framed
  <2>6. ASSUME \/ \E p \in OutPackets : HostSend(p)
               \/ HostReceive \/ HostClearInHalt \/ HostClearOutHalt
        PROVE  bbb'.state = bbb.state
    BY <2>6, HostSteps DEF OnlyEndpoints
  <2> QED
    BY <2>1, <2>2, <2>3, <2>4, <2>5, <2>6 DEF Next
<1> QED
  BY <1>1, Invariant, PTL DEF Spec, InvalidIsTerminal
=============================================================================
