----------------------------- MODULE MCSubclass -----------------------------
(***************************************************************************)
(* The device with 32-byte packets: a CBW is one packet, and one poll can  *)
(* finish a command, read the next CBW and its first data packet.          *)
(***************************************************************************)
EXTENDS Subclass

Cbw(tag, len, flags) == into_bytes(tag, len, flags, 0, 6, Fill(0, 16))

\* A CBW of each direction, which are also the data, a CBW with a command block that
\* is too long, and an empty packet.
MCOutPackets ==
  {Cbw(1, 40, 128), Cbw(2, 40, 0), Cbw(3, 0, 0), into_bytes(4, 0, 0, 0, 17, Fill(0, 16)), <<>>}

MCChunks == {Fill(1, 9), Fill(1, 40)}
MCReadSizes == {40}
MCProcessed == {0, 40}
=============================================================================
