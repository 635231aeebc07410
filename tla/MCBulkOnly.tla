----------------------------- MODULE MCBulkOnly -----------------------------
(***************************************************************************)
(* The transport with 16-byte packets, so that a CBW takes two packets and *)
(* a CSW one, and with a buffer in which any 30 bytes leave room for one   *)
(* packet more.                                                            *)
(***************************************************************************)
EXTENDS BulkOnly

Cbw(len, flags, block_len) == into_bytes(1, len, flags, 0, block_len, Fill(0, 16))

\* Host packets: the first halves of a CBW of each direction, a second half, and an
\* empty packet.  They are also the data the host sends.  A host that sends halves
\* in any order makes every kind of broken and misframed CBW.
MCOutPackets ==
  {Take(Cbw(50, 128, 6), 16), Take(Cbw(20, 0, 6), 16), Take(Cbw(0, 0, 6), 16),
   Drop(Cbw(20, 0, 6), 16), <<>>}

\* The user's slices: less than a packet, and more than a command transfers.
MCChunks == {Fill(1, 7), Fill(1, 60)}
MCReadSizes == {5}
MCProcessed == {21}
=============================================================================
