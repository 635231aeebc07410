--------------------------- MODULE MCBulkOnlyLive ---------------------------
(***************************************************************************)
(* The transport with 12-byte packets: a CBW takes three packets and a CSW *)
(* two, the second of which the endpoint may refuse.                       *)
(***************************************************************************)
EXTENDS BulkOnly

Cbw(len, flags) == into_bytes(1, len, flags, 0, 6, Fill(0, 16))

\* The thirds of a CBW of each direction, and an empty packet.  The thirds are also
\* the data the host sends.
MCOutPackets ==
  {Take(Cbw(20, 0), 11), Take(Cbw(0, 0), 11),
   SubSeq(Cbw(20, 0), 12, 21), SubSeq(Cbw(20, 128), 12, 21), Drop(Cbw(20, 0), 21), <<>>}

MCChunks == {Fill(1, 20)}
MCReadSizes == {20}
MCProcessed == {20}
=============================================================================
