------------------------------ MODULE MCBuffer ------------------------------
(* A 4-byte buffer with 3 byte values and slices of up to 5 bytes, one more *)
(* than the buffer holds.                                                  *)
EXTENDS Buffer

MCByte == 0 .. 2
MCCapacity == 4
MCChunks == {<<>>, <<1>>, <<2, 1>>, <<1, 2, 0>>, <<0, 1, 2, 0, 1>>}
MCCounts == 0 .. 5
=============================================================================
