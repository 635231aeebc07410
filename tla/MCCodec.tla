------------------------------ MODULE MCCodec ------------------------------
(* Values at the boundaries of each field.  2^31-1 is the largest integer  *)
(* TLC has; the proofs cover the rest.                                     *)
EXTENDS Codec

MCU32Values == {0, 256, 16909060, 2147483647}
MCByteValues == {0, 1, 16, 17, 128, 255}
MCBlocks == {Fill(0, 16), [i \in 1 .. 16 |-> i]}
=============================================================================
