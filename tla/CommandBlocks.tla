---------------------------- MODULE CommandBlocks ----------------------------
(***************************************************************************)
(* What the two command block parsers share: how they index a block, which *)
(* the source counts from 0, and how they read big-endian fields.  An      *)
(* index beyond the end of the slice panics.                               *)
(***************************************************************************)
EXTENDS CommandBlockWrapper

\* The widths of fields, besides Byte and U32.
U6 == 0 .. 63
U16 == {n \in Nat : n < 65536}
U64 == {n \in Nat : (n \div 16777216) \div 16777216 < 65536}

\* cb[i]
At(cb, i) == cb[i + 1]


\* u16, u32 and u64::from_be_bytes of the bytes from cb[i] on
u16_at(cb, i) == 256 * At(cb, i) + At(cb, i + 1)
u32_at(cb, i) ==
  16777216 * At(cb, i) + 65536 * At(cb, i + 1) + 256 * At(cb, i + 2) + At(cb, i + 3)
u64_at(cb, i) == 65536 * (65536 * u32_at(cb, i)) + u32_at(cb, i + 4)

\* (b & m) != 0, for a mask m of one bit
Bit(b, m) == (b \div m) % 2 = 1

Panic == [kind |-> "panic"]

\* An arm of a parser that indexes cb up to cb[last] to make command.
Arm(cb, last, command) == IF last < Len(cb) THEN command ELSE Panic

-----------------------------------------------------------------------------
(* The other side: how a host lays a command out, after the standards.  *)

\* The bytes of a number, B0 the lowest.
B0(n) == n % 256
B1(n) == (n \div 256) % 256
B2(n) == (n \div 65536) % 256
B3(n) == (n \div 16777216) % 256

\* A bit of weight m.
Flag(b, m) == IF b THEN m ELSE 0

\* The 16 bytes that hold the block in a CBW.  What follows the block there is no
\* part of it.
Padded(cb) == cb \o Fill(255, MAX_CB_LEN - Len(cb))
=============================================================================
