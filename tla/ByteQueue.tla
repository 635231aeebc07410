----------------------------- MODULE ByteQueue -----------------------------
(***************************************************************************)
(* The promise of buffer.rs, as operators on a plain sequence of bytes.    *)
(*                                                                         *)
(* A Buffer<T> of length cap behaves as a first-in first-out queue q of at *)
(* most cap bytes.  Where the bytes lie in the array (rpos, wpos, and the  *)
(* occasional shift) is invisible: module Buffer models the positions, and *)
(* BufferProof proves that Buffer implements BufferSpec, which is written  *)
(* with these operators.  The transport (module BulkOnly) is therefore     *)
(* written with them as well.                                              *)
(***************************************************************************)
EXTENDS Integers, Sequences

\* core::cmp::min
MinOf(a, b) == IF a <= b THEN a ELSE b

\* The first n bytes of s, and s without them.
Take(s, n) == SubSeq(s, 1, n)
Drop(s, n) == SubSeq(s, n + 1, Len(s))

\* Number of bytes that can still be queued once the queue has been shifted
\* to the front of the array.
Room(q, cap) == cap - Len(q)

\* Buffer::write: as many bytes of data as fit.
Queued(q, data, cap) == MinOf(Room(q, cap), Len(data))
QWrite(q, data, cap) == q \o Take(data, Queued(q, data, cap))

\* Buffer::write_all: all or nothing, decided on max_count before the data is
\* known (the bytes come from the closure, at most max_count of them).
QOverflows(q, max_count, cap) == Room(q, cap) < max_count

\* Buffer::read: the closure consumes count bytes of what is queued.
QRead(q, count) == Drop(q, MinOf(count, Len(q)))

\* Buffer::fill_up_to: append up to up_to copies of value.
Fill(value, n) == [i \in 1 .. n |-> value]
QFillUpTo(q, value, up_to, cap) == q \o Fill(value, MinOf(Room(q, cap), up_to))
=============================================================================
