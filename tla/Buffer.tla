------------------------------- MODULE Buffer -------------------------------
(***************************************************************************)
(* buffer.rs: the IO buffer of the Bulk Only Transport, with its positions.*)
(*                                                                         *)
(* inner[rpos .. wpos-1] holds the bytes that were written and not read.   *)
(* Nothing is moved on a read; a write that does not fit behind wpos first *)
(* shifts the unread bytes to the front of the array.  Operators named as  *)
(* in the source take and return the struct b = [inner, rpos, wpos].       *)
(***************************************************************************)
EXTENDS ByteQueue

CONSTANTS Byte, Capacity, Chunks, Counts

ASSUME BufferAssumption ==
  /\ Capacity \in Nat
  /\ Chunks \subseteq Seq(Byte)
  /\ Counts \subseteq Nat
  /\ Byte # {}

VARIABLES
  buf,  \* the struct Buffer
  ret   \* what the last call returned

vars == <<buf, ret>>

Index == 0 .. Capacity - 1

Overflow  == -1
CallerErr == -2

available_read(b)  == b.wpos - b.rpos
available_write(b) == Capacity - b.wpos

clear(b) == [inner |-> b.inner, rpos |-> 0, wpos |-> 0]

\* Broken on purpose: the positions move, the bytes do not.
shift_NoCopy(b) == [inner |-> b.inner, rpos |-> 0, wpos |-> available_read(b)]

\* copy_within(rpos..wpos, 0): what lies behind the moved bytes stays.
shift(b) ==
  IF b.rpos # b.wpos
  THEN [inner |-> [k \in Index |-> IF k < available_read(b)
                                   THEN b.inner[k + b.rpos] ELSE b.inner[k]],
        rpos |-> 0,
        wpos |-> available_read(b)]
  ELSE clear(b)

shift_if_short(b, n) == IF available_write(b) < n THEN shift(b) ELSE b

\* inner[wpos .. wpos+Len(data)-1] := data; wpos += Len(data)
Put(b, data) ==
  [inner |-> [k \in Index |-> IF k \in b.wpos .. b.wpos + Len(data) - 1
                              THEN data[k - b.wpos + 1] ELSE b.inner[k]],
   rpos |-> b.rpos,
   wpos |-> b.wpos + Len(data)]

-----------------------------------------------------------------------------

Init ==
  /\ buf \in [inner : [Index -> Byte], rpos : {0}, wpos : {0}]
  /\ ret = 0

write(data) ==
  LET b == shift_if_short(buf, Len(data))
      count == MinOf(available_write(b), Len(data))
  IN /\ buf' = Put(b, Take(data, count))
     /\ ret' = count

\* Broken on purpose: the closure's count is taken at its word.
write_all_Unclamped(max_count, data, count) ==
  LET b == shift_if_short(buf, max_count) IN
  /\ Len(data) <= max_count
  /\ available_write(b) >= max_count
  /\ buf' = [Put(b, data) EXCEPT !.wpos = b.wpos + count]
  /\ ret' = count

\* The closure puts data into the max_count bytes it is given and returns count,
\* which need be neither the length of data nor at most max_count.
write_all(max_count, data, count) ==
  LET b == shift_if_short(buf, max_count)
      advance_by == MinOf(count, available_write(b))
  IN /\ Len(data) <= max_count
     /\ \/ /\ available_write(b) < max_count
           /\ buf' = b
           /\ ret' = Overflow
        \/ /\ available_write(b) >= max_count
           /\ buf' = [Put(b, data) EXCEPT !.wpos = b.wpos + advance_by]
           /\ ret' = advance_by

\* The closure returns Err: the shift has happened, nothing else.
write_all_err(max_count) ==
  LET b == shift_if_short(buf, max_count) IN
  /\ buf' = b
  /\ ret' = IF available_write(b) < max_count THEN Overflow ELSE CallerErr

read(count) ==
  LET advance_by == MinOf(count, available_read(buf)) IN
  /\ buf' = [buf EXCEPT !.rpos = @ + advance_by]
  /\ ret' = advance_by

read_err ==
  /\ buf' = buf
  /\ ret' = CallerErr

fill_up_to(value, up_to) ==
  LET b == shift_if_short(buf, up_to) IN
  /\ buf' = Put(b, Fill(value, MinOf(available_write(b), up_to)))
  /\ ret' = 0

Clear ==
  /\ buf' = clear(buf)
  /\ ret' = 0

Next ==
  \/ \E data \in Chunks : write(data)
  \/ \E max_count, count \in Counts, data \in Chunks : write_all(max_count, data, count)
  \/ \E max_count \in Counts : write_all_err(max_count)
  \/ \E count \in Counts : read(count)
  \/ read_err
  \/ \E value \in Byte, up_to \in Counts : fill_up_to(value, up_to)
  \/ Clear

Spec == Init /\ [][Next]_vars

-----------------------------------------------------------------------------

\* The positions stay ordered and inside the array: the debug_assert!s of
\* write, write_all, read and fill_up_to, and the subtractions in
\* available_read and available_write, which would underflow otherwise.
TypeOK ==
  /\ buf \in [inner : [Index -> Byte], rpos : Nat, wpos : Nat]
  /\ buf.rpos <= buf.wpos
  /\ buf.wpos <= Capacity
  /\ ret \in Nat \cup {Overflow, CallerErr}

\* The unread bytes, oldest first.
Contents(b) == [i \in 1 .. available_read(b) |-> b.inner[b.rpos + i - 1]]

Abstract == INSTANCE BufferSpec WITH queue <- Contents(buf)

\* Buffer implements the bounded queue: no byte is lost, duplicated, reordered
\* or invented by a shift at any fill level, and each call returns what the
\* queue would return (whether a call overflows never depends on rpos).
ImplementsQueue == Abstract!SSpec
=============================================================================
