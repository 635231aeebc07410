----------------------------- MODULE BufferSpec -----------------------------
(***************************************************************************)
(* Abstract specification of the IO buffer: a bounded byte queue.          *)
(*                                                                         *)
(* queue is what a reader would get, ret the result of the last call: the  *)
(* number of bytes it reports, or the error it returns.                    *)
(***************************************************************************)
EXTENDS ByteQueue

CONSTANTS
  Byte,      \* the values a byte can take
  Capacity,  \* inner.len()
  Chunks,    \* the byte slices callers pass or closures produce
  Counts     \* the counts callers pass

VARIABLES queue, ret

specVars == <<queue, ret>>

\* Results that are not a count.
Overflow   == -1   \* write_all returned overflow_err
CallerErr  == -2   \* the closure returned Err

SInit ==
  /\ queue = <<>>
  /\ ret = 0

SWrite(data) ==
  /\ queue' = QWrite(queue, data, Capacity)
  /\ ret' = Queued(queue, data, Capacity)

\* The closure produces data, no longer than the max_count it was offered, and
\* claims to have produced count bytes.  A claim of up to max_count bytes is believed,
\* a larger one as far as there is room; claimed bytes that were not produced are
\* whatever the array held.
SWriteAll(max_count, data, count) ==
  /\ Len(data) <= max_count
  /\ \/ /\ QOverflows(queue, max_count, Capacity)
        /\ queue' = queue
        /\ ret' = Overflow
     \/ /\ ~QOverflows(queue, max_count, Capacity)
        /\ \E n \in MinOf(count, max_count) .. MinOf(count, Room(queue, Capacity)) :
             /\ ret' = n
             /\ \E s \in [1 .. n -> Byte] :
                  /\ \A i \in 1 .. MinOf(n, Len(data)) : s[i] = data[i]
                  /\ queue' = queue \o s

\* The closure fails: nothing is queued.
SWriteAllErr(max_count) ==
  /\ queue' = queue
  /\ ret' = IF QOverflows(queue, max_count, Capacity) THEN Overflow ELSE CallerErr

SRead(count) ==
  /\ queue' = QRead(queue, count)
  /\ ret' = MinOf(count, Len(queue))

SReadErr ==
  /\ queue' = queue
  /\ ret' = CallerErr

SFillUpTo(value, up_to) ==
  /\ queue' = QFillUpTo(queue, value, up_to, Capacity)
  /\ ret' = 0

SClear ==
  /\ queue' = <<>>
  /\ ret' = 0

SNext ==
  \/ \E data \in Chunks : SWrite(data)
  \/ \E max_count, count \in Counts, data \in Chunks : SWriteAll(max_count, data, count)
  \/ \E max_count \in Counts : SWriteAllErr(max_count)
  \/ \E count \in Counts : SRead(count)
  \/ SReadErr
  \/ \E value \in Byte, up_to \in Counts : SFillUpTo(value, up_to)
  \/ SClear

SSpec == SInit /\ [][SNext]_specVars
=============================================================================
