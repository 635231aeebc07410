-------------------------- MODULE ByteQueueLemmas --------------------------
(***************************************************************************)
(* What the operators of ByteQueue return: the facts the other proofs need *)
(* of sequences.                                                           *)
(***************************************************************************)
EXTENDS ByteQueue, SequenceTheorems, TLAPS

\* core::cmp::min, as the position arithmetic of buffer.rs uses it.
LEMMA MinOfProperties ==
  ASSUME NEW a \in Int, NEW b \in Int
  PROVE  /\ MinOf(a, b) \in Int
         /\ MinOf(a, b) <= a
         /\ MinOf(a, b) <= b
         /\ MinOf(a, b) = a \/ MinOf(a, b) = b
         /\ a \in Nat /\ b \in Nat => MinOf(a, b) \in Nat
BY DEF MinOf

\* A function on 1..n is a sequence of length n.
LEMMA FunctionIsSeq ==
  ASSUME NEW S, NEW n \in Nat, NEW f \in [1 .. n -> S]
  PROVE  f \in Seq(S) /\ Len(f) = n
<1>1. f \in Seq(S)
  BY SeqDef
<1> QED
  BY <1>1, LenProperties

\* The slice s[..n].
LEMMA TakeProperties ==
  ASSUME NEW S, NEW s \in Seq(S), NEW n \in 0 .. Len(s)
  PROVE  /\ Take(s, n) \in Seq(S)
         /\ Len(Take(s, n)) = n
         /\ \A i \in 1 .. n : Take(s, n)[i] = s[i]
<1>1. Len(s) \in Nat /\ \A i \in 1 .. n : s[i] \in S
  BY LenProperties, ElementOfSeq
<1> QED
  BY <1>1, SubSeqProperties DEF Take

\* The slice s[n..].
LEMMA DropProperties ==
  ASSUME NEW S, NEW s \in Seq(S), NEW n \in 0 .. Len(s)
  PROVE  /\ Drop(s, n) \in Seq(S)
         /\ Len(Drop(s, n)) = Len(s) - n
         /\ \A i \in 1 .. Len(s) - n : Drop(s, n)[i] = s[n + i]
<1>1. Len(s) \in Nat /\ \A i \in n + 1 .. Len(s) : s[i] \in S
  BY LenProperties, ElementOfSeq
<1> QED
  BY <1>1, SubSeqProperties DEF Drop

\* A run of n equal bytes.
LEMMA FillProperties ==
  ASSUME NEW S, NEW value \in S, NEW n \in Nat
  PROVE  /\ Fill(value, n) \in Seq(S)
         /\ Len(Fill(value, n)) = n
         /\ \A i \in 1 .. n : Fill(value, n)[i] = value
<1>1. Fill(value, n) \in [1 .. n -> S]
  BY DEF Fill
<1> QED
  BY <1>1, FunctionIsSeq DEF Fill

\* Two reads in a row are one longer read.
LEMMA DropDrop ==
  ASSUME NEW S, NEW s \in Seq(S), NEW m \in 0 .. Len(s), NEW n \in 0 .. Len(s) - m
  PROVE  Drop(Drop(s, m), n) = Drop(s, m + n)
<1> DEFINE u == Drop(s, m)
           l == Len(s)
<1>1. l \in Nat /\ m \in Nat /\ n \in Nat
  BY LenProperties
<1>2. /\ u \in Seq(S)
      /\ Len(u) = l - m
      /\ \A i \in 1 .. l - m : u[i] = s[m + i]
  BY DropProperties
<1>3. m + n \in 0 .. Len(s)
  BY <1>1
<1>4. /\ Drop(s, m + n) \in Seq(S)
      /\ Len(Drop(s, m + n)) = l - (m + n)
      /\ \A i \in 1 .. l - (m + n) : Drop(s, m + n)[i] = s[m + n + i]
  BY <1>3, DropProperties, ZenonT(30)
<1> HIDE DEF u, l
<1>5. n \in 0 .. Len(u)
  BY <1>1, <1>2 DEF l
<1>6. /\ Drop(u, n) \in Seq(S)
      /\ Len(Drop(u, n)) = Len(u) - n
      /\ \A i \in 1 .. Len(u) - n : Drop(u, n)[i] = u[n + i]
  BY <1>2, <1>5, DropProperties, ZenonT(60)
<1>7. Len(Drop(u, n)) = Len(Drop(s, m + n))
  BY <1>1, <1>2, <1>4, <1>6
<1>8. ASSUME NEW i \in 1 .. Len(Drop(u, n))
      PROVE  Drop(u, n)[i] = Drop(s, m + n)[i]
  <2>0. Len(u) = l - m /\ i \in 1 .. Len(u) - n
    BY <1>2, <1>6, ZenonT(30)
  <2>1. i \in 1 .. Len(u) - n /\ i \in 1 .. l - (m + n) /\ n + i \in 1 .. l - m
    BY <1>1, <2>0
  <2>2. m + (n + i) = m + n + i
    BY <2>1, <1>1
  <2> QED
    BY <2>1, <2>2, <1>2, <1>4, <1>6, ZenonT(30)
<1> QED
  BY <1>4, <1>6, <1>7, <1>8, SeqEqual, ZenonT(60) DEF u

\* Dropping nothing, and what is left to drop.
LEMMA DropNone ==
  ASSUME NEW S, NEW s \in Seq(S)
  PROVE  Drop(s, 0) = s
BY SubSeqFull DEF Drop

\* A concatenation is split where it was joined.
LEMMA SplitConcat ==
  ASSUME NEW S, NEW s \in Seq(S), NEW t \in Seq(S)
  PROVE  /\ Take(s \o t, Len(s)) = s
         /\ Drop(s \o t, Len(s)) = t
<1> DEFINE c == s \o t
           m == Len(s)
           n == Len(t)
<1>1. m \in Nat /\ n \in Nat
  BY LenProperties
<1>2. /\ c \in Seq(S)
      /\ Len(c) = m + n
      /\ \A i \in 1 .. m + n : c[i] = IF i <= m THEN s[i] ELSE t[i - m]
  BY ConcatProperties, Zenon
<1> HIDE DEF c
<1>3. m \in 0 .. Len(c)
  BY <1>1, <1>2
<1>4. Take(c, m) = s
  <2>1. /\ Take(c, m) \in Seq(S)
        /\ Len(Take(c, m)) = m
        /\ \A i \in 1 .. m : Take(c, m)[i] = c[i]
    BY <1>2, <1>3, TakeProperties, ZenonT(30)
  <2>2. ASSUME NEW i \in 1 .. m
        PROVE  Take(c, m)[i] = s[i]
    <3>1. i \in 1 .. m + n /\ i <= m
      BY <1>1
    <3> QED
      BY <2>1, <3>1, <1>2
  <2> QED
    BY <2>1, <2>2, SeqEqual
<1>5. Drop(c, m) = t
  <2>1. /\ Drop(c, m) \in Seq(S)
        /\ Len(Drop(c, m)) = n
        /\ \A i \in 1 .. n : Drop(c, m)[i] = c[m + i]
    <3>1. /\ Drop(c, m) \in Seq(S)
          /\ Len(Drop(c, m)) = Len(c) - m
          /\ \A i \in 1 .. Len(c) - m : Drop(c, m)[i] = c[m + i]
      BY <1>2, <1>3, DropProperties, ZenonT(60)
    <3>2. Len(c) - m = n
      BY <1>1, <1>2
    <3> QED
      BY <3>1, <3>2, ZenonT(30)
  <2>2. ASSUME NEW i \in 1 .. n
        PROVE  Drop(c, m)[i] = t[i]
    <3>1. m + i \in 1 .. m + n /\ ~(m + i <= m) /\ (m + i) - m = i
      BY <1>1
    <3> QED
      BY <2>1, <3>1, <1>2, ZenonT(30)
  <2> QED
    BY <2>1, <2>2, SeqEqual
<1> QED
  BY <1>4, <1>5 DEF c

\* The slice s[m..n] in terms of the other two.
LEMMA SliceIsTakeDrop ==
  ASSUME NEW S, NEW s \in Seq(S), NEW m \in 0 .. Len(s), NEW n \in m .. Len(s)
  PROVE  SubSeq(s, m + 1, n) = Take(Drop(s, m), n - m)
<1> DEFINE l == Len(s)
           d == Drop(s, m)
           k == n - m
           a == SubSeq(s, m + 1, n)
<1>1. l \in Nat /\ m \in Nat /\ n \in Nat /\ k \in Nat /\ m + 1 \in Int
  BY LenProperties
<1>2. /\ d \in Seq(S)
      /\ Len(d) = l - m
      /\ \A i \in 1 .. l - m : d[i] = s[m + i]
  BY DropProperties, ZenonT(30)
<1>3. \A i \in m + 1 .. n : s[i] \in S
  BY <1>1, ElementOfSeq
<1>4. /\ a \in Seq(S)
      /\ Len(a) = IF m + 1 <= n THEN n - (m + 1) + 1 ELSE 0
      /\ \A i \in 1 .. n - (m + 1) + 1 : a[i] = s[(m + 1) + i - 1]
  BY <1>1, <1>3, SubSeqProperties
<1> HIDE DEF d, a
<1>5. k \in 0 .. Len(d)
  BY <1>1, <1>2
<1>6. /\ Take(d, k) \in Seq(S)
      /\ Len(Take(d, k)) = k
      /\ \A i \in 1 .. k : Take(d, k)[i] = d[i]
  BY <1>2, <1>5, TakeProperties, ZenonT(60)
<1>7. Len(a) = k
  BY <1>1, <1>4
<1>8. ASSUME NEW i \in 1 .. k
      PROVE  a[i] = Take(d, k)[i]
  <2>1. i \in 1 .. n - (m + 1) + 1 /\ i \in 1 .. l - m /\ (m + 1) + i - 1 = m + i
    BY <1>1
  <2> QED
    BY <2>1, <1>2, <1>4, <1>6, ZenonT(30)
<1> QED
  BY <1>4, <1>6, <1>7, <1>8, SeqEqual, ZenonT(30) DEF a, d
=============================================================================
