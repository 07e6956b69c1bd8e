---------------------------- MODULE PortsProofs ----------------------------
(***************************************************************************)
(* What is proved about the ports of the broker: lemmas about the ring,    *)
(* then the receive side (RxPorts), then the transmit side (TxPorts).      *)
(***************************************************************************)
EXTENDS TxPorts, RxPorts, FiniteSetTheorems, TLAPS

(***************************************************************************)
(* Facts about the ring operators, for rings of any capacity, that the     *)
(* proofs of the modules that use a ring cite by name.                     *)
(***************************************************************************)

\* The fields of a ring.
LEMMA RingFields ==
  ASSUME NEW c \in Nat \ {0}, NEW S, NEW r \in RingOf(c, S)
  PROVE  /\ r = Ring(r.cap, r.buf, r.start, r.size, r.next)
         /\ r.cap = c
         /\ r.buf \in [0 .. c - 1 -> S]
         /\ r.start \in 0 .. c - 1
         /\ r.size \in 0 .. c
         /\ r.next \in Nat
         /\ r.size <= r.next
         /\ Earliest(r) \in Nat /\ Earliest(r) + r.size = r.next
  BY DEF RingOf, Earliest, Ring

\* A cell offset by d from the oldest sample is inside the storage (CellAt
\* wraps at most once).
LEMMA CellValue ==
  ASSUME NEW c \in Nat \ {0}, NEW S, NEW r \in RingOf(c, S), NEW d \in 0 .. c
  PROVE  /\ CellAt(r, d) \in 0 .. c - 1
         /\ CellAt(r, d) = IF r.start + d < c THEN r.start + d ELSE r.start + d - c
  <1>1. r.cap = c /\ r.start \in 0 .. c - 1
    BY RingFields
  <1>2. (r.start + d) % c = IF r.start + d < c THEN r.start + d ELSE r.start + d - c
    BY <1>1
  <1>3. QED
    BY <1>1, <1>2 DEF CellAt

\* discard_before keeps the tail cell, the storage and the place of every
\* sample that is not discarded.
LEMMA DiscardKeepsTail ==
  ASSUME NEW c \in Nat \ {0}, NEW S, NEW r \in RingOf(c, S),
         NEW k \in Nat, k <= r.size, NEW t, t = DiscardBefore(r, Earliest(r) + k)
  PROVE  /\ t \in RingOf(c, S)
         /\ t.next = r.next /\ t.size = r.size - k /\ t.buf = r.buf
         /\ TailCell(t) = TailCell(r)
         /\ \A d \in Nat : d + k <= r.size => CellAt(t, d) = CellAt(r, d + k)
  <1>1. /\ r.cap = c /\ r.start \in 0 .. c - 1 /\ r.size \in 0 .. c
        /\ r.next \in Nat /\ Earliest(r) + r.size = r.next /\ Earliest(r) \in Nat
        /\ r.buf \in [0 .. c - 1 -> S] /\ r.size <= r.next
        /\ r = Ring(r.cap, r.buf, r.start, r.size, r.next)
    BY RingFields
  <1> k \in 0 .. c
    BY <1>1
  <1>2. /\ CellAt(r, k) \in 0 .. c - 1
        /\ CellAt(r, k) = IF r.start + k < c THEN r.start + k ELSE r.start + k - c
    BY CellValue
  <1>3. t = Ring(c, r.buf, CellAt(r, k), r.size - k, r.next)
    <2>1. CASE k = 0
      <3>1. CellAt(r, k) = r.start
        BY <1>1, <1>2, <2>1
      <3>2. t = r
        BY <2>1, <1>1 DEF DiscardBefore
      <3>3. r.size - k = r.size
        BY <1>1, <2>1
      <3>4. QED
        BY <3>1, <3>2, <3>3, <1>1
    <2>2. CASE k # 0 /\ k = r.size
      <3>1. /\ ~(Earliest(r) + k <= Earliest(r) \/ r.size = 0)
            /\ Earliest(r) + k >= r.next
            /\ r.size - k = 0
        BY <2>2, <1>1
      <3>2. QED
        BY <3>1, <2>2, <1>1 DEF DiscardBefore, TailCell
    <2>3. CASE k # 0 /\ k # r.size
      <3>1. /\ ~(Earliest(r) + k <= Earliest(r) \/ r.size = 0)
            /\ ~(Earliest(r) + k >= r.next)
            /\ r.next - (Earliest(r) + k) = r.size - k
            /\ (Earliest(r) + k) - Earliest(r) = k
        BY <2>3, <1>1
      <3>2. QED
        BY <3>1, <1>1 DEF DiscardBefore, CellOf
    <2>4. QED
      BY <2>1, <2>2, <2>3
  <1>4. /\ t \in RingOf(c, S)
        /\ t.cap = c /\ t.next = r.next /\ t.size = r.size - k /\ t.buf = r.buf
        /\ t.start = CellAt(r, k)
    <2>1. r.size - k \in 0 .. c /\ r.size - k <= r.next
      BY <1>1
    <2>2. t \in RingOf(c, S)
      BY <2>1, <1>1, <1>2, <1>3 DEF RingOf, Ring
    <2>3. QED
      BY <2>2, <1>3 DEF Ring
  <1>5. ASSUME NEW d \in Nat, d + k <= r.size
        PROVE  CellAt(t, d) = CellAt(r, d + k)
    <2>1. d \in 0 .. c /\ d + k \in 0 .. c
      BY <1>1, <1>5
    <2>2. CellAt(t, d) = IF t.start + d < c THEN t.start + d ELSE t.start + d - c
      BY <2>1, <1>4, CellValue
    <2>3. CellAt(r, d + k) =
            IF r.start + (d + k) < c THEN r.start + (d + k) ELSE r.start + (d + k) - c
      BY <2>1, CellValue
    <2>4. CASE r.start + k < c
      <3>1. t.start = r.start + k /\ r.start \in Nat /\ t.start \in Nat /\ c \in Nat
        BY <2>4, <1>1, <1>2, <1>4
      <3>2. t.start + d = r.start + (d + k)
        BY <3>1
      <3>3. CASE r.start + (d + k) < c
        BY <3>1, <3>2, <3>3, <2>2, <2>3
      <3>4. CASE ~(r.start + (d + k) < c)
        BY <3>1, <3>2, <3>4, <2>2, <2>3
      <3>5. QED
        BY <3>3, <3>4
    <2>5. CASE ~(r.start + k < c)
      <3>1. t.start = r.start + k - c /\ d + k <= c
        BY <2>1, <2>5, <1>2, <1>4
      <3>2. /\ t.start + d = r.start + (d + k) - c
            /\ t.start + d < c
            /\ ~(r.start + (d + k) < c)
        <4>1. t.start \in Int /\ r.start \in Nat /\ r.start < c /\ c \in Nat /\ k \in Nat
          BY <3>1, <1>1
        <4>2. t.start + d = r.start + (d + k) - c
          BY <3>1, <4>1
        <4>3. ~(r.start + (d + k) < c)
          BY <2>5, <4>1
        <4>4. r.start + (d + k) - c < c
          BY <3>1, <4>1
        <4>5. QED
          BY <4>2, <4>3, <4>4
      <3>3. QED
        BY <3>2, <2>2, <2>3
    <2>6. QED
      BY <2>4, <2>5
  <1>6. TailCell(t) = TailCell(r)
    <2>1. t.size \in Nat /\ t.size + k = r.size
      BY <1>1, <1>4
    <2>2. QED
      BY <2>1, <1>5, <1>1 DEF TailCell
  <1>7. QED
    BY <1>4, <1>5, <1>6

\* Two samples of a ring, or a sample and a free place, have different cells.
LEMMA CellsDistinct ==
  ASSUME NEW c \in Nat \ {0}, NEW S, NEW r \in RingOf(c, S),
         NEW d \in 0 .. c - 1, NEW e \in 0 .. c - 1, d # e
  PROVE  CellAt(r, d) # CellAt(r, e)
  <1>1. r.start \in 0 .. c - 1 /\ d \in 0 .. c /\ e \in 0 .. c
    BY RingFields
  <1>2. CellAt(r, d) = IF r.start + d < c THEN r.start + d ELSE r.start + d - c
    BY <1>1, CellValue
  <1>3. CellAt(r, e) = IF r.start + e < c THEN r.start + e ELSE r.start + e - c
    BY <1>1, CellValue
  <1>4. QED
    BY <1>1, <1>2, <1>3

\* The distance of a cell from the tail, as push() computes it: the i-th free
\* place after the tail is i away, a stored sample is beyond all free places.
LEMMA DistanceFromTail ==
  ASSUME NEW c \in Nat \ {0}, NEW S, NEW r \in RingOf(c, S), NEW d \in 0 .. c - 1
  PROVE  (CellAt(r, d) - TailCell(r)) % c =
            IF d < r.size THEN d + c - r.size ELSE d - r.size
  <1>1. r.start \in 0 .. c - 1 /\ r.size \in 0 .. c /\ d \in 0 .. c
    BY RingFields
  <1> DEFINE x == CellAt(r, d)
             y == CellAt(r, r.size)
  <1>2. x \in 0 .. c - 1
        /\ x = IF r.start + d < c THEN r.start + d ELSE r.start + d - c
    BY <1>1, CellValue
  <1>3. y \in 0 .. c - 1
        /\ y = IF r.start + r.size < c THEN r.start + r.size ELSE r.start + r.size - c
    BY <1>1, CellValue
  <1> HIDE DEF x, y
  <1>4. (x - y) % c = IF x >= y THEN x - y ELSE x - y + c
    BY <1>2, <1>3
  <1>5. (IF x >= y THEN x - y ELSE x - y + c) =
           IF d < r.size THEN d + c - r.size ELSE d - r.size
    <2>1. CASE r.start + d < c /\ r.start + r.size < c
      BY <2>1, <1>1, <1>2, <1>3
    <2>2. CASE r.start + d < c /\ ~(r.start + r.size < c)
      BY <2>2, <1>1, <1>2, <1>3
    <2>3. CASE ~(r.start + d < c) /\ r.start + r.size < c
      BY <2>3, <1>1, <1>2, <1>3
    <2>4. CASE ~(r.start + d < c) /\ ~(r.start + r.size < c)
      BY <2>4, <1>1, <1>2, <1>3
    <2>5. QED
      BY <2>1, <2>2, <2>3, <2>4
  <1>6. QED
    BY <1>4, <1>5 DEF x, y, TailCell

\* An accepted push appends the samples and moves none of the stored ones.
LEMMA PushStores ==
  ASSUME NEW c \in Nat \ {0}, NEW S, NEW r \in RingOf(c, S), NEW s \in Seq(S),
         s # << >>, PushFits(r, Len(s)), NEW t, t = RingPush(r, s)
  PROVE  /\ t \in RingOf(c, S)
         /\ t.start = r.start /\ t.size = r.size + Len(s) /\ t.next = r.next + Len(s)
         /\ \A d \in Nat : CellAt(t, d) = CellAt(r, d)
         /\ \A d \in Nat : d < r.size => t.buf[CellAt(t, d)] = r.buf[CellAt(t, d)]
         /\ \A i \in 1 .. Len(s) : t.buf[CellAt(t, r.size + i - 1)] = s[i]
  <1>1. /\ r.cap = c /\ r.start \in 0 .. c - 1 /\ r.size \in 0 .. c /\ r.next \in Nat
        /\ r.size <= r.next /\ r.buf \in [0 .. c - 1 -> S]
    BY RingFields
  <1>2. Len(s) \in Nat \ {0} /\ r.size + Len(s) <= c
    BY <1>1 DEF PushFits
  <1> DEFINE dist(i) == (i - TailCell(r)) % c
             b == [i \in 0 .. c - 1 |->
                     IF dist(i) < Len(s) THEN s[dist(i) + 1] ELSE r.buf[i]]
  <1>3. t = Ring(c, b, r.start, r.size + Len(s), r.next + Len(s))
    BY <1>1 DEF RingPush
  <1>4. b \in [0 .. c - 1 -> S]
    <2>1. TailCell(r) \in 0 .. c - 1
      BY <1>1, CellValue DEF TailCell
    <2>2. SUFFICES ASSUME NEW i \in 0 .. c - 1
                   PROVE  (IF dist(i) < Len(s) THEN s[dist(i) + 1] ELSE r.buf[i]) \in S
      OBVIOUS
    <2>3. dist(i) \in Nat
      BY <2>1
    <2> HIDE DEF dist
    <2>4. QED
      BY <2>3, <1>1, <1>2
  <1>5. /\ t.cap = c /\ t.buf = b /\ t.start = r.start
        /\ t.size = r.size + Len(s) /\ t.next = r.next + Len(s)
    BY <1>3 DEF Ring
  <1> HIDE DEF b
  <1>6. t \in RingOf(c, S)
    BY <1>1, <1>2, <1>3, <1>4 DEF RingOf, Ring
  <1>7. \A d \in Nat : CellAt(t, d) = CellAt(r, d)
    BY <1>1, <1>5 DEF CellAt
  <1>8. ASSUME NEW d \in Nat, d < r.size
        PROVE  t.buf[CellAt(r, d)] = r.buf[CellAt(r, d)]
    <2>1. d \in 0 .. c - 1 /\ d \in 0 .. c
      BY <1>8, <1>1
    <2>2. CellAt(r, d) \in 0 .. c - 1
      BY <2>1, CellValue
    <2>3. dist(CellAt(r, d)) = d + c - r.size
      BY <2>1, <1>8, DistanceFromTail
    <2>4. ~(dist(CellAt(r, d)) < Len(s))
      BY <2>3, <1>1, <1>2, <1>8
    <2> HIDE DEF dist
    <2>5. QED
      BY <2>2, <2>4, <1>5 DEF b
  <1>9. ASSUME NEW i \in 1 .. Len(s)
        PROVE  t.buf[CellAt(r, r.size + i - 1)] = s[i]
    <2> DEFINE d == r.size + i - 1
    <2>1. d \in 0 .. c - 1 /\ d \in 0 .. c /\ ~(d < r.size) /\ d - r.size = i - 1
      BY <1>1, <1>2
    <2> HIDE DEF d
    <2>2. CellAt(r, d) \in 0 .. c - 1
      BY <2>1, CellValue
    <2>3. dist(CellAt(r, d)) = i - 1
      BY <2>1, DistanceFromTail
    <2>4. dist(CellAt(r, d)) < Len(s) /\ dist(CellAt(r, d)) + 1 = i
      BY <2>3, <1>2
    <2> HIDE DEF dist
    <2>5. t.buf[CellAt(r, d)] = s[i]
      BY <2>2, <2>4, <1>5 DEF b
    <2>6. QED
      BY <2>5 DEF d
  <1>10. \A i \in 1 .. Len(s) : r.size + i - 1 \in Nat
    BY <1>1, <1>2
  <1>11. QED
    BY <1>5, <1>6, <1>7, <1>8, <1>9, <1>10

\* The cells of a reserved span are the free places after the newest sample.
LEMMA ReservedCells ==
  ASSUME NEW c \in Nat \ {0}, NEW S, NEW r \in RingOf(c, S),
         NEW n \in Nat \ {0}, r.size + n <= c, TailCell(r) + n <= c
  PROVE  /\ TailCell(r) \in 0 .. c - 1
         /\ \A i \in 1 .. n : CellAt(r, r.size + i - 1) = TailCell(r) + i - 1
  <1>1. r.start \in 0 .. c - 1 /\ r.size \in 0 .. c
    BY RingFields
  <1>2. /\ TailCell(r) \in 0 .. c - 1
        /\ TailCell(r) =
             IF r.start + r.size < c THEN r.start + r.size ELSE r.start + r.size - c
    BY <1>1, CellValue DEF TailCell
  <1>3. ASSUME NEW i \in 1 .. n
        PROVE  CellAt(r, r.size + i - 1) = TailCell(r) + i - 1
    <2> DEFINE d == r.size + i - 1
    <2>1. d \in 0 .. c /\ r.start + d = r.start + r.size + (i - 1)
      BY <1>1
    <2> HIDE DEF d
    <2>2. CellAt(r, d) = IF r.start + d < c THEN r.start + d ELSE r.start + d - c
      BY <2>1, CellValue
    <2>3. CellAt(r, d) = TailCell(r) + i - 1
      BY <2>1, <2>2, <1>1, <1>2
    <2>4. QED
      BY <2>3 DEF d
  <1>4. QED
    BY <1>2, <1>3

\* The cells of a view of the oldest samples follow the start without a wrap.
LEMMA ViewedCells ==
  ASSUME NEW c \in Nat \ {0}, NEW S, NEW r \in RingOf(c, S),
         NEW n \in Nat, n <= r.size, r.start + n <= c
  PROVE  /\ CellOf(r, Earliest(r)) = r.start
         /\ \A i \in 1 .. n : CellAt(r, i - 1) = r.start + i - 1
  <1>1. r.start \in 0 .. c - 1 /\ r.size \in 0 .. c /\ Earliest(r) \in Nat
    BY RingFields
  <1>2. CellAt(r, 0) = r.start
    <2>1. 0 \in 0 .. c /\ r.start + 0 = r.start /\ r.start < c
      BY <1>1
    <2>2. QED
      BY <2>1, CellValue
  <1>3. Earliest(r) - Earliest(r) = 0
    BY <1>1
  <1>4. ASSUME NEW i \in 1 .. n
        PROVE  CellAt(r, i - 1) = r.start + i - 1
    <2> DEFINE d == i - 1
    <2>1. d \in 0 .. c /\ r.start + d < c /\ r.start + d = r.start + i - 1
      BY <1>1
    <2> HIDE DEF d
    <2>2. CellAt(r, d) = r.start + i - 1
      BY <2>1, CellValue
    <2>3. QED
      BY <2>2 DEF d
  <1>5. QED
    BY <1>2, <1>3, <1>4 DEF CellOf

\* The cells of stored samples follow each other as long as they do not wrap.
LEMMA SpanCells ==
  ASSUME NEW c \in Nat \ {0}, NEW S, NEW r \in RingOf(c, S),
         NEW d \in Nat, NEW n \in Nat, d + n <= c, CellAt(r, d) + n <= c
  PROVE  \A i \in 1 .. n : CellAt(r, d + i - 1) = CellAt(r, d) + i - 1
  <1>1. r.start \in 0 .. c - 1 /\ d \in 0 .. c
    BY RingFields
  <1>2. CellAt(r, d) = IF r.start + d < c THEN r.start + d ELSE r.start + d - c
    BY <1>1, CellValue
  <1>3. ASSUME NEW i \in 1 .. n
        PROVE  CellAt(r, d + i - 1) = CellAt(r, d) + i - 1
    <2> DEFINE e == d + i - 1
    <2>1. e \in 0 .. c /\ r.start + e = (r.start + d) + (i - 1)
      BY <1>1
    <2> HIDE DEF e
    <2>2. CellAt(r, e) = IF r.start + e < c THEN r.start + e ELSE r.start + e - c
      BY <2>1, CellValue
    <2>3. CellAt(r, e) = CellAt(r, d) + i - 1
      BY <2>1, <2>2, <1>1, <1>2
    <2>4. QED
      BY <2>3 DEF e
  <1>4. QED
    BY <1>3

\* Writing through a reserved span changes no stored sample and nothing else
\* but the cells of the span.
LEMMA TailWriteKeeps ==
  ASSUME NEW c \in Nat \ {0}, NEW S, NEW r \in RingOf(c, S), NEW s \in Seq(S),
         Len(s) # 0, r.size + Len(s) <= c, TailCell(r) + Len(s) <= c,
         NEW t, t = SpanWrite(r, TailCell(r), s)
  PROVE  /\ t \in RingOf(c, S)
         /\ t.start = r.start /\ t.size = r.size /\ t.next = r.next
         /\ TailCell(t) = TailCell(r)
         /\ \A d \in Nat : CellAt(t, d) = CellAt(r, d)
         /\ \A d \in Nat : d < r.size => t.buf[CellAt(t, d)] = r.buf[CellAt(t, d)]
         /\ \A i \in 1 .. Len(s) : t.buf[TailCell(r) + i - 1] = s[i]
  <1>1. /\ r.cap = c /\ r.start \in 0 .. c - 1 /\ r.size \in 0 .. c /\ r.next \in Nat
        /\ r.size <= r.next /\ r.buf \in [0 .. c - 1 -> S]
    BY RingFields
  <1>2. Len(s) \in Nat \ {0}
    OBVIOUS
  <1>3. /\ TailCell(r) \in 0 .. c - 1
        /\ \A i \in 1 .. Len(s) : CellAt(r, r.size + i - 1) = TailCell(r) + i - 1
    BY <1>2, ReservedCells
  <1> DEFINE a == TailCell(r)
             b == [i \in 0 .. c - 1 |->
                     IF i \in Span(a, Len(s)) THEN s[i - a + 1] ELSE r.buf[i]]
  <1>4. t = Ring(c, b, r.start, r.size, r.next)
    BY <1>1 DEF SpanWrite
  <1> a \in 0 .. c - 1
    BY <1>3
  <1> HIDE DEF a
  <1>5. b \in [0 .. c - 1 -> S]
    BY <1>1, <1>2 DEF Span
  <1>6. t.cap = c /\ t.buf = b /\ t.start = r.start /\ t.size = r.size /\ t.next = r.next
    BY <1>4 DEF Ring
  <1> HIDE DEF b
  <1>7. t \in RingOf(c, S)
    BY <1>1, <1>4, <1>5 DEF RingOf, Ring
  <1>8. /\ \A d \in Nat : CellAt(t, d) = CellAt(r, d)
        /\ TailCell(t) = TailCell(r)
    BY <1>1, <1>6 DEF CellAt, TailCell
  <1>9. ASSUME NEW d \in Nat, d < r.size
        PROVE  t.buf[CellAt(r, d)] = r.buf[CellAt(r, d)]
    <2>1. d \in 0 .. c - 1 /\ d \in 0 .. c
      BY <1>9, <1>1
    <2>2. CellAt(r, d) \in 0 .. c - 1
      BY <2>1, CellValue
    <2>3. ASSUME NEW i \in 1 .. Len(s) PROVE CellAt(r, d) # a + i - 1
      <3>1. r.size + i - 1 \in 0 .. c - 1 /\ d # r.size + i - 1
        BY <1>1, <1>2, <1>9
      <3>2. CellAt(r, d) # CellAt(r, r.size + i - 1)
        BY <3>1, <2>1, CellsDistinct
      <3>3. QED
        BY <3>2, <1>3 DEF a
    <2>4. CellAt(r, d) \notin Span(a, Len(s))
      <3>1. SUFFICES ASSUME CellAt(r, d) \in Span(a, Len(s)) PROVE FALSE
        OBVIOUS
      <3>2. CellAt(r, d) - a + 1 \in 1 .. Len(s)
        BY <3>1, <2>2, <1>2 DEF Span
      <3>3. CellAt(r, d) = a + (CellAt(r, d) - a + 1) - 1
        BY <2>2
      <3>4. QED
        BY <3>2, <3>3, <2>3
    <2>5. QED
      BY <2>2, <2>4, <1>6 DEF b
  <1>10. ASSUME NEW i \in 1 .. Len(s)
         PROVE  t.buf[a + i - 1] = s[i]
    <2>1. a + i - 1 \in 0 .. c - 1 /\ a + i - 1 \in Span(a, Len(s))
          /\ (a + i - 1) - a + 1 = i
      BY <1>2 DEF Span, a
    <2>2. QED
      BY <2>1, <1>6 DEF b
  <1>11. QED
    BY <1>6, <1>7, <1>8, <1>9, <1>10 DEF a

\* commit makes the cells after the newest sample visible and moves nothing.
LEMMA CommitKeeps ==
  ASSUME NEW c \in Nat \ {0}, NEW S, NEW r \in RingOf(c, S), NEW n \in Nat,
         r.size + n <= c, NEW t, t = RingCommit(r, n)
  PROVE  /\ t \in RingOf(c, S)
         /\ t.start = r.start /\ t.size = r.size + n /\ t.next = r.next + n
         /\ t.buf = r.buf
         /\ \A d \in Nat : CellAt(t, d) = CellAt(r, d)
  <1>1. /\ r.cap = c /\ r.start \in 0 .. c - 1 /\ r.size \in 0 .. c /\ r.next \in Nat
        /\ r.size <= r.next /\ r.buf \in [0 .. c - 1 -> S]
    BY RingFields
  <1>2. t = Ring(c, r.buf, r.start, r.size + n, r.next + n)
    BY <1>1 DEF RingCommit
  <1>3. /\ t.cap = c /\ t.start = r.start /\ t.size = r.size + n
        /\ t.next = r.next + n /\ t.buf = r.buf
    BY <1>2 DEF Ring
  <1>4. t \in RingOf(c, S)
    BY <1>1, <1>2 DEF RingOf, Ring
  <1>5. QED
    BY <1>1, <1>3, <1>4 DEF CellAt
-----------------------------------------------------------------------------
(***************************************************************************)
(* RxInv is an inductive invariant of RxSpec, for any number of ports, any *)
(* batch and any ring of two or more batches; the properties of the RX     *)
(* path follow from it.                                                    *)
(***************************************************************************)

\* The RX ring holds two batches or more.
LEMMA Sizes ==
  /\ Batch \in Nat \ {0}
  /\ RxCapacity \in Nat \ {0}
  /\ 2 * Batch <= RxCapacity
  <1>1. Batch \in Nat \ {0} /\ RxRingBatches \in Nat /\ RxRingBatches >= 2
    BY RuntimeAssumption
  <1>2. PICK k \in Nat : RxRingBatches = 2 + k
    <2>1. RxRingBatches - 2 \in Nat /\ RxRingBatches = 2 + (RxRingBatches - 2)
      BY <1>1
    <2>2. QED
      BY <2>1
  <1>3. k * Batch \in Nat
    BY <1>1
  <1>4. RxCapacity = 2 * Batch + k * Batch
    BY <1>1, <1>2 DEF RxCapacity
  <1>5. QED
    BY <1>1, <1>3, <1>4

\* What the type invariant says about one port.
LEMMA PortTypes ==
  ASSUME RxTypeOK, NEW p \in RxPort
  PROVE  /\ rxRing[p] \in RingOf(RxCapacity, Sample)
         /\ rxSlots[p] \in Seq(1 .. Batch)
         /\ rxCursor[p] \in Nat
         /\ row[p].room \in 0 .. Batch /\ row[p].n \in 0 .. Batch
         /\ row[p].inRing \in BOOLEAN /\ row[p].at \in Nat
         /\ row[p].data \in Seq(Sample)
         /\ rep[p].take \in 0 .. Batch /\ rep[p].inRing \in BOOLEAN
         /\ rep[p].at \in Nat /\ rep[p].data \in Seq(Sample)
         /\ rxRing[p].size \in 0 .. RxCapacity /\ rxRing[p].next \in Nat
         /\ rxRing[p].cap = RxCapacity /\ rxRing[p].start \in 0 .. RxCapacity - 1
         /\ Earliest(rxRing[p]) \in Nat
         /\ Earliest(rxRing[p]) + rxRing[p].size = rxRing[p].next
  <1>1. rxRing[p] \in RingOf(RxCapacity, Sample)
    BY DEF RxTypeOK
  <1>2. QED
    BY <1>1, Sizes, RingFields DEF RxTypeOK, RowStates, RepStates

\* A step leaves the invariant of the ports it does not touch alone.
LEMMA OtherPorts ==
  ASSUME NEW q \in RxPort, RxPortInv(q),
         rxRing'[q] = rxRing[q], rxSlots'[q] = rxSlots[q],
         rxCursor'[q] = rxCursor[q], row'[q] = row[q], rep'[q] = rep[q]
  PROVE  RxPortInv(q)'
  BY DEF RxPortInv, RunAheadAt, NoThrowAt, BoundsAt, RxStored, RxRowInv,
         RxRepInv, Viewing

\* Below the run-ahead mark.
LEMMA SizeBelowMark ==
  ASSUME RxTypeOK, NEW p \in RxPort, RunAheadAt(p)
  PROVE  rxRing[p].size <= Batch
  <1>1. /\ row[p].n \in 0 .. Batch /\ row[p].room \in 0 .. Batch
        /\ rxRing[p].size \in 0 .. RxCapacity
    BY PortTypes
  <1>2. (IF row[p].phase \in {"fill", "full"} THEN row[p].n ELSE row[p].room) \in Nat
    BY <1>1, Sizes
  <1>3. QED
    BY <1>1, <1>2, Sizes DEF RunAheadAt, RxHighWater

\* How the cuts of the ring change: nothing queued, a window published, the
\* oldest window released.
LEMMA CutsEmpty ==
  ASSUME NEW a \in Nat
  PROVE  Cuts(<< >>, a, a)
  <1> DEFINE b == [i \in 0 .. 0 |-> a]
  <1>1. b \in [0 .. Len(<< >>) -> a .. a]
    BY SMT
  <1>2. b[0] = a /\ b[Len(<< >>)] = a
    BY SMT
  <1>3. \A i \in 1 .. Len(<< >>) : b[i] = b[i - 1] + << >>[i]
    BY SMT
  <1>4. \A i, j \in 0 .. Len(<< >>) : i <= j => b[i] <= b[j]
    BY SMT
  <1>5. QED
    BY <1>1, <1>2, <1>3, <1>4 DEF Cuts

LEMMA CutsAppend ==
  ASSUME NEW s \in Seq(Nat), NEW a \in Nat, NEW e \in Nat, NEW n \in Nat,
         Cuts(s, a, e)
  PROVE  Cuts(Append(s, n), a, e + n)
  <1>1. PICK b \in [0 .. Len(s) -> a .. e] :
          /\ b[0] = a /\ b[Len(s)] = e
          /\ \A i \in 1 .. Len(s) : b[i] = b[i - 1] + s[i]
          /\ \A i, j \in 0 .. Len(s) : i <= j => b[i] <= b[j]
    BY DEF Cuts
  <1> DEFINE t == Append(s, n)
             g == [i \in 0 .. Len(s) + 1 |-> IF i <= Len(s) THEN b[i] ELSE e + n]
  <1>2. Len(s) \in Nat /\ Len(t) = Len(s) + 1
    OBVIOUS
  <1>3. \A i \in 1 .. Len(s) : t[i] = s[i]
    OBVIOUS
  <1>4. t[Len(s) + 1] = n
    OBVIOUS
  <1>5. a <= e
    BY <1>1, <1>2
  <1> HIDE DEF t
  <1>6. g \in [0 .. Len(t) -> a .. e + n]
    BY <1>1, <1>2, <1>5
  <1>7. g[0] = a /\ g[Len(t)] = e + n
    BY <1>1, <1>2
  <1>8. ASSUME NEW i \in 1 .. Len(t) PROVE g[i] = g[i - 1] + t[i]
    <2>1. CASE i <= Len(s)
      BY <2>1, <1>1, <1>2, <1>3
    <2>2. CASE i = Len(s) + 1
      BY <2>2, <1>1, <1>2, <1>4
    <2>3. QED
      BY <2>1, <2>2, <1>2
  <1>9. ASSUME NEW i \in 0 .. Len(t), NEW j \in 0 .. Len(t), i <= j
        PROVE  g[i] <= g[j]
    <2>1. CASE j <= Len(s)
      BY <2>1, <1>1, <1>2, <1>9
    <2>2. CASE j = Len(s) + 1
      <3>1. ~(j <= Len(s)) /\ j \in 0 .. Len(s) + 1
        BY <2>2, <1>2
      <3>2. g[j] = e + n
        BY <3>1
      <3> HIDE DEF g
      <3>3. g[i] \in a .. e + n
        BY <1>6
      <3>4. QED
        BY <3>2, <3>3
    <2>3. QED
      BY <2>1, <2>2, <1>2
  <1> HIDE DEF g
  <1>10. Cuts(t, a, e + n)
    BY <1>6, <1>7, <1>8, <1>9 DEF Cuts
  <1>11. QED
    BY <1>10 DEF t

LEMMA CutsTail ==
  ASSUME NEW s \in Seq(Nat), NEW a \in Nat, NEW e \in Nat, s # << >>,
         Cuts(s, a, e)
  PROVE  a + Head(s) <= e /\ Cuts(Tail(s), a + Head(s), e)
  <1>1. PICK b \in [0 .. Len(s) -> a .. e] :
          /\ b[0] = a /\ b[Len(s)] = e
          /\ \A i \in 1 .. Len(s) : b[i] = b[i - 1] + s[i]
          /\ \A i, j \in 0 .. Len(s) : i <= j => b[i] <= b[j]
    BY DEF Cuts
  <1> DEFINE t == Tail(s)
             g == [i \in 0 .. Len(s) - 1 |-> b[i + 1]]
  <1>2. Len(s) \in Nat \ {0} /\ Len(t) = Len(s) - 1 /\ Head(s) = s[1] /\ Head(s) \in Nat
    OBVIOUS
  <1>3. \A i \in 1 .. Len(t) : t[i] = s[i + 1]
    OBVIOUS
  <1> HIDE DEF t
  <1>4. b[1] = a + Head(s) /\ b[1] <= e
    <2>1. 1 \in 1 .. Len(s) /\ 1 - 1 = 0 /\ 1 \in 0 .. Len(s)
      BY <1>2
    <2>2. b[1] = b[0] + s[1]
      BY <2>1, <1>1
    <2>3. QED
      BY <2>1, <2>2, <1>1, <1>2
  <1>5. g[0] = a + Head(s) /\ g[Len(t)] = e
    BY <1>1, <1>2, <1>4
  <1>6. ASSUME NEW i \in 1 .. Len(t) PROVE g[i] = g[i - 1] + t[i]
    <2>1. i + 1 \in 1 .. Len(s) /\ (i + 1) - 1 = i /\ i \in 0 .. Len(s) - 1
          /\ i - 1 \in 0 .. Len(s) - 1 /\ (i - 1) + 1 = i
      BY <1>2
    <2>2. b[i + 1] = b[i] + s[i + 1]
      BY <2>1, <1>1
    <2>3. QED
      BY <2>1, <2>2, <1>3
  <1>7. ASSUME NEW i \in 0 .. Len(t)
        PROVE  b[i + 1] \in a .. e /\ b[1] <= b[i + 1]
    <2>1. i + 1 \in 0 .. Len(s) /\ 1 \in 0 .. Len(s) /\ 1 <= i + 1
      BY <1>2
    <2>2. QED
      BY <2>1, <1>1
  <1>8. ASSUME NEW i \in 0 .. Len(t) PROVE g[i] \in a + Head(s) .. e
    <2>1. g[i] = b[i + 1]
      BY <1>2
    <2>2. QED
      BY <2>1, <1>2, <1>4, <1>7
  <1>9. g \in [0 .. Len(t) -> a + Head(s) .. e]
    BY <1>2, <1>8
  <1>10. ASSUME NEW i \in 0 .. Len(t), NEW j \in 0 .. Len(t), i <= j
         PROVE  g[i] <= g[j]
    <2>1. /\ i + 1 \in 0 .. Len(s) /\ j + 1 \in 0 .. Len(s) /\ i + 1 <= j + 1
          /\ g[i] = b[i + 1] /\ g[j] = b[j + 1]
      BY <1>2, <1>10
    <2>2. QED
      BY <2>1, <1>1
  <1> HIDE DEF g
  <1>11. Cuts(t, a + Head(s), e)
    BY <1>5, <1>6, <1>9, <1>10 DEF Cuts
  <1>12. QED
    BY <1>4, <1>11 DEF t

\* Initially.
LEMMA InitInv == RxInit => RxInv
  <1> SUFFICES ASSUME RxInit PROVE RxInv
    OBVIOUS
  <1> USE Sizes
  <1>1. RingReset(RxCapacity, Torn) \in RingOf(RxCapacity, Sample)
    BY DEF RingReset, Ring, RingOf, Sample
  <1>2. RxTypeOK
    <2>1. << >> \in Seq(Sample) /\ << >> \in Seq(1 .. Batch)
      OBVIOUS
    <2>2. QED
      BY <1>1, <2>1 DEF RxTypeOK, RxInit, NoRow, NoReply, RowStates, RepStates
  <1>3. ASSUME NEW p \in RxPort PROVE RxPortInv(p)
    <2>1. /\ rxRing[p].size = 0 /\ rxRing[p].next = 0 /\ rxSlots[p] = << >>
          /\ rxCursor[p] = 0 /\ row[p].phase = "idle" /\ row[p].room = 0
          /\ rep[p].phase = "wait_req"
      BY DEF RxInit, NoRow, NoReply, RingReset, Ring
    <2>2. BoundsAt(p)
      BY <2>1, CutsEmpty DEF BoundsAt, Earliest
    <2>3. QED
      BY <2>1, <2>2 DEF RxPortInv, RunAheadAt, NoThrowAt, RxStored, RxRowInv,
        RxRepInv, Viewing, RxHighWater
  <1>4. QED
    BY <1>2, <1>3 DEF RxInv

\* (A) measures at most what is left below the run-ahead mark.
LEMMA MeasureRoomInv ==
  ASSUME RxInv, NEW p \in RxPort, MeasureRoom(p)
  PROVE  RxInv'
  <1>1. RxTypeOK /\ RxPortInv(p) /\ Batch \in Nat
    BY Sizes DEF RxInv
  <1>2. /\ rxRing[p].size \in 0 .. RxCapacity /\ rxRing[p].cap = RxCapacity
        /\ 2 * Batch <= RxCapacity /\ RxCapacity \in Nat
    BY <1>1, PortTypes, Sizes
  <1>3. Headroom(rxRing[p]) \in 0 .. Batch
        /\ rxRing[p].size + Headroom(rxRing[p]) <= RxHighWater
    BY <1>1, <1>2, SizeBelowMark DEF Headroom, RxHighWater, FreeCapacity, RxPortInv
  <1>4. RxTypeOK'
    <2>1. row' \in [RxPort -> RowStates]
      <3> DEFINE h == Headroom(rxRing[p])
                 w == [row[p] EXCEPT !.phase = "room", !.room = h]
      <3>1. row[p] \in RowStates /\ h \in 0 .. Batch
        BY <1>1, <1>3 DEF RxTypeOK
      <3> HIDE DEF h
      <3>2. w \in RowStates
        BY <3>1 DEF RowStates
      <3>3. row' = [row EXCEPT ![p] = w]
        BY <1>1 DEF RxTypeOK, MeasureRoom, h
      <3> HIDE DEF w
      <3>4. QED
        BY <3>2, <3>3, <1>1 DEF RxTypeOK
    <2>2. QED
      BY <1>1, <2>1 DEF RxTypeOK, MeasureRoom
  <1>5. RxPortInv(p)'
    BY <1>1, <1>3 DEF MeasureRoom, RxTypeOK, RxPortInv, RunAheadAt, NoThrowAt,
      BoundsAt, RxStored, RxRowInv, RxRepInv, Viewing
  <1>6. ASSUME NEW q \in RxPort, q # p PROVE RxPortInv(q)'
    BY <1>6, OtherPorts DEF MeasureRoom, RxInv, RxTypeOK
  <1>7. QED
    BY <1>4, <1>5, <1>6 DEF RxInv

\* (E) marks only free cells, and the row starts at the tail.
LEMMA ReserveInv ==
  ASSUME RxInv, NEW p \in RxPort, NEW n \in 1 .. row[p].room, Reserve(p, n),
         rxRing[p].next + n <= MaxRxSeq
  PROVE  RxInv'
  <1> DEFINE r == rxRing[p]
             t == rxRing'[p]
             direct == DirectRows /\ ReserveFits(r, n)
  <1>1. RxTypeOK /\ RxPortInv(p)
    BY DEF RxInv
  <1>2. /\ r \in RingOf(RxCapacity, Sample) /\ r.size \in 0 .. RxCapacity
        /\ r.cap = RxCapacity /\ r.next \in Nat /\ Batch \in Nat \ {0}
        /\ 2 * Batch <= RxCapacity /\ RxCapacity \in Nat \ {0}
        /\ row[p].room \in 0 .. Batch
    BY <1>1, PortTypes, Sizes
  <1>3. r.size + n <= Batch /\ r.size + n <= RxCapacity /\ n \in Nat \ {0}
    <2>1. row[p].phase = "room" /\ n <= row[p].room
      BY DEF Reserve
    <2>2. r.size + row[p].room <= Batch
      BY <2>1, <1>1 DEF RxPortInv, RunAheadAt, RxHighWater
    <2>3. QED
      BY <2>1, <2>2, <1>2
  <1>4. TailCell(r) \in 0 .. RxCapacity - 1
    BY <1>2, CellValue DEF TailCell
  <1>5. /\ t \in RingOf(RxCapacity, Sample)
        /\ t.start = r.start /\ t.size = r.size /\ t.next = r.next
        /\ TailCell(t) = TailCell(r)
        /\ \A d \in 0 .. r.size - 1 : t.buf[CellAt(t, d)] = r.buf[CellAt(r, d)]
    <2>1. CASE ~direct
      <3>1. t = r
        BY <2>1 DEF Reserve
      <3>2. QED
        BY <3>1, <1>2
    <2>2. CASE direct
      <3> DEFINE s == [i \in 1 .. n |-> Torn]
      <3>1. s \in Seq(Sample) /\ Len(s) = n
        BY DEF Sample
      <3>2. t = SpanWrite(r, TailCell(r), s)
        BY <2>2, <1>1 DEF Reserve, RxTypeOK
      <3>3. TailCell(r) + n <= RxCapacity
        BY <2>2, <1>2 DEF ReserveFits
      <3> HIDE DEF s
      <3>4. /\ t \in RingOf(RxCapacity, Sample)
            /\ t.start = r.start /\ t.size = r.size /\ t.next = r.next
            /\ TailCell(t) = TailCell(r)
            /\ \A d \in Nat : CellAt(t, d) = CellAt(r, d)
            /\ \A d \in Nat : d < r.size => t.buf[CellAt(t, d)] = r.buf[CellAt(t, d)]
        BY <3>1, <3>2, <3>3, <1>2, <1>3, TailWriteKeeps
      <3>5. \A d \in 0 .. r.size - 1 : d \in Nat /\ d < r.size
        BY <1>2
      <3>6. QED
        BY <3>4, <3>5
    <2>3. QED
      BY <2>1, <2>2
  <1>6. /\ row'[p].phase = "fill" /\ row'[p].n = n
        /\ row'[p].inRing = direct /\ row'[p].at = TailCell(r)
        /\ rep' = rep /\ rxSlots' = rxSlots /\ rxCursor' = rxCursor
    BY <1>1 DEF Reserve, RxTypeOK, RowStates
  <1>7. RxTypeOK'
    <2>1. row' \in [RxPort -> RowStates]
      <3>1. direct \in BOOLEAN
        BY RuntimeAssumption DEF ReserveFits
      <3>2. << >> \in Seq(Sample) /\ n \in 0 .. Batch /\ TailCell(r) \in Nat
        <4>1. row[p].room \in 0 .. Batch /\ Batch \in Nat
          BY <1>2
        <4>2. n \in 0 .. Batch
          BY <4>1
        <4>3. QED
          BY <4>2, <1>4
      <3> DEFINE w == [phase |-> "fill", room |-> row[p].room, n |-> n,
                       inRing |-> direct, at |-> TailCell(r),
                       data |-> << >>]
      <3>3. w \in RowStates
        BY <3>1, <3>2, <1>2 DEF RowStates
      <3>4. row' = [row EXCEPT ![p] = w]
        BY DEF Reserve
      <3> HIDE DEF w
      <3>5. QED
        BY <3>3, <3>4, <1>1 DEF RxTypeOK
    <2>2. rxRing' \in [RxPort -> RingOf(RxCapacity, Sample)]
      BY <1>1, <1>5 DEF RxTypeOK, Reserve
    <2>3. QED
      BY <1>1, <2>1, <2>2 DEF RxTypeOK, Reserve
  <1>8. RxPortInv(p)'
    <2>1. RunAheadAt(p)' /\ NoThrowAt(p)' /\ BoundsAt(p)'
      BY <1>1, <1>3, <1>5, <1>6 DEF RxPortInv, RunAheadAt, NoThrowAt, BoundsAt,
        Earliest, RxHighWater
    <2>2. RxStored(p)'
      BY <1>1, <1>5 DEF RxPortInv, RxStored, Earliest
    <2>3. RxRowInv(p)'
      <3>1. direct => TailCell(r) + n <= RxCapacity
        BY <1>2 DEF ReserveFits
      <3>2. n >= 1
        OBVIOUS
      <3> HIDE DEF direct
      <3>3. QED
        BY <3>1, <3>2, <1>5, <1>6 DEF RxRowInv
    <2>4. RxRepInv(p)'
      BY <1>1, <1>5, <1>6 DEF RxPortInv, RxRepInv, Viewing
    <2>5. QED
      BY <2>1, <2>2, <2>3, <2>4 DEF RxPortInv
  <1>9. ASSUME NEW q \in RxPort, q # p PROVE RxPortInv(q)'
    BY <1>9, OtherPorts DEF Reserve, RxInv, RxTypeOK
  <1>10. QED
    BY <1>7, <1>8, <1>9 DEF RxInv

\* (E) The filled row holds the next samples of the stream; the cells of the
\* published ones, and so of a window being sent, keep theirs.
LEMMA FillInv ==
  ASSUME RxInv, NEW p \in RxPort, Fill(p, RowValues(p))
  PROVE  RxInv'
  <1> DEFINE r == rxRing[p]
             t == rxRing'[p]
             n == row[p].n
             s == RowValues(p)
  <1>1. RxTypeOK /\ RxPortInv(p) /\ row[p].phase = "fill"
    BY DEF RxInv, Fill
  <1>2. /\ r \in RingOf(RxCapacity, Sample) /\ r.size \in 0 .. RxCapacity
        /\ r.cap = RxCapacity /\ r.next \in Nat /\ Batch \in Nat \ {0}
        /\ 2 * Batch <= RxCapacity /\ RxCapacity \in Nat \ {0}
        /\ n \in 0 .. Batch /\ row[p].at \in Nat /\ row[p].inRing \in BOOLEAN
    BY <1>1, PortTypes, Sizes
  <1>3. /\ n \in Nat \ {0} /\ r.next + n <= MaxRxSeq
        /\ row[p].inRing => row[p].at = TailCell(r) /\ TailCell(r) + n <= RxCapacity
    BY <1>1, <1>2 DEF RxPortInv, RxRowInv
  <1>4. r.size + n <= RxCapacity
    <2>1. r.size + n <= Batch
      BY <1>1 DEF RxPortInv, RunAheadAt, RxHighWater
    <2>2. r.size \in Nat /\ n \in Nat
      BY <1>2, <1>3
    <2> HIDE DEF r, n
    <2>3. QED
      BY <2>1, <2>2, Sizes
  <1>5. /\ s \in Seq(Sample) /\ Len(s) = n
        /\ \A i \in 1 .. n : s[i] = Row(p, r.next + i - 1)
    <2>1. \A i \in 1 .. n : r.next + i - 1 \in 0 .. MaxRxSeq
      BY <1>2, <1>3, RxAssumption
    <2>2. \A i \in 1 .. n : Row(p, r.next + i - 1) \in Sample
      BY <2>1 DEF Sample
    <2> DEFINE val(i) == Row(p, r.next + i - 1)
               f == [i \in 1 .. n |-> val(i)]
    <2>3. s = f
      BY DEF RowValues
    <2>4. n \in Nat /\ \A i \in 1 .. n : val(i) \in Sample
      BY <2>2, <1>3
    <2> HIDE DEF s, n, val
    <2>5. f \in Seq(Sample) /\ Len(f) = n /\ \A i \in 1 .. n : f[i] = val(i)
      BY <2>4
    <2>6. QED
      BY <2>3, <2>5 DEF val
  <1>6. /\ t \in RingOf(RxCapacity, Sample)
        /\ t.start = r.start /\ t.size = r.size /\ t.next = r.next
        /\ TailCell(t) = TailCell(r)
        /\ \A d \in 0 .. r.size - 1 : t.buf[CellAt(t, d)] = r.buf[CellAt(r, d)]
        /\ row[p].inRing => \A i \in 1 .. n : t.buf[row[p].at + i - 1] = s[i]
    <2> HIDE DEF s
    <2>1. CASE ~row[p].inRing
      <3>1. t = r
        BY <2>1 DEF Fill
      <3>2. QED
        BY <2>1, <3>1, <1>2
    <2>2. CASE row[p].inRing
      <3>1. t = SpanWrite(r, TailCell(r), s)
        BY <2>2, <1>1, <1>3 DEF Fill, RxTypeOK, s
      <3>2. /\ Len(s) # 0 /\ s \in Seq(Sample) /\ r.size + Len(s) <= RxCapacity
            /\ TailCell(r) + Len(s) <= RxCapacity
        BY <2>2, <1>3, <1>4, <1>5
      <3>5. /\ r \in RingOf(RxCapacity, Sample) /\ RxCapacity \in Nat \ {0}
        BY <1>2
      <3> HIDE DEF r, t, n
      <3>6. /\ t \in RingOf(RxCapacity, Sample)
            /\ t.start = r.start /\ t.size = r.size /\ t.next = r.next
            /\ TailCell(t) = TailCell(r)
            /\ \A d \in Nat : CellAt(t, d) = CellAt(r, d)
            /\ \A d \in Nat : d < r.size => t.buf[CellAt(t, d)] = r.buf[CellAt(t, d)]
            /\ \A i \in 1 .. Len(s) : t.buf[TailCell(r) + i - 1] = s[i]
        BY <3>1, <3>2, <3>5, TailWriteKeeps
      <3>3. \A d \in 0 .. r.size - 1 : d \in Nat /\ d < r.size
        BY <1>2
      <3>4. QED
        BY <2>2, <3>6, <3>3, <1>3, <1>5
    <2>3. QED
      BY <2>1, <2>2
  <1>7. /\ row'[p].phase = "full" /\ row'[p].n = n /\ row'[p].at = row[p].at
        /\ row'[p].inRing = row[p].inRing
        /\ ~row[p].inRing => row'[p].data = s
        /\ rep' = rep /\ rxSlots' = rxSlots /\ rxCursor' = rxCursor
    <2> HIDE DEF s
    <2>1. QED
      BY <1>1 DEF Fill, RxTypeOK, RowStates, s
  <1>8. RxTypeOK'
    <2>1. row' \in [RxPort -> RowStates]
      <3> DEFINE x == IF row[p].inRing THEN << >> ELSE s
      <3>1. x \in Seq(Sample)
        BY <1>5
      <3> DEFINE w == [row[p] EXCEPT !.phase = "full", !.data = x]
      <3>2. row' = [row EXCEPT ![p] = w]
        BY <1>1 DEF RxTypeOK, Fill
      <3>3. row[p] \in RowStates
        BY <1>1 DEF RxTypeOK
      <3> HIDE DEF x
      <3>4. w \in RowStates
        BY <3>1, <3>3 DEF RowStates
      <3> HIDE DEF w
      <3>5. QED
        BY <3>2, <3>4, <1>1 DEF RxTypeOK
    <2>2. rxRing' \in [RxPort -> RingOf(RxCapacity, Sample)]
      BY <1>1, <1>6 DEF RxTypeOK, Fill
    <2>3. QED
      BY <1>1, <2>1, <2>2 DEF RxTypeOK, Fill
  <1>9. RxPortInv(p)'
    <2> HIDE DEF s
    <2>1. RunAheadAt(p)' /\ NoThrowAt(p)' /\ BoundsAt(p)'
      BY <1>1, <1>6, <1>7 DEF RxPortInv, RunAheadAt, NoThrowAt, BoundsAt,
        Earliest, RxHighWater
    <2>2. RxStored(p)'
      BY <1>1, <1>6 DEF RxPortInv, RxStored, Earliest
    <2>3. RxRowInv(p)'
      <3>1. CASE row[p].inRing
        BY <3>1, <1>1, <1>3, <1>5, <1>6, <1>7 DEF RxRowInv, RxPortInv
      <3>2. CASE ~row[p].inRing
        <4>1. s = [i \in 1 .. n |-> Row(p, r.next + i - 1)]
          BY DEF s, RowValues
        <4>2. QED
          BY <3>2, <4>1, <1>1, <1>3, <1>6, <1>7 DEF RxRowInv, RxPortInv
      <3>3. QED
        BY <3>1, <3>2
    <2>4. RxRepInv(p)'
      BY <1>1, <1>6, <1>7 DEF RxPortInv, RxRepInv, Viewing
    <2>5. QED
      BY <2>1, <2>2, <2>3, <2>4 DEF RxPortInv
  <1>10. ASSUME NEW q \in RxPort, q # p PROVE RxPortInv(q)'
    BY <1>10, OtherPorts DEF Fill, RxInv, RxTypeOK
  <1>11. QED
    BY <1>8, <1>9, <1>10 DEF RxInv

\* (H) A reserved row is never rejected; published, its samples follow the
\* stored ones and its length cuts them off.
LEMMA PublishInv ==
  ASSUME RxInv, NEW p \in RxPort, Publish(p)
  PROVE  RxInv'
  <1> DEFINE r == rxRing[p]
             t == rxRing'[p]
             n == row[p].n
  <1>1. RxTypeOK /\ RxPortInv(p) /\ row[p].phase = "full"
    BY DEF RxInv, Publish
  <1>2. /\ r \in RingOf(RxCapacity, Sample) /\ r.size \in 0 .. RxCapacity
        /\ r.cap = RxCapacity /\ r.next \in Nat /\ Batch \in Nat \ {0}
        /\ 2 * Batch <= RxCapacity /\ RxCapacity \in Nat \ {0}
        /\ n \in 0 .. Batch /\ row[p].at \in Nat /\ row[p].inRing \in BOOLEAN
        /\ row[p].data \in Seq(Sample) /\ rxSlots[p] \in Seq(1 .. Batch)
        /\ Earliest(r) \in Nat /\ Earliest(r) + r.size = r.next
    BY <1>1, PortTypes, Sizes
  <1>3. /\ n \in Nat \ {0} /\ n \in 1 .. Batch /\ r.next + n <= MaxRxSeq
        /\ row[p].inRing => row[p].at = TailCell(r) /\ TailCell(r) + n <= RxCapacity
    BY <1>1, <1>2 DEF RxPortInv, RxRowInv
  <1>4. r.size + n <= Batch /\ r.size + n <= RxCapacity
    <2>1. r.size + n <= Batch
      BY <1>1 DEF RxPortInv, RunAheadAt, RxHighWater
    <2>2. r.size \in Nat /\ n \in Nat
      BY <1>2, <1>3
    <2> HIDE DEF r, n
    <2>3. QED
      BY <2>1, <2>2, Sizes
  <1>a. r.size \in Nat /\ r.next \in Nat /\ n \in Nat /\ Earliest(r) \in Nat
        /\ n # 0 /\ Earliest(r) + r.size = r.next
    BY <1>2, <1>3
  <1>5. PushFits(r, n)
    BY <1>2, <1>4 DEF PushFits
  <1>6. /\ t \in RingOf(RxCapacity, Sample)
        /\ t.start = r.start /\ t.size = r.size + n /\ t.next = r.next + n
        /\ \A d \in Nat : CellAt(t, d) = CellAt(r, d)
        /\ \A d \in Nat : d < r.size => t.buf[CellAt(r, d)] = r.buf[CellAt(r, d)]
        /\ \A i \in 1 .. n : t.buf[CellAt(r, r.size + i - 1)] = Row(p, r.next + i - 1)
    <2>1. CASE row[p].inRing
      <3>1. t = RingCommit(r, n)
        BY <2>1, <1>1 DEF Publish, RxTypeOK
      <3>2. /\ t \in RingOf(RxCapacity, Sample)
            /\ t.start = r.start /\ t.size = r.size + n /\ t.next = r.next + n
            /\ t.buf = r.buf
            /\ \A d \in Nat : CellAt(t, d) = CellAt(r, d)
        <4>1. /\ r \in RingOf(RxCapacity, Sample) /\ RxCapacity \in Nat \ {0}
              /\ n \in Nat
          BY <1>2, <1>3
        <4> HIDE DEF r, t, n
        <4>2. QED
          BY <4>1, <3>1, <1>4, CommitKeeps
      <3>3. \A i \in 1 .. n : CellAt(r, r.size + i - 1) = TailCell(r) + i - 1
        <4>1. /\ r \in RingOf(RxCapacity, Sample) /\ RxCapacity \in Nat \ {0}
              /\ TailCell(r) + n <= RxCapacity
          BY <2>1, <1>2, <1>3
        <4> HIDE DEF r, n
        <4>2. QED
          BY <4>1, <1>3, <1>4, ReservedCells
      <3>4. \A i \in 1 .. n : r.buf[TailCell(r) + i - 1] = Row(p, r.next + i - 1)
        BY <2>1, <1>1, <1>3 DEF RxPortInv, RxRowInv
      <3>5. QED
        BY <3>2, <3>3, <3>4
    <2>2. CASE ~row[p].inRing
      <3> DEFINE s == row[p].data
      <3>1. s = [i \in 1 .. n |-> Row(p, r.next + i - 1)]
        BY <2>2, <1>1 DEF RxPortInv, RxRowInv
      <3>2. Len(s) = n /\ s \in Seq(Sample) /\ s # << >>
            /\ \A i \in 1 .. n : s[i] = Row(p, r.next + i - 1)
        BY <3>1, <1>2, <1>3
      <3>3. t = RingPush(r, s)
        BY <2>2, <1>1 DEF Publish, RxTypeOK
      <3> HIDE DEF s
      <3>4. /\ t \in RingOf(RxCapacity, Sample)
            /\ t.start = r.start /\ t.size = r.size + n /\ t.next = r.next + n
            /\ \A d \in Nat : CellAt(t, d) = CellAt(r, d)
            /\ \A d \in Nat : d < r.size => t.buf[CellAt(t, d)] = r.buf[CellAt(t, d)]
            /\ \A i \in 1 .. n : t.buf[CellAt(t, r.size + i - 1)] = s[i]
        <4>1. /\ r \in RingOf(RxCapacity, Sample) /\ RxCapacity \in Nat \ {0}
          BY <1>2
        <4> HIDE DEF r, t, n
        <4>2. PushFits(r, Len(s))
          BY <3>2, <1>5
        <4>3. /\ t \in RingOf(RxCapacity, Sample)
              /\ t.start = r.start /\ t.size = r.size + Len(s)
              /\ t.next = r.next + Len(s)
              /\ \A d \in Nat : CellAt(t, d) = CellAt(r, d)
              /\ \A d \in Nat : d < r.size => t.buf[CellAt(t, d)] = r.buf[CellAt(t, d)]
              /\ \A i \in 1 .. Len(s) : t.buf[CellAt(t, r.size + i - 1)] = s[i]
          <5>1. s \in Seq(Sample) /\ s # << >>
            BY <3>2
          <5>2. QED
            BY <4>1, <4>2, <5>1, <3>3, PushStores
        <4>4. QED
          BY <4>3, <3>2
      <3>5. \A i \in 1 .. n : r.size + i - 1 \in Nat
        <4> HIDE DEF r, n
        <4>1. QED
          BY <1>a
      <3>6. QED
        BY <3>2, <3>4, <3>5
    <2>3. QED
      BY <2>1, <2>2
  <1>7. /\ row' = [row EXCEPT ![p] = NoRow]
        /\ rxSlots' = [rxSlots EXCEPT ![p] = Append(rxSlots[p], n)]
        /\ rep' = rep /\ rxCursor' = rxCursor
    BY <1>1, <1>5 DEF Publish, RxTypeOK
  <1>8. row'[p] = NoRow /\ rxSlots'[p] = Append(rxSlots[p], n)
    BY <1>1, <1>7 DEF RxTypeOK
  <1>9. RxTypeOK'
    <2>1. NoRow \in RowStates
      BY Sizes DEF NoRow, RowStates
    <2>2. Append(rxSlots[p], n) \in Seq(1 .. Batch)
      BY <1>2, <1>3
    <2>3. rxRing' \in [RxPort -> RingOf(RxCapacity, Sample)]
      BY <1>1, <1>6 DEF RxTypeOK, Publish
    <2>4. QED
      BY <1>1, <1>7, <2>1, <2>2, <2>3 DEF RxTypeOK, Publish
  <1>10. RxPortInv(p)'
    <2>1. RunAheadAt(p)' /\ NoThrowAt(p)'
      BY <1>1, <1>2, <1>4, <1>6, <1>7, <1>8
      DEF RxPortInv, RunAheadAt, NoThrowAt, RxHighWater, NoRow
    <2>2. Earliest(t) = Earliest(r)
      BY <1>2, <1>3, <1>6 DEF Earliest
    <2>3. BoundsAt(p)'
      <3>1. rxSlots[p] \in Seq(Nat)
        BY <1>2
      <3>2. Cuts(rxSlots[p], rxCursor[p], r.next) /\ rxCursor[p] = Earliest(r)
        BY <1>1 DEF RxPortInv, BoundsAt
      <3>3. Cuts(Append(rxSlots[p], n), rxCursor[p], r.next + n)
        BY <3>1, <3>2, <1>2, <1>3, CutsAppend
      <3>4. QED
        BY <3>2, <3>3, <2>2, <1>6, <1>7, <1>8 DEF BoundsAt
    <2>4. RxStored(p)'
      <3>1. SUFFICES ASSUME NEW d \in 0 .. t.size - 1
                     PROVE  t.buf[CellAt(t, d)] = Row(p, Earliest(t) + d)
        BY DEF RxStored
      <3>2. d \in Nat /\ d < r.size + n /\ t.buf[CellAt(t, d)] = t.buf[CellAt(r, d)]
        <4> HIDE DEF r, t, n
        <4>1. d \in Nat /\ d < r.size + n
          BY <1>a, <1>6
        <4>2. QED
          BY <4>1, <1>6
      <3>3. CASE d < r.size
        <4>1. d \in 0 .. r.size - 1
          BY <3>2, <3>3, <1>2
        <4>2. r.buf[CellAt(r, d)] = Row(p, Earliest(r) + d)
          BY <4>1, <1>1 DEF RxPortInv, RxStored
        <4>3. QED
          BY <4>2, <3>2, <3>3, <2>2, <1>6
      <3>4. CASE ~(d < r.size)
        <4> DEFINE i == d - r.size + 1
        <4>1. i \in 1 .. n /\ r.size + i - 1 = d /\ r.next + i - 1 = Earliest(r) + d
          <5> HIDE DEF r, t, n
          <5>1. QED
            BY <3>2, <3>4, <1>a
        <4> HIDE DEF i
        <4>2. t.buf[CellAt(r, r.size + i - 1)] = Row(p, r.next + i - 1)
          BY <4>1, <1>6
        <4>3. QED
          BY <4>1, <4>2, <3>2, <2>2
      <3>5. QED
        BY <3>3, <3>4
    <2>5. RxRowInv(p)'
      BY <1>8 DEF RxRowInv, NoRow
    <2>6. RxRepInv(p)'
      <3>1. rxSlots[p] # << >> =>
              rxSlots'[p] # << >> /\ Head(rxSlots'[p]) = Head(rxSlots[p])
        <4> DEFINE q == rxSlots[p]
        <4>1. q \in Seq(1 .. Batch) /\ n \in 1 .. Batch
          BY <1>2, <1>3
        <4> HIDE DEF q, n
        <4>2. q # << >> => Append(q, n) # << >> /\ Head(Append(q, n)) = Head(q)
          BY <4>1
        <4>3. QED
          BY <4>2, <1>8 DEF q
      <3>2. QED
        BY <3>1, <1>1, <1>6, <1>7 DEF RxPortInv, RxRepInv, Viewing
    <2>7. QED
      BY <2>1, <2>3, <2>4, <2>5, <2>6 DEF RxPortInv
  <1>11. ASSUME NEW q \in RxPort, q # p PROVE RxPortInv(q)'
    BY <1>11, OtherPorts DEF Publish, RxInv, RxTypeOK
  <1>12. QED
    BY <1>9, <1>10, <1>11 DEF RxInv

\* The oldest entry of a deque and the rest.
LEMMA HeadAndTail ==
  ASSUME NEW S, NEW s \in Seq(S), s # << >>
  PROVE  Head(s) \in S /\ Tail(s) \in Seq(S)
  OBVIOUS

\* Releasing the oldest window keeps the tail, the storage and the rest of the
\* stream where they are.
LEMMA ReleaseKeeps ==
  ASSUME RxInv, NEW p \in RxPort, rxSlots[p] # << >>,
         ReleaseWindow(p, Head(rxSlots[p]))
  PROVE  /\ rxRing' \in [RxPort -> RingOf(RxCapacity, Sample)]
         /\ rxSlots' \in [RxPort -> Seq(1 .. Batch)]
         /\ rxCursor' \in [RxPort -> Nat]
         /\ rxCursor'[p] = rxCursor[p] + Head(rxSlots[p])
         /\ rxRing'[p].next = rxRing[p].next /\ rxRing'[p].buf = rxRing[p].buf
         /\ rxRing'[p].size <= rxRing[p].size /\ rxRing'[p].size \in Nat
         /\ TailCell(rxRing'[p]) = TailCell(rxRing[p])
         /\ BoundsAt(p)' /\ RxStored(p)'
         /\ \A q \in RxPort : q # p => /\ rxRing'[q] = rxRing[q]
                                       /\ rxSlots'[q] = rxSlots[q]
                                       /\ rxCursor'[q] = rxCursor[q]
  <1> DEFINE r == rxRing[p]
             t == rxRing'[p]
             n == Head(rxSlots[p])
             e == Earliest(r)
  <1>1. RxTypeOK /\ BoundsAt(p) /\ RxStored(p)
    BY DEF RxInv, RxPortInv
  <1>2. /\ r \in RingOf(RxCapacity, Sample) /\ RxCapacity \in Nat \ {0}
        /\ rxSlots[p] \in Seq(1 .. Batch) /\ rxSlots[p] \in Seq(Nat)
        /\ r.size \in Nat /\ r.next \in Nat /\ e \in Nat /\ e + r.size = r.next
    BY <1>1, PortTypes, Sizes
  <1>3. rxCursor[p] = e /\ Cuts(rxSlots[p], e, r.next)
    BY <1>1 DEF BoundsAt
  <1>4. n \in 1 .. Batch /\ n \in Nat /\ Tail(rxSlots[p]) \in Seq(1 .. Batch)
    <2>1. n \in 1 .. Batch /\ Tail(rxSlots[p]) \in Seq(1 .. Batch)
      BY <1>2, HeadAndTail
    <2>2. QED
      BY <2>1
  <1>5. e + n <= r.next /\ Cuts(Tail(rxSlots[p]), e + n, r.next)
    BY <1>2, <1>3, CutsTail
  <1>6. n <= r.size
    <2> HIDE DEF n, r, e
    <2>1. QED
      BY <1>2, <1>4, <1>5
  <1>7. /\ rxCursor' = [rxCursor EXCEPT ![p] = e + n]
        /\ rxRing' = [rxRing EXCEPT ![p] = DiscardBefore(r, e + n)]
        /\ rxSlots' = [rxSlots EXCEPT ![p] = Tail(rxSlots[p])]
    BY <1>1, <1>3 DEF ReleaseWindow, RxTypeOK
  <1>8. /\ rxCursor'[p] = e + n /\ t = DiscardBefore(r, e + n)
        /\ rxSlots'[p] = Tail(rxSlots[p])
    BY <1>1, <1>7 DEF RxTypeOK
  <1>9. /\ t \in RingOf(RxCapacity, Sample)
        /\ t.next = r.next /\ t.size = r.size - n /\ t.buf = r.buf
        /\ TailCell(t) = TailCell(r)
        /\ \A d \in Nat : d + n <= r.size => CellAt(t, d) = CellAt(r, d + n)
    <2> HIDE DEF r, t, n
    <2>1. QED
      BY <1>2, <1>4, <1>6, <1>8, DiscardKeepsTail
  <1>10. Earliest(t) = e + n /\ t.size \in Nat /\ t.size <= r.size
    <2>1. Earliest(t) = r.next - (r.size - n)
      BY <1>9 DEF Earliest
    <2>2. t.size = r.size - n
      BY <1>9
    <2>3. r.size \in Nat /\ r.next \in Nat /\ e \in Nat /\ e + r.size = r.next
      BY <1>2
    <2> HIDE DEF r, t, n, e
    <2>4. QED
      BY <2>1, <2>2, <2>3, <1>4, <1>6
  <1>11. BoundsAt(p)'
    BY <1>5, <1>8, <1>9, <1>10 DEF BoundsAt
  <1>12. RxStored(p)'
    <2>1. SUFFICES ASSUME NEW d \in 0 .. t.size - 1
                   PROVE  t.buf[CellAt(t, d)] = Row(p, Earliest(t) + d)
      BY DEF RxStored
    <2>2. /\ d \in Nat /\ d + n <= r.size /\ d + n \in 0 .. r.size - 1
          /\ (e + n) + d = e + (d + n)
      <3>1. r.size \in Nat /\ e \in Nat /\ t.size = r.size - n
        BY <1>2, <1>9
      <3> HIDE DEF r, t, n, e
      <3>2. QED
        BY <3>1, <1>4, <1>6
    <2>3. r.buf[CellAt(r, d + n)] = Row(p, e + (d + n))
      BY <2>2, <1>1 DEF RxStored
    <2>4. QED
      <3> HIDE DEF r, t, n, e
      <3>1. QED
        BY <2>2, <2>3, <1>9, <1>10
  <1>13. /\ rxRing' \in [RxPort -> RingOf(RxCapacity, Sample)]
         /\ rxSlots' \in [RxPort -> Seq(1 .. Batch)]
         /\ rxCursor' \in [RxPort -> Nat]
    <2>1. DiscardBefore(r, e + n) \in RingOf(RxCapacity, Sample) /\ e + n \in Nat
      BY <1>2, <1>4, <1>8, <1>9
    <2> HIDE DEF r, n, e
    <2>2. QED
      BY <2>1, <1>1, <1>4, <1>7 DEF RxTypeOK
  <1>14. \A q \in RxPort : q # p => /\ rxRing'[q] = rxRing[q]
                                    /\ rxSlots'[q] = rxSlots[q]
                                    /\ rxCursor'[q] = rxCursor[q]
    <2> HIDE DEF r, n, e
    <2>1. QED
      BY <1>1, <1>7 DEF RxTypeOK
  <1>15. QED
    BY <1>3, <1>8, <1>9, <1>10, <1>11, <1>12, <1>13, <1>14

\* What the release of a window leaves of the port's invariant.
LEMMA ReleaseKeepsPort ==
  ASSUME RxInv, NEW p \in RxPort, rxSlots[p] # << >>,
         ReleaseWindow(p, Head(rxSlots[p])), row' = row
  PROVE  /\ RunAheadAt(p)' /\ row'[p].phase # "threw"
         /\ BoundsAt(p)' /\ RxStored(p)' /\ RxRowInv(p)'
  <1>1. RxTypeOK /\ RxPortInv(p)
    BY DEF RxInv
  <1>2. /\ rxRing[p].size \in 0 .. RxCapacity /\ row[p].n \in 0 .. Batch
        /\ row[p].room \in 0 .. Batch /\ Batch \in Nat \ {0}
    BY <1>1, PortTypes, Sizes
  <1>3. /\ rxRing'[p].next = rxRing[p].next /\ rxRing'[p].buf = rxRing[p].buf
        /\ rxRing'[p].size <= rxRing[p].size /\ rxRing'[p].size \in Nat
        /\ TailCell(rxRing'[p]) = TailCell(rxRing[p])
        /\ BoundsAt(p)' /\ RxStored(p)'
    BY ReleaseKeeps
  <1>4. RunAheadAt(p)'
    <2> DEFINE x == rxRing[p].size
               y == rxRing'[p].size
               m == IF row[p].phase \in {"fill", "full"} THEN row[p].n ELSE row[p].room
    <2>1. m \in Nat /\ x \in Nat /\ y \in Nat /\ y <= x
      BY <1>2, <1>3
    <2>2. x + m <= Batch
      BY <1>1 DEF RxPortInv, RunAheadAt, RxHighWater
    <2>3. y + m <= Batch
      <3> HIDE DEF x, y, m
      <3>1. QED
        BY <2>1, <2>2, <1>2
    <2>4. QED
      BY <2>3 DEF RunAheadAt, RxHighWater
  <1>5. RxRowInv(p)'
    BY <1>1, <1>3 DEF RxPortInv, RxRowInv
  <1>6. QED
    BY <1>1, <1>3, <1>4, <1>5 DEF RxPortInv, NoThrowAt

\* A request leaves everything but the worker's state.
LEMMA RepRequestInv ==
  ASSUME RxInv, NEW p \in RxPort, RepRequest(p)
  PROVE  RxInv'
  <1>1. RxTypeOK /\ RxPortInv(p)
    BY DEF RxInv
  <1>2. RxTypeOK'
    <2>1. rep' \in [RxPort -> RepStates]
      BY <1>1 DEF RxTypeOK, RepRequest, RepStates
    <2>2. QED
      BY <1>1, <2>1 DEF RxTypeOK, RepRequest
  <1>3. RxPortInv(p)'
    BY <1>1 DEF RepRequest, RxTypeOK, RxPortInv, RunAheadAt, NoThrowAt,
      BoundsAt, RxStored, RxRowInv, RxRepInv, Viewing
  <1>4. ASSUME NEW q \in RxPort, q # p PROVE RxPortInv(q)'
    BY <1>4, OtherPorts DEF RepRequest, RxInv, RxTypeOK
  <1>5. QED
    BY <1>2, <1>3, <1>4 DEF RxInv

\* The oldest window is in the ring: the worker never throws, and what it
\* takes, in place or as a copy, is that window.
LEMMA RepTakeInv ==
  ASSUME RxInv, NEW p \in RxPort, RepTake(p)
  PROVE  RxInv'
  <1> DEFINE r == rxRing[p]
             n == Head(rxSlots[p])
             e == Earliest(r)
  <1>1. RxTypeOK /\ RxPortInv(p) /\ rxSlots[p] # << >>
    BY DEF RxInv, RepTake
  <1>2. /\ r \in RingOf(RxCapacity, Sample) /\ RxCapacity \in Nat \ {0}
        /\ rxSlots[p] \in Seq(1 .. Batch) /\ rxSlots[p] \in Seq(Nat)
        /\ r.size \in Nat /\ r.next \in Nat /\ e \in Nat /\ e + r.size = r.next
        /\ r.cap = RxCapacity /\ r.start \in 0 .. RxCapacity - 1
    BY <1>1, PortTypes, Sizes
  <1>3. rxCursor[p] = e /\ Cuts(rxSlots[p], e, r.next)
    BY <1>1 DEF RxPortInv, BoundsAt
  <1>4. n \in 1 .. Batch /\ n \in Nat /\ n >= 1
    <2>1. n \in 1 .. Batch
      BY <1>1, <1>2, HeadAndTail
    <2>2. QED
      BY <2>1
  <1>5. e + n <= r.next
    BY <1>1, <1>2, <1>3, CutsTail
  <1>6. n <= r.size /\ r.size <= RxCapacity
    <2>1. r.size \in 0 .. RxCapacity
      BY <1>1, PortTypes
    <2> HIDE DEF n, r, e
    <2>2. QED
      BY <2>1, <1>2, <1>4, <1>5
  <1>7. CASE FewerCopies /\ ViewFits(r, rxCursor[p], n)
    <2> DEFINE w == [phase |-> "send", take |-> n, inRing |-> TRUE,
                     at |-> CellOf(r, e), data |-> << >>]
    <2>1. CellOf(r, e) = r.start
      <3>1. 0 \in Nat /\ 0 <= r.size /\ r.start + 0 <= RxCapacity
        BY <1>2
      <3>2. QED
        BY <3>1, <1>2, ViewedCells
    <2>2. r.start + n <= RxCapacity
      BY <2>1, <1>2, <1>3, <1>7 DEF ViewFits
    <2>3. /\ rep' = [rep EXCEPT ![p] = w]
          /\ rxRing' = rxRing /\ rxSlots' = rxSlots /\ rxCursor' = rxCursor
          /\ row' = row /\ reply' = reply
      BY <1>3, <1>7 DEF RepTake
    <2>4. w \in RepStates
      BY <2>1, <1>2, <1>4 DEF RepStates
    <2>5. /\ rep'[p].phase = "send" /\ rep'[p].take = n /\ rep'[p].inRing
          /\ rep'[p].at = r.start
      BY <2>1, <2>3, <1>1 DEF RxTypeOK
    <2> HIDE DEF w
    <2>6. RxTypeOK'
      BY <2>3, <2>4, <1>1 DEF RxTypeOK
    <2>7. RxPortInv(p)'
      <3>1. RxRepInv(p)'
        BY <2>2, <2>3, <2>5, <1>1, <1>4 DEF RxRepInv, Viewing
      <3>2. QED
        BY <3>1, <2>3, <2>5, <1>1 DEF RxPortInv, RunAheadAt, NoThrowAt, BoundsAt,
          RxStored, RxRowInv
    <2>8. ASSUME NEW q \in RxPort, q # p PROVE RxPortInv(q)'
      BY <2>3, <2>8, OtherPorts DEF RxInv, RxTypeOK
    <2>9. QED
      BY <2>6, <2>7, <2>8 DEF RxInv
  <1>8. ReadFits(r, rxCursor[p], n)
    BY <1>2, <1>3, <1>5 DEF ReadFits, Holds
  <1>9. CASE ~(FewerCopies /\ ViewFits(r, rxCursor[p], n))
    <2> DEFINE s == RingRead(r, e, n)
               w == [phase |-> "send", take |-> n, inRing |-> FALSE,
                     at |-> 0, data |-> s]
    <2>1. ASSUME NEW i \in 1 .. n
          PROVE  r.buf[CellOf(r, e + i - 1)] = Row(p, e + i - 1)
                 /\ r.buf[CellOf(r, e + i - 1)] \in Sample
      <3>1. i - 1 \in 0 .. r.size - 1 /\ e + (i - 1) = e + i - 1
            /\ (e + i - 1) - e = i - 1 /\ i - 1 \in 0 .. RxCapacity
        <4> HIDE DEF r, n, e
        <4>1. QED
          BY <1>2, <1>4, <1>6
      <3>2. CellOf(r, e + i - 1) = CellAt(r, i - 1)
        BY <3>1 DEF CellOf
      <3>3. r.buf[CellAt(r, i - 1)] = Row(p, e + (i - 1))
        BY <3>1, <1>1 DEF RxPortInv, RxStored
      <3>4. r.buf[CellAt(r, i - 1)] \in Sample
        <4>1. CellAt(r, i - 1) \in 0 .. RxCapacity - 1
          BY <3>1, <1>2, CellValue
        <4>2. r.buf \in [0 .. RxCapacity - 1 -> Sample]
          BY <1>2, RingFields
        <4>3. QED
          BY <4>1, <4>2
      <3>5. QED
        BY <3>1, <3>2, <3>3, <3>4
    <2>2. s \in Seq(Sample) /\ s = [i \in 1 .. n |-> Row(p, e + i - 1)]
      BY <2>1, <1>4 DEF RingRead
    <2>3. /\ rep' = [rep EXCEPT ![p] = w] /\ ReleaseWindow(p, n)
          /\ row' = row /\ reply' = reply
      BY <1>3, <1>8, <1>9 DEF RepTake
    <2>4. w \in RepStates
      BY <2>2, <1>4 DEF RepStates
    <2>5. /\ rep'[p].phase = "send" /\ rep'[p].take = n /\ ~rep'[p].inRing
          /\ rep'[p].data = s
      BY <2>3, <1>1 DEF RxTypeOK
    <2> HIDE DEF w, s
    <2>6. RxTypeOK'
      BY <2>3, <2>4, <1>1, ReleaseKeeps DEF RxTypeOK
    <2>7. RxRepInv(p)'
      <3>1. rxCursor'[p] = e + n
        BY <2>3, <1>1, <1>3, ReleaseKeeps
      <3>2. (e + n) - n = e /\ n <= e + n
        BY <1>2, <1>4
      <3>3. s = [i \in 1 .. n |-> Row(p, rxCursor'[p] - n + i - 1)]
        BY <3>1, <3>2, <2>2
      <3>4. QED
        BY <3>1, <3>2, <3>3, <2>5, <1>4 DEF RxRepInv, Viewing
    <2>8. RxPortInv(p)'
      BY <2>3, <2>5, <2>7, <1>1, ReleaseKeepsPort DEF RxPortInv, NoThrowAt
    <2>9. ASSUME NEW q \in RxPort, q # p PROVE RxPortInv(q)'
      <3>1. /\ rxRing'[q] = rxRing[q] /\ rxSlots'[q] = rxSlots[q]
            /\ rxCursor'[q] = rxCursor[q]
        BY <2>3, <2>9, <1>1, ReleaseKeeps
      <3>2. QED
        BY <3>1, <2>3, <2>9, OtherPorts DEF RxInv, RxTypeOK
    <2>10. QED
      BY <2>6, <2>8, <2>9 DEF RxInv
  <1>10. QED
    BY <1>7, <1>9

\* The send itself changes only the wire and the worker's state.
LEMMA RepSendInv ==
  ASSUME RxInv, NEW p \in RxPort, RepSend(p)
  PROVE  RxInv'
  <1> DEFINE w == IF rep[p].inRing THEN [rep[p] EXCEPT !.phase = "release"]
                  ELSE NoReply
  <1>1. RxTypeOK /\ RxPortInv(p) /\ rep[p].phase = "send"
    BY DEF RxInv, RepSend
  <1>2. /\ rep' = [rep EXCEPT ![p] = w]
        /\ rxRing' = rxRing /\ rxSlots' = rxSlots /\ rxCursor' = rxCursor
        /\ row' = row /\ reply' = [reply EXCEPT ![p] = Outgoing(p)]
    BY <1>1 DEF RepSend, RxTypeOK
  <1>3. w \in RepStates
    <2>1. rep[p] \in RepStates
      BY <1>1 DEF RxTypeOK
    <2>2. [rep[p] EXCEPT !.phase = "release"] \in RepStates
      BY <2>1 DEF RepStates
    <2>3. NoReply \in RepStates
      BY Sizes DEF RepStates, NoReply
    <2>4. QED
      BY <2>2, <2>3
  <1>4. rep'[p] = w
    BY <1>1, <1>2 DEF RxTypeOK
  <1>5. /\ rep[p].inRing => /\ w.phase = "release" /\ w.inRing
                            /\ w.take = rep[p].take /\ w.at = rep[p].at
        /\ ~rep[p].inRing => w.phase = "wait_req"
    BY <1>1 DEF RxTypeOK, RepStates, NoReply
  <1>6. Outgoing(p) \in Seq(Sample)
    <2>1. CASE ~rep[p].inRing
      BY <2>1, <1>1, PortTypes DEF Outgoing
    <2>2. CASE rep[p].inRing
      <3>1. /\ rxRing[p].buf \in [0 .. RxCapacity - 1 -> Sample]
            /\ rxRing[p].start \in 0 .. RxCapacity - 1 /\ RxCapacity \in Nat
            /\ rep[p].take \in Nat /\ rep[p].at = rxRing[p].start
            /\ rep[p].at + rep[p].take <= RxCapacity
        <4>1. rxRing[p] \in RingOf(RxCapacity, Sample) /\ rep[p].take \in 0 .. Batch
          BY <1>1, PortTypes
        <4>2. rxRing[p].buf \in [0 .. RxCapacity - 1 -> Sample]
              /\ rxRing[p].start \in 0 .. RxCapacity - 1
          BY <4>1, Sizes, RingFields
        <4>3. QED
          BY <4>1, <4>2, <2>2, <1>1, Sizes DEF RxPortInv, RxRepInv, Viewing
      <3> DEFINE b == rxRing[p].buf
                 a == rep[p].at
                 m == rep[p].take
                 c == RxCapacity
      <3>2. Outgoing(p) = [i \in 1 .. m |-> b[a + i - 1]]
        BY <2>2 DEF Outgoing, SpanRead
      <3>3. b \in [0 .. c - 1 -> Sample] /\ a \in 0 .. c - 1 /\ m \in Nat /\ a + m <= c
            /\ c \in Nat
        BY <3>1
      <3> HIDE DEF a, b, m, c
      <3>4. \A i \in 1 .. m : a + i - 1 \in 0 .. c - 1
        BY <3>3
      <3>5. [i \in 1 .. m |-> b[a + i - 1]] \in Seq(Sample)
        BY <3>3, <3>4
      <3>6. QED
        BY <3>2, <3>5
    <2>3. QED
      BY <2>1, <2>2
  <1> HIDE DEF w
  <1>7. RxTypeOK'
    BY <1>1, <1>2, <1>3, <1>6 DEF RxTypeOK
  <1>8. RxPortInv(p)'
    <2>1. RxRepInv(p)'
      <3>1. CASE rep[p].inRing
        BY <3>1, <1>1, <1>2, <1>4, <1>5 DEF RxPortInv, RxRepInv, Viewing
      <3>2. CASE ~rep[p].inRing
        BY <3>2, <1>4, <1>5 DEF RxRepInv, Viewing
      <3>3. QED
        BY <3>1, <3>2
    <2>2. rep'[p].phase # "threw"
      BY <1>4, <1>5
    <2>3. QED
      BY <2>1, <2>2, <1>1, <1>2 DEF RxPortInv, RunAheadAt, NoThrowAt, BoundsAt,
        RxStored, RxRowInv
  <1>9. ASSUME NEW q \in RxPort, q # p PROVE RxPortInv(q)'
    BY <1>2, <1>9, OtherPorts DEF RxInv, RxTypeOK
  <1>10. QED
    BY <1>7, <1>8, <1>9 DEF RxInv

\* The window released after an in-place send is the oldest one.
LEMMA RepReleaseInv ==
  ASSUME RxInv, NEW p \in RxPort, RepRelease(p)
  PROVE  RxInv'
  <1>1. RxTypeOK /\ RxPortInv(p) /\ rep[p].phase = "release"
    BY DEF RxInv, RepRelease
  <1>2. rxSlots[p] # << >> /\ rep[p].take = Head(rxSlots[p])
    BY <1>1 DEF RxPortInv, RxRepInv, Viewing
  <1>3. /\ ReleaseWindow(p, Head(rxSlots[p])) /\ rep' = [rep EXCEPT ![p] = NoReply]
        /\ row' = row /\ reply' = reply
    BY <1>2 DEF RepRelease
  <1>4. NoReply \in RepStates
    BY Sizes DEF NoReply, RepStates
  <1>5. RxTypeOK'
    BY <1>1, <1>2, <1>3, <1>4, ReleaseKeeps DEF RxTypeOK
  <1>6. RxPortInv(p)'
    <2>1. rep'[p].phase = "wait_req"
      BY <1>1, <1>3 DEF RxTypeOK, NoReply
    <2>2. RxRepInv(p)'
      BY <2>1 DEF RxRepInv, Viewing
    <2>3. QED
      BY <2>1, <2>2, <1>2, <1>3, ReleaseKeepsPort DEF RxPortInv, NoThrowAt
  <1>7. ASSUME NEW q \in RxPort, q # p PROVE RxPortInv(q)'
    <2>1. /\ rxRing'[q] = rxRing[q] /\ rxSlots'[q] = rxSlots[q]
          /\ rxCursor'[q] = rxCursor[q]
      BY <1>2, <1>3, <1>7, ReleaseKeeps
    <2>2. QED
      BY <2>1, <1>3, <1>7, OtherPorts DEF RxInv, RxTypeOK
  <1>8. QED
    BY <1>5, <1>6, <1>7 DEF RxInv

-----------------------------------------------------------------------------
\* Every step of the RX path preserves the invariant.
LEMMA NextInv == RxInv /\ [RxNext]_rxVars => RxInv'
  <1> SUFFICES ASSUME RxInv, [RxNext]_rxVars PROVE RxInv'
    OBVIOUS
  <1>1. CASE UNCHANGED rxVars
    <2>1. RxTypeOK'
      BY <1>1 DEF rxVars, RxInv, RxTypeOK
    <2>2. ASSUME NEW q \in RxPort PROVE RxPortInv(q)'
      BY <1>1, OtherPorts DEF rxVars, RxInv
    <2>3. QED
      BY <2>1, <2>2 DEF RxInv
  <1>2. CASE RxNext
    <2>1. PICK p \in RxPort : RxProducer(p) \/ RxRepWorker(p)
      BY <1>2 DEF RxNext
    <2>2. CASE RxProducer(p)
      BY <2>2, MeasureRoomInv, ReserveInv, FillInv, PublishInv DEF RxProducer
    <2>3. CASE RxRepWorker(p)
      BY <2>3, RepRequestInv, RepTakeInv, RepSendInv, RepReleaseInv DEF RxRepWorker
    <2>4. QED
      BY <2>1, <2>2, <2>3
  <1>3. QED
    BY <1>1, <1>2

\* The window that a worker sends in place is stored from the ring's start on
\* without a wrap.
LEMMA ViewedWindow ==
  ASSUME RxInv, NEW p \in RxPort, Viewing(p)
  PROVE  /\ rep[p].take \in Nat /\ rep[p].take <= rxRing[p].size
         /\ \A i \in 1 .. rep[p].take : CellAt(rxRing[p], i - 1) = rep[p].at + i - 1
  <1> DEFINE r == rxRing[p]
             n == rep[p].take
  <1>1. RxTypeOK /\ RxPortInv(p)
    BY DEF RxInv
  <1>2. /\ r \in RingOf(RxCapacity, Sample) /\ RxCapacity \in Nat \ {0}
        /\ rxSlots[p] \in Seq(Nat) /\ r.size \in Nat /\ r.next \in Nat
        /\ Earliest(r) \in Nat /\ Earliest(r) + r.size = r.next
        /\ n \in 0 .. Batch
    BY <1>1, PortTypes, Sizes
  <1>3. /\ rxSlots[p] # << >> /\ n = Head(rxSlots[p])
        /\ rep[p].at = r.start /\ r.start + n <= RxCapacity
        /\ rxCursor[p] = Earliest(r) /\ Cuts(rxSlots[p], Earliest(r), r.next)
    BY <1>1 DEF RxPortInv, RxRepInv, BoundsAt
  <1>4. Earliest(r) + n <= r.next
    BY <1>2, <1>3, CutsTail
  <1>5. n \in Nat
    BY <1>2
  <1>6. n <= r.size
    <2>1. r.size \in Nat /\ Earliest(r) \in Nat /\ Earliest(r) + r.size = r.next
      BY <1>2
    <2> HIDE DEF r, n
    <2>2. QED
      BY <2>1, <1>4, <1>5
  <1>7. \A i \in 1 .. n : CellAt(r, i - 1) = r.start + i - 1
    <2>1. r \in RingOf(RxCapacity, Sample) /\ RxCapacity \in Nat \ {0}
          /\ r.start + n <= RxCapacity
      BY <1>2, <1>3
    <2> HIDE DEF r, n
    <2>2. QED
      BY <2>1, <1>5, <1>6, ViewedCells
  <1>8. QED
    BY <1>3, <1>5, <1>6, <1>7

\* The invariant makes every reply intact.
LEMMA InvReplyIntact == RxInv => RxReplyIntact
  <1> SUFFICES ASSUME RxInv, NEW p \in RxPort, rep[p].phase = "send"
               PROVE  Outgoing(p) =
                        [i \in 1 .. rep[p].take |-> Row(p, SendBase(p) + i - 1)]
    BY DEF RxReplyIntact
  <1>1. RxTypeOK /\ RxPortInv(p)
    BY DEF RxInv
  <1>2. CASE ~rep[p].inRing
    BY <1>1, <1>2 DEF RxPortInv, RxRepInv, Outgoing, SendBase
  <1>3. CASE rep[p].inRing
    <2> DEFINE r == rxRing[p]
               n == rep[p].take
    <2>1. /\ n \in Nat /\ n <= r.size
          /\ \A i \in 1 .. n : CellAt(r, i - 1) = rep[p].at + i - 1
      BY <1>3, ViewedWindow DEF Viewing
    <2>2. r.size \in Nat /\ Earliest(r) \in Nat /\ rxCursor[p] = Earliest(r)
      <3>1. r.size \in 0 .. RxCapacity /\ Earliest(r) \in Nat
        BY <1>1, PortTypes
      <3>2. QED
        BY <3>1, <1>1, Sizes DEF RxPortInv, BoundsAt
    <2>3. ASSUME NEW i \in 1 .. n
          PROVE  r.buf[rep[p].at + i - 1] = Row(p, Earliest(r) + i - 1)
      <3>1. i - 1 \in 0 .. r.size - 1 /\ Earliest(r) + (i - 1) = Earliest(r) + i - 1
        <4> HIDE DEF r, n
        <4>1. QED
          BY <2>1, <2>2
      <3>2. r.buf[CellAt(r, i - 1)] = Row(p, Earliest(r) + (i - 1))
        BY <3>1, <1>1 DEF RxPortInv, RxStored
      <3>3. CellAt(r, i - 1) = rep[p].at + i - 1
        BY <2>1
      <3>4. QED
        BY <3>1, <3>2, <3>3
    <2>4. QED
      BY <2>2, <2>3, <1>3 DEF Outgoing, SpanRead, SendBase
  <1>4. QED
    BY <1>2, <1>3

\* The invariant keeps the row and the window in transit apart.
LEMMA InvNoSharedCell == RxInv => RxNoSharedCell
  <1> SUFFICES ASSUME RxInv, NEW p \in RxPort, RowInTail(p), Viewing(p),
                      NEW x \in RowSpan(p), x \in SendSpan(p)
               PROVE  FALSE
    BY DEF RxNoSharedCell
  <1> DEFINE r == rxRing[p]
             n == row[p].n
             m == rep[p].take
             c == RxCapacity
  <1>1. RxTypeOK /\ RxPortInv(p)
    BY DEF RxInv
  <1>2. /\ r \in RingOf(c, Sample) /\ c \in Nat \ {0} /\ r.size \in 0 .. c
        /\ n \in 0 .. Batch /\ row[p].at \in Nat /\ rep[p].at \in Nat
        /\ Batch \in Nat /\ 2 * Batch <= c
    BY <1>1, PortTypes, Sizes
  <1>3. /\ n \in Nat \ {0} /\ row[p].at = TailCell(r) /\ TailCell(r) + n <= c
    BY <1>1, <1>2 DEF RxPortInv, RxRowInv, RowInTail
  <1>4. r.size + n <= c
    <2>1. r.size + n <= Batch
      BY <1>1 DEF RxPortInv, RunAheadAt, RxHighWater, RowInTail
    <2>2. r.size \in Nat /\ n \in Nat /\ Batch \in Nat /\ 2 * Batch <= c /\ c \in Nat
      BY <1>2, <1>3
    <2> HIDE DEF r, n, c
    <2>3. QED
      BY <2>1, <2>2
  <1>5. \A i \in 1 .. n : CellAt(r, r.size + i - 1) = row[p].at + i - 1
    <2>1. r \in RingOf(c, Sample) /\ c \in Nat \ {0}
      BY <1>2
    <2> HIDE DEF r, n, c
    <2>2. QED
      BY <2>1, <1>3, <1>4, ReservedCells
  <1>6. /\ m \in Nat /\ m <= r.size
        /\ \A i \in 1 .. m : CellAt(r, i - 1) = rep[p].at + i - 1
    BY ViewedWindow
  <1>7. /\ x \in row[p].at .. row[p].at + n - 1
        /\ x \in rep[p].at .. rep[p].at + m - 1
    BY DEF RowSpan, SendSpan, Span
  <1> DEFINE i == x - row[p].at + 1
             j == x - rep[p].at + 1
  <1>8. /\ i \in 1 .. n /\ row[p].at + i - 1 = x
        /\ j \in 1 .. m /\ rep[p].at + j - 1 = x
    <2>1. row[p].at \in Nat /\ rep[p].at \in Nat
      BY <1>2
    <2> HIDE DEF n, m
    <2>2. QED
      BY <2>1, <1>3, <1>6, <1>7
  <1> HIDE DEF i, j
  <1>9. CellAt(r, r.size + i - 1) = x /\ CellAt(r, j - 1) = x
    BY <1>5, <1>6, <1>8
  <1>10. /\ r.size + i - 1 \in 0 .. c - 1 /\ j - 1 \in 0 .. c - 1
         /\ r.size + i - 1 # j - 1
    <2>1. r.size \in Nat /\ c \in Nat
      BY <1>2
    <2> HIDE DEF n, m, r, c
    <2>2. QED
      BY <2>1, <1>3, <1>4, <1>6, <1>8
  <1>11. r \in RingOf(c, Sample) /\ c \in Nat \ {0}
    BY <1>2
  <1> HIDE DEF r, n, m, c
  <1>12. QED
    BY <1>9, <1>10, <1>11, CellsDistinct

-----------------------------------------------------------------------------
\* RxInv is an invariant of the RX path.
THEOREM RxInvariant == RxSpec => []RxInv
  <1>1. RxInit => RxInv
    BY InitInv
  <1>2. RxInv /\ [RxNext]_rxVars => RxInv'
    BY NextInv
  <1>3. QED
    BY <1>1, <1>2, PTL DEF RxSpec

\* Ring positions, window lengths and spans stay within their storage
\* (IqRing, PortRuntime) whatever the order of the two threads.
THEOREM RxTypeCorrect == RxSpec => []RxTypeOK
  <1>1. RxInv => RxTypeOK
    BY DEF RxInv
  <1>2. QED
    BY <1>1, RxInvariant, PTL

\* A reply of run_rep_worker is the window as the producer published it.
THEOREM RxRepliesIntact == RxSpec => []RxReplyIntact
  BY InvReplyIntact, RxInvariant, PTL

\* The row the producer fills without the lock and the window the REP worker
\* sends without the lock never share a cell.
THEOREM RxSpansApart == RxSpec => []RxNoSharedCell
  BY InvNoSharedCell, RxInvariant, PTL

\* The ring and the row in preparation stay below the run-ahead mark.
THEOREM RxLatencyBound == RxSpec => []RxRunAhead
  <1>1. RxInv => RxRunAhead
    BY DEF RxInv, RxPortInv, RxRunAhead
  <1>2. QED
    BY <1>1, RxInvariant, PTL

\* "RX output ring rejected a reserved push" and "RX output window vanished
\* from ring" are never thrown.
THEOREM RxNoException == RxSpec => []RxNeverThrows
  <1>1. RxInv => RxNeverThrows
    BY DEF RxInv, RxPortInv, RxNeverThrows
  <1>2. QED
    BY <1>1, RxInvariant, PTL

\* The queued window lengths cut exactly the unanswered part of the stream.
THEOREM RxWindowBounds == RxSpec => []RxBounds
  <1>1. RxInv => RxBounds
    BY DEF RxInv, RxPortInv, RxBounds
  <1>2. QED
    BY <1>1, RxInvariant, PTL

\* The four together: what the RX path keeps while both threads use the ring.
THEOREM RxRingStaysSound == RxSpec => []RxRingSound
  BY RxTypeCorrect, RxSpansApart, RxLatencyBound, RxWindowBounds, PTL DEF RxRingSound
-----------------------------------------------------------------------------
(***************************************************************************)
(* TxInv is an inductive invariant of TxSpec, for any number of ports and  *)
(* lanes, any batch, any ring and any lengths of messages; what the ports  *)
(* promise the lanes and the radios follows from it.                       *)
(***************************************************************************)

LEMMA TxSizes ==
  Batch \in Nat \ {0} /\ QueueSamples \in Nat \ {0} /\ 2 * Batch <= QueueSamples
  BY RuntimeAssumption

LEMMA TxPortTypes ==
  ASSUME TxTypeOK, NEW p \in TxPort
  PROVE  /\ txRing[p] \in RingOf(QueueSamples, TxSample)
         /\ pull[p] \in PullStates /\ inbox[p] \in Seq(Seq(TxSample))
         /\ Len(inbox[p]) <= 1
         /\ emitted[p] \in 0 .. MaxTxSeq
         /\ txRing[p].size \in 0 .. QueueSamples /\ txRing[p].next \in Nat
         /\ txRing[p].cap = QueueSamples
         /\ Earliest(txRing[p]) \in Nat
         /\ Earliest(txRing[p]) + txRing[p].size = txRing[p].next
  <1>1. txRing[p] \in RingOf(QueueSamples, TxSample)
    BY DEF TxTypeOK
  <1>2. QED
    BY <1>1, TxSizes, RingFields DEF TxTypeOK

LEMMA TxLaneTypes ==
  ASSUME TxTypeOK, NEW l \in Lane
  PROVE  /\ Src[l] \in TxPort
         /\ cursor[l] \in Nat /\ cursorInit[l] \in BOOLEAN /\ gaps[l] \in Nat
         /\ win[l] \in WinStates
         /\ win[l].avail \in Nat /\ win[l].n \in 0 .. Batch /\ win[l].n \in Nat
  BY TxAssumption, TxSizes DEF TxTypeOK, WinStates

\* A nonempty set of naturals has a least element: the intervals 0 .. n of its
\* elements are finite sets, which strict inclusion orders well.
LEMMA LeastNatural ==
  ASSUME NEW T \in SUBSET Nat, T # {}
  PROVE  \E x \in T : \A y \in T : x <= y
  <1> DEFINE U == {0 .. n : n \in T}
  <1>1. U \subseteq FiniteSubsetsOf(Nat) /\ U # {}
    <2>1. ASSUME NEW n \in T PROVE 0 .. n \in FiniteSubsetsOf(Nat)
      <3>1. IsFiniteSet(0 .. n)
        BY FS_Interval
      <3>2. QED
        BY <3>1 DEF FiniteSubsetsOf
    <2>2. QED
      BY <2>1
  <1>2. PICK V \in U : \A W \in U : ~(<<W, V>> \in StrictSubsetOrdering(Nat))
    <2> HIDE DEF U
    <2>1. IsWellFoundedOn(StrictSubsetOrdering(Nat), FiniteSubsetsOf(Nat))
      BY FS_StrictSubsetOrderingWellFounded
    <2>2. QED
      BY <1>1, <2>1, WFMin
  <1>3. PICK x \in T : V = 0 .. x
    OBVIOUS
  <1>4. ASSUME NEW y \in T, y < x PROVE FALSE
    <2>1. 0 .. y \in U /\ 0 .. y \subseteq 0 .. x /\ 0 .. y # 0 .. x
      <3>1. x \in 0 .. x /\ x \notin 0 .. y
        BY <1>4
      <3>2. QED
        BY <3>1, <1>4
    <2>2. 0 .. y \in SUBSET Nat /\ 0 .. x \in SUBSET Nat
      OBVIOUS
    <2>3. <<0 .. y, V>> \in StrictSubsetOrdering(Nat)
      BY <1>3, <2>1, <2>2 DEF StrictSubsetOrdering
    <2>4. QED
      BY <1>2, <2>1, <2>3
  <1>5. \A y \in T : x <= y
    BY <1>4
  <1>6. QED
    BY <1>5

\* So Min is one.
LEMMA MinOfNaturals ==
  ASSUME NEW T \in SUBSET Nat, T # {}
  PROVE  Min(T) \in T /\ \A y \in T : Min(T) <= y
  <1>1. \E x \in T : \A y \in T : x <= y
    BY LeastNatural
  <1>2. QED
    BY <1>1 DEF Min

\* What is released is behind every started lane, and nothing as long as a lane
\* has not started.
LEMMA NeededBounds ==
  ASSUME TxInv, NEW p \in TxPort
  PROVE  /\ Needed(p) \in Nat
         /\ Earliest(txRing[p]) <= Needed(p) /\ Needed(p) <= txRing[p].next
         /\ \A l \in LanesOf(p) :
              IF cursorInit[l] THEN Needed(p) <= cursor[l]
              ELSE Needed(p) = Earliest(txRing[p])
  <1> DEFINE r == txRing[p]
             need(l) == IF cursorInit[l] THEN cursor[l] ELSE Earliest(r)
             T == {need(l) : l \in LanesOf(p)} \cup {r.next}
  <1>1. Earliest(r) \in Nat /\ r.next \in Nat /\ Earliest(r) <= r.next
    BY TxPortTypes, TxSizes DEF TxInv
  <1>2. ASSUME NEW l \in LanesOf(p)
        PROVE  need(l) \in Nat /\ Earliest(r) <= need(l)
    <2>1. l \in Lane /\ Src[l] = p /\ cursor[l] \in Nat /\ cursorInit[l] \in BOOLEAN
      BY TxLaneTypes DEF LanesOf, TxInv
    <2>2. cursorInit[l] => Earliest(r) <= cursor[l]
      BY <2>1 DEF TxInv, TxLaneInv, NoGapAt
    <2>3. QED
      BY <2>1, <2>2, <1>1
  <1>3. Needed(p) = Min(T)
    BY DEF Needed
  <1>4. T \in SUBSET Nat /\ T # {} /\ r.next \in T /\ \A y \in T : Earliest(r) <= y
    BY <1>1, <1>2
  <1>5. Min(T) \in T /\ \A y \in T : Min(T) <= y
    BY <1>4, MinOfNaturals
  <1>6. Needed(p) \in Nat /\ Earliest(r) <= Needed(p) /\ Needed(p) <= r.next
    BY <1>3, <1>4, <1>5
  <1>7. ASSUME NEW l \in LanesOf(p) PROVE Needed(p) <= need(l)
    BY <1>3, <1>5
  <1>8. QED
    BY <1>1, <1>6, <1>7

\* Releasing moves the start of the ring forward by some k that no lane minds.
LEMMA KeptRing ==
  ASSUME TxInv, NEW p \in TxPort
  PROVE  \E k \in Nat :
           /\ k <= txRing[p].size
           /\ Kept(p) = DiscardBefore(txRing[p], Earliest(txRing[p]) + k)
           /\ \A l \in LanesOf(p) :
                IF cursorInit[l] THEN Earliest(txRing[p]) + k <= cursor[l] ELSE k = 0
  <1> DEFINE r == txRing[p]
  <1>1. /\ r.next \in Nat /\ r.size \in Nat /\ Earliest(r) \in Nat
        /\ Earliest(r) + r.size = r.next
    BY TxPortTypes, TxSizes DEF TxInv
  <1>2. \A l \in LanesOf(p) : l \in Lane /\ Src[l] = p /\ cursorInit[l] \in BOOLEAN
    BY TxLaneTypes DEF LanesOf, TxInv
  <1>3. CASE LanesOf(p) = {}
    <2>1. Kept(p) = DiscardBefore(r, Earliest(r) + r.size)
      BY <1>1, <1>3 DEF Kept
    <2>2. QED
      BY <2>1, <1>1, <1>3
  <1>4. CASE LanesOf(p) # {} /\ \E l \in LanesOf(p) : cursorInit[l]
    <2> DEFINE k == Needed(p) - Earliest(r)
    <2>1. k \in Nat /\ k <= r.size /\ Earliest(r) + k = Needed(p)
      BY <1>1, NeededBounds
    <2>2. Kept(p) = DiscardBefore(r, Needed(p))
      BY <1>4 DEF Kept
    <2>3. ASSUME NEW l \in LanesOf(p)
          PROVE  IF cursorInit[l] THEN Earliest(r) + k <= cursor[l] ELSE k = 0
      <3>1. IF cursorInit[l] THEN Needed(p) <= cursor[l] ELSE Needed(p) = Earliest(r)
        BY NeededBounds
      <3>2. QED
        BY <3>1, <2>1, <1>1, <1>2
    <2> HIDE DEF k
    <2>4. QED
      BY <2>1, <2>2, <2>3
  <1>5. CASE LanesOf(p) # {} /\ ~\E l \in LanesOf(p) : cursorInit[l]
    <2>1. Kept(p) = r
      BY <1>5 DEF Kept
    <2>2. DiscardBefore(r, Earliest(r) + 0) = r
      BY <1>1 DEF DiscardBefore
    <2>3. \A l \in LanesOf(p) : Earliest(r) = 0
      BY <1>2, <1>5 DEF TxInv, TxLaneInv, EpochAt
    <2>4. 0 \in Nat /\ 0 <= r.size
      BY <1>1
    <2>5. QED
      BY <2>1, <2>2, <2>4, <1>5
  <1>6. QED
    BY <1>3, <1>4, <1>5

-----------------------------------------------------------------------------
\* A step leaves the invariant of a port it does not touch alone.
LEMMA SamePort ==
  ASSUME NEW q \in TxPort, TxPortInv(q),
         txRing'[q] = txRing[q], pull'[q] = pull[q], inbox'[q] = inbox[q],
         emitted'[q] = emitted[q]
  PROVE  TxPortInv(q)'
  BY DEF TxPortInv, TxStored, OneAtATime, NothingLostAt, Todo

\* Ring t holds what ring r held but for its k oldest samples, at the same
\* cells, and perhaps newer ones.
RingMoves(r, t, k) ==
  /\ Earliest(t) = Earliest(r) + k /\ r.next <= t.next
  /\ \A d \in Nat : d + k < r.size => CellAt(t, d) = CellAt(r, d + k)

\* A lane that stands still keeps its invariant while its ring moves under it.
LEMMA LaneStands ==
  ASSUME TxTypeOK, TxTypeOK', NEW l \in Lane, TxLaneInv(l),
         cursor'[l] = cursor[l], cursorInit'[l] = cursorInit[l],
         gaps'[l] = gaps[l], win'[l] = win[l],
         NEW k \in Nat, RingMoves(txRing[Src[l]], txRing'[Src[l]], k),
         IF cursorInit[l] THEN Earliest(txRing[Src[l]]) + k <= cursor[l] ELSE k = 0
  PROVE  TxLaneInv(l)'
  <1> DEFINE r == txRing[Src[l]]
             t == txRing'[Src[l]]
  <1>1. /\ cursor[l] \in Nat /\ cursorInit[l] \in BOOLEAN /\ win[l].n \in Nat
        /\ win[l].avail \in Nat /\ Src[l] \in TxPort
    BY TxLaneTypes
  <1>2. /\ Earliest(r) \in Nat /\ r.next \in Nat /\ Earliest(r) + r.size = r.next
        /\ r.size \in Nat
    BY <1>1, TxPortTypes, TxSizes
  <1>3. t.next \in Nat
    <2>1. t \in RingOf(QueueSamples, TxSample)
      BY <1>1 DEF TxTypeOK
    <2>2. QED
      BY <2>1, TxSizes, RingFields
  <1>4. Earliest(t) = Earliest(r) + k /\ r.next <= t.next
    BY DEF RingMoves
  <1>5. NoGapAt(l)'
    BY <1>1, <1>2, <1>3, <1>4 DEF NoGapAt, TxLaneInv
  <1>6. EpochAt(l)'
    BY <1>1, <1>2, <1>4 DEF EpochAt, TxLaneInv
  <1>7. LaneWindow(l)'
    <2>1. win[l].phase # "idle" => cursorInit[l]
      BY DEF TxLaneInv, LaneWindow
    <2>2. win[l].phase = "sized" => cursor[l] + win[l].avail <= t.next
      BY <1>1, <1>2, <1>3, <1>4 DEF TxLaneInv, LaneWindow
    <2>3. win[l].phase = "held" => HeldWindow(l)'
      <3>1. SUFFICES ASSUME win[l].phase = "held" PROVE HeldWindow(l)'
        OBVIOUS
      <3>2. HeldWindow(l) /\ cursorInit[l]
        BY <3>1 DEF TxLaneInv, LaneWindow
      <3>3. CASE ~win[l].inRing
        BY <3>2, <3>3 DEF HeldWindow
      <3>4. CASE win[l].inRing
        <4>1. ASSUME NEW i \in 1 .. win[l].n
              PROVE  CellAt(t, cursor[l] - Earliest(t) + i - 1) = win[l].at + i - 1
          <5> DEFINE d == cursor[l] - Earliest(t) + i - 1
          <5>1. cursor[l] + win[l].n <= r.next /\ Earliest(r) + k <= cursor[l]
            BY <3>2 DEF TxLaneInv, NoGapAt
          <5>2. d \in Nat /\ d + k < r.size /\ d + k = cursor[l] - Earliest(r) + i - 1
            BY <5>1, <1>1, <1>2, <1>4
          <5> HIDE DEF d
          <5>3. CellAt(t, d) = CellAt(r, cursor[l] - Earliest(r) + i - 1)
            BY <5>2 DEF RingMoves
          <5>4. CellAt(r, cursor[l] - Earliest(r) + i - 1) = win[l].at + i - 1
            BY <3>2, <3>4 DEF HeldWindow
          <5>5. QED
            BY <5>3, <5>4 DEF d
        <4>2. QED
          BY <4>1, <3>4 DEF HeldWindow
      <3>5. QED
        BY <3>3, <3>4
    <2>4. win[l].phase # "held" => win[l].n = 0 /\ ~win[l].inRing
      BY DEF TxLaneInv, LaneWindow
    <2>5. QED
      BY <2>1, <2>2, <2>3, <2>4 DEF LaneWindow
  <1>8. QED
    BY <1>5, <1>6, <1>7 DEF TxLaneInv

\* A step of the puller or the radio of one port.
LEMMA PortStep ==
  ASSUME TxInv, TxTypeOK', NEW p \in TxPort, UNCHANGED laneVars,
         \A q \in TxPort \ {p} :
           /\ txRing'[q] = txRing[q] /\ pull'[q] = pull[q]
           /\ inbox'[q] = inbox[q] /\ emitted'[q] = emitted[q],
         TxPortInv(p)',
         NEW k \in Nat, RingMoves(txRing[p], txRing'[p], k),
         \A l \in LanesOf(p) :
           IF cursorInit[l] THEN Earliest(txRing[p]) + k <= cursor[l] ELSE k = 0
  PROVE  TxInv'
  <1>1. ASSUME NEW q \in TxPort PROVE TxPortInv(q)'
    <2>1. CASE q = p
      BY <2>1
    <2>2. CASE q # p
      BY <2>2, SamePort DEF TxInv
    <2>3. QED
      BY <2>1, <2>2
  <1>2. ASSUME NEW l \in Lane PROVE TxLaneInv(l)'
    <2>1. /\ cursor'[l] = cursor[l] /\ cursorInit'[l] = cursorInit[l]
          /\ gaps'[l] = gaps[l] /\ win'[l] = win[l]
      BY DEF laneVars
    <2>2. /\ Src[l] \in TxPort /\ cursor[l] \in Nat /\ cursorInit[l] \in BOOLEAN
          /\ TxTypeOK /\ TxLaneInv(l)
      BY TxLaneTypes DEF TxInv
    <2>3. CASE Src[l] = p
      BY <2>1, <2>2, <2>3, LaneStands DEF LanesOf
    <2>4. CASE Src[l] # p
      <3>1. txRing'[Src[l]] = txRing[Src[l]]
        BY <2>2, <2>4
      <3>2. Earliest(txRing[Src[l]]) \in Nat /\ txRing[Src[l]].next \in Nat
        BY <2>2, TxPortTypes
      <3>3. RingMoves(txRing[Src[l]], txRing'[Src[l]], 0)
        <4>1. \A d \in Nat : d + 0 = d
          OBVIOUS
        <4>2. QED
          BY <3>1, <3>2, <4>1 DEF RingMoves
      <3>4. IF cursorInit[l] THEN Earliest(txRing[Src[l]]) + 0 <= cursor[l] ELSE 0 = 0
        BY <2>2, <3>2 DEF TxLaneInv, NoGapAt
      <3>5. QED
        BY <2>1, <2>2, <3>3, <3>4, LaneStands
    <2>5. QED
      BY <2>3, <2>4
  <1>3. QED
    BY <1>1, <1>2 DEF TxInv

-----------------------------------------------------------------------------
LEMMA TxInitInv == TxInit => TxInv
  <1> SUFFICES ASSUME TxInit PROVE TxInv
    OBVIOUS
  <1>1. RingReset(QueueSamples, Blank) \in RingOf(QueueSamples, TxSample)
    BY TxSizes DEF RingReset, Ring, RingOf, TxSample
  <1>2. TxTypeOK
    <2>1. << >> \in Seq(TxSample) /\ << >> \in Seq(Seq(TxSample)) /\ Len(<< >>) = 0
      OBVIOUS
    <2>2. NoWindow \in WinStates
      BY <2>1, TxSizes DEF NoWindow, WinStates
    <2>3. QED
      BY <1>1, <2>1, <2>2, TxAssumption DEF TxInit, TxTypeOK, PullStates
  <1>3. ASSUME NEW p \in TxPort PROVE TxPortInv(p)
    <2>1. /\ txRing[p].size = 0 /\ txRing[p].next = 0 /\ pull[p].phase = "top"
          /\ ~pull[p].asked /\ pull[p].pending = << >> /\ inbox[p] = << >>
          /\ emitted[p] = 0
      BY DEF TxInit, RingReset, Ring
    <2>2. Todo(p) = << >> /\ Len(Todo(p)) = 0
      BY <2>1 DEF Todo
    <2>3. QED
      BY <2>1, <2>2 DEF TxPortInv, TxStored, OneAtATime, NothingLostAt
  <1>4. ASSUME NEW l \in Lane PROVE TxLaneInv(l)
    BY TxAssumption DEF TxInit, TxLaneInv, NoGapAt, EpochAt, LaneWindow, NoWindow,
      RingReset, Ring, Earliest
  <1>5. QED
    BY <1>2, <1>3, <1>4 DEF TxInv

\* The puller releases what every lane has consumed.
LEMMA ReleaseStep ==
  ASSUME TxInv, NEW p \in TxPort, PullRelease(p)
  PROVE  TxInv'
  <1> DEFINE r == txRing[p]
             t == Kept(p)
             ph == IF FreeCapacity(t) < Batch THEN "full" ELSE "room"
  <1>1. PICK k \in Nat :
          /\ k <= r.size /\ t = DiscardBefore(r, Earliest(r) + k)
          /\ \A l \in LanesOf(p) :
               IF cursorInit[l] THEN Earliest(r) + k <= cursor[l] ELSE k = 0
    BY KeptRing
  <1>2. /\ TxTypeOK /\ TxPortInv(p)
        /\ r \in RingOf(QueueSamples, TxSample) /\ QueueSamples \in Nat \ {0}
        /\ r.next \in Nat /\ r.size \in 0 .. QueueSamples
        /\ Earliest(r) + r.size = r.next /\ Earliest(r) \in Nat
    BY TxPortTypes, TxSizes DEF TxInv
  <1> HIDE DEF t
  <1>3. /\ t \in RingOf(QueueSamples, TxSample)
        /\ t.next = r.next /\ t.size = r.size - k /\ t.buf = r.buf
        /\ \A d \in Nat : d + k <= r.size => CellAt(t, d) = CellAt(r, d + k)
    BY <1>1, <1>2, DiscardKeepsTail
  <1>4. Earliest(t) = Earliest(r) + k
    BY <1>2, <1>3 DEF Earliest
  <1>5. /\ txRing' = [txRing EXCEPT ![p] = t]
        /\ pull' = [pull EXCEPT ![p] = [pull[p] EXCEPT !.phase = ph]]
        /\ UNCHANGED << inbox, emitted, laneVars >>
    BY <1>2 DEF PullRelease, t, TxTypeOK
  <1>6. ph \in {"full", "room"}
    OBVIOUS
  <1> HIDE DEF ph
  <1>7. TxTypeOK'
    <2>1. [pull[p] EXCEPT !.phase = ph] \in PullStates
      BY <1>2, <1>6 DEF TxTypeOK, PullStates
    <2>2. QED
      BY <1>2, <1>3, <1>5, <2>1 DEF TxTypeOK, laneVars
  <1>8. /\ txRing'[p] = t /\ pull'[p].phase = ph
        /\ pull'[p].asked = pull[p].asked /\ pull'[p].pending = pull[p].pending
        /\ inbox'[p] = inbox[p] /\ emitted'[p] = emitted[p]
    BY <1>2, <1>5 DEF TxTypeOK, PullStates
  <1>9. TxPortInv(p)'
    <2>1. ASSUME NEW d \in 0 .. t.size - 1
          PROVE  t.buf[CellAt(t, d)] = Wave(p, Earliest(t) + d)
      <3>1. d \in Nat /\ d + k <= r.size /\ d + k \in 0 .. r.size - 1
        BY <1>1, <1>2, <1>3
      <3>2. r.buf[CellAt(r, d + k)] = Wave(p, Earliest(r) + (d + k))
        BY <1>2, <3>1 DEF TxPortInv, TxStored
      <3>3. Earliest(r) + (d + k) = Earliest(t) + d
        BY <1>2, <1>4, <3>1
      <3>4. QED
        BY <1>3, <3>1, <3>2, <3>3
    <2>2. TxStored(p)'
      BY <2>1, <1>8 DEF TxStored
    <2>3. OneAtATime(p)'
      BY <1>2, <1>6, <1>8 DEF TxPortInv, OneAtATime
    <2>4. NothingLostAt(p)'
      <3>1. pull[p].phase = "top"
        BY DEF PullRelease
      <3>2. Todo(p)' = Todo(p)
        BY <1>8 DEF Todo
      <3>3. QED
        BY <1>2, <1>3, <1>8, <3>1, <3>2 DEF TxPortInv, NothingLostAt
    <2>5. QED
      BY <2>2, <2>3, <2>4 DEF TxPortInv
  <1>10. RingMoves(r, txRing'[p], k)
    <2>1. \A d \in Nat : d + k < r.size => d + k <= r.size
      BY <1>2
    <2>2. QED
      BY <1>2, <1>3, <1>4, <1>8, <2>1 DEF RingMoves
  <1>11. \A q \in TxPort \ {p} :
           /\ txRing'[q] = txRing[q] /\ pull'[q] = pull[q]
           /\ inbox'[q] = inbox[q] /\ emitted'[q] = emitted[q]
    BY <1>2, <1>5 DEF TxTypeOK
  <1>12. QED
    BY <1>1, <1>5, <1>7, <1>9, <1>10, <1>11, PortStep

\* Nothing moves in the ring.
LEMMA RingRests ==
  ASSUME TxInv, NEW p \in TxPort, txRing' = txRing
  PROVE  /\ RingMoves(txRing[p], txRing'[p], 0)
         /\ \A l \in LanesOf(p) :
              IF cursorInit[l] THEN Earliest(txRing[p]) + 0 <= cursor[l] ELSE 0 = 0
  <1>1. Earliest(txRing[p]) \in Nat /\ txRing[p].next \in Nat
    BY TxPortTypes DEF TxInv
  <1>2. \A d \in Nat : d + 0 = d
    OBVIOUS
  <1>3. RingMoves(txRing[p], txRing'[p], 0)
    BY <1>1, <1>2 DEF RingMoves
  <1>4. ASSUME NEW l \in LanesOf(p), cursorInit[l] PROVE Earliest(txRing[p]) + 0 <= cursor[l]
    BY <1>1, <1>4 DEF TxInv, TxLaneInv, NoGapAt, LanesOf
  <1>5. QED
    BY <1>3, <1>4

\* Steps of the puller that touch neither the ring nor a message.
LEMMA WaitStep ==
  ASSUME TxInv, NEW p \in TxPort, PullAsk(p) \/ PullTimeout(p)
  PROVE  TxInv'
  <1>1. TxTypeOK /\ TxPortInv(p) /\ pull[p] \in PullStates
    BY TxPortTypes DEF TxInv
  <1>2. PICK w \in PullStates :
          /\ pull' = [pull EXCEPT ![p] = w]
          /\ w.pending = pull[p].pending /\ w.phase # "threw" /\ pull[p].phase # "threw"
          /\ \/ w.asked = pull[p].asked
             \/ w.asked /\ pull[p].pending = << >>
          /\ w.phase = "recv" => w.asked
          /\ UNCHANGED << txRing, inbox, emitted, laneVars >>
    <2>1. CASE PullAsk(p)
      <3>1. CASE pull[p].phase = "full"
        <4> DEFINE w == [pull[p] EXCEPT !.phase = "top"]
        <4>1. w \in PullStates /\ w.pending = pull[p].pending /\ w.phase = "top"
              /\ w.asked = pull[p].asked
          BY <1>1 DEF PullStates
        <4>2. pull' = [pull EXCEPT ![p] = w]
          BY <1>1, <2>1, <3>1 DEF PullAsk, TxTypeOK
        <4> HIDE DEF w
        <4>3. QED
          BY <2>1, <3>1, <4>1, <4>2 DEF PullAsk
      <3>2. CASE pull[p].phase # "full"
        <4> DEFINE w == [pull[p] EXCEPT !.phase = "recv", !.asked = TRUE]
        <4>1. w \in PullStates /\ w.pending = pull[p].pending /\ w.phase = "recv"
              /\ w.asked
          BY <1>1 DEF PullStates
        <4>2. pull' = [pull EXCEPT ![p] = w]
          BY <1>1, <2>1, <3>2 DEF PullAsk, TxTypeOK
        <4> HIDE DEF w
        <4>3. QED
          BY <2>1, <3>2, <4>1, <4>2 DEF PullAsk
      <3>3. QED
        BY <3>1, <3>2
    <2>2. CASE PullTimeout(p)
      <3> DEFINE w == [pull[p] EXCEPT !.phase = "top"]
      <3>1. w \in PullStates /\ w.pending = pull[p].pending /\ w.phase = "top"
            /\ w.asked = pull[p].asked
        BY <1>1 DEF PullStates
      <3>2. pull' = [pull EXCEPT ![p] = w]
        BY <1>1, <2>2 DEF PullTimeout, TxTypeOK
      <3> HIDE DEF w
      <3>3. QED
        BY <2>2, <3>1, <3>2 DEF PullTimeout
    <2>3. QED
      BY <2>1, <2>2
  <1>3. TxTypeOK'
    BY <1>1, <1>2 DEF TxTypeOK, laneVars
  <1>4. pull'[p] = w /\ txRing'[p] = txRing[p] /\ inbox'[p] = inbox[p] /\ emitted'[p] = emitted[p]
    BY <1>1, <1>2 DEF TxTypeOK
  <1>5. TxPortInv(p)'
    <2>1. Todo(p)' = Todo(p)
      BY <1>2, <1>4 DEF Todo
    <2>2. TxStored(p)' /\ NothingLostAt(p)'
      BY <1>1, <1>2, <1>4, <2>1 DEF TxPortInv, TxStored, NothingLostAt
    <2>3. OneAtATime(p)'
      BY <1>1, <1>2, <1>4 DEF TxPortInv, OneAtATime
    <2>4. QED
      BY <2>2, <2>3 DEF TxPortInv
  <1>6. \A q \in TxPort \ {p} :
          /\ txRing'[q] = txRing[q] /\ pull'[q] = pull[q]
          /\ inbox'[q] = inbox[q] /\ emitted'[q] = emitted[q]
    BY <1>1, <1>2 DEF TxTypeOK
  <1>7. QED
    BY <1>2, <1>3, <1>5, <1>6, RingRests, PortStep

\* A held message goes into the ring, whole and behind the newest sample, or it
\* stays held.
LEMMA LandStep ==
  ASSUME TxInv, NEW p \in TxPort, PullLand(p)
  PROVE  TxInv'
  <1> DEFINE r == txRing[p]
             s == pull[p].pending
             t == RingPush(r, s)
             fits == PushFits(r, Len(s))
             w == [pull[p] EXCEPT !.phase = "top", !.pending = IF fits THEN << >> ELSE s]
  <1>1. /\ TxTypeOK /\ TxPortInv(p) /\ pull[p] \in PullStates
        /\ r \in RingOf(QueueSamples, TxSample) /\ QueueSamples \in Nat \ {0}
        /\ r.next \in Nat /\ r.size \in Nat /\ Earliest(r) \in Nat
        /\ Earliest(r) + r.size = r.next
        /\ s \in Seq(TxSample) /\ Len(s) \in Nat
        /\ pull[p].phase \in {"room", "full"} /\ s # << >>
    BY TxPortTypes, TxSizes DEF TxInv, PullLand, PullStates
  <1>2. /\ ~pull[p].asked /\ inbox[p] = << >> /\ Todo(p) = s
        /\ emitted[p] = r.next + Len(s)
        /\ \A i \in 1 .. Len(s) : s[i] = Wave(p, r.next + i - 1)
    <2>1. ~pull[p].asked /\ inbox[p] = << >>
      BY <1>1 DEF TxPortInv, OneAtATime, PullStates
    <2>2. s \o << >> = s
      BY <1>1
    <2>3. Todo(p) = s
      BY <2>1, <2>2 DEF Todo
    <2>4. QED
      BY <1>1, <2>1, <2>3 DEF TxPortInv, NothingLostAt
  <1>3. w \in PullStates
    <2>1. (IF fits THEN << >> ELSE s) \in Seq(TxSample)
      BY <1>1
    <2> HIDE DEF fits, s
    <2>2. QED
      BY <2>1, <1>1 DEF PullStates
  <1>4. /\ txRing' = [txRing EXCEPT ![p] = t]
        /\ pull' = [pull EXCEPT ![p] = w]
        /\ UNCHANGED << inbox, emitted, laneVars >>
    BY <1>1 DEF PullLand, TxTypeOK, PullStates
  <1>5. w.phase = "top" /\ w.asked = FALSE /\ w.pending = IF fits THEN << >> ELSE s
    BY <1>1, <1>2 DEF PullStates
  <1> HIDE DEF w
  <1>6. /\ txRing'[p] = t /\ pull'[p] = w /\ inbox'[p] = << >> /\ emitted'[p] = emitted[p]
    BY <1>1, <1>2, <1>4 DEF TxTypeOK
  <1>7. \A q \in TxPort \ {p} :
          /\ txRing'[q] = txRing[q] /\ pull'[q] = pull[q]
          /\ inbox'[q] = inbox[q] /\ emitted'[q] = emitted[q]
    BY <1>1, <1>4 DEF TxTypeOK
  <1>8. OneAtATime(p)'
    BY <1>5, <1>6 DEF OneAtATime
  <1>9. CASE ~fits
    <2>1. t = r
      BY <1>9 DEF RingPush
    <2>2. txRing' = txRing
      BY <1>1, <1>4, <2>1 DEF TxTypeOK
    <2>3. TxTypeOK'
      BY <1>1, <1>3, <1>4, <2>2 DEF TxTypeOK, laneVars
    <2>4. Todo(p)' = Todo(p)
      BY <1>2, <1>5, <1>6, <1>9 DEF Todo
    <2>5. TxPortInv(p)'
      BY <1>1, <1>6, <1>8, <2>2, <2>4 DEF TxPortInv, TxStored, NothingLostAt
    <2>6. QED
      BY <1>4, <1>7, <2>2, <2>3, <2>5, RingRests, PortStep
  <1>10. CASE fits
    <2> HIDE DEF r, s
    <2>0. t = RingPush(r, s) /\ PushFits(r, Len(s))
      BY <1>10
    <2> HIDE DEF t, fits
    <2>1. /\ t \in RingOf(QueueSamples, TxSample)
          /\ t.start = r.start /\ t.size = r.size + Len(s) /\ t.next = r.next + Len(s)
          /\ \A d \in Nat : CellAt(t, d) = CellAt(r, d)
          /\ \A d \in Nat : d < r.size => t.buf[CellAt(t, d)] = r.buf[CellAt(t, d)]
          /\ \A i \in 1 .. Len(s) : t.buf[CellAt(t, r.size + i - 1)] = s[i]
      BY <1>1, <2>0, PushStores
    <2>2. Earliest(t) = Earliest(r)
      BY <1>1, <2>1 DEF Earliest
    <2>3. TxTypeOK'
      BY <1>1, <1>3, <1>4, <2>1 DEF TxTypeOK, laneVars
    <2>4. ASSUME NEW d \in 0 .. t.size - 1
          PROVE  t.buf[CellAt(t, d)] = Wave(p, Earliest(t) + d)
      <3>1. CASE d < r.size
        <4>1. d \in Nat /\ d \in 0 .. r.size - 1
          BY <1>1, <3>1
        <4>2. r.buf[CellAt(r, d)] = Wave(p, Earliest(r) + d)
          BY <1>1, <4>1 DEF TxPortInv, TxStored, r
        <4>3. QED
          BY <2>1, <2>2, <3>1, <4>1, <4>2
      <3>2. CASE ~(d < r.size)
        <4> DEFINE i == d - r.size + 1
        <4>1. i \in 1 .. Len(s) /\ r.size + i - 1 = d /\ r.next + i - 1 = Earliest(r) + d
          <5>1. t.size = r.size + Len(s)
            BY <2>1
          <5>2. r.size \in Nat /\ Earliest(r) \in Nat /\ Earliest(r) + r.size = r.next
                /\ Len(s) \in Nat
            BY <1>1
          <5>3. d \in Nat /\ d < r.size + Len(s)
            BY <5>1, <5>2
          <5>4. QED
            BY <5>2, <5>3, <3>2
        <4> HIDE DEF i
        <4>2. t.buf[CellAt(t, d)] = s[i]
          BY <2>1, <4>1
        <4>3. s[i] = Wave(p, Earliest(r) + d)
          BY <1>2, <4>1
        <4>4. QED
          BY <2>2, <4>2, <4>3
      <3>3. QED
        BY <3>1, <3>2
    <2>5. TxStored(p)'
      BY <1>6, <2>4 DEF TxStored
    <2>6. NothingLostAt(p)'
      <3>1. Todo(p)' = << >>
        BY <1>5, <1>6, <1>10 DEF Todo, s
      <3>2. QED
        BY <1>1, <1>2, <1>6, <2>1, <3>1 DEF NothingLostAt
    <2>7. RingMoves(r, txRing'[p], 0)
      <3>1. \A d \in Nat : d + 0 = d
        OBVIOUS
      <3>2. QED
        BY <1>1, <1>6, <2>1, <2>2, <3>1 DEF RingMoves
    <2>8. \A l \in LanesOf(p) :
            IF cursorInit[l] THEN Earliest(r) + 0 <= cursor[l] ELSE 0 = 0
      BY <1>1 DEF TxInv, TxLaneInv, NoGapAt, LanesOf, r
    <2>9. QED
      BY <1>4, <1>7, <1>8, <2>3, <2>5, <2>6, <2>7, <2>8, PortStep DEF TxPortInv, r
  <1>11. QED
    BY <1>9, <1>10

\* The reply is taken from the socket and held, or ends the puller.
LEMMA ReceiveStep ==
  ASSUME TxInv, NEW p \in TxPort, PullReceive(p)
  PROVE  TxInv'
  <1> DEFINE m == inbox[p][1]
             w == IF Len(m) > QueueSamples THEN [pull[p] EXCEPT !.phase = "threw"]
                  ELSE [pull[p] EXCEPT !.phase = "top", !.asked = FALSE, !.pending = m]
  <1>1. /\ TxTypeOK /\ TxPortInv(p) /\ pull[p] \in PullStates
        /\ pull[p].phase = "recv" /\ pull[p].asked /\ pull[p].pending = << >>
        /\ inbox[p] \in Seq(Seq(TxSample)) /\ inbox[p] # << >>
    BY TxPortTypes DEF TxInv, PullReceive, TxPortInv, OneAtATime
  <1>2. m \in Seq(TxSample)
    BY <1>1
  <1>3. /\ w \in PullStates
        /\ w.phase = "threw" => w.pending = << >> /\ w.asked
        /\ w.phase # "threw" => w.pending = m /\ ~w.asked /\ w.phase = "top"
    BY <1>1, <1>2 DEF PullStates
  <1>4. /\ pull' = [pull EXCEPT ![p] = w]
        /\ inbox' = [inbox EXCEPT ![p] = << >>]
        /\ UNCHANGED << txRing, emitted, laneVars >>
    BY <1>1 DEF PullReceive, TxTypeOK
  <1> HIDE DEF w
  <1>5. << >> \in Seq(Seq(TxSample)) /\ Len(<< >>) <= 1
    OBVIOUS
  <1>6. TxTypeOK'
    BY <1>1, <1>3, <1>4, <1>5 DEF TxTypeOK, laneVars
  <1>7. pull'[p] = w /\ inbox'[p] = << >> /\ txRing'[p] = txRing[p] /\ emitted'[p] = emitted[p]
    BY <1>1, <1>4 DEF TxTypeOK
  <1>8. TxPortInv(p)'
    <2>1. OneAtATime(p)'
      BY <1>3, <1>7 DEF OneAtATime
    <2>2. w.phase # "threw" => Todo(p)' = Todo(p)
      <3>1. << >> \o m = m /\ m \o << >> = m
        BY <1>2
      <3>2. QED
        BY <1>1, <1>3, <1>7, <3>1 DEF Todo
    <2>3. QED
      BY <1>1, <1>7, <2>1, <2>2 DEF TxPortInv, TxStored, NothingLostAt
  <1>9. \A q \in TxPort \ {p} :
          /\ txRing'[q] = txRing[q] /\ pull'[q] = pull[q]
          /\ inbox'[q] = inbox[q] /\ emitted'[q] = emitted[q]
    BY <1>1, <1>4 DEF TxTypeOK
  <1>10. QED
    BY <1>4, <1>6, <1>8, <1>9, RingRests, PortStep

\* The radio's next samples follow those it has sent.
LEMMA TransmitStep ==
  ASSUME TxInv, NEW p \in TxPort, NEW n \in MsgSizes, RadioTransmit(p, n)
  PROVE  TxInv'
  <1> DEFINE m == [i \in 1 .. n |-> Wave(p, emitted[p] + i - 1)]
  <1>1. /\ TxTypeOK /\ TxPortInv(p) /\ pull[p] \in PullStates
        /\ pull[p].asked /\ pull[p].phase # "threw" /\ inbox[p] = << >>
        /\ pull[p].pending = << >>
        /\ n \in Nat /\ emitted[p] \in Nat /\ emitted[p] + n <= MaxTxSeq /\ MaxTxSeq \in Nat
    BY TxPortTypes, TxAssumption DEF TxInv, RadioTransmit, TxPortInv, OneAtATime
  <1>2. m \in Seq(TxSample) /\ Len(m) = n
        /\ \A i \in 1 .. n : m[i] = Wave(p, emitted[p] + i - 1)
    <2>1. \A i \in 1 .. n : emitted[p] + i - 1 \in 0 .. MaxTxSeq
      BY <1>1
    <2>2. \A i \in 1 .. n : Wave(p, emitted[p] + i - 1) \in TxSample
      BY <2>1 DEF TxSample
    <2>3. QED
      BY <1>1, <2>2
  <1>3. /\ inbox' = [inbox EXCEPT ![p] = << m >>]
        /\ emitted' = [emitted EXCEPT ![p] = emitted[p] + n]
        /\ UNCHANGED << txRing, pull, laneVars >>
    BY <1>1 DEF RadioTransmit, TxTypeOK
  <1> HIDE DEF m
  <1>4. << m >> \in Seq(Seq(TxSample)) /\ Len(<< m >>) = 1 /\ << m >> # << >> /\ << m >>[1] = m
    BY <1>2
  <1>5. emitted[p] + n \in 0 .. MaxTxSeq
    BY <1>1
  <1>6. TxTypeOK'
    <2>1. inbox' \in [TxPort -> Seq(Seq(TxSample))] /\ \A q \in TxPort : Len(inbox'[q]) <= 1
      BY <1>1, <1>3, <1>4 DEF TxTypeOK
    <2>2. QED
      BY <1>1, <1>3, <1>5, <2>1 DEF TxTypeOK, laneVars
  <1>7. /\ inbox'[p] = << m >> /\ emitted'[p] = emitted[p] + n
        /\ pull'[p] = pull[p] /\ txRing'[p] = txRing[p]
    BY <1>1, <1>3 DEF TxTypeOK
  <1>8. TxPortInv(p)'
    <2>1. OneAtATime(p)'
      BY <1>1, <1>7 DEF OneAtATime
    <2>2. NothingLostAt(p)'
      <3>1. Todo(p) = << >>
        BY <1>1 DEF Todo
      <3>2. emitted[p] = txRing[p].next
        <4>1. Len(Todo(p)) = 0 /\ txRing[p].next \in Nat
          BY <1>1, <3>1, TxPortTypes
        <4>2. QED
          BY <1>1, <4>1 DEF TxPortInv, NothingLostAt
      <3>3. Todo(p)' = m
        <4>1. << >> \o m = m
          BY <1>2
        <4>2. QED
          BY <1>1, <1>4, <1>7, <4>1 DEF Todo
      <3>4. QED
        BY <1>2, <1>7, <3>2, <3>3 DEF NothingLostAt
    <2>3. QED
      BY <1>1, <1>7, <2>1, <2>2 DEF TxPortInv, TxStored
  <1>9. \A q \in TxPort \ {p} :
          /\ txRing'[q] = txRing[q] /\ pull'[q] = pull[q]
          /\ inbox'[q] = inbox[q] /\ emitted'[q] = emitted[q]
    BY <1>1, <1>3 DEF TxTypeOK
  <1>10. QED
    BY <1>3, <1>6, <1>8, <1>9, RingRests, PortStep

-----------------------------------------------------------------------------
\* A step of one lane.
LEMMA LaneAlone ==
  ASSUME TxInv, TxTypeOK', NEW l \in Lane, UNCHANGED << txRing, pullerVars >>,
         \A k \in Lane \ {l} :
           /\ cursor'[k] = cursor[k] /\ cursorInit'[k] = cursorInit[k]
           /\ gaps'[k] = gaps[k] /\ win'[k] = win[k],
         TxLaneInv(l)'
  PROVE  TxInv'
  <1>1. ASSUME NEW p \in TxPort PROVE TxPortInv(p)'
    BY SamePort DEF TxInv, pullerVars
  <1>2. ASSUME NEW k \in Lane PROVE TxLaneInv(k)'
    <2>1. CASE k = l
      BY <2>1
    <2>2. CASE k # l
      <3>1. TxLaneInv(k)
        BY DEF TxInv
      <3>2. QED
        BY <2>2, <3>1 DEF TxLaneInv, NoGapAt, EpochAt, LaneWindow, HeldWindow
    <2>3. QED
      BY <2>1, <2>2
  <1>3. QED
    BY <1>1, <1>2 DEF TxInv

\* A lane starts where every other lane of its port started: at the beginning.
LEMMA CoInitStep ==
  ASSUME TxInv, NEW l \in Lane, CoInit(l)
  PROVE  TxInv'
  <1> DEFINE r == txRing[Src[l]]
  <1>1. /\ TxTypeOK /\ TxLaneInv(l) /\ Src[l] \in TxPort /\ ~cursorInit[l]
        /\ win[l].n \in Nat /\ gaps[l] \in Nat
    BY TxLaneTypes DEF TxInv, CoInit
  <1>2. /\ r.next \in Nat /\ r.size \in Nat /\ Earliest(r) \in Nat
        /\ Earliest(r) + r.size = r.next /\ Earliest(r) = 0
    BY <1>1, TxPortTypes, TxSizes DEF TxLaneInv, EpochAt
  <1>3. /\ cursor' = [cursor EXCEPT ![l] = Earliest(r)]
        /\ cursorInit' = [cursorInit EXCEPT ![l] = TRUE]
        /\ UNCHANGED << txRing, pullerVars, gaps, win >>
    BY DEF CoInit
  <1>4. TxTypeOK'
    BY <1>1, <1>2, <1>3 DEF TxTypeOK, pullerVars
  <1>5. cursor'[l] = Earliest(r) /\ cursorInit'[l] = TRUE
    BY <1>1, <1>3 DEF TxTypeOK
  <1>6. win[l].phase = "idle" /\ win[l].n = 0 /\ ~win[l].inRing
    BY <1>1 DEF TxLaneInv, LaneWindow
  <1>7. NoGapAt(l)'
    BY <1>1, <1>2, <1>3, <1>5, <1>6 DEF TxLaneInv, NoGapAt
  <1>8. EpochAt(l)' /\ LaneWindow(l)'
    BY <1>3, <1>5, <1>6 DEF EpochAt, LaneWindow
  <1>9. \A k \in Lane \ {l} :
          /\ cursor'[k] = cursor[k] /\ cursorInit'[k] = cursorInit[k]
          /\ gaps'[k] = gaps[k] /\ win'[k] = win[k]
    BY <1>1, <1>3 DEF TxTypeOK
  <1>10. QED
    BY <1>3, <1>4, <1>7, <1>8, <1>9, LaneAlone DEF TxLaneInv

\* The cursor is never behind the ring, so measuring moves and counts nothing.
LEMMA MeasureStep ==
  ASSUME TxInv, NEW l \in Lane, Measure(l)
  PROVE  TxInv'
  <1> DEFINE r == txRing[Src[l]]
             w == [win[l] EXCEPT !.phase = "sized", !.avail = r.next - cursor[l]]
  <1>1. /\ TxTypeOK /\ TxLaneInv(l) /\ Src[l] \in TxPort /\ cursorInit[l]
        /\ win[l] \in WinStates /\ gaps[l] \in Nat /\ cursor[l] \in Nat
        /\ win[l].phase # "held"
    BY TxLaneTypes DEF TxInv, Measure
  <1>2. r.next \in Nat /\ Earliest(r) \in Nat /\ Earliest(r) <= cursor[l]
        /\ cursor[l] + win[l].n <= r.next /\ win[l].n = 0 /\ cursor[l] <= r.next
        /\ ~win[l].inRing
    BY <1>1, TxPortTypes DEF TxLaneInv, NoGapAt, LaneWindow
  <1>3. /\ cursor' = [cursor EXCEPT ![l] = cursor[l]]
        /\ gaps' = [gaps EXCEPT ![l] = gaps[l]]
        /\ win' = [win EXCEPT ![l].phase = "sized", ![l].avail = r.next - cursor[l]]
        /\ UNCHANGED << txRing, pullerVars, cursorInit >>
    <2>1. ~(cursor[l] < Earliest(r))
      BY <1>1, <1>2
    <2>2. QED
      BY <2>1 DEF Measure
  <1>4. cursor' = cursor /\ gaps' = gaps /\ win' = [win EXCEPT ![l] = w]
    BY <1>1, <1>3 DEF TxTypeOK
  <1>5. /\ w \in WinStates /\ w.phase = "sized" /\ w.avail = r.next - cursor[l] /\ w.n = 0
        /\ ~w.inRing
    <2>1. r.next - cursor[l] \in Nat
      BY <1>1, <1>2
    <2>2. QED
      BY <1>1, <1>2, <2>1 DEF WinStates
  <1> HIDE DEF w
  <1>6. TxTypeOK'
    BY <1>1, <1>3, <1>4, <1>5 DEF TxTypeOK, pullerVars
  <1>7. win'[l] = w
    BY <1>1, <1>4 DEF TxTypeOK
  <1>8. NoGapAt(l)' /\ EpochAt(l)'
    BY <1>1, <1>2, <1>3, <1>4, <1>5, <1>7 DEF TxLaneInv, NoGapAt, EpochAt
  <1>9. LaneWindow(l)'
    <2>1. cursor[l] + w.avail <= r.next
      BY <1>1, <1>2, <1>5
    <2>2. QED
      BY <1>1, <1>3, <1>4, <1>5, <1>7, <2>1 DEF LaneWindow
  <1>10. \A k \in Lane \ {l} :
           /\ cursor'[k] = cursor[k] /\ cursorInit'[k] = cursorInit[k]
           /\ gaps'[k] = gaps[k] /\ win'[k] = win[k]
    BY <1>1, <1>3, <1>4 DEF TxTypeOK
  <1>11. QED
    BY <1>3, <1>6, <1>8, <1>9, <1>10, LaneAlone DEF TxLaneInv

\* The window was measured under the lock and only grows: it is there, and what
\* is read or pointed at are the samples of its sequence numbers.
LEMMA TakeStep ==
  ASSUME TxInv, NEW l \in Lane, NEW n \in 1 .. Batch, n <= win[l].avail,
         TakeWindow(l, n)
  PROVE  TxInv'
  <1> DEFINE r == txRing[Src[l]]
             q == cursor[l]
             place == FewerCopies /\ ViewFits(r, q, n)
             w == IF place
                  THEN [win[l] EXCEPT !.phase = "held", !.n = n, !.inRing = TRUE,
                                      !.at = CellOf(r, q)]
                  ELSE [win[l] EXCEPT !.phase = "held", !.n = n,
                                      !.data = RingRead(r, q, n)]
  <1>1. /\ TxTypeOK /\ TxLaneInv(l) /\ Src[l] \in TxPort /\ TxPortInv(Src[l])
        /\ win[l] \in WinStates /\ gaps[l] \in Nat /\ q \in Nat /\ win[l].avail \in Nat
        /\ win[l].phase = "sized" /\ n \in Nat \ {0} /\ n \in 0 .. Batch
    BY TxLaneTypes, TxSizes DEF TxInv, TakeWindow
  <1>2. /\ r \in RingOf(QueueSamples, TxSample) /\ QueueSamples \in Nat \ {0}
        /\ r.cap = QueueSamples /\ r.size \in 0 .. QueueSamples
        /\ r.next \in Nat /\ Earliest(r) \in Nat /\ Earliest(r) + r.size = r.next
        /\ r.buf \in [0 .. QueueSamples - 1 -> TxSample]
    BY <1>1, TxPortTypes, TxSizes, RingFields
  <1>3. cursorInit[l] /\ Earliest(r) <= q /\ q + win[l].avail <= r.next /\ win[l].n = 0
    BY <1>1 DEF TxLaneInv, NoGapAt, LaneWindow
  <1>4. q + n <= r.next /\ q - Earliest(r) \in Nat /\ (q - Earliest(r)) + n <= r.size
    <2> DEFINE e == Earliest(r)
               a == win[l].avail
    <2>1. /\ q \in Nat /\ a \in Nat /\ n \in Nat /\ n <= a /\ e \in Nat /\ r.size \in Nat
          /\ e + r.size = r.next /\ e <= q /\ q + a <= r.next /\ r.next \in Nat
      BY <1>1, <1>2, <1>3
    <2> HIDE DEF e, a, r, q
    <2>2. q + n <= r.next /\ q - e \in Nat /\ (q - e) + n <= r.size
      BY <2>1
    <2>3. QED
      BY <2>2 DEF e
  <1>5. ReadFits(r, q, n)
    BY <1>2, <1>3, <1>4 DEF ReadFits, Holds
  \* The cell of each sample of the window, and what it holds.
  <1>6. ASSUME NEW i \in 1 .. n
        PROVE  /\ q + i - 1 \in Nat /\ CellOf(r, q + i - 1) \in 0 .. QueueSamples - 1
               /\ CellOf(r, q + i - 1) = CellAt(r, (q - Earliest(r)) + i - 1)
               /\ r.buf[CellOf(r, q + i - 1)] = Wave(Src[l], q + i - 1)
    <2> DEFINE d == (q - Earliest(r)) + i - 1
    <2>1. /\ d \in Nat /\ d \in 0 .. r.size - 1 /\ d \in 0 .. QueueSamples
          /\ (q + i - 1) - Earliest(r) = d /\ Earliest(r) + d = q + i - 1
      <3> DEFINE e == Earliest(r)
      <3>1. /\ q \in Nat /\ n \in Nat /\ e \in Nat /\ r.size \in 0 .. QueueSamples
            /\ QueueSamples \in Nat /\ q - e \in Nat /\ (q - e) + n <= r.size
        BY <1>1, <1>2, <1>4
      <3> HIDE DEF e, r, q
      <3>2. /\ (q - e) + i - 1 \in Nat /\ (q - e) + i - 1 \in 0 .. r.size - 1
            /\ (q - e) + i - 1 \in 0 .. QueueSamples
            /\ (q + i - 1) - e = (q - e) + i - 1 /\ e + ((q - e) + i - 1) = q + i - 1
        BY <3>1
      <3>3. QED
        BY <3>2 DEF e
    <2> HIDE DEF d
    <2>2. CellOf(r, q + i - 1) = CellAt(r, d)
      BY <2>1 DEF CellOf
    <2>3. CellAt(r, d) \in 0 .. QueueSamples - 1
      BY <1>2, <2>1, CellValue
    <2>4. r.buf[CellAt(r, d)] = Wave(Src[l], Earliest(r) + d)
      BY <1>1, <2>1 DEF TxPortInv, TxStored
    <2>5. q + i - 1 \in Nat
      BY <1>1
    <2>6. QED
      BY <2>1, <2>2, <2>3, <2>4, <2>5 DEF d
  <1>7. CellOf(r, q) \in 0 .. QueueSamples - 1
    <2>1. 1 \in 1 .. n /\ q + 1 - 1 = q
      BY <1>1
    <2>2. QED
      BY <1>6, <2>1
  <1>8. RingRead(r, q, n) \in Seq(TxSample)
        /\ RingRead(r, q, n) = [i \in 1 .. n |-> Wave(Src[l], q + i - 1)]
    <2>1. \A i \in 1 .. n : r.buf[CellOf(r, q + i - 1)] \in TxSample
      BY <1>2, <1>6
    <2>2. RingRead(r, q, n) \in [1 .. n -> TxSample]
      BY <2>1 DEF RingRead
    <2>3. RingRead(r, q, n) \in Seq(TxSample)
      BY <1>1, <2>2
    <2>4. QED
      BY <1>6, <2>3 DEF RingRead
  <1>9. /\ win' = [win EXCEPT ![l] = w]
        /\ UNCHANGED << txRing, pullerVars, cursor, cursorInit, gaps >>
    BY <1>5 DEF TakeWindow
  <1>10. /\ w \in WinStates /\ w.phase = "held" /\ w.n = n
    <2>1. CellOf(r, q) \in Nat
      BY <1>7
    <2> HIDE DEF place, r, q
    <2>2. QED
      BY <1>1, <1>8, <2>1 DEF WinStates
  <1>11. TxTypeOK'
    <2> HIDE DEF w
    <2>1. QED
      BY <1>1, <1>9, <1>10 DEF TxTypeOK, pullerVars
  <1>12. win'[l] = w
    BY <1>1, <1>9 DEF TxTypeOK
  <1>13. win[l].inRing \in BOOLEAN /\ win[l].phase = "sized"
    BY <1>1 DEF WinStates
  <1>14. NoGapAt(l)' /\ EpochAt(l)'
    <2> HIDE DEF w
    <2>1. QED
      BY <1>1, <1>3, <1>4, <1>9, <1>10, <1>12 DEF TxLaneInv, NoGapAt, EpochAt
  <1>15. HeldWindow(l)'
    <2>1. CASE place
      <3>1. w.inRing = TRUE /\ w.at = CellOf(r, q)
        <4> HIDE DEF place, r, q
        <4>1. QED
          BY <1>1, <2>1 DEF WinStates
      <3>2. CellOf(r, q) + n <= QueueSamples
        BY <1>2, <2>1 DEF ViewFits
      <3>3. \A i \in 1 .. n :
              CellAt(r, (q - Earliest(r)) + i - 1) = CellAt(r, q - Earliest(r)) + i - 1
        <4> DEFINE d == q - Earliest(r)
        <4>1. d \in Nat /\ d + n <= QueueSamples /\ CellAt(r, d) + n <= QueueSamples
              /\ n \in Nat
          BY <1>1, <1>2, <1>4, <3>2 DEF CellOf
        <4> HIDE DEF d, r, q
        <4>2. r \in RingOf(QueueSamples, TxSample) /\ QueueSamples \in Nat \ {0}
          BY <1>2
        <4>3. \A i \in 1 .. n : CellAt(r, d + i - 1) = CellAt(r, d) + i - 1
          BY <4>1, <4>2, SpanCells
        <4>4. QED
          BY <4>3 DEF d
      <3> HIDE DEF w
      <3>4. QED
        BY <1>9, <1>10, <1>12, <3>1, <3>3 DEF HeldWindow, CellOf
    <2>2. CASE ~place
      <3>1. w.inRing = win[l].inRing /\ w.data = RingRead(r, q, n)
        <4> HIDE DEF place, r, q
        <4>1. QED
          BY <1>1, <2>2 DEF WinStates
      <3>2. win[l].inRing = FALSE
        BY <1>1 DEF TxLaneInv, LaneWindow
      <3> HIDE DEF w
      <3>3. QED
        BY <1>8, <1>9, <1>10, <1>12, <3>1, <3>2 DEF HeldWindow
    <2>3. QED
      BY <2>1, <2>2
  <1>16. LaneWindow(l)'
    <2> HIDE DEF w
    <2>1. QED
      BY <1>3, <1>9, <1>10, <1>12, <1>15 DEF LaneWindow
  <1>17. \A k \in Lane \ {l} :
           /\ cursor'[k] = cursor[k] /\ cursorInit'[k] = cursorInit[k]
           /\ gaps'[k] = gaps[k] /\ win'[k] = win[k]
    BY <1>1, <1>9 DEF TxTypeOK
  <1>18. QED
    BY <1>9, <1>11, <1>14, <1>16, <1>17, LaneAlone DEF TxLaneInv

\* The window is consumed and forgotten.
LEMMA AdvanceStep ==
  ASSUME TxInv, NEW l \in Lane, Advance(l)
  PROVE  TxInv'
  <1> DEFINE r == txRing[Src[l]]
  <1>1. /\ TxTypeOK /\ TxLaneInv(l) /\ Src[l] \in TxPort
        /\ win[l].n \in Nat /\ gaps[l] \in Nat /\ cursor[l] \in Nat
        /\ win[l].phase = "held" /\ cursorInit[l]
    BY TxLaneTypes DEF TxInv, Advance, TxLaneInv, LaneWindow
  <1>2. r.next \in Nat /\ Earliest(r) \in Nat
    BY <1>1, TxPortTypes
  <1>3. /\ cursor' = [cursor EXCEPT ![l] = cursor[l] + win[l].n]
        /\ win' = [win EXCEPT ![l] = NoWindow]
        /\ UNCHANGED << txRing, pullerVars, cursorInit, gaps >>
    BY DEF Advance
  <1>4. NoWindow \in WinStates
    <2>1. << >> \in Seq(TxSample)
      OBVIOUS
    <2>2. QED
      BY <2>1, TxSizes DEF NoWindow, WinStates
  <1>5. TxTypeOK'
    BY <1>1, <1>3, <1>4 DEF TxTypeOK, pullerVars
  <1>6. cursor'[l] = cursor[l] + win[l].n /\ win'[l] = NoWindow
    BY <1>1, <1>3 DEF TxTypeOK
  <1>7. NoGapAt(l)' /\ EpochAt(l)'
    <2>1. Earliest(r) <= cursor[l] /\ cursor[l] + win[l].n <= r.next /\ gaps[l] = 0
      BY <1>1 DEF TxLaneInv, NoGapAt
    <2>2. NoWindow.n = 0 /\ NoWindow.phase # "threw"
      BY DEF NoWindow
    <2>3. QED
      BY <1>1, <1>2, <1>3, <1>6, <2>1, <2>2 DEF NoGapAt, EpochAt
  <1>8. LaneWindow(l)'
    BY <1>1, <1>3, <1>6 DEF LaneWindow, NoWindow
  <1>9. \A k \in Lane \ {l} :
          /\ cursor'[k] = cursor[k] /\ cursorInit'[k] = cursorInit[k]
          /\ gaps'[k] = gaps[k] /\ win'[k] = win[k]
    BY <1>1, <1>3 DEF TxTypeOK
  <1>10. QED
    BY <1>3, <1>5, <1>7, <1>8, <1>9, LaneAlone DEF TxLaneInv

-----------------------------------------------------------------------------
LEMMA TxStep == TxInv /\ [TxNext]_txVars => TxInv'
  <1> SUFFICES ASSUME TxInv, [TxNext]_txVars PROVE TxInv'
    OBVIOUS
  <1>1. ASSUME NEW p \in TxPort, Puller(p) PROVE TxInv'
    BY <1>1, ReleaseStep, LandStep, WaitStep, ReceiveStep DEF Puller
  <1>2. ASSUME NEW p \in TxPort, NEW n \in MsgSizes, RadioTransmit(p, n) PROVE TxInv'
    BY <1>2, TransmitStep
  <1>3. ASSUME NEW l \in Lane, LaneStep(l) PROVE TxInv'
    BY <1>3, CoInitStep, MeasureStep, TakeStep, AdvanceStep DEF LaneStep, LaneTake
  <1>4. CASE UNCHANGED txVars
    <2>1. /\ txRing' = txRing /\ pull' = pull /\ inbox' = inbox /\ emitted' = emitted
          /\ cursor' = cursor /\ cursorInit' = cursorInit /\ gaps' = gaps /\ win' = win
      BY <1>4 DEF txVars, pullerVars, laneVars
    <2>2. TxTypeOK'
      BY <2>1 DEF TxInv, TxTypeOK
    <2>3. ASSUME NEW p \in TxPort PROVE TxPortInv(p)'
      BY <2>1, SamePort DEF TxInv
    <2>4. ASSUME NEW l \in Lane PROVE TxLaneInv(l)'
      BY <2>1 DEF TxInv, TxLaneInv, NoGapAt, EpochAt, LaneWindow, HeldWindow
    <2>5. QED
      BY <2>2, <2>3, <2>4 DEF TxInv
  <1>5. QED
    BY <1>1, <1>2, <1>3, <1>4 DEF TxNext

(***************************************************************************)
(* The strengthened invariant of the transmit side: what the rings store,  *)
(* what is on its way to them, where the lanes stand and what they hold,   *)
(* while the pullers discard and push without waiting for anybody.         *)
(***************************************************************************)
THEOREM TxInvariant == TxSpec => []TxInv
  <1>1. TxInit => TxInv
    BY TxInitInv
  <1>2. TxInv /\ [TxNext]_txVars => TxInv'
    BY TxStep
  <1>3. QED
    BY <1>1, <1>2, PTL DEF TxSpec

\* What a lane reads outside the lock is the stream, by the invariant alone.
LEMMA HeldIsStream ==
  ASSUME TxInv, NEW l \in Lane, win[l].phase = "held"
  PROVE  LaneInput(l) = [i \in 1 .. win[l].n |-> Wave(Src[l], cursor[l] + i - 1)]
  <1> DEFINE r == txRing[Src[l]]
             w == win[l]
             q == cursor[l]
  <1>1. /\ TxTypeOK /\ Src[l] \in TxPort /\ q \in Nat /\ w.n \in Nat
        /\ cursorInit[l] /\ HeldWindow(l) /\ TxPortInv(Src[l])
        /\ Earliest(r) <= q /\ q + w.n <= r.next
    BY TxLaneTypes DEF TxInv, TxLaneInv, LaneWindow, NoGapAt
  <1>2. /\ r.size \in 0 .. QueueSamples /\ r.next \in Nat /\ Earliest(r) \in Nat
        /\ Earliest(r) + r.size = r.next /\ QueueSamples \in Nat
    BY <1>1, TxPortTypes, TxSizes
  <1>3. CASE ~w.inRing
    BY <1>1, <1>3 DEF LaneInput, HeldWindow
  <1>4. CASE w.inRing
    <2>1. ASSUME NEW i \in 1 .. w.n
          PROVE  r.buf[w.at + i - 1] = Wave(Src[l], q + i - 1)
      <3> DEFINE d == q - Earliest(r) + i - 1
      <3>1. /\ d \in 0 .. r.size - 1 /\ Earliest(r) + d = q + i - 1
        <4> DEFINE e == Earliest(r)
                   n == w.n
        <4>1. q \in Nat /\ n \in Nat /\ e \in Nat /\ e <= q /\ q + n <= r.next
              /\ e + r.size = r.next /\ r.size \in Nat /\ i \in 1 .. n
          BY <1>1, <1>2
        <4> HIDE DEF e, n, r, q
        <4>2. q - e + i - 1 \in 0 .. r.size - 1 /\ e + (q - e + i - 1) = q + i - 1
          BY <4>1
        <4>3. QED
          BY <4>2 DEF e
      <3>2. r.buf[CellAt(r, d)] = Wave(Src[l], Earliest(r) + d)
        BY <1>1, <3>1 DEF TxPortInv, TxStored
      <3>3. CellAt(r, d) = w.at + i - 1
        BY <1>1, <1>4 DEF HeldWindow
      <3>4. QED
        BY <3>1, <3>2, <3>3
    <2>2. LaneInput(l) = [i \in 1 .. w.n |-> r.buf[w.at + i - 1]]
      BY <1>4 DEF LaneInput, SpanRead
    <2>3. QED
      BY <2>1, <2>2
  <1>5. QED
    BY <1>3, <1>4

(***************************************************************************)
(* The lanes of a port start together at its first sample, miss none, and  *)
(* read what the radio sent, in place or copied (run_producer, steps B to  *)
(* F, against run_puller).                                                 *)
(***************************************************************************)
THEOREM LanesStayAligned == TxSpec => []LanesAligned
  <1>1. TxInv => LanesAligned
    BY HeldIsStream DEF TxInv, TxLaneInv, LanesAligned, NoLaneGap, CommonEpoch,
      LaneInputStable
  <1>2. QED
    BY <1>1, TxInvariant, PTL

(***************************************************************************)
(* Every sample a radio sends is in its socket, held, or in the stream of  *)
(* its ring, once and in order, until a payload larger than the ring ends  *)
(* the puller (run_puller).                                                *)
(***************************************************************************)
THEOREM NoSampleIsLost == TxSpec => []NoSampleLost
  <1>1. TxInv => NoSampleLost
    BY DEF TxInv, TxPortInv, NoSampleLost
  <1>2. QED
    BY <1>1, TxInvariant, PTL
=============================================================================
