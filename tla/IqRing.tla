------------------------------- MODULE IqRing -------------------------------
(***************************************************************************)
(* The sample ring of src/src/ring.cpp (class IqRing), as operators on ring *)
(* records.  A ring numbers its samples: the sequence number of the oldest *)
(* stored sample is Earliest(r), that of the next one to come is r.next.   *)
(*                                                                         *)
(* The class is not synchronised.  Its users hold a mutex around each call *)
(* but keep the spans that view() and reserve() return after they release  *)
(* it: a span is modelled by the set of storage cells it covers, so that   *)
(* the modules that use a ring can say who touches which cell when.        *)
(***************************************************************************)
EXTENDS Integers, Sequences

\* The members of the class.
Ring(cap, buf, start, size, next) ==
  [cap |-> cap, buf |-> buf, start |-> start, size |-> size, next |-> next]

\* IqRing::reset: cap cells, nothing stored.  blank is the sample value {}.
RingReset(cap, blank) ==
  Ring(cap, [i \in 0 .. cap - 1 |-> blank], 0, 0, 0)

\* The rings with cap cells for samples of the set S.
RingOf(cap, S) ==
  {r \in [cap : {cap}, buf : [0 .. cap - 1 -> S], start : 0 .. cap - 1,
          size : 0 .. cap, next : Nat] : r.size <= r.next}

\* earliest_sequence() and free_capacity().
Earliest(r) == r.next - r.size
FreeCapacity(r) == r.cap - r.size

\* The storage cell d places after the oldest sample.
CellAt(r, d) == (r.start + d) % r.cap

\* Mutant of TailCell: the cell of the newest sample.
TailCellOffByOne(r) == CellAt(r, r.size - 1)

\* The cell after the newest sample: where push() writes and reserve() points.
TailCell(r) == CellAt(r, r.size)

\* The cell of a stored sequence number.
CellOf(r, q) == CellAt(r, q - Earliest(r))

(***************************************************************************)
(* push(): all of the samples or none.  They go to the cells from the tail *)
(* on, and from cell 0 after the last cell (the two block copies).         *)
(***************************************************************************)
PushFits(r, n) == n = 0 \/ r.size + n <= r.cap

RingPush(r, s) ==
  IF s = << >> \/ ~PushFits(r, Len(s)) THEN r
  ELSE Ring(r.cap,
            [i \in 0 .. r.cap - 1 |->
               LET d == (i - TailCell(r)) % r.cap
               IN  IF d < Len(s) THEN s[d + 1] ELSE r.buf[i]],
            r.start, r.size + Len(s), r.next + Len(s))

\* The range check that read() and view() share.
Holds(r, q, n) == r.cap > 0 /\ Earliest(r) <= q /\ q + n <= r.next

\* read(): the n samples from sequence number q on, when ReadFits.
ReadFits(r, q, n) == n = 0 \/ Holds(r, q, n)
RingRead(r, q, n) == [i \in 1 .. n |-> r.buf[CellOf(r, q + i - 1)]]

\* Mutants of DiscardBefore: an emptied ring starts over at cell 0; the start
\* is not wrapped.
DiscardToCellZero(r, q) ==
  IF q <= Earliest(r) \/ r.size = 0 THEN r
  ELSE IF q >= r.next
       THEN Ring(r.cap, r.buf, 0, 0, r.next)
       ELSE Ring(r.cap, r.buf, CellOf(r, q), r.next - q, r.next)

DiscardUnwrapped(r, q) ==
  IF q <= Earliest(r) \/ r.size = 0 THEN r
  ELSE IF q >= r.next
       THEN Ring(r.cap, r.buf, r.start + r.size, 0, r.next)
       ELSE Ring(r.cap, r.buf, r.start + (q - Earliest(r)), r.next - q, r.next)

(***************************************************************************)
(* discard_before(): forget everything before sequence number q.  When     *)
(* nothing remains the tail stays where it is, because a producer may hold *)
(* a reserve()d span there.                                                *)
(***************************************************************************)
DiscardBefore(r, q) ==
  IF q <= Earliest(r) \/ r.size = 0 THEN r
  ELSE IF q >= r.next
       THEN Ring(r.cap, r.buf, TailCell(r), 0, r.next)
       ELSE Ring(r.cap, r.buf, CellOf(r, q), r.next - q, r.next)

\* view(): the n samples from q on where they are stored, if they do not wrap.
ViewFits(r, q, n) ==
  /\ n > 0
  /\ Holds(r, q, n)
  /\ CellOf(r, q) + n <= r.cap

\* reserve(): room for n samples at the tail, if it does not wrap.
ReserveFits(r, n) ==
  /\ n > 0
  /\ r.cap > 0
  /\ r.size + n <= r.cap
  /\ TailCell(r) + n <= r.cap

\* commit(): the n samples written to the reserved span become visible.
RingCommit(r, n) == Ring(r.cap, r.buf, r.start, r.size + n, r.next + n)

\* A span: the n cells from cell c on, and reading and writing through it.
Span(c, n) == c .. c + n - 1
SpanRead(r, c, n) == [i \in 1 .. n |-> r.buf[c + i - 1]]
SpanWrite(r, c, s) ==
  Ring(r.cap, [i \in 0 .. r.cap - 1 |->
                 IF i \in Span(c, Len(s)) THEN s[i - c + 1] ELSE r.buf[i]],
       r.start, r.size, r.next)
=============================================================================
