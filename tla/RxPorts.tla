------------------------------ MODULE RxPorts ------------------------------
(***************************************************************************)
(* The receive side of the broker's ports (src/src/broker.cpp): for each   *)
(* RX port an output ring, the deque of window lengths published into it,  *)
(* and the two threads that share them.                                    *)
(*                                                                         *)
(*   - The producer of the owning node measures the headroom, reserves a   *)
(*     row (in the ring's own tail if that is contiguous, else in a        *)
(*     staging buffer), fills the row WITHOUT the lock, and publishes it.  *)
(*   - The port's REP worker answers a request with exactly one published  *)
(*     window.  It sends the window straight from the ring, WITHOUT the    *)
(*     lock, and releases it after the send; a window that wraps is copied *)
(*     out and released first.                                             *)
(*                                                                         *)
(* Each section the code runs under rx_mutex is one action.  What a thread *)
(* does to a span it holds outside the lock takes time: the reserved cells *)
(* hold Torn from Reserve until Fill, and a reply's content is read when   *)
(* the send ends.                                                          *)
(***************************************************************************)
EXTENDS IqRing, RuntimeConfig, FiniteSets

CONSTANTS
  RxPort,            \* the RX ports
  Row(_, _),         \* Row(p, q): sample q of port p's processed stream
  Torn,              \* the content of a cell that is being written
  MaxRxSeq           \* bound of the model: samples published per port

ASSUME RxAssumption == MaxRxSeq \in Nat

VARIABLES
  rxRing,     \* PortRuntime::rx_ring
  rxSlots,    \* PortRuntime::rx_slots, the lengths of the published windows
  rxCursor,   \* PortRuntime::rx_cursor
  row,        \* the producer's view of this port: room, rows[r], row_in_ring[r]
  rep,        \* the REP worker: its state, take, in_ring and reply_buf
  reply       \* the last reply put on the wire

rxVars == << rxRing, rxSlots, rxCursor, row, rep, reply >>

\* rx_ring.reset(rx_ring_batches * batch) and rx_high_water = batch.
RxCapacity == RxRingBatches * Batch
RxHighWater == Batch

NoRow == [phase |-> "idle", room |-> 0, n |-> 0, inRing |-> FALSE, at |-> 0,
          data |-> << >>]
NoReply == [phase |-> "wait_req", take |-> 0, inRing |-> FALSE, at |-> 0,
            data |-> << >>]

RxInit ==
  /\ rxRing = [p \in RxPort |-> RingReset(RxCapacity, Torn)]
  /\ rxSlots = [p \in RxPort |-> << >>]
  /\ rxCursor = [p \in RxPort |-> 0]
  /\ row = [p \in RxPort |-> NoRow]
  /\ rep = [p \in RxPort |-> NoReply]
  /\ reply = [p \in RxPort |-> << >>]

\* Mutants of Headroom: the whole ring; the mark whatever the ring holds.
HeadroomToCapacity(r) == FreeCapacity(r)
HeadroomIgnoringSize(r) == RxHighWater

\* rx_headroom(): bounded by the run-ahead mark, not by the capacity.
Headroom(r) ==
  IF r.size >= RxHighWater THEN 0
  ELSE IF RxHighWater - r.size <= FreeCapacity(r)
       THEN RxHighWater - r.size ELSE FreeCapacity(r)

(***************************************************************************)
(* The producer.                                                           *)
(***************************************************************************)

\* (A) One look at the port's headroom; repeated while some port has none.
MeasureRoom(p) ==
  /\ row[p].phase \in {"idle", "room"}
  /\ row' = [row EXCEPT ![p].phase = "room", ![p].room = Headroom(rxRing[p])]
  /\ UNCHANGED << rxRing, rxSlots, rxCursor, rep, reply >>

\* (E) The row for a window of n samples: the ring's tail, or staging storage.
Reserve(p, n) ==
  LET r == rxRing[p]
      direct == DirectRows /\ ReserveFits(r, n)
  IN  /\ row[p].phase = "room"
      /\ row' = [row EXCEPT ![p] =
                   [phase |-> "fill", room |-> @.room, n |-> n,
                    inRing |-> direct, at |-> TailCell(r), data |-> << >>]]
      /\ rxRing' = IF direct
                   THEN [rxRing EXCEPT ![p] =
                           SpanWrite(r, TailCell(r), [i \in 1 .. n |-> Torn])]
                   ELSE rxRing
      /\ UNCHANGED << rxSlots, rxCursor, rep, reply >>

\* (E) process_superposition has written samples vals to the row.
Fill(p, vals) ==
  /\ row[p].phase = "fill"
  /\ row' = [row EXCEPT ![p].phase = "full",
                        ![p].data = IF row[p].inRing THEN << >> ELSE vals]
  /\ rxRing' = IF row[p].inRing
               THEN [rxRing EXCEPT ![p] = SpanWrite(@, row[p].at, vals)]
               ELSE rxRing
  /\ UNCHANGED << rxSlots, rxCursor, rep, reply >>

\* Mutant of Publish: the samples without their boundary.
PublishWithoutBoundary(p) ==
  /\ row[p].phase = "full"
  /\ rxRing' = [rxRing EXCEPT ![p] = IF row[p].inRing
                                     THEN RingCommit(@, row[p].n)
                                     ELSE RingPush(@, row[p].data)]
  /\ row' = [row EXCEPT ![p] = NoRow]
  /\ UNCHANGED << rxSlots, rxCursor, rep, reply >>

\* (H) Publish the row and its length under one lock.  A staged row that the
\* ring rejects makes the producer throw and stop the broker.
Publish(p) ==
  LET n == row[p].n
      accepted == row[p].inRing \/ PushFits(rxRing[p], n)
  IN  /\ row[p].phase = "full"
      /\ rxRing' = [rxRing EXCEPT ![p] = IF row[p].inRing
                                         THEN RingCommit(@, n)
                                         ELSE RingPush(@, row[p].data)]
      /\ rxSlots' = IF accepted THEN [rxSlots EXCEPT ![p] = Append(@, n)]
                    ELSE rxSlots
      /\ row' = [row EXCEPT ![p] = IF accepted THEN NoRow
                                   ELSE [NoRow EXCEPT !.phase = "threw"]]
      /\ UNCHANGED << rxCursor, rep, reply >>

(***************************************************************************)
(* The REP worker.                                                         *)
(***************************************************************************)

\* zmq_recv returned a request.
RepRequest(p) ==
  /\ rep[p].phase = "wait_req"
  /\ rep' = [rep EXCEPT ![p].phase = "wait_row"]
  /\ UNCHANGED << rxRing, rxSlots, rxCursor, row, reply >>

\* Mutant of ReleaseWindow: the boundary stays queued.
ReleaseWithoutPop(p, n) ==
  /\ rxCursor' = [rxCursor EXCEPT ![p] = @ + n]
  /\ rxRing' = [rxRing EXCEPT ![p] = DiscardBefore(@, rxCursor[p] + n)]
  /\ UNCHANGED rxSlots

\* rx_cursor += take, discard_before(rx_cursor), rx_slots.pop_front().
ReleaseWindow(p, n) ==
  /\ rxCursor' = [rxCursor EXCEPT ![p] = @ + n]
  /\ rxRing' = [rxRing EXCEPT ![p] = DiscardBefore(@, rxCursor[p] + n)]
  /\ rxSlots' = [rxSlots EXCEPT ![p] = Tail(@)]

\* Mutant of RepTake: the reply is whatever the ring holds by now.
RepTakeAll(p) ==
  LET n == rxRing[p].size
  IN  /\ rep[p].phase = "wait_row"
      /\ rxSlots[p] # << >>
      /\ rep' = [rep EXCEPT ![p] =
                   [phase |-> "send", take |-> n, inRing |-> FALSE, at |-> 0,
                    data |-> RingRead(rxRing[p], rxCursor[p], n)]]
      /\ rxCursor' = [rxCursor EXCEPT ![p] = @ + n]
      /\ rxRing' = [rxRing EXCEPT ![p] = DiscardBefore(@, rxCursor[p] + n)]
      /\ rxSlots' = [rxSlots EXCEPT ![p] = << >>]
      /\ UNCHANGED << row, reply >>

\* Take the oldest published window, whole: in place, or copied if it wraps.
\* A window that is no longer in the ring makes the worker throw.
RepTake(p) ==
  LET n == Head(rxSlots[p])
      r == rxRing[p]
      q == rxCursor[p]
  IN  /\ rep[p].phase = "wait_row"
      /\ rxSlots[p] # << >>
      /\ IF FewerCopies /\ ViewFits(r, q, n)
         THEN /\ rep' = [rep EXCEPT ![p] =
                           [phase |-> "send", take |-> n, inRing |-> TRUE,
                            at |-> CellOf(r, q), data |-> << >>]]
              /\ UNCHANGED << rxRing, rxSlots, rxCursor >>
         ELSE IF ReadFits(r, q, n)
         THEN /\ rep' = [rep EXCEPT ![p] =
                           [phase |-> "send", take |-> n, inRing |-> FALSE,
                            at |-> 0, data |-> RingRead(r, q, n)]]
              /\ ReleaseWindow(p, n)
         ELSE /\ rep' = [rep EXCEPT ![p].phase = "threw"]
              /\ UNCHANGED << rxRing, rxSlots, rxCursor >>
      /\ UNCHANGED << row, reply >>

\* What the worker sends: the cells it views, or its own copy.
Outgoing(p) ==
  IF rep[p].inRing THEN SpanRead(rxRing[p], rep[p].at, rep[p].take)
  ELSE rep[p].data

\* send_samples succeeded.
RepSend(p) ==
  /\ rep[p].phase = "send"
  /\ reply' = [reply EXCEPT ![p] = Outgoing(p)]
  /\ rep' = [rep EXCEPT ![p] = IF @.inRing THEN [@ EXCEPT !.phase = "release"]
                               ELSE NoReply]
  /\ UNCHANGED << rxRing, rxSlots, rxCursor, row >>

\* A window sent in place is released after the send.
RepRelease(p) ==
  /\ rep[p].phase = "release"
  /\ ReleaseWindow(p, rep[p].take)
  /\ rep' = [rep EXCEPT ![p] = NoReply]
  /\ UNCHANGED << row, reply >>

-----------------------------------------------------------------------------
(***************************************************************************)
(* The port on its own: a producer that follows the protocol above with    *)
(* windows of any length the headroom allows, and a peer that may send a   *)
(* request whenever the worker waits for one.                              *)
(***************************************************************************)
RowValues(p) == [i \in 1 .. row[p].n |-> Row(p, rxRing[p].next + i - 1)]

RxProducer(p) ==
  \/ MeasureRoom(p)
  \/ \E n \in 1 .. row[p].room : rxRing[p].next + n <= MaxRxSeq /\ Reserve(p, n)
  \/ Fill(p, RowValues(p))
  \/ Publish(p)

RxRepWorker(p) ==
  \/ RepRequest(p)
  \/ RepTake(p)
  \/ RepSend(p)
  \/ RepRelease(p)

RxNext == \E p \in RxPort : RxProducer(p) \/ RxRepWorker(p)

RxSpec == RxInit /\ [][RxNext]_rxVars

-----------------------------------------------------------------------------
RowSpan(p) == Span(row[p].at, row[p].n)
SendSpan(p) == Span(rep[p].at, rep[p].take)

\* The row of p is a span of the ring that the producer holds.
RowInTail(p) == row[p].phase \in {"fill", "full"} /\ row[p].inRing
\* The worker of p holds a view of the ring.
Viewing(p) == rep[p].phase \in {"send", "release"} /\ rep[p].inRing

\* The sequence number of the first sample of the window the worker holds.
SendBase(p) ==
  IF rep[p].inRing THEN rxCursor[p] ELSE rxCursor[p] - rep[p].take

\* What a cell can hold.
Sample == {Torn} \cup {Row(p, q) : p \in RxPort, q \in 0 .. MaxRxSeq}

RowStates ==
  [phase : {"idle", "room", "fill", "full", "threw"}, room : 0 .. Batch,
   n : 0 .. Batch, inRing : BOOLEAN, at : Nat, data : Seq(Sample)]
RepStates ==
  [phase : {"wait_req", "wait_row", "send", "release", "threw"},
   take : 0 .. Batch, inRing : BOOLEAN, at : Nat, data : Seq(Sample)]

\* Types: ring positions stay inside the storage, lengths inside the batch.
RxTypeOK ==
  /\ rxRing \in [RxPort -> RingOf(RxCapacity, Sample)]
  /\ rxSlots \in [RxPort -> Seq(1 .. Batch)]
  /\ rxCursor \in [RxPort -> Nat]
  /\ row \in [RxPort -> RowStates]
  /\ rep \in [RxPort -> RepStates]
  /\ reply \in [RxPort -> Seq(Sample)]

(***************************************************************************)
(* A reply leaves as published: from the moment the worker takes a window  *)
(* until the send is over, the samples it is sending are the samples the   *)
(* producer wrote for those sequence numbers, although the producer writes *)
(* to the same ring without a lock meanwhile (run_rep_worker: "the window  *)
(* stays intact while it is not discarded").                               *)
(***************************************************************************)
RxReplyIntact ==
  \A p \in RxPort : rep[p].phase = "send" =>
    Outgoing(p) = [i \in 1 .. rep[p].take |-> Row(p, SendBase(p) + i - 1)]

(***************************************************************************)
(* The two spans that threads hold outside rx_mutex never share a cell:    *)
(* the row the producer fills in the ring's tail (DIRECT_ROWS) and the     *)
(* window the REP worker sends from the ring (FEWER_COPIES).               *)
(***************************************************************************)
RxNoSharedCell ==
  \A p \in RxPort : RowInTail(p) /\ Viewing(p) => RowSpan(p) \cap SendSpan(p) = {}

(***************************************************************************)
(* The latency the RX ring adds is at most one batch, counting the row in  *)
(* preparation: the headroom measured in (A) is still there in (H).        *)
(***************************************************************************)
RunAheadAt(p) ==
  rxRing[p].size + (IF row[p].phase \in {"fill", "full"} THEN row[p].n
                    ELSE row[p].room) <= RxHighWater

RxRunAhead == \A p \in RxPort : RunAheadAt(p)

(***************************************************************************)
(* The two exceptions of the RX path are unreachable: the ring never       *)
(* rejects a reserved push, and a published window never vanishes from it. *)
(***************************************************************************)
NoThrowAt(p) == row[p].phase # "threw" /\ rep[p].phase # "threw"

RxNeverThrows == \A p \in RxPort : NoThrowAt(p)

(***************************************************************************)
(* Window boundaries and samples agree: the queued lengths cut exactly the *)
(* samples between the worker's cursor and the end of the ring, so a reply *)
(* is one whole published window ("a queued boundary always has its        *)
(* samples already in the ring").                                          *)
(***************************************************************************)
Cuts(slots, first, end) ==
  \E b \in [0 .. Len(slots) -> first .. end] :
     /\ b[0] = first
     /\ b[Len(slots)] = end
     /\ \A i \in 1 .. Len(slots) : b[i] = b[i - 1] + slots[i]
     /\ \A i, j \in 0 .. Len(slots) : i <= j => b[i] <= b[j]

BoundsAt(p) ==
  /\ rxCursor[p] = Earliest(rxRing[p])
  /\ Cuts(rxSlots[p], rxCursor[p], rxRing[p].next)

RxBounds == \A p \in RxPort : BoundsAt(p)

-----------------------------------------------------------------------------
(***************************************************************************)
(* What makes the properties above inductive.                              *)
(***************************************************************************)

\* The ring stores the published stream, sample by sample.
RxStored(p) ==
  \A d \in 0 .. rxRing[p].size - 1 :
    rxRing[p].buf[CellAt(rxRing[p], d)] = Row(p, Earliest(rxRing[p]) + d)

\* A row in preparation has its place at the ring's tail, wherever the worker
\* has moved the start meanwhile, and a full one has the next samples.
RxRowInv(p) ==
  /\ row[p].phase \in {"fill", "full"} =>
       /\ row[p].n >= 1
       /\ rxRing[p].next + row[p].n <= MaxRxSeq
       /\ row[p].inRing => /\ row[p].at = TailCell(rxRing[p])
                           /\ row[p].at + row[p].n <= RxCapacity
  /\ row[p].phase = "full" =>
       IF row[p].inRing
       THEN \A i \in 1 .. row[p].n :
              rxRing[p].buf[row[p].at + i - 1] = Row(p, rxRing[p].next + i - 1)
       ELSE row[p].data = [i \in 1 .. row[p].n |-> Row(p, rxRing[p].next + i - 1)]

\* A window in the worker's hands is the oldest one in the ring, in place, or
\* a copy of the samples just before the cursor.
RxRepInv(p) ==
  /\ rep[p].phase \in {"send", "release"} => rep[p].take >= 1
  /\ rep[p].phase = "release" => rep[p].inRing
  /\ Viewing(p) => /\ rxSlots[p] # << >>
                   /\ rep[p].take = Head(rxSlots[p])
                   /\ rep[p].at = rxRing[p].start
                   /\ rep[p].at + rep[p].take <= RxCapacity
  /\ rep[p].phase = "send" /\ ~rep[p].inRing =>
       /\ rep[p].take <= rxCursor[p]
       /\ rep[p].data = [i \in 1 .. rep[p].take |->
                           Row(p, rxCursor[p] - rep[p].take + i - 1)]

RxPortInv(p) ==
  /\ RunAheadAt(p)
  /\ NoThrowAt(p)
  /\ BoundsAt(p)
  /\ RxStored(p)
  /\ RxRowInv(p)
  /\ RxRepInv(p)

RxInv == RxTypeOK /\ \A p \in RxPort : RxPortInv(p)

\* An RX ring and the two threads that use it without the lock: positions and
\* lengths fit, the spans they touch stay apart, no more than a batch runs ahead
\* of the radio, and the queued boundaries cut what the ring holds.
RxRingSound == RxTypeOK /\ RxNoSharedCell /\ RxRunAhead /\ RxBounds
=============================================================================
