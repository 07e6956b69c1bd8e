------------------------------ MODULE TxPorts ------------------------------
(***************************************************************************)
(* The transmit side of the broker's ports (src/src/broker.cpp): for each  *)
(* TX port a ring and the puller thread that fills it from the radio, and  *)
(* for each lane (one source port read by one destination node) the cursor *)
(* with which the node's producer reads that ring.                         *)
(*                                                                         *)
(*   - The puller discards what every lane has consumed, and pulls the     *)
(*     next message only when a whole batch fits.  A message that does not *)
(*     fit is held and retried, never dropped.                             *)
(*   - A lane starts at the oldest sample of its ring, measures how much   *)
(*     is there, reads its window in place WITHOUT the lock (or copies one *)
(*     that wraps), and only then moves its cursor.                        *)
(*                                                                         *)
(* Each section the code runs under ring_mutex is one action.  The wait    *)
(* for room ends after at most 5 ms and goes back to the top of the loop,  *)
(* so it is not a state of its own.                                        *)
(***************************************************************************)
EXTENDS IqRing, RuntimeConfig, FiniteSetsExt

CONSTANTS
  TxPort,          \* the TX ports
  Lane,            \* the lanes
  Src,             \* the TX port each lane reads: [Lane -> TxPort]
  Wave(_, _),      \* Wave(p, q): sample q that the radio transmits on port p
  Blank,           \* the content of a cell never written
  MsgSizes,        \* the lengths of the messages the radios send
  MaxTxSeq         \* bound of the model: samples transmitted per port

ASSUME TxAssumption ==
  /\ Src \in [Lane -> TxPort]
  /\ MsgSizes \subseteq Nat
  /\ MaxTxSeq \in Nat

VARIABLES
  txRing,      \* PortRuntime::tx_ring
  pull,        \* the puller: its state, request_outstanding, pending
  inbox,       \* the reply waiting in the REQ socket, if any
  emitted,     \* samples the radio has handed to its socket
  cursor,      \* LinkRuntime::cursor
  cursorInit,  \* LinkRuntime::cursor_init
  gaps,        \* tx_sequence_gaps, per lane
  win          \* the producer's window on a lane: avail, inputs[k], samples

pullerVars == << pull, inbox, emitted >>
laneVars == << cursor, cursorInit, gaps, win >>
txVars == << txRing, pullerVars, laneVars >>

LanesOf(p) == {l \in Lane : Src[l] = p}

NoWindow == [phase |-> "idle", avail |-> 0, n |-> 0, inRing |-> FALSE,
             at |-> 0, data |-> << >>]

TxInit ==
  /\ txRing = [p \in TxPort |-> RingReset(QueueSamples, Blank)]
  /\ pull = [p \in TxPort |-> [phase |-> "top", asked |-> FALSE,
                               pending |-> << >>]]
  /\ inbox = [p \in TxPort |-> << >>]
  /\ emitted = [p \in TxPort |-> 0]
  /\ cursor = [l \in Lane |-> 0]
  /\ cursorInit = [l \in Lane |-> FALSE]
  /\ gaps = [l \in Lane |-> 0]
  /\ win = [l \in Lane |-> NoWindow]

(***************************************************************************)
(* The puller.                                                             *)
(***************************************************************************)

\* Mutant of Needed: the fastest lane decides.
NeededByFastest(p) ==
  Max({IF cursorInit[l] THEN cursor[l] ELSE Earliest(txRing[p]) : l \in LanesOf(p)})

\* The oldest sample of p that some lane still needs.  A lane that has not
\* started yet needs everything that is buffered.
Needed(p) ==
  LET r == txRing[p]
      need(l) == IF cursorInit[l] THEN cursor[l] ELSE Earliest(r)
  IN  Min({need(l) : l \in LanesOf(p)} \cup {r.next})

\* What stays in p's ring when the consumed samples are released.  Without a
\* lane everything is discarded, without a started one nothing.
Kept(p) ==
  LET r == txRing[p]
  IN  IF LanesOf(p) = {} THEN DiscardBefore(r, r.next)
      ELSE IF \E l \in LanesOf(p) : cursorInit[l] THEN DiscardBefore(r, Needed(p))
      ELSE r

\* Top of the loop, under ring_mutex: release what is consumed, and see if
\* there is room for a batch.
PullRelease(p) ==
  /\ pull[p].phase = "top"
  /\ txRing' = [txRing EXCEPT ![p] = Kept(p)]
  /\ pull' = [pull EXCEPT ![p].phase =
                IF FreeCapacity(Kept(p)) < Batch THEN "full" ELSE "room"]
  /\ UNCHANGED << inbox, emitted, laneVars >>

\* Mutant of PullLand: a message that does not fit is dropped.
PullLandDrops(p) ==
  /\ pull[p].phase \in {"room", "full"}
  /\ pull[p].pending # << >>
  /\ txRing' = [txRing EXCEPT ![p] = RingPush(@, pull[p].pending)]
  /\ pull' = [pull EXCEPT ![p].phase = "top", ![p].pending = << >>]
  /\ UNCHANGED << inbox, emitted, laneVars >>

\* A message is held: push it, or keep it and wait for room.
PullLand(p) ==
  /\ pull[p].phase \in {"room", "full"}
  /\ pull[p].pending # << >>
  /\ txRing' = [txRing EXCEPT ![p] = RingPush(@, pull[p].pending)]
  /\ pull' = [pull EXCEPT ![p].phase = "top",
                ![p].pending = IF PushFits(txRing[p], Len(@)) THEN << >> ELSE @]
  /\ UNCHANGED << inbox, emitted, laneVars >>

\* No message is held: wait unless a whole batch fits, else have a request
\* outstanding and wait for its reply.
PullAsk(p) ==
  /\ pull[p].phase \in {"room", "full"}
  /\ pull[p].pending = << >>
  /\ pull' = IF pull[p].phase = "full"
             THEN [pull EXCEPT ![p].phase = "top"]
             ELSE [pull EXCEPT ![p].phase = "recv", ![p].asked = TRUE]
  /\ UNCHANGED << txRing, inbox, emitted, laneVars >>

\* zmq_send of the request, or zmq_recv of the reply, timed out.
PullTimeout(p) ==
  /\ \/ /\ pull[p].phase = "room" /\ pull[p].pending = << >>
        /\ ~pull[p].asked
     \/ pull[p].phase = "recv" /\ inbox[p] = << >>
  /\ pull' = [pull EXCEPT ![p].phase = "top"]
  /\ UNCHANGED << txRing, inbox, emitted, laneVars >>

\* recv_samples_msg: a payload larger than the ring is refused by throwing,
\* which ends the thread; any other one is held for the next turn.
PullReceive(p) ==
  /\ pull[p].phase = "recv"
  /\ inbox[p] # << >>
  /\ pull' = IF Len(inbox[p][1]) > QueueSamples
             THEN [pull EXCEPT ![p].phase = "threw"]
             ELSE [pull EXCEPT ![p].phase = "top", ![p].asked = FALSE,
                               ![p].pending = inbox[p][1]]
  /\ inbox' = [inbox EXCEPT ![p] = << >>]
  /\ UNCHANGED << txRing, emitted, laneVars >>

\* The radio answers the outstanding request with its next n samples.
RadioTransmit(p, n) ==
  /\ pull[p].asked
  /\ pull[p].phase # "threw"
  /\ inbox[p] = << >>
  /\ emitted[p] + n <= MaxTxSeq
  /\ inbox' = [inbox EXCEPT ![p] =
                 << [i \in 1 .. n |-> Wave(p, emitted[p] + i - 1)] >>]
  /\ emitted' = [emitted EXCEPT ![p] = @ + n]
  /\ UNCHANGED << txRing, pull, laneVars >>

(***************************************************************************)
(* A lane, driven by the producer of its destination node.                 *)
(***************************************************************************)

\* (B) First slot: start at the oldest buffered sample of the source.
CoInit(l) ==
  /\ ~cursorInit[l]
  /\ cursor' = [cursor EXCEPT ![l] = Earliest(txRing[Src[l]])]
  /\ cursorInit' = [cursorInit EXCEPT ![l] = TRUE]
  /\ UNCHANGED << txRing, pullerVars, gaps, win >>

\* (C) Measure what the source holds for this lane; a cursor that fell behind
\* the ring is moved up to it and counted as a sequence gap.
Measure(l) ==
  LET r == txRing[Src[l]]
      behind == cursor[l] < Earliest(r)
      cur == IF behind THEN Earliest(r) ELSE cursor[l]
  IN  /\ cursorInit[l]
      /\ win[l].phase \in {"idle", "sized"}
      /\ cursor' = [cursor EXCEPT ![l] = cur]
      /\ gaps' = [gaps EXCEPT ![l] = IF behind THEN @ + 1 ELSE @]
      /\ win' = [win EXCEPT ![l].phase = "sized", ![l].avail = r.next - cur]
      /\ UNCHANGED << txRing, pullerVars, cursorInit >>

\* (D) Take the window of n samples at the cursor: in place, or copied if it
\* wraps.  A window that is not in the ring makes the producer throw.
TakeWindow(l, n) ==
  LET r == txRing[Src[l]]
      q == cursor[l]
      taken == [win[l] EXCEPT !.phase = "held", !.n = n]
  IN  /\ win[l].phase = "sized"
      /\ win' = [win EXCEPT ![l] =
           IF FewerCopies /\ ViewFits(r, q, n)
           THEN [taken EXCEPT !.inRing = TRUE, !.at = CellOf(r, q)]
           ELSE IF ReadFits(r, q, n)
                THEN [taken EXCEPT !.data = RingRead(r, q, n)]
                ELSE [taken EXCEPT !.phase = "threw"]]
      /\ UNCHANGED << txRing, pullerVars, cursor, cursorInit, gaps >>

\* What the channel reads from the lane during (E).
LaneInput(l) ==
  IF win[l].inRing THEN SpanRead(txRing[Src[l]], win[l].at, win[l].n)
  ELSE win[l].data

\* (F) The window is consumed.
Advance(l) ==
  /\ win[l].phase = "held"
  /\ cursor' = [cursor EXCEPT ![l] = @ + win[l].n]
  /\ win' = [win EXCEPT ![l] = NoWindow]
  /\ UNCHANGED << txRing, pullerVars, cursorInit, gaps >>

-----------------------------------------------------------------------------
(***************************************************************************)
(* The ports on their own: radios that answer with messages of any of the  *)
(* given lengths, and lanes that take windows of any length independently  *)
(* of each other.                                                          *)
(***************************************************************************)
Puller(p) ==
  PullRelease(p) \/ PullLand(p) \/ PullAsk(p) \/ PullTimeout(p) \/ PullReceive(p)

LaneTake(l) == \E n \in 1 .. Batch : n <= win[l].avail /\ TakeWindow(l, n)

LaneStep(l) ==
  CoInit(l) \/ Measure(l) \/ LaneTake(l) \/ Advance(l)

TxNext ==
  \/ \E p \in TxPort : Puller(p) \/ \E n \in MsgSizes : RadioTransmit(p, n)
  \/ \E l \in Lane : LaneStep(l)

TxSpec == TxInit /\ [][TxNext]_txVars

-----------------------------------------------------------------------------
TxSample == {Blank} \cup {Wave(p, q) : p \in TxPort, q \in 0 .. MaxTxSeq}

PullStates ==
  [phase : {"top", "room", "full", "recv", "threw"}, asked : BOOLEAN,
   pending : Seq(TxSample)]
WinStates ==
  [phase : {"idle", "sized", "held", "threw"}, avail : Nat, n : 0 .. Batch,
   inRing : BOOLEAN, at : Nat, data : Seq(TxSample)]

\* Types of the transmit side: positions inside the storage, lengths inside the
\* batch, at most one reply in the socket.
TxTypeOK ==
  /\ txRing \in [TxPort -> RingOf(QueueSamples, TxSample)]
  /\ pull \in [TxPort -> PullStates]
  /\ inbox \in [TxPort -> Seq(Seq(TxSample))]
  /\ emitted \in [TxPort -> 0 .. MaxTxSeq]
  /\ \A p \in TxPort : Len(inbox[p]) <= 1
  /\ cursor \in [Lane -> Nat] /\ cursorInit \in [Lane -> BOOLEAN]
  /\ gaps \in [Lane -> Nat]
  /\ win \in [Lane -> WinStates]

(***************************************************************************)
(* No lane ever loses samples: a started lane's cursor, and the window it  *)
(* holds, stay inside what its ring stores while the puller discards and   *)
(* pushes.  So tx_sequence_gaps stays 0 and no serve window vanishes.      *)
(***************************************************************************)
NoGapAt(l) ==
  LET r == txRing[Src[l]] IN
  /\ cursorInit[l] => Earliest(r) <= cursor[l] /\ cursor[l] + win[l].n <= r.next
  /\ gaps[l] = 0
  /\ win[l].phase # "threw"
NoLaneGap == \A l \in Lane : NoGapAt(l)

(***************************************************************************)
(* No ring discards anything before all its lanes have started, so every   *)
(* lane starts at sequence number 0: the superposition sums all lanes from *)
(* a common epoch (run_producer, step B).                                  *)
(***************************************************************************)
EpochAt(l) == ~cursorInit[l] => Earliest(txRing[Src[l]]) = 0
CommonEpoch == \A l \in Lane : EpochAt(l)

(***************************************************************************)
(* The samples a lane reads without the lock are the samples the radio     *)
(* sent for those sequence numbers, for as long as the lane holds them:    *)
(* "the storage is stable until (F)".                                      *)
(***************************************************************************)
LaneInputStable ==
  \A l \in Lane : win[l].phase = "held" =>
    LaneInput(l) = [i \in 1 .. win[l].n |-> Wave(Src[l], cursor[l] + i - 1)]

(***************************************************************************)
(* Every sample the radio has sent is in the socket, held by the puller or *)
(* in the ring's stream, once and in order; a message that finds no room   *)
(* is held and retried, never dropped.                                     *)
(***************************************************************************)
Todo(p) == pull[p].pending \o (IF inbox[p] = << >> THEN << >> ELSE inbox[p][1])
NothingLostAt(p) ==
  pull[p].phase # "threw" =>
    /\ emitted[p] = txRing[p].next + Len(Todo(p))
    /\ \A i \in 1 .. Len(Todo(p)) : Todo(p)[i] = Wave(p, txRing[p].next + i - 1)
NoSampleLost == \A p \in TxPort : NothingLostAt(p)

\* The lanes that read one TX port agree on where the stream is (run_producer,
\* steps B to E): same epoch, no sample skipped, none changed under a reader.
LanesAligned == TxTypeOK /\ NoLaneGap /\ CommonEpoch /\ LaneInputStable

(***************************************************************************)
(* The inductive invariant behind the two, per port and per lane.          *)
(***************************************************************************)

\* The ring stores the stream, ending just before next.
TxStored(p) ==
  \A d \in 0 .. txRing[p].size - 1 :
    txRing[p].buf[CellAt(txRing[p], d)] = Wave(p, Earliest(txRing[p]) + d)

\* The REQ socket: a reply only to a request, a request only when no message is
\* held.
OneAtATime(p) ==
  /\ pull[p].asked => pull[p].pending = << >>
  /\ inbox[p] # << >> => pull[p].asked
  /\ pull[p].phase = "recv" => pull[p].asked

\* A window held in place is the run of cells of its sequence numbers, a copied
\* one their samples.
HeldWindow(l) ==
  LET r == txRing[Src[l]]
      w == win[l]
  IN  IF w.inRing
      THEN \A i \in 1 .. w.n : CellAt(r, cursor[l] - Earliest(r) + i - 1) = w.at + i - 1
      ELSE w.data = [i \in 1 .. w.n |-> Wave(Src[l], cursor[l] + i - 1)]

LaneWindow(l) ==
  /\ win[l].phase # "idle" => cursorInit[l]
  /\ win[l].phase = "sized" => cursor[l] + win[l].avail <= txRing[Src[l]].next
  /\ IF win[l].phase = "held" THEN HeldWindow(l)
     ELSE win[l].n = 0 /\ ~win[l].inRing

TxPortInv(p) == TxStored(p) /\ OneAtATime(p) /\ NothingLostAt(p)
TxLaneInv(l) == NoGapAt(l) /\ EpochAt(l) /\ LaneWindow(l)

TxInv ==
  /\ TxTypeOK
  /\ \A p \in TxPort : TxPortInv(p)
  /\ \A l \in Lane : TxLaneInv(l)
=============================================================================
