------------------------------- MODULE Relay -------------------------------
(***************************************************************************)
(* The whole relay of Broker::run (src/src/broker.cpp): the transmit side  *)
(* of the ports (TxPorts), the receive side (RxPorts), one producer thread *)
(* per radio node that joins them, and the lock-step radios.               *)
(*                                                                         *)
(* A producer takes ONE window length per slot for all its incoming lanes  *)
(* and all its RX ports.  It walks over lanes and ports in loops that take *)
(* one lock at a time; each turn of a loop is a step here, in any order,   *)
(* so the pullers and REP workers interleave with every turn.              *)
(***************************************************************************)
EXTENDS TxPorts, RxPorts, SequencesExt

CONSTANTS
  Node,        \* the radio nodes
  RxNode,      \* the owner of an RX port: [RxPort -> Node]
  Dst,         \* the RX port a lane feeds: [Lane -> RxPort]
  TxNode,      \* the node whose radio transmits on a port: [TxPort -> Node]
  HeadStart    \* samples a radio may transmit ahead of what it received

RowsOf(n) == {p \in RxPort : RxNode[p] = n}
Incoming(n) == {l \in Lane : RxNode[Dst[l]] = n}
LanesInto(p) == {l \in Lane : Dst[l] = p}

\* What RX sample q has to be: the superposition of sample q of each lane.
AlignedRow(p, q) == [l \in LanesInto(p) |-> Wave(Src[l], q)]

ASSUME RelayAssumption ==
  /\ RxNode \in [RxPort -> Node]
  /\ Dst \in [Lane -> RxPort]
  /\ TxNode \in [TxPort -> Node]
  /\ HeadStart \in Nat \ {0}
  /\ \A p \in RxPort, q \in 0 .. MaxRxSeq : Row(p, q) = AlignedRow(p, q)

VARIABLES
  prod,     \* the producer of a node: step, lanes or ports left, window
  received, \* samples the radio has received on an RX port
  served    \* the lengths of the replies of an RX port, for the properties

relayVars == << prod, received, served >>
vars == << txVars, rxVars, relayVars >>

\* A processed sample: what the channel reads from the lanes of its row.
Superpose(p, i) == [l \in LanesInto(p) |-> LaneInput(l)[i]]

Init ==
  /\ TxInit
  /\ RxInit
  /\ prod = [n \in Node |-> [pc |-> "room", todo |-> RowsOf(n), count |-> 0]]
  /\ received = [p \in RxPort |-> 0]
  /\ served = [p \in RxPort |-> << >>]

\* The producer of n, at step pc, has taken the turn of x.  After the last
\* turn it goes on as after says.
Turn(n, pc, x, after) ==
  /\ prod[n].pc = pc
  /\ x \in prod[n].todo
  /\ prod' = IF prod[n].todo = {x} THEN [prod EXCEPT ![n] = after]
             ELSE [prod EXCEPT ![n].todo = @ \ {x}]

Step(pc, todo, count) == [pc |-> pc, todo |-> todo, count |-> count]

\* The room of the slot: the smallest headroom seen, at most a batch.
Room(n) == Min({row[p].room : p \in RowsOf(n)} \cup {Batch})
\* Mutant of Common: nothing until every lane holds a whole batch.
CommonWholeBatch(n) ==
  IF \A l \in Incoming(n) : win[l].avail >= Batch THEN Batch ELSE 0
\* The common window: the least that the lanes were seen to hold.
Common(n) == Min({win[l].avail : l \in Incoming(n)} \cup {Batch})

\* (A) Look at the headroom of every RX port, again if one has none.  Then go
\* on to the lanes, the first time to their co-initialisation; a node without
\* lanes zero-fills.
AskRoom(n, p) ==
  /\ MeasureRoom(p)
  /\ Turn(n, "room", p,
       CASE Room(n)' = 0 -> Step("room", RowsOf(n), 0)
         [] Room(n)' # 0 /\ Incoming(n) = {} -> Step("row", RowsOf(n), Room(n)')
         [] OTHER -> Step(IF \A l \in Incoming(n) : cursorInit[l]
                          THEN "data" ELSE "init", Incoming(n), 0))
  /\ UNCHANGED << txVars, received, served >>

\* (B) Co-initialise one lane.
InitLane(n, l) ==
  /\ CoInit(l)
  /\ Turn(n, "init", l, Step("data", Incoming(n), 0))
  /\ UNCHANGED << rxVars, received, served >>

\* Mutant of MeasureLane: the output room does not bound the window.
MeasureLaneUnbounded(n, l) ==
  /\ Measure(l)
  /\ Turn(n, "data", l,
       IF Common(n)' = 0 THEN Step("data", Incoming(n), 0)
       ELSE Step("read", Incoming(n), Common(n)'))
  /\ UNCHANGED << rxVars, received, served >>

\* (C) Measure the lanes, again if one has nothing.
MeasureLane(n, l) ==
  /\ Measure(l)
  /\ Turn(n, "data", l,
       IF Common(n)' = 0 THEN Step("data", Incoming(n), 0)
       ELSE Step("read", Incoming(n), Min({Common(n)', Room(n)})))
  /\ UNCHANGED << rxVars, received, served >>

\* (D) Take the window of one lane.
ReadLane(n, l) ==
  /\ TakeWindow(l, prod[n].count)
  /\ Turn(n, "read", l, Step("row", RowsOf(n), prod[n].count))
  /\ UNCHANGED << rxVars, received, served >>

\* (E) Find the storage of one row, then let the channel write it.
ReserveRow(n, p) ==
  /\ rxRing[p].next + prod[n].count <= MaxRxSeq
  /\ Reserve(p, prod[n].count)
  /\ Turn(n, "row", p, Step("process", RowsOf(n), prod[n].count))
  /\ UNCHANGED << txVars, received, served >>

ProcessRow(n, p) ==
  /\ Fill(p, [i \in 1 .. prod[n].count |-> Superpose(p, i)])
  /\ Turn(n, "process", p,
       IF Incoming(n) = {} THEN Step("publish", RowsOf(n), prod[n].count)
       ELSE Step("advance", Incoming(n), prod[n].count))
  /\ UNCHANGED << txVars, received, served >>

\* (F) Advance one lane cursor by the common count.
AdvanceLane(n, l) ==
  /\ Advance(l)
  /\ Turn(n, "advance", l, Step("publish", RowsOf(n), prod[n].count))
  /\ UNCHANGED << rxVars, received, served >>

\* (H) Publish one row; after the last one the next slot begins.
PublishRow(n, p) ==
  /\ Publish(p)
  /\ Turn(n, "publish", p, Step("room", RowsOf(n), 0))
  /\ UNCHANGED << txVars, received, served >>

Producer(n) ==
  \/ \E l \in Lane : InitLane(n, l) \/ MeasureLane(n, l) \/ ReadLane(n, l)
                     \/ AdvanceLane(n, l)
  \/ \E p \in RxPort : AskRoom(n, p) \/ ReserveRow(n, p) \/ ProcessRow(n, p)
                       \/ PublishRow(n, p)

(***************************************************************************)
(* The threads and radios at the ports.                                    *)
(***************************************************************************)
PullerStep(p) == Puller(p) /\ UNCHANGED << rxVars, relayVars >>

RepWorker(p) ==
  \/ /\ RepTake(p) \/ RepRelease(p)
     /\ UNCHANGED << txVars, relayVars >>
  \/ /\ RepSend(p)
     /\ received' = [received EXCEPT ![p] = @ + rep[p].take]
     /\ served' = [served EXCEPT ![p] = Append(@, rep[p].take)]
     /\ UNCHANGED << txVars, prod >>

\* A radio asks for more samples on an RX port.
RadioReceive(p) == RepRequest(p) /\ UNCHANGED << txVars, relayVars >>

\* A lock-step radio transmits at most HeadStart samples more than it has
\* received on every RX port of its node.
RadioSend(p, n) ==
  /\ \A r \in RowsOf(TxNode[p]) : emitted[p] + n <= received[r] + HeadStart
  /\ RadioTransmit(p, n)
  /\ UNCHANGED << rxVars, relayVars >>

Next ==
  \/ \E n \in Node : Producer(n)
  \/ \E p \in TxPort : PullerStep(p) \/ \E n \in MsgSizes : RadioSend(p, n)
  \/ \E p \in RxPort : RepWorker(p) \/ RadioReceive(p)

Spec == Init /\ [][Next]_vars

-----------------------------------------------------------------------------
\* Sibling ports get the same windows: the replies of two RX ports of one
\* node have the same lengths in the same order, although their REP workers
\* are not coordinated.
SiblingWindows ==
  \A n \in Node : \A p, r \in DOMAIN served : {p, r} \subseteq RowsOf(n) =>
    IsPrefix(served[p], served[r]) \/ IsPrefix(served[r], served[p])

(***************************************************************************)
(* What makes it inductive: what the producer of a node has done with each *)
(* port and lane when it stands at a step, some turns taken and the rest   *)
(* due, and that it keeps lanes and rows at the same sample.               *)
(***************************************************************************)
RelayTypeOK ==
  /\ prod \in [Node -> [pc : {"room", "init", "data", "read", "row", "process",
                              "advance", "publish"},
                        todo : SUBSET (RxPort \cup Lane), count : 0 .. Batch]]
  /\ received \in [RxPort -> Nat]
  /\ served \in [RxPort -> Seq(Nat)]

ProdAt(n) ==
  /\ prod[n].todo \subseteq IF prod[n].pc \in {"room", "row", "process", "publish"}
                            THEN RowsOf(n) ELSE Incoming(n)
  /\ prod[n].pc \notin {"room", "init", "data"} => prod[n].count >= 1

\* The producer's row on p, due for the turn of this step or past it.
RowPhases(pc, due) ==
  CASE pc = "room" -> IF due THEN {"idle", "room"} ELSE {"room"}
    [] pc = "row" -> IF due THEN {"room"} ELSE {"fill"}
    [] pc = "process" -> IF due THEN {"fill"} ELSE {"full"}
    [] pc = "advance" -> {"full"}
    [] pc = "publish" -> IF due THEN {"full"} ELSE {"idle"}
    [] OTHER -> {"room"}

RowAt(n, p) ==
  LET due == p \in prod[n].todo
  IN  /\ row[p].phase \in RowPhases(prod[n].pc, due)
      /\ prod[n].pc \in {"init", "data", "read"} => row[p].room >= 1
      /\ prod[n].pc = "read" \/ (prod[n].pc = "row" /\ due) =>
           prod[n].count <= row[p].room
      /\ row[p].phase \in {"fill", "full"} => row[p].n = prod[n].count

\* ... and its window on l.
LanePhases(pc, due) ==
  CASE pc = "data" -> IF due THEN {"idle", "sized"} ELSE {"sized"}
    [] pc = "read" -> IF due THEN {"sized"} ELSE {"held"}
    [] pc \in {"row", "process"} -> {"held"}
    [] pc = "advance" -> IF due THEN {"held"} ELSE {"idle"}
    [] OTHER -> {"idle", "sized"}

LaneAt(n, l) ==
  LET due == l \in prod[n].todo
  IN  /\ win[l].phase \in LanePhases(prod[n].pc, due)
      /\ prod[n].pc = "read" /\ due => prod[n].count <= win[l].avail
      /\ win[l].phase = "held" => win[l].n = prod[n].count
      /\ cursorInit[l] \/ prod[n].pc = "room" \/ (prod[n].pc = "init" /\ due)

\* A lane is at the sample that its RX port publishes next, or ahead of it by
\* the window that has been read and is about to be published.
Lead(n, l) ==
  IF \/ prod[n].pc = "advance" /\ l \notin prod[n].todo
     \/ prod[n].pc = "publish" /\ Dst[l] \in prod[n].todo
  THEN prod[n].count ELSE 0

LaneInStep(n, l) ==
  IF cursorInit[l] THEN cursor[l] = rxRing[Dst[l]].next + Lead(n, l)
  ELSE rxRing[Dst[l]].next = 0

\* The windows of p so far: those sent, then those not sent yet, then the one
\* that the producer is about to publish.
Unsent(p) ==
  CASE rep[p].phase = "release" -> Tail(rxSlots[p])
    [] rep[p].phase = "send" /\ ~rep[p].inRing -> << rep[p].take >> \o rxSlots[p]
    [] OTHER -> rxSlots[p]
Windows(p) == served[p] \o Unsent(p)
Announced(n, p) ==
  IF prod[n].pc = "publish" /\ p \in prod[n].todo
  THEN Append(Windows(p), prod[n].count) ELSE Windows(p)

NodeInv(n) ==
  /\ ProdAt(n)
  /\ \A p \in RowsOf(n) : RowAt(n, p)
  /\ \A l \in Incoming(n) : LaneAt(n, l) /\ LaneInStep(n, l)
  /\ \A p, r \in RowsOf(n) : Announced(n, p) = Announced(n, r)

RelayInv == RxInv /\ TxInv /\ RelayTypeOK /\ \A n \in Node : NodeInv(n)
=============================================================================
