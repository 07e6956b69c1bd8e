------------------------------ MODULE MCPorts ------------------------------
(***************************************************************************)
(* The ports of a radio, model-checked one at a time: an RX port with its  *)
(* producer and its REP worker, a TX port read by two lanes, a TX port     *)
(* that nobody reads, and the threads of a small relay that wake each      *)
(* other.  These share no state here, so `port' picks, in the initial      *)
(* state, the one whose threads run.                                       *)
(***************************************************************************)
EXTENDS RxPorts, TxPorts, RelayThreads, Pacer

CONSTANTS p1, p2

VARIABLE port

\* Samples are told apart by their sequence numbers; p2 has no lane.
MCRow(p, q) == q
MCWave(p, q) == q
MCSrc == [l \in Lane |-> p1]

RxSide == port = "rx" /\ RxNext /\ UNCHANGED << txVars, threadVars, paceVars, port >>

TxSide(p) ==
  /\ port = p
  /\ \/ Puller(p) \/ \E n \in MsgSizes : RadioTransmit(p, n)
     \/ \E l \in LanesOf(p) : LaneStep(l)
  /\ UNCHANGED << rxVars, threadVars, paceVars, port >>

ThreadSide ==
  port = "threads" /\ ThreadsNext /\ UNCHANGED << rxVars, txVars, paceVars, port >>
PaceSide ==
  port = "pace" /\ PaceNext /\ UNCHANGED << rxVars, txVars, threadVars, port >>

PortsInit ==
  /\ port \in {"rx", "threads", "pace"} \cup TxPort
  /\ RxInit /\ TxInit /\ ThreadsInit /\ PaceInit
PortsNext == RxSide \/ ThreadSide \/ PaceSide \/ \E p \in TxPort : TxSide(p)

(***************************************************************************)
(* Scheduling, for the threads of the small relay: each is scheduled, but  *)
(* the waits of 5 ms are not counted on: a blocked thread runs on when it  *)
(* has been notified.  Sockets give up after 100 ms, Broker::run polls     *)
(* every 20 ms; what the radios do gets no fairness.                       *)
(***************************************************************************)
ThreadFairness ==
  /\ \A t \in TxThread : WF_threadVars(port = "threads" /\ PullerThread(t))
  /\ WF_threadVars(port = "threads" /\ ProducerThread)
  /\ \A r \in RxThread :
       /\ WF_threadVars(port = "threads" /\ WorkerThread(r))
       /\ WF_threadVars(port = "threads" /\ stopped /\ WorkerSend(r))
  /\ WF_threadVars(port = "threads" /\ (Poll \/ (stopped /\ EndRun)))
  /\ WF_threadVars(port = "threads" /\ (NotifyAll \/ JoinAll))

PortsSpec ==
  /\ PortsInit /\ [][PortsNext]_<< rxVars, txVars, threadVars, paceVars, port >>
  /\ ThreadFairness

(***************************************************************************)
(* The queue of windows a port holds: those in the ring, cut by rx_slots,  *)
(* without the one already sent, after the one the worker has copied out.  *)
(***************************************************************************)
WindowStart(p, k) ==
  rxCursor[p] + FoldLeft(LAMBDA a, b : a + b, 0, SubSeq(rxSlots[p], 1, k - 1))
RingWindows(p) ==
  [k \in 1 .. Len(rxSlots[p]) |->
     RingRead(rxRing[p], WindowStart(p, k), rxSlots[p][k])]
QueueOf(p) ==
  CASE rep[p].phase = "release" -> Tail(RingWindows(p))
    [] rep[p].phase = "send" /\ ~rep[p].inRing ->
         << rep[p].data >> \o RingWindows(p)
    [] OTHER -> RingWindows(p)

Queue == INSTANCE WindowQueue WITH
  queue <- [p \in RxPort |-> QueueOf(p)],
  published <- [p \in RxPort |-> rxRing[p].next]

\* The ring, the boundary deque and the two threads implement the queue of
\* windows: replies are the published windows, whole, in order, unchanged.
ImplementsWindowQueue == Queue!Spec

\* What the threads of the broker promise to finish: a run that is asked to stop
\* does, and a relay in which nothing moves any more is stopped.
ThreadsEnd == RunStops /\ WedgeCaught
=============================================================================
