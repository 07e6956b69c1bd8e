------------------------------ MODULE MCRelay ------------------------------
(***************************************************************************)
(* Three small relays: one transmitter heard on two RX ports of a node     *)
(* (sibling rows), two transmitters summed on one RX port (a               *)
(* superposition), and a lock-step radio that hears itself.  The module    *)
(* extends the first and instantiates the other two over the same          *)
(* variables; `shape' picks one in the initial state.                      *)
(***************************************************************************)
EXTENDS Relay

CONSTANTS A, B

VARIABLE shape

\* A port is named after its node; a lane after its ends.
MCWave(p, q) == << p, q >>
MCSrcOf(lanes) == [l \in lanes |-> l[1]]
MCDstOf(lanes) == [l \in lanes |-> l[2]]
MCNodeOf(ports) == [p \in ports |-> p[1]]
MCSrc == MCSrcOf(Lane)
MCDst == MCDstOf(Lane)
MCRxNode == MCNodeOf(RxPort)
MCTxNode == MCNodeOf(TxPort)

\* One transmitter heard by both RX ports of a node: sibling rows.
OneTx == {<< A, 0 >>}
TwoRx == {<< B, 0 >>, << B, 1 >>}
FanOutLanes == OneTx \X TwoRx

\* Two transmitters heard by one RX port: a superposition of two sources.
TwoTx == {<< A, 0 >>, << A, 1 >>}
OneRx == {<< B, 0 >>}
FanInLanes == TwoTx \X OneRx
FanInRow(p, q) == [l \in FanInLanes |-> MCWave(l[1], q)]

FanIn == INSTANCE Relay WITH
  TxPort <- TwoTx, RxPort <- OneRx, Lane <- FanInLanes,
  Src <- MCSrcOf(FanInLanes), Dst <- MCDstOf(FanInLanes),
  TxNode <- MCNodeOf(TwoTx), RxNode <- MCNodeOf(OneRx), Row <- FanInRow,
  MsgSizes <- {2}, MaxTxSeq <- 4

\* A lock-step radio that hears itself: one node, one lane.
LoopPorts == {<< A, 0 >>}
LoopLanes == LoopPorts \X LoopPorts
LoopRow(p, q) == [l \in LoopLanes |-> MCWave(l[1], q)]

Loop == INSTANCE Relay WITH
  Node <- {A}, TxPort <- LoopPorts, RxPort <- LoopPorts, Lane <- LoopLanes,
  Src <- MCSrcOf(LoopLanes), Dst <- MCDstOf(LoopLanes),
  TxNode <- MCNodeOf(LoopPorts), RxNode <- MCNodeOf(LoopPorts),
  Row <- LoopRow, MsgSizes <- {1, 2}, HeadStart <- 2,
  MaxTxSeq <- 5, MaxRxSeq <- 5

RelayInit ==
  \/ shape = "fan out" /\ Init
  \/ shape = "fan in" /\ FanIn!Init
  \/ shape = "loop" /\ Loop!Init

RelayNext ==
  /\ \/ shape = "fan out" /\ Next
     \/ shape = "fan in" /\ FanIn!Next
     \/ shape = "loop" /\ Loop!Next
  /\ UNCHANGED shape

(***************************************************************************)
(* Scheduling, as the loop needs it: every thread keeps running; a request *)
(* to a connected radio is not refused for ever; a radio asks for the next *)
(* window when it has got the last one and transmits what its lock-step    *)
(* rule allows.                                                            *)
(***************************************************************************)
LoopFairness ==
  /\ WF_vars(shape = "loop" /\ Loop!Producer(A))
  /\ \A p \in LoopPorts :
       /\ WF_vars(shape = "loop" /\ Loop!PullerStep(p))
       /\ SF_vars(shape = "loop" /\ Loop!PullAsk(p) /\ Loop!PullerStep(p))
       /\ WF_vars(shape = "loop" /\ \E n \in {1, 2} : Loop!RadioSend(p, n))
       /\ WF_vars(shape = "loop" /\ Loop!RepWorker(p))
       /\ WF_vars(shape = "loop" /\ Loop!RadioReceive(p))

RelaySpec == RelayInit /\ [][RelayNext]_<< vars, shape >> /\ LoopFairness

\* The relay never dead-locks lock-step radios: as long as each radio sends
\* and asks, every RX port gets the whole stream.
StreamDelivered ==
  <>(shape = "loop" => \A p \in LoopPorts : received[p] = 5)

\* The relay implements its receive side as RxPorts specifies it: the windows
\* its producers choose, and the superpositions they write, are those the
\* specification of the ports allows (run_producer, steps A to H).
ImplementsRxPorts ==
  /\ \/ shape = "fan out" /\ RxInit
     \/ shape = "fan in" /\ FanIn!RxInit
     \/ shape = "loop" /\ Loop!RxInit
  /\ [][\/ shape = "fan out" /\ RxNext
        \/ shape = "fan in" /\ FanIn!RxNext
        \/ shape = "loop" /\ Loop!RxNext]_rxVars
=============================================================================
