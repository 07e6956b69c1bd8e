----------------------------- MODULE MCProgress -----------------------------
(***************************************************************************)
(* What must eventually happen, each under the fairness its own threads    *)
(* justify: requests on an RX port are answered and messages on a TX port  *)
(* land; warm-ups of the bridge's updates close on the dashboard, the      *)
(* metrics thread and the bridge end when told to, an update of all cells  *)
(* ends whatever the brokers do, a fight ends, and so does a series of     *)
(* fights.  `part' picks one; the bounds are smaller than those of the     *)
(* safety runs.                                                            *)
(***************************************************************************)
EXTENDS StatusStore, MetricsFeed, BridgeLoop, ProfileFanout, RobotFight, FightRunner,
        RxPorts, TxPorts

CONSTANTS p1, p2

\* Samples are told apart by their sequence numbers; p2 has no lane.
MCRow(p, q) == q
MCWave(p, q) == q
MCSrc == [l \in Lane |-> p1]

VARIABLE part

consoleVars == << storeVars, feedVars >>
bridgeVars == << loopVars, fanVars >>
battleVars == << fightVars, runnerVars >>

portVars == << rxVars, txVars >>

ProgressInit ==
  /\ part \in {"status", "metrics", "loop", "fanout", "fight", "runner", "rx"} \cup TxPort
  /\ mode \in IF part = "loop" THEN Modes ELSE {CHOOSE m \in Modes : m.feed}
  /\ StoreInit /\ FeedInit /\ LoopInit /\ FanInit /\ FightInit /\ RunnerInit
  /\ RxInit /\ TxInit

BesideNext ==
  \/ part = "status" /\ StoreNext /\ UNCHANGED << feedVars, bridgeVars, battleVars >>
  \/ part = "metrics" /\ FeedNext /\ UNCHANGED << storeVars, bridgeVars, battleVars >>
  \/ part = "loop" /\ LoopNext /\ UNCHANGED << consoleVars, fanVars, battleVars >>
  \/ part = "fanout" /\ FanNext /\ UNCHANGED << consoleVars, loopVars, battleVars >>
  \/ part = "fight" /\ FightNext /\ UNCHANGED << consoleVars, bridgeVars, runnerVars >>
  \/ part = "runner" /\ RunnerNext /\ UNCHANGED << consoleVars, bridgeVars, fightVars >>

PortNext ==
  \/ part = "rx" /\ RxNext /\ UNCHANGED txVars
  \/ \E p \in TxPort :
       /\ part = p
       /\ \/ Puller(p) \/ \E n \in MsgSizes : RadioTransmit(p, n)
          \/ \E l \in LanesOf(p) : LaneStep(l)
       /\ UNCHANGED rxVars

ProgressNext ==
  /\ UNCHANGED part
  /\ \/ BesideNext /\ UNCHANGED portVars
     \/ PortNext /\ UNCHANGED << consoleVars, bridgeVars, battleVars >>

(***************************************************************************)
(* The threads of a port keep running (wait_for_ring returns after at most *)
(* 5 ms), so a step that stays possible is taken.  A request on an RX port *)
(* and an answer on a TX port are the radio's choice and get no fairness.  *)
(***************************************************************************)
RxFairness ==
  \A p \in RxPort :
    /\ WF_rxVars(part = "rx" /\ MeasureRoom(p))
    /\ WF_rxVars(/\ part = "rx"
                 /\ \E n \in 1 .. row[p].room :
                      rxRing[p].next + n <= MaxRxSeq /\ Reserve(p, n))
    /\ WF_rxVars(part = "rx" /\ (Fill(p, RowValues(p)) \/ Publish(p)))
    /\ WF_rxVars(part = "rx" /\ (RepTake(p) \/ RepSend(p) \/ RepRelease(p)))

TxFairness ==
  /\ \A p \in TxPort :
       WF_txVars(part = p /\ (PullRelease(p) \/ PullLand(p) \/ PullReceive(p)))
  /\ \A l \in Lane :
       /\ WF_txVars(part = Src[l] /\ (CoInit(l) \/ Measure(l) \/ Advance(l)))
       /\ WF_txVars(part = Src[l] /\ LaneTake(l))

\* Telemetry keeps arriving; the metrics thread runs and its clock goes on.
ConsoleFairness ==
  /\ \A l \in 1 .. NumLinks : WF_storeVars(part = "status" /\ TelemetryLoop(l))
  /\ WF_feedVars(part = "metrics" /\ FeedThread)
  /\ WF_feedVars(part = "metrics" /\ FeedTick)

\* The bridge process is scheduled, its clock goes on, and every update and
\* every request ends one way or the other, at the latest by its timeout.
BridgeFairness ==
  /\ WF_loopVars(part = "loop" /\ LoopStep)
  /\ WF_loopVars(part = "loop" /\ LoopTick)
  /\ WF_loopVars(part = "loop" /\ (EndUpdate \/ FailUpdate))
  /\ WF_fanVars(part = "fanout" /\ Joined)
  /\ WF_fanVars(part = "fanout" /\ Raised)
  /\ WF_fanVars(part = "fanout" /\ CloseClients)
  /\ \A b \in Broker :
       /\ WF_fanVars(part = "fanout" /\ SendRequest(b))
       /\ WF_fanVars(part = "fanout" /\ (ReceiveReply(b) \/ RequestTimeout(b)))

\* Arena, brains and workers run, time passes, and an arena ends by its own
\* time limit or is given up.
BattleFairness ==
  /\ WF_fightVars(part = "fight" /\ FightTick)
  /\ WF_fightVars(part = "fight" /\ Arena)
  /\ WF_fightVars(part = "fight" /\ ArenaOver)
  /\ \A r \in Robot : WF_fightVars(part = "fight" /\ Think(r))
  /\ \A s \in Slots : WF_runnerVars(part = "runner" /\ WorkerStep(s))
  /\ \A f \in Fights : WF_runnerVars(part = "runner" /\ ArenaEnds(f))
  /\ WF_runnerVars(part = "runner" /\ Join)

ProgressSpec ==
  /\ ProgressInit /\ [][ProgressNext]_<< part, consoleVars, bridgeVars, battleVars, portVars >>
  /\ RxFairness /\ TxFairness /\ ConsoleFairness /\ BridgeFairness /\ BattleFairness

\* An accepted request is answered unless the stream has ended: "A request
\* was accepted; it must be answered with real processed IQ."
RequestAnswered ==
  \A p \in RxPort :
    rep[p].phase = "wait_row" ~>
      \/ rep[p].phase = "wait_req"
      \/ rxRing[p].next = MaxRxSeq /\ rxSlots[p] = << >>

\* A held message reaches the ring (run_puller): waiting for room always ends,
\* because the lanes that read the ring go on consuming, and a port without
\* lanes is drained.
HeldMessageLands ==
  \A p \in TxPort : pull[p].pending # << >> ~> pull[p].pending = << >>

\* Whatever is begun ends: requests and messages of the radios, warm-ups on the
\* dashboard, the metrics thread, the bridge's loop, its updates, a fight and a
\* series of them.
EverythingEnds ==
  /\ RequestAnswered /\ HeldMessageLands
  /\ WarmupsClose /\ FeedStops /\ LoopStops /\ TransactionEnds /\ FightEnds /\ RunnerEnds
=============================================================================
