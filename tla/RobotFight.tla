---------------------------- MODULE RobotFight -----------------------------
(***************************************************************************)
(* The control loop of a robot fight (use_cases/robot_fight): the arena    *)
(* simulates two robots and referees; each robot is driven by a brain, a   *)
(* process of its own that receives STATE datagrams and sends CMD          *)
(* datagrams over UDP, directly, through the handicap proxy of fight.py or *)
(* through modem.py.  A datagram stays in its set until too many later     *)
(* ones have overtaken it: one that is not received by then is lost, one   *)
(* received twice is a duplicate, and any order of receipt is possible.    *)
(*                                                                         *)
(* Wall clock and simulation time are counted in loop periods.  Poses,     *)
(* wheel speeds and policies are left out: a command is known by its       *)
(* sequence number, and physics decides freely who is out or has fallen.   *)
(***************************************************************************)
EXTENDS Integers, FiniteSets

CONSTANTS
  Robot,         \* the two robots
  Brained,       \* those whose brain is running
  TTL,           \* --ttl-ms of the brains
  RejectWindow,  \* 1000 in drain_commands
  MaxOvertaken,  \* a datagram overtaken by that many later ones is lost
  StatePeriod,   \* 1 / --state-hz
  Balance,       \* --bot balance
  HoldMax,       \* --hold-max-s
  TimeLimit,     \* --time-limit
  MaxCatchup,    \* --max-catchup-steps
  OverRepeats,   \* --over-repeats
  MaxSeconds,    \* --max-seconds of the brains
  MaxCmd,        \* bound of the model: commands a brain sends
  MaxReceived    \* bound of the model: CMD datagrams an arena socket receives

ASSUME FightAssumption ==
  /\ Cardinality(Robot) = 2 /\ Brained \subseteq Robot
  /\ {TTL, StatePeriod, HoldMax, TimeLimit, OverRepeats, MaxSeconds, MaxCmd, MaxReceived} \subseteq Nat
  /\ {RejectWindow, MaxOvertaken, MaxCatchup} \subseteq Nat \ {0}
  /\ Balance \in BOOLEAN /\ MaxOvertaken <= RejectWindow
  /\ StatePeriod > 0 /\ TimeLimit <= MaxSeconds

VARIABLES
  clock,    \* the wall clock
  arena,    \* the arena's loop
  robot,    \* RobotIO of each robot
  brain,    \* Brain of each robot
  cmds,     \* CMD datagrams on their way to the arena, per robot
  states,   \* STATE datagrams on their way to the brain, per robot
  starved,  \* history: simulated time a robot was without a fresh command
  samples   \* history: the round trips a brain has recorded

fightVars == << clock, arena, robot, brain, cmds, states, starved, samples >>

NoState == [seq |-> 0, sent |-> 0, echo |-> 0, echoSent |-> 0, flag |-> "running"]
Smaller(a, b) == IF a <= b THEN a ELSE b

\* RobotIO, before any command.
NewRobot == [dest |-> FALSE, last |-> 0, first |-> 0, sent |-> 0, at |-> 0,
             received |-> 0, rejected |-> 0, gaps |-> 0, stale |-> TRUE,
             ever |-> FALSE, since |-> 0, total |-> 0, seq |-> 0]

\* Brain.__init__
NewBrain == [pc |-> "kick", seq |-> 0, state |-> NoState, input |-> NoState,
             age |-> -1, at |-> 0, echoed |-> 0, rtt |-> -1, over |-> "running"]

FightInit ==
  /\ clock = 0
  /\ arena = [pc |-> "drain", sim |-> 0, holding |-> Balance, nextState |-> 0,
              winner |-> "none", repeats |-> 0]
  /\ robot = [r \in Robot |-> NewRobot]
  /\ brain = [r \in Robot |->
       IF r \in Brained THEN NewBrain ELSE [NewBrain EXCEPT !.pc = "absent"]]
  /\ cmds = [r \in Robot |-> {}]
  /\ states = [r \in Robot |-> {}]
  /\ starved = [r \in Robot |-> 0]
  /\ samples = [r \in Robot |-> {}]

\* Sending d: datagrams that d overtakes by too much are not delivered any
\* more (the proxy's loss and outages, the modem before it knows a brain, UDP).
OnTheWay(net, d) == {e \in net \cup {d} : d.seq - e.seq < MaxOvertaken}

(***************************************************************************)
(* The arena.                                                              *)
(***************************************************************************)

\* Reordered or duplicate: the newer command is kept.
Rejected(r, d) == d.seq <= robot[r].last /\ robot[r].last - d.seq < RejectWindow

\* Mutant of Gaps: the datagram itself is counted as missing.
GapsOffByOne(r, d) ==
  IF robot[r].last # 0 /\ d.seq > robot[r].last + 1 THEN d.seq - robot[r].last ELSE 0

\* Commands that must have been lost, or overtaken, before this one.
Gaps(r, d) ==
  IF robot[r].last # 0 /\ d.seq > robot[r].last + 1 THEN d.seq - robot[r].last - 1 ELSE 0

\* One turn of the loop of drain_commands.
DrainCommand(r, d) ==
  /\ arena.pc = "drain"
  /\ robot[r].received < MaxReceived
  /\ LET heard == [robot[r] EXCEPT !.dest = TRUE, !.received = @ + 1,
                                   !.gaps = @ + Gaps(r, d)]
     IN  robot' = [robot EXCEPT ![r] =
           IF Rejected(r, d) THEN [heard EXCEPT !.rejected = @ + 1]
           ELSE [heard EXCEPT !.last = d.seq, !.sent = d.sent, !.at = clock,
                              !.first = IF @ = 0 THEN d.seq ELSE @]]
  /\ UNCHANGED << clock, arena, brain, cmds, states, starved, samples >>

\* apply_controls: is the last command still fresh?  Stale intervals count
\* from the first fresh command on.
ApplyControls(r) ==
  LET q == robot[r]
      fresh == q.last # 0 /\ clock - q.at <= TTL
  IN  IF fresh
      THEN [q EXCEPT !.stale = FALSE, !.ever = TRUE,
                     !.total = IF q.stale /\ q.ever THEN @ + arena.sim - q.since ELSE @]
      ELSE [q EXCEPT !.stale = TRUE,
                     !.since = IF q.stale THEN @ ELSE arena.sim]

\* hold_upright and its release: the starter lets go once both robots have
\* had a fresh command, or after HoldMax.
ArenaHolding ==
  arena.holding /\ ~((\A r \in Robot : robot[r].ever) \/ arena.sim >= HoldMax)

Opponent(s) == CHOOSE r \in Robot : r \notin s

\* The referee: both_fell, fall, both_out, ring_out, timeout or timeout_edge.
\* `outer' is the robot farther from the centre at the time limit, or "none"
\* when they differ by less than the margin.
Referee(out, fallen, outer, t) ==
  CASE fallen = Robot -> "draw"
    [] fallen # {} /\ fallen # Robot -> Opponent(fallen)
    [] fallen = {} /\ out = Robot -> "draw"
    [] fallen = {} /\ out # {} /\ out # Robot -> Opponent(out)
    [] OTHER -> IF t < TimeLimit THEN "none"
                ELSE IF outer = "none" THEN "draw" ELSE Opponent({outer})

\* send_states: a STATE to every robot whose brain has been heard of.  It
\* echoes the last accepted command and that command's send time.
StateDatagram(q, flag) ==
  [seq |-> q.seq + 1, sent |-> clock, echo |-> q.last, echoSent |-> q.sent, flag |-> flag]

Sent(io, flag) ==
  /\ robot' = [r \in Robot |-> IF io[r].dest THEN [io[r] EXCEPT !.seq = @ + 1] ELSE io[r]]
  /\ states' = [r \in Robot |->
       IF io[r].dest THEN OnTheWay(states[r], StateDatagram(io[r], flag[r])) ELSE states[r]]

\* The rest of a turn of Arena.run: hold, physics up to the wall clock, STATE
\* datagrams when due, referee.
ArenaLoop(out, fallen, outer) ==
  LET holding == ArenaHolding
      t == Smaller(clock, arena.sim + MaxCatchup)
      io == IF t > arena.sim THEN [r \in Robot |-> ApplyControls(r)] ELSE robot
      winner == Referee(out, fallen, outer, t)
      due == t >= arena.nextState
  IN  /\ arena.pc = "drain"
      /\ holding => fallen = {}
      /\ arena' = [arena EXCEPT !.sim = t, !.holding = holding, !.winner = winner,
                     !.nextState = IF due THEN t + StatePeriod ELSE @,
                     !.pc = IF winner = "none" THEN "drain" ELSE "over"]
      /\ starved' = [r \in Robot |->
           starved[r] + IF io[r].stale /\ io[r].ever THEN t - arena.sim ELSE 0]
      /\ IF due THEN Sent(io, [r \in Robot |-> "running"])
         ELSE robot' = io /\ UNCHANGED states
      /\ UNCHANGED << clock, brain, cmds, samples >>

\* FLAG_OVER with FLAG_WON, FLAG_LOST or neither.
Flag(r) ==
  IF arena.winner = "draw" THEN "draw"
  ELSE IF arena.winner = r THEN "won" ELSE "lost"

\* The brains are told OverRepeats times.
ArenaOver ==
  /\ arena.pc = "over"
  /\ IF arena.repeats < OverRepeats
     THEN /\ Sent(robot, [r \in Robot |-> Flag(r)])
          /\ arena' = [arena EXCEPT !.repeats = @ + 1]
     ELSE /\ arena' = [arena EXCEPT !.pc = "done"]
          /\ UNCHANGED << robot, states >>
  /\ UNCHANGED << clock, brain, cmds, starved, samples >>

(***************************************************************************)
(* A brain: a receiver thread and the control loop, under one lock.        *)
(***************************************************************************)

\* send_command; it echoes the newest STATE received, not the one decided on.
SendCommand(r, b) ==
  LET d == [seq |-> b.seq + 1, sent |-> clock, echo |-> b.state.seq, echoSent |-> b.state.sent]
  IN  /\ cmds' = [cmds EXCEPT ![r] = OnTheWay(@, d)]
      /\ brain' = [brain EXCEPT ![r] = [b EXCEPT !.seq = @ + 1, !.pc = "tick",
           !.input = NoState, !.age = -1, !.at = 0]]

\* Brain.run: a zero command first, so that the arena learns the address.
BrainKick(r) ==
  /\ brain[r].pc = "kick"
  /\ SendCommand(r, brain[r])
  /\ UNCHANGED << clock, arena, robot, states, starved, samples >>

\* Only a STATE newer than the last is taken.
Newer(b, d) == b.state.seq = 0 \/ d.seq > b.state.seq

\* The receiver thread.  A round trip is recorded for the first STATE that
\* echoes a command.
BrainReceive(r, d) ==
  LET b == brain[r]
      sample == d.echoSent # 0 /\ d.echo # b.echoed
  IN  /\ b.pc \notin {"absent", "done"}
      /\ IF Newer(b, d)
         THEN /\ brain' = [brain EXCEPT ![r] =
                   [b EXCEPT !.state = d,
                             !.echoed = IF sample THEN d.echo ELSE @,
                             !.rtt = IF sample /\ (@ = -1 \/ clock - d.echoSent < @)
                                     THEN clock - d.echoSent ELSE @,
                             !.over = IF d.flag = "running" THEN @ ELSE d.flag]]
              /\ samples' = [samples EXCEPT ![r] =
                   IF sample THEN @ \cup {[cmd |-> d.echo, state |-> d.seq,
                                           rtt |-> clock - d.echoSent]}
                   ELSE @]
         ELSE UNCHANGED << brain, samples >>
      /\ UNCHANGED << clock, arena, robot, cmds, states, starved >>

\* while perf_counter() < deadline
InLoop(r) == clock < MaxSeconds

\* One tick: the state is taken under the lock; over, no state yet, or decide.
BrainTick(r) ==
  LET b == brain[r]
      taken == [b EXCEPT !.input = b.state]
  IN  /\ b.pc = "tick" /\ InLoop(r)
      /\ IF b.over # "running"
         THEN brain' = [brain EXCEPT ![r] = [taken EXCEPT !.pc = "done"]] /\ UNCHANGED cmds
         ELSE IF b.state.seq # 0
         THEN brain' = [brain EXCEPT ![r] = [taken EXCEPT !.pc = "link"]] /\ UNCHANGED cmds
         ELSE b.seq < MaxCmd /\ SendCommand(r, taken)
      /\ UNCHANGED << clock, arena, robot, states, starved, samples >>

\* The state whose age update_link estimates.
LinkState(b) == b.input

\* update_link, with the clock shared by both ends: none before a round trip.
BrainLink(r) ==
  LET b == brain[r]
  IN  /\ b.pc = "link"
      /\ brain' = [brain EXCEPT ![r].pc = "send", ![r].at = clock,
                     ![r].age = IF b.rtt = -1 THEN -1 ELSE clock - LinkState(b).sent]
      /\ UNCHANGED << clock, arena, robot, cmds, states, starved, samples >>

\* The policy's command.
BrainSend(r) ==
  /\ brain[r].pc = "send"
  /\ IF brain[r].seq < MaxCmd THEN SendCommand(r, brain[r])
     ELSE /\ brain' = [brain EXCEPT ![r].pc = "tick", ![r].input = NoState,
                                     ![r].age = -1, ![r].at = 0]
          /\ UNCHANGED cmds
  /\ UNCHANGED << clock, arena, robot, states, starved, samples >>

BrainDeadline(r) ==
  /\ brain[r].pc = "tick" /\ ~InLoop(r)
  /\ brain' = [brain EXCEPT ![r].pc = "done"]
  /\ UNCHANGED << clock, arena, robot, cmds, states, starved, samples >>

FightTick ==
  /\ clock < MaxSeconds
  /\ clock' = clock + 1
  /\ UNCHANGED << arena, robot, brain, cmds, states, starved, samples >>

Drain(r) == \E d \in cmds[r] : DrainCommand(r, d)

Receive(r) == \E d \in states[r] : BrainReceive(r, d)

Arena == \E out, fallen \in SUBSET Robot, outer \in Robot \cup {"none"} :
  ArenaLoop(out, fallen, outer)

Think(r) == BrainKick(r) \/ BrainTick(r) \/ BrainLink(r) \/ BrainSend(r) \/ BrainDeadline(r)

FightNext ==
  \/ FightTick
  \/ Arena
  \/ ArenaOver
  \/ \E r \in Robot : Drain(r)
  \/ \E r \in Robot : Receive(r)
  \/ \E r \in Robot : Think(r)

FightSpec == FightInit /\ [][FightNext]_fightVars

\* Time passes and both kinds of process keep running; nothing is assumed of
\* the network.
FightFairSpec ==
  /\ FightSpec
  /\ WF_fightVars(FightTick) /\ WF_fightVars(Arena) /\ WF_fightVars(ArenaOver)
  /\ \A r \in Robot : WF_fightVars(Think(r))

(***************************************************************************)
(* Properties.                                                             *)
(***************************************************************************)

\* Type correctness: simulated time never runs ahead of the wall clock, and
\* datagrams carry sequence numbers already issued by their sender.
FightTypeOK ==
  /\ clock \in 0 .. MaxSeconds
  /\ arena.sim \in 0 .. clock /\ arena.pc \in {"drain", "over", "done"}
  /\ \A r \in Robot :
       /\ robot[r].last \in 0 .. brain[r].seq /\ robot[r].at \in 0 .. clock
       /\ robot[r].since \in 0 .. arena.sim /\ robot[r].total \in 0 .. arena.sim
       /\ brain[r].pc \in {"absent", "kick", "tick", "link", "send", "done"}
       /\ brain[r].rtt \in -1 .. clock /\ brain[r].age \in -1 .. clock
       /\ brain[r].echoed \in 0 .. brain[r].seq
       /\ \A d \in cmds[r] : d.seq \in 1 .. brain[r].seq /\ d.sent \in 0 .. clock
       /\ \A d \in states[r] : d.seq \in 1 .. robot[r].seq /\ d.sent \in 0 .. clock

\* A robot never goes back to an older command: drain_commands rejects what the
\* network reordered or duplicated, as long as nothing is delayed by more
\* commands than its window of 1000.
CommandsInOrder ==
  [][\A r \in Robot : robot'[r].last >= robot[r].last]_fightVars

\* The counters of drain_commands add up: from the first accepted command to
\* the last, each one was accepted or is counted in cmd_seq_gaps.
LossAccounted ==
  \A r \in Robot : robot[r].last # 0 =>
    robot[r].received - robot[r].rejected + robot[r].gaps
      = robot[r].last - robot[r].first + 1

\* stale_total_s, with the interval still open (robot_summary), is the simulated
\* time the robot was without a fresh command since it first had one.
StaleAccounted ==
  \A r \in Robot :
    robot[r].total + (IF robot[r].stale /\ robot[r].ever
                      THEN arena.sim - robot[r].since ELSE 0) = starved[r]

\* A brain records one round trip per command: the receiver takes STATE
\* datagrams in order, so an older echo cannot come back.
OneRoundTripPerCommand ==
  \A r \in Robot : \A s, t \in samples[r] : s.cmd = t.cmd => s = t

\* The age a policy compensates for is the age of the state it decides on,
\* although the receiver may replace the newest state between take_state and
\* update_link.
AgeOfInput ==
  \A r \in Brained : brain[r].pc = "send" /\ brain[r].age # -1 =>
    brain[r].age = brain[r].at - brain[r].input.sent

\* What a brain reports as its outcome is the referee's verdict.
OutcomeAgrees ==
  \A r \in Brained : brain[r].over # "running" =>
    CASE brain[r].over = "won"  -> arena.winner = r
      [] brain[r].over = "lost" -> arena.winner = Opponent({r})
      [] brain[r].over = "draw" -> arena.winner = "draw"

\* Every fight that has begun ends for the arena and for every brain, even if
\* each of the OverRepeats datagrams that announce the end is lost.
FightEnds ==
  clock > 0 ~> (arena.pc = "done" /\ \A r \in Brained : brain[r].pc = "done")

\* The books of a fight are right on both sides of the network, however its
\* datagrams are lost, reordered and repeated (drain_commands, update_link,
\* robot_summary): what was lost, stale, late and won is what happened.
FightAccounted ==
  /\ [](/\ FightTypeOK /\ LossAccounted /\ StaleAccounted
        /\ OneRoundTripPerCommand /\ AgeOfInput /\ OutcomeAgrees)
  /\ CommandsInOrder
=============================================================================
