---------------------------- MODULE FightReplay ----------------------------
(***************************************************************************)
(* The replay of a fight (use_cases/robot_fight/render_replay.py).  The    *)
(* arena and the broker write their logs while the fight goes on; the      *)
(* replay loads them once the fight is over: poses, the spans in which a   *)
(* robot's input was stale, the outcome, and the stalls of the broker,     *)
(* whose lines carry no time of their own.  Then it draws frame after      *)
(* frame.  The `truth` variables keep what the logs stand for.             *)
(*                                                                         *)
(* Abstracted: a pose is the moment it shows, plots and text are left out, *)
(* the broker writes one timings line per node and second.                 *)
(***************************************************************************)
EXTENDS Integers, Sequences, FiniteSets, SequencesExt, FiniteSetsExt

CONSTANTS
  End,      \* the last moment of a fight
  Second,   \* moments between two timings lines of the broker
  MaxLines  \* bound on the lines of both logs, the result aside
ASSUME EndAssumption == End \in Nat /\ Second \in Nat \ {0} /\ MaxLines \in Nat

VARIABLES
  moment,   \* wall clock; End + 1 once the fight is over
  arenaLog, \* arena.jsonl: [kind, t, robot]
  stalled,  \* truth: per robot, the moments at which its input was stale
  stale,    \* per robot, RobotState.stale of a robot that was fresh before
  brokerLog,\* broker.log: [kind, t], t the truth for a node_stall line, which does not print it
  protected,\* the robots whose broker runs the protected scheduler
  shown     \* the frame the replay drew last: [t, pose, banner, loser], NoFrame before
replayVars == <<moment, arenaLog, stalled, stale, brokerLog, protected, shown>>

Fighters == {0, 1}
NoFrame == [t |-> -1, pose |-> -1, banner |-> "none", loser |-> "none"]
Entry(kind, robot) == [kind |-> kind, t |-> moment, robot |-> robot]
Kinds(events, kind) == {i \in DOMAIN events : events[i].kind = kind}
HasRoom == Len(arenaLog) + Len(brokerLog) < MaxLines
Over == Kinds(arenaLog, "result") # {}

ReplayInit ==
  /\ moment = 0
  /\ arenaLog = <<[kind |-> "spawn", t |-> 0, robot |-> 0]>>
  /\ stalled = [r \in Fighters |-> {}]
  /\ stale = [r \in Fighters |-> FALSE]
  /\ brokerLog = <<>>
  /\ protected \in {{0}, {1}}
  /\ shown = NoFrame

(***************************************************************************)
(* The fight.                                                              *)
(***************************************************************************)
EmitPose ==
  /\ moment <= End /\ ~Over /\ HasRoom
  /\ arenaLog' = Append(arenaLog, Entry("pose", 0))
  /\ UNCHANGED <<moment, stalled, stale, brokerLog, protected, shown>>

\* apply_controls: the last command of r expired, or a fresh one is there again
EmitStale(r) ==
  /\ moment <= End /\ ~Over /\ HasRoom
  /\ stale' = [stale EXCEPT ![r] = ~@]
  /\ arenaLog' = Append(arenaLog, Entry(IF stale[r] THEN "stale_end" ELSE "stale_begin", r))
  /\ UNCHANGED <<moment, stalled, brokerLog, protected, shown>>

\* the outcome: a winner, or -1 for a draw
EmitResult ==
  /\ moment <= End /\ ~Over
  /\ \E w \in {-1, 0, 1} : arenaLog' = Append(arenaLog, Entry("result", w))
  /\ UNCHANGED <<moment, stalled, stale, brokerLog, protected, shown>>

TimingsAt == {brokerLog[i].t : i \in Kinds(brokerLog, "cpu_stage_timings")}
TimingsDue == moment % Second = 0 /\ moment \notin TimingsAt

WriteTimings ==
  /\ moment <= End
  /\ TimingsDue
  /\ brokerLog' = Append(brokerLog, [kind |-> "cpu_stage_timings", t |-> moment])
  /\ UNCHANGED <<moment, arenaLog, stalled, stale, protected, shown>>

WriteStall ==
  /\ moment <= End /\ HasRoom
  /\ brokerLog' = Append(brokerLog, [kind |-> "node_stall", t |-> moment])
  /\ UNCHANGED <<moment, arenaLog, stalled, stale, protected, shown>>

\* a fight ends with its result; fight.py takes a moment to notice
Wait ==
  /\ moment <= End
  /\ ~TimingsDue
  /\ moment = End => Over
  /\ stalled' = [r \in Fighters |-> IF stale[r] THEN stalled[r] \cup {moment} ELSE stalled[r]]
  /\ moment' = moment + 1
  /\ UNCHANGED <<arenaLog, stale, brokerLog, protected, shown>>

(***************************************************************************)
(* load_fight and load_broker.                                             *)
(***************************************************************************)
\* one line of arena.jsonl: poses, closed spans and open ones, the result
Loaded(acc, e) ==
  CASE e.kind \in {"pose", "spawn"} -> [acc EXCEPT !.poses = IF e.kind = "pose" THEN Append(@, e.t) ELSE @]
    [] e.kind = "stale_begin" -> [acc EXCEPT !.open = [@ EXCEPT ![e.robot] = e.t]]
    [] e.kind = "stale_end" -> [acc EXCEPT !.spans = @ \cup {[robot |-> e.robot, from |-> acc.open[e.robot], to |-> e.t]},
                                           !.open = [@ EXCEPT ![e.robot] = -1]]
    [] e.kind = "result" -> [acc EXCEPT !.poses = Append(@, e.t), !.result = e.t, !.winner = e.robot]

\* A plausible slip: a span nobody closed is left out.
StillOpenNot(acc) == {}
\* a span that was open when the arena stopped lasts until the fight's end
StillOpen(acc) ==
  {[robot |-> r, from |-> acc.open[r], to |-> End + 1] : r \in {q \in Fighters : acc.open[q] >= 0}}

NothingYet == [poses |-> <<>>, spans |-> {}, open |-> [r \in Fighters |-> -1], result |-> -1, winner |-> -1]
LoadFight ==
  LET acc == FoldLeft(Loaded, NothingYet, arenaLog) IN
  [acc EXCEPT !.spans = @ \cup StillOpen(acc)]

\* a stall has the time of the last timings line of any node above it, or is dropped
StallTime(i) ==
  LET before == {brokerLog[j].t : j \in {k \in Kinds(brokerLog, "cpu_stage_timings") : k < i}} IN
  IF before = {} THEN {} ELSE {Max(before)}

\* load_run: side A is the protected robot, when just one is
Side(r) == IF protected = {1} THEN (IF r = 0 THEN "B" ELSE "A") ELSE (IF r = 0 THEN "A" ELSE "B")

PoseAt(fight, t) ==
  LET i == Cardinality({j \in DOMAIN fight.poses : fight.poses[j] <= t}) IN
  IF fight.poses = <<>> THEN -1 ELSE fight.poses[IF i = 0 THEN 1 ELSE i]

LoserIndex(fight) == IF fight.winner \in Fighters THEN 1 - fight.winner ELSE -1

Ended(fight, t) == fight.result >= 0 /\ t >= fight.result
Banner(fight, t) ==
  IF ~Ended(fight, t) THEN "none" ELSE IF fight.winner \in Fighters THEN Side(fight.winner) ELSE "draw"
Ring(fight, t) ==
  IF Ended(fight, t) /\ LoserIndex(fight) \in Fighters THEN Side(LoserIndex(fight)) ELSE "none"

\* the frames of iter_frames, in order, to the end of the fight and the hold after it
Render ==
  /\ moment > End
  /\ shown.t < End + 1
  /\ LET fight == LoadFight  t == shown.t + 1 IN
       shown' = [t |-> t, pose |-> PoseAt(fight, t), banner |-> Banner(fight, t), loser |-> Ring(fight, t)]
  /\ UNCHANGED <<moment, arenaLog, stalled, stale, brokerLog, protected>>

ReplayNext ==
  \/ EmitPose \/ (\E r \in Fighters : EmitStale(r)) \/ EmitResult
  \/ WriteTimings \/ WriteStall \/ Wait \/ Render
ReplaySpec == ReplayInit /\ [][ReplayNext]_replayVars

(***************************************************************************)
(* Properties.                                                             *)
(***************************************************************************)
\* The spans load_fight draws for a robot cover exactly the moments at which
\* its input was stale, the span open at the end included.
SpansExact ==
  moment > End =>
    \A r \in Fighters, m \in 0 .. End :
      (m \in stalled[r]) <=> (\E s \in LoadFight.spans : s.robot = r /\ s.from <= m /\ m < s.to)

\* A frame shows the newest pose the arena had logged by then, and a later one
\* only before the first (_pose_at).
FrameNotFromFuture ==
  LET taken == {arenaLog[i].t : i \in Kinds(arenaLog, "pose") \cup Kinds(arenaLog, "result")} IN
  shown # NoFrame =>
    LET past == {t \in taken : t <= shown.t} IN
    shown.pose = IF past # {} THEN Max(past) ELSE Min(taken)

\* The banner and the ring never mark the same robot, and appear together
\* with the outcome the arena logged, on the side of the robot that lost.
VerdictConsistent ==
  LET outcome == arenaLog[CHOOSE i \in Kinds(arenaLog, "result") : TRUE] IN
  shown.loser # "none" =>
    /\ shown.banner \in {"A", "B"} \ {shown.loser}
    /\ outcome.t <= shown.t
    /\ shown.banner = Side(outcome.robot)

\* A stall is filed within one second of the moment it happened, never after it
\* (load_broker attributes a node_stall line to the last heartbeat second).
StallNear ==
  \A i \in Kinds(brokerLog, "node_stall") : \A t \in StallTime(i) :
    t <= brokerLog[i].t /\ brokerLog[i].t - t <= Second
=============================================================================
