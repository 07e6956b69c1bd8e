---------------------------- MODULE MCRobotFight ----------------------------
(***************************************************************************)
(* The robot fight: one fight between arena and brains, the two policies,  *)
(* the controller that predicts through its delay, the runner of a series  *)
(* of fights, the probe of the path between them, and the script that      *)
(* replays a fight.  Each is a program of its own, so they are checked one *)
(* at a time: `part' picks one in the initial state and the state of the   *)
(* others stays initial.                                                   *)
(***************************************************************************)
EXTENDS RobotFight, FightRunner, BrainPolicy, DelayLine, BalanceCore,
        FightReplay, EchoProbe

VARIABLE part

MCWishes == -4 .. 4
MCFeedbacks == {-3, -1, 0, 2}
MCSteers == {-4, -1, 0, 2}

controlVars == << fightVars, policyVars, delayVars, balanceVars, probeVars >>
scriptVars == << runnerVars, replayVars >>

\* A part that is not checked has one of its initial states.
RobotFightInit ==
  /\ part \in {"fight", "policy", "delay", "balance", "runner", "replay", "probe"}
  /\ policy \in IF part = "policy" THEN {"reactive", "pusher"} ELSE {"pusher"}
  /\ tau \in IF part = "delay" THEN Delays ELSE {0}
  /\ dark \in IF part = "delay"
              THEN {[from |-> from, to |-> from + length] : from \in Steps, length \in Blackouts}
              ELSE {[from |-> 0, to |-> 0]}
  /\ protected \in IF part = "replay" THEN {{0}, {1}} ELSE {{0}}
  /\ FightInit /\ RunnerInit /\ PolicyInit /\ DelayInit /\ BalanceInit
  /\ ReplayInit /\ ProbeInit

ControlStep ==
  \/ part = "fight" /\ FightNext /\ UNCHANGED << policyVars, delayVars, balanceVars, probeVars >>
  \/ part = "policy" /\ PolicyNext /\ UNCHANGED << fightVars, delayVars, balanceVars, probeVars >>
  \/ part = "delay" /\ LoopPass /\ UNCHANGED << fightVars, policyVars, balanceVars, probeVars >>
  \/ part = "balance" /\ BalanceNext /\ UNCHANGED << fightVars, policyVars, delayVars, probeVars >>
  \/ part = "probe" /\ ProbeNext /\ UNCHANGED << fightVars, policyVars, delayVars, balanceVars >>

ScriptStep ==
  \/ part = "runner" /\ RunnerNext /\ UNCHANGED replayVars
  \/ part = "replay" /\ ReplayNext /\ UNCHANGED runnerVars

RobotFightNext ==
  /\ UNCHANGED part
  /\ \/ ControlStep /\ UNCHANGED scriptVars
     \/ ScriptStep /\ UNCHANGED controlVars

RobotFightSpec ==
  RobotFightInit /\ [][RobotFightNext]_<< part, controlVars, scriptVars >>

\* What is recorded of the path and drawn of a fight is what happened: requests
\* settled once, outages and stalls found (echo_probe.py, render_replay.py).
RecordsExact ==
  /\ OneOutcome /\ LateIsLate /\ SecondsNeverExceed /\ OneFlood /\ OutagesExact
  /\ SpansExact /\ FrameNotFromFuture /\ VerdictConsistent /\ StallNear
=============================================================================
