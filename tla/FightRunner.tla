---------------------------- MODULE FightRunner -----------------------------
(***************************************************************************)
(* fight.py of the robot-fight use case: a pool of worker threads takes    *)
(* fight numbers from a list, and for each one starts the arena, the       *)
(* proxies of a handicap, the modems and the two brains as processes on    *)
(* ports of the worker's own block, waits for them with timeouts, stops    *)
(* what is left and reads the result file.  An exception ends a worker and *)
(* leaves its processes behind.                                            *)
(***************************************************************************)
EXTENDS Integers, Sequences, FiniteSets

CONSTANTS
    NumFights,
    NumSlots,     \* --parallel
    Handicapped,  \* robots whose path has a proxy
    Modems,       \* robots behind modem.py
    MaxFail       \* bound on arenas that hang or crash

ASSUME RunnerAssumption ==
    /\ NumFights \in Nat /\ NumSlots \in Nat \ {0} /\ MaxFail \in Nat
    /\ Handicapped \subseteq 0 .. 1 /\ Modems \subseteq 0 .. 1

VARIABLES
    queue,        \* pending
    worker,       \* per slot: the fight it runs and the step it is at
    procs,        \* the live processes and proxies with the port each has bound
    files,        \* fights whose arena.json exists
    results,      \* fights whose result a worker has stored
    started,      \* history: how often each fight was begun
    fails,        \* arenas that have hung or crashed
    main          \* "running", "summary" or "failed"

runnerVars == <<queue, worker, procs, files, results, started, fails, main>>

Slots == 0 .. NumSlots - 1
Fights == 0 .. NumFights - 1
NoPort == 0
Nobody == -1

PortBaseTight(s) == 6100 + 3 * s
PortBase(s) == 6100 + 10 * s

Proc(kind, f, r, port) == [kind |-> kind, fight |-> f, robot |-> r, port |-> port]

\* The first proxy listens on the fourth port of the block, whichever robot it
\* stands before.
ProxyPort(s, r) == PortBase(s) + 3 + Cardinality({q \in Handicapped : q < r})
Proxies(s, f) == {Proc("proxy", f, r, ProxyPort(s, r)) : r \in Handicapped}

\* The arena binds the UDP port of every robot that no modem stands for, and the
\* position publisher.
ArenaProcess(s, f) ==
    {Proc("arena", f, r, PortBase(s) + r) : r \in (0 .. 1) \ Modems}
        \cup {Proc("arena", f, 2, PortBase(s) + 2)}
ModemsOf(s, f) == {Proc("modem", f, r, PortBase(s) + r) : r \in Modems}
Brains(f) == {Proc("brain", f, r, NoPort) : r \in 0 .. 1}

OfKind(kind, f) == {p \in procs : p.kind = kind /\ p.fight = f}

RunnerInit ==
    /\ queue = [i \in 1 .. NumFights |-> i - 1]
    /\ worker = [s \in Slots |-> [at |-> "idle", fight |-> Nobody]]
    /\ procs = {} /\ files = {} /\ results = {}
    /\ started = [f \in Fights |-> 0]
    /\ fails = 0 /\ main = "running"

At(s, step) == worker[s].at = step
Goto(s, step) == worker' = [worker EXCEPT ![s].at = step]

(***************************************************************************)
(* worker                                                                  *)
(***************************************************************************)
Take(s) ==
    /\ At(s, "idle") /\ queue # <<>>
    /\ worker' = [worker EXCEPT ![s] = [at |-> "launch", fight |-> Head(queue)]]
    /\ queue' = Tail(queue)
    /\ started' = [started EXCEPT ![Head(queue)] = @ + 1]
    /\ UNCHANGED <<procs, files, results, fails, main>>

Leave(s) ==
    /\ At(s, "idle") /\ queue = <<>>
    /\ Goto(s, "left")
    /\ UNCHANGED <<queue, procs, files, results, started, fails, main>>

\* run_fight: proxies, arena, modems and brains, in this order.
LaunchArena(s) ==
    /\ At(s, "launch")
    /\ procs' = procs \cup Proxies(s, worker[s].fight) \cup ArenaProcess(s, worker[s].fight)
    /\ Goto(s, "arena")
    /\ UNCHANGED <<queue, files, results, started, fails, main>>

LaunchRobots(s) ==
    /\ At(s, "arena")
    /\ procs' = procs \cup ModemsOf(s, worker[s].fight) \cup Brains(worker[s].fight)
    /\ Goto(s, "fighting")
    /\ UNCHANGED <<queue, files, results, started, fails, main>>

\* arena.wait with a timeout that nothing catches.
ArenaGone(s) ==
    /\ At(s, "fighting") /\ OfKind("arena", worker[s].fight) = {}
    /\ Goto(s, "reap")
    /\ UNCHANGED <<queue, procs, files, results, started, fails, main>>

ArenaTimeout(s) ==
    /\ At(s, "fighting") /\ OfKind("arena", worker[s].fight) # {}
    /\ fails < MaxFail /\ fails' = fails + 1
    /\ Goto(s, "dead")
    /\ UNCHANGED <<queue, procs, files, results, started, main>>

Reaped(s) == procs' = procs \ OfKind("brain", worker[s].fight)

ReapBrains(s) ==
    /\ At(s, "reap")
    /\ Reaped(s)
    /\ Goto(s, "stop")
    /\ UNCHANGED <<queue, files, results, started, fails, main>>

Stopped(s) ==
    procs' = procs \ (OfKind("modem", worker[s].fight) \cup OfKind("proxy", worker[s].fight))

StopHelpers(s) ==
    /\ At(s, "stop")
    /\ Stopped(s)
    /\ Goto(s, "read")
    /\ UNCHANGED <<queue, files, results, started, fails, main>>

\* The result file of an arena that crashed does not exist: the worker ends.
ReadResult(s) ==
    /\ At(s, "read")
    /\ IF worker[s].fight \in files
       THEN /\ results' = results \cup {worker[s].fight}
            /\ worker' = [worker EXCEPT ![s] = [at |-> "idle", fight |-> Nobody]]
       ELSE Goto(s, "dead") /\ UNCHANGED results
    /\ UNCHANGED <<queue, procs, files, started, fails, main>>

(***************************************************************************)
(* The processes                                                           *)
(***************************************************************************)
\* The arena ends with a result, or crashes without one.
ArenaEnds(f) ==
    /\ OfKind("arena", f) # {}
    /\ procs' = procs \ OfKind("arena", f)
    /\ \/ files' = files \cup {f} /\ UNCHANGED fails
       \/ fails < MaxFail /\ fails' = fails + 1 /\ UNCHANGED files
    /\ UNCHANGED <<queue, worker, results, started, main>>

BrainEnds(f) ==
    /\ \E p \in OfKind("brain", f) : procs' = procs \ {p}
    /\ UNCHANGED <<queue, worker, files, results, started, fails, main>>

Summarised == IF results = Fights THEN "summary" ELSE "failed"

Join ==
    /\ main = "running"
    /\ \A s \in Slots : worker[s].at \in {"left", "dead"}
    /\ main' = Summarised
    /\ UNCHANGED <<queue, worker, procs, files, results, started, fails>>

WorkerStep(s) ==
    \/ Take(s) \/ Leave(s) \/ LaunchArena(s) \/ LaunchRobots(s) \/ ArenaGone(s)
    \/ ReapBrains(s) \/ StopHelpers(s) \/ ReadResult(s)

RunnerNext ==
    \/ \E s \in Slots : WorkerStep(s) \/ ArenaTimeout(s)
    \/ \E f \in Fights : ArenaEnds(f) \/ BrainEnds(f)
    \/ Join

RunnerSpec == RunnerInit /\ [][RunnerNext]_runnerVars

\* The workers and main run; an arena ends by its own time limit or is given up.
RunnerFairness ==
    /\ \A s \in Slots : WF_runnerVars(WorkerStep(s))
    /\ \A f \in Fights : WF_runnerVars(ArenaEnds(f))
    /\ WF_runnerVars(Join)

RunnerFairSpec == RunnerSpec /\ RunnerFairness

-----------------------------------------------------------------------------
RunnerTypeOK ==
    /\ \A s \in Slots : worker[s].fight \in Fights \cup {Nobody}
    /\ files \subseteq Fights /\ results \subseteq files
    /\ fails \in 0 .. MaxFail /\ main \in {"running", "summary", "failed"}

\* No two live processes have bound the same port: neither two fights that run
\* side by side, nor what an ended worker left behind and a later fight.
PortsExclusive ==
    \A p, q \in procs : (p # q /\ p.port # NoPort) => p.port # q.port

\* Every fight is begun at most once, and a worker that goes on to another fight
\* has left nothing of the last one running.
CleanBetweenFights ==
    /\ \A f \in Fights : started[f] <= 1
    /\ \A p \in procs : \E s \in Slots : worker[s].fight = p.fight

\* A summary is only ever written over the results of all fights.
SummaryWhole == main = "summary" => results = Fights

\* A campaign that has begun ends, even when an arena hangs or crashes and when
\* brains never end by themselves.
RunnerEnds == (\E f \in Fights : started[f] > 0) ~> main # "running"

\* Fights of a series do not touch each other, side by side or one after the
\* other (run_fight, main), and no summary is written over a part of them.
RunnerClean == RunnerTypeOK /\ PortsExclusive /\ CleanBetweenFights /\ SummaryWhole

(***************************************************************************)
(* What makes them inductive: a fight is queued or belongs to one worker,  *)
(* and every process to the block of ports and the step of its worker.     *)
(***************************************************************************)
WorkerSteps == {"idle", "left", "launch", "arena", "fighting", "reap", "stop", "read", "dead"}

\* The kinds of process that a worker may have alive at a step.
Alive(step) ==
    CASE step = "arena" -> {"proxy", "arena"}
      [] step \in {"fighting", "dead"} -> {"proxy", "arena", "modem", "brain"}
      [] step = "reap" -> {"proxy", "modem", "brain"}
      [] step = "stop" -> {"proxy", "modem"}
      [] OTHER -> {}

ProcessesOf(s, f) == Proxies(s, f) \cup ArenaProcess(s, f) \cup ModemsOf(s, f) \cup Brains(f)

WorkersOK ==
    /\ worker \in [Slots -> [at : WorkerSteps, fight : Fights \cup {Nobody}]]
    /\ \A s \in Slots : worker[s].fight = Nobody <=> worker[s].at \in {"idle", "left"}

FightsOnce ==
    /\ queue \in Seq(Fights) /\ started \in [Fights -> 0 .. 1]
    /\ \A i, j \in 1 .. Len(queue) : queue[i] = queue[j] => i = j
    /\ \A i \in 1 .. Len(queue) : started[queue[i]] = 0
    /\ \A s \in Slots : worker[s].fight # Nobody => started[worker[s].fight] = 1
    /\ \A s, t \in Slots : worker[s].fight # Nobody /\ worker[s].fight = worker[t].fight => s = t

Owned(p) ==
    \E s \in Slots : /\ p.fight = worker[s].fight /\ p \in ProcessesOf(s, worker[s].fight)
                     /\ p.kind \in Alive(worker[s].at)

RunnerInv ==
    /\ RunnerTypeOK /\ WorkersOK /\ FightsOnce /\ SummaryWhole
    /\ \A p \in procs : Owned(p)
=============================================================================
