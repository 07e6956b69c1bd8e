---------------------------- MODULE FightProofs -----------------------------
(***************************************************************************)
(* Theorems about the robot fight, for every value of the constants: the   *)
(* runner of a series of fights (FightRunner), the reflexes of a robot's   *)
(* policy (BrainPolicy) and its balance law (BalanceCore).  The three      *)
(* share no state.                                                         *)
(***************************************************************************)
EXTENDS FightRunner, BrainPolicy, BalanceCore, FiniteSetTheorems, TLAPS

(***************************************************************************)
(* The runner of a series of fights (FightRunner).                         *)
(***************************************************************************)

LEMMA RunnerConstants ==
  /\ NumFights \in Nat /\ NumSlots \in Nat \ {0} /\ MaxFail \in Nat
  /\ \A r \in Handicapped \cup Modems : r = 0 \/ r = 1
  /\ Nobody \notin Fights /\ \A f \in Fights : f \in Nat
  BY RunnerAssumption DEF Fights, Nobody

\* How many proxies stand on a lower port of the block.
Below(r) == Cardinality({q \in Handicapped : q < r})

LEMMA ProxyOffsets ==
  /\ \A r \in Handicapped : Below(r) \in 0 .. 1
  /\ \A r, q \in Handicapped : Below(r) = Below(q) => r = q
  <1>1. Handicapped \subseteq {0, 1}
    BY RunnerConstants
  <1>2. Below(0) = 0
    <2>1. \A q \in Handicapped : ~(q < 0)
      BY <1>1
    <2>2. {q \in Handicapped : q < 0} = {}
      BY <2>1, Zenon
    <2>3. Cardinality({}) = 0
      BY FS_EmptySet
    <2>4. QED
      BY <2>2, <2>3 DEF Below
  <1>3. Below(1) \in 0 .. 1 /\ (0 \in Handicapped => Below(1) = 1)
    <2>1. CASE 0 \in Handicapped
      <3>0. \A q \in Handicapped : q < 1 <=> q = 0
        BY <1>1
      <3>1. {q \in Handicapped : q < 1} = {0}
        BY <2>1, <3>0, Zenon
      <3>2. Cardinality({0}) = 1
        BY FS_Singleton
      <3>3. QED
        BY <3>1, <3>2 DEF Below
    <2>2. CASE 0 \notin Handicapped
      <3>0. \A q \in Handicapped : ~(q < 1)
        BY <1>1, <2>2
      <3>1. {q \in Handicapped : q < 1} = {}
        BY <3>0, Zenon
      <3>2. Cardinality({}) = 0
        BY FS_EmptySet
      <3>3. Below(1) = 0
        BY <3>1, <3>2 DEF Below
      <3>4. QED
        BY <2>2, <3>3
    <2>3. QED
      BY <2>1, <2>2
  <1>4. \A r \in Handicapped : Below(r) \in 0 .. 1
    BY <1>1, <1>2, <1>3
  <1>5. ASSUME NEW r \in Handicapped, NEW q \in Handicapped, Below(r) = Below(q) PROVE r = q
    BY <1>1, <1>2, <1>3, <1>5
  <1>6. QED
    BY <1>4, <1>5

\* A process of a fight is known by its kind, its robot and its port in the block.
LEMMA ProcessShape ==
  ASSUME NEW s \in Slots, NEW f, NEW p \in ProcessesOf(s, f)
  PROVE  /\ p.fight = f
         /\ \/ p.kind = "brain" /\ p.port = NoPort
            \/ \E off \in 0 .. 4 :
                 /\ p.port = PortBase(s) + off /\ p = Proc(p.kind, f, p.robot, p.port)
                 /\ \/ p.kind = "arena" /\ p.robot \in {0, 1} \ Modems /\ off = p.robot
                    \/ p.kind = "arena" /\ p.robot = 2 /\ off = 2
                    \/ p.kind = "modem" /\ p.robot \in Modems /\ off = p.robot
                    \/ p.kind = "proxy" /\ p.robot \in Handicapped /\ off = 3 + Below(p.robot)
  <1>1. CASE p \in Brains(f)
    BY <1>1 DEF Brains, Proc
  <1>2. CASE p \in ArenaProcess(s, f)
    <2>1. \/ \E r \in (0 .. 1) \ Modems : p = Proc("arena", f, r, PortBase(s) + r)
          \/ p = Proc("arena", f, 2, PortBase(s) + 2)
      BY <1>2 DEF ArenaProcess
    <2>2. ASSUME NEW r \in 0 .. 2, p = Proc("arena", f, r, PortBase(s) + r)
          PROVE  /\ p.fight = f /\ p.kind = "arena" /\ p.robot = r /\ p.port = PortBase(s) + r
                 /\ p = Proc(p.kind, f, p.robot, p.port) /\ r \in 0 .. 4
      BY <2>2 DEF Proc
    <2>3. QED
      BY <2>1, <2>2
  <1>3. CASE p \in ModemsOf(s, f)
    <2>1. PICK r \in Modems : p = Proc("modem", f, r, PortBase(s) + r)
      BY <1>3 DEF ModemsOf
    <2>2. /\ p.fight = f /\ p.kind = "modem" /\ p.robot = r /\ p.port = PortBase(s) + r
          /\ p = Proc(p.kind, f, p.robot, p.port)
      BY <2>1 DEF Proc
    <2>3. r \in 0 .. 4
      BY RunnerConstants
    <2>4. QED
      BY <2>2, <2>3
  <1>4. CASE p \in Proxies(s, f)
    <2>1. PICK r \in Handicapped : p = Proc("proxy", f, r, ProxyPort(s, r))
      BY <1>4 DEF Proxies
    <2> DEFINE off == 3 + Below(r)
    <2>2. off \in 0 .. 4
      BY ProxyOffsets
    <2>3. ProxyPort(s, r) = PortBase(s) + off
      <3>1. PortBase(s) \in Int /\ Below(r) \in Int
        BY ProxyOffsets, RunnerConstants DEF PortBase, Slots
      <3>2. ProxyPort(s, r) = PortBase(s) + 3 + Below(r)
        BY DEF ProxyPort, Below
      <3>3. QED
        BY <3>1, <3>2
    <2>4. /\ p.fight = f /\ p.kind = "proxy" /\ p.robot = r /\ p.port = ProxyPort(s, r)
          /\ p = Proc(p.kind, f, p.robot, p.port)
      BY <2>1 DEF Proc
    <2>5. QED
      BY <2>2, <2>3, <2>4
  <1>5. QED
    BY <1>1, <1>2, <1>3, <1>4 DEF ProcessesOf

\* The blocks of two workers are apart, and in a block every port has one process.
LEMMA PortsApart ==
  ASSUME NEW s \in Slots, NEW z \in Slots, NEW f, NEW g, s = z => f = g,
         NEW p \in ProcessesOf(s, f), NEW q \in ProcessesOf(z, g),
         p.port = q.port, p.port # NoPort
  PROVE  p = q
  <1>0. s \in Nat /\ z \in Nat
    BY RunnerConstants DEF Slots
  <1>1. PICK i \in 0 .. 4 :
          /\ p.port = PortBase(s) + i /\ p = Proc(p.kind, f, p.robot, p.port)
          /\ \/ p.kind = "arena" /\ p.robot \in {0, 1} \ Modems /\ i = p.robot
             \/ p.kind = "arena" /\ p.robot = 2 /\ i = 2
             \/ p.kind = "modem" /\ p.robot \in Modems /\ i = p.robot
             \/ p.kind = "proxy" /\ p.robot \in Handicapped /\ i = 3 + Below(p.robot)
    BY ProcessShape
  <1>2. PICK j \in 0 .. 4 :
          /\ q.port = PortBase(z) + j /\ q = Proc(q.kind, g, q.robot, q.port)
          /\ \/ q.kind = "arena" /\ q.robot \in {0, 1} \ Modems /\ j = q.robot
             \/ q.kind = "arena" /\ q.robot = 2 /\ j = 2
             \/ q.kind = "modem" /\ q.robot \in Modems /\ j = q.robot
             \/ q.kind = "proxy" /\ q.robot \in Handicapped /\ j = 3 + Below(q.robot)
    BY ProcessShape
  <1>3. s = z /\ i = j
    <2>1. PortBase(s) = 6100 + 10 * s /\ PortBase(z) = 6100 + 10 * z
      BY DEF PortBase
    <2>2. p.port = PortBase(s) + i /\ p.port = PortBase(z) + j
      BY <1>1, <1>2
    <2>3. 6100 + 10 * s + i = 6100 + 10 * z + j
      BY ONLY <2>1, <2>2
    <2>4. i \in 0 .. 4 /\ j \in 0 .. 4
      OBVIOUS
    <2> QED
      BY ONLY <1>0, <2>3, <2>4
  <1>4. p.kind = q.kind /\ p.robot = q.robot
    <2>1. \A r \in Handicapped : 3 + Below(r) \in 3 .. 4
      BY ProxyOffsets
    <2>2. \A r \in Modems : r \in {0, 1}
      BY RunnerConstants
    <2>3. CASE p.kind = "proxy"
      <3>1. q.kind = "proxy" /\ Below(p.robot) = Below(q.robot)
        BY <1>1, <1>2, <1>3, <2>1, <2>2, <2>3, ProxyOffsets
      <3>2. QED
        BY <1>1, <1>2, <2>3, <3>1, ProxyOffsets
    <2>4. CASE p.kind # "proxy"
      BY <1>1, <1>2, <1>3, <2>1, <2>2, <2>4
    <2>5. QED
      BY <2>3, <2>4
  <1>5. QED
    BY <1>1, <1>2, <1>3, <1>4

LEMMA RunnerSafe == RunnerInv => RunnerClean
  <1> SUFFICES ASSUME RunnerInv PROVE RunnerClean
    OBVIOUS
  <1>1. RunnerTypeOK /\ WorkersOK /\ FightsOnce /\ SummaryWhole /\ \A p \in procs : Owned(p)
    BY DEF RunnerInv
  <1>2. PortsExclusive
    <2> SUFFICES ASSUME NEW p \in procs, NEW q \in procs, p.port # NoPort, p.port = q.port
                 PROVE  p = q
      BY DEF PortsExclusive
    <2>1. PICK s \in Slots : p \in ProcessesOf(s, worker[s].fight)
      BY <1>1 DEF Owned
    <2>2. PICK z \in Slots : q \in ProcessesOf(z, worker[z].fight)
      BY <1>1 DEF Owned
    <2>3. QED
      BY <2>1, <2>2, PortsApart
  <1>3. CleanBetweenFights
    BY <1>1 DEF CleanBetweenFights, FightsOnce, Owned
  <1>4. QED
    BY <1>1, <1>2, <1>3 DEF RunnerClean

\* What a worker may have alive, step by step.
LEMMA AliveKinds ==
  /\ Alive("idle") = {} /\ Alive("left") = {} /\ Alive("launch") = {} /\ Alive("read") = {}
  /\ Alive("arena") = {"proxy", "arena"}
  /\ Alive("fighting") = {"proxy", "arena", "modem", "brain"}
  /\ Alive("dead") = {"proxy", "arena", "modem", "brain"}
  /\ Alive("reap") = {"proxy", "modem", "brain"}
  /\ Alive("stop") = {"proxy", "modem"}
  BY DEF Alive

LEMMA KindsOfProcesses ==
  ASSUME NEW s, NEW f
  PROVE  /\ \A p \in Proxies(s, f) : p.kind = "proxy" /\ p.fight = f
         /\ \A p \in ArenaProcess(s, f) : p.kind = "arena" /\ p.fight = f
         /\ \A p \in ModemsOf(s, f) : p.kind = "modem" /\ p.fight = f
         /\ \A p \in Brains(f) : p.kind = "brain" /\ p.fight = f
  BY DEF Proxies, ArenaProcess, ModemsOf, Brains, Proc

LEMMA RunnerInitInv == RunnerInit => RunnerInv
  <1> SUFFICES ASSUME RunnerInit PROVE RunnerInv
    OBVIOUS
  <1>1. RunnerTypeOK
    BY RunnerConstants DEF RunnerInit, RunnerTypeOK
  <1>2. WorkersOK
    BY DEF RunnerInit, WorkersOK, WorkerSteps
  <1>3. queue \in Seq(Fights) /\ Len(queue) = NumFights
    BY RunnerConstants DEF RunnerInit, Fights
  <1>4. \A i \in 1 .. NumFights : queue[i] = i - 1 /\ queue[i] \in Fights
    BY RunnerConstants DEF RunnerInit, Fights
  <1>5. \A i, j \in 1 .. Len(queue) : queue[i] = queue[j] => i = j
    BY <1>3, <1>4, RunnerConstants
  <1>6. FightsOnce
    BY <1>3, <1>4, <1>5, RunnerConstants DEF RunnerInit, FightsOnce
  <1>7. SummaryWhole /\ \A p \in procs : Owned(p)
    BY DEF RunnerInit, SummaryWhole
  <1>8. QED
    BY <1>1, <1>2, <1>6, <1>7 DEF RunnerInv

\* A worker in a fight that goes on to another step of it.
LEMMA WorkerMoves ==
  ASSUME RunnerInv, NEW s \in Slots, NEW step \in WorkerSteps \ {"idle", "left"},
         worker[s].at \notin {"idle", "left"}, Goto(s, step)
  PROVE  /\ WorkersOK' /\ worker'[s].at = step
         /\ \A z \in Slots : worker'[z].fight = worker[z].fight
         /\ \A z \in Slots \ {s} : worker'[z] = worker[z]
  <1>1. worker \in [Slots -> [at : WorkerSteps, fight : Fights \cup {Nobody}]]
    BY DEF RunnerInv, WorkersOK
  <1>2. worker' = [worker EXCEPT ![s] = [worker[s] EXCEPT !.at = step]]
    BY DEF Goto
  <1> DEFINE w == [worker[s] EXCEPT !.at = step]
  <1>3. w \in [at : WorkerSteps, fight : Fights \cup {Nobody}] /\ w.at = step
        /\ w.fight = worker[s].fight
    BY <1>1
  <1> HIDE DEF w
  <1>4. worker'[s] = w /\ \A z \in Slots \ {s} : worker'[z] = worker[z]
    BY <1>1, <1>2 DEF w
  <1>5. worker' \in [Slots -> [at : WorkerSteps, fight : Fights \cup {Nobody}]]
    BY <1>1, <1>2, <1>3 DEF w
  <1>6. \A z \in Slots : worker'[z].fight = worker[z].fight
    BY <1>3, <1>4
  <1>7. \A z \in Slots : worker[z].fight = Nobody <=> worker[z].at \in {"idle", "left"}
    BY DEF RunnerInv, WorkersOK
  <1>8. \A z \in Slots : worker'[z].fight = Nobody <=> worker'[z].at \in {"idle", "left"}
    BY <1>3, <1>4, <1>7
  <1>9. QED
    BY <1>3, <1>4, <1>5, <1>6, <1>8 DEF WorkersOK

\* A step that moves no fight and stores no result.
LEMMA FightsStay ==
  ASSUME RunnerInv, \A z \in Slots : worker'[z].fight = worker[z].fight,
         queue' = queue, started' = started
  PROVE  FightsOnce'
  BY DEF RunnerInv, FightsOnce

LEMMA BookStays ==
  ASSUME RunnerInv, \A z \in Slots : worker'[z].fight = worker[z].fight,
         files' = files, results' = results, main' = main, fails' \in 0 .. MaxFail
  PROVE  RunnerTypeOK' /\ SummaryWhole'
  BY DEF RunnerInv, RunnerTypeOK, SummaryWhole

\* A process stays with its worker when the worker's new step allows its kind.
LEMMA OwnedStays ==
  ASSUME RunnerInv, NEW s \in Slots, NEW p, Owned(p),
         \A z \in Slots : worker'[z].fight = worker[z].fight,
         \A z \in Slots \ {s} : worker'[z] = worker[z],
         p.fight = worker[s].fight /\ p.kind \in Alive(worker[s].at) => p.kind \in Alive(worker'[s].at)
  PROVE  Owned(p)'
  <1>1. PICK z \in Slots : /\ p.fight = worker[z].fight /\ p \in ProcessesOf(z, worker[z].fight)
                           /\ p.kind \in Alive(worker[z].at)
    BY DEF Owned
  <1>2. CASE z = s
    BY <1>1, <1>2 DEF Owned
  <1>3. CASE z # s
    BY <1>1, <1>3 DEF Owned
  <1>4. QED
    BY <1>2, <1>3

\* The steps of a fight share one argument: what is alive afterwards was alive
\* and may be so at the next step, or the step has just started it.
LEMMA FightGoesOn ==
  ASSUME RunnerInv, NEW s \in Slots, NEW step \in WorkerSteps \ {"idle", "left"},
         worker[s].at \notin {"idle", "left"}, Goto(s, step),
         queue' = queue, started' = started, files' = files, results' = results, main' = main,
         fails' \in 0 .. MaxFail,
         \A p \in procs' :
            \/ /\ p \in procs
               /\ p.fight = worker[s].fight /\ p.kind \in Alive(worker[s].at) => p.kind \in Alive(step)
            \/ /\ p.fight = worker[s].fight /\ p \in ProcessesOf(s, worker[s].fight)
               /\ p.kind \in Alive(step)
  PROVE  RunnerInv'
  <1>1. /\ WorkersOK' /\ worker'[s].at = step
        /\ \A z \in Slots : worker'[z].fight = worker[z].fight
        /\ \A z \in Slots \ {s} : worker'[z] = worker[z]
    BY WorkerMoves
  <1>2. FightsOnce'
    BY <1>1, FightsStay
  <1>3. RunnerTypeOK' /\ SummaryWhole'
    BY <1>1, BookStays
  <1>4. ASSUME NEW p \in procs' PROVE Owned(p)'
    <2>1. CASE /\ p \in procs
               /\ p.fight = worker[s].fight /\ p.kind \in Alive(worker[s].at) => p.kind \in Alive(step)
      <3>1. Owned(p)
        BY <2>1 DEF RunnerInv
      <3>2. p.fight = worker[s].fight /\ p.kind \in Alive(worker[s].at) => p.kind \in Alive(worker'[s].at)
        BY <1>1, <2>1
      <3>3. QED
        BY <1>1, <3>1, <3>2, OwnedStays
    <2>2. CASE /\ p.fight = worker[s].fight /\ p \in ProcessesOf(s, worker[s].fight)
               /\ p.kind \in Alive(step)
      BY <1>1, <2>2 DEF Owned
    <2>3. QED
      BY <2>1, <2>2
  <1>5. QED
    BY <1>1, <1>2, <1>3, <1>4 DEF RunnerInv

LEMMA LaunchArenaStep ==
  ASSUME RunnerInv, NEW s \in Slots, LaunchArena(s)
  PROVE  RunnerInv'
  <1> DEFINE f == worker[s].fight
  <1>1. /\ worker[s].at = "launch" /\ Goto(s, "arena")
        /\ procs' = procs \cup Proxies(s, f) \cup ArenaProcess(s, f)
        /\ queue' = queue /\ started' = started /\ files' = files /\ results' = results /\ main' = main
        /\ fails' = fails
    BY DEF LaunchArena, At
  <1>2. fails' \in 0 .. MaxFail /\ "arena" \in WorkerSteps \ {"idle", "left"}
    BY <1>1 DEF RunnerInv, RunnerTypeOK, WorkerSteps
  <1>3. \A p \in Proxies(s, f) \cup ArenaProcess(s, f) :
          p.fight = f /\ p \in ProcessesOf(s, f) /\ p.kind \in Alive("arena")
    BY KindsOfProcesses, AliveKinds DEF ProcessesOf
  <1>4. Alive(worker[s].at) = {}
    BY <1>1, AliveKinds
  <1> HIDE DEF f
  <1>5. \A p \in procs' :
            \/ /\ p \in procs
               /\ p.fight = f /\ p.kind \in Alive(worker[s].at) => p.kind \in Alive("arena")
            \/ /\ p.fight = f /\ p \in ProcessesOf(s, f)
               /\ p.kind \in Alive("arena")
    BY <1>1, <1>3, <1>4, Zenon
  <1>6. QED
    BY <1>1, <1>2, <1>5, FightGoesOn DEF f

LEMMA LaunchRobotsStep ==
  ASSUME RunnerInv, NEW s \in Slots, LaunchRobots(s)
  PROVE  RunnerInv'
  <1> DEFINE f == worker[s].fight
  <1>1. /\ worker[s].at = "arena" /\ Goto(s, "fighting")
        /\ procs' = procs \cup ModemsOf(s, f) \cup Brains(f)
        /\ queue' = queue /\ started' = started /\ files' = files /\ results' = results /\ main' = main
        /\ fails' = fails
    BY DEF LaunchRobots, At
  <1>2. fails' \in 0 .. MaxFail /\ "fighting" \in WorkerSteps \ {"idle", "left"}
    BY <1>1 DEF RunnerInv, RunnerTypeOK, WorkerSteps
  <1>3. \A p \in ModemsOf(s, f) \cup Brains(f) :
          p.fight = f /\ p \in ProcessesOf(s, f) /\ p.kind \in Alive("fighting")
    BY KindsOfProcesses, AliveKinds DEF ProcessesOf
  <1>4. Alive(worker[s].at) \subseteq Alive("fighting")
    BY <1>1, AliveKinds
  <1> HIDE DEF f
  <1>5. \A p \in procs' :
            \/ /\ p \in procs
               /\ p.fight = f /\ p.kind \in Alive(worker[s].at) => p.kind \in Alive("fighting")
            \/ /\ p.fight = f /\ p \in ProcessesOf(s, f)
               /\ p.kind \in Alive("fighting")
    BY <1>1, <1>3, <1>4, Zenon
  <1>6. QED
    BY <1>1, <1>2, <1>5, FightGoesOn DEF f

LEMMA ArenaGoneStep ==
  ASSUME RunnerInv, NEW s \in Slots, ArenaGone(s)
  PROVE  RunnerInv'
  <1>1. /\ worker[s].at = "fighting" /\ Goto(s, "reap") /\ procs' = procs
        /\ queue' = queue /\ started' = started /\ files' = files /\ results' = results /\ main' = main
        /\ fails' = fails
    BY DEF ArenaGone, At
  <1>2. fails' \in 0 .. MaxFail /\ "reap" \in WorkerSteps \ {"idle", "left"}
    BY <1>1 DEF RunnerInv, RunnerTypeOK, WorkerSteps
  <1>3. \A p \in procs : p.fight = worker[s].fight => p.kind # "arena"
    BY DEF ArenaGone, OfKind
  <1>4. \A p \in procs :
          p.fight = worker[s].fight /\ p.kind \in Alive(worker[s].at) => p.kind \in Alive("reap")
    BY <1>1, <1>3, AliveKinds
  <1>5. QED
    BY <1>1, <1>2, <1>4, FightGoesOn

LEMMA ArenaTimeoutStep ==
  ASSUME RunnerInv, NEW s \in Slots, ArenaTimeout(s)
  PROVE  RunnerInv'
  <1>1. /\ worker[s].at = "fighting" /\ Goto(s, "dead") /\ procs' = procs
        /\ queue' = queue /\ started' = started /\ files' = files /\ results' = results /\ main' = main
        /\ fails' = fails + 1 /\ fails < MaxFail
    BY DEF ArenaTimeout, At
  <1>2. fails' \in 0 .. MaxFail /\ "dead" \in WorkerSteps \ {"idle", "left"}
    BY <1>1, RunnerConstants DEF RunnerInv, RunnerTypeOK, WorkerSteps
  <1>3. \A p \in procs :
          p.fight = worker[s].fight /\ p.kind \in Alive(worker[s].at) => p.kind \in Alive("dead")
    BY <1>1, AliveKinds
  <1>4. QED
    BY <1>1, <1>2, <1>3, FightGoesOn

LEMMA ReapBrainsStep ==
  ASSUME RunnerInv, NEW s \in Slots, ReapBrains(s)
  PROVE  RunnerInv'
  <1>1. /\ worker[s].at = "reap" /\ Goto(s, "stop")
        /\ procs' = procs \ OfKind("brain", worker[s].fight)
        /\ queue' = queue /\ started' = started /\ files' = files /\ results' = results /\ main' = main
        /\ fails' = fails
    BY DEF ReapBrains, Reaped, At
  <1>2. fails' \in 0 .. MaxFail /\ "stop" \in WorkerSteps \ {"idle", "left"}
    BY <1>1 DEF RunnerInv, RunnerTypeOK, WorkerSteps
  <1>3. \A p \in procs' : p \in procs /\ (p.fight = worker[s].fight => p.kind # "brain")
    BY <1>1 DEF OfKind
  <1>4. \A p \in procs' :
          p.fight = worker[s].fight /\ p.kind \in Alive(worker[s].at) => p.kind \in Alive("stop")
    BY <1>1, <1>3, AliveKinds
  <1>5. QED
    BY <1>1, <1>2, <1>3, <1>4, FightGoesOn

LEMMA StopHelpersStep ==
  ASSUME RunnerInv, NEW s \in Slots, StopHelpers(s)
  PROVE  RunnerInv'
  <1>1. /\ worker[s].at = "stop" /\ Goto(s, "read")
        /\ procs' = procs \ (OfKind("modem", worker[s].fight) \cup OfKind("proxy", worker[s].fight))
        /\ queue' = queue /\ started' = started /\ files' = files /\ results' = results /\ main' = main
        /\ fails' = fails
    BY DEF StopHelpers, Stopped, At
  <1>2. fails' \in 0 .. MaxFail /\ "read" \in WorkerSteps \ {"idle", "left"}
    BY <1>1 DEF RunnerInv, RunnerTypeOK, WorkerSteps
  <1>3. \A p \in procs' :
          p \in procs /\ (p.fight = worker[s].fight => p.kind # "modem" /\ p.kind # "proxy")
    BY <1>1 DEF OfKind
  <1>4. \A p \in procs' :
          p.fight = worker[s].fight /\ p.kind \in Alive(worker[s].at) => p.kind \in Alive("read")
    BY <1>1, <1>3, AliveKinds
  <1>5. QED
    BY <1>1, <1>2, <1>3, <1>4, FightGoesOn

\* A worker takes the first fight of the list: nobody has begun it, and no other
\* entry of the list names it.
LEMMA TakeStep ==
  ASSUME RunnerInv, NEW s \in Slots, Take(s)
  PROVE  RunnerInv'
  <1> DEFINE f == Head(queue)
             w == [at |-> "launch", fight |-> f]
  <1>1. /\ worker[s].at = "idle" /\ queue # <<>> /\ queue' = Tail(queue)
        /\ worker' = [worker EXCEPT ![s] = w]
        /\ started' = [started EXCEPT ![f] = @ + 1]
        /\ procs' = procs /\ files' = files /\ results' = results /\ fails' = fails /\ main' = main
    BY DEF Take, At
  <1>2. /\ worker \in [Slots -> [at : WorkerSteps, fight : Fights \cup {Nobody}]]
        /\ \A z \in Slots : worker[z].fight = Nobody <=> worker[z].at \in {"idle", "left"}
        /\ queue \in Seq(Fights) /\ started \in [Fights -> 0 .. 1]
        /\ \A i, j \in 1 .. Len(queue) : queue[i] = queue[j] => i = j
        /\ \A i \in 1 .. Len(queue) : started[queue[i]] = 0
        /\ \A z \in Slots : worker[z].fight # Nobody => started[worker[z].fight] = 1
        /\ \A z, u \in Slots :
              worker[z].fight # Nobody /\ worker[z].fight = worker[u].fight => z = u
    BY DEF RunnerInv, WorkersOK, FightsOnce
  <1>3. /\ f \in Fights /\ f = queue[1] /\ started[f] = 0
        /\ queue' \in Seq(Fights) /\ Len(queue') = Len(queue) - 1 /\ Len(queue) \in Nat
        /\ \A i \in 1 .. Len(queue') : queue'[i] = queue[i + 1] /\ i + 1 \in 1 .. Len(queue)
    BY <1>1, <1>2
  <1>4. f # Nobody /\ w.at = "launch" /\ w.fight = f
        /\ w \in [at : WorkerSteps, fight : Fights \cup {Nobody}]
    BY <1>3, RunnerConstants DEF WorkerSteps
  <1> HIDE DEF f, w
  <1>5. worker'[s] = w /\ \A z \in Slots \ {s} : worker'[z] = worker[z]
    BY <1>1, <1>2
  <1>6. worker' \in [Slots -> [at : WorkerSteps, fight : Fights \cup {Nobody}]]
    BY <1>1, <1>2, <1>4
  <1>7. WorkersOK'
    <2>1. \A z \in Slots : worker'[z].fight = Nobody <=> worker'[z].at \in {"idle", "left"}
      BY <1>2, <1>4, <1>5
    <2>2. QED
      BY <1>6, <2>1 DEF WorkersOK
  <1>8. started'[f] = 1 /\ \A g \in Fights \ {f} : started'[g] = started[g]
    BY <1>1, <1>2, <1>3
  <1>9. started' \in [Fights -> 0 .. 1]
    BY <1>1, <1>2, <1>3
  <1>10. \A z \in Slots : worker[z].fight # f
    BY <1>2, <1>3, <1>4
  <1>11. FightsOnce'
    <2>1. \A i, j \in 1 .. Len(queue') : queue'[i] = queue'[j] => i = j
      BY <1>2, <1>3
    <2>2. \A i \in 1 .. Len(queue') : queue[i + 1] # f /\ queue[i + 1] \in Fights
      BY <1>2, <1>3
    <2>3. \A i \in 1 .. Len(queue') : started'[queue'[i]] = 0
      BY <1>2, <1>3, <1>8, <2>2
    <2>4. \A z \in Slots : worker'[z].fight # Nobody => started'[worker'[z].fight] = 1
      <3>1. ASSUME NEW z \in Slots, z # s, worker'[z].fight # Nobody
            PROVE  started'[worker'[z].fight] = 1
        BY <1>2, <1>5, <1>8, <1>10, <3>1
      <3>2. started'[worker'[s].fight] = 1
        BY <1>4, <1>5, <1>8
      <3>3. QED
        BY <3>1, <3>2
    <2>5. \A z, u \in Slots :
             worker'[z].fight # Nobody /\ worker'[z].fight = worker'[u].fight => z = u
      BY <1>2, <1>4, <1>5, <1>10
    <2>6. QED
      BY <1>3, <1>9, <2>1, <2>3, <2>4, <2>5 DEF FightsOnce
  <1>12. RunnerTypeOK' /\ SummaryWhole'
    BY <1>1, <1>6 DEF RunnerInv, RunnerTypeOK, SummaryWhole
  <1>13. ASSUME NEW p \in procs' PROVE Owned(p)'
    <2>1. PICK z \in Slots : /\ p.fight = worker[z].fight /\ p \in ProcessesOf(z, worker[z].fight)
                             /\ p.kind \in Alive(worker[z].at)
      BY <1>1 DEF RunnerInv, Owned
    <2>2. z # s
      BY <1>1, <2>1, AliveKinds
    <2>3. QED
      BY <1>5, <2>1, <2>2 DEF Owned
  <1>14. QED
    BY <1>7, <1>11, <1>12, <1>13 DEF RunnerInv

LEMMA LeaveStep ==
  ASSUME RunnerInv, NEW s \in Slots, Leave(s)
  PROVE  RunnerInv'
  <1> DEFINE w == [worker[s] EXCEPT !.at = "left"]
  <1>1. /\ worker[s].at = "idle" /\ worker' = [worker EXCEPT ![s] = w]
        /\ queue' = queue /\ started' = started
        /\ procs' = procs /\ files' = files /\ results' = results /\ fails' = fails /\ main' = main
    BY DEF Leave, At, Goto
  <1>2. /\ worker \in [Slots -> [at : WorkerSteps, fight : Fights \cup {Nobody}]]
        /\ \A z \in Slots : worker[z].fight = Nobody <=> worker[z].at \in {"idle", "left"}
    BY DEF RunnerInv, WorkersOK
  <1>3. w \in [at : WorkerSteps, fight : Fights \cup {Nobody}] /\ w.at = "left"
        /\ w.fight = worker[s].fight
    BY <1>2 DEF WorkerSteps
  <1> HIDE DEF w
  <1>4. worker'[s] = w /\ \A z \in Slots \ {s} : worker'[z] = worker[z]
    BY <1>1, <1>2
  <1>5. worker' \in [Slots -> [at : WorkerSteps, fight : Fights \cup {Nobody}]]
    BY <1>1, <1>2, <1>3
  <1>6. \A z \in Slots : worker'[z].fight = worker[z].fight
    BY <1>3, <1>4
  <1>7. WorkersOK'
    <2>1. \A z \in Slots : worker'[z].fight = Nobody <=> worker'[z].at \in {"idle", "left"}
      BY <1>1, <1>2, <1>3, <1>4
    <2>2. QED
      BY <1>5, <2>1 DEF WorkersOK
  <1>8. fails' \in 0 .. MaxFail
    BY <1>1 DEF RunnerInv, RunnerTypeOK
  <1>9. FightsOnce' /\ RunnerTypeOK' /\ SummaryWhole'
    BY <1>1, <1>6, <1>8, FightsStay, BookStays
  <1>10. ASSUME NEW p \in procs' PROVE Owned(p)'
    <2>1. Owned(p)
      BY <1>1 DEF RunnerInv
    <2>2. p.fight = worker[s].fight /\ p.kind \in Alive(worker[s].at) => p.kind \in Alive(worker'[s].at)
      BY <1>1, AliveKinds
    <2>3. QED
      BY <1>4, <1>6, <2>1, <2>2, OwnedStays
  <1>11. QED
    BY <1>7, <1>9, <1>10 DEF RunnerInv

\* A worker is free again only after it has read its result, and nothing of the
\* fight is alive then; without a result it ends.
LEMMA ReadResultStep ==
  ASSUME RunnerInv, NEW s \in Slots, ReadResult(s)
  PROVE  RunnerInv'
  <1>1. /\ worker[s].at = "read"
        /\ queue' = queue /\ started' = started
        /\ procs' = procs /\ files' = files /\ fails' = fails /\ main' = main
    BY DEF ReadResult, At
  <1>2. fails' \in 0 .. MaxFail
    BY <1>1 DEF RunnerInv, RunnerTypeOK
  <1>3. CASE worker[s].fight \notin files
    <2>1. Goto(s, "dead") /\ results' = results /\ "dead" \in WorkerSteps \ {"idle", "left"}
      BY <1>3 DEF ReadResult, WorkerSteps
    <2>2. \A p \in procs :
            p.fight = worker[s].fight /\ p.kind \in Alive(worker[s].at) => p.kind \in Alive("dead")
      BY <1>1, AliveKinds
    <2>3. QED
      BY <1>1, <1>2, <2>1, <2>2, FightGoesOn
  <1>4. CASE worker[s].fight \in files
    <2> DEFINE w == [at |-> "idle", fight |-> Nobody]
    <2>1. results' = results \cup {worker[s].fight} /\ worker' = [worker EXCEPT ![s] = w]
      BY <1>4 DEF ReadResult
    <2>2. /\ worker \in [Slots -> [at : WorkerSteps, fight : Fights \cup {Nobody}]]
          /\ \A z \in Slots : worker[z].fight = Nobody <=> worker[z].at \in {"idle", "left"}
          /\ queue \in Seq(Fights) /\ started \in [Fights -> 0 .. 1]
          /\ \A i, j \in 1 .. Len(queue) : queue[i] = queue[j] => i = j
          /\ \A i \in 1 .. Len(queue) : started[queue[i]] = 0
          /\ \A z \in Slots : worker[z].fight # Nobody => started[worker[z].fight] = 1
          /\ \A z, u \in Slots :
                worker[z].fight # Nobody /\ worker[z].fight = worker[u].fight => z = u
      BY DEF RunnerInv, WorkersOK, FightsOnce
    <2>3. w.at = "idle" /\ w.fight = Nobody /\ w \in [at : WorkerSteps, fight : Fights \cup {Nobody}]
      BY DEF WorkerSteps
    <2> HIDE DEF w
    <2>4. worker'[s] = w /\ \A z \in Slots \ {s} : worker'[z] = worker[z]
      BY <2>1, <2>2
    <2>5. worker' \in [Slots -> [at : WorkerSteps, fight : Fights \cup {Nobody}]]
      BY <2>1, <2>2, <2>3
    <2>6. WorkersOK'
      <3>1. \A z \in Slots : worker'[z].fight = Nobody <=> worker'[z].at \in {"idle", "left"}
        BY <2>2, <2>3, <2>4
      <3>2. QED
        BY <2>5, <3>1 DEF WorkersOK
    <2>7. FightsOnce'
      <3>1. \A z \in Slots : worker'[z].fight # Nobody => started'[worker'[z].fight] = 1
        BY <1>1, <2>2, <2>3, <2>4
      <3>2. \A z, u \in Slots :
               worker'[z].fight # Nobody /\ worker'[z].fight = worker'[u].fight => z = u
        BY <2>2, <2>3, <2>4
      <3>3. QED
        BY <1>1, <2>2, <3>1, <3>2 DEF FightsOnce
    <2>8. RunnerTypeOK'
      BY <1>1, <1>4, <2>1, <2>5 DEF RunnerInv, RunnerTypeOK
    <2>9. SummaryWhole'
      <3>1. files \subseteq Fights
        BY DEF RunnerInv, RunnerTypeOK
      <3>2. QED
        BY <1>1, <1>4, <2>1, <3>1 DEF RunnerInv, SummaryWhole
    <2>10. ASSUME NEW p \in procs' PROVE Owned(p)'
      <3>1. PICK z \in Slots : /\ p.fight = worker[z].fight /\ p \in ProcessesOf(z, worker[z].fight)
                               /\ p.kind \in Alive(worker[z].at)
        BY <1>1 DEF RunnerInv, Owned
      <3>2. z # s
        BY <1>1, <3>1, AliveKinds
      <3>3. QED
        BY <2>4, <3>1, <3>2 DEF Owned
    <2>11. QED
      BY <2>6, <2>7, <2>8, <2>9, <2>10 DEF RunnerInv
  <1>5. QED
    BY <1>3, <1>4

\* Processes that end, and main's verdict, disturb no worker.
LEMMA ProcessesEnd ==
  ASSUME RunnerInv, worker' = worker, queue' = queue, started' = started, procs' \subseteq procs,
         files' \subseteq Fights, files \subseteq files', results' = results,
         fails' \in 0 .. MaxFail, main' = main \/ main' = Summarised
  PROVE  RunnerInv'
  <1>1. WorkersOK' /\ FightsOnce'
    BY DEF RunnerInv, WorkersOK, FightsOnce
  <1>2. main' \in {"running", "summary", "failed"}
    BY DEF RunnerInv, RunnerTypeOK, Summarised
  <1>3. RunnerTypeOK'
    BY <1>2 DEF RunnerInv, RunnerTypeOK
  <1>4. SummaryWhole'
    BY DEF RunnerInv, SummaryWhole, Summarised
  <1>5. \A p \in procs' : Owned(p)'
    BY DEF RunnerInv, Owned
  <1>6. QED
    BY <1>1, <1>3, <1>4, <1>5 DEF RunnerInv

LEMMA ArenaEndsStep ==
  ASSUME RunnerInv, NEW f \in Fights, ArenaEnds(f)
  PROVE  RunnerInv'
  <1>1. /\ worker' = worker /\ queue' = queue /\ started' = started /\ results' = results
        /\ main' = main /\ procs' \subseteq procs
    BY DEF ArenaEnds
  <1>2. files \subseteq Fights /\ fails \in 0 .. MaxFail
    BY DEF RunnerInv, RunnerTypeOK
  <1>3. fails' \in 0 .. MaxFail
    BY <1>2, RunnerConstants DEF ArenaEnds
  <1>4. files' \subseteq Fights /\ files \subseteq files'
    BY <1>2 DEF ArenaEnds
  <1>5. QED
    BY <1>1, <1>3, <1>4, ProcessesEnd

LEMMA BrainEndsStep ==
  ASSUME RunnerInv, NEW f \in Fights, BrainEnds(f)
  PROVE  RunnerInv'
  <1>1. /\ worker' = worker /\ queue' = queue /\ started' = started /\ results' = results
        /\ main' = main /\ procs' \subseteq procs /\ files' = files /\ fails' = fails
    BY DEF BrainEnds
  <1>2. files \subseteq Fights /\ fails \in 0 .. MaxFail
    BY DEF RunnerInv, RunnerTypeOK
  <1>3. QED
    BY <1>1, <1>2, ProcessesEnd

LEMMA JoinStep ==
  ASSUME RunnerInv, Join
  PROVE  RunnerInv'
  <1>1. files \subseteq Fights /\ fails \in 0 .. MaxFail
    BY DEF RunnerInv, RunnerTypeOK
  <1>2. QED
    BY <1>1, ProcessesEnd DEF Join

LEMMA RunnerStep ==
  ASSUME RunnerInv, [RunnerNext]_runnerVars
  PROVE  RunnerInv'
  <1>1. CASE UNCHANGED runnerVars
    <2>1. files \subseteq Fights /\ fails \in 0 .. MaxFail
      BY DEF RunnerInv, RunnerTypeOK
    <2>2. QED
      BY <1>1, <2>1, ProcessesEnd DEF runnerVars
  <1>2. ASSUME NEW s \in Slots, WorkerStep(s) \/ ArenaTimeout(s) PROVE RunnerInv'
    BY <1>2, TakeStep, LeaveStep, LaunchArenaStep, LaunchRobotsStep, ArenaGoneStep,
       ReapBrainsStep, StopHelpersStep, ReadResultStep, ArenaTimeoutStep DEF WorkerStep
  <1>3. ASSUME NEW f \in Fights, ArenaEnds(f) \/ BrainEnds(f) PROVE RunnerInv'
    BY <1>3, ArenaEndsStep, BrainEndsStep
  <1>4. QED
    BY <1>1, <1>2, <1>3, JoinStep DEF RunnerNext

\* A fight is in the list or with one worker, and every process belongs to the
\* ports and the step of the worker that started it (run_fight, main), for any
\* number of fights and workers, any handicap and any crashes.
THEOREM RunnerInvariant == RunnerSpec => []RunnerInv
  <1>1. RunnerInit => RunnerInv
    BY RunnerInitInv
  <1>2. RunnerInv /\ [RunnerNext]_runnerVars => RunnerInv'
    BY RunnerStep
  <1>3. QED
    BY <1>1, <1>2, PTL DEF RunnerSpec

\* Fights of a series never touch each other: no port is bound twice, not by
\* what an ended worker left behind either, no fight is begun twice, and no
\* summary is written over a part of the results (run_fight, main).
THEOREM FightsApart == RunnerSpec => []RunnerClean
  <1>1. RunnerSpec => []RunnerInv
    BY RunnerInvariant
  <1>2. RunnerInv => RunnerClean
    BY RunnerSafe
  <1>3. QED
    BY <1>1, <1>2, PTL

(***************************************************************************)
(* The balance law (BalanceCore): the motors' limit, the bound of the      *)
(* reference, and its slew after an outage of any length.                  *)
(***************************************************************************)

\* Cutting to a limit stays within it, and within the way to the value cut.
LEMMA ClampedBounds ==
  ASSUME NEW x \in Int, NEW limit \in Nat
  PROVE  /\ Clamped(x, limit) \in Int
         /\ -limit <= Clamped(x, limit) /\ Clamped(x, limit) <= limit
         /\ x >= 0 => 0 <= Clamped(x, limit) /\ Clamped(x, limit) <= x
         /\ x <= 0 => x <= Clamped(x, limit) /\ Clamped(x, limit) <= 0
BY DEF Clamped

\* The time the slew counts is never negative and never more than MaxDt.
LEMMA SlewTimeBounds ==
  ASSUME BalanceTypeOK
  PROVE  SlewTime \in 0 .. MaxDt
BY BalanceAssumption DEF BalanceTypeOK, SlewTime

\* A new reference lies between the old one and the wish cut to VMax, and no
\* further from the old one than the slew of one cut step.
LEMMA ReferenceBounds ==
  ASSUME BalanceTypeOK, ReferenceWithinCommand, NEW wish \in Int, NEW v \in References(wish)
  PROVE  /\ v \in Int
         /\ -VMax <= v /\ v <= VMax
         /\ v - ref.v <= Accel * MaxDt
         /\ ref.v - v <= Accel * MaxDt
<1> DEFINE goal == Clamped(wish, VMax)
           way == goal - ref.v
           slew == Accel * SlewTime
<1>1. VMax \in Nat /\ Accel \in Nat /\ MaxDt \in Nat /\ ref.v \in Int
  BY BalanceAssumption DEF BalanceTypeOK
<1>2. goal \in Int /\ -VMax <= goal /\ goal <= VMax
  BY <1>1, ClampedBounds
<1>3. SlewTime \in Nat /\ SlewTime <= MaxDt
  BY SlewTimeBounds, <1>1
<1>4. slew \in Nat /\ slew <= Accel * MaxDt
  <2>1. slew \in Nat
    BY <1>1, <1>3
  <2>2. \A a, b, c \in Nat : b <= c => a * b <= a * c
    OBVIOUS
  <2> QED BY <1>1, <1>3, <2>1, <2>2
<1>5. PICK d \in (IF way < 0 THEN way .. 0 ELSE 0 .. way) : v = ref.v + Clamped(d, slew)
  BY DEF References
<1>6. d \in Int /\ (way < 0 => way <= d /\ d <= 0) /\ (way >= 0 => 0 <= d /\ d <= way)
  BY <1>1, <1>2, <1>5
<1> DEFINE c == Clamped(d, slew)
<1>7. /\ c \in Int /\ -slew <= c /\ c <= slew
      /\ (d >= 0 => 0 <= c /\ c <= d) /\ (d <= 0 => d <= c /\ c <= 0)
  BY <1>4, <1>6, ClampedBounds
<1>8. -VMax <= ref.v /\ ref.v <= VMax
  BY DEF ReferenceWithinCommand
<1> HIDE DEF c, goal, slew
<1>9. Accel * MaxDt \in Int
  BY <1>1
<1> QED
  BY <1>1, <1>2, <1>4, <1>5, <1>6, <1>7, <1>8, <1>9 DEF c, way

LEMMA BalanceInitInv == BalanceInit => BalanceInv
BY BalanceAssumption
   DEF BalanceInit, BalanceInv, BalanceTypeOK, MotorsWithinLimit, ReferenceWithinCommand

LEMMA BalanceCallInv == BalanceInv /\ BalanceCall => BalanceInv' /\ ref'.v - ref.v <= Accel * MaxDt
                                                             /\ ref.v - ref'.v <= Accel * MaxDt
<1> SUFFICES ASSUME BalanceInv, BalanceCall
             PROVE  BalanceInv' /\ ref'.v - ref.v <= Accel * MaxDt
                                /\ ref.v - ref'.v <= Accel * MaxDt
  OBVIOUS
<1> USE DEF BalanceInv
<1>1. PICK wish \in Wishes : \E v \in References(wish) : ref' = [v |-> v, at |-> simTime]
  BY DEF BalanceCall
<1>2. PICK v \in References(wish) : ref' = [v |-> v, at |-> simTime]
  BY <1>1
<1>3. wish \in Int
  BY BalanceAssumption
<1>4. /\ v \in Int /\ -VMax <= v /\ v <= VMax
      /\ v - ref.v <= Accel * MaxDt /\ ref.v - v <= Accel * MaxDt
  BY <1>3, ReferenceBounds
<1>5. simTime \in 0 .. MaxTime /\ simTime' = simTime
  BY DEF BalanceCall, BalanceTypeOK
<1>6. ReferenceWithinCommand' /\ ref' \in [v : Int, at : Int]
  BY <1>2, <1>4, <1>5 DEF ReferenceWithinCommand
<1>7. PICK f \in Feedbacks, s \in Steers :
        torque' = [common |-> Clamped(f, Limit),
                   left |-> Clamped(f, Limit) - Steering(Clamped(f, Limit), s),
                   right |-> Clamped(f, Limit) + Steering(Clamped(f, Limit), s)]
  BY DEF BalanceCall
<1> DEFINE u == Clamped(f, Limit)
           room == Limit - (IF u < 0 THEN -u ELSE u)
           d == Clamped(s, room)
<1>8. f \in Int /\ s \in Int /\ Limit \in Nat
  BY BalanceAssumption
<1>9. u \in Int /\ -Limit <= u /\ u <= Limit
  BY <1>8, ClampedBounds
<1>10. room \in Nat
  BY <1>8, <1>9
<1>11. d \in Int /\ -room <= d /\ d <= room
  BY <1>8, <1>10, ClampedBounds
<1>12. torque' = [common |-> u, left |-> u - d, right |-> u + d]
  BY <1>7 DEF Steering
<1> HIDE DEF u, d
<1>13. MotorsWithinLimit' /\ torque' \in [common : Int, left : Int, right : Int]
  BY <1>8, <1>9, <1>11, <1>12 DEF MotorsWithinLimit
<1> QED
  BY <1>2, <1>4, <1>5, <1>6, <1>13 DEF BalanceTypeOK

LEMMA StateArrivesInv == BalanceInv /\ StateArrives => BalanceInv'
BY BalanceAssumption
   DEF BalanceInv, StateArrives, BalanceTypeOK, MotorsWithinLimit, ReferenceWithinCommand

LEMMA BalanceInductive == BalanceInv /\ [BalanceNext]_balanceVars => BalanceInv'
<1> SUFFICES ASSUME BalanceInv, [BalanceNext]_balanceVars
             PROVE  BalanceInv'
  OBVIOUS
<1>1. CASE BalanceCall
  BY <1>1, BalanceCallInv
<1>2. CASE StateArrives
  BY <1>2, StateArrivesInv
<1>3. CASE UNCHANGED balanceVars
  BY <1>3 DEF BalanceInv, balanceVars, BalanceTypeOK, MotorsWithinLimit, ReferenceWithinCommand
<1> QED BY <1>1, <1>2, <1>3 DEF BalanceNext

LEMMA BalanceAlways == BalanceSpec => []BalanceInv
BY BalanceInitInv, BalanceInductive, PTL DEF BalanceSpec

\* Types of the balance law's state (_balance_core).
THEOREM BalanceTypes == BalanceSpec => []BalanceTypeOK
BY BalanceAlways, PTL DEF BalanceInv

\* No motor is asked for more than its limit and steering never takes torque
\* from balance, whatever the feedback and the limits (_balance_core, last lines).
THEOREM Motors == BalanceSpec => []MotorsWithinLimit
BY BalanceAlways, PTL DEF BalanceInv

\* The speed reference stays within the command limit (_balance_core's clips).
THEOREM ReferenceBounded == BalanceSpec => []ReferenceWithinCommand
BY BalanceAlways, PTL DEF BalanceInv

\* Whatever time lies between two calls, the reference moves by at most one cut
\* step (_balance_core's dt).
THEOREM SlewAfterOutage == BalanceSpec => ReferenceSlews
<1>1. BalanceInv /\ [BalanceNext]_balanceVars =>
        [/\ ref'.v - ref.v <= Accel * MaxDt
         /\ ref.v - ref'.v <= Accel * MaxDt]_balanceVars
  <2> SUFFICES ASSUME BalanceInv, BalanceNext
               PROVE  [/\ ref'.v - ref.v <= Accel * MaxDt
                       /\ ref.v - ref'.v <= Accel * MaxDt]_balanceVars
    BY DEF BalanceNext
  <2>1. CASE BalanceCall
    BY <2>1, BalanceCallInv
  <2>2. CASE StateArrives
    <3>1. Accel * MaxDt \in Nat
      BY BalanceAssumption
    <3> QED BY <2>2, <3>1 DEF StateArrives, BalanceInv, BalanceTypeOK
  <2> QED BY <2>1, <2>2 DEF BalanceNext
<1> QED BY <1>1, BalanceAlways, PTL DEF BalanceSpec, ReferenceSlews

\* The three together: what the balance law promises the motors and the pilot.
THEOREM BalanceHeld == BalanceSpec => BalanceHolds
BY Motors, ReferenceBounded, SlewAfterOutage, PTL DEF BalanceHolds

(***************************************************************************)
(* The policies (BrainPolicy).                                             *)
(***************************************************************************)
MemType == [mode : {"none", "escape", "dodge", "disengage", "backoff"}, until : Int,
            side : {1, -1}, since : Int]
Retreats == {"disengage", "backoff"}
Watched(v) == IF policy = "reactive" THEN v.headOn ELSE v.contact

LEMMA PolicyTimes ==
  /\ MaxStep \in Nat /\ HeadOn \in Nat /\ Disengage \in Nat /\ Escape \in Nat /\ Dodge \in Nat
  /\ Stall \in Nat /\ Backoff \in Nat
  BY PolicyAssumption

\* What the history says after a call.
LEMMA Remembered ==
  ASSUME PolicyTypes, NEW v \in Views, NEW move \in Moves, NEW n \in MemType,
         past' = Remember(v, << move, n >>)
  PROVE  /\ past'.firm = (IF move = "brake" THEN past.firm
                          ELSE IF ~Watched(v) \/ n.mode # "none" THEN None
                          ELSE IF past.firm = None THEN t ELSE past.firm)
         /\ past'.begun = past.begun + (IF n.mode \in Retreats /\ mem.mode # n.mode THEN 1 ELSE 0)
         /\ past'.back = (move \in Retreats \/ (past.back /\ ~(n.mode \in Retreats /\ mem.mode # n.mode)))
         /\ past' \in [firm : Int, begun : Nat, back : BOOLEAN]
  <1> DEFINE begins == n.mode \in Retreats /\ mem.mode # n.mode
             f == IF move = "brake" THEN past.firm
                  ELSE IF ~Watched(v) \/ n.mode # "none" THEN None
                  ELSE IF past.firm = None THEN t ELSE past.firm
             k == past.begun + (IF begins THEN 1 ELSE 0)
             b == move \in Retreats \/ (past.back /\ ~begins)
  <1>1. past' = [firm |-> f, begun |-> k, back |-> b]
    BY DEF Remember, Watched, Retreats
  <1>2. past.firm \in Int /\ past.begun \in Nat /\ past.back \in BOOLEAN /\ t \in Int /\ None \in Int
    BY DEF PolicyTypes, None
  <1>3. f \in Int /\ k \in Nat
    BY <1>2
  <1>4. b \in BOOLEAN
    BY <1>2
  <1> HIDE DEF f, k, b
  <1>5. past'.firm = f /\ past'.begun = k /\ past'.back = b
        /\ past' \in [firm : Int, begun : Nat, back : BOOLEAN]
    BY <1>1, <1>3, <1>4
  <1>6. QED
    BY <1>5 DEF f, k, b

\* What every call may do: no retreat begins unearned, and the flank is switched
\* only after the robot was driven backward.
CallRight ==
  /\ PolicyInv'
  /\ (mem'.mode \in {"disengage", "backoff"} /\ mem.mode # mem'.mode =>
        /\ past.firm # None
        /\ t - past.firm > IF policy = "reactive" THEN HeadOn ELSE Stall)
  /\ (mem'.side # mem.side => past.back)

\* A reflex goes on.
LEMMA ReflexGoesOn ==
  ASSUME PolicyInv, NEW v \in Views, mem.mode # "none", did' = mem.mode, mem' = mem,
         past' = Remember(v, << mem.mode, mem >>), UNCHANGED << policy, t >>
  PROVE  CallRight
  <1>1. PolicyTypes /\ mem \in MemType /\ mem.mode \in Moves /\ mem.mode # "brake"
    BY DEF PolicyInv, PolicyTypes, MemType, Moves
  <1>2. /\ past'.firm = None /\ past'.begun = past.begun + 0
        /\ past'.back = (mem.mode \in Retreats \/ past.back)
        /\ past' \in [firm : Int, begun : Nat, back : BOOLEAN]
    BY <1>1, Remembered
  <1>3. past'.begun = past.begun
    BY <1>1, <1>2 DEF PolicyTypes
  <1>4. PolicyTypes'
    BY <1>1, <1>2 DEF PolicyTypes
  <1>5. TimerRight' /\ ShoveBounded'
    BY <1>2 DEF TimerRight, ShoveBounded
  <1>6. RetreatDriven'
    BY <1>2 DEF RetreatDriven, Retreats
  <1>7. FlankByRetreats'
    BY <1>3 DEF PolicyInv, FlankByRetreats
  <1>8. QED
    BY <1>4, <1>5, <1>6, <1>7 DEF CallRight, PolicyInv

\* The flank counts the retreats that are over, one more or one begun.
LEMMA FlankParity ==
  ASSUME NEW k \in Nat
  PROVE  /\ (k % 2 = 0) <=> ((k + 1) % 2 # 0)
         /\ ((k - 1) % 2 = 0) <=> (k % 2 # 0)
  OBVIOUS

\* A call after which no retreat is in progress.
LEMMA NoRetreatNow ==
  ASSUME PolicyInv, NEW v \in Views, NEW move \in Moves, NEW n \in MemType,
         did' = move, mem' = n, past' = Remember(v, << move, n >>), UNCHANGED << policy, t >>,
         n.mode \in {"none", "escape", "dodge"}, policy = "pusher" => n.mode = "none",
         move \notin Retreats, n.mode # "none" => move # "brake",
         n.side = IF mem.mode \in Retreats THEN -mem.side ELSE mem.side,
         mem.mode \in Retreats => past.back,
         n.mode = "none" =>
           n.since = IF move = "brake" THEN past.firm ELSE IF ~Watched(v) THEN None
                     ELSE IF past.firm = None THEN t ELSE past.firm,
         move \in {"push", "flank"} /\ n.since # None => t - n.since <= HeadOn,
         move = "drive" /\ n.since # None => t - n.since <= Stall,
         move \in {"push", "flank", "drive"} => n.mode = "none"
  PROVE  CallRight
  <1>1. PolicyTypes
    BY DEF PolicyInv
  <1>2. n.mode \notin Retreats
    BY DEF Retreats
  <1>3. /\ past'.firm = (IF move = "brake" THEN past.firm
                         ELSE IF ~Watched(v) \/ n.mode # "none" THEN None
                         ELSE IF past.firm = None THEN t ELSE past.firm)
        /\ past'.begun = past.begun + 0
        /\ past' \in [firm : Int, begun : Nat, back : BOOLEAN]
    BY <1>1, <1>2, Remembered
  <1>4. past'.begun = past.begun /\ past.begun \in Nat /\ mem.side \in {1, -1}
    BY <1>1, <1>3 DEF PolicyTypes
  <1>5. PolicyTypes'
    BY <1>1, <1>3 DEF PolicyTypes, MemType
  <1>6. TimerRight'
    BY <1>3 DEF TimerRight
  <1>7. ShoveBounded'
    BY <1>3 DEF ShoveBounded
  <1>8. RetreatDriven'
    BY <1>2 DEF RetreatDriven, Retreats
  <1>9. FlankByRetreats'
    <2> DEFINE k == past.begun
    <2>1. n.side = IF k % 2 = 0 THEN 1 ELSE -1
      <3>1. CASE mem.mode \in Retreats
        <4>1. mem.side = IF (k - 1) % 2 = 0 THEN 1 ELSE -1
          BY <3>1 DEF PolicyInv, FlankByRetreats, Retreats
        <4>2. ((k - 1) % 2 = 0) <=> (k % 2 # 0)
          BY <1>4, FlankParity
        <4>3. n.side = -mem.side
          BY <3>1
        <4> HIDE DEF k
        <4>4. QED
          BY <4>1, <4>2, <4>3
      <3>2. CASE mem.mode \notin Retreats
        <4>1. mem.side = IF (k - 0) % 2 = 0 THEN 1 ELSE -1
          BY <3>2 DEF PolicyInv, FlankByRetreats, Retreats
        <4>2. k - 0 = k
          BY <1>4
        <4>3. QED
          BY <3>2, <4>1, <4>2
      <3>3. QED
        BY <3>1, <3>2
    <2>2. k - 0 = k
      BY <1>4
    <2>3. QED
      BY <1>2, <1>4, <2>1, <2>2 DEF FlankByRetreats, Retreats
  <1>10. QED
    BY <1>2, <1>5, <1>6, <1>7, <1>8, <1>9 DEF CallRight, PolicyInv, Retreats

\* A retreat is decided on.
LEMMA RetreatBegins ==
  ASSUME PolicyInv, NEW v \in Views, NEW move \in Moves, NEW n \in MemType,
         did' = move, mem' = n, past' = Remember(v, << move, n >>), UNCHANGED << policy, t >>,
         mem.mode = "none", n.side = mem.side, mem.since # None,
         \/ /\ policy = "reactive" /\ n.mode = "disengage" /\ move = "disengage"
            /\ t - mem.since > HeadOn
         \/ /\ policy = "pusher" /\ n.mode = "backoff" /\ move = "drive" /\ n.until = t + Backoff
            /\ t - mem.since > Stall
  PROVE  CallRight
  <1>1. PolicyTypes /\ mem.since = past.firm
    BY DEF PolicyInv, TimerRight
  <1>2. n.mode \in Retreats /\ mem.mode # n.mode /\ move # "brake" /\ n.mode # "none"
    BY DEF Retreats
  <1>3. /\ past'.firm = None /\ past'.begun = past.begun + 1
        /\ past'.back = (move \in Retreats)
        /\ past' \in [firm : Int, begun : Nat, back : BOOLEAN]
    BY <1>1, <1>2, Remembered
  <1>4. past.begun \in Nat /\ t \in Nat
    BY <1>1 DEF PolicyTypes
  <1>5. PolicyTypes'
    BY <1>1, <1>3 DEF PolicyTypes, MemType
  <1>6. TimerRight' /\ ShoveBounded'
    BY <1>2, <1>3 DEF TimerRight, ShoveBounded
  <1>7. RetreatDriven'
    <2>1. CASE n.mode = "disengage"
      BY <1>3, <2>1 DEF RetreatDriven, Retreats
    <2>2. CASE n.mode = "backoff"
      <3>1. n.until = t + Backoff /\ move = "drive"
        BY <2>2
      <3>2. t + Backoff <= n.until + 0
        BY <1>4, <3>1, PolicyTimes
      <3>3. QED
        BY <2>2, <3>1, <3>2 DEF RetreatDriven
    <2>3. QED
      BY <1>2, <2>1, <2>2 DEF Retreats
  <1>8. FlankByRetreats'
    <2>1. mem.side = IF (past.begun - 0) % 2 = 0 THEN 1 ELSE -1
      BY DEF PolicyInv, FlankByRetreats
    <2>2. past'.begun - 1 = past.begun - 0
      BY <1>3, <1>4
    <2>3. QED
      BY <1>2, <2>1, <2>2 DEF FlankByRetreats, Retreats
  <1>9. QED
    BY <1>1, <1>5, <1>6, <1>7, <1>8 DEF CallRight, PolicyInv

\* The memory that the rules of reactive begin with: no reflex in progress, and
\* a timer that agrees with the history.
LEMMA ReflexCleared ==
  ASSUME PolicyInv, NEW n, n = IF mem.mode # "none" THEN ReflexOver(mem) ELSE mem,
         policy = "reactive"
  PROVE  /\ n \in MemType /\ n.mode = "none" /\ n.since = past.firm
         /\ n.side = IF mem.mode \in Retreats THEN -mem.side ELSE mem.side
         /\ (mem.mode # "none" => n.since = None)
         /\ (mem.mode = "none" => n = mem)
  <1>1. mem \in MemType /\ mem.mode # "backoff" /\ mem.side \in {1, -1}
    BY DEF PolicyInv, PolicyTypes, MemType
  <1>2. CASE mem.mode # "none"
    <2> DEFINE one == [mem EXCEPT !.mode = "none"]
               two == [one EXCEPT !.since = -1]
               s == IF mem.mode = "disengage" THEN -mem.side ELSE mem.side
    <2>1. one \in MemType /\ one.mode = "none" /\ one.side = mem.side
      BY <1>1 DEF MemType
    <2>2. s \in {1, -1}
      BY <1>1
    <2>3. n = [two EXCEPT !.side = s]
      BY <1>2 DEF ReflexOver, None
    <2> HIDE DEF one, s
    <2>4. two \in MemType /\ two.mode = "none" /\ two.since = -1
      BY <2>1 DEF MemType
    <2> HIDE DEF two
    <2>5. n \in MemType /\ n.mode = "none" /\ n.since = -1 /\ n.side = s
      BY <2>2, <2>3, <2>4 DEF MemType
    <2>6. past.firm = -1
      BY <1>2 DEF PolicyInv, TimerRight, None
    <2>7. QED
      BY <1>1, <1>2, <2>5, <2>6 DEF s, Retreats, None
  <1>3. CASE mem.mode = "none"
    BY <1>1, <1>3 DEF PolicyInv, TimerRight, Retreats
  <1>4. QED
    BY <1>2, <1>3

LEMMA ReflexRecord ==
  ASSUME NEW n \in MemType, NEW mode \in {"escape", "dodge", "disengage", "backoff"}, NEW until \in Int
  PROVE  /\ Reflex(n, mode, until) \in MemType
         /\ Reflex(n, mode, until).mode = mode /\ Reflex(n, mode, until).until = until
         /\ Reflex(n, mode, until).side = n.side /\ Reflex(n, mode, until).since = n.since
  <1> DEFINE one == [n EXCEPT !.mode = mode]
  <1>1. one \in MemType /\ one.mode = mode /\ one.side = n.side /\ one.since = n.since
    BY DEF MemType
  <1>2. Reflex(n, mode, until) = [one EXCEPT !.until = until]
    BY DEF Reflex
  <1> HIDE DEF one
  <1>3. QED
    BY <1>1, <1>2 DEF MemType

LEMMA SinceRecord ==
  ASSUME NEW n \in MemType, NEW x \in Int
  PROVE  /\ [n EXCEPT !.since = x] \in MemType
         /\ [n EXCEPT !.since = x].since = x /\ [n EXCEPT !.since = x].mode = n.mode
         /\ [n EXCEPT !.since = x].side = n.side /\ [n EXCEPT !.since = x].until = n.until
  BY DEF MemType

LEMMA ReactiveCall ==
  ASSUME PolicyInv, NEW v \in Views, policy = "reactive", Call(v)
  PROVE  CallRight
  <1> DEFINE n == IF mem.mode # "none" THEN ReflexOver(mem) ELSE mem
             r == Reactive(mem, v)
  <1>1. did' = r[1] /\ mem' = r[2] /\ past' = Remember(v, r) /\ UNCHANGED << policy, t >>
    BY DEF Call
  <1>2. /\ n \in MemType /\ n.mode = "none" /\ n.since = past.firm
        /\ n.side = (IF mem.mode \in Retreats THEN -mem.side ELSE mem.side)
        /\ (mem.mode # "none" => n.since = None)
        /\ (mem.mode = "none" => n = mem)
    BY ReflexCleared
  <1>3. t \in Nat /\ n.since \in Int /\ mem.mode # "backoff" /\ -1 \in Int
    BY <1>2 DEF PolicyInv, PolicyTypes, MemType
  <1>4. mem.mode \in Retreats => past.back
    BY <1>3 DEF PolicyInv, RetreatDriven, Retreats
  <1>5. v.headOn \in BOOLEAN
    BY DEF Views
  <1>6. t + Escape \in Int /\ t + Dodge \in Int /\ t + Disengage \in Int
    BY <1>3, PolicyTimes
  <1>7. CASE mem.mode # "none" /\ t < mem.until
    <2>1. r = << mem.mode, mem >>
      BY <1>7 DEF Reactive
    <2>2. QED
      BY <1>1, <1>7, <2>1, ReflexGoesOn
  <1>8. CASE ~(mem.mode # "none" /\ t < mem.until)
    <2>1. r = IF v.pushed THEN << "escape", Reflex(n, "escape", t + Escape) >>
              ELSE IF v.edge THEN << "brake", n >>
              ELSE IF v.charged THEN << "dodge", Reflex(n, "dodge", t + Dodge) >>
              ELSE IF v.headOn /\ Overdue(n)
                   THEN << "disengage", [Reflex(n, "disengage", t + Disengage) EXCEPT !.since = None] >>
              ELSE << IF v.side THEN "push" ELSE "flank", Shoving(n, v) >>
      BY <1>8 DEF Reactive
    <2> HIDE DEF n, r
    <2>2. CASE v.pushed
      <3> DEFINE m == Reflex(n, "escape", t + Escape)
      <3>1. m \in MemType /\ m.mode = "escape" /\ m.side = n.side
        <4> DEFINE u == t + Escape
        <4>1. u \in Int
          BY <1>6
        <4> HIDE DEF u
        <4>2. /\ Reflex(n, "escape", u) \in MemType /\ Reflex(n, "escape", u).mode = "escape"
              /\ Reflex(n, "escape", u).side = n.side
          BY ONLY <1>2, <4>1, ReflexRecord
        <4>3. QED
          BY <4>2 DEF u
      <3>2. r = << "escape", m >>
        BY <2>1, <2>2
      <3> HIDE DEF m
      <3>3. "escape" \in Moves /\ did' = "escape" /\ mem' = m /\ past' = Remember(v, << "escape", m >>)
        BY <1>1, <3>2 DEF Moves
      <3>4. QED
        BY <1>1, <1>2, <1>4, <3>1, <3>3, NoRetreatNow DEF Retreats
    <2>3. CASE ~v.pushed /\ v.edge
      <3>1. r = << "brake", n >>
        BY <2>1, <2>3
      <3>2. "brake" \in Moves /\ did' = "brake" /\ mem' = n /\ past' = Remember(v, << "brake", n >>)
        BY <1>1, <3>1 DEF Moves
      <3>3. QED
        BY <1>1, <1>2, <1>4, <3>2, NoRetreatNow DEF Retreats
    <2>4. CASE ~v.pushed /\ ~v.edge /\ v.charged
      <3> DEFINE m == Reflex(n, "dodge", t + Dodge)
      <3>1. m \in MemType /\ m.mode = "dodge" /\ m.side = n.side
        <4> DEFINE u == t + Dodge
        <4>1. u \in Int
          BY <1>6
        <4> HIDE DEF u
        <4>2. /\ Reflex(n, "dodge", u) \in MemType /\ Reflex(n, "dodge", u).mode = "dodge"
              /\ Reflex(n, "dodge", u).side = n.side
          BY ONLY <1>2, <4>1, ReflexRecord
        <4>3. QED
          BY <4>2 DEF u
      <3>2. r = << "dodge", m >>
        BY <2>1, <2>4
      <3> HIDE DEF m
      <3>3. "dodge" \in Moves /\ did' = "dodge" /\ mem' = m /\ past' = Remember(v, << "dodge", m >>)
        BY <1>1, <3>2 DEF Moves
      <3>4. QED
        BY <1>1, <1>2, <1>4, <3>1, <3>3, NoRetreatNow DEF Retreats
    <2>5. CASE ~v.pushed /\ ~v.edge /\ ~v.charged /\ v.headOn /\ Overdue(n)
      <3> DEFINE one == Reflex(n, "disengage", t + Disengage)
                 m == [one EXCEPT !.since = None]
      <3>1. one \in MemType /\ one.mode = "disengage" /\ one.side = n.side
        <4> DEFINE u == t + Disengage
        <4>1. u \in Int
          BY <1>6
        <4> HIDE DEF u
        <4>2. /\ Reflex(n, "disengage", u) \in MemType /\ Reflex(n, "disengage", u).mode = "disengage"
              /\ Reflex(n, "disengage", u).side = n.side
          BY ONLY <1>2, <4>1, ReflexRecord
        <4>3. QED
          BY <4>2 DEF u
      <3>2. r = << "disengage", m >>
        BY <2>1, <2>5
      <3> HIDE DEF one
      <3>3. m \in MemType /\ m.mode = "disengage" /\ m.side = n.side
        BY <1>3, <3>1, SinceRecord DEF None
      <3> HIDE DEF m
      <3>4. mem.mode = "none" /\ n = mem /\ mem.since # None /\ t - mem.since > HeadOn
        BY <1>2, <2>5 DEF Overdue
      <3>5. "disengage" \in Moves /\ did' = "disengage" /\ mem' = m
            /\ past' = Remember(v, << "disengage", m >>)
        BY <1>1, <3>2 DEF Moves
      <3>6. QED
        BY <1>1, <3>3, <3>4, <3>5, RetreatBegins
    <2>6. CASE ~v.pushed /\ ~v.edge /\ ~v.charged /\ ~(v.headOn /\ Overdue(n))
      <3> DEFINE m == Shoving(n, v)
                 move == IF v.side THEN "push" ELSE "flank"
      <3>1. r = << move, m >>
        BY <2>1, <2>6
      <3>2. /\ m \in MemType /\ m.mode = "none" /\ m.side = n.side
            /\ m.since = (IF ~v.headOn THEN None ELSE IF n.since = None THEN t ELSE n.since)
        <4>1. None \in Int /\ t \in Int
          BY <1>3 DEF None
        <4>2. CASE ~v.headOn
          BY <1>2, <4>1, <4>2, SinceRecord DEF Shoving
        <4>3. CASE v.headOn /\ n.since = None
          BY <1>2, <4>1, <4>3, SinceRecord DEF Shoving
        <4>4. CASE v.headOn /\ n.since # None
          BY <1>2, <4>4 DEF Shoving
        <4>5. QED
          BY <4>2, <4>3, <4>4
      <3>3. m.since # None => t - m.since <= HeadOn
        <4>1. CASE v.headOn /\ n.since = None
          <5>1. m.since = t /\ t - t <= HeadOn
            BY <1>3, <3>2, <4>1, PolicyTimes
          <5>2. QED
            BY <5>1
        <4>2. CASE v.headOn /\ n.since # None
          <5>1. m.since = n.since /\ ~(t - n.since > HeadOn)
            BY <2>6, <3>2, <4>2 DEF Overdue
          <5>2. QED
            BY <1>3, <5>1, PolicyTimes
        <4>3. CASE ~v.headOn
          BY <3>2, <4>3
        <4>4. QED
          BY <4>1, <4>2, <4>3
      <3> HIDE DEF m
      <3>4. move \in {"push", "flank"} /\ move \in Moves /\ move \notin Retreats /\ move # "brake"
            /\ move # "drive"
        BY DEF Moves, Retreats
      <3> HIDE DEF move
      <3>5. did' = move /\ mem' = m /\ past' = Remember(v, << move, m >>)
        BY <1>1, <3>1
      <3>6. m.since = IF ~Watched(v) THEN None ELSE IF past.firm = None THEN t ELSE past.firm
        BY <1>2, <3>2 DEF Watched
      <3>7. QED
        BY <1>1, <1>2, <1>4, <3>2, <3>3, <3>4, <3>5, <3>6, NoRetreatNow
    <2>7. QED
      BY <2>2, <2>3, <2>4, <2>5, <2>6
  <1>9. QED
    BY <1>7, <1>8

LEMMA BackoffCleared ==
  ASSUME PolicyInv, NEW n, n = IF mem.mode = "backoff" THEN BackoffOver(mem) ELSE mem,
         policy = "pusher"
  PROVE  /\ n \in MemType /\ n.mode = "none" /\ n.since = past.firm
         /\ n.side = IF mem.mode \in Retreats THEN -mem.side ELSE mem.side
         /\ (mem.mode # "none" => n.since = None)
         /\ (mem.mode = "none" => n = mem)
  <1>1. mem \in MemType /\ mem.mode \in {"none", "backoff"} /\ mem.side \in {1, -1}
    BY DEF PolicyInv, PolicyTypes, MemType
  <1>2. CASE mem.mode = "backoff"
    <2> DEFINE one == [mem EXCEPT !.mode = "none"]
               two == [one EXCEPT !.since = -1]
               s == -mem.side
    <2>1. one \in MemType /\ one.mode = "none" /\ one.side = mem.side
      BY <1>1 DEF MemType
    <2>2. s \in {1, -1}
      BY <1>1
    <2>3. n = [two EXCEPT !.side = s]
      BY <1>2 DEF BackoffOver, None
    <2> HIDE DEF one, s
    <2>4. two \in MemType /\ two.mode = "none" /\ two.since = -1
      BY <2>1 DEF MemType
    <2> HIDE DEF two
    <2>5. n \in MemType /\ n.mode = "none" /\ n.since = -1 /\ n.side = s
      BY <2>2, <2>3, <2>4 DEF MemType
    <2>6. past.firm = -1
      BY <1>2 DEF PolicyInv, TimerRight, None
    <2>7. QED
      BY <1>2, <2>5, <2>6 DEF s, Retreats, None
  <1>3. CASE mem.mode = "none"
    BY <1>1, <1>3 DEF PolicyInv, TimerRight, Retreats
  <1>4. QED
    BY <1>1, <1>2, <1>3

LEMMA PusherCall ==
  ASSUME PolicyInv, MaxStep < Backoff, NEW v \in Views, did = "nothing", policy = "pusher", Call(v)
  PROVE  CallRight
  <1> DEFINE n == IF mem.mode = "backoff" THEN BackoffOver(mem) ELSE mem
             r == Pusher(mem, v)
  <1>1. did' = r[1] /\ mem' = r[2] /\ past' = Remember(v, r) /\ UNCHANGED << policy, t >>
    BY DEF Call
  <1>2. /\ n \in MemType /\ n.mode = "none" /\ n.since = past.firm
        /\ n.side = (IF mem.mode \in Retreats THEN -mem.side ELSE mem.side)
        /\ (mem.mode # "none" => n.since = None)
        /\ (mem.mode = "none" => n = mem)
    BY BackoffCleared
  <1>3. t \in Nat /\ n.since \in Int /\ mem.mode \in {"none", "backoff"} /\ mem.until \in Int
    BY <1>2 DEF PolicyInv, PolicyTypes, MemType
  <1>4. v.contact \in BOOLEAN
    BY DEF Views
  <1>5. CASE mem.mode = "backoff" /\ t < mem.until
    <2>1. r = << mem.mode, mem >>
      BY <1>5 DEF Pusher
    <2>2. QED
      BY <1>1, <1>5, <2>1, ReflexGoesOn
  <1>6. CASE ~(mem.mode = "backoff" /\ t < mem.until)
    <2>1. r = << "drive", Stalled(n, v) >>
      BY <1>6 DEF Pusher
    <2>2. mem.mode \in Retreats => past.back
      <3> SUFFICES ASSUME mem.mode = "backoff", ~past.back PROVE FALSE
        BY <1>3 DEF Retreats
      <3>1. t + Backoff <= mem.until + MaxStep
        BY DEF PolicyInv, RetreatDriven
      <3>2. QED
        BY <1>3, <1>6, <3>1, PolicyTimes
    <2> HIDE DEF n, r
    <2>3. "drive" \in Moves /\ "drive" \notin Retreats /\ None \in Int /\ t \in Int
      BY <1>3 DEF Moves, Retreats, None
    <2>4. CASE v.contact /\ n.since # None /\ t - n.since > Stall
      <3> DEFINE u == t + Backoff
                 one == Reflex(n, "backoff", u)
                 m == [one EXCEPT !.since = None]
      <3>1. u \in Int
        BY <1>3, PolicyTimes
      <3>2. r = << "drive", m >>
        BY <2>1, <2>4 DEF Stalled
      <3> HIDE DEF u
      <3>3. one \in MemType /\ one.mode = "backoff" /\ one.side = n.side /\ one.until = u
        BY <1>2, <3>1, ReflexRecord
      <3> HIDE DEF one
      <3>4. m \in MemType /\ m.mode = "backoff" /\ m.side = n.side /\ m.until = u
        BY <2>3, <3>3, SinceRecord
      <3> HIDE DEF m
      <3>5. mem.mode = "none" /\ n = mem /\ mem.since # None /\ t - mem.since > Stall
        BY <1>2, <2>4
      <3>6. did' = "drive" /\ mem' = m /\ past' = Remember(v, << "drive", m >>)
        BY <1>1, <3>2
      <3>7. m.until = t + Backoff
        BY <3>4 DEF u
      <3>8. QED
        BY <1>1, <2>3, <3>4, <3>5, <3>6, <3>7, RetreatBegins
    <2>5. CASE ~(v.contact /\ n.since # None /\ t - n.since > Stall)
      <3> DEFINE m == Stalled(n, v)
      <3>1. /\ m \in MemType /\ m.mode = "none" /\ m.side = n.side
            /\ m.since = (IF ~v.contact THEN None ELSE IF n.since = None THEN t ELSE n.since)
        <4>1. CASE ~v.contact
          BY <1>2, <2>3, <4>1, SinceRecord DEF Stalled
        <4>2. CASE v.contact /\ n.since = None
          BY <1>2, <2>3, <4>2, SinceRecord DEF Stalled
        <4>3. CASE v.contact /\ n.since # None
          BY <1>2, <2>5, <4>3 DEF Stalled
        <4>4. QED
          BY <4>1, <4>2, <4>3
      <3>2. m.since # None => t - m.since <= Stall
        <4>1. CASE v.contact /\ n.since = None
          <5>1. m.since = t /\ t - t <= Stall
            BY <1>3, <3>1, <4>1, PolicyTimes
          <5>2. QED
            BY <5>1
        <4>2. CASE v.contact /\ n.since # None
          <5>1. m.since = n.since /\ ~(t - n.since > Stall)
            BY <2>5, <3>1, <4>2
          <5>2. QED
            BY <1>3, <5>1, PolicyTimes
        <4>3. CASE ~v.contact
          BY <3>1, <4>3
        <4>4. QED
          BY <4>1, <4>2, <4>3
      <3> HIDE DEF m
      <3>3. did' = "drive" /\ mem' = m /\ past' = Remember(v, << "drive", m >>)
        BY <1>1, <2>1 DEF m
      <3>4. m.since = IF ~Watched(v) THEN None ELSE IF past.firm = None THEN t ELSE past.firm
        BY <1>2, <3>1 DEF Watched
      <3>5. QED
        BY <1>1, <1>2, <2>2, <2>3, <3>1, <3>2, <3>3, <3>4, NoRetreatNow
    <2>6. QED
      BY <2>4, <2>5
  <1>7. QED
    BY <1>5, <1>6

\* The next STATE is used at most MaxStep later.
LEMMA NewerStateStep ==
  ASSUME PolicyInv, NewerState
  PROVE  PolicyInv' /\ UNCHANGED << mem, past, policy >>
  <1>1. PICK d \in 0 .. MaxStep : t' = t + d
    BY DEF NewerState
  <1>2. d \in Nat /\ d <= MaxStep /\ t \in Nat /\ mem.until \in Int
    BY <1>1, PolicyTimes DEF PolicyInv, PolicyTypes
  <1>3. did # "nothing" /\ did' = "nothing" /\ UNCHANGED << policy, mem, past >> /\ t' \in Nat
    BY <1>1, <1>2 DEF NewerState
  <1>4. PolicyTypes'
    BY <1>3 DEF PolicyInv, PolicyTypes, Moves
  <1>5. TimerRight' /\ FlankByRetreats' /\ ShoveBounded'
    BY <1>3 DEF PolicyInv, TimerRight, FlankByRetreats, ShoveBounded
  <1>6. RetreatDriven'
    <2>1. ASSUME mem.mode = "backoff", ~past.back PROVE t' + Backoff <= mem.until + MaxStep
      <3>1. t + Backoff <= mem.until + 0
        BY <1>3, <2>1 DEF PolicyInv, RetreatDriven
      <3>2. QED
        BY <1>1, <1>2, <3>1, PolicyTimes
    <2>2. QED
      BY <1>3, <2>1 DEF PolicyInv, RetreatDriven
  <1>7. QED
    BY <1>3, <1>4, <1>5, <1>6 DEF PolicyInv

\* A retreat that begins is earned; the flank changes only after one.
EarnedNow ==
  mem'.mode \in {"disengage", "backoff"} /\ mem.mode # mem'.mode =>
    /\ past.firm # None
    /\ t - past.firm > IF policy = "reactive" THEN HeadOn ELSE Stall
AfterNow == mem'.side # mem.side => past.back

LEMMA PolicyStep ==
  ASSUME PolicyInv, MaxStep < Backoff, [PolicyNext]_policyVars
  PROVE  PolicyInv' /\ EarnedNow /\ AfterNow
  <1>1. CASE AnswerState
    <2>1. PICK v \in Views : did = "nothing" /\ Call(v)
      BY <1>1 DEF AnswerState
    <2>2. policy \in {"reactive", "pusher"}
      BY DEF PolicyInv, PolicyTypes
    <2>3. CallRight
      BY <2>1, <2>2, ReactiveCall, PusherCall
    <2>4. QED
      BY <2>3 DEF CallRight, EarnedNow, AfterNow
  <1>2. CASE NewerState
    BY <1>2, NewerStateStep DEF EarnedNow, AfterNow
  <1>3. CASE UNCHANGED policyVars
    BY <1>3 DEF policyVars, PolicyInv, PolicyTypes, TimerRight, RetreatDriven, FlankByRetreats,
                ShoveBounded, EarnedNow, AfterNow
  <1>4. QED
    BY <1>1, <1>2, <1>3 DEF PolicyNext

LEMMA PolicyInitInv == PolicyInit => PolicyInv
  <1> SUFFICES ASSUME PolicyInit PROVE PolicyInv
    OBVIOUS
  <1>1. PolicyTypes
    BY DEF PolicyInit, PolicyTypes, None, Moves
  <1>2. TimerRight /\ RetreatDriven /\ ShoveBounded
    BY DEF PolicyInit, TimerRight, RetreatDriven, ShoveBounded
  <1>3. FlankByRetreats
    BY DEF PolicyInit, FlankByRetreats
  <1>4. QED
    BY <1>1, <1>2, <1>3 DEF PolicyInv

\* The memory of both policies (brain.py, reactive and pusher), if a STATE is
\* used before a back-off can be over: the timer agrees with the contact, a
\* retreat drives backward, and the flank counts the retreats.
THEOREM PolicyInvariant == MaxStep < Backoff => (PolicySpec => []PolicyInv)
  <1> SUFFICES ASSUME MaxStep < Backoff PROVE PolicySpec => []PolicyInv
    OBVIOUS
  <1>1. PolicyInv /\ [PolicyNext]_policyVars => PolicyInv'
    BY PolicyStep
  <1>2. QED
    BY <1>1, PolicyInitInv, PTL DEF PolicySpec

\* The reflexes of both policies for every choice of their times: a shove ends,
\* a retreat follows a contact that lasted, and the flank is switched once for
\* every retreat and only after the robot was driven backward.
THEOREM ReflexesEnd == MaxStep < Backoff => (PolicySpec => ReflexesBounded)
  <1> SUFFICES ASSUME MaxStep < Backoff PROVE PolicySpec => ReflexesBounded
    OBVIOUS
  <1>1. PolicySpec => []PolicyInv
    BY PolicyInvariant
  <1>2. PolicyInv => FlankByRetreats /\ ShoveBounded
    BY DEF PolicyInv
  <1>3. PolicyInv /\ [PolicyNext]_policyVars => [EarnedNow]_policyVars /\ [AfterNow]_policyVars
    BY PolicyStep
  <1>4. PolicySpec => [][EarnedNow]_policyVars /\ [][AfterNow]_policyVars
    BY <1>1, <1>3, PTL DEF PolicySpec
  <1>5. QED
    BY <1>1, <1>2, <1>4, PTL DEF ReflexesBounded, RetreatEarned, FlankAfterRetreat, EarnedNow, AfterNow
=============================================================================
