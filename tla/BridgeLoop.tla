----------------------------- MODULE BridgeLoop -----------------------------
(***************************************************************************)
(* The update loop of the Sionna bridge (apps/sionna_bridge/run_bridge.py): *)
(* which scenario time each update solves, on the wall clock or on a grid,  *)
(* the hold before a measurement, and the live position feed.  Solving and  *)
(* sending take as long as they take; how a batch is sent is the subject of *)
(* ProfileFanout.                                                           *)
(***************************************************************************)
EXTENDS Integers, FiniteSets, SequencesExt

CONSTANTS
  Node,        \* the scenario's nodes
  Period,      \* 1 / update_hz, in ticks of the clock
  Duration, Iterations,  \* --duration and --iterations, 0 for none
  MaxMonotonic, MaxFrame   \* bounds of the model

ASSUME LoopAssumption ==
  /\ Period \in Nat \ {0} /\ {Duration, Iterations, MaxMonotonic, MaxFrame} \subseteq Nat

VARIABLES
  monotonic,   \* time.monotonic()
  mode,        \* the arguments: timeline, hold_until_file, position_endpoint
  startFile,   \* does the file to wait for exist?
  stopped,     \* the flag the signal handler sets
  bridgeLoop,  \* main(): where it is, and its locals
  grid,        \* GridTimeline
  positions,   \* ExternalPositionSource and the frames on their way to it
  solved       \* history: the updates started

loopVars == << monotonic, mode, startFile, stopped, bridgeLoop, grid, positions, solved >>

None == -1

\* parse_args: a hold needs the grid, and a live feed excludes it.
Modes ==
  {m \in [grid : BOOLEAN, hold : BOOLEAN, feed : BOOLEAN] :
     (m.hold => m.grid) /\ (m.grid => ~m.feed)}

Anchored(at) == [anchor |-> at, last |-> None, skipped |-> 0]

\* main() up to its loop; the scene is ready.
LoopInit ==
  /\ monotonic = 0 /\ mode \in Modes
  /\ startFile = FALSE /\ stopped = FALSE
  /\ bridgeLoop = [pc |-> "top", iteration |-> 0, next |-> 0, wake |-> 0, hold |-> mode.hold]
  /\ grid = Anchored(IF mode.grid /\ ~mode.hold THEN 0 ELSE None)
  /\ positions = [wire |-> << >>, sent |-> 0, sample |-> [n |-> 0, nodes |-> {}],
             received |-> 0, invalid |-> 0, dropped |-> 0, kept |-> 0,
             external |-> {}, mentioned |-> {}, good |-> 0]
  /\ solved = << >>

(***************************************************************************)
(* GridTimeline.                                                           *)
(***************************************************************************)

Following == IF grid.last = None THEN 0 ELSE grid.last + 1

Due(index) == grid.anchor + index * Period

\* Mutant of NextPoint: every grid point is solved, however late.
NextPointAll == Following

\* next_point: the point after the last, or the newest already due.
NextPoint == Max({Following, (monotonic - grid.anchor) \div Period})

(***************************************************************************)
(* ExternalPositionSource.  A frame is valid or not, and mentions nodes.   *)
(***************************************************************************)

\* last_sample after a poll that accepted the frames with these places.
Newest(valid) ==
  IF valid = {} THEN positions.sample
  ELSE [n |-> positions.wire[Max(valid)].n, nodes |-> positions.wire[Max(valid)].nodes]

\* poll and resolve; that an old sample is flagged stale only shows in the status.
FeedPoll ==
  LET valid == {i \in DOMAIN positions.wire : positions.wire[i].valid}
  IN  [wire |-> << >>, sent |-> positions.sent, good |-> positions.good,
       received |-> positions.received + Len(positions.wire),
       invalid |-> positions.invalid + Len(positions.wire) - Cardinality(valid),
       dropped |-> positions.dropped + Max({0, Cardinality(valid) - 1}),
       kept |-> positions.kept + Min({1, Cardinality(valid)}),
       sample |-> Newest(valid),
       external |-> Newest(valid).nodes,
       mentioned |-> positions.mentioned \cup Newest(valid).nodes]

(***************************************************************************)
(* The loop.                                                               *)
(***************************************************************************)

\* The conditions at the head of the loop.
LoopEnds ==
  \/ stopped
  \/ Duration > 0 /\ monotonic >= Duration
  \/ Iterations > 0 /\ bridgeLoop.iteration >= Iterations

\* update_positions for a scenario time, and the trace begins.
BeginUpdate(index, scenario) ==
  /\ bridgeLoop' = [bridgeLoop EXCEPT !.pc = "solve"]
  /\ positions' = IF mode.feed THEN FeedPoll ELSE positions
  /\ solved' = Append(solved, [index |-> index, at |-> monotonic, scenario |-> scenario])
  /\ UNCHANGED << monotonic, mode, startFile, stopped >>

GotoPc(pc, wake) ==
  /\ bridgeLoop' = [bridgeLoop EXCEPT !.pc = pc, !.wake = wake]
  /\ UNCHANGED << monotonic, mode, startFile, stopped, grid, positions, solved >>

Finish ==
  /\ bridgeLoop.pc = "top" /\ LoopEnds
  /\ GotoPc("stopped", monotonic)

\* wallclock: sleep until next_update ...
WallSleep ==
  /\ bridgeLoop.pc = "top" /\ ~LoopEnds /\ ~mode.grid /\ monotonic < bridgeLoop.next
  /\ GotoPc("sleep", bridgeLoop.next)

\* ... and update with the time elapsed since the start.
WallUpdate ==
  /\ ~mode.grid
  /\ \/ bridgeLoop.pc = "top" /\ ~LoopEnds /\ monotonic >= bridgeLoop.next
     \/ bridgeLoop.pc = "sleep" /\ monotonic >= bridgeLoop.wake /\ ~stopped
  /\ BeginUpdate(None, monotonic)
  /\ UNCHANGED grid

\* Scenario time 0 is applied once and kept until the start file exists.
Holding == bridgeLoop.hold /\ ~(bridgeLoop.iteration > 0 /\ startFile)

HoldUpdate ==
  /\ bridgeLoop.pc = "top" /\ ~LoopEnds /\ mode.grid /\ Holding /\ bridgeLoop.iteration = 0
  /\ BeginUpdate(None, 0)
  /\ UNCHANGED grid

HoldWait ==
  /\ bridgeLoop.pc = "top" /\ ~LoopEnds /\ mode.grid /\ Holding /\ bridgeLoop.iteration > 0
  /\ GotoPc("hold", monotonic + 1)

\* A sleep ends; those that outlast the model's clock end with it.
Awake == monotonic >= bridgeLoop.wake \/ monotonic = MaxMonotonic

HoldWake ==
  /\ bridgeLoop.pc = "hold" /\ Awake
  /\ GotoPc("top", monotonic)

\* The start file is there: grid point 0 is now.  A status record is written
\* before the first point is chosen.
AnchorGrid ==
  /\ bridgeLoop.pc = "top" /\ ~LoopEnds /\ mode.grid /\ bridgeLoop.hold /\ ~Holding
  /\ bridgeLoop' = [bridgeLoop EXCEPT !.pc = "anchored", !.hold = FALSE]
  /\ grid' = Anchored(monotonic)
  /\ UNCHANGED << monotonic, mode, startFile, stopped, positions, solved >>

GridPc == bridgeLoop.pc = "anchored" \/ (bridgeLoop.pc = "top" /\ ~LoopEnds /\ mode.grid /\ ~bridgeLoop.hold)

GridSleep ==
  /\ GridPc /\ monotonic < Due(Following)
  /\ GotoPc("sleep", Due(Following))

\* The grid points left out so far.
Skipped == grid.skipped + NextPoint - Following

GridUpdate ==
  /\ mode.grid
  /\ \/ GridPc /\ monotonic >= Due(Following)
     \/ bridgeLoop.pc = "sleep" /\ monotonic >= bridgeLoop.wake /\ ~stopped
  /\ grid' = [grid EXCEPT !.last = NextPoint, !.skipped = Skipped]
  /\ BeginUpdate(NextPoint, NextPoint * Period)

SleepStopped ==
  /\ bridgeLoop.pc = "sleep" /\ Awake /\ stopped
  /\ GotoPc("stopped", monotonic)

\* A slow update does not produce a burst of updates after it.
NextUpdate == IF mode.grid THEN bridgeLoop.next ELSE Max({bridgeLoop.next + Period, monotonic})

\* Every broker has acknowledged the batch and the record is written.
EndUpdate ==
  /\ bridgeLoop.pc = "solve"
  /\ bridgeLoop' = [bridgeLoop EXCEPT !.pc = "top", !.iteration = @ + 1, !.next = NextUpdate]
  /\ UNCHANGED << monotonic, mode, startFile, stopped, grid, positions, solved >>

\* The solver or the transaction raised: a record, and the process ends.
FailUpdate ==
  /\ bridgeLoop.pc = "solve"
  /\ GotoPc("failed", monotonic)

(***************************************************************************)
(* The rest of the world.                                                  *)
(***************************************************************************)

\* The publisher sends a frame that mentions some nodes.
PublishFrame(nodes, valid) ==
  /\ mode.feed /\ positions.sent < MaxFrame
  /\ LET n == positions.sent + 1
     IN  positions' = [positions EXCEPT !.sent = n, !.good = IF valid THEN n ELSE @,
                         !.wire = Append(@, [n |-> n, nodes |-> nodes, valid |-> valid])]
  /\ UNCHANGED << monotonic, mode, startFile, stopped, bridgeLoop, grid, solved >>

StartMeasurement ==
  /\ mode.hold /\ ~startFile
  /\ startFile' = TRUE
  /\ UNCHANGED << monotonic, mode, stopped, bridgeLoop, grid, positions, solved >>

SignalStop ==
  /\ ~stopped
  /\ stopped' = TRUE
  /\ UNCHANGED << monotonic, mode, startFile, bridgeLoop, grid, positions, solved >>

\* Time passes while the process sleeps, works or is not scheduled.
LoopTick ==
  /\ monotonic < MaxMonotonic /\ bridgeLoop.pc \notin {"stopped", "failed"}
  /\ monotonic' = monotonic + 1
  /\ UNCHANGED << mode, startFile, stopped, bridgeLoop, grid, positions, solved >>

LoopStep ==
  \/ Finish \/ WallSleep \/ WallUpdate \/ HoldUpdate \/ HoldWait \/ HoldWake
  \/ AnchorGrid \/ GridSleep \/ GridUpdate \/ SleepStopped

LoopNext ==
  \/ LoopStep \/ EndUpdate \/ FailUpdate
  \/ \E nodes \in SUBSET Node, valid \in BOOLEAN : PublishFrame(nodes, valid)
  \/ StartMeasurement \/ SignalStop \/ LoopTick

LoopSpec == LoopInit /\ [][LoopNext]_loopVars

\* The process is scheduled, time passes, and an update ends one way or the
\* other: the control client gives up after its timeout.
LoopFairSpec ==
  /\ LoopSpec
  /\ WF_loopVars(LoopStep) /\ WF_loopVars(LoopTick) /\ WF_loopVars(EndUpdate \/ FailUpdate)

(***************************************************************************)
(* Properties.                                                             *)
(***************************************************************************)

\* The updates of grid points; the one of a hold has no point.
Runs == {i \in DOMAIN solved : solved[i].index # None}

\* On the grid, every point is solved at most once, in order, and those left
\* out are the ones counted as skipped; the scenario time of an update depends
\* on its grid point alone, so that two runs see the same channel there.
GridAccounted ==
  mode.grid =>
    /\ grid.last # None => Cardinality(Runs) + grid.skipped = grid.last + 1
    /\ \A i, j \in Runs : i < j => solved[i].index < solved[j].index
    /\ \A i \in Runs : solved[i].scenario = solved[i].index * Period

\* A grid point is never solved early, and the scenario clock never trails the
\* wall clock by a whole step when an update starts.
LagBounded ==
  \A i \in Runs : solved[i].at - Due(solved[i].index) \in 0 .. Period - 1

\* Until the start file is there, scenario time 0 is all that has been applied,
\* and the grid begins no earlier than the file.
HoldKept ==
  mode.hold =>
    /\ ~startFile => Len(solved) <= 1 /\ grid.anchor = None
    /\ solved # << >> => solved[1].scenario = 0 /\ solved[1].index = None
    /\ grid.anchor # None => \A i \in Runs : solved[i].at >= grid.anchor

\* Any n + 2 updates on the wall clock take at least n periods: a slow update
\* is not followed by a burst that catches up.
NoBurst ==
  ~mode.grid =>
    \A i, j \in DOMAIN solved : i < j => solved[j].at - solved[i].at >= (j - i - 1) * Period

\* The feed's counters account for every frame received, and after a poll the
\* sample in use is the newest valid frame: a slow trace leaves no backlog.
FeedAccounted ==
  /\ positions.received = positions.invalid + positions.dropped + positions.kept
  /\ positions.received + Len(positions.wire) = positions.sent
  /\ positions.wire = << >> => positions.sample.n = positions.good

\* A stop request ends the loop wherever it is: asleep, holding or solving.
LoopStops == stopped ~> bridgeLoop.pc \in {"stopped", "failed"}

\* The bridge keeps its schedule, and its counters say where it did not (main's
\* loop, GridTimeline, ExternalPositionSource.poll): no point twice or early, no burst, no stale position.
OnSchedule == GridAccounted /\ LagBounded /\ HoldKept /\ NoBurst /\ FeedAccounted

(***************************************************************************)
(* What makes it inductive.                                                *)
(***************************************************************************)
Stations == {"top", "sleep", "hold", "anchored", "solve", "stopped", "failed"}

LoopTypes ==
  /\ monotonic \in Nat /\ mode \in Modes /\ startFile \in BOOLEAN /\ stopped \in BOOLEAN
  /\ bridgeLoop \in [pc : Stations, iteration : Nat, next : Nat, wake : Int, hold : BOOLEAN]
  /\ grid \in [anchor : Int, last : Int, skipped : Int]
  /\ solved \in Seq([index : Int, at : Nat, scenario : Int])

\* The hold's own update comes first and alone, and the grid begins after it.
HoldFirst ==
  /\ bridgeLoop.iteration <= Len(solved)
  /\ bridgeLoop.pc = "solve" => bridgeLoop.iteration < Len(solved)
  /\ bridgeLoop.hold =>
       /\ mode.hold /\ Len(solved) <= 1
       /\ bridgeLoop.iteration = 0 /\ bridgeLoop.pc \notin {"solve", "failed"} => solved = << >>
  /\ mode.hold /\ ~bridgeLoop.hold => startFile /\ solved # << >>
  /\ mode.hold /\ solved # << >> => solved[1].scenario = 0 /\ solved[1].index = None

\* Every point up to the last is solved or counted as skipped, and a sleep ends
\* when the next is due.
GridKept ==
  IF mode.grid
  THEN /\ bridgeLoop.hold <=> grid.anchor = None
       /\ bridgeLoop.hold => grid.last = None /\ Runs = {}
       /\ grid.last >= None /\ grid.anchor >= None /\ Cardinality(Runs) + grid.skipped = grid.last + 1
       /\ \A i \in Runs : /\ 0 <= solved[i].index /\ solved[i].index <= grid.last
                          /\ solved[i].scenario = solved[i].index * Period
                          /\ solved[i].at - Due(solved[i].index) \in 0 .. Period - 1
       /\ \A i, j \in Runs : i < j => solved[i].index < solved[j].index
       /\ bridgeLoop.pc \in {"sleep", "anchored"} => ~bridgeLoop.hold
       /\ bridgeLoop.pc = "sleep" => bridgeLoop.wake = Due(Following)
  ELSE Runs = {}

\* On the wall clock the next update leaves a period for every one before it.
WallKept ==
  ~mode.grid =>
    /\ bridgeLoop.pc \notin {"hold", "anchored"}
    /\ bridgeLoop.pc = "sleep" => bridgeLoop.wake = bridgeLoop.next
    /\ \A i \in DOMAIN solved : solved[i].at <= monotonic
    /\ bridgeLoop.pc \in {"top", "sleep"} =>
         \A i \in DOMAIN solved : solved[i].at + (Len(solved) - i) * Period <= bridgeLoop.next
    /\ bridgeLoop.pc = "solve" =>
         \A i \in DOMAIN solved : i < Len(solved) =>
           solved[i].at + (Len(solved) - 1 - i) * Period <= bridgeLoop.next

\* The newest valid frame is the last accepted, or the last valid one on its way.
ValidFrames == {i \in DOMAIN positions.wire : positions.wire[i].valid}

FeedKept ==
  /\ positions \in
       [wire : Seq([n : Nat, nodes : SUBSET Node, valid : BOOLEAN]), sent : Nat,
        sample : [n : Nat, nodes : SUBSET Node], received : Int, invalid : Int, dropped : Int,
        kept : Int, external : SUBSET Node, mentioned : SUBSET Node, good : Nat]
  /\ positions.received = positions.invalid + positions.dropped + positions.kept
  /\ positions.received + Len(positions.wire) = positions.sent
  /\ IF ValidFrames = {} THEN positions.sample.n = positions.good
     ELSE \E i \in ValidFrames : /\ \A j \in ValidFrames : j <= i
                                 /\ positions.wire[i].n = positions.good

LoopInv == LoopTypes /\ HoldFirst /\ GridKept /\ WallKept /\ NoBurst /\ FeedKept
=============================================================================
