---------------------------- MODULE ScenarioMotion ----------------------------
(***************************************************************************)
(* Where the scripted nodes of a Sionna scenario are and how fast they     *)
(* move (run_bridge.py Motion, SionnaScenario.update_positions).  A route  *)
(* is given in closed form: a modulo on the elapsed time says how far the  *)
(* node is, a search over the cumulative lengths on which leg.  The bridge *)
(* asks at whatever times its loop reaches.  The plane is an integer grid, *)
(* legs follow its axes and a tick is the time the node needs for one      *)
(* step, so every ratio of the code is exact.                              *)
(***************************************************************************)
EXTENDS Integers, Sequences, FiniteSets, FiniteSetsExt

CONSTANTS Courses,      \* the routes a scenario may give a node
          MaxElapsed    \* the ticks of a run

VARIABLES course,       \* the node's Motion
          elapsed,      \* time since the run started
          updatedAt,    \* the time of the last update, -1 before the first
          position,     \* current_positions[node]
          velocity      \* current_velocities[node], which gives the Doppler

motionVars == <<course, elapsed, updatedAt, position, velocity>>

Dist(p, q) == LET Abs(x) == IF x < 0 THEN -x ELSE x
              IN Abs(p[1] - q[1]) + Abs(p[2] - q[2])

Toward(p, q, far) == LET Sign(x) == IF x = 0 THEN 0 ELSE IF x < 0 THEN -1 ELSE 1
                     IN <<p[1] + Sign(q[1] - p[1]) * far,
                          p[2] + Sign(q[2] - p[2]) * far>>

\* _route: the walked polyline, closed again if it is a loop, and how far
\* each point is along it.
Walked(c) == IF c.mode = "loop" /\ c.points[1] # c.points[Len(c.points)]
             THEN Append(c.points, c.points[1]) ELSE c.points

Lengths(c) ==
    LET w == Walked(c)
        along[i \in DOMAIN w] ==
            IF i = 1 THEN 0 ELSE along[i - 1] + Dist(w[i - 1], w[i])
    IN along

Total(c) == Lengths(c)[Len(Walked(c))]

\* _travelled: distance along the polyline and the sense of travel.
TravelledUnfolded(c, t) == <<t % (2 * Total(c)), 1>>

Travelled(c, t) ==
    IF c.mode = "loop" THEN <<t % Total(c), 1>>
    ELSE LET phase == t % (2 * Total(c))
         IN IF phase <= Total(c) THEN <<phase, 1>>
                                 ELSE <<2 * Total(c) - phase, -1>>

\* The leg the node is on: the first one that ends no earlier.
Leg(c, t) == Min({i \in 1..(Len(Walked(c)) - 1) :
    Travelled(c, t)[1] <= Lengths(c)[i + 1] \/ i = Len(Walked(c)) - 1})

\* A node without waypoints drifts, or bounces between two bounds on x.
Phase(c, t) == ((c.start[1] - c.low) + t * c.vx) % (2 * (c.high - c.low))

PositionAt(c, t) ==
    IF c.kind = "route"
    THEN LET i == Leg(c, t)
         IN Toward(Walked(c)[i], Walked(c)[i + 1], Travelled(c, t)[1] - Lengths(c)[i])
    ELSE <<IF Phase(c, t) <= c.high - c.low
           THEN c.low + Phase(c, t)
           ELSE c.high - (Phase(c, t) - (c.high - c.low)), c.start[2]>>

VelocityAt(c, t) ==
    IF c.kind = "route"
    THEN LET i == Leg(c, t)
             unit == Toward(Walked(c)[i], Walked(c)[i + 1], Travelled(c, t)[2])
         IN <<unit[1] - Walked(c)[i][1], unit[2] - Walked(c)[i][2]>>
    ELSE <<IF Phase(c, t) < c.high - c.low THEN c.vx ELSE -c.vx, 0>>

Start(c) == IF c.kind = "route" THEN c.points[1] ELSE c.start

MotionInit == /\ course \in Courses /\ elapsed = 0 /\ updatedAt = -1
              /\ position = Start(course) /\ velocity = VelocityAt(course, 0)

Pass == /\ elapsed < MaxElapsed /\ elapsed' = elapsed + 1
        /\ UNCHANGED <<course, updatedAt, position, velocity>>

UpdatePositions == /\ position' = PositionAt(course, elapsed)
                   /\ velocity' = VelocityAt(course, elapsed)
                   /\ updatedAt' = elapsed
                   /\ UNCHANGED <<course, elapsed>>

MotionNext == Pass \/ UpdatePositions

MotionSpec == MotionInit /\ [][MotionNext]_motionVars
-------------------------------------------------------------------------------
\* The steps of a course, read off its drawing rather than off the clock.
Paths(c) ==
    IF c.kind = "route"
    THEN {{Toward(Walked(c)[i], Walked(c)[i + 1], k - 1), Toward(Walked(c)[i], Walked(c)[i + 1], k)} :
             <<i, k>> \in {<<i, k>> \in (1..(Len(Walked(c)) - 1)) \X (1..Total(c)) :
                              k <= Dist(Walked(c)[i], Walked(c)[i + 1])}}
    ELSE {{<<x, c.start[2]>>, <<x + 1, c.start[2]>>} : x \in c.low..(c.high - 1)}

\* The closed forms of position_at describe one continuous walk: as time
\* passes the node moves along its route, keeps its direction and turns back
\* only at an end, whatever the modulo and the search over lengths do there.
Walker == INSTANCE Walk WITH here <- PositionAt(course, elapsed),
    before <- IF elapsed = 0 THEN PositionAt(course, 0) ELSE PositionAt(course, elapsed - 1)

WalksItsRoute == Walker!WalkSpec

\* The velocity handed to the solver is the one the node moves with: the
\* displacement of the tick before or of the tick after the update (they
\* differ at a corner only), or none at the instant the node stands on a
\* waypoint that is given twice.  A wrong sign would flip the Doppler of the
\* whole channel.
VelocityTrue ==
    updatedAt >= 0 =>
        LET t == updatedAt
            Moved(a, b) == <<PositionAt(course, b)[1] - PositionAt(course, a)[1],
                             PositionAt(course, b)[2] - PositionAt(course, a)[2]>>
            Doubled == /\ course.kind = "route"
                       /\ Walked(course)[Leg(course, t)] = Walked(course)[Leg(course, t) + 1]
        IN \/ velocity = Moved(t, t + 1)
           \/ velocity = Moved(t - 1, t)
           \/ Doubled /\ velocity = <<0, 0>>

\* An update never moves a node further than it can have walked since the
\* last one, the first update included.
NoTeleport == [][position' # position =>
    Dist(position, position') <= elapsed - (IF updatedAt < 0 THEN 0 ELSE updatedAt)]_motionVars

\* The closed forms of Motion are a walk: they refine one taken step by step,
\* the velocity is the walk's own, and no update makes a node jump.
MotionFaithful == WalksItsRoute /\ []VelocityTrue /\ NoTeleport
===============================================================================
