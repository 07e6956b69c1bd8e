---------------------------- MODULE MCDashboard ----------------------------
(***************************************************************************)
(* The processes beside the broker: the Sionna bridge, which solves a      *)
(* scenario and sends its channels, and the dashboard, which reads what    *)
(* broker, gNB and bridge report.  Their threads share nothing with each   *)
(* other here, so they are checked one at a time: `source' picks one in    *)
(* the initial state and the state of the others stays initial.            *)
(***************************************************************************)
EXTENDS StatusStore, MetricsFeed, ResourceSampler, SionnaTail, Telemetry,
        BridgeLoop, ProfileFanout, ScenarioMotion, ChannelProfiles

VARIABLE source

dashboardVars == << storeVars, feedVars, samplerVars, tailVars, vars >>
bridgeVars == << loopVars, fanVars, motionVars, tapVars, traceVars >>

(***************************************************************************)
(* Courses for ScenarioMotion: a walk to and fro with a corner, one round  *)
(* a block, one closed by its own last waypoint, one that stands on a      *)
(* repeated first waypoint, and bounces that start inside, on a bound and  *)
(* backwards.                                                              *)
(***************************************************************************)
Route(corners, way) == [kind |-> "route", points |-> corners, mode |-> way]
Bounce(x, vx) == [kind |-> "bounce", start |-> <<x, 1>>, low |-> -1, high |-> 3, vx |-> vx]

MCCourses ==
    {Route(<<<<0, 0>>, <<3, 0>>, <<3, 2>>>>, "pingpong"),
     Route(<<<<0, 0>>, <<2, 0>>, <<2, 3>>, <<0, 3>>>>, "loop"),
     Route(<<<<0, 0>>, <<0, 2>>, <<2, 2>>, <<2, 0>>, <<0, 0>>>>, "loop"),
     Route(<<<<1, 1>>, <<1, 1>>, <<1, 4>>>>, "pingpong")}
    \cup {Bounce(x, vx) : x \in {-1, 0, 3}, vx \in {-1, 1}}

(***************************************************************************)
(* Scenario files for ChannelProfiles: a gNB and two UEs, one to three     *)
(* antennas a side, every list of up to three of six links, some of them   *)
(* the same link in another direction or between nodes the file lacks.     *)
(***************************************************************************)
ScenarioLink(s, d, direction) == [from |-> s, to |-> d, direction |-> direction, model |-> "tdl"]

LinkChoices ==
    {ScenarioLink("gnb0", "ue0", "downlink"), ScenarioLink("gnb0", "ue1", "downlink"),
     ScenarioLink("ue0", "gnb0", "uplink"), ScenarioLink("ue1", "ue0", "uplink"),
     ScenarioLink("ue1", "ue0", "crosstalk"), ScenarioLink("ue1", "gnb9", "uplink")}

PortChoices == {("gnb0" :> g) @@ ("ue0" :> u) @@ ("ue1" :> v) :
                  g \in {<<1, 1>>, <<2, 2>>}, u \in {<<1, 1>>, <<1, 2>>}, v \in {<<1, 1>>, <<2, 3>>}}

MCFiles == {[ports |-> p, links |-> ls] :
               p \in PortChoices, ls \in UNION {[1..n -> LinkChoices] : n \in 0..3}}

Rename(old, new) == [old |-> old, new |-> new]

MCRenames == {{}, {Rename("gnb0", "gnb1"), Rename("ue0", "ue2"), Rename("ue1", "ue3")},
              {Rename("ue0", "ue2"), Rename("ue1", "ue2")}, {Rename("ue0", "ue1"), Rename("ue1", "ue0")}}
-----------------------------------------------------------------------------
\* A part that is not checked has one of its initial states.
DashboardInit ==
  /\ source \in {"telemetry", "status", "metrics", "resources", "tail",
                 "loop", "fanout", "motion", "taps", "trace"}
  /\ StoreInit /\ FeedInit /\ SamplerInit /\ TailInit /\ Init
  /\ mode \in IF source = "loop" THEN Modes ELSE {CHOOSE m \in Modes : m.feed}
  /\ course \in IF source = "motion" THEN Courses ELSE {Bounce(0, 1)}
  /\ rename \in IF source = "trace" THEN Renames ELSE {{}}
  /\ scenarioFile \in IF source = "trace" THEN Files ELSE {CHOOSE f \in Files : TRUE}
  /\ LoopInit /\ FanInit /\ MotionInit /\ TapsInit /\ TraceInit

DashboardStep ==
  \/ /\ source = "status" /\ StoreNext
     /\ UNCHANGED << feedVars, samplerVars, tailVars, vars >>
  \/ /\ source = "metrics" /\ FeedNext
     /\ UNCHANGED << storeVars, samplerVars, tailVars, vars >>
  \/ /\ source = "resources" /\ SamplerNext
     /\ UNCHANGED << storeVars, feedVars, tailVars, vars >>
  \/ /\ source = "tail" /\ TailNext
     /\ UNCHANGED << storeVars, feedVars, samplerVars, vars >>
  \/ /\ source = "telemetry" /\ Next
     /\ UNCHANGED << storeVars, feedVars, samplerVars, tailVars >>

BridgeStep ==
  \/ /\ source = "loop" /\ LoopNext
     /\ UNCHANGED << fanVars, motionVars, tapVars, traceVars >>
  \/ /\ source = "fanout" /\ FanNext
     /\ UNCHANGED << loopVars, motionVars, tapVars, traceVars >>
  \/ /\ source = "motion" /\ MotionNext
     /\ UNCHANGED << loopVars, fanVars, tapVars, traceVars >>
  \/ /\ source = "taps" /\ TapsNext
     /\ UNCHANGED << loopVars, fanVars, motionVars, traceVars >>
  \/ /\ source = "trace" /\ TraceNext
     /\ UNCHANGED << loopVars, fanVars, motionVars, tapVars >>

DashboardNext ==
  /\ UNCHANGED source
  /\ \/ DashboardStep /\ UNCHANGED bridgeVars
     \/ BridgeStep /\ UNCHANGED dashboardVars

DashboardSpec ==
  DashboardInit /\ [][DashboardNext]_<< source, dashboardVars, bridgeVars >>

\* What the dashboard and the bridge keep of their inputs is exact: readings of
\* processes that live, records once and in order (ResourceSampler, SionnaTail).
InputsExact ==
  NoGhostReading /\ NvmlLifetime /\ HistoryExact /\ DeliveredInOrder /\ NothingSkipped

\* A profile is what was solved, for every link of every cell and every antenna
\* pair, and one the broker takes (profiles, remap_link_id).
ProfilesFaithful ==
  CoherentSum /\ BrokerTakesIt /\ EveryLinkSolved /\ LanesInPlace /\ SecondCellWhole
=============================================================================
