---------------------------- MODULE MCExperiments ---------------------------
(***************************************************************************)
(* The experiments around the relay: the renderers of their configuration, *)
(* the gates that judge a run, and the scheduler benchmark with its plan,  *)
(* its live and final report and its log reader.  Each is a program of its *)
(* own, so they are checked one at a time: `part' picks one in the initial *)
(* state and the state of the others stays initial.                        *)
(***************************************************************************)
EXTENDS Wiring, Bandwidth, GateRun, TransportGate, MatrixCapture,
        BenchmarkRun, ReportMetrics

VARIABLE part

BenchOffsets == <<1, 3>>
PlanCells == <<"a", "b">>

configVars == << wiringVars, bwVars >>
judgeVars == << gateVars, transportVars, captureVars >>
benchmarkVars == << planVars, benchVars, schedVars, metricVars >>

\* A part that is not checked has one of its initial states.
ExperimentsInit ==
  /\ part \in {"wiring", "bandwidth", "gate", "transport", "capture",
               "plan", "benchmark", "log", "metrics"}
  /\ IF part = "wiring" THEN renderer \in Gates
     ELSE /\ renderer = "legacy" /\ snr = 0 /\ patterns = <<7, 7>>
          /\ scenario = [ports |-> [n \in NodesOf("legacy") |-> FixedPorts("legacy", n)],
                         links |-> Required("legacy")]
  /\ IF part = "bandwidth" THEN base \in {"legacy", "oai", "oai_2x2"}
     ELSE base = "legacy" /\ bw = 20 /\ stage = 0 /\ gridMode = ""
  /\ gate \in IF part = "gate" THEN AllGates ELSE {Legacy}
  /\ IF part = "capture" THEN relay \in Relays
     ELSE /\ relay = "right" /\ linked = {"A"} /\ signal = "live" /\ silent = {}
          /\ carrier = "identity" /\ skip = 0
          /\ declared = [A |-> [r \in Rows |-> [c \in {1, 2} |-> 1]], C |-> [r \in Rows |-> [c \in {1} |-> 1]]]
  /\ IF part = "plan" THEN TRUE ELSE cells = {CellNames[1]}
  /\ IF part = "metrics" THEN TRUE ELSE hasUeCsv = FALSE
  /\ WiringInit /\ BandwidthInit /\ GateInit /\ TransportInit /\ CaptureInit
  /\ PlanInit /\ BenchInit /\ SchedInit /\ MetricsInit

ConfigStep ==
  \/ part = "wiring" /\ WiringNext /\ UNCHANGED bwVars
  \/ part = "bandwidth" /\ BandwidthNext /\ UNCHANGED wiringVars

JudgeStep ==
  \/ part = "gate" /\ GateNext /\ UNCHANGED << transportVars, captureVars >>
  \/ part = "transport" /\ TransportNext /\ UNCHANGED << gateVars, captureVars >>
  \/ part = "capture" /\ JudgeCapture /\ UNCHANGED << gateVars, transportVars >>

BenchmarkStep ==
  \/ part = "plan" /\ PlanNext /\ UNCHANGED << benchVars, schedVars, metricVars >>
  \/ part = "benchmark" /\ BenchNext /\ UNCHANGED << planVars, schedVars, metricVars >>
  \/ part = "log" /\ SchedNext /\ UNCHANGED << planVars, benchVars, metricVars >>
  \/ part = "metrics" /\ MetricsNext /\ UNCHANGED << planVars, benchVars, schedVars >>

ExperimentsNext ==
  /\ UNCHANGED part
  /\ \/ ConfigStep /\ UNCHANGED << judgeVars, benchmarkVars >>
     \/ JudgeStep /\ UNCHANGED << configVars, benchmarkVars >>
     \/ BenchmarkStep /\ UNCHANGED << configVars, judgeVars >>

ExperimentsSpec ==
  ExperimentsInit /\ [][ExperimentsNext]_<< part, configVars, judgeVars, benchmarkVars >>

\* The configurations rendered for a run agree with each other: sockets, links,
\* levels, rates and grids, written by different scripts from different tables.
ConfigurationsAgree ==
  /\ EndpointsPair /\ LinksKept /\ ReferenceSnr /\ OneRendering /\ CliSlotsExact
  /\ RatesAgree /\ UeRateMatches /\ SsbPlaced /\ GridMapped

\* A gate accepts what it promises to accept and nothing else: a flawless run of
\* what was recorded, and captures that only the right mixing explains.
GatesJust ==
  /\ EvidenceIsWhatRan /\ AcceptedIsWhole /\ FlawlessAccepted
  /\ RowsAreTheProduct /\ DependsOnBoth /\ RightRelayPasses

\* The scheduler benchmark files every packet of its plan and every line of the
\* scheduler's log in its place, and ends with the truth (plan, traffic, logs).
BenchmarkFiled ==
  /\ BenchmarkCounts
  /\ [](IdentifiersAgree /\ EveryPacketHeard /\ TwinsAlternate /\ UnwrapExact /\ WaitsExact)
=============================================================================
