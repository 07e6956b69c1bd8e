------------------------------ MODULE GateRun ------------------------------
(***************************************************************************)
(* One run of a live attach gate (scripts/native/run-*-inner.sh) and the  *)
(* verifier that judges what it left on disk (verify-*-artifacts.py).  The *)
(* script brings up the core, the broker, the gNB and the UE, watches the  *)
(* UE attach, pings, waits for the broker to end by itself and writes a    *)
(* summary; meanwhile each process may die, log trouble or lose samples.   *)
(* The verifier sees files only.  "truth" variables (lost, stood) keep     *)
(* what happened, so that the verdict can be held against it.              *)
(*                                                                         *)
(* Abstracted: hashes are equalities of versions, a log is the set of      *)
(* tokens the verifier looks for, 60 or 3 ping replies are "all".          *)
(***************************************************************************)
EXTENDS Integers, Sequences, FiniteSets

VARIABLES
  gate,        \* the gate that runs
  at,          \* where the scripts are
  source,      \* the channel sources: [now, manifest, built], a version each
  configs,     \* the preserved configuration files, and their hashes
  up,          \* the running processes
  broker,      \* "none", "running", "clean", "crashed" or "hung"
  tokens,      \* what the logs hold, a set of tokens
  lost,        \* the broker counted an overflow, a gap or an error
  starved,     \* the broker counted a starved request
  stood,       \* truth: who was up when the broker stopped
  seen,        \* the script's flags
  summary,     \* attach-summary.json
  fresh,       \* the summary is not older than 300 s
  verdict
gateVars == <<gate, at, source, configs, up, broker, tokens, lost, starved, stood,
              seen, summary, fresh, verdict>>

Radios == {"core", "gnb", "ue"}
NoSummary == [status |-> "none"]
NoVerdict == [accepted |-> FALSE]
\* the radio_node_resolved or socket_ready lines of the broker
PortLines == {"one port", "two ports", "four ports"}

RankTwo == [name |-> "rank1-2x1", ports |-> "two ports", binaries |-> {"gnb", "srsue", "core", "broker"}, harq |-> FALSE]
RankFour == [name |-> "rank1-4x1", ports |-> "four ports", binaries |-> {"gnb", "srsue", "core", "broker"}, harq |-> FALSE]
Legacy == [name |-> "legacy-1x1", ports |-> "one port", binaries |-> {"gnb", "srsue", "core", "broker"}, harq |-> FALSE]
OaiOne == [name |-> "oai-1x1", ports |-> "one port",
             binaries |-> {"gnb", "nrue", "zmq_module", "core", "broker"}, harq |-> TRUE]
AllGates == {RankTwo, RankFour, Legacy, OaiOne}

(***************************************************************************)
(* The verifiers.                                                          *)
(***************************************************************************)
SummaryFits(g) ==
  /\ summary # NoSummary
  /\ fresh
  /\ summary.status = "passed"
  /\ summary.gate = g.name

EvidenceFits(g) ==
  /\ summary.gate = g.name
  /\ source.manifest = source.hashed
  /\ configs.now = configs.hashed
  /\ summary.binaries = g.binaries

FlagsFit ==
  /\ summary.broker = 0
  /\ {"rrc", "pdu", "ping"} \subseteq summary.flags
  /\ Radios \subseteq summary.flags

\* exactly one stop line, no strict counter in it, and the summary's counters are its own
CountersFit ==
  /\ "stop" \in tokens
  /\ ~lost
  /\ summary.starved = starved
  /\ ~summary.lost

BrokerLogFits(ports) ==
  /\ {"start", "probe", "pulls", "requests"} \subseteq tokens
  /\ "fallback" \notin tokens
  /\ tokens \cap PortLines = {ports}
  /\ CountersFit

GnbLogFits == "closed" \in tokens /\ "failure" \notin tokens
UeLogFits == {"rrc", "pdu", "all replies", "subscriber"} \subseteq tokens

\* the share of HARQ-ACK bits the gNB logged as NACK, once there are enough of them
NackShareFits == "few bits" \notin tokens /\ "nacked" \notin tokens

LogsFit(ports) == FlagsFit /\ BrokerLogFits(ports) /\ GnbLogFits /\ UeLogFits

PaperTwo == SummaryFits(RankTwo) /\ EvidenceFits(RankTwo)
LogsTwo == LogsFit(RankTwo.ports)

PaperFour == SummaryFits(RankFour) /\ EvidenceFits(RankFour)
LogsFour == LogsFit(RankFour.ports)

PaperLegacy == SummaryFits(Legacy) /\ EvidenceFits(Legacy)
LogsLegacy == LogsFit(Legacy.ports)

PaperOai == SummaryFits(OaiOne) /\ EvidenceFits(OaiOne)
LogsOai == LogsFit(OaiOne.ports) /\ NackShareFits

AcceptedBy(g) ==
  \/ g = RankTwo /\ PaperTwo /\ LogsTwo
  \/ g = RankFour /\ PaperFour /\ LogsFour
  \/ g = Legacy /\ PaperLegacy /\ LogsLegacy
  \/ g = OaiOne /\ PaperOai /\ LogsOai

(***************************************************************************)
(* The database check: as many documents as records, each the record's own. *)
(***************************************************************************)
Record == [imsi |-> 1, key |-> "k", address |-> 1]
DocumentFits(d, r) == d.imsi = r.imsi /\ d.key = r.key /\ d.address = r.address
SubscribersFit(documents) ==
  Cardinality(documents) = 1 /\ \A d \in documents : DocumentFits(d, Record)

Databases ==
  LET other == [Record EXCEPT !.imsi = 2] IN
  {{}, {Record}, {other}, {Record, other}, {[Record EXCEPT !.address = 2]}}

(***************************************************************************)
(* The run.                                                                *)
(***************************************************************************)
GateInit ==
  /\ gate \in AllGates
  /\ at = "build"
  /\ source = [now |-> 0, manifest |-> 0, built |-> 0, hashed |-> 0]
  /\ configs = [now |-> 0, hashed |-> 0]
  /\ up = {}
  /\ broker = "none"
  /\ tokens = {}
  /\ lost = FALSE
  /\ starved = FALSE
  /\ stood = {}
  /\ seen = {}
  /\ summary = NoSummary
  /\ fresh = TRUE
  /\ verdict = NoVerdict

\* somebody edits a source file, or a preserved configuration, once
EditSource ==
  /\ at \in {"build", "compare"}
  /\ source.now = 0
  /\ source' = [source EXCEPT !.now = 1]
  /\ UNCHANGED <<gate, at, configs, up, broker, tokens, lost, starved, stood, seen, summary, fresh, verdict>>

EditConfig ==
  /\ at = "verify"
  /\ configs.now = 0
  /\ configs' = [configs EXCEPT !.now = 1]
  /\ UNCHANGED <<gate, at, source, up, broker, tokens, lost, starved, stood, seen, summary, fresh, verdict>>

Build ==
  /\ at = "build"
  /\ source' = [source EXCEPT !.built = source.now]
  /\ at' = "compare"
  /\ UNCHANGED <<gate, configs, up, broker, tokens, lost, starved, stood, seen, summary, fresh, verdict>>

Unchanged == source.now = source.manifest

Compare ==
  /\ at = "compare"
  /\ at' = IF Unchanged THEN "preserve" ELSE "refused"
  /\ UNCHANGED <<gate, source, configs, up, broker, tokens, lost, starved, stood, seen, summary, fresh, verdict>>

Preserve ==
  /\ at = "preserve"
  /\ source' = [source EXCEPT !.hashed = source.manifest]
  /\ configs' = [configs EXCEPT !.hashed = configs.now]
  /\ at' = "subscribe"
  /\ UNCHANGED <<gate, up, broker, tokens, lost, starved, stood, seen, summary, fresh, verdict>>

Subscribe ==
  /\ at = "subscribe"
  /\ \E documents \in Databases :
       IF SubscribersFit(documents)
       THEN at' = "broker" /\ tokens' = tokens \cup {"subscriber"} /\ up' = up \cup {"core"}
       ELSE at' = "refused" /\ UNCHANGED <<tokens, up>>
  /\ UNCHANGED <<gate, source, configs, broker, lost, starved, stood, seen, summary, fresh, verdict>>

\* the broker comes up on the device, or falls back, with the ports of its topology
StartBroker ==
  /\ at = "broker"
  /\ \/ \E n \in PortLines : tokens' = tokens \cup {"start", "probe", n}
     \/ tokens' = tokens \cup {"start", "probe", gate.ports, "fallback"}
  /\ broker' = "running"
  /\ at' = "gnb"
  /\ UNCHANGED <<gate, source, configs, up, lost, starved, stood, seen, summary, fresh, verdict>>

StartGnb ==
  /\ at = "gnb"
  /\ \/ up' = up \cup {"gnb"} /\ at' = "ue"
     \/ up' = up /\ at' = "refused"
  /\ UNCHANGED <<gate, source, configs, broker, tokens, lost, starved, stood, seen, summary, fresh, verdict>>

StartUe ==
  /\ at = "ue"
  /\ up' = up \cup {"ue"}
  /\ at' = "attach"
  /\ UNCHANGED <<gate, source, configs, broker, tokens, lost, starved, stood, seen, summary, fresh, verdict>>

\* the UE writes its progress into its log; traffic makes the broker count
Progress ==
  /\ at \in {"attach", "ping"}
  /\ broker = "running"
  /\ Radios \subseteq up
  /\ \/ tokens' = tokens \cup {"rrc", "pulls", "requests"}
     \/ "rrc" \in tokens /\ tokens' = tokens \cup {"pdu"}
  /\ UNCHANGED <<gate, at, source, configs, up, broker, lost, starved, stood, seen, summary, fresh, verdict>>

Attached(flags) == {"rrc", "pdu"} \subseteq flags

\* one poll of the UE's log, and the way out of the loop
PollAttach ==
  /\ at = "attach"
  /\ seen' = seen \cup (tokens \cap {"rrc", "pdu"})
  /\ \/ Attached(seen') /\ at' = "ping"
     \/ ~Attached(seen') /\ at' \in {"attach", "drain"}
  /\ UNCHANGED <<gate, source, configs, up, broker, tokens, lost, starved, stood, summary, fresh, verdict>>

\* ping exits with 0 as soon as one reply came
PingExitsOk(replies) == replies # {}

Ping ==
  /\ at = "ping"
  /\ \E replies \in {{}, {"a reply"}, {"a reply", "all replies"}} :
       /\ replies # {} => Radios \subseteq up /\ broker = "running"
       /\ tokens' = tokens \cup replies
       /\ seen' = IF PingExitsOk(replies) THEN seen \cup {"ping"} ELSE seen
  /\ at' = "drain"
  /\ UNCHANGED <<gate, source, configs, up, broker, lost, starved, stood, summary, fresh, verdict>>

(***************************************************************************)
(* What may go wrong while the stack runs.                                 *)
(***************************************************************************)
ProcessDies(p) ==
  /\ p \in up
  /\ at \in {"ue", "attach", "ping", "drain", "alive", "summary"}
  /\ up' = up \ {p}
  /\ \/ tokens' = tokens
     \/ p = "gnb" /\ tokens' = tokens \cup {"failure"}
  /\ UNCHANGED <<gate, at, source, configs, broker, lost, starved, stood, seen, summary, fresh, verdict>>

Trouble ==
  /\ at \in {"attach", "ping", "drain"}
  /\ broker = "running"
  /\ \/ lost' = TRUE /\ UNCHANGED <<starved, tokens>>
     \/ starved' = TRUE /\ UNCHANGED <<lost, tokens>>
     \/ gate.harq /\ tokens' = tokens \cup {"nacked"} /\ UNCHANGED <<lost, starved>>
     \/ gate.harq /\ tokens' = tokens \cup {"few bits"} /\ UNCHANGED <<lost, starved>>
  /\ UNCHANGED <<gate, at, source, configs, up, broker, stood, seen, summary, fresh, verdict>>

\* the broker reaches its duration and writes its stop line, or ends without one
BrokerEnds ==
  /\ broker = "running"
  /\ at \in {"attach", "ping", "drain"}
  /\ \/ broker' = "clean" /\ tokens' = tokens \cup {"stop"}
     \/ broker' = "crashed" /\ tokens' = tokens
  /\ stood' = up
  /\ UNCHANGED <<gate, at, source, configs, up, lost, starved, seen, summary, fresh, verdict>>

(***************************************************************************)
(* The end of the script and the verdict.                                  *)
(***************************************************************************)
Drain ==
  /\ at = "drain"
  /\ \/ broker # "running" /\ UNCHANGED <<broker, stood>>
     \/ broker = "running" /\ broker' = "hung" /\ stood' = up
  /\ at' = "alive"
  /\ UNCHANGED <<gate, source, configs, up, tokens, lost, starved, seen, summary, fresh, verdict>>

\* A plausible slip: what was started counts as running.
AliveOnce(p) == p \in Radios
\* only what still runs now was running when the broker stopped
Alive(p) == p \in up

CheckAlive ==
  /\ at = "alive"
  /\ seen' = seen \cup {p \in Radios : Alive(p)}
  /\ at' = "summary"
  /\ UNCHANGED <<gate, source, configs, up, broker, tokens, lost, starved, stood, summary, fresh, verdict>>

BrokerStatus == IF broker = "clean" THEN 0 ELSE 1
\* a counter of a stop line that is not there reads as zero
DuringRun(happened) == "stop" \in tokens /\ happened

Status ==
  CASE BrokerStatus # 0 \/ DuringRun(lost) -> "broker_failed"
    [] BrokerStatus = 0 /\ ~DuringRun(lost) /\ ~(Radios \subseteq seen) -> "process_exited"
    [] BrokerStatus = 0 /\ ~DuringRun(lost) /\ Radios \subseteq seen /\ ~Attached(seen) -> "no_attach"
    [] BrokerStatus = 0 /\ ~DuringRun(lost) /\ Radios \subseteq seen /\ Attached(seen)
         /\ "ping" \notin seen -> "ping_failed"
    [] OTHER -> "passed"

WriteSummary ==
  /\ at = "summary"
  /\ summary' = [status |-> Status, gate |-> gate.name, broker |-> BrokerStatus, flags |-> seen,
                 lost |-> DuringRun(lost), starved |-> DuringRun(starved), binaries |-> gate.binaries]
  /\ at' = "teardown"
  /\ UNCHANGED <<gate, source, configs, up, broker, tokens, lost, starved, stood, seen, fresh, verdict>>

\* the gNB closes its captures on INT, or has to be killed
TearDown ==
  /\ at = "teardown"
  /\ up' = {}
  /\ \/ "gnb" \in up /\ tokens' = tokens \cup {"closed"}
     \/ tokens' = tokens
  /\ at' = IF summary.status = "passed" THEN "verify" ELSE "refused"
  /\ UNCHANGED <<gate, source, configs, broker, lost, starved, stood, seen, summary, fresh, verdict>>

Age ==
  /\ at = "verify"
  /\ fresh
  /\ fresh' = FALSE
  /\ UNCHANGED <<gate, at, source, configs, up, broker, tokens, lost, starved, stood, seen, summary, verdict>>

\* anybody may run any of the verifiers on the summary
Verify ==
  /\ at = "verify"
  /\ \E g \in AllGates : verdict' = [by |-> g.name, accepted |-> AcceptedBy(g)]
  /\ at' = "done"
  /\ UNCHANGED <<gate, source, configs, up, broker, tokens, lost, starved, stood, seen, summary, fresh>>

GateNext ==
  \/ EditSource \/ EditConfig \/ Build \/ Compare \/ Preserve \/ Subscribe
  \/ StartBroker \/ StartGnb \/ StartUe \/ Progress \/ PollAttach \/ Ping
  \/ (\E p \in Radios : ProcessDies(p)) \/ Trouble \/ BrokerEnds
  \/ Drain \/ CheckAlive \/ WriteSummary \/ TearDown \/ Age \/ Verify
GateSpec == GateInit /\ [][GateNext]_gateVars

(***************************************************************************)
(* Properties.                                                             *)
(***************************************************************************)
Accepted == verdict.accepted

\* An accepted run was judged by the verifier of its own gate, ran on the
\* device with the topology of that gate, and the binary that ran is the one
\* of the recorded sources, whatever was edited while it was built
\* (verify-*-artifacts.py validate_artifacts; the manifest is compared after the build).
EvidenceIsWhatRan ==
  Accepted =>
    /\ verdict.by = gate.name
    /\ source.built = source.manifest
    /\ "fallback" \notin tokens
    /\ gate.ports \in tokens

\* An accepted run is whole: the broker came to its end by itself and counted
\* no overflow, gap or error (a missing stop line reads as zeros in the
\* summary); the core, the gNB and the UE were all up when it stopped (they are
\* looked at later); the UE was attached and every ping was answered (ping
\* itself exits with 0 after one reply).
AcceptedIsWhole ==
  Accepted =>
    /\ broker = "clean" /\ ~lost
    /\ stood = Radios
    /\ {"rrc", "pdu", "all replies"} \subseteq tokens

\* A run nothing was wrong with is not refused by its own verifier: a starved
\* request is no fault of a run (strict counters leave rx_starvations out).
Flawless ==
  /\ at = "done" /\ verdict.by = gate.name
  /\ fresh /\ configs.now = configs.hashed
  /\ ~lost /\ broker = "clean"
  /\ tokens \cap {"failure", "fallback", "nacked", "few bits"} = {}
  /\ tokens \cap PortLines = {gate.ports}
  /\ {"rrc", "pdu", "all replies", "closed"} \subseteq tokens
FlawlessAccepted == Flawless => verdict.accepted
=============================================================================
