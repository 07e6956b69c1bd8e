---------------------------- MODULE BenchmarkRun ----------------------------
(***************************************************************************)
(* The scheduler benchmark (src/use_cases/scheduler_benchmark): who sends  *)
(* what to whom, and one flow from its sender to the report.  The two      *)
(* parts share no state.                                                   *)
(***************************************************************************)
EXTENDS Integers, Sequences, FiniteSets, SequencesExt, FiniteSetsExt

(***************************************************************************)
(* Who sends what to whom in the scheduler benchmark: definitions.py holds *)
(* the cells and the flow identifiers, dl_targets and ul_targets of        *)
(* traffic.py tell a sender where its packets go, the receivers bind the   *)
(* ports main works out for their role, and build_flows of analyze.py maps *)
(* the identifier of a packet back to a UE and a flow.  Four places derive *)
(* identifiers and ports on their own and have to agree.                   *)
(*                                                                         *)
(* A profile is a flow list per cell-local UE; a flow is its direction.    *)
(***************************************************************************)
CONSTANTS
    CellNames,    \* CELLS in order
    MaxFlows      \* flows of one UE, at most the 10 validate_profile allows

ASSUME PlanAssumption ==
    CellNames \in Seq(STRING) /\ Len(CellNames) <= 16 /\ MaxFlows \in 1 .. 10

VARIABLES
    profile,      \* traffic_profile["ues"]: the flows of UE 0 and of UE 1
    cells,        \* the cells of benchmark.json
    batches,      \* packets sent: one set per pass over a target
    parity        \* run_sender: which end of the destinations goes first

planVars == <<profile, cells, batches, parity>>

Directions == {"dl", "ul"}
UeIndex == 0 .. 1
CellIndex == 0 .. Len(CellNames) - 1
InRun(c) == CellNames[c + 1] \in cells
Flows(u) == profile[u + 1]
FlowIndex(u) == 0 .. Len(Flows(u)) - 1
Direction(u, f) == Flows(u)[f + 1]

DL_BASE_PORT == 47000
UL_PORT == 47900

flow_id(c, u, f) == c * 4096 + u * 256 + f

split_flow_id(v) == <<(v \div 4096) % 16, (v \div 256) % 16, v % 256>>

\* Destinations: the flow identifier and where the packet goes.
DlPort(u, f) == DL_BASE_PORT + 10 * u + f

Ascending(S) == CHOOSE s \in [1 .. Cardinality(S) -> S] :
                   \A i \in 1 .. Cardinality(S) - 1 : s[i] < s[i + 1]
RunCells == Ascending({c \in CellIndex : InRun(c)})

\* dl_targets: one sender serves both cells; the twins of a flow share a target.
DlTarget(u, f) ==
    [i \in DOMAIN RunCells |->
        [fid |-> flow_id(RunCells[i], u, f), cell |-> RunCells[i], ue |-> u,
         port |-> DlPort(u, f)]]

\* ul_targets of one UE: its gateway listens on one port.
UlTarget(c, u, f) ==
    <<[fid |-> flow_id(c, u, f), cell |-> c, ue |-> u, port |-> UL_PORT]>>

ReceiverPorts(u) == {DlPort(u, f) : f \in {g \in FlowIndex(u) : Direction(u, g) = "dl"}}

\* build_flows: the flows the analyzer knows, by identifier.
Known ==
    {[fid |-> flow_id(c, u, f), cell |-> c, ue |-> u, flow |-> f] :
        c \in {d \in CellIndex : InRun(d)}, u \in UeIndex, f \in 0 .. MaxFlows - 1}
KnownFlows == {k \in Known : k.flow \in FlowIndex(k.ue)}

PlanInit ==
    /\ profile = <<<<>>, <<>>>>
    /\ cells \in {{CellNames[i] : i \in 1 .. n} : n \in 1 .. Len(CellNames)}
    /\ batches = <<>> /\ parity = 0

\* resolve_profile: a flow is added to a UE's list.
AddFlow ==
    /\ batches = <<>>
    /\ \E u \in UeIndex, d \in Directions :
          /\ Len(Flows(u)) < MaxFlows
          /\ profile' = [profile EXCEPT ![u + 1] = Append(@, d)]
    /\ UNCHANGED <<cells, batches, parity>>

\* One turn of run_sender's loop: the packet goes to every destination of its
\* target, from the other end than last time.
Reversed(s) == [i \in DOMAIN s |-> s[Len(s) + 1 - i]]
Turns(p) == 1 - p

SendTarget(target) ==
    /\ Len(batches) < 2
    /\ batches' = Append(batches, IF parity = 0 THEN target ELSE Reversed(target))
    /\ parity' = Turns(parity)
    /\ UNCHANGED <<profile, cells>>

SendDl == \E u \in UeIndex : \E f \in FlowIndex(u) :
             Direction(u, f) = "dl" /\ SendTarget(DlTarget(u, f))
SendUl == \E c \in {d \in CellIndex : InRun(d)}, u \in UeIndex : \E f \in FlowIndex(u) :
             Direction(u, f) = "ul" /\ SendTarget(UlTarget(c, u, f))

PlanNext == AddFlow \/ SendDl \/ SendUl
PlanSpec == PlanInit /\ [][PlanNext]_planVars

-----------------------------------------------------------------------------
Packets == UNION {{b[i] : i \in DOMAIN b} : b \in {batches[j] : j \in DOMAIN batches}}

\* Every packet a sender emits goes to a port somebody has bound for that UE, and
\* no port of one UE lies in the block of the other.
EveryPacketHeard ==
    /\ \A p \in Packets : p.port = UL_PORT \/ p.port \in ReceiverPorts(p.ue)
    /\ ReceiverPorts(0) \cap ReceiverPorts(1) = {}
    /\ UL_PORT \notin ReceiverPorts(0) \cup ReceiverPorts(1)

\* The analyzer files every packet under the one flow it belongs to.
IdentifiersAgree ==
    \A p \in Packets :
       \E k \in KnownFlows :
          /\ {j \in KnownFlows : j.fid = p.fid} = {k}
          /\ k.cell = p.cell /\ k.ue = p.ue
          /\ split_flow_id(p.fid) = <<k.cell, k.ue, k.flow>>

\* A pass over a downlink target serves the twins of both cells, and no cell is
\* served first twice in a row: neither policy is always the later one.
TwinsAlternate ==
    \A i \in DOMAIN batches :
       (batches[i][1].port # UL_PORT) =>
         /\ {batches[i][j].cell : j \in DOMAIN batches[i]} = {c \in CellIndex : InRun(c)}
         /\ (i > 1 /\ batches[i - 1][1].port # UL_PORT /\ Cardinality(cells) > 1) =>
               batches[i][1].cell # batches[i - 1][1].cell

-----------------------------------------------------------------------------
(***************************************************************************)
(* One flow of the scheduler benchmark from the sender to the report       *)
(* (src/use_cases/scheduler_benchmark): traffic.py run_sender sends one    *)
(* packet per scheduled offset and logs its progress, run_receiver writes  *)
(* one record per packet through a buffer, the scheduler writes one log    *)
(* line per second, the Sionna bridge writes the anchor, and the analyzer  *)
(* of analyze.py tails all four files whenever a page asks server.py for a *)
(* report.  Time is counted in seconds of the schedule.                    *)
(***************************************************************************)
CONSTANTS
    Offsets,      \* flow_schedule: the send second of each packet, in order
    Measure,      \* measure_seconds: the number of one-second segments
    Shift,        \* grid anchor minus traffic start, in seconds
    Horizon,      \* LIVE_LOSS_HORIZON_S
    MaxLag,       \* how late the sender may be
    MaxDelay,     \* how long the network may keep a packet
    MaxDup,       \* packets the network may duplicate
    MaxNow        \* bound on the clock

ASSUME BenchmarkAssumption ==
    /\ Offsets \in Seq(Nat) /\ Len(Offsets) > 0
    /\ \A i \in 1 .. Len(Offsets) - 1 : Offsets[i] <= Offsets[i + 1]
    /\ {Measure, Shift, Horizon, MaxLag, MaxDelay, MaxDup, MaxNow} \subseteq Nat

VARIABLES
    now,
    tx,           \* the sender: the next sequence number, what its log says
    wire,         \* datagrams in flight, as <<sequence number, send second>>
    dups,
    rx,           \* the receiver: buffered records, its file, visible half records,
                  \* and (history) the packets it has ever received
    anchorIn,     \* the first "run" record is in the Sionna status log
    an,           \* the analyzer that answers live requests
    report,       \* the last live report: segment -> <<sent, received>>
    final         \* the report written when the run is over

benchVars == <<now, tx, wire, dups, rx, anchorIn, an, report, final>>

Seqs == 0 .. Len(Offsets) - 1
Segments == 0 .. Measure - 1
NoReport == [k \in {} |-> <<0, 0>>]
Unwritten == [k \in {-1} |-> <<0, 0>>]

\* ensure_bounds and nominal_segment: the segment of a packet by its schedule.
Bound(k) == Cardinality({s \in Seqs : Offsets[s + 1] < k + Shift})
Nominal(s) == {k \in Segments : Bound(k) <= s /\ s < Bound(k + 1)}

NewAnalyzer == [anchor |-> FALSE, sent |-> 0, offset |-> 0, read |-> <<>>,
                got |-> {}, dup |-> 0, filed |-> [k \in Segments |-> 0],
                lines |-> 0, slots |-> {}]

BenchInit ==
    /\ now = 0
    /\ tx = [next |-> 0, log |-> 0, tick |-> 0, done |-> FALSE]
    /\ wire = {} /\ dups = 0
    /\ rx = [pending |-> <<>>, since |-> 0, file |-> <<>>, visible |-> 0,
             done |-> FALSE, seen |-> {}]
    /\ anchorIn = FALSE
    /\ an = NewAnalyzer
    /\ report = NoReport
    /\ final = Unwritten

(***************************************************************************)
(* The sender                                                              *)
(***************************************************************************)
Due == tx.next \in Seqs /\ Offsets[tx.next + 1] <= now

Ticked(t) ==
    {[t EXCEPT !.log = t.next, !.tick = now]}
        \cup (IF t.tick = now THEN {t} ELSE {})

\* sendto may fail: the number is used up either way.
Send ==
    /\ Due /\ ~tx.done
    /\ \/ wire' = wire \cup {<<tx.next, now>>}
       \/ wire' = wire
    /\ tx' \in Ticked([tx EXCEPT !.next = @ + 1])
    /\ UNCHANGED <<now, dups, rx, anchorIn, an, report, final>>

\* The last forced tick, and traffic_sender_done with next_seq.
SenderDone ==
    /\ tx.next = Len(Offsets) /\ ~tx.done
    /\ tx' = [tx EXCEPT !.log = tx.next, !.done = TRUE]
    /\ UNCHANGED <<now, wire, dups, rx, anchorIn, an, report, final>>

(***************************************************************************)
(* The network and the receiver                                            *)
(***************************************************************************)
Written == rx.visible = 2 * Len(rx.file)

Received(p) ==
    rx' = [rx EXCEPT !.pending = Append(@, p[1]), !.seen = @ \cup {p[1]},
                     !.since = IF rx.pending = <<>> THEN now ELSE @]

Deliver ==
    /\ Written /\ ~rx.done
    /\ \E p \in wire :
          /\ Received(p)
          /\ \/ wire' = wire \ {p} /\ UNCHANGED dups
             \/ dups < MaxDup /\ dups' = dups + 1 /\ UNCHANGED wire
    /\ UNCHANGED <<now, tx, anchorIn, an, report, final>>

Lose ==
    /\ \E p \in wire : wire' = wire \ {p}
    /\ UNCHANGED <<now, tx, dups, rx, anchorIn, an, report, final>>

\* A write that another process may see half of before it is complete.
Flush ==
    /\ rx.pending # <<>> /\ Written
    /\ \E seen \in {2 * Len(rx.file) + 1,
                    2 * Len(rx.file) + 2 * Len(rx.pending)} :
          rx' = [rx EXCEPT !.file = @ \o rx.pending, !.pending = <<>>,
                           !.visible = seen]
    /\ UNCHANGED <<now, tx, wire, dups, anchorIn, an, report, final>>

WriteRest ==
    /\ ~Written
    /\ rx' = [rx EXCEPT !.visible = 2 * Len(rx.file)]
    /\ UNCHANGED <<now, tx, wire, dups, anchorIn, an, report, final>>

LastFlush(r) ==
    [r EXCEPT !.file = @ \o r.pending, !.pending = <<>>, !.done = TRUE,
              !.visible = 2 * (Len(r.file) + Len(r.pending))]

ReceiverDone ==
    /\ tx.done /\ wire = {} /\ Written /\ ~rx.done
    /\ rx' = LastFlush(rx)
    /\ UNCHANGED <<now, tx, wire, dups, anchorIn, an, report, final>>

(***************************************************************************)
(* The analyzer                                                            *)
(***************************************************************************)
\* poll_sionna: the anchor is taken from the first "run" record.
PollAnchor(a) == [a EXCEPT !.anchor = anchorIn]

\* poll_sched: a line is filed under the second it was written in, if the
\* anchor is known when it is read.
PollSched(a) ==
    [a EXCEPT !.lines = now,
              !.slots = @ \cup (IF a.anchor
                                THEN {k \in Segments : a.lines <= k + Shift /\ k + Shift < now}
                                ELSE {})]

\* poll_senders: the progress log only ever raises the count.
PollSenders(a) == [a EXCEPT !.sent = IF tx.log > @ THEN tx.log ELSE @]

Usable(a) == SubSeq(rx.file, Len(a.read) + 1, rx.visible \div 2)

FileRecord(a, s) ==
    IF s \in a.got
    THEN [a EXCEPT !.read = Append(@, s), !.dup = @ + 1]
    ELSE [a EXCEPT !.read = Append(@, s), !.got = @ \cup {s},
                   !.filed = [k \in Segments |->
                                @[k] + IF k \in Nominal(s) THEN 1 ELSE 0]]

\* poll_receivers: the file is left unread until the anchor is known.
PollReceivers(a) ==
    IF ~a.anchor THEN a
    ELSE FoldLeft(FileRecord, [a EXCEPT !.offset = rx.visible], Usable(a))

Poll(a) == PollReceivers(PollSenders(PollSched(PollAnchor(a))))

\* sent_by_segment: on a live run only segments older than the loss horizon.
ReportedAtOnce(live) == IF live THEN {k \in Segments : k < now - Shift} ELSE Segments
Reported(live) ==
    IF live THEN {k \in Segments : k < now - Horizon - Shift} ELSE Segments

SentBySegment(a, live) ==
    LET Hi(k) == IF Bound(k + 1) < a.sent THEN Bound(k + 1) ELSE a.sent
    IN  IF ~a.anchor THEN NoReport
        ELSE [k \in {j \in Reported(live) : Hi(j) > Bound(j)} |->
                <<Hi(k) - Bound(k), a.filed[k]>>]

\* Runs.analyzer: poll, then report; a report younger than the refresh time is
\* served again unchanged, which is a stutter here.
LiveReport ==
    /\ final = Unwritten
    /\ an' = Poll(an)
    /\ report' = SentBySegment(an', TRUE)
    /\ UNCHANGED <<now, tx, wire, dups, rx, anchorIn, final>>

\* The analyzer was dropped for three other runs: the next request starts over.
Reopened == NewAnalyzer
Evict ==
    /\ an # NewAnalyzer
    /\ an' = Reopened
    /\ UNCHANGED <<now, tx, wire, dups, rx, anchorIn, report, final>>

\* main: a new analyzer over the finished run's files.
FinalReport ==
    /\ tx.done /\ rx.done /\ anchorIn /\ now >= Shift + Measure
    /\ final = Unwritten
    /\ final' = SentBySegment(Poll(NewAnalyzer), FALSE)
    /\ UNCHANGED <<now, tx, wire, dups, rx, anchorIn, an, report>>

(***************************************************************************)
(* Time                                                                    *)
(***************************************************************************)
\* The bridge writes the first "run" record after its first update, at or
\* after the anchor and within MaxDelay of it.
AnchorRecord ==
    /\ ~anchorIn /\ now >= Shift
    /\ anchorIn' = TRUE
    /\ UNCHANGED <<now, tx, wire, dups, rx, an, report, final>>

Tick ==
    /\ now < MaxNow
    /\ Due => now < Offsets[tx.next + 1] + MaxLag
    /\ tx.next = Len(Offsets) => tx.done
    /\ \A p \in wire : now < p[2] + MaxDelay
    /\ rx.pending # <<>> => now = rx.since
    /\ Written
    /\ now < Shift + MaxDelay \/ anchorIn
    /\ now' = now + 1
    /\ UNCHANGED <<tx, wire, dups, rx, anchorIn, an, report, final>>

BenchNext ==
    \/ Send \/ SenderDone \/ Deliver \/ Lose \/ Flush \/ WriteRest
    \/ ReceiverDone \/ LiveReport \/ Evict \/ FinalReport \/ AnchorRecord
    \/ Tick

BenchSpec == BenchInit /\ [][BenchNext]_benchVars

-----------------------------------------------------------------------------
BenchTypeOK ==
    /\ now \in 0 .. MaxNow /\ dups \in 0 .. MaxDup
    /\ tx.next \in 0 .. Len(Offsets) /\ tx.log \in 0 .. tx.next
    /\ wire \subseteq Seqs \X (0 .. MaxNow)
    /\ rx.visible \in 0 .. 2 * Len(rx.file)
    /\ an.got \subseteq Seqs /\ an.slots \subseteq Segments

\* However the writes are split and the polls fall, the analyzer has read the
\* records of the file once each and in order, has filed every packet once under
\* its scheduled second and counted the others as duplicates.
RecordsFiledOnce ==
    /\ IsPrefix(an.read, rx.file)
    /\ 2 * Len(an.read) <= an.offset /\ an.offset <= 2 * Len(an.read) + 1
    /\ Len(an.read) = Cardinality(an.got) + an.dup
    /\ \A k \in Segments :
          an.filed[k] = Cardinality({s \in an.got : k \in Nominal(s)})

\* A segment a live report shows is settled: no later report of the run, from
\* this analyzer or from one opened afresh, nor the final one, revises its
\* counts, so that a packet still queued is never called lost.  It takes a
\* schedule without gaps longer than the horizon: the sender writes its progress
\* only when it sends.
LossSettled ==
    [][\A k \in DOMAIN report :
          /\ k \in DOMAIN report' => report'[k] = report[k]
          /\ (final' # final /\ k \in DOMAIN final') => final'[k] = report[k]]_benchVars

\* The final report counts, for every second, the packets the sender used a
\* number for and the distinct ones among them that the receiver saw.
FinalTruth ==
    final # Unwritten =>
       \A k \in Segments :
          LET due == {s \in Seqs : k \in Nominal(s)}
          IN  IF due = {} THEN k \notin DOMAIN final
              ELSE /\ k \in DOMAIN final
                   /\ final[k] = <<Cardinality(due),
                                   Cardinality({s \in due : s \in rx.seen})>>

\* A scheduler benchmark loses and invents no packet between sender, receiver,
\* live report and final report (analyze.py's poll and report).
BenchmarkCounts == [](BenchTypeOK /\ RecordsFiledOnce /\ FinalTruth) /\ LossSettled
=============================================================================
