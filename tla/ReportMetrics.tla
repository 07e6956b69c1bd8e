--------------------------- MODULE ReportMetrics ---------------------------
(***************************************************************************)
(* What the analyzer of the scheduler benchmark makes of a run             *)
(* (use_cases/scheduler_benchmark/analyze.py): the slots of a scheduler's  *)
(* log (second half), and the report (RunAnalyzer.report): which           *)
(* seconds of a run count, what each lane shows over them, and the paired  *)
(* comparison of the two cells over the same seconds.  Seconds are filed   *)
(* one after the other and the report may be made after any of them.       *)
(*                                                                         *)
(* Abstracted: one UE and one downlink flow per cell, a rate is the number *)
(* of packets received in the second, a share is a percentage, and a value *)
(* that may be missing is a set of at most one element.                    *)
(***************************************************************************)
EXTENDS Integers, Sequences, FiniteSets, SequencesExt, FiniteSetsExt

CONSTANTS
  MaxSeconds,    \* bound on the seconds of a run
  MaxSegments    \* bound on the number of segments whose batches are checked
ASSUME SegmentsAssumption == MaxSeconds \in Nat /\ MaxSegments \in Nat

VARIABLES
  seconds,   \* what was filed for each second, per cell
  hasUeCsv   \* the srsUE metrics were flushed, which happens when the UE exits
metricVars == <<seconds, hasUeCsv>>

CellPair == {"a", "b"}
Loads == {[sent |-> 0, received |-> 0, late |-> 0], [sent |-> 2, received |-> 2, late |-> 0],
          [sent |-> 2, received |-> 1, late |-> 1]}
\* the scheduler report of the UE, its own metrics, and the scheduler's log
InService == [gnb |-> "ok", ue |-> "in", slots |-> TRUE]
Services ==
  {[gnb |-> "failed", ue |-> "in", slots |-> TRUE], [gnb |-> "ok", ue |-> "out", slots |-> TRUE],
   [gnb |-> "ok", ue |-> "in", slots |-> FALSE], [gnb |-> "none", ue |-> "in", slots |-> TRUE],
   [gnb |-> "ok", ue |-> "none", slots |-> TRUE], [gnb |-> "none", ue |-> "none", slots |-> TRUE]}
Usual == [sent |-> 2, received |-> 1, late |-> 0]

MetricsInit == seconds = <<>> /\ hasUeCsv \in BOOLEAN

\* poll_gnb_metrics, poll_ue_metrics: a second of traffic with both cells in service
FileTraffic ==
  /\ Len(seconds) < MaxSeconds
  /\ \E x \in Loads, y \in Loads :
       seconds' = Append(seconds, [a |-> [service |-> InService, load |-> x],
                                   b |-> [service |-> InService, load |-> y]])
  /\ UNCHANGED hasUeCsv

\* a second in which something is missing or wrong in cell c
FileTrouble(c) ==
  /\ Len(seconds) < MaxSeconds
  /\ \E s \in Services :
       seconds' = Append(seconds, [d \in CellPair |-> [service |-> IF d = c THEN s ELSE InService, load |-> Usual]])
  /\ UNCHANGED hasUeCsv

MetricsNext == FileTraffic \/ \E c \in CellPair : FileTrouble(c)
MetricsSpec == MetricsInit /\ [][MetricsNext]_metricVars

(***************************************************************************)
(* segment_validity.                                                       *)
(***************************************************************************)
Filed == DOMAIN seconds
Of(k, c) == seconds[k][c].service

Around(k) == {k, k - 1, k + 1} \cap Filed

ReportRows(k, c) == {Of(j, c).gnb : j \in Around(k)} \ {"none"}
GnbReason(k, c) ==
  /\ \E j \in Filed : Of(j, c).gnb # "none"
  /\ ReportRows(k, c) \in {{}, {"failed"}}

\* the row of the second itself, else of the one before, else of the one after
SideRow(k, c) ==
  LET rows == {j \in Around(k) : Of(j, c).ue # "none"} IN
  IF rows = {} THEN "none"
  ELSE Of(IF k \in rows THEN k ELSE Min(rows), c).ue
UeReason(k, c) ==
  /\ hasUeCsv
  /\ \E j \in Filed : Of(j, c).ue # "none"
  /\ SideRow(k, c) # "in"

Valid(k) == \A c \in CellPair : ~GnbReason(k, c) /\ ~UeReason(k, c) /\ Of(k, c).slots
ValidSeconds == {k \in Filed : Valid(k)}

(***************************************************************************)
(* segment_cell_metrics and run_cell_metrics.                              *)
(***************************************************************************)
Share(part, whole) == IF whole = 0 THEN {} ELSE {(100 * part) \div whole}

Segment(k, c) ==
  LET load == seconds[k][c].load IN
  [rate |-> {load.received},
   drop |-> Share(load.sent - load.received, load.sent),
   violation |-> Share(load.late, load.sent),
   \* the largest delay of the packets received in the second, if there were any
   delay |-> IF load.received = 0 THEN {} ELSE {10 * load.late}]

CountedSeconds == ValidSeconds

Lane(c) ==
  LET sent == MapThenSumSet(LAMBDA k : seconds[k][c].load.sent, CountedSeconds)
      received == MapThenSumSet(LAMBDA k : seconds[k][c].load.received, CountedSeconds)
      late == MapThenSumSet(LAMBDA k : seconds[k][c].load.late, CountedSeconds) IN
  [segments |-> Cardinality(CountedSeconds), sent |-> sent, received |-> received,
   drop |-> Share(sent - received, sent), violation |-> Share(late, sent)]

(***************************************************************************)
(* compare and _pairs.                                                     *)
(***************************************************************************)
Metrics == {"rate", "drop", "violation", "delay"}
InOrder(S) == SetToSortSeq(S, <)
Present(metric, c) == {k \in ValidSeconds : Segment(k, c)[metric] # {}}
ValueAt(metric, c, k) == CHOOSE v \in Segment(k, c)[metric] : TRUE

\* A plausible slip: each cell's series leaves out its own missing seconds.
KeptApart(metric, c) == Present(metric, c)
\* a second in which either cell has no value is left out of both series
Kept(metric, c) == Present(metric, "a") \cap Present(metric, "b")

Series(metric, c) ==
  LET ks == InOrder(Kept(metric, c)) IN [i \in DOMAIN ks |-> ValueAt(metric, c, ks[i])]
Diffs(metric) ==
  LET xs == Series(metric, "a")  ys == Series(metric, "b") IN
  [i \in DOMAIN xs \cap DOMAIN ys |-> xs[i] - ys[i]]

(***************************************************************************)
(* bootstrap_block_length and batch_means_ci: `tau2' is twice the          *)
(* integrated autocorrelation time, rounded up.                            *)
(***************************************************************************)
Block == 10
Taus == 2 .. 78
BlockLength(n, tau2) == Min({Max({Block, tau2}), Max({Block, n \div 4})})

Batches(n, tau2) ==
  IF n < 2 * Block \/ n \div BlockLength(n, tau2) < 3 THEN 0 ELSE n \div BlockLength(n, tau2)

(***************************************************************************)
(* Properties.                                                             *)
(***************************************************************************)
\* _pairs subtracts only values of the same second: the differences are those
\* of the seconds in which both cells have the metric, and nothing else.
PairsAlign ==
  \A metric \in Metrics :
    LET both == Present(metric, "a") \cap Present(metric, "b") IN
    Diffs(metric) = [i \in 1 .. Cardinality(both) |->
      ValueAt(metric, "a", InOrder(both)[i]) - ValueAt(metric, "b", InOrder(both)[i])]

\* The lanes and the comparison tell the same story: the mean difference of
\* the rates is the difference of the two lanes' rates.
LanesAgree ==
  LET diffs == Diffs("rate") IN
  /\ Lane("a").received - Lane("b").received = MapThenSumSet(LAMBDA i : diffs[i], DOMAIN diffs)
  /\ Lane("a").segments = Len(diffs)

\* A row may land in the neighbouring second (a 1 s report straddles
\* segments): a run whose UEs have a good row in each two adjacent seconds
\* has no invalid second, at its ends either.
MostlyServed(c) ==
  /\ \A k \in Filed : Of(k, c).slots /\ Of(k, c).gnb # "failed" /\ Of(k, c).ue # "out"
  /\ \A k \in Filed : k + 1 \in Filed =>
       /\ "ok" \in {Of(k, c).gnb, Of(k + 1, c).gnb}
       /\ "in" \in {Of(k, c).ue, Of(k + 1, c).ue}
StraddleTolerated ==
  Len(seconds) > 1 /\ MostlyServed("a") /\ MostlyServed("b") => ValidSeconds = Filed

\* A run of thirty valid seconds or more always has an interval, from at least
\* three batches that leave out less than a third of it, however long the
\* autocorrelation ("so there are always several blocks to resample").
BatchesEnough ==
  Len(seconds) = 1 =>
  \A n \in 30 .. MaxSegments, tau2 \in Taus :
    /\ Batches(n, tau2) >= 3
    /\ 3 * (n - Batches(n, tau2) * BlockLength(n, tau2)) < n

\* The report compares like with like, second by second, and gives an interval
\* whenever the run is long enough (analyze.py's lanes, pairs and batches).
ReportSound == PairsAlign /\ LanesAgree /\ StraddleTolerated /\ BatchesEnough
-----------------------------------------------------------------------------
(***************************************************************************)
(* The scheduler's log of one cell: a line carries the system frame number *)
(* and the slot, which wrap, so CellSched.abs_slot continues the count     *)
(* over the wraps and puts a late line back where it belongs; _track_gaps  *)
(* measures from each downlink newTx grant of a UE that left data waiting  *)
(* to its next one.  The log is seen one line at a time: how the file is   *)
(* cut into reads makes no difference here (BenchmarkRun has the reader).  *)
(***************************************************************************)
CONSTANTS
    Modulus,      \* SLOT_MODULUS, an even number of slots
    MaxLate,      \* how far behind the newest line a line may come
    MaxGap,       \* how far ahead of it
    MaxSlot       \* bound of the model

ASSUME SchedAssumption ==
    /\ {Modulus, MaxLate, MaxGap, MaxSlot} \subseteq Nat
    /\ MaxGap > 0
    /\ 2 * (MaxLate + MaxGap) < Modulus

VARIABLES
    newest,       \* the newest slot logged, -1 before the first line
    logged,       \* history: the slots logged that another line may not repeat
    late,         \* history: has a line come out of order?
    line,         \* the last line: its true slot and the number it was given
    unwrap,       \* slot_unwrap_last (-1 for None) and slot_unwrap_base
    lastNewtx,    \* last_dl_newtx of the UE: slot (-1 for None), left data
    wait,         \* what the last line added to dl_wait_ms, in slots, or None
    latest,       \* history: the newTx grant of the highest slot so far
    due           \* history: what the last line should have added

schedVars == <<newest, logged, late, line, unwrap, lastNewtx, wait, latest, due>>

None == -1
NoGrant == [slot |-> -1, left |-> FALSE]

SchedInit ==
    /\ newest = -1 /\ logged = {} /\ late = FALSE
    /\ line = [slot |-> 0, abs |-> 0]
    /\ unwrap = [last |-> -1, base |-> 0]
    /\ lastNewtx = NoGrant /\ latest = NoGrant
    /\ wait = None /\ due = None

\* The slots the next line may be about: the first within one lap.
Possible ==
    IF newest = -1 THEN 0 .. Modulus - 1
    ELSE ((newest - MaxLate .. newest + MaxGap) \cap (0 .. MaxSlot)) \ logged

Wrapped(raw) == unwrap.last # -1 /\ raw < unwrap.last - Modulus \div 2

BeforeWrap(raw) == unwrap.last # -1 /\ raw > unwrap.last + Modulus \div 2

\* CellSched.abs_slot: the new unwrap state and the number given.
AbsSlot(raw) ==
    LET base == unwrap.base + IF Wrapped(raw) THEN Modulus ELSE 0
    IN  IF BeforeWrap(raw)
        THEN [state |-> unwrap, abs |-> raw + unwrap.base - Modulus]
        ELSE [state |-> [last |-> raw, base |-> base], abs |-> raw + base]

\* _track_gaps for the UE, on a line with a newTx grant to it: `left` says
\* whether the grant left data waiting.
Waited(abs) ==
    IF lastNewtx # NoGrant /\ lastNewtx.left /\ abs >= lastNewtx.slot
    THEN abs - lastNewtx.slot ELSE None

TrackGaps(abs, left) ==
    /\ wait' = Waited(abs)
    /\ lastNewtx' = [slot |-> abs, left |-> left]

\* One "Slot decisions" line, with or without a newTx grant to the UE.
SlotLine ==
    \E t \in Possible :
       LET a == AbsSlot(t % Modulus)
           top == IF t > newest THEN t ELSE newest
       IN  /\ logged' = {u \in logged \cup {t} : u >= top - MaxLate}
           /\ late' = (late \/ t < newest)
           /\ newest' = top
           /\ line' = [slot |-> t, abs |-> a.abs]
           /\ unwrap' = a.state
           /\ \/ wait' = None /\ due' = None /\ UNCHANGED <<lastNewtx, latest>>
              \/ \E left \in BOOLEAN :
                    /\ TrackGaps(a.abs, left)
                    /\ due' = IF latest.left THEN t - latest.slot ELSE None
                    /\ latest' = IF t > latest.slot
                                 THEN [slot |-> t, left |-> left] ELSE latest

SchedNext == SlotLine
SchedSpec == SchedInit /\ [][SchedNext]_schedVars

-----------------------------------------------------------------------------
\* The number abs_slot gives a line is the slot it is about, over any number of
\* wraps and with lines that come late, as long as no line is half a modulus from
\* the last one: neither a wrap is missed nor one counted twice for a late line.
UnwrapExact == line.abs = line.slot

\* While the log is in order, the wait a grant adds is the distance from the
\* UE's last newTx grant, if and only if that one left data waiting: none spans
\* another grant, none is measured from a grant that emptied the queue.
WaitsExact == ~late => wait = due
=============================================================================
