--------------------------- MODULE MatrixCapture ---------------------------
(***************************************************************************)
(* verify-mimo-matrix-capture.py: what left the broker is held against the *)
(* declared matrix times what entered it.  Node A transmits on two ports   *)
(* to node B's two rows; a second node C may transmit to B as well.  The   *)
(* relay under test may be right or wrong in one of the ways the verifier  *)
(* exists for; the verifier sees the topology, the broker's manifest and   *)
(* the captured columns and rows.                                          *)
(*                                                                         *)
(* Abstracted: a sample is a pair of small integers, a coefficient a small *)
(* integer, and comparisons are exact where the code allows a tolerance.   *)
(***************************************************************************)
EXTENDS Integers, FiniteSets, FiniteSetsExt

CONSTANTS
  Entries,     \* the coefficients of a matrix
  Length,      \* samples captured
  Floor        \* 1/Floor of a row's amplitude must come from other ports

VARIABLES
  relay,       \* what the relay does
  declared,    \* [A |-> 2x2, C |-> 2x1]: the matrices of the topology
  linked,      \* the sources that have a link to B
  signal,      \* what the radios send
  silent,      \* --allow-silent-source: ports of A that may be silent
  carrier,     \* the tap under the matrix is an identity
  skip,        \* samples before the capture starts
  captured       \* the verdict: "none", "passed" or "failed"
captureVars == <<relay, declared, linked, signal, silent, carrier, skip, captured>>

Relays == {"right", "lanes", "crossed", "deaf", "shifted", "misplaced"}
Rows == {1, 2}
Columns(node) == IF node = "A" THEN {1, 2} ELSE {1}
Samples == 0 .. Length - 1

(***************************************************************************)
(* The radios, the relay and its capture.                                  *)
(***************************************************************************)
Zero == <<0, 0>>
Add(x, y) == <<x[1] + y[1], x[2] + y[2]>>
Scale(h, x) == <<h * x[1], h * x[2]>>
Total(S, f(_)) == FoldSet(LAMBDA i, acc : Add(f(i), acc), Zero, S)

\* the peer's marker: a closed form of the port and the ordinal
Marker(t, n) == <<IF t = 1 THEN 1 + n ELSE -(1 + n), -1>>

SentBy(node, t, n) ==
  CASE node = "A" /\ (signal = "quiet" => t = 1) -> Marker(t, n)
    [] node = "A" /\ signal = "quiet" /\ t # 1 -> Zero
    [] node = "C" -> <<1, n>>

\* the ring of A's second port starts at another origin
Ordinal(node, t, n) == IF relay = "shifted" /\ node = "A" /\ t = 2 THEN n + 1 ELSE n
Column(node, t, n) == SentBy(node, t, Ordinal(node, t, n + skip))

Applied(node, r, t) ==
  CASE relay = "lanes" /\ node = "A" /\ r # t -> 0
    [] relay = "deaf" /\ node = "C" -> 0
    [] relay = "crossed" /\ node = "A" -> declared.A[r][3 - t]
    [] OTHER -> declared[node][r][t]

Row(r, n) ==
  Total(linked, LAMBDA node : Total(Columns(node), LAMBDA t : Scale(Applied(node, r, t), Column(node, t, n))))

(***************************************************************************)
(* The verifier.                                                           *)
(***************************************************************************)
\* the broker resolved the ports as the topology lists them
PortsAgree == relay # "misplaced"

Ordinals(n) == n + skip

Marked == IF signal = "quiet" THEN {1} ELSE {1, 2}

MarkerFits == \A t \in Marked, n \in Samples : Column("A", t, n) = Marker(t, Ordinals(n))

Declared(node) == carrier = "identity"

Term(node, r, n) ==
  Total(Columns(node), LAMBDA t : Scale(declared[node][r][t], Column(node, t, n)))
Expected(r, n) == Total(linked, LAMBDA node : Term(node, r, n))
Power(f(_)) == FoldSet(LAMBDA n, acc : f(n)[1] * f(n)[1] + f(n)[2] * f(n)[2] + acc, 0, Samples)

RowsMatch == \A r \in Rows, n \in Samples : Row(r, n) = Expected(r, n)

SourcesLive ==
  \A t \in {1, 2} \ silent : Power(LAMBDA n : Column("A", t, n)) > 0

Carried(r, t) == Power(LAMBDA n : Scale(declared.A[r][t], Column("A", t, n)))

CrossShares ==
  Cardinality({1, 2} \ silent) > 1 =>
    \A r \in Rows :
      LET all == Power(LAMBDA n : Expected(r, n)) IN
      all > 0 => Carried(r, 3 - r) * Floor * Floor >= all

LinkFits == SourcesLive /\ RowsMatch /\ CrossShares

SuperposedFits ==
  /\ RowsMatch
  /\ \A node \in linked, r \in Rows :
       Power(LAMBDA n : Term(node, r, n)) > 0 =>
         \E n \in Samples : Row(r, n) # Add(Expected(r, n), Scale(-1, Term(node, r, n)))

Passes ==
  /\ PortsAgree
  /\ MarkerFits
  /\ \A node \in linked : Declared(node)
  /\ IF linked = {"A"} THEN LinkFits ELSE SuperposedFits

CaptureInit ==
  /\ relay \in Relays
  /\ declared \in [A : [Rows -> [{1, 2} -> Entries]], C : [Rows -> [{1} -> Entries]]]
  /\ linked \in {{"A"}, {"A", "C"}}
  /\ signal \in {"live", "quiet"}
  /\ silent \in {{}, {2}}
  /\ carrier \in {"identity", "delayed"}
  /\ skip \in {0, 2}
  /\ captured = "none"

JudgeCapture ==
  /\ captured = "none"
  /\ captured' = IF Passes THEN "passed" ELSE "failed"
  /\ UNCHANGED <<relay, declared, linked, signal, silent, carrier, skip>>

CaptureSpec == CaptureInit /\ [][JudgeCapture]_captureVars

(***************************************************************************)
(* Properties.                                                             *)
(***************************************************************************)
\* The rows of a run that passed are the declared matrices times what the
\* radios sent at the same ordinal: a relay that crosses columns, forgets a
\* source or reads a sibling column from another origin does not pass, even
\* where its own capture is consistent with its rows.
Owed(r, n) ==
  Total(linked, LAMBDA node :
    Total(Columns(node), LAMBDA t : Scale(declared[node][r][t], SentBy(node, t, n + skip))))
RowsAreTheProduct ==
  captured = "passed" => \A r \in Rows, n \in Samples : Row(r, n) = Owed(r, n)

\* With one source whose ports are both live, no row of a run that passed is
\* what independent per-port lanes would have given.
DependsOnBoth ==
  captured = "passed" /\ linked = {"A"} /\ silent = {} =>
    \A r \in Rows :
      (\E n \in Samples : Row(r, n) # Zero) =>
        \E n \in Samples : Row(r, n) # Scale(declared.A[r][r], Column("A", r, n))

\* A right relay passes, whatever the capture skipped, when the declared
\* matrix is dense and every port is live or declared silent.
Dense == \A r \in Rows : \A t \in {1, 2} : declared.A[r][t] # 0
RightRelayPasses ==
  captured # "none" /\ relay = "right" /\ carrier = "identity" /\ Dense
    /\ (signal = "quiet" => silent = {2}) => captured = "passed"
=============================================================================
