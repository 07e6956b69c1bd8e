--------------------------- MODULE TransportGate ---------------------------
(***************************************************************************)
(* The end of a two-port transport run and the counters it is judged by.   *)
(* The synthetic peer (apps/ocudu_mimo_transport_peer.cpp) asks the broker *)
(* for a window on both receive ports, waits for both answers and counts a *)
(* group; its two transmit threads answer the broker's pullers.  The       *)
(* script stops the broker, then the peer, and                             *)
(* validate-mimo-2port-transport.py compares the counters of both sides.   *)
(*                                                                         *)
(* Abstracted: a window and a transmit chunk are one unit; hashes, endpoint *)
(* tables and versions are the set "faults" of what is wrong with a run.   *)
(***************************************************************************)
EXTENDS Integers, FiniteSets, TLAPS

CONSTANTS
  Depth,       \* chunks a transmit ring holds
  MaxWindows   \* bound on the windows a run publishes

Ports == {1, 2}
Sum(f) == f[1] + f[2]
Distance(f) == IF f[1] > f[2] THEN f[1] - f[2] ELSE f[2] - f[1]

VARIABLES
  faults,      \* what else is wrong with the run's artifacts
  windows,     \* windows the producer of the peer's node has published
  rep,         \* the REP worker of a receive port: "idle", "row", "send" or "stopped"
  serves,      \* its count of replies
  asked,       \* requests on their way to it
  answered,    \* replies on their way to the peer
  peerAt,      \* the peer's receive thread: "first", "second", "await" or "stopped"
  awaiting,    \* the ports it still waits for
  took,        \* replies it received, per port
  groups,      \* [completed, partial, outstanding]
  puller,      \* the puller of a transmit port: "idle", "asked", "held" or "stopped"
  chunk,       \* where its request is: "none", "request", "reply"
  pulls,       \* chunks it pushed into its ring
  replies,     \* chunks the peer sent
  stopped,     \* who was told to stop
  judged
transportVars == <<faults, windows, rep, serves, asked, answered, peerAt, awaiting, took,
                   groups, puller, chunk, pulls, replies, stopped, judged>>
brokerVars == <<windows, rep, serves, puller, pulls>>
peerVars == <<peerAt, awaiting, took, groups>>

Faults == {"evidence", "fixture", "endpoints", "log", "self test", "matrix", "slow slot"}

TransportInit ==
  /\ faults = {}
  /\ windows = 0
  /\ rep = [p \in Ports |-> "idle"]
  /\ serves = [p \in Ports |-> 0]
  /\ asked = {}
  /\ answered = {}
  /\ peerAt = "first"
  /\ awaiting = {}
  /\ took = [p \in Ports |-> 0]
  /\ groups = [completed |-> 0, partial |-> 0, outstanding |-> 0]
  /\ puller = [p \in Ports |-> "idle"]
  /\ chunk = [p \in Ports |-> "none"]
  /\ pulls = [p \in Ports |-> 0]
  /\ replies = [p \in Ports |-> 0]
  /\ stopped = {}
  /\ judged = "none"

(***************************************************************************)
(* The broker's side.                                                      *)
(***************************************************************************)
\* the producer takes one chunk of each transmit port and publishes a window on both rows
Publish ==
  /\ "broker" \notin stopped
  /\ windows < MaxWindows
  /\ \A p \in Ports : pulls[p] > windows
  /\ windows' = windows + 1
  /\ UNCHANGED <<faults, rep, serves, asked, answered, peerVars, puller, chunk, pulls, replies, stopped, judged>>

AcceptRequest(p) ==
  /\ rep[p] = "idle"
  /\ "broker" \notin stopped
  /\ p \in asked
  /\ asked' = asked \ {p}
  /\ rep' = [rep EXCEPT ![p] = "row"]
  /\ UNCHANGED <<faults, windows, serves, answered, peerVars, puller, chunk, pulls, replies, stopped, judged>>

TakeRow(p) ==
  /\ rep[p] = "row"
  /\ "broker" \notin stopped
  /\ windows > serves[p]
  /\ rep' = [rep EXCEPT ![p] = "send"]
  /\ UNCHANGED <<faults, windows, serves, asked, answered, peerVars, puller, chunk, pulls, replies, stopped, judged>>

\* a stop ends the send loop, and the reply is counted all the same
SendReply(p) ==
  /\ rep[p] = "send"
  /\ answered' = IF "broker" \in stopped THEN answered ELSE answered \cup {p}
  /\ serves' = [serves EXCEPT ![p] = @ + 1]
  /\ rep' = [rep EXCEPT ![p] = "idle"]
  /\ UNCHANGED <<faults, windows, asked, peerVars, puller, chunk, pulls, replies, stopped, judged>>

RepStops(p) ==
  /\ "broker" \in stopped
  /\ rep[p] \in {"idle", "row"}
  /\ rep' = [rep EXCEPT ![p] = "stopped"]
  /\ UNCHANGED <<faults, windows, serves, asked, answered, peerVars, puller, chunk, pulls, replies, stopped, judged>>

Room(p) == pulls[p] - windows < Depth

AskChunk(p) ==
  /\ puller[p] = "idle"
  /\ "broker" \notin stopped
  /\ pulls[p] < MaxWindows
  /\ Room(p)
  /\ puller' = [puller EXCEPT ![p] = "asked"]
  /\ chunk' = [chunk EXCEPT ![p] = "request"]
  /\ UNCHANGED <<faults, windows, rep, serves, asked, answered, peerVars, pulls, replies, stopped, judged>>

ReceiveChunk(p) ==
  /\ puller[p] = "asked"
  /\ chunk[p] = "reply"
  /\ "broker" \notin stopped
  /\ puller' = [puller EXCEPT ![p] = "held"]
  /\ chunk' = [chunk EXCEPT ![p] = "none"]
  /\ UNCHANGED <<faults, windows, rep, serves, asked, answered, peerVars, pulls, replies, stopped, judged>>

\* a chunk counts once it is in the ring
Counted(n) == n + 1

PushChunk(p) ==
  /\ puller[p] = "held"
  /\ puller' = [puller EXCEPT ![p] = "idle"]
  /\ pulls' = [pulls EXCEPT ![p] = Counted(@)]
  /\ UNCHANGED <<faults, windows, rep, serves, asked, answered, peerVars, chunk, replies, stopped, judged>>

PullerStops(p) ==
  /\ "broker" \in stopped
  /\ puller[p] # "stopped"
  /\ puller' = [puller EXCEPT ![p] = "stopped"]
  /\ UNCHANGED <<faults, windows, rep, serves, asked, answered, peerVars, chunk, pulls, replies, stopped, judged>>

(***************************************************************************)
(* The peer's side.                                                        *)
(***************************************************************************)
\* port 2 is asked at once, port 1 after its offset
AskFirst ==
  /\ peerAt = "first"
  /\ "peer" \notin stopped
  /\ asked' = asked \cup {2}
  /\ peerAt' = "second"
  /\ UNCHANGED <<faults, brokerVars, answered, awaiting, took, groups, chunk, replies, stopped, judged>>

AskSecond ==
  /\ peerAt = "second"
  /\ "peer" \notin stopped
  /\ asked' = asked \cup {1}
  /\ awaiting' = Ports
  /\ peerAt' = "await"
  /\ UNCHANGED <<faults, brokerVars, answered, took, groups, chunk, replies, stopped, judged>>

\* A plausible slip: the next group starts with the first answer.
GroupOver(left) == left # Ports
GroupDone(left) == left = {}

TakeAnswer(p) ==
  /\ peerAt = "await"
  /\ p \in awaiting \cap answered
  /\ answered' = answered \ {p}
  /\ awaiting' = awaiting \ {p}
  /\ took' = [took EXCEPT ![p] = @ + 1]
  /\ IF GroupDone(awaiting')
     THEN groups' = [groups EXCEPT !.completed = @ + 1] /\ peerAt' = "first"
     ELSE UNCHANGED <<groups, peerAt>>
  /\ UNCHANGED <<faults, brokerVars, asked, chunk, replies, stopped, judged>>

PeerStops ==
  /\ "peer" \in stopped
  /\ peerAt # "stopped"
  /\ groups' =
       IF peerAt = "await" /\ awaiting # Ports THEN [groups EXCEPT !.partial = @ + 1]
       ELSE IF peerAt \in {"second", "await"} THEN [groups EXCEPT !.outstanding = @ + 1]
       ELSE groups
  /\ peerAt' = "stopped"
  /\ UNCHANGED <<faults, brokerVars, asked, answered, awaiting, took, chunk, replies, stopped, judged>>

SendChunk(p) ==
  /\ chunk[p] = "request"
  /\ "peer" \notin stopped
  /\ chunk' = [chunk EXCEPT ![p] = "reply"]
  /\ replies' = [replies EXCEPT ![p] = @ + 1]
  /\ UNCHANGED <<faults, brokerVars, asked, answered, peerVars, stopped, judged>>

(***************************************************************************)
(* The script stops the broker, waits for it, and stops the peer.          *)
(***************************************************************************)
BrokerGone == \A p \in Ports : rep[p] = "stopped" /\ puller[p] = "stopped"

StopBroker ==
  /\ "broker" \notin stopped
  /\ stopped' = {"broker"}
  /\ UNCHANGED <<faults, brokerVars, asked, answered, peerVars, chunk, replies, judged>>

StopPeer ==
  /\ BrokerGone
  /\ "peer" \notin stopped
  /\ stopped' = {"broker", "peer"}
  /\ UNCHANGED <<faults, brokerVars, asked, answered, peerVars, chunk, replies, judged>>

(***************************************************************************)
(* The gate: every check adds its errors, none ends it.                    *)
(***************************************************************************)
EvidenceErrors == faults \cap {"evidence"}
FixtureErrors == faults \cap {"fixture"}
EndpointErrors == faults \cap {"endpoints"}
LogErrors == faults \cap {"log"}

\* every port did something, and siblings were served alike but for one reply
CounterErrors ==
  {"no pulls" : p \in {p \in Ports : pulls[p] = 0}}
    \cup {"no serves" : p \in {p \in Ports : serves[p] = 0}}
    \cup (IF Distance(serves) <= 1 THEN {} ELSE {"siblings drifted"})

PeerErrors ==
  (IF \A p \in Ports : took[p] = groups.completed THEN {} ELSE {"group accounting"})
    \cup (IF groups.completed > 0 THEN {} ELSE {"no group"})
    \cup (IF groups.partial = 0 THEN {} ELSE {"partial group"})
    \cup (IF groups.outstanding <= 1 THEN {} ELSE {"outstanding groups"})

PullAllowance == \A p \in Ports : replies[p] - pulls[p] \in 0..1

CrossErrors ==
  (IF groups.completed = serves[1] THEN {} ELSE {"groups and serves"})
    \cup (IF PullAllowance THEN {} ELSE {"replies and pulls"})

SelfTestErrors == faults \cap {"self test"}
MatrixErrors == faults \cap {"matrix"}
BudgetErrors == faults \cap {"slow slot"}

Errors ==
  EvidenceErrors \cup FixtureErrors \cup EndpointErrors \cup LogErrors \cup CounterErrors
    \cup PeerErrors \cup CrossErrors \cup SelfTestErrors \cup MatrixErrors \cup BudgetErrors

Judge ==
  /\ peerAt = "stopped"
  /\ judged = "none"
  /\ faults' \in {{}} \cup {{f} : f \in Faults}
  /\ UNCHANGED <<brokerVars, asked, answered, peerVars, chunk, replies, stopped>>
  /\ judged' = IF Errors' = {} THEN "passed" ELSE "failed"

TransportNext ==
  \/ Publish
  \/ \E p \in Ports :
       \/ AcceptRequest(p) \/ TakeRow(p) \/ SendReply(p) \/ RepStops(p)
       \/ AskChunk(p) \/ ReceiveChunk(p) \/ PushChunk(p) \/ PullerStops(p)
       \/ TakeAnswer(p) \/ SendChunk(p)
  \/ AskFirst \/ AskSecond \/ PeerStops
  \/ StopBroker \/ StopPeer \/ Judge
TransportSpec == TransportInit /\ [][TransportNext]_transportVars

(***************************************************************************)
(* Properties.                                                             *)
(***************************************************************************)
\* The two REP workers of one radio never separate by more than one reply, at
\* any moment and whatever the stop cuts off: the peer asks for the next window
\* of either port only after both answers came
\* (validate-mimo-2port-transport.py: one reply is the structural bound).
SiblingsWithinOne == Distance(serves) <= 1

\* Whenever both sides have stopped, the peer's replies are at most one ahead of
\* the broker's pulls on each port and never behind, so the shutdown allowance
\* of the gate is exactly what a stop can leave behind.
ShutdownAllowance ==
  BrokerGone /\ peerAt = "stopped" => \A p \in Ports : replies[p] - pulls[p] \in 0..1

\* A run that nothing is wrong with, and whose last group was answered on both
\* ports or on neither when the broker stopped, passes the gate.
Whole == took[1] = took[2] /\ serves = took
CleanStopPasses ==
  judged # "none" /\ faults = {} /\ Whole /\ groups.completed > 0 => judged = "passed"

\* What the validator says of a stop: "a snapshot taken at shutdown can
\* legitimately catch one sibling a single reply ahead"
\* (validate-mimo-2port-transport.py:354-356), so such a run passes.
OneReplyAheadPasses ==
  judged # "none" /\ faults = {} /\ groups.completed > 0 /\ Distance(serves) <= 1 =>
    judged = "passed"

\* What the two-port gate asks of a run is what a stop can leave behind: no more
\* skew, no more than one reply ahead, and no clean stop is refused.
StopAllowedFor == SiblingsWithinOne /\ ShutdownAllowance /\ CleanStopPasses

(***************************************************************************)
(* What makes it inductive: where the request of a receive port is within  *)
(* its group, and where the chunk of a transmit port is.                   *)
(***************************************************************************)
TransportTypes ==
  /\ windows \in Nat /\ stopped \in {{}, {"broker"}, {"broker", "peer"}}
  /\ rep \in [Ports -> {"idle", "row", "send", "stopped"}]
  /\ {serves, took, pulls, replies} \subseteq [Ports -> Nat]
  /\ asked \subseteq Ports /\ answered \subseteq Ports /\ awaiting \subseteq Ports
  /\ peerAt \in {"first", "second", "await", "stopped"}
  /\ groups \in [completed : Nat, partial : 0 .. 1, outstanding : 0 .. 1]
  /\ puller \in [Ports -> {"idle", "asked", "held", "stopped"}]
  /\ chunk \in [Ports -> {"none", "request", "reply"}]

\* The peer waits for this port in its current group, or has asked it first.
Outstanding(p) == p \in awaiting \/ (p = 2 /\ awaiting = {} /\ peerAt \in {"second", "stopped"})

\* A request is on its way, in the worker's hands, answered, or lost in a stop.
RequestPlaced(p) ==
  /\ took[p] = groups.completed + (IF awaiting # {} /\ p \notin awaiting THEN 1 ELSE 0)
  /\ serves[p] - took[p] \in 0 .. 1
  /\ p \in answered => serves[p] = took[p] + 1
  /\ rep[p] \in {"row", "send"} => p \notin asked \cup answered
  /\ rep[p] \in {"row", "send"} \/ p \in asked => serves[p] = took[p]
  /\ ~Outstanding(p) => /\ serves[p] = took[p] /\ p \notin asked \cup answered
                        /\ rep[p] \notin {"row", "send"}
  /\ serves[p] + (IF rep[p] = "send" THEN 1 ELSE 0) <= windows

\* A chunk the peer has sent is counted by the broker, or is the one on its way.
ChunkPlaced(p) ==
  /\ windows <= pulls[p] /\ replies[p] - pulls[p] \in 0 .. 1
  /\ puller[p] = "idle" \/ chunk[p] = "request" => replies[p] = pulls[p]
  /\ puller[p] = "held" \/ (puller[p] = "asked" /\ chunk[p] = "reply") => replies[p] = pulls[p] + 1
  /\ puller[p] \in {"idle", "held"} => chunk[p] = "none"

PeerCounts ==
  /\ peerAt \in {"first", "second"} => awaiting = {}
  /\ peerAt = "await" => awaiting # {}
  /\ peerAt # "stopped" => groups.outstanding = 0
  /\ groups.partial = (IF peerAt = "stopped" /\ awaiting \notin {{}, Ports} THEN 1 ELSE 0)

StopOrder ==
  /\ "peer" \in stopped => BrokerGone
  /\ peerAt = "stopped" => "peer" \in stopped
  /\ judged # "none" => peerAt = "stopped"

TransportInv ==
  /\ TransportTypes /\ PeerCounts /\ StopOrder /\ CleanStopPasses
  /\ \A p \in Ports : RequestPlaced(p) /\ ChunkPlaced(p)

\* The part of it that the gate's counters rest on.
RunPlaced ==
  TransportTypes /\ PeerCounts /\ \A p \in Ports : RequestPlaced(p) /\ ChunkPlaced(p)

(***************************************************************************)
(* Proofs, for every depth of the rings and every number of windows.       *)
(***************************************************************************)
LEMMA TransportInitInv == TransportInit => TransportInv
  <1> SUFFICES ASSUME TransportInit PROVE TransportInv
    OBVIOUS
  <1>1. TransportTypes
    BY DEF TransportInit, TransportTypes, Ports
  <1>2. PeerCounts /\ StopOrder /\ CleanStopPasses
    BY DEF TransportInit, PeerCounts, StopOrder, CleanStopPasses
  <1>3. \A p \in Ports : RequestPlaced(p) /\ ChunkPlaced(p)
    BY DEF TransportInit, RequestPlaced, ChunkPlaced, Outstanding
  <1>4. QED
    BY <1>1, <1>2, <1>3 DEF TransportInv

\* What the gate asks follows from where requests and chunks are.
LEMMA SiblingsClose == TransportInv => SiblingsWithinOne
  <1> SUFFICES ASSUME TransportInv PROVE SiblingsWithinOne
    OBVIOUS
  <1>1. RequestPlaced(1) /\ RequestPlaced(2)
    BY DEF TransportInv, Ports
  <1>2. /\ groups.completed \in Nat /\ serves[1] \in Nat /\ serves[2] \in Nat
        /\ took[1] \in Nat /\ took[2] \in Nat /\ awaiting \subseteq {1, 2}
    BY DEF TransportInv, TransportTypes, Ports
  <1>3. CASE awaiting = {}
    BY <1>1, <1>2, <1>3 DEF RequestPlaced, Outstanding, SiblingsWithinOne, Distance
  <1>4. CASE 1 \in awaiting /\ 2 \in awaiting
    BY <1>1, <1>2, <1>4 DEF RequestPlaced, SiblingsWithinOne, Distance
  <1>5. CASE 1 \in awaiting /\ 2 \notin awaiting
    BY <1>1, <1>2, <1>5 DEF RequestPlaced, Outstanding, SiblingsWithinOne, Distance
  <1>6. CASE 1 \notin awaiting /\ 2 \in awaiting
    <2>1. awaiting # {} /\ ~Outstanding(1)
      BY <1>6 DEF Outstanding
    <2>2. took[1] = groups.completed + 1 /\ serves[1] = took[1]
      BY <1>1, <1>6, <2>1 DEF RequestPlaced
    <2>3. took[2] = groups.completed /\ serves[2] - took[2] \in 0 .. 1
      BY <1>1, <1>2, <1>6 DEF RequestPlaced
    <2>4. QED
      BY <1>2, <2>2, <2>3 DEF SiblingsWithinOne, Distance
  <1>7. QED
    BY <1>2, <1>3, <1>4, <1>5, <1>6

LEMMA StopSafe == TransportInv => StopAllowedFor
  BY SiblingsClose DEF TransportInv, StopAllowedFor, ShutdownAllowance, ChunkPlaced

\* Once the gate has judged, everything has stopped.
LEMMA JudgedStands ==
  ASSUME TransportInv, judged # "none"
  PROVE  /\ "broker" \in stopped /\ "peer" \in stopped /\ peerAt = "stopped"
         /\ \A p \in Ports : rep[p] = "stopped" /\ puller[p] = "stopped"
  BY DEF TransportInv, TransportTypes, StopOrder, BrokerGone

\* A step before the verdict that leaves requests, or chunks, where they are.
LEMMA RequestsStay ==
  ASSUME TransportInv, windows' \in Nat, windows <= windows',
         UNCHANGED << took, groups, awaiting, serves, rep, asked, answered, peerAt >>
  PROVE  (\A p \in Ports : RequestPlaced(p)') /\ PeerCounts'
  <1>1. windows \in Nat /\ serves \in [Ports -> Nat]
    BY DEF TransportInv, TransportTypes
  <1>2. ASSUME NEW p \in Ports PROVE RequestPlaced(p)'
    <2>1. RequestPlaced(p) /\ serves[p] \in Nat
      BY <1>1 DEF TransportInv
    <2>2. Outstanding(p)' <=> Outstanding(p)
      BY DEF Outstanding
    <2>3. (serves[p] + (IF rep[p] = "send" THEN 1 ELSE 0) <= windows)'
      BY <1>1, <2>1 DEF RequestPlaced
    <2>4. QED
      BY <2>1, <2>2, <2>3 DEF RequestPlaced
  <1>3. PeerCounts'
    BY DEF TransportInv, PeerCounts
  <1>4. QED
    BY <1>2, <1>3

LEMMA ChunksStay ==
  ASSUME TransportInv, UNCHANGED << windows, pulls, replies, puller, chunk >>
  PROVE  \A p \in Ports : ChunkPlaced(p)'
  BY DEF TransportInv, ChunkPlaced

LEMMA StillUnjudged ==
  ASSUME judged = "none", judged' = judged
  PROVE  CleanStopPasses'
  BY DEF CleanStopPasses

LEMMA PublishStep == ASSUME TransportInv, Publish PROVE TransportInv'
  <1>1. /\ "broker" \notin stopped /\ windows' = windows + 1 /\ \A p \in Ports : pulls[p] > windows
        /\ UNCHANGED << rep, serves, asked, answered, peerAt, awaiting, took, groups,
                        puller, chunk, pulls, replies, stopped, judged >>
    BY DEF Publish, peerVars
  <1>2. windows \in Nat /\ TransportTypes'
    BY <1>1 DEF TransportInv, TransportTypes
  <1>3. judged = "none"
    BY <1>1, JudgedStands
  <1>4. CleanStopPasses'
    BY <1>1, <1>3, StillUnjudged
  <1>5. StopOrder'
    BY <1>1 DEF TransportInv, StopOrder, BrokerGone
  <1>6. (\A p \in Ports : RequestPlaced(p)') /\ PeerCounts'
    <2>1. windows' \in Nat /\ windows <= windows'
      BY <1>1, <1>2
    <2>2. QED
      BY <1>1, <2>1, RequestsStay
  <1>7. ASSUME NEW p \in Ports PROVE ChunkPlaced(p)'
    <2>1. ChunkPlaced(p) /\ pulls[p] \in Nat
      BY DEF TransportInv, TransportTypes
    <2>2. windows' <= pulls'[p]
      BY <1>1, <1>2, <2>1
    <2>3. QED
      BY <1>1, <2>1, <2>2 DEF ChunkPlaced
  <1>8. QED
    BY <1>2, <1>4, <1>5, <1>6, <1>7 DEF TransportInv

\* The four steps of a REP worker.
LEMMA RepStep ==
  ASSUME TransportInv, NEW p \in Ports,
         AcceptRequest(p) \/ TakeRow(p) \/ SendReply(p) \/ RepStops(p)
  PROVE  TransportInv'
  <1>1. UNCHANGED << windows, peerAt, awaiting, took, groups, puller, chunk, pulls, replies,
                     stopped, judged >>
    BY DEF AcceptRequest, TakeRow, SendReply, RepStops, peerVars
  <1>2. PICK at \in {"idle", "row", "send", "stopped"} :
          /\ rep' = [rep EXCEPT ![p] = at] /\ rep[p] # "stopped"
          /\ \/ /\ rep[p] = "idle" /\ p \in asked /\ asked' = asked \ {p} /\ at = "row"
                /\ answered' = answered /\ serves' = serves
             \/ /\ rep[p] = "row" /\ windows > serves[p] /\ at = "send"
                /\ asked' = asked /\ answered' = answered /\ serves' = serves
             \/ /\ rep[p] = "send" /\ at = "idle" /\ asked' = asked
                /\ answered' = answered \/ answered' = answered \cup {p}
                /\ serves' = [serves EXCEPT ![p] = @ + 1]
             \/ /\ at = "stopped" /\ rep[p] \in {"idle", "row"} /\ asked' = asked
                /\ answered' = answered /\ serves' = serves
    BY DEF AcceptRequest, TakeRow, SendReply, RepStops
  <1>3. /\ rep \in [Ports -> {"idle", "row", "send", "stopped"}] /\ serves \in [Ports -> Nat]
        /\ took \in [Ports -> Nat] /\ windows \in Nat
        /\ asked \subseteq Ports /\ answered \subseteq Ports
    BY DEF TransportInv, TransportTypes
  <1>4. /\ rep' \in [Ports -> {"idle", "row", "send", "stopped"}] /\ rep'[p] = at
        /\ \A q \in Ports \ {p} : rep'[q] = rep[q]
    BY <1>2, <1>3
  <1>5. serves' \in [Ports -> Nat] /\ \A q \in Ports \ {p} : serves'[q] = serves[q]
    BY <1>2, <1>3
  <1>6. asked' \subseteq Ports /\ answered' \subseteq Ports
        /\ \A q \in Ports \ {p} : (q \in asked' <=> q \in asked) /\ (q \in answered' <=> q \in answered)
    BY <1>2, <1>3
  <1>7. TransportTypes'
    BY <1>1, <1>4, <1>5, <1>6 DEF TransportInv, TransportTypes
  <1>8. judged = "none"
    BY <1>2, JudgedStands
  <1>9. CleanStopPasses'
    BY <1>1, <1>8, StillUnjudged
  <1>10. "peer" \notin stopped
    BY <1>2 DEF TransportInv, StopOrder, BrokerGone
  <1>11. StopOrder' /\ PeerCounts'
    BY <1>1, <1>10 DEF TransportInv, StopOrder, PeerCounts
  <1>12. \A q \in Ports : Outstanding(q)' <=> Outstanding(q)
    BY <1>1 DEF Outstanding
  <1>13. ASSUME NEW q \in Ports, q # p PROVE RequestPlaced(q)'
    <2>1. RequestPlaced(q)
      BY DEF TransportInv
    <2>2. QED
      BY <1>1, <1>4, <1>5, <1>6, <1>12, <1>13, <2>1 DEF RequestPlaced
  <1>14. RequestPlaced(p)'
    <2>1. RequestPlaced(p) /\ serves[p] \in Nat /\ took[p] \in Nat
      BY <1>3 DEF TransportInv
    <2>2. CASE /\ rep[p] = "idle" /\ p \in asked /\ asked' = asked \ {p} /\ at = "row"
               /\ answered' = answered /\ serves' = serves
      <3>1. serves[p] = took[p] /\ p \notin answered /\ Outstanding(p)
        BY <2>1, <2>2 DEF RequestPlaced
      <3>2. QED
        BY <1>1, <1>4, <1>12, <2>1, <2>2, <3>1 DEF RequestPlaced
    <2>3. CASE /\ rep[p] = "row" /\ windows > serves[p] /\ at = "send"
               /\ asked' = asked /\ answered' = answered /\ serves' = serves
      <3>1. serves[p] = took[p] /\ p \notin asked \cup answered /\ Outstanding(p)
            /\ serves[p] + 1 <= windows
        BY <1>3, <2>1, <2>3 DEF RequestPlaced
      <3>2. QED
        BY <1>1, <1>4, <1>12, <2>1, <2>3, <3>1 DEF RequestPlaced
    <2>4. CASE /\ rep[p] = "send" /\ at = "idle" /\ asked' = asked
               /\ answered' = answered \/ answered' = answered \cup {p}
               /\ serves' = [serves EXCEPT ![p] = @ + 1]
      <3>1. serves[p] = took[p] /\ p \notin asked \cup answered /\ Outstanding(p)
            /\ serves[p] + 1 <= windows
        BY <1>3, <2>1, <2>4 DEF RequestPlaced
      <3>2. serves'[p] = took[p] + 1
        BY <1>3, <2>4, <3>1
      <3>3. serves'[p] - took[p] \in 0 .. 1 /\ serves'[p] + 0 <= windows
        BY <1>3, <2>1, <3>1, <3>2
      <3>4. QED
        BY <1>1, <1>4, <1>12, <2>1, <2>4, <3>1, <3>2, <3>3 DEF RequestPlaced
    <2>5. CASE /\ at = "stopped" /\ rep[p] \in {"idle", "row"} /\ asked' = asked
               /\ answered' = answered /\ serves' = serves
      BY <1>1, <1>4, <1>12, <2>1, <2>5 DEF RequestPlaced
    <2>6. QED
      BY <1>2, <2>2, <2>3, <2>4, <2>5
  <1>15. \A q \in Ports : ChunkPlaced(q)'
    BY <1>1, ChunksStay
  <1>16. QED
    BY <1>7, <1>9, <1>11, <1>13, <1>14, <1>15 DEF TransportInv

\* The four steps of a puller, and the peer's answer to it.
LEMMA PullStep ==
  ASSUME TransportInv, NEW p \in Ports,
         AskChunk(p) \/ ReceiveChunk(p) \/ PushChunk(p) \/ PullerStops(p) \/ SendChunk(p)
  PROVE  TransportInv'
  <1>1. UNCHANGED << windows, rep, serves, asked, answered, peerAt, awaiting, took, groups,
                     stopped, judged >>
    BY DEF AskChunk, ReceiveChunk, PushChunk, PullerStops, SendChunk, peerVars, brokerVars
  <1> DEFINE at == puller'[p]
             wh == chunk'[p]
  <1>2. /\ puller \in [Ports -> {"idle", "asked", "held", "stopped"}]
        /\ chunk \in [Ports -> {"none", "request", "reply"}]
        /\ pulls \in [Ports -> Nat] /\ replies \in [Ports -> Nat] /\ windows \in Nat
    BY DEF TransportInv, TransportTypes
  <1>3. /\ \/ /\ puller[p] = "idle" /\ at = "asked" /\ wh = "request"
              /\ pulls'[p] = pulls[p] /\ replies'[p] = replies[p]
           \/ /\ puller[p] = "asked" /\ chunk[p] = "reply" /\ at = "held" /\ wh = "none"
              /\ pulls'[p] = pulls[p] /\ replies'[p] = replies[p]
           \/ /\ puller[p] = "held" /\ at = "idle" /\ wh = chunk[p]
              /\ pulls'[p] = pulls[p] + 1 /\ replies'[p] = replies[p]
           \/ /\ puller[p] # "stopped" /\ at = "stopped" /\ wh = chunk[p]
              /\ pulls'[p] = pulls[p] /\ replies'[p] = replies[p]
           \/ /\ chunk[p] = "request" /\ "peer" \notin stopped /\ at = puller[p] /\ wh = "reply"
              /\ pulls'[p] = pulls[p] /\ replies'[p] = replies[p] + 1
    BY <1>2 DEF AskChunk, ReceiveChunk, PushChunk, PullerStops, SendChunk, Counted, brokerVars
  <1>4. /\ puller' \in [Ports -> {"idle", "asked", "held", "stopped"}]
        /\ chunk' \in [Ports -> {"none", "request", "reply"}]
        /\ pulls' \in [Ports -> Nat] /\ replies' \in [Ports -> Nat]
    BY <1>2 DEF AskChunk, ReceiveChunk, PushChunk, PullerStops, SendChunk, Counted, brokerVars
  <1>5. \A q \in Ports \ {p} : /\ puller'[q] = puller[q] /\ chunk'[q] = chunk[q]
                               /\ pulls'[q] = pulls[q] /\ replies'[q] = replies[q]
    BY <1>2 DEF AskChunk, ReceiveChunk, PushChunk, PullerStops, SendChunk, brokerVars
  <1> HIDE DEF at, wh
  <1>6. TransportTypes'
    BY <1>1, <1>4 DEF TransportInv, TransportTypes
  <1>7. "peer" \notin stopped
    BY <1>3 DEF TransportInv, StopOrder, BrokerGone
  <1>8. judged = "none"
    BY <1>7, JudgedStands
  <1>9. CleanStopPasses'
    BY <1>1, <1>8, StillUnjudged
  <1>10. StopOrder'
    BY <1>1, <1>7 DEF TransportInv, StopOrder
  <1>11. (\A q \in Ports : RequestPlaced(q)') /\ PeerCounts'
    <2>1. windows' \in Nat /\ windows <= windows'
      BY <1>1, <1>2
    <2>2. QED
      BY <1>1, <2>1, RequestsStay
  <1>12. ASSUME NEW q \in Ports, q # p PROVE ChunkPlaced(q)'
    BY <1>1, <1>5, <1>12 DEF TransportInv, ChunkPlaced
  <1>13. ChunkPlaced(p)'
    <2>1. ChunkPlaced(p) /\ pulls[p] \in Nat /\ replies[p] \in Nat
      BY <1>2 DEF TransportInv
    <2>2. at = puller'[p] /\ wh = chunk'[p]
      BY DEF at, wh
    <2>3. QED
      BY <1>1, <1>2, <1>3, <2>1, <2>2 DEF ChunkPlaced
  <1>14. QED
    BY <1>6, <1>9, <1>10, <1>11, <1>12, <1>13 DEF TransportInv

LEMMA AskFirstStep == ASSUME TransportInv, AskFirst PROVE TransportInv'
  <1>1. /\ peerAt = "first" /\ peerAt' = "second" /\ asked' = asked \cup {2}
        /\ UNCHANGED << windows, rep, serves, answered, awaiting, took, groups, puller, chunk,
                        pulls, replies, stopped, judged >>
    BY DEF AskFirst, brokerVars
  <1>2. TransportTypes'
    BY <1>1 DEF TransportInv, TransportTypes, Ports
  <1>3. judged = "none" /\ awaiting = {}
    BY <1>1, JudgedStands DEF TransportInv, PeerCounts
  <1>4. CleanStopPasses'
    BY <1>1, <1>3, StillUnjudged
  <1>5. StopOrder' /\ PeerCounts'
    BY <1>1 DEF TransportInv, StopOrder, PeerCounts, BrokerGone
  <1>6. ASSUME NEW p \in Ports PROVE RequestPlaced(p)'
    <2>1. RequestPlaced(p) /\ ~Outstanding(p)
      BY <1>1, <1>3 DEF TransportInv, Outstanding
    <2>2. Outstanding(p)' <=> p = 2
      BY <1>1, <1>3 DEF Outstanding
    <2>3. QED
      BY <1>1, <2>1, <2>2 DEF RequestPlaced
  <1>7. \A p \in Ports : ChunkPlaced(p)'
    BY <1>1, ChunksStay
  <1>8. QED
    BY <1>2, <1>4, <1>5, <1>6, <1>7 DEF TransportInv

LEMMA AskSecondStep == ASSUME TransportInv, AskSecond PROVE TransportInv'
  <1>1. /\ peerAt = "second" /\ peerAt' = "await" /\ asked' = asked \cup {1} /\ awaiting' = Ports
        /\ UNCHANGED << windows, rep, serves, answered, took, groups, puller, chunk,
                        pulls, replies, stopped, judged >>
    BY DEF AskSecond, brokerVars
  <1>2. TransportTypes'
    BY <1>1 DEF TransportInv, TransportTypes, Ports
  <1>3. judged = "none" /\ awaiting = {}
    BY <1>1, JudgedStands DEF TransportInv, PeerCounts
  <1>4. CleanStopPasses'
    BY <1>1, <1>3, StillUnjudged
  <1>5. StopOrder' /\ PeerCounts'
    BY <1>1 DEF TransportInv, StopOrder, PeerCounts, BrokerGone, Ports
  <1>6. ASSUME NEW p \in Ports PROVE RequestPlaced(p)'
    <2>1. RequestPlaced(p) /\ p \in awaiting' /\ (p = 1 => ~Outstanding(p))
      BY <1>1, <1>3 DEF TransportInv, Outstanding
    <2>2. Outstanding(p)'
      BY <2>1 DEF Outstanding
    <2>3. p # 1 => (p \in asked' <=> p \in asked)
      BY <1>1
    <2>4. QED
      BY <1>1, <1>3, <2>1, <2>2, <2>3 DEF RequestPlaced
  <1>7. \A p \in Ports : ChunkPlaced(p)'
    BY <1>1, ChunksStay
  <1>8. QED
    BY <1>2, <1>4, <1>5, <1>6, <1>7 DEF TransportInv

\* An answer: the group ends with the second one.
LEMMA TakeAnswerStep ==
  ASSUME TransportInv, NEW p \in Ports, TakeAnswer(p)
  PROVE  TransportInv'
  <1>1. /\ peerAt = "await" /\ p \in awaiting /\ p \in answered
        /\ answered' = answered \ {p} /\ awaiting' = awaiting \ {p}
        /\ took' = [took EXCEPT ![p] = @ + 1]
        /\ UNCHANGED << windows, rep, serves, asked, puller, chunk, pulls, replies, stopped, judged >>
    BY DEF TakeAnswer, brokerVars
  <1>2. /\ took \in [Ports -> Nat] /\ serves \in [Ports -> Nat] /\ awaiting \subseteq Ports
        /\ groups \in [completed : Nat, partial : 0 .. 1, outstanding : 0 .. 1] /\ windows \in Nat
    BY DEF TransportInv, TransportTypes
  <1>3. /\ took' \in [Ports -> Nat] /\ took'[p] = took[p] + 1
        /\ \A q \in Ports \ {p} : took'[q] = took[q]
    BY <1>1, <1>2
  <1>4. judged = "none"
    BY <1>1, JudgedStands
  <1>5. CleanStopPasses'
    BY <1>1, <1>4, StillUnjudged
  <1>6. StopOrder'
    BY <1>1, <1>4 DEF TransportInv, StopOrder, BrokerGone, TakeAnswer
  <1>7. RequestPlaced(p) /\ serves[p] = took[p] + 1 /\ p \notin asked /\ rep[p] \notin {"row", "send"}
    BY <1>1, <1>2 DEF TransportInv, RequestPlaced
  <1>8. \A q \in Ports : ChunkPlaced(q)'
    BY <1>1, ChunksStay
  <1>9. CASE awaiting' # {}
    <2>1. groups' = groups /\ peerAt' = peerAt
      BY <1>9 DEF TakeAnswer, GroupDone
    <2>2. TransportTypes'
      BY <1>1, <1>2, <1>3, <2>1 DEF TransportInv, TransportTypes
    <2>3. PeerCounts'
      BY <1>1, <1>9, <2>1 DEF TransportInv, PeerCounts
    <2>4. RequestPlaced(p)'
      <3>1. took[p] = groups.completed
        BY <1>1, <1>2, <1>7 DEF RequestPlaced
      <3>2. took'[p] = groups'.completed + 1 /\ serves'[p] = took'[p] /\ serves'[p] - took'[p] = 0
        BY <1>1, <1>2, <1>3, <1>7, <2>1, <3>1
      <3>3. p \notin awaiting' /\ p \notin answered' /\ ~Outstanding(p)'
        BY <1>1, <1>9 DEF Outstanding
      <3>4. QED
        BY <1>1, <1>7, <1>9, <3>2, <3>3 DEF RequestPlaced
    <2>5. ASSUME NEW q \in Ports, q # p PROVE RequestPlaced(q)'
      <3>1. RequestPlaced(q) /\ (Outstanding(q)' <=> Outstanding(q))
        BY <1>1, <1>9, <2>5 DEF TransportInv, Outstanding
      <3>2. (q \in awaiting' <=> q \in awaiting) /\ awaiting # {} /\ (q \in answered' <=> q \in answered)
        BY <1>1, <2>5
      <3>3. QED
        BY <1>1, <1>3, <1>9, <2>1, <2>5, <3>1, <3>2 DEF RequestPlaced
    <2>6. QED
      BY <1>5, <1>6, <1>8, <2>2, <2>3, <2>4, <2>5 DEF TransportInv
  <1>10. CASE awaiting' = {}
    <2>1. groups' = [groups EXCEPT !.completed = @ + 1] /\ peerAt' = "first" /\ awaiting = {p}
      BY <1>1, <1>10 DEF TakeAnswer, GroupDone
    <2>2. /\ groups' \in [completed : Nat, partial : 0 .. 1, outstanding : 0 .. 1]
          /\ groups'.completed = groups.completed + 1
          /\ groups'.partial = groups.partial /\ groups'.outstanding = groups.outstanding
      BY <1>2, <2>1
    <2>3. TransportTypes'
      BY <1>1, <1>2, <1>3, <2>1, <2>2 DEF TransportInv, TransportTypes
    <2>4. PeerCounts'
      BY <1>1, <1>10, <2>1, <2>2 DEF TransportInv, PeerCounts
    <2>5. \A q \in Ports : ~Outstanding(q)'
      BY <1>10, <2>1 DEF Outstanding
    <2>6. RequestPlaced(p)'
      <3>1. took[p] = groups.completed
        BY <1>1, <1>2, <1>7 DEF RequestPlaced
      <3>2. took'[p] = groups'.completed + 0 /\ serves'[p] = took'[p] /\ serves'[p] - took'[p] = 0
        BY <1>1, <1>2, <1>3, <1>7, <2>2, <3>1
      <3>3. p \notin answered'
        BY <1>1
      <3>4. QED
        BY <1>1, <1>7, <1>10, <2>5, <3>2, <3>3 DEF RequestPlaced
    <2>7. ASSUME NEW q \in Ports, q # p PROVE RequestPlaced(q)'
      <3>1. RequestPlaced(q) /\ ~Outstanding(q) /\ q \notin awaiting /\ awaiting # {}
        BY <2>1, <2>7 DEF TransportInv, Outstanding
      <3>2. took'[q] = groups'.completed + 0
        BY <1>2, <1>3, <2>2, <2>7, <3>1 DEF RequestPlaced
      <3>3. q \notin answered'
        BY <1>1, <3>1 DEF RequestPlaced
      <3>4. QED
        BY <1>1, <1>3, <1>10, <2>5, <2>7, <3>1, <3>2, <3>3 DEF RequestPlaced
    <2>8. QED
      BY <1>5, <1>6, <1>8, <2>3, <2>4, <2>6, <2>7 DEF TransportInv
  <1>11. QED
    BY <1>9, <1>10

\* The peer's last accounts: a group that has one answer is partial, one that
\* has none is outstanding.
LEMMA PeerStopsStep == ASSUME TransportInv, PeerStops PROVE TransportInv'
  <1>1. /\ "peer" \in stopped /\ peerAt # "stopped" /\ peerAt' = "stopped"
        /\ UNCHANGED << windows, rep, serves, asked, answered, awaiting, took, puller, chunk,
                        pulls, replies, stopped, judged >>
    BY DEF PeerStops, brokerVars
  <1>2. /\ groups \in [completed : Nat, partial : 0 .. 1, outstanding : 0 .. 1]
        /\ groups.partial = 0 /\ groups.outstanding = 0
        /\ peerAt \in {"first", "second", "await", "stopped"}
    BY <1>1 DEF TransportInv, TransportTypes, PeerCounts
  <1>3. /\ groups' \in [completed : Nat, partial : 0 .. 1, outstanding : 0 .. 1]
        /\ groups'.completed = groups.completed
        /\ groups'.partial = (IF peerAt = "await" /\ awaiting # Ports THEN 1 ELSE 0)
    <2>1. CASE peerAt = "await" /\ awaiting # Ports
      BY <1>2, <2>1 DEF PeerStops
    <2>2. CASE ~(peerAt = "await" /\ awaiting # Ports) /\ peerAt \in {"second", "await"}
      BY <1>2, <2>2 DEF PeerStops
    <2>3. CASE ~(peerAt = "await" /\ awaiting # Ports) /\ peerAt \notin {"second", "await"}
      BY <1>2, <2>3 DEF PeerStops
    <2>4. QED
      BY <2>1, <2>2, <2>3
  <1>4. TransportTypes'
    BY <1>1, <1>3 DEF TransportInv, TransportTypes
  <1>5. judged = "none"
    BY <1>1, JudgedStands
  <1>6. CleanStopPasses'
    BY <1>1, <1>5, StillUnjudged
  <1>7. StopOrder'
    BY <1>1 DEF TransportInv, StopOrder, BrokerGone
  <1>8. PeerCounts'
    BY <1>1, <1>2, <1>3 DEF TransportInv, PeerCounts
  <1>9. ASSUME NEW p \in Ports PROVE RequestPlaced(p)'
    <2>1. RequestPlaced(p) /\ (Outstanding(p) => Outstanding(p)')
      BY <1>1 DEF TransportInv, Outstanding
    <2>2. QED
      BY <1>1, <1>3, <2>1 DEF RequestPlaced
  <1>10. \A p \in Ports : ChunkPlaced(p)'
    BY <1>1, ChunksStay
  <1>11. QED
    BY <1>4, <1>6, <1>7, <1>8, <1>9, <1>10 DEF TransportInv

LEMMA StopStep == ASSUME TransportInv, StopBroker \/ StopPeer PROVE TransportInv'
  <1>1. UNCHANGED << windows, rep, serves, asked, answered, peerAt, awaiting, took, groups, puller,
                     chunk, pulls, replies, judged >>
    BY DEF StopBroker, StopPeer, brokerVars, peerVars
  <1>2. /\ "peer" \notin stopped /\ stopped' \in {{"broker"}, {"broker", "peer"}}
        /\ "peer" \in stopped' => BrokerGone
    BY DEF StopBroker, StopPeer, TransportInv, TransportTypes
  <1>3. TransportTypes'
    BY <1>1, <1>2 DEF TransportInv, TransportTypes
  <1>4. judged = "none"
    BY <1>2, JudgedStands
  <1>5. CleanStopPasses'
    BY <1>1, <1>4, StillUnjudged
  <1>6. StopOrder'
    BY <1>1, <1>2, <1>4 DEF TransportInv, StopOrder, BrokerGone
  <1>7. (\A p \in Ports : RequestPlaced(p)') /\ PeerCounts'
    <2>1. windows \in Nat
      BY DEF TransportInv, TransportTypes
    <2>2. windows' \in Nat /\ windows <= windows'
      BY <1>1, <2>1
    <2>3. QED
      BY <1>1, <2>2, RequestsStay
  <1>8. \A p \in Ports : ChunkPlaced(p)'
    BY <1>1, ChunksStay
  <1>9. QED
    BY <1>3, <1>5, <1>6, <1>7, <1>8 DEF TransportInv

\* A whole run that nothing else is wrong with shows the gate no error.
LEMMA WholeRunPasses ==
  RunPlaced /\ peerAt = "stopped" /\ faults = {} /\ Whole /\ groups.completed > 0 => Errors = {}
  <1> SUFFICES ASSUME RunPlaced, peerAt = "stopped", faults = {}, Whole, groups.completed > 0
               PROVE  Errors = {}
    OBVIOUS
  <1>1. RequestPlaced(1) /\ RequestPlaced(2) /\ ChunkPlaced(1) /\ ChunkPlaced(2)
    BY DEF RunPlaced, Ports
  <1>2. /\ groups.completed \in Nat /\ windows \in Nat /\ awaiting \subseteq {1, 2}
        /\ serves[1] \in Nat /\ serves[2] \in Nat /\ took[1] \in Nat /\ took[2] \in Nat
        /\ pulls[1] \in Nat /\ pulls[2] \in Nat /\ groups.outstanding \in 0 .. 1
    BY DEF RunPlaced, TransportTypes, Ports
  <1>3. took[1] = took[2] /\ serves[1] = took[1] /\ serves[2] = took[2]
    BY DEF Whole
  <1>4. took[1] = groups.completed /\ took[2] = groups.completed /\ awaiting \in {{}, {1, 2}}
    <2>1. CASE awaiting = {}
      BY <1>1, <1>2, <2>1 DEF RequestPlaced
    <2>2. CASE 1 \in awaiting /\ 2 \in awaiting
      <3>1. took[1] = groups.completed + 0 /\ took[2] = groups.completed + 0
        BY <1>1, <2>2 DEF RequestPlaced
      <3>2. awaiting = {1, 2}
        BY <1>2, <2>2
      <3>3. QED
        BY <1>2, <3>1, <3>2
    <2>3. CASE 1 \in awaiting /\ 2 \notin awaiting
      BY <1>1, <1>2, <1>3, <2>3 DEF RequestPlaced
    <2>4. CASE 1 \notin awaiting /\ 2 \in awaiting
      <3>1. took[1] = groups.completed + 1 /\ took[2] = groups.completed + 0
        BY <1>1, <2>4 DEF RequestPlaced
      <3>2. took[1] # took[2]
        BY <1>2, <3>1
      <3>3. QED
        BY <1>3, <3>2
    <2>5. QED
      BY <1>2, <2>1, <2>2, <2>3, <2>4
  <1>5. groups.partial = 0
    BY <1>4 DEF RunPlaced, PeerCounts, Ports
  <1>6. serves[1] > 0 /\ serves[2] > 0 /\ pulls[1] > 0 /\ pulls[2] > 0
    BY <1>1, <1>2, <1>3, <1>4 DEF RequestPlaced, ChunkPlaced
  <1>7. CounterErrors = {}
    <2>1. \A p \in Ports : pulls[p] # 0 /\ serves[p] # 0
      BY <1>2, <1>6 DEF Ports
    <2>2. Distance(serves) <= 1
      BY <1>2, <1>3 DEF Distance
    <2>3. {p \in Ports : pulls[p] = 0} = {} /\ {p \in Ports : serves[p] = 0} = {}
      BY <2>1
    <2>4. QED
      BY <2>2, <2>3 DEF CounterErrors
  <1>8. PeerErrors = {}
    <2>1. \A p \in Ports : took[p] = groups.completed
      BY <1>4 DEF Ports
    <2>2. groups.outstanding <= 1
      BY <1>2
    <2>3. QED
      BY <1>5, <2>1, <2>2 DEF PeerErrors
  <1>9. CrossErrors = {}
    <2>1. PullAllowance
      BY <1>1 DEF PullAllowance, ChunkPlaced, Ports
    <2>2. QED
      BY <1>3, <1>4, <2>1 DEF CrossErrors
  <1>10. QED
    BY <1>7, <1>8, <1>9
       DEF Errors, EvidenceErrors, FixtureErrors, EndpointErrors, LogErrors, SelfTestErrors,
           MatrixErrors, BudgetErrors

LEMMA WholeRunPassesNext ==
  (RunPlaced /\ peerAt = "stopped" /\ faults = {} /\ Whole /\ groups.completed > 0 => Errors = {})'
  BY WholeRunPasses, PTL

LEMMA VerdictStep == ASSUME TransportInv, Judge PROVE TransportInv'
  <1>1. /\ peerAt = "stopped" /\ judged' = (IF Errors' = {} THEN "passed" ELSE "failed")
        /\ UNCHANGED << windows, rep, serves, asked, answered, peerAt, awaiting, took, groups, puller,
                        chunk, pulls, replies, stopped >>
    BY DEF Judge, brokerVars, peerVars
  <1>2. TransportTypes' /\ StopOrder'
    BY <1>1 DEF TransportInv, TransportTypes, StopOrder, BrokerGone
  <1>3. (\A p \in Ports : RequestPlaced(p)') /\ PeerCounts'
    <2>1. windows \in Nat
      BY DEF TransportInv, TransportTypes
    <2>2. windows' \in Nat /\ windows <= windows'
      BY <1>1, <2>1
    <2>3. QED
      BY <1>1, <2>2, RequestsStay
  <1>4. \A p \in Ports : ChunkPlaced(p)'
    BY <1>1, ChunksStay
  <1>5. CleanStopPasses'
    <2> SUFFICES ASSUME faults' = {}, Whole', groups'.completed > 0
                 PROVE  judged' = "passed"
      BY DEF CleanStopPasses
    <2>1. Errors' = {}
      <3>1. RunPlaced' /\ peerAt' = "stopped"
        BY <1>1, <1>2, <1>3, <1>4 DEF RunPlaced
      <3>2. QED
        BY <3>1, WholeRunPassesNext
    <2>2. QED
      BY <1>1, <2>1
  <1>6. QED
    BY <1>2, <1>3, <1>4, <1>5 DEF TransportInv

LEMMA TransportStep ==
  ASSUME TransportInv, [TransportNext]_transportVars
  PROVE  TransportInv'
  <1>1. CASE UNCHANGED transportVars
    <2>1. UNCHANGED << faults, windows, rep, serves, asked, answered, peerAt, awaiting, took, groups,
                       puller, chunk, pulls, replies, stopped, judged >>
      BY <1>1 DEF transportVars
    <2>2. TransportTypes' /\ StopOrder' /\ CleanStopPasses'
      BY <2>1 DEF TransportInv, TransportTypes, StopOrder, BrokerGone, CleanStopPasses, Whole
    <2>3. windows' \in Nat /\ windows <= windows'
      BY <2>1 DEF TransportInv, TransportTypes
    <2>4. (\A p \in Ports : RequestPlaced(p)') /\ PeerCounts'
      BY <2>1, <2>3, RequestsStay
    <2>5. \A p \in Ports : ChunkPlaced(p)'
      BY <2>1, ChunksStay
    <2>6. QED
      BY <2>2, <2>4, <2>5 DEF TransportInv
  <1>2. ASSUME NEW p \in Ports,
               \/ AcceptRequest(p) \/ TakeRow(p) \/ SendReply(p) \/ RepStops(p)
               \/ AskChunk(p) \/ ReceiveChunk(p) \/ PushChunk(p) \/ PullerStops(p)
               \/ TakeAnswer(p) \/ SendChunk(p)
        PROVE  TransportInv'
    BY <1>2, RepStep, PullStep, TakeAnswerStep
  <1>3. QED
    BY <1>1, <1>2, PublishStep, AskFirstStep, AskSecondStep, PeerStopsStep, StopStep, VerdictStep
       DEF TransportNext

\* Where every request and every chunk of a two-port run is, whatever the stop
\* cuts off (the peer's receive thread, the broker's REP workers and pullers).
THEOREM TransportInvariant == TransportSpec => []TransportInv
  <1>1. TransportInit => TransportInv
    BY TransportInitInv
  <1>2. TransportInv /\ [TransportNext]_transportVars => TransportInv'
    BY TransportStep
  <1>3. QED
    BY <1>1, <1>2, PTL DEF TransportSpec

\* The gate's allowances are what a stop can leave behind, for any depth of the
\* rings and any length of the run (validate-mimo-2port-transport.py).
THEOREM StopIsAllowedFor == TransportSpec => []StopAllowedFor
  <1>1. TransportSpec => []TransportInv
    BY TransportInvariant
  <1>2. TransportInv => StopAllowedFor
    BY StopSafe
  <1>3. QED
    BY <1>1, <1>2, PTL
=============================================================================
