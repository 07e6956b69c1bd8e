---------------------------- MODULE RelayProofs ----------------------------
(***************************************************************************)
(* What is proved about the relay, for any nodes, ports and lanes: every   *)
(* step of it is a step of the receive side and of the transmit side as    *)
(* RxPorts and TxPorts specify them, or leaves that side alone; so all     *)
(* that is proved about the ports holds of the relay; and the producers    *)
(* give the RX ports of a node the same windows.                           *)
(*                                                                         *)
(* The two sides need each other: the samples a producer writes are those  *)
(* the RX side publishes because the TX side's lanes hold the stream, and  *)
(* because RelayInv keeps lanes and rows of a node at the same sample.     *)
(***************************************************************************)
EXTENDS Relay, PortsProofs

Steps == {"room", "init", "data", "read", "row", "process", "advance", "publish"}
Progress == [pc : Steps, todo : SUBSET (RxPort \cup Lane), count : 0 .. Batch]

\* A minimum that is capped by the batch.
LEMMA CappedMin ==
  ASSUME NEW T \in SUBSET Nat
  PROVE  /\ Min(T \cup {Batch}) \in 0 .. Batch
         /\ \A y \in T : Min(T \cup {Batch}) <= y
  <1> DEFINE U == T \cup {Batch}
  <1>1. Batch \in Nat
    BY RuntimeAssumption
  <1>2. U \in SUBSET Nat /\ U # {}
    BY <1>1
  <1>3. Min(U) \in U /\ \A y \in U : Min(U) <= y
    <2> HIDE DEF U
    <2>1. QED
      BY <1>2, MinOfNaturals
  <1>4. Min(U) \in Nat
    BY <1>2, <1>3
  <1>5. QED
    BY <1>1, <1>3, <1>4

\* A turn of the producer of n: only its progress changes, the turn is no
\* longer due, and after the last one it stands where `after' says.
LEMMA TurnTaken ==
  ASSUME RelayTypeOK, NEW n \in Node, NEW pc, NEW x, NEW after,
         Turn(n, pc, x, after), prod[n].todo = {x} => after \in Progress
  PROVE  /\ prod[n].pc = pc /\ x \in prod[n].todo
         /\ prod' \in [Node -> Progress]
         /\ \A m \in Node : m # n => prod'[m] = prod[m]
         /\ prod[n].todo = {x} => prod'[n] = after
         /\ prod[n].todo # {x} =>
              /\ prod'[n].pc = pc
              /\ prod'[n].todo = prod[n].todo \ {x}
              /\ prod'[n].count = prod[n].count
         /\ prod[n] \in Progress
  <1>1. prod \in [Node -> Progress] /\ prod[n] \in Progress
    BY DEF RelayTypeOK, Progress, Steps
  <1>2. prod[n].pc = pc /\ x \in prod[n].todo
    BY DEF Turn
  <1>3. CASE prod[n].todo = {x}
    <2>1. prod' = [prod EXCEPT ![n] = after]
      BY <1>1, <1>3 DEF Turn
    <2>2. QED
      BY <1>1, <1>2, <1>3, <2>1
  <1>4. CASE prod[n].todo # {x}
    <2> DEFINE left == prod[n].todo \ {x}
    <2>1. prod' = [prod EXCEPT ![n].todo = left]
      BY <1>4 DEF Turn
    <2>2. left \in SUBSET (RxPort \cup Lane)
      BY <1>1 DEF Progress
    <2> HIDE DEF left
    <2>3. prod' \in [Node -> Progress]
      BY <1>1, <2>1, <2>2 DEF Progress
    <2>4. /\ \A m \in Node : m # n => prod'[m] = prod[m]
          /\ prod'[n].pc = prod[n].pc /\ prod'[n].todo = left
          /\ prod'[n].count = prod[n].count
      BY <1>1, <2>1 DEF Progress
    <2>5. QED
      BY <1>1, <1>2, <1>4, <2>3, <2>4 DEF left
  <1>5. QED
    BY <1>3, <1>4

\* A step leaves the ports, lanes and progress of a node alone.
Untouched(m) ==
  /\ prod'[m] = prod[m]
  /\ \A p \in RowsOf(m) :
       /\ row'[p] = row[p] /\ rxRing'[p].next = rxRing[p].next
       /\ Windows(p)' = Windows(p)
  /\ \A l \in Incoming(m) :
       /\ win'[l] = win[l] /\ cursor'[l] = cursor[l]
       /\ cursorInit'[l] = cursorInit[l]

LEMMA OtherNode ==
  ASSUME NEW m \in Node, NodeInv(m), Untouched(m)
  PROVE  NodeInv(m)'
  <1>1. ProdAt(m)'
    BY DEF NodeInv, Untouched, ProdAt, RowsOf, Incoming
  <1>2. \A p \in RowsOf(m) : RowAt(m, p)'
    BY DEF NodeInv, Untouched, RowAt, RowPhases
  <1>3. ASSUME NEW l \in Incoming(m) PROVE LaneAt(m, l)'
    BY <1>3 DEF NodeInv, Untouched, LaneAt, LanePhases
  <1>4. ASSUME NEW l \in Incoming(m) PROVE LaneInStep(m, l)'
    <2>1. Dst[l] \in RowsOf(m)
      BY RelayAssumption DEF RowsOf, Incoming
    <2>2. QED
      BY <1>4, <2>1 DEF NodeInv, Untouched, LaneInStep, Lead
  <1>5. \A p \in RowsOf(m) : Announced(m, p)' = Announced(m, p)
    BY DEF Announced, Untouched
  <1>6. QED
    BY <1>1, <1>2, <1>3, <1>4, <1>5 DEF NodeInv, RowsOf, Incoming

\* A step of the producer of n on one of its rows, short of publishing it, ...
RowWork(n, p) ==
  /\ p \in RowsOf(n)
  /\ UNCHANGED << txVars, rxSlots, rep, served >>
  /\ \A q \in RxPort : rxRing'[q].next = rxRing[q].next
  /\ \A q \in RxPort : q # p => row'[q] = row[q]
  /\ \A m \in Node : m # n => prod'[m] = prod[m]

LEMMA RowWorkRests ==
  ASSUME NEW n \in Node, NEW p, RowWork(n, p)
  PROVE  /\ \A m \in Node : m # n => Untouched(m)
         /\ \A q \in RxPort : Windows(q)' = Windows(q)
         /\ \A l \in Lane : /\ win'[l] = win[l] /\ cursor'[l] = cursor[l]
                            /\ cursorInit'[l] = cursorInit[l]
  <1>1. \A q \in RxPort : Windows(q)' = Windows(q)
    BY DEF RowWork, Windows, Unsent
  <1>2. \A l \in Lane : /\ win'[l] = win[l] /\ cursor'[l] = cursor[l]
                        /\ cursorInit'[l] = cursorInit[l]
    BY DEF RowWork, txVars, laneVars
  <1>3. ASSUME NEW m \in Node, m # n PROVE Untouched(m)
    BY <1>1, <1>2, <1>3 DEF RowWork, RowsOf, Incoming, Untouched
  <1>4. QED
    BY <1>1, <1>2, <1>3

\* ... and on one of its lanes.
LaneWork(n, l) ==
  /\ l \in Incoming(n)
  /\ UNCHANGED << rxVars, served >>
  /\ \A k \in Lane : k # l => /\ win'[k] = win[k] /\ cursor'[k] = cursor[k]
                              /\ cursorInit'[k] = cursorInit[k]
  /\ \A m \in Node : m # n => prod'[m] = prod[m]

LEMMA LaneWorkRests ==
  ASSUME NEW n \in Node, NEW l, LaneWork(n, l)
  PROVE  /\ \A m \in Node : m # n => Untouched(m)
         /\ \A q \in RxPort : Windows(q)' = Windows(q)
         /\ rxRing' = rxRing /\ row' = row
  <1>1. \A q \in RxPort : Windows(q)' = Windows(q)
    BY DEF LaneWork, rxVars, Windows, Unsent
  <1>2. rxRing' = rxRing /\ row' = row
    BY DEF LaneWork, rxVars
  <1>3. ASSUME NEW m \in Node, m # n PROVE Untouched(m)
    BY <1>1, <1>2, <1>3 DEF LaneWork, RowsOf, Incoming, Untouched
  <1>4. QED
    BY <1>1, <1>2, <1>3

\* What the invariant says of one port and of one lane.
LEMMA RelayTypes ==
  ASSUME RelayInv
  PROVE  /\ row \in [RxPort -> RowStates] /\ win \in [Lane -> WinStates]
         /\ prod \in [Node -> Progress] /\ cursor \in [Lane -> Nat]
         /\ cursorInit \in [Lane -> BOOLEAN]
         /\ rxRing \in [RxPort -> RingOf(RxCapacity, Sample)]
         /\ \A p \in RxPort : rxRing[p].next \in Nat
  <1>1. RxTypeOK /\ TxTypeOK /\ RelayTypeOK
    BY DEF RelayInv, RxInv, TxInv
  <1>2. \A p \in RxPort : rxRing[p].next \in Nat
    BY <1>1, PortTypes
  <1>3. QED
    BY <1>1, <1>2 DEF RxTypeOK, TxTypeOK, RelayTypeOK, Progress, Steps

LEMMA RoomBounds ==
  ASSUME RelayInv, NEW n \in Node
  PROVE  Room(n) \in 0 .. Batch /\ \A p \in RowsOf(n) : Room(n) <= row[p].room
  <1> DEFINE T == {row[p].room : p \in RowsOf(n)}
  <1>1. T \in SUBSET Nat
    <2>1. row \in [RxPort -> RowStates]
      BY RelayTypes
    <2>2. \A p \in RowsOf(n) : row[p].room \in Nat
      BY <2>1, RuntimeAssumption DEF RowStates, RowsOf
    <2>3. QED
      BY <2>2
  <1>2. /\ Min(T \cup {Batch}) \in 0 .. Batch
        /\ \A y \in T : Min(T \cup {Batch}) <= y
    <2> HIDE DEF T
    <2>1. QED
      BY <1>1, CappedMin
  <1>3. QED
    BY <1>2 DEF Room

(***************************************************************************)
(* The turns of a producer.  Each keeps the invariant of its own node and  *)
(* leaves the other nodes alone.                                           *)
(***************************************************************************)

\* (A): a node whose rows all have room goes on, with room of one sample at
\* least; lanes it has not started yet are due to be.
LEMMA AskRoomStep ==
  ASSUME RelayInv, NEW n \in Node, NEW p \in RxPort, AskRoom(n, p), RxTypeOK'
  PROVE  /\ RowWork(n, p) /\ NodeInv(n)' /\ prod' \in [Node -> Progress]
         /\ served' = served /\ received' = received
  <1> DEFINE after ==
        CASE Room(n)' = 0 -> Step("room", RowsOf(n), 0)
          [] Room(n)' # 0 /\ Incoming(n) = {} -> Step("row", RowsOf(n), Room(n)')
          [] OTHER -> Step(IF \A l \in Incoming(n) : cursorInit[l]
                           THEN "data" ELSE "init", Incoming(n), 0)
  <1>1. MeasureRoom(p) /\ Turn(n, "room", p, after)
    BY DEF AskRoom
  <1>2. UNCHANGED << txVars, rxRing, rxSlots, rep, served, received >>
    BY DEF AskRoom, MeasureRoom
  <1>3. NodeInv(n) /\ RelayTypeOK
    BY DEF RelayInv
  <1>4. Room(n)' \in 0 .. Batch /\ \A q \in RowsOf(n) : Room(n)' <= row'[q].room
    <2> DEFINE T == {row'[q].room : q \in RowsOf(n)}
    <2>0. row' \in [RxPort -> RowStates]
      BY DEF RxTypeOK
    <2>1. T \in SUBSET Nat
      <3>1. \A q \in RowsOf(n) : row'[q].room \in Nat
        BY <2>0, RuntimeAssumption DEF RowStates, RowsOf
      <3>2. QED
        BY <3>1
    <2>2. /\ Min(T \cup {Batch}) \in 0 .. Batch
          /\ \A y \in T : Min(T \cup {Batch}) <= y
      <3> HIDE DEF T
      <3>1. QED
        BY <2>1, CappedMin
    <2>3. QED
      BY <2>2 DEF Room
  <1>5. after \in Progress
    <2>1. RowsOf(n) \in SUBSET (RxPort \cup Lane) /\ Incoming(n) \in SUBSET (RxPort \cup Lane)
      BY DEF RowsOf, Incoming
    <2>2. 0 \in 0 .. Batch
      BY RuntimeAssumption
    <2>3. QED
      BY <1>4, <2>1, <2>2 DEF Step, Progress, Steps
  <1> HIDE DEF after
  <1>6. /\ prod[n].pc = "room" /\ p \in prod[n].todo
        /\ prod' \in [Node -> Progress]
        /\ \A m \in Node : m # n => prod'[m] = prod[m]
        /\ prod[n].todo = {p} => prod'[n] = after
        /\ prod[n].todo # {p} => /\ prod'[n].pc = "room"
                                 /\ prod'[n].todo = prod[n].todo \ {p}
                                 /\ prod'[n].count = prod[n].count
    BY <1>1, <1>3, <1>5, TurnTaken
  <1>7. /\ prod[n].todo \subseteq RowsOf(n)
        /\ \A q \in RowsOf(n) : row[q].phase \in IF q \in prod[n].todo THEN {"idle", "room"} ELSE {"room"}
        /\ \A l \in Incoming(n) : win[l].phase \in {"idle", "sized"} /\ LaneInStep(n, l)
        /\ \A q, r \in RowsOf(n) : Windows(q) = Windows(r)
    BY <1>3, <1>6 DEF NodeInv, ProdAt, RowAt, RowPhases, LaneAt, LanePhases, Announced
  <1>8. /\ \A q \in RxPort : q # p => row'[q] = row[q]
        /\ row'[p].phase = "room"
    BY <1>1, RelayTypes DEF MeasureRoom, RowStates
  <1>9. RowWork(n, p)
    BY <1>2, <1>6, <1>7, <1>8 DEF RowWork
  <1>10. /\ \A q \in RxPort : Windows(q)' = Windows(q)
         /\ \A l \in Lane : /\ win'[l] = win[l] /\ cursor'[l] = cursor[l]
                            /\ cursorInit'[l] = cursorInit[l]
    BY <1>9, RowWorkRests
  <1>11. \A l \in Incoming(n) : LaneInStep(n, l) => Lead(n, l) = 0 /\ l \in Lane /\ Dst[l] \in RxPort
    BY <1>6, RelayAssumption DEF Lead, Incoming
  <1>12. ASSUME prod[n].todo # {p} PROVE NodeInv(n)'
    <2>1. ProdAt(n)'
      BY <1>6, <1>7, <1>12 DEF ProdAt, RowsOf, Incoming
    <2>2. \A q \in RowsOf(n) : RowAt(n, q)'
      BY <1>6, <1>7, <1>8, <1>12 DEF RowAt, RowPhases, RowsOf
    <2>3. \A l \in Incoming(n) : LaneAt(n, l)' /\ LaneInStep(n, l)'
      BY <1>2, <1>6, <1>7, <1>10, <1>11, <1>12 DEF LaneAt, LanePhases, LaneInStep, Lead
    <2>4. \A q, r \in RowsOf(n) : Announced(n, q)' = Announced(n, r)'
      BY <1>6, <1>7, <1>10, <1>12 DEF Announced, RowsOf
    <2>5. QED
      BY <2>1, <2>2, <2>3, <2>4 DEF NodeInv, RowsOf, Incoming
  <1>13. ASSUME prod[n].todo = {p} PROVE NodeInv(n)'
    <2>1. \A q \in RowsOf(n) : row'[q].phase = "room"
      BY <1>7, <1>8, <1>13 DEF RowsOf
    <2>2. CASE Room(n)' = 0
      <3>1. prod'[n] = Step("room", RowsOf(n), 0)
        BY <1>6, <1>13, <2>2 DEF after
      <3>2. ProdAt(n)'
        BY <3>1 DEF ProdAt, Step, RowsOf, Incoming
      <3>3. \A q \in RowsOf(n) : RowAt(n, q)'
        BY <2>1, <3>1 DEF RowAt, RowPhases, Step
      <3>4. \A l \in Incoming(n) : LaneAt(n, l)' /\ LaneInStep(n, l)'
        BY <1>2, <1>7, <1>10, <1>11, <3>1 DEF LaneAt, LanePhases, LaneInStep, Lead, Step
      <3>5. \A q, r \in RowsOf(n) : Announced(n, q)' = Announced(n, r)'
        BY <1>7, <1>10, <3>1 DEF Announced, RowsOf, Step
      <3>6. QED
        BY <3>2, <3>3, <3>4, <3>5 DEF NodeInv, RowsOf, Incoming
    <2>3. CASE Room(n)' # 0 /\ Incoming(n) = {}
      <3>1. prod'[n] = Step("row", RowsOf(n), Room(n)')
        BY <1>6, <1>13, <2>3 DEF after
      <3>2. ProdAt(n)'
        BY <1>4, <2>3, <3>1 DEF ProdAt, Step, RowsOf, Incoming
      <3>3. \A q \in RowsOf(n) : RowAt(n, q)'
        BY <1>4, <2>1, <3>1 DEF RowAt, RowPhases, Step
      <3>4. \A q, r \in RowsOf(n) : Announced(n, q)' = Announced(n, r)'
        BY <1>7, <1>10, <3>1 DEF Announced, RowsOf, Step
      <3>5. QED
        BY <2>3, <3>2, <3>3, <3>4 DEF NodeInv, RowsOf, Incoming
    <2>4. CASE Room(n)' # 0 /\ Incoming(n) # {}
      <3>1. prod'[n] = Step(IF \A l \in Incoming(n) : cursorInit[l]
                            THEN "data" ELSE "init", Incoming(n), 0)
        BY <1>6, <1>13, <2>4 DEF after
      <3>2. ProdAt(n)'
        BY <3>1 DEF ProdAt, Step, RowsOf, Incoming
      <3>3. ASSUME NEW q \in RowsOf(n) PROVE RowAt(n, q)'
        <4>1. row'[q].room \in Nat
          <5>1. row' \in [RxPort -> RowStates]
            BY DEF RxTypeOK
          <5>2. QED
            BY <5>1, RuntimeAssumption DEF RowStates, RowsOf
        <4>2. row'[q].room >= 1
          BY <1>4, <2>4, <4>1
        <4>3. QED
          BY <2>1, <3>1, <4>2 DEF RowAt, RowPhases, Step
      <3>4. \A l \in Incoming(n) : LaneAt(n, l)' /\ LaneInStep(n, l)'
        BY <1>2, <1>7, <1>10, <1>11, <3>1 DEF LaneAt, LanePhases, LaneInStep, Lead, Step
      <3>5. \A q, r \in RowsOf(n) : Announced(n, q)' = Announced(n, r)'
        BY <1>7, <1>10, <3>1 DEF Announced, RowsOf, Step
      <3>6. QED
        BY <3>2, <3>3, <3>4, <3>5 DEF NodeInv, RowsOf, Incoming
    <2>5. QED
      BY <2>2, <2>3, <2>4
  <1>14. QED
    BY <1>2, <1>6, <1>9, <1>12, <1>13

\* (B): the lane starts at sample 0, where its RX port still is.
LEMMA InitLaneStep ==
  ASSUME RelayInv, NEW n \in Node, NEW l \in Lane, InitLane(n, l)
  PROVE  /\ LaneWork(n, l) /\ NodeInv(n)' /\ prod' \in [Node -> Progress]
         /\ served' = served /\ received' = received
  <1> DEFINE after == Step("data", Incoming(n), 0)
  <1>1. CoInit(l) /\ Turn(n, "init", l, after)
    BY DEF InitLane
  <1>2. UNCHANGED << rxVars, win, served, received >>
    BY DEF InitLane, CoInit
  <1>3. NodeInv(n) /\ RelayTypeOK
    BY DEF RelayInv
  <1>4. after \in Progress
    <2>1. Incoming(n) \in SUBSET (RxPort \cup Lane) /\ 0 \in 0 .. Batch
      BY RuntimeAssumption DEF Incoming
    <2>2. QED
      BY <2>1 DEF Step, Progress, Steps
  <1>5. /\ prod[n].pc = "init" /\ l \in prod[n].todo
        /\ prod' \in [Node -> Progress]
        /\ \A m \in Node : m # n => prod'[m] = prod[m]
        /\ prod[n].todo = {l} => prod'[n] = after
        /\ prod[n].todo # {l} => /\ prod'[n].pc = "init"
                                 /\ prod'[n].todo = prod[n].todo \ {l}
                                 /\ prod'[n].count = prod[n].count
    BY <1>1, <1>3, <1>4, TurnTaken
  <1>6. /\ prod[n].todo \subseteq Incoming(n)
        /\ \A q \in RowsOf(n) : row[q].phase = "room" /\ row[q].room >= 1
        /\ \A k \in Incoming(n) : /\ win[k].phase \in {"idle", "sized"}
                                  /\ cursorInit[k] \/ k \in prod[n].todo
                                  /\ LaneInStep(n, k)
        /\ \A q, r \in RowsOf(n) : Windows(q) = Windows(r)
    BY <1>3, <1>5 DEF NodeInv, ProdAt, RowAt, RowPhases, LaneAt, LanePhases, Announced
  <1>7. /\ \A k \in Lane : k # l => /\ win'[k] = win[k] /\ cursor'[k] = cursor[k]
                                    /\ cursorInit'[k] = cursorInit[k]
        /\ ~cursorInit[l] /\ cursorInit'[l] = TRUE
        /\ cursor'[l] = Earliest(txRing[Src[l]])
    BY <1>1, <1>2, RelayTypes DEF CoInit
  <1>8. cursor'[l] = 0
    BY <1>7 DEF RelayInv, TxInv, TxLaneInv, EpochAt
  <1>9. LaneWork(n, l)
    BY <1>2, <1>5, <1>6, <1>7 DEF LaneWork
  <1>10. \A q \in RxPort : Windows(q)' = Windows(q)
    BY <1>9, LaneWorkRests
  <1>11. rxRing' = rxRing /\ row' = row /\ win' = win
    BY <1>2 DEF rxVars
  <1>12. /\ prod'[n].pc \in {"init", "data"}
         /\ prod'[n].pc = "init" => prod'[n].todo = prod[n].todo \ {l}
         /\ prod'[n].pc = "data" => prod[n].todo = {l} /\ prod'[n].todo = Incoming(n)
         /\ prod'[n].todo \subseteq Incoming(n)
    BY <1>5, <1>6 DEF Step
  <1>13. ProdAt(n)'
    BY <1>12 DEF ProdAt, Incoming
  <1>14. \A q \in RowsOf(n) : RowAt(n, q)'
    BY <1>6, <1>11, <1>12 DEF RowAt, RowPhases
  <1>15. ASSUME NEW k \in Incoming(n) PROVE LaneAt(n, k)' /\ LaneInStep(n, k)'
    <2>1. cursorInit'[k] \/ (prod'[n].pc = "init" /\ k \in prod'[n].todo)
      BY <1>6, <1>7, <1>12 DEF Incoming
    <2>2. LaneAt(n, k)'
      BY <1>6, <1>11, <1>12, <2>1 DEF LaneAt, LanePhases
    <2>3. Lead(n, k) = 0 /\ Lead(n, k)' = 0
      BY <1>5, <1>12 DEF Lead
    <2>4. rxRing[Dst[k]].next \in Nat /\ k \in Lane
      BY RelayTypes, RelayAssumption DEF Incoming
    <2>5. LaneInStep(n, k)'
      BY <1>6, <1>7, <1>8, <1>11, <2>3, <2>4 DEF LaneInStep
    <2>6. QED
      BY <2>2, <2>5
  <1>16. \A q, r \in RowsOf(n) : Announced(n, q)' = Announced(n, r)'
    BY <1>6, <1>10, <1>12 DEF Announced, RowsOf
  <1>17. QED
    BY <1>2, <1>5, <1>9, <1>13, <1>14, <1>15, <1>16 DEF NodeInv, RowsOf, Incoming

\* (C): a window that every lane holds and every row has room for.
LEMMA MeasureLaneStep ==
  ASSUME RelayInv, NEW n \in Node, NEW l \in Lane, MeasureLane(n, l), TxTypeOK'
  PROVE  /\ LaneWork(n, l) /\ NodeInv(n)' /\ prod' \in [Node -> Progress]
         /\ served' = served /\ received' = received
  <1> DEFINE after ==
        IF Common(n)' = 0 THEN Step("data", Incoming(n), 0)
        ELSE Step("read", Incoming(n), Min({Common(n)', Room(n)}))
  <1>1. Measure(l) /\ Turn(n, "data", l, after)
    BY DEF MeasureLane
  <1>2. UNCHANGED << rxVars, cursorInit, served, received >>
    BY DEF MeasureLane, Measure
  <1>3. NodeInv(n) /\ RelayTypeOK
    BY DEF RelayInv
  <1>4. Common(n)' \in 0 .. Batch /\ \A k \in Incoming(n) : Common(n)' <= win'[k].avail
    <2> DEFINE T == {win'[k].avail : k \in Incoming(n)}
    <2>0. win' \in [Lane -> WinStates]
      BY DEF TxTypeOK
    <2>1. T \in SUBSET Nat
      <3>1. \A k \in Incoming(n) : win'[k].avail \in Nat
        BY <2>0 DEF WinStates, Incoming
      <3>2. QED
        BY <3>1
    <2>2. /\ Min(T \cup {Batch}) \in 0 .. Batch
          /\ \A y \in T : Min(T \cup {Batch}) <= y
      <3> HIDE DEF T
      <3>1. QED
        BY <2>1, CappedMin
    <2>3. QED
      BY <2>2 DEF Common
  <1>5. /\ Room(n) \in 0 .. Batch /\ \A q \in RowsOf(n) : Room(n) <= row[q].room
        /\ Batch \in Nat
    BY RoomBounds, RuntimeAssumption
  <1> DEFINE least == Min({Common(n)', Room(n)})
  <1>6. least \in {Common(n)', Room(n)} /\ least <= Common(n)' /\ least <= Room(n)
    <2> DEFINE U == {Common(n)', Room(n)}
    <2>1. U \in SUBSET Nat /\ U # {}
      BY <1>4, <1>5
    <2>2. Min(U) \in U /\ \A y \in U : Min(U) <= y
      <3> HIDE DEF U
      <3>1. QED
        BY <2>1, MinOfNaturals
    <2>3. QED
      BY <2>2
  <1>7. after = IF Common(n)' = 0 THEN Step("data", Incoming(n), 0)
                ELSE Step("read", Incoming(n), least)
    OBVIOUS
  <1> HIDE DEF least
  <1>8. least \in 0 .. Batch
    BY <1>4, <1>5, <1>6
  <1>9. after \in Progress
    <2>1. Incoming(n) \in SUBSET (RxPort \cup Lane) /\ 0 \in 0 .. Batch
      BY RuntimeAssumption DEF Incoming
    <2>2. QED
      BY <1>7, <1>8, <2>1 DEF Step, Progress, Steps
  <1> HIDE DEF after
  <1>10. /\ prod[n].pc = "data" /\ l \in prod[n].todo
         /\ prod' \in [Node -> Progress]
         /\ \A m \in Node : m # n => prod'[m] = prod[m]
         /\ prod[n].todo = {l} => prod'[n] = after
         /\ prod[n].todo # {l} => /\ prod'[n].pc = "data"
                                  /\ prod'[n].todo = prod[n].todo \ {l}
                                  /\ prod'[n].count = prod[n].count
    BY <1>1, <1>3, <1>9, TurnTaken
  <1>11. /\ prod[n].todo \subseteq Incoming(n)
         /\ \A q \in RowsOf(n) : row[q].phase = "room" /\ row[q].room >= 1
         /\ \A k \in Incoming(n) :
              /\ win[k].phase \in IF k \in prod[n].todo THEN {"idle", "sized"} ELSE {"sized"}
              /\ cursorInit[k]
              /\ LaneInStep(n, k)
         /\ \A q, r \in RowsOf(n) : Windows(q) = Windows(r)
    BY <1>3, <1>10 DEF NodeInv, ProdAt, RowAt, RowPhases, LaneAt, LanePhases, Announced
  <1>12. /\ \A k \in Lane : k # l => /\ win'[k] = win[k] /\ cursor'[k] = cursor[k]
                                     /\ cursorInit'[k] = cursorInit[k]
         /\ win'[l].phase = "sized"
         /\ cursorInit[l]
         /\ cursor'[l] = IF cursor[l] < Earliest(txRing[Src[l]])
                         THEN Earliest(txRing[Src[l]]) ELSE cursor[l]
    BY <1>1, <1>2, RelayTypes DEF Measure, WinStates
  <1>13. cursor'[l] = cursor[l]
    <2>1. Earliest(txRing[Src[l]]) <= cursor[l]
      BY <1>12 DEF RelayInv, TxInv, TxLaneInv, NoGapAt
    <2>2. Earliest(txRing[Src[l]]) \in Int /\ cursor[l] \in Nat
      <3>1. TxTypeOK /\ Src[l] \in TxPort
        BY TxAssumption DEF RelayInv, TxInv
      <3>2. QED
        BY <3>1, TxLaneTypes, TxPortTypes DEF RelayInv
    <2>3. QED
      BY <1>12, <2>1, <2>2
  <1>14. LaneWork(n, l)
    BY <1>2, <1>10, <1>11, <1>12 DEF LaneWork
  <1>15. \A q \in RxPort : Windows(q)' = Windows(q)
    BY <1>14, LaneWorkRests
  <1>16. rxRing' = rxRing /\ row' = row /\ cursorInit' = cursorInit
    BY <1>2 DEF rxVars
  <1>17. \A k \in Incoming(n) : cursor'[k] = cursor[k]
    BY <1>12, <1>13 DEF Incoming
  <1>18. /\ prod'[n].pc \in {"data", "read"}
         /\ prod'[n].pc = "data" => \/ prod'[n].todo = prod[n].todo \ {l}
                                    \/ prod'[n].todo = Incoming(n)
         /\ prod'[n].pc = "read" => /\ prod[n].todo = {l} /\ prod'[n].todo = Incoming(n)
                                    /\ prod'[n].count = least /\ Common(n)' # 0
         /\ prod'[n].todo \subseteq Incoming(n)
    BY <1>7, <1>10, <1>11 DEF Step
  <1>19. prod'[n].pc = "read" => least >= 1
    <2>1. ASSUME prod'[n].pc = "read" PROVE Room(n) >= 1
      <3>1. PICK q \in RowsOf(n) : TRUE
        BY <1>10, <1>11, RelayAssumption DEF RowsOf, Incoming
      <3>2. \A y \in {row[r].room : r \in RowsOf(n)} : y >= 1
        BY <1>11
      <3>3. Room(n) \in {row[r].room : r \in RowsOf(n)} \cup {Batch}
        <4> DEFINE T == {row[r].room : r \in RowsOf(n)} \cup {Batch}
        <4>1. T \in SUBSET Nat
          <5>1. row \in [RxPort -> RowStates]
            BY RelayTypes
          <5>2. \A r \in RowsOf(n) : row[r].room \in Nat
            BY <5>1, <1>5 DEF RowStates, RowsOf
          <5>3. QED
            BY <5>2, <1>5
        <4>2. T # {}
          OBVIOUS
        <4>3. Min(T) \in T
          <5> HIDE DEF T
          <5>1. QED
            BY <4>1, <4>2, MinOfNaturals
        <4>4. QED
          BY <4>3 DEF Room
      <3>4. QED
        BY <3>2, <3>3, RuntimeAssumption
    <2>2. QED
      BY <1>4, <1>5, <1>6, <1>18, <2>1
  <1>20. ProdAt(n)'
    BY <1>18, <1>19 DEF ProdAt, Incoming
  <1>21. ASSUME NEW q \in RowsOf(n) PROVE RowAt(n, q)'
    <2>1. row[q].room \in Nat
      <3>1. row \in [RxPort -> RowStates]
        BY RelayTypes
      <3>2. QED
        BY <3>1, <1>5 DEF RowStates, RowsOf
    <2>2. least <= row[q].room
      BY <1>5, <1>6, <1>8, <2>1
    <2>3. QED
      BY <1>11, <1>16, <1>18, <2>2 DEF RowAt, RowPhases
  <1>22. ASSUME NEW k \in Incoming(n) PROVE LaneAt(n, k)' /\ LaneInStep(n, k)'
    <2>1. least <= win'[k].avail
      <3>1. win'[k].avail \in Nat
        BY DEF TxTypeOK, WinStates, Incoming
      <3>2. QED
        BY <1>4, <1>6, <1>8, <3>1
    <2>2. win'[k].phase \in LanePhases(prod'[n].pc, k \in prod'[n].todo)
      <3>1. k = l \/ (k \notin prod[n].todo => win'[k].phase = "sized")
        BY <1>11, <1>12 DEF Incoming
      <3>2. win'[k].phase \in {"idle", "sized"}
        BY <1>11, <1>12 DEF Incoming
      <3>3. QED
        BY <1>12, <1>18, <3>1, <3>2 DEF LanePhases
    <2>3. LaneAt(n, k)'
      <3>1. win'[k].phase # "held"
        BY <1>11, <1>12 DEF Incoming
      <3>2. QED
        BY <1>11, <1>16, <1>18, <2>1, <2>2, <3>1 DEF LaneAt
    <2>4. Lead(n, k) = 0 /\ Lead(n, k)' = 0
      BY <1>10, <1>18 DEF Lead
    <2>5. LaneInStep(n, k)'
      BY <1>11, <1>16, <1>17, <2>4 DEF LaneInStep
    <2>6. QED
      BY <2>3, <2>5
  <1>23. \A q, r \in RowsOf(n) : Announced(n, q)' = Announced(n, r)'
    BY <1>11, <1>15, <1>18 DEF Announced, RowsOf
  <1>24. QED
    BY <1>2, <1>10, <1>14, <1>20, <1>21, <1>22, <1>23 DEF NodeInv, RowsOf, Incoming

\* (D): the window of the slot, on every lane.
LEMMA ReadLaneStep ==
  ASSUME RelayInv, NEW n \in Node, NEW l \in Lane, ReadLane(n, l), TxInv'
  PROVE  /\ LaneWork(n, l) /\ NodeInv(n)' /\ prod' \in [Node -> Progress]
         /\ served' = served /\ received' = received
  <1> DEFINE c == prod[n].count
             after == Step("row", RowsOf(n), c)
  <1>1. TakeWindow(l, c) /\ Turn(n, "read", l, after)
    BY DEF ReadLane
  <1>2. UNCHANGED << rxVars, cursor, cursorInit, served, received >>
    BY DEF ReadLane, TakeWindow
  <1>3. NodeInv(n) /\ RelayTypeOK
    BY DEF RelayInv
  <1>4. after \in Progress
    <2>1. RowsOf(n) \in SUBSET (RxPort \cup Lane)
      BY DEF RowsOf
    <2>2. c \in 0 .. Batch
      BY <1>3 DEF RelayTypeOK
    <2>3. QED
      BY <2>1, <2>2 DEF Step, Progress, Steps
  <1>5. /\ prod[n].pc = "read" /\ l \in prod[n].todo
        /\ prod' \in [Node -> Progress]
        /\ \A m \in Node : m # n => prod'[m] = prod[m]
        /\ prod[n].todo = {l} => prod'[n] = after
        /\ prod[n].todo # {l} => /\ prod'[n].pc = "read"
                                 /\ prod'[n].todo = prod[n].todo \ {l}
                                 /\ prod'[n].count = c
    BY <1>1, <1>3, <1>4, TurnTaken
  <1>6. /\ prod[n].todo \subseteq Incoming(n) /\ c >= 1
        /\ \A q \in RowsOf(n) : /\ row[q].phase = "room" /\ row[q].room >= 1
                                /\ c <= row[q].room
        /\ \A k \in Incoming(n) :
             /\ win[k].phase \in IF k \in prod[n].todo THEN {"sized"} ELSE {"held"}
             /\ win[k].phase = "held" => win[k].n = c
             /\ k \in prod[n].todo => c <= win[k].avail
             /\ cursorInit[k]
             /\ LaneInStep(n, k)
        /\ \A q, r \in RowsOf(n) : Windows(q) = Windows(r)
    BY <1>3, <1>5 DEF NodeInv, ProdAt, RowAt, RowPhases, LaneAt, LanePhases, Announced
  <1>7. /\ \A k \in Lane : k # l => win'[k] = win[k]
        /\ win'[l].phase \in {"held", "threw"}
        /\ win'[l].n = c
    BY <1>1, RelayTypes DEF TakeWindow, WinStates
  <1>8. win'[l].phase = "held"
    BY <1>7 DEF TxInv, TxLaneInv, NoGapAt
  <1>9. LaneWork(n, l)
    BY <1>2, <1>5, <1>6, <1>7 DEF LaneWork
  <1>10. \A q \in RxPort : Windows(q)' = Windows(q)
    BY <1>9, LaneWorkRests
  <1>11. rxRing' = rxRing /\ row' = row /\ cursorInit' = cursorInit /\ cursor' = cursor
    BY <1>2 DEF rxVars
  <1>12. /\ prod'[n].pc \in {"read", "row"} /\ prod'[n].count = c
         /\ prod'[n].pc = "read" => /\ prod'[n].todo = prod[n].todo \ {l}
                                    /\ prod'[n].todo \subseteq Incoming(n)
         /\ prod'[n].pc = "row" => prod[n].todo = {l} /\ prod'[n].todo = RowsOf(n)
    BY <1>5, <1>6 DEF Step
  <1> HIDE DEF after, c
  <1>13. ProdAt(n)'
    BY <1>6, <1>12 DEF ProdAt, Incoming, RowsOf
  <1>14. \A q \in RowsOf(n) : RowAt(n, q)'
    BY <1>6, <1>11, <1>12 DEF RowAt, RowPhases
  <1>15. ASSUME NEW k \in Incoming(n) PROVE LaneAt(n, k)' /\ LaneInStep(n, k)'
    <2>1. /\ k \in prod'[n].todo /\ prod'[n].pc = "read" =>
               win'[k].phase = "sized" /\ win'[k] = win[k]
          /\ k \notin prod'[n].todo \/ prod'[n].pc = "row" =>
               win'[k].phase = "held" /\ win'[k].n = c
      BY <1>6, <1>7, <1>8, <1>12 DEF Incoming
    <2>2. LaneAt(n, k)'
      BY <1>6, <1>11, <1>12, <2>1 DEF LaneAt, LanePhases
    <2>3. Lead(n, k) = 0 /\ Lead(n, k)' = 0
      BY <1>5, <1>12 DEF Lead
    <2>4. LaneInStep(n, k)'
      BY <1>6, <1>11, <2>3 DEF LaneInStep
    <2>5. QED
      BY <2>2, <2>4
  <1>16. \A q, r \in RowsOf(n) : Announced(n, q)' = Announced(n, r)'
    BY <1>6, <1>10, <1>12 DEF Announced, RowsOf
  <1>17. QED
    BY <1>2, <1>5, <1>9, <1>13, <1>14, <1>15, <1>16 DEF NodeInv, RowsOf, Incoming

\* (F): the lane runs ahead of its RX port by the window to be published.
LEMMA AdvanceLaneStep ==
  ASSUME RelayInv, NEW n \in Node, NEW l \in Lane, AdvanceLane(n, l)
  PROVE  /\ LaneWork(n, l) /\ NodeInv(n)' /\ prod' \in [Node -> Progress]
         /\ served' = served /\ received' = received
  <1> DEFINE c == prod[n].count
             after == Step("publish", RowsOf(n), c)
  <1>1. Advance(l) /\ Turn(n, "advance", l, after)
    BY DEF AdvanceLane
  <1>2. UNCHANGED << rxVars, cursorInit, served, received >>
    BY DEF AdvanceLane, Advance
  <1>3. NodeInv(n) /\ RelayTypeOK
    BY DEF RelayInv
  <1>4. after \in Progress /\ c \in Nat
    <2>1. RowsOf(n) \in SUBSET (RxPort \cup Lane)
      BY DEF RowsOf
    <2>2. c \in 0 .. Batch
      BY <1>3 DEF RelayTypeOK
    <2>3. QED
      BY <2>1, <2>2 DEF Step, Progress, Steps
  <1>5. /\ prod[n].pc = "advance" /\ l \in prod[n].todo
        /\ prod' \in [Node -> Progress]
        /\ \A m \in Node : m # n => prod'[m] = prod[m]
        /\ prod[n].todo = {l} => prod'[n] = after
        /\ prod[n].todo # {l} => /\ prod'[n].pc = "advance"
                                 /\ prod'[n].todo = prod[n].todo \ {l}
                                 /\ prod'[n].count = c
    BY <1>1, <1>3, <1>4, TurnTaken
  <1>6. /\ prod[n].todo \subseteq Incoming(n) /\ c >= 1
        /\ \A q \in RowsOf(n) : row[q].phase = "full" /\ row[q].n = c
        /\ \A k \in Incoming(n) :
             /\ win[k].phase \in IF k \in prod[n].todo THEN {"held"} ELSE {"idle"}
             /\ win[k].phase = "held" => win[k].n = c
             /\ cursorInit[k]
             /\ cursor[k] = rxRing[Dst[k]].next + (IF k \in prod[n].todo THEN 0 ELSE c)
        /\ \A q, r \in RowsOf(n) : Windows(q) = Windows(r)
    BY <1>3, <1>5 DEF NodeInv, ProdAt, RowAt, RowPhases, LaneAt, LanePhases, Announced,
                      LaneInStep, Lead
  <1>7. /\ \A k \in Lane : k # l => win'[k] = win[k] /\ cursor'[k] = cursor[k]
        /\ win'[l] = NoWindow
        /\ cursor'[l] = cursor[l] + win[l].n
    BY <1>1, RelayTypes DEF Advance
  <1>8. LaneWork(n, l)
    BY <1>2, <1>5, <1>6, <1>7 DEF LaneWork
  <1>9. \A q \in RxPort : Windows(q)' = Windows(q)
    BY <1>8, LaneWorkRests
  <1>10. rxRing' = rxRing /\ row' = row /\ cursorInit' = cursorInit
    BY <1>2 DEF rxVars
  <1>11. /\ prod'[n].pc \in {"advance", "publish"} /\ prod'[n].count = c
         /\ prod'[n].pc = "advance" => /\ prod'[n].todo = prod[n].todo \ {l}
                                       /\ prod'[n].todo \subseteq Incoming(n)
         /\ prod'[n].pc = "publish" => prod[n].todo = {l} /\ prod'[n].todo = RowsOf(n)
    BY <1>5, <1>6 DEF Step
  <1> HIDE DEF after, c
  <1>12. ProdAt(n)'
    BY <1>6, <1>11 DEF ProdAt, Incoming, RowsOf
  <1>13. \A q \in RowsOf(n) : RowAt(n, q)'
    BY <1>6, <1>10, <1>11 DEF RowAt, RowPhases
  <1>14. ASSUME NEW k \in Incoming(n) PROVE LaneAt(n, k)' /\ LaneInStep(n, k)'
    <2>1. /\ k \in prod'[n].todo /\ prod'[n].pc = "advance" =>
               /\ win'[k].phase = "held" /\ win'[k].n = c
               /\ cursor'[k] = rxRing[Dst[k]].next
          /\ k \notin prod'[n].todo \/ prod'[n].pc = "publish" =>
               /\ win'[k].phase = "idle"
               /\ cursor'[k] = rxRing[Dst[k]].next + c
      <3>1. k \in Lane /\ rxRing[Dst[k]].next \in Nat
        BY RelayTypes, RelayAssumption DEF Incoming
      <3>2. CASE k = l
        BY <1>4, <1>5, <1>6, <1>7, <1>11, <3>1, <3>2 DEF NoWindow
      <3>3. CASE k # l
        BY <1>4, <1>5, <1>6, <1>7, <1>11, <3>1, <3>3
      <3>4. QED
        BY <3>2, <3>3
    <2>2. LaneAt(n, k)'
      BY <1>6, <1>10, <1>11, <2>1 DEF LaneAt, LanePhases
    <2>3. Dst[k] \in RowsOf(n) /\ rxRing[Dst[k]].next \in Nat
      BY RelayTypes, RelayAssumption DEF RowsOf, Incoming
    <2>4. LaneInStep(n, k)'
      BY <1>6, <1>10, <1>11, <2>1, <2>3 DEF LaneInStep, Lead
    <2>5. QED
      BY <2>2, <2>4
  <1>15. \A q, r \in RowsOf(n) : Announced(n, q)' = Announced(n, r)'
    BY <1>6, <1>9, <1>11 DEF Announced, RowsOf
  <1>16. QED
    BY <1>2, <1>5, <1>8, <1>12, <1>13, <1>14, <1>15 DEF NodeInv, RowsOf, Incoming

\* (E): storage for the window of the slot, ...
LEMMA ReserveRowStep ==
  ASSUME RelayInv, NEW n \in Node, NEW p \in RxPort, ReserveRow(n, p)
  PROVE  /\ RowWork(n, p) /\ NodeInv(n)' /\ prod' \in [Node -> Progress]
         /\ served' = served /\ received' = received
  <1> DEFINE c == prod[n].count
             after == Step("process", RowsOf(n), c)
  <1>1. Reserve(p, c) /\ Turn(n, "row", p, after)
    BY DEF ReserveRow
  <1>2. UNCHANGED << txVars, rxSlots, rep, served, received >>
    BY DEF ReserveRow, Reserve
  <1>3. NodeInv(n) /\ RelayTypeOK
    BY DEF RelayInv
  <1>4. after \in Progress
    <2>1. RowsOf(n) \in SUBSET (RxPort \cup Lane)
      BY DEF RowsOf
    <2>2. c \in 0 .. Batch
      BY <1>3 DEF RelayTypeOK
    <2>3. QED
      BY <2>1, <2>2 DEF Step, Progress, Steps
  <1>5. /\ prod[n].pc = "row" /\ p \in prod[n].todo
        /\ prod' \in [Node -> Progress]
        /\ \A m \in Node : m # n => prod'[m] = prod[m]
        /\ prod[n].todo = {p} => prod'[n] = after
        /\ prod[n].todo # {p} => /\ prod'[n].pc = "row"
                                 /\ prod'[n].todo = prod[n].todo \ {p}
                                 /\ prod'[n].count = c
    BY <1>1, <1>3, <1>4, TurnTaken
  <1>6. /\ prod[n].todo \subseteq RowsOf(n) /\ c >= 1
        /\ \A q \in RowsOf(n) :
             /\ row[q].phase \in IF q \in prod[n].todo THEN {"room"} ELSE {"fill"}
             /\ q \in prod[n].todo => c <= row[q].room
             /\ row[q].phase = "fill" => row[q].n = c
        /\ \A k \in Incoming(n) :
             /\ win[k].phase = "held" /\ win[k].n = c
             /\ cursorInit[k]
             /\ LaneInStep(n, k)
        /\ \A q, r \in RowsOf(n) : Windows(q) = Windows(r)
    BY <1>3, <1>5 DEF NodeInv, ProdAt, RowAt, RowPhases, LaneAt, LanePhases, Announced
  <1>7. /\ \A q \in RxPort : q # p => row'[q] = row[q]
        /\ row'[p].phase = "fill" /\ row'[p].n = c /\ row'[p].room = row[p].room
        /\ \A q \in RxPort : rxRing'[q].next = rxRing[q].next
    BY <1>1, RelayTypes DEF Reserve, SpanWrite, Ring
  <1>8. RowWork(n, p)
    BY <1>2, <1>5, <1>6, <1>7 DEF RowWork
  <1>9. /\ \A q \in RxPort : Windows(q)' = Windows(q)
        /\ \A l \in Lane : /\ win'[l] = win[l] /\ cursor'[l] = cursor[l]
                           /\ cursorInit'[l] = cursorInit[l]
    BY <1>8, RowWorkRests
  <1>10. /\ prod'[n].pc \in {"row", "process"} /\ prod'[n].count = c
         /\ prod'[n].pc = "row" => /\ prod'[n].todo = prod[n].todo \ {p}
                                   /\ prod'[n].todo \subseteq RowsOf(n)
         /\ prod'[n].pc = "process" => prod[n].todo = {p} /\ prod'[n].todo = RowsOf(n)
    BY <1>5, <1>6 DEF Step
  <1> HIDE DEF after, c
  <1>11. ProdAt(n)'
    BY <1>6, <1>10 DEF ProdAt, RowsOf, Incoming
  <1>12. ASSUME NEW q \in RowsOf(n) PROVE RowAt(n, q)'
    <2>1. /\ q \in prod'[n].todo /\ prod'[n].pc = "row" =>
               row'[q].phase = "room" /\ c <= row'[q].room
          /\ q \notin prod'[n].todo \/ prod'[n].pc = "process" =>
               row'[q].phase = "fill" /\ row'[q].n = c
      BY <1>6, <1>7, <1>10 DEF RowsOf
    <2>2. QED
      BY <1>10, <2>1 DEF RowAt, RowPhases
  <1>13. ASSUME NEW k \in Incoming(n) PROVE LaneAt(n, k)' /\ LaneInStep(n, k)'
    <2>1. k \in Lane /\ Dst[k] \in RxPort
      BY RelayAssumption DEF Incoming
    <2>2. LaneAt(n, k)'
      BY <1>6, <1>9, <1>10, <2>1 DEF LaneAt, LanePhases
    <2>3. Lead(n, k) = 0 /\ Lead(n, k)' = 0
      BY <1>5, <1>10 DEF Lead
    <2>4. LaneInStep(n, k)'
      BY <1>6, <1>7, <1>9, <2>1, <2>3 DEF LaneInStep
    <2>5. QED
      BY <2>2, <2>4
  <1>14. \A q, r \in RowsOf(n) : Announced(n, q)' = Announced(n, r)'
    BY <1>6, <1>9, <1>10 DEF Announced, RowsOf
  <1>15. QED
    BY <1>2, <1>5, <1>8, <1>11, <1>12, <1>13, <1>14 DEF NodeInv, RowsOf, Incoming

\* ... and the channel's output in it; without lanes the row is published next.
LEMMA ProcessRowStep ==
  ASSUME RelayInv, NEW n \in Node, NEW p \in RxPort, ProcessRow(n, p)
  PROVE  /\ RowWork(n, p) /\ NodeInv(n)' /\ prod' \in [Node -> Progress]
         /\ served' = served /\ received' = received
  <1> DEFINE c == prod[n].count
             after == IF Incoming(n) = {} THEN Step("publish", RowsOf(n), c)
                      ELSE Step("advance", Incoming(n), c)
  <1>1. Fill(p, [i \in 1 .. c |-> Superpose(p, i)]) /\ Turn(n, "process", p, after)
    BY DEF ProcessRow
  <1>2. UNCHANGED << txVars, rxSlots, rep, served, received >>
    BY DEF ProcessRow, Fill
  <1>3. NodeInv(n) /\ RelayTypeOK
    BY DEF RelayInv
  <1>4. after \in Progress
    <2>1. RowsOf(n) \in SUBSET (RxPort \cup Lane) /\ Incoming(n) \in SUBSET (RxPort \cup Lane)
      BY DEF RowsOf, Incoming
    <2>2. c \in 0 .. Batch
      BY <1>3 DEF RelayTypeOK
    <2>3. QED
      BY <2>1, <2>2 DEF Step, Progress, Steps
  <1>5. /\ prod[n].pc = "process" /\ p \in prod[n].todo
        /\ prod' \in [Node -> Progress]
        /\ \A m \in Node : m # n => prod'[m] = prod[m]
        /\ prod[n].todo = {p} => prod'[n] = after
        /\ prod[n].todo # {p} => /\ prod'[n].pc = "process"
                                 /\ prod'[n].todo = prod[n].todo \ {p}
                                 /\ prod'[n].count = c
    BY <1>1, <1>3, <1>4, TurnTaken
  <1>6. /\ prod[n].todo \subseteq RowsOf(n) /\ c >= 1
        /\ \A q \in RowsOf(n) :
             /\ row[q].phase \in IF q \in prod[n].todo THEN {"fill"} ELSE {"full"}
             /\ row[q].n = c
        /\ \A k \in Incoming(n) :
             /\ win[k].phase = "held" /\ win[k].n = c
             /\ cursorInit[k]
             /\ LaneInStep(n, k)
        /\ \A q, r \in RowsOf(n) : Windows(q) = Windows(r)
    BY <1>3, <1>5 DEF NodeInv, ProdAt, RowAt, RowPhases, LaneAt, LanePhases, Announced
  <1>7. /\ \A q \in RxPort : q # p => row'[q] = row[q]
        /\ row'[p].phase = "full" /\ row'[p].n = row[p].n
        /\ \A q \in RxPort : rxRing'[q].next = rxRing[q].next
    BY <1>1, RelayTypes DEF Fill, SpanWrite, Ring, RowStates
  <1>8. RowWork(n, p)
    BY <1>2, <1>5, <1>6, <1>7 DEF RowWork
  <1>9. /\ \A q \in RxPort : Windows(q)' = Windows(q)
        /\ \A l \in Lane : /\ win'[l] = win[l] /\ cursor'[l] = cursor[l]
                           /\ cursorInit'[l] = cursorInit[l]
    BY <1>8, RowWorkRests
  <1>10. /\ prod'[n].pc \in {"process", "advance", "publish"} /\ prod'[n].count = c
         /\ prod'[n].pc = "process" => /\ prod'[n].todo = prod[n].todo \ {p}
                                       /\ prod'[n].todo \subseteq RowsOf(n)
         /\ prod'[n].pc # "process" => prod[n].todo = {p}
         /\ prod'[n].pc = "advance" => prod'[n].todo = Incoming(n)
         /\ prod'[n].pc = "publish" => prod'[n].todo = RowsOf(n) /\ Incoming(n) = {}
    BY <1>5, <1>6 DEF Step
  <1> HIDE DEF after, c
  <1>11. ProdAt(n)'
    BY <1>6, <1>10 DEF ProdAt, RowsOf, Incoming
  <1>12. ASSUME NEW q \in RowsOf(n) PROVE RowAt(n, q)'
    <2>1. /\ q \in prod'[n].todo /\ prod'[n].pc = "process" =>
               row'[q].phase = "fill" /\ row'[q].n = c
          /\ q \notin prod'[n].todo \/ prod'[n].pc # "process" =>
               row'[q].phase = "full" /\ row'[q].n = c
      BY <1>6, <1>7, <1>10 DEF RowsOf
    <2>2. QED
      BY <1>10, <2>1 DEF RowAt, RowPhases
  <1>13. ASSUME NEW k \in Incoming(n) PROVE LaneAt(n, k)' /\ LaneInStep(n, k)'
    <2>1. k \in Lane /\ Dst[k] \in RxPort /\ prod'[n].pc # "publish"
      BY <1>10, RelayAssumption DEF Incoming
    <2>2. LaneAt(n, k)'
      BY <1>6, <1>9, <1>10, <2>1 DEF LaneAt, LanePhases
    <2>3. Lead(n, k) = 0 /\ Lead(n, k)' = 0
      BY <1>5, <1>10, <2>1 DEF Lead
    <2>4. LaneInStep(n, k)'
      BY <1>6, <1>7, <1>9, <2>1, <2>3 DEF LaneInStep
    <2>5. QED
      BY <2>2, <2>4
  <1>14. \A q, r \in RowsOf(n) : Announced(n, q)' = Announced(n, r)'
    <2>1. \A q \in RowsOf(n) : Announced(n, q)' =
            IF prod'[n].pc = "publish" THEN Append(Windows(q), c) ELSE Windows(q)
      BY <1>9, <1>10 DEF Announced, RowsOf
    <2>2. QED
      BY <1>6, <2>1
  <1>15. QED
    BY <1>2, <1>5, <1>8, <1>11, <1>12, <1>13, <1>14 DEF NodeInv, RowsOf, Incoming

\* A window appended to the queue is appended to the windows so far.
LEMMA ConcatAppend ==
  ASSUME NEW S, NEW s \in Seq(S), NEW t \in Seq(S), NEW e \in S
  PROVE  s \o Append(t, e) = Append(s \o t, e)
  OBVIOUS

LEMMA TailAppend ==
  ASSUME NEW S, NEW s \in Seq(S), s # << >>, NEW e \in S
  PROVE  Tail(Append(s, e)) = Append(Tail(s), e)
  OBVIOUS

\* What the invariant says of the windows of a port that are not sent yet.
LEMMA WindowTypes ==
  ASSUME RelayInv, NEW p \in RxPort
  PROVE  /\ served[p] \in Seq(Nat) /\ rxSlots[p] \in Seq(Nat) /\ rep[p].take \in Nat
         /\ rep[p].phase = "release" => rxSlots[p] # << >> /\ rep[p].take = Head(rxSlots[p])
         /\ rep[p].phase = "send" /\ rep[p].inRing =>
              rxSlots[p] # << >> /\ rep[p].take = Head(rxSlots[p])
         /\ Unsent(p) \in Seq(Nat)
  <1>1. served[p] \in Seq(Nat)
    BY DEF RelayInv, RelayTypeOK
  <1>2. Batch \in Nat
    BY RuntimeAssumption
  <1>3. rxSlots[p] \in Seq(Nat)
    <2>1. rxSlots[p] \in Seq(1 .. Batch)
      BY DEF RelayInv, RxInv, RxTypeOK
    <2>2. QED
      BY <1>2, <2>1
  <1>4. rep[p].take \in Nat
    <2>1. rep \in [RxPort -> RepStates]
      BY DEF RelayInv, RxInv, RxTypeOK
    <2>2. QED
      BY <1>2, <2>1 DEF RepStates
  <1>5. RxRepInv(p)
    BY DEF RelayInv, RxInv, RxPortInv
  <1>6. /\ rep[p].phase = "release" => rxSlots[p] # << >> /\ rep[p].take = Head(rxSlots[p])
        /\ rep[p].phase = "send" /\ rep[p].inRing =>
             rxSlots[p] # << >> /\ rep[p].take = Head(rxSlots[p])
    BY <1>5 DEF RxRepInv, Viewing
  <1>7. Unsent(p) \in Seq(Nat)
    <2>1. rep[p].phase = "release" => Tail(rxSlots[p]) \in Seq(Nat)
      BY <1>3, <1>6
    <2>2. << rep[p].take >> \o rxSlots[p] \in Seq(Nat)
      BY <1>3, <1>4
    <2>3. QED
      BY <1>3, <2>1, <2>2 DEF Unsent
  <1>8. QED
    BY <1>1, <1>3, <1>4, <1>6, <1>7

\* The queue of p grows by a window of n samples.
LEMMA WindowQueued ==
  ASSUME RelayInv, NEW p \in RxPort, NEW n \in Nat,
         rxSlots'[p] = Append(rxSlots[p], n), rep' = rep, served' = served
  PROVE  Windows(p)' = Append(Windows(p), n)
  <1>1. /\ served[p] \in Seq(Nat) /\ rxSlots[p] \in Seq(Nat) /\ rep[p].take \in Nat
        /\ rep[p].phase = "release" => rxSlots[p] # << >>
        /\ Unsent(p) \in Seq(Nat)
    BY WindowTypes
  <1>2. Unsent(p)' = Append(Unsent(p), n)
    <2>1. CASE rep[p].phase = "release"
      <3>1. Tail(Append(rxSlots[p], n)) = Append(Tail(rxSlots[p]), n)
        BY <1>1, <2>1, TailAppend
      <3>2. QED
        BY <2>1, <3>1 DEF Unsent
    <2>2. CASE rep[p].phase = "send" /\ ~rep[p].inRing
      <3>1. << rep[p].take >> \in Seq(Nat)
        BY <1>1
      <3>2. << rep[p].take >> \o Append(rxSlots[p], n) = Append(<< rep[p].take >> \o rxSlots[p], n)
        BY <1>1, <3>1, ConcatAppend
      <3>3. QED
        BY <2>2, <3>2 DEF Unsent
    <2>3. CASE rep[p].phase # "release" /\ ~(rep[p].phase = "send" /\ ~rep[p].inRing)
      BY <2>3 DEF Unsent
    <2>4. QED
      BY <2>1, <2>2, <2>3
  <1>3. served[p] \o Append(Unsent(p), n) = Append(served[p] \o Unsent(p), n)
    <2>1. \A s, t \in Seq(Nat), e \in Nat : s \o Append(t, e) = Append(s \o t, e)
      BY ConcatAppend
    <2>2. QED
      BY <1>1, <2>1
  <1>4. QED
    BY <1>2, <1>3 DEF Windows

\* (H): the window becomes visible and its RX port catches up with the lanes;
\* the ring cannot reject it.
LEMMA PublishRowStep ==
  ASSUME RelayInv, NEW n \in Node, NEW p \in RxPort, PublishRow(n, p), RxInv'
  PROVE  /\ \A m \in Node : m # n => Untouched(m)
         /\ NodeInv(n)' /\ prod' \in [Node -> Progress]
         /\ served' = served /\ received' = received
  <1> DEFINE c == prod[n].count
             after == Step("room", RowsOf(n), 0)
  <1>1. Publish(p) /\ Turn(n, "publish", p, after)
    BY DEF PublishRow
  <1>2. UNCHANGED << txVars, rep, served, received >>
    BY DEF PublishRow, Publish
  <1>3. NodeInv(n) /\ RelayTypeOK
    BY DEF RelayInv
  <1>4. after \in Progress /\ c \in Nat
    <2>1. RowsOf(n) \in SUBSET (RxPort \cup Lane)
      BY DEF RowsOf
    <2>2. c \in 0 .. Batch /\ 0 \in 0 .. Batch /\ Batch \in Nat
      BY <1>3, RuntimeAssumption DEF RelayTypeOK
    <2>3. QED
      BY <2>1, <2>2 DEF Step, Progress, Steps
  <1>5. /\ prod[n].pc = "publish" /\ p \in prod[n].todo
        /\ prod' \in [Node -> Progress]
        /\ \A m \in Node : m # n => prod'[m] = prod[m]
        /\ prod[n].todo = {p} => prod'[n] = after
        /\ prod[n].todo # {p} => /\ prod'[n].pc = "publish"
                                 /\ prod'[n].todo = prod[n].todo \ {p}
                                 /\ prod'[n].count = c
    BY <1>1, <1>3, <1>4, TurnTaken
  <1>6. /\ prod[n].todo \subseteq RowsOf(n) /\ c >= 1
        /\ \A q \in RowsOf(n) :
             /\ row[q].phase \in IF q \in prod[n].todo THEN {"full"} ELSE {"idle"}
             /\ row[q].phase = "full" => row[q].n = c
        /\ \A k \in Incoming(n) :
             /\ win[k].phase \in {"idle", "sized"}
             /\ cursorInit[k]
             /\ cursor[k] = rxRing[Dst[k]].next + (IF Dst[k] \in prod[n].todo THEN c ELSE 0)
        /\ \A q, r \in RowsOf(n) : Announced(n, q) = Announced(n, r)
    BY <1>3, <1>5 DEF NodeInv, ProdAt, RowAt, RowPhases, LaneAt, LanePhases,
                      LaneInStep, Lead
  <1>7. row[p].n = c /\ row[p].phase = "full"
    BY <1>5, <1>6
  <1>8. row[p].inRing \/ PushFits(rxRing[p], c)
    <2>1. row'[p].phase # "threw"
      BY DEF RxInv, RxPortInv, NoThrowAt
    <2>2. QED
      BY <1>1, <1>7, <2>1, RelayTypes DEF Publish, NoRow
  <1>9. /\ \A q \in RxPort : q # p => row'[q] = row[q]
        /\ row'[p] = NoRow
    BY <1>1, <1>7, <1>8, RelayTypes DEF Publish
  <1>10. /\ \A q \in RxPort : q # p => rxSlots'[q] = rxSlots[q]
         /\ rxSlots'[p] = Append(rxSlots[p], c)
    <2>1. rxSlots' = [rxSlots EXCEPT ![p] = Append(@, c)]
      BY <1>1, <1>7, <1>8 DEF Publish
    <2>2. rxSlots \in [RxPort -> Seq(1 .. Batch)]
      BY DEF RelayInv, RxInv, RxTypeOK
    <2>3. QED
      BY <2>1, <2>2
  <1>11. /\ \A q \in RxPort : q # p => rxRing'[q] = rxRing[q]
         /\ rxRing'[p].next = rxRing[p].next + c
    <2>1. /\ rxRing \in [RxPort -> RingOf(RxCapacity, Sample)]
          /\ rxRing' = [rxRing EXCEPT ![p] = IF row[p].inRing
                                             THEN RingCommit(@, c)
                                             ELSE RingPush(@, row[p].data)]
      BY <1>1, <1>7, RelayTypes DEF Publish
    <2>2. CASE row[p].inRing
      BY <2>1, <2>2 DEF RingCommit, Ring
    <2>3. CASE ~row[p].inRing
      <3>1. row[p].data = [i \in 1 .. c |-> Row(p, rxRing[p].next + i - 1)]
        BY <1>7, <2>3 DEF RelayInv, RxInv, RxPortInv, RxRowInv
      <3>2. Len(row[p].data) = c /\ row[p].data # << >>
        BY <1>4, <1>6, <3>1
      <3>3. rxRing'[p] = RingPush(rxRing[p], row[p].data)
        BY <2>1, <2>3
      <3>4. RingPush(rxRing[p], row[p].data).next = rxRing[p].next + c
        BY <1>8, <2>3, <3>2 DEF RingPush, Ring
      <3>5. QED
        BY <2>1, <3>3, <3>4
    <2>4. QED
      BY <2>2, <2>3
  <1>12. \A q \in RxPort : q # p => Windows(q)' = Windows(q)
    BY <1>2, <1>10 DEF Windows, Unsent
  <1>13. Windows(p)' = Append(Windows(p), c)
    BY <1>2, <1>4, <1>10, WindowQueued
  <1>14. \A l \in Lane : /\ win'[l] = win[l] /\ cursor'[l] = cursor[l]
                         /\ cursorInit'[l] = cursorInit[l]
    BY <1>2 DEF txVars, laneVars
  <1>15. p \in RowsOf(n)
    BY <1>5, <1>6
  <1>16. ASSUME NEW m \in Node, m # n PROVE Untouched(m)
    BY <1>5, <1>9, <1>11, <1>12, <1>14, <1>15, <1>16 DEF RowsOf, Incoming, Untouched
  <1>17. /\ prod'[n].pc \in {"publish", "room"}
         /\ prod'[n].pc = "publish" => /\ prod'[n].todo = prod[n].todo \ {p}
                                       /\ prod'[n].count = c
         /\ prod'[n].pc = "room" => prod[n].todo = {p} /\ prod'[n].todo = RowsOf(n)
    BY <1>5, <1>6 DEF Step
  <1> HIDE DEF after, c
  <1>18. ProdAt(n)'
    BY <1>6, <1>17 DEF ProdAt, RowsOf, Incoming
  <1>19. ASSUME NEW q \in RowsOf(n) PROVE RowAt(n, q)'
    <2>1. /\ q \in prod'[n].todo /\ prod'[n].pc = "publish" =>
               row'[q].phase = "full" /\ row'[q].n = c
          /\ q \notin prod'[n].todo \/ prod'[n].pc = "room" => row'[q].phase = "idle"
      BY <1>6, <1>9, <1>17 DEF RowsOf, NoRow
    <2>2. QED
      BY <1>17, <2>1 DEF RowAt, RowPhases
  <1>20. ASSUME NEW k \in Incoming(n) PROVE LaneAt(n, k)' /\ LaneInStep(n, k)'
    <2>1. k \in Lane /\ Dst[k] \in RxPort /\ rxRing[Dst[k]].next \in Nat
      BY RelayTypes, RelayAssumption DEF Incoming
    <2>2. LaneAt(n, k)'
      BY <1>6, <1>14, <1>17, <2>1 DEF LaneAt, LanePhases
    <2>3. Lead(n, k)' = IF prod'[n].pc = "publish" /\ Dst[k] \in prod'[n].todo THEN c ELSE 0
      BY <1>17 DEF Lead
    <2>4. Dst[k] \in RowsOf(n)
      BY RelayAssumption DEF Incoming, RowsOf
    <2>5. cursor[k] = rxRing'[Dst[k]].next + Lead(n, k)'
      <3>1. CASE Dst[k] = p
        BY <1>4, <1>5, <1>6, <1>11, <1>17, <2>1, <2>3, <3>1
      <3>2. CASE Dst[k] # p
        BY <1>6, <1>11, <1>17, <2>1, <2>3, <2>4, <3>2
      <3>3. QED
        BY <3>1, <3>2
    <2>6. LaneInStep(n, k)'
      BY <1>6, <1>14, <2>1, <2>5 DEF LaneInStep
    <2>7. QED
      BY <2>2, <2>6
  <1>21. ASSUME NEW q \in RowsOf(n) PROVE Announced(n, q)' = Announced(n, q)
    <2>1. CASE q = p
      BY <1>5, <1>13, <1>17, <2>1 DEF Announced, c
    <2>2. CASE q # p
      BY <1>5, <1>12, <1>17, <2>2 DEF Announced, RowsOf, c
    <2>3. QED
      BY <2>1, <2>2
  <1>22. \A q, r \in RowsOf(n) : Announced(n, q)' = Announced(n, r)'
    BY <1>6, <1>21
  <1>23. QED
    BY <1>2, <1>5, <1>16, <1>18, <1>19, <1>20, <1>22 DEF NodeInv, RowsOf, Incoming

(***************************************************************************)
(* The threads and radios at the ports: what a node has done so far, and   *)
(* the windows it has announced, stay as they are.                         *)
(***************************************************************************)
LEMMA SentWindow ==
  ASSUME NEW S, NEW s \in Seq(S), NEW t \in Seq(S), NEW e \in S
  PROVE  Append(s, e) \o t = s \o (<< e >> \o t)
  OBVIOUS

LEMMA FirstAndRest ==
  ASSUME NEW S, NEW s \in Seq(S), s # << >>
  PROVE  << Head(s) >> \o Tail(s) = s
  OBVIOUS

\* A step of the REP worker of p, or of its peer, that keeps the windows of p.
PortWork(p) ==
  /\ UNCHANGED << txVars, row, prod >>
  /\ Windows(p)' = Windows(p)
  /\ \A q \in RxPort : /\ rxRing'[q].next = rxRing[q].next
                       /\ q # p => /\ rxSlots'[q] = rxSlots[q] /\ rep'[q] = rep[q]
                                   /\ served'[q] = served[q]

LEMMA PortWorkRests ==
  ASSUME RelayInv, NEW p \in RxPort, PortWork(p)
  PROVE  \A m \in Node : Untouched(m)
  <1>1. \A q \in RxPort : Windows(q)' = Windows(q)
    BY DEF PortWork, Windows, Unsent
  <1>2. QED
    BY <1>1 DEF PortWork, Untouched, txVars, laneVars, RowsOf, Incoming

LEMMA ReleaseKeepsNext ==
  ASSUME RelayInv, NEW p \in RxPort, NEW n, ReleaseWindow(p, n)
  PROVE  /\ \A q \in RxPort : rxRing'[q].next = rxRing[q].next
         /\ \A q \in RxPort : q # p => rxSlots'[q] = rxSlots[q]
         /\ rxSlots'[p] = Tail(rxSlots[p])
  <1>1. /\ rxRing \in [RxPort -> RingOf(RxCapacity, Sample)]
        /\ rxSlots \in [RxPort -> Seq(1 .. Batch)]
    BY DEF RelayInv, RxInv, RxTypeOK
  <1>2. \A q : DiscardBefore(rxRing[p], q).next = rxRing[p].next
    BY DEF DiscardBefore, Ring
  <1>3. QED
    BY <1>1, <1>2 DEF ReleaseWindow

LEMMA TakeRests ==
  ASSUME RelayInv, NEW p \in RxPort, RepTake(p), UNCHANGED << txVars, prod, served >>
  PROVE  PortWork(p)
  <1>1. /\ rep[p].phase = "wait_row" /\ rxSlots[p] # << >> /\ row' = row
        /\ \A q \in RxPort : q # p => rep'[q] = rep[q]
    <2>1. rep[p].phase = "wait_row" /\ rxSlots[p] # << >> /\ row' = row
      BY DEF RepTake
    <2>2. \E w : rep' = [rep EXCEPT ![p] = w]
      BY DEF RepTake
    <2>3. DOMAIN rep = RxPort
      BY DEF RelayInv, RxInv, RxTypeOK
    <2>4. QED
      BY <2>1, <2>2, <2>3
  <1>2. /\ served[p] \in Seq(Nat) /\ rxSlots[p] \in Seq(Nat)
        /\ rep \in [RxPort -> RepStates]
    BY WindowTypes DEF RelayInv, RxInv, RxTypeOK
  <1>3. CASE /\ UNCHANGED << rxRing, rxSlots, rxCursor >>
             /\ rep'[p].phase = "threw" \/ (rep'[p].phase = "send" /\ rep'[p].inRing)
    <2>1. Windows(p)' = Windows(p)
      BY <1>1, <1>3 DEF Windows, Unsent
    <2>2. QED
      BY <1>1, <1>3, <2>1 DEF PortWork
  <1>4. CASE /\ ReleaseWindow(p, Head(rxSlots[p]))
             /\ rep'[p] = [phase |-> "send", take |-> Head(rxSlots[p]), inRing |-> FALSE,
                           at |-> 0, data |-> RingRead(rxRing[p], rxCursor[p], Head(rxSlots[p]))]
    <2>1. /\ \A q \in RxPort : rxRing'[q].next = rxRing[q].next
          /\ \A q \in RxPort : q # p => rxSlots'[q] = rxSlots[q]
          /\ rxSlots'[p] = Tail(rxSlots[p])
      BY <1>4, ReleaseKeepsNext
    <2>2. << Head(rxSlots[p]) >> \o Tail(rxSlots[p]) = rxSlots[p]
      BY <1>1, <1>2, FirstAndRest
    <2>3. Unsent(p)' = rxSlots[p] /\ Unsent(p) = rxSlots[p]
      BY <1>1, <1>4, <2>1, <2>2 DEF Unsent
    <2>4. QED
      BY <1>1, <2>1, <2>3 DEF PortWork, Windows
  <1>5. QED
    <2>1. CASE /\ UNCHANGED << rxRing, rxSlots, rxCursor >>
               /\ rep' = [rep EXCEPT ![p].phase = "threw"]
      BY <1>2, <1>3, <2>1 DEF RepStates
    <2>2. CASE /\ UNCHANGED << rxRing, rxSlots, rxCursor >>
               /\ rep' = [rep EXCEPT ![p] =
                           [phase |-> "send", take |-> Head(rxSlots[p]), inRing |-> TRUE,
                            at |-> CellOf(rxRing[p], rxCursor[p]), data |-> << >>]]
      BY <1>2, <1>3, <2>2
    <2>3. CASE /\ ReleaseWindow(p, Head(rxSlots[p]))
               /\ rep' = [rep EXCEPT ![p] =
                           [phase |-> "send", take |-> Head(rxSlots[p]), inRing |-> FALSE, at |-> 0,
                            data |-> RingRead(rxRing[p], rxCursor[p], Head(rxSlots[p]))]]
      BY <1>2, <1>4, <2>3
    <2>4. QED
      BY <2>1, <2>2, <2>3 DEF RepTake

LEMMA SendRests ==
  ASSUME RelayInv, NEW p \in RxPort, RepSend(p), UNCHANGED << txVars, prod >>,
         served' = [served EXCEPT ![p] = Append(@, rep[p].take)]
  PROVE  PortWork(p)
  <1>1. /\ rep[p].phase = "send" /\ row' = row /\ rxSlots' = rxSlots /\ rxRing' = rxRing
        /\ \A q \in RxPort : q # p => rep'[q] = rep[q]
    BY DEF RepSend
  <1>2. /\ served[p] \in Seq(Nat) /\ rxSlots[p] \in Seq(Nat) /\ rep[p].take \in Nat
        /\ rep[p].inRing => rxSlots[p] # << >> /\ rep[p].take = Head(rxSlots[p])
        /\ rep \in [RxPort -> RepStates]
        /\ served \in [RxPort -> Seq(Nat)]
    BY <1>1, WindowTypes DEF RelayInv, RxInv, RxTypeOK, RelayTypeOK
  <1>3. /\ served'[p] = Append(served[p], rep[p].take)
        /\ \A q \in RxPort : q # p => served'[q] = served[q]
    BY <1>2
  <1>4. Windows(p)' = Windows(p)
    <2>1. CASE rep[p].inRing
      <3>1. rep'[p].phase = "release"
        BY <1>1, <1>2, <2>1 DEF RepSend, RepStates
      <3>2. << Head(rxSlots[p]) >> \o Tail(rxSlots[p]) = rxSlots[p]
        BY <1>2, <2>1, FirstAndRest
      <3>3. Tail(rxSlots[p]) \in Seq(Nat)
        BY <1>2, <2>1
      <3>4. Append(served[p], rep[p].take) \o Tail(rxSlots[p]) = served[p] \o rxSlots[p]
        <4>1. \A s, t \in Seq(Nat), e \in Nat : Append(s, e) \o t = s \o (<< e >> \o t)
          BY SentWindow
        <4>2. Append(served[p], rep[p].take) \o Tail(rxSlots[p])
                = served[p] \o (<< rep[p].take >> \o Tail(rxSlots[p]))
          BY <1>2, <3>3, <4>1
        <4>3. QED
          BY <1>2, <2>1, <3>2, <4>2
      <3>5. QED
        BY <1>1, <1>3, <2>1, <3>1, <3>4 DEF Windows, Unsent
    <2>2. CASE ~rep[p].inRing
      <3>1. rep'[p] = NoReply
        BY <1>1, <1>2, <2>2 DEF RepSend
      <3>2. Append(served[p], rep[p].take) \o rxSlots[p]
              = served[p] \o (<< rep[p].take >> \o rxSlots[p])
        <4>1. \A s, t \in Seq(Nat), e \in Nat : Append(s, e) \o t = s \o (<< e >> \o t)
          BY SentWindow
        <4>2. QED
          BY <1>2, <4>1
      <3>3. QED
        <4>1. Unsent(p)' = rxSlots[p] /\ Unsent(p) = << rep[p].take >> \o rxSlots[p]
          BY <1>1, <2>2, <3>1 DEF Unsent, NoReply
        <4>2. QED
          BY <1>3, <3>2, <4>1 DEF Windows
    <2>3. QED
      BY <2>1, <2>2
  <1>5. QED
    BY <1>1, <1>3, <1>4 DEF PortWork

LEMMA ReleaseRests ==
  ASSUME RelayInv, NEW p \in RxPort, RepRelease(p), UNCHANGED << txVars, prod, served >>
  PROVE  PortWork(p)
  <1>1. /\ rep[p].phase = "release" /\ row' = row /\ ReleaseWindow(p, rep[p].take)
        /\ \A q \in RxPort : q # p => rep'[q] = rep[q]
    BY DEF RepRelease
  <1>2. rep'[p] = NoReply
    BY DEF RepRelease, RelayInv, RxInv, RxTypeOK
  <1>3. /\ \A q \in RxPort : rxRing'[q].next = rxRing[q].next
        /\ \A q \in RxPort : q # p => rxSlots'[q] = rxSlots[q]
        /\ rxSlots'[p] = Tail(rxSlots[p])
    BY <1>1, ReleaseKeepsNext
  <1>4. Windows(p)' = Windows(p)
    <2>1. Unsent(p)' = rxSlots'[p] /\ Unsent(p) = Tail(rxSlots[p])
      BY <1>1, <1>2 DEF Unsent, NoReply
    <2>2. QED
      BY <1>3, <2>1 DEF Windows
  <1>5. QED
    BY <1>1, <1>3, <1>4 DEF PortWork

\* The REP worker of p, and the radio that asks it.
LEMMA PortSide ==
  ASSUME RelayInv, NEW p \in RxPort, RepWorker(p) \/ RadioReceive(p)
  PROVE  /\ \A m \in Node : Untouched(m)
         /\ prod' = prod
         /\ received' \in [RxPort -> Nat] /\ served' \in [RxPort -> Seq(Nat)]
         /\ RxRepWorker(p) /\ UNCHANGED txVars
  <1>1. /\ received \in [RxPort -> Nat] /\ served \in [RxPort -> Seq(Nat)]
        /\ rep[p].take \in Nat
    BY WindowTypes DEF RelayInv, RelayTypeOK
  <1>2. CASE RepTake(p) /\ UNCHANGED << txVars, relayVars >>
    <2>1. PortWork(p)
      BY <1>2, TakeRests DEF relayVars
    <2>2. QED
      BY <1>1, <1>2, <2>1, PortWorkRests DEF relayVars, RxRepWorker
  <1>3. CASE RepRelease(p) /\ UNCHANGED << txVars, relayVars >>
    <2>1. PortWork(p)
      BY <1>3, ReleaseRests DEF relayVars
    <2>2. QED
      BY <1>1, <1>3, <2>1, PortWorkRests DEF relayVars, RxRepWorker
  <1>4. CASE /\ RepSend(p)
             /\ received' = [received EXCEPT ![p] = @ + rep[p].take]
             /\ served' = [served EXCEPT ![p] = Append(@, rep[p].take)]
             /\ UNCHANGED << txVars, prod >>
    <2>1. PortWork(p)
      BY <1>4, SendRests
    <2>2. received' \in [RxPort -> Nat] /\ served' \in [RxPort -> Seq(Nat)]
      BY <1>1, <1>4
    <2>3. QED
      BY <1>4, <2>1, <2>2, PortWorkRests DEF RxRepWorker
  <1>5. CASE RepRequest(p) /\ UNCHANGED << txVars, relayVars >>
    <2>1. /\ rep \in [RxPort -> RepStates]
          /\ rep[p].phase = "wait_req"
          /\ rep' = [rep EXCEPT ![p].phase = "wait_row"]
          /\ UNCHANGED << rxRing, rxSlots, row, prod, served, txVars >>
      BY <1>5 DEF RepRequest, relayVars, RelayInv, RxInv, RxTypeOK
    <2>2. Windows(p)' = Windows(p)
      BY <2>1 DEF Windows, Unsent, RepStates
    <2>3. PortWork(p)
      BY <2>1, <2>2 DEF PortWork
    <2>4. QED
      BY <1>1, <1>5, <2>3, PortWorkRests DEF relayVars, RxRepWorker
  <1>6. QED
    BY <1>2, <1>3, <1>4, <1>5 DEF RepWorker, RadioReceive

(***************************************************************************)
(* Every step of the relay is a step of the receive side and a step of the *)
(* transmit side as those modules specify them, or leaves that side alone. *)
(***************************************************************************)

\* (E): what the channel reads from the lanes of a row is the row of the next
\* samples, because lanes and row stand at the same sample.
LEMMA RowIsAligned ==
  ASSUME RelayInv, NEW n \in Node, NEW p \in RxPort, ProcessRow(n, p)
  PROVE  Fill(p, RowValues(p))
  <1> DEFINE c == prod[n].count
  <1>1. /\ prod[n].pc = "process" /\ p \in prod[n].todo
        /\ Fill(p, [i \in 1 .. c |-> Superpose(p, i)])
    BY DEF ProcessRow, Turn
  <1>2. /\ p \in RowsOf(n) /\ row[p].phase = "fill" /\ row[p].n = c
        /\ \A k \in Incoming(n) : /\ win[k].phase = "held" /\ win[k].n = c
                                  /\ cursorInit[k] /\ LaneInStep(n, k)
    BY <1>1 DEF RelayInv, NodeInv, ProdAt, RowAt, RowPhases, LaneAt, LanePhases
  <1>3. /\ rxRing[p].next + c <= MaxRxSeq /\ rxRing[p].next \in Nat
        /\ c \in Nat /\ MaxRxSeq \in Nat
    <2>1. RxRowInv(p)
      BY DEF RelayInv, RxInv, RxPortInv
    <2>2. c \in 0 .. Batch /\ Batch \in Nat
      BY RuntimeAssumption DEF RelayInv, RelayTypeOK
    <2>3. QED
      BY <1>2, <2>1, <2>2, RelayTypes, RxAssumption DEF RxRowInv
  <1> HIDE DEF c
  <1>4. ASSUME NEW i \in 1 .. c
        PROVE  Superpose(p, i) = Row(p, rxRing[p].next + i - 1)
    <2>1. rxRing[p].next + i - 1 \in 0 .. MaxRxSeq
      BY <1>3
    <2>2. Row(p, rxRing[p].next + i - 1) = AlignedRow(p, rxRing[p].next + i - 1)
      BY <2>1, RelayAssumption
    <2>3. ASSUME NEW l \in LanesInto(p)
          PROVE  LaneInput(l)[i] = Wave(Src[l], rxRing[p].next + i - 1)
      <3>1. l \in Incoming(n) /\ l \in Lane /\ Dst[l] = p
        BY <1>2 DEF LanesInto, Incoming, RowsOf
      <3>2. cursor[l] = rxRing[p].next
        <4>1. Lead(n, l) = 0
          BY <1>1 DEF Lead
        <4>2. QED
          BY <1>2, <1>3, <3>1, <4>1 DEF LaneInStep
      <3>3. LaneInput(l) = [j \in 1 .. win[l].n |-> Wave(Src[l], cursor[l] + j - 1)]
        BY <1>2, <3>1, HeldIsStream DEF RelayInv
      <3>4. QED
        BY <1>2, <3>1, <3>2, <3>3
    <2>4. QED
      BY <2>2, <2>3 DEF Superpose, AlignedRow
  <1>5. [i \in 1 .. c |-> Superpose(p, i)] = RowValues(p)
    BY <1>2, <1>4 DEF RowValues
  <1>6. QED
    BY <1>1, <1>5 DEF c

LEMMA RxSide ==
  ASSUME RelayInv, [Next]_vars
  PROVE  [RxNext]_rxVars
  <1>1. CASE UNCHANGED vars
    BY <1>1 DEF vars
  <1>2. ASSUME NEW n \in Node, NEW l \in Lane,
               InitLane(n, l) \/ MeasureLane(n, l) \/ ReadLane(n, l) \/ AdvanceLane(n, l)
        PROVE  UNCHANGED rxVars
    BY <1>2 DEF InitLane, MeasureLane, ReadLane, AdvanceLane
  <1>3. ASSUME NEW n \in Node, NEW p \in RxPort,
               AskRoom(n, p) \/ ReserveRow(n, p) \/ ProcessRow(n, p) \/ PublishRow(n, p)
        PROVE  RxNext
    <2>1. ASSUME ReserveRow(n, p) PROVE RxProducer(p)
      <3>1. prod[n].pc = "row" /\ p \in prod[n].todo
        BY <2>1 DEF ReserveRow, Turn
      <3>2. NodeInv(n) /\ prod[n].count \in 0 .. Batch /\ row[p].room \in 0 .. Batch
            /\ Batch \in Nat
        <4>1. row \in [RxPort -> RowStates]
          BY RelayTypes
        <4>2. QED
          BY <4>1, RuntimeAssumption DEF RelayInv, RelayTypeOK, RowStates
      <3>3. prod[n].count \in 1 .. row[p].room
        BY <3>1, <3>2 DEF NodeInv, ProdAt, RowAt
      <3>4. rxRing[p].next + prod[n].count <= MaxRxSeq /\ Reserve(p, prod[n].count)
        BY <2>1 DEF ReserveRow
      <3>5. QED
        BY <3>3, <3>4 DEF RxProducer
    <2>2. ASSUME ProcessRow(n, p) PROVE RxProducer(p)
      BY <2>2, RowIsAligned DEF RxProducer
    <2>3. QED
      BY <1>3, <2>1, <2>2 DEF RxNext, RxProducer, AskRoom, PublishRow
  <1>4. ASSUME NEW p \in TxPort,
               PullerStep(p) \/ \E n \in MsgSizes : RadioSend(p, n)
        PROVE  UNCHANGED rxVars
    BY <1>4 DEF PullerStep, RadioSend
  <1>5. ASSUME NEW p \in RxPort, RepWorker(p) \/ RadioReceive(p)
        PROVE  RxNext
    BY <1>5, PortSide DEF RxNext
  <1>6. QED
    BY <1>1, <1>2, <1>3, <1>4, <1>5 DEF Next, Producer

LEMMA TxSide ==
  ASSUME RelayInv, [Next]_vars
  PROVE  [TxNext]_txVars
  <1>1. CASE UNCHANGED vars
    BY <1>1 DEF vars
  <1>2. ASSUME NEW n \in Node, NEW p \in RxPort,
               AskRoom(n, p) \/ ReserveRow(n, p) \/ ProcessRow(n, p) \/ PublishRow(n, p)
        PROVE  UNCHANGED txVars
    BY <1>2 DEF AskRoom, ReserveRow, ProcessRow, PublishRow
  <1>3. ASSUME NEW n \in Node, NEW l \in Lane,
               InitLane(n, l) \/ MeasureLane(n, l) \/ ReadLane(n, l) \/ AdvanceLane(n, l)
        PROVE  TxNext
    <2>1. ASSUME ReadLane(n, l) PROVE LaneTake(l)
      <3>1. prod[n].pc = "read" /\ l \in prod[n].todo /\ TakeWindow(l, prod[n].count)
        BY <2>1 DEF ReadLane, Turn
      <3>2. NodeInv(n) /\ prod[n].count \in 0 .. Batch /\ Batch \in Nat
        BY RuntimeAssumption DEF RelayInv, RelayTypeOK
      <3>3. prod[n].count \in 1 .. Batch /\ prod[n].count <= win[l].avail
        BY <3>1, <3>2 DEF NodeInv, ProdAt, LaneAt
      <3>4. QED
        BY <3>1, <3>3 DEF LaneTake
    <2>2. QED
      BY <1>3, <2>1 DEF TxNext, LaneStep, InitLane, MeasureLane, AdvanceLane
  <1>4. ASSUME NEW p \in TxPort,
               PullerStep(p) \/ \E n \in MsgSizes : RadioSend(p, n)
        PROVE  TxNext
    BY <1>4 DEF PullerStep, RadioSend, TxNext
  <1>5. ASSUME NEW p \in RxPort, RepWorker(p) \/ RadioReceive(p)
        PROVE  UNCHANGED txVars
    BY <1>5, PortSide
  <1>6. QED
    BY <1>1, <1>2, <1>3, <1>4, <1>5 DEF Next, Producer

\* A puller and a radio on the transmit side leave every node alone.
LEMMA RadioSideRests ==
  ASSUME NEW p \in TxPort, PullerStep(p) \/ \E n \in MsgSizes : RadioSend(p, n)
  PROVE  /\ \A m \in Node : Untouched(m)
         /\ prod' = prod /\ received' = received /\ served' = served
  <1>1. UNCHANGED << rxVars, relayVars, laneVars >>
    BY DEF PullerStep, Puller, RadioSend, PullRelease, PullLand, PullAsk, PullTimeout,
           PullReceive, RadioTransmit
  <1>2. QED
    BY <1>1 DEF rxVars, relayVars, laneVars, Untouched, Windows, Unsent

LEMMA StandsStill ==
  ASSUME UNCHANGED vars
  PROVE  \A m \in Node : Untouched(m)
  BY DEF vars, txVars, laneVars, rxVars, relayVars, Untouched, Windows, Unsent

LEMMA RelayInitInv == Init => RelayInv
  <1> SUFFICES ASSUME Init PROVE RelayInv
    OBVIOUS
  <1>1. RxInv /\ TxInv
    BY InitInv, TxInitInv DEF Init
  <1>2. Batch \in Nat \ {0}
    BY RuntimeAssumption
  <1>3. RelayTypeOK
    BY <1>2 DEF Init, RelayTypeOK, RowsOf
  <1>4. ASSUME NEW n \in Node PROVE NodeInv(n)
    <2>1. prod[n] = [pc |-> "room", todo |-> RowsOf(n), count |-> 0]
      BY DEF Init
    <2>2. ProdAt(n)
      BY <2>1 DEF ProdAt
    <2>3. \A p \in RowsOf(n) : RowAt(n, p)
      BY <2>1 DEF RowAt, RowPhases, Init, RxInit, NoRow, RowsOf
    <2>4. ASSUME NEW l \in Incoming(n) PROVE LaneAt(n, l) /\ LaneInStep(n, l)
      BY <2>1, <2>4, RelayAssumption
      DEF LaneAt, LanePhases, LaneInStep, Init, TxInit, RxInit, NoWindow, Incoming,
          RingReset, Ring
    <2>5. \A p \in RowsOf(n) : Announced(n, p) = << >> \o << >>
      BY <2>1 DEF Announced, Windows, Unsent, Init, RxInit, NoReply, RowsOf
    <2>6. QED
      BY <2>2, <2>3, <2>4, <2>5 DEF NodeInv
  <1>5. QED
    BY <1>1, <1>3, <1>4 DEF RelayInv

LEMMA RelayStep == RelayInv /\ [Next]_vars => RelayInv'
  <1> SUFFICES ASSUME RelayInv, [Next]_vars PROVE RelayInv'
    OBVIOUS
  <1>1. RxInv' /\ TxInv'
    BY RxSide, TxSide, NextInv, TxStep DEF RelayInv
  <1>2. RxTypeOK' /\ TxTypeOK'
    BY <1>1 DEF RxInv, TxInv
  <1>3. /\ prod \in [Node -> Progress] /\ received \in [RxPort -> Nat]
        /\ served \in [RxPort -> Seq(Nat)]
    BY RelayTypes DEF RelayInv, RelayTypeOK
  <1>4. ASSUME prod' \in [Node -> Progress], received' \in [RxPort -> Nat],
               served' \in [RxPort -> Seq(Nat)], \A m \in Node : NodeInv(m)'
        PROVE  RelayInv'
    <2>1. RelayTypeOK'
      BY <1>4 DEF RelayTypeOK, Progress, Steps
    <2>2. QED
      BY <1>1, <1>4, <2>1 DEF RelayInv
  <1>5. ASSUME NEW m \in Node, Untouched(m) PROVE NodeInv(m)'
    BY <1>5, OtherNode DEF RelayInv
  <1>6. CASE UNCHANGED vars
    <2>1. prod' = prod /\ received' = received /\ served' = served
      BY <1>6 DEF vars, relayVars
    <2>2. QED
      BY <1>3, <1>4, <1>5, <1>6, <2>1, StandsStill
  <1>7. ASSUME NEW n \in Node, Producer(n) PROVE RelayInv'
    <2>1. ASSUME NEW l \in Lane, InitLane(n, l) \/ MeasureLane(n, l) \/ ReadLane(n, l)
                                 \/ AdvanceLane(n, l)
          PROVE  RelayInv'
      <3>1. /\ LaneWork(n, l) /\ NodeInv(n)' /\ prod' \in [Node -> Progress]
            /\ served' = served /\ received' = received
        BY <1>1, <1>2, <2>1, InitLaneStep, MeasureLaneStep, ReadLaneStep, AdvanceLaneStep
      <3>2. \A m \in Node : m # n => Untouched(m)
        BY <3>1, LaneWorkRests
      <3>3. QED
        BY <1>3, <1>4, <1>5, <3>1, <3>2
    <2>2. ASSUME NEW p \in RxPort, AskRoom(n, p) \/ ReserveRow(n, p) \/ ProcessRow(n, p)
          PROVE  RelayInv'
      <3>1. /\ RowWork(n, p) /\ NodeInv(n)' /\ prod' \in [Node -> Progress]
            /\ served' = served /\ received' = received
        BY <1>2, <2>2, AskRoomStep, ReserveRowStep, ProcessRowStep
      <3>2. \A m \in Node : m # n => Untouched(m)
        BY <3>1, RowWorkRests
      <3>3. QED
        BY <1>3, <1>4, <1>5, <3>1, <3>2
    <2>3. ASSUME NEW p \in RxPort, PublishRow(n, p) PROVE RelayInv'
      <3>1. /\ \A m \in Node : m # n => Untouched(m)
            /\ NodeInv(n)' /\ prod' \in [Node -> Progress]
            /\ served' = served /\ received' = received
        BY <1>1, <2>3, PublishRowStep
      <3>2. QED
        BY <1>3, <1>4, <1>5, <3>1
    <2>4. QED
      BY <1>7, <2>1, <2>2, <2>3 DEF Producer
  <1>8. ASSUME NEW p \in TxPort, PullerStep(p) \/ \E n \in MsgSizes : RadioSend(p, n)
        PROVE  RelayInv'
    BY <1>3, <1>4, <1>5, <1>8, RadioSideRests
  <1>9. ASSUME NEW p \in RxPort, RepWorker(p) \/ RadioReceive(p) PROVE RelayInv'
    BY <1>3, <1>4, <1>5, <1>9, PortSide
  <1>10. QED
    BY <1>6, <1>7, <1>8, <1>9 DEF Next

\* Two sequences that continue to the same one: one is a prefix of the other.
LEMMA PrefixesCompare ==
  ASSUME NEW S, NEW s \in Seq(S), NEW t \in Seq(S), NEW u \in Seq(S), NEW v \in Seq(S),
         s \o u = t \o v
  PROVE  IsPrefix(s, t) \/ IsPrefix(t, s)
  <1> DEFINE w == s \o u
  <1>1. /\ \A i \in 1 .. Len(s) : w[i] = s[i]
        /\ \A i \in 1 .. Len(t) : w[i] = t[i]
        /\ Len(s) \in Nat /\ Len(t) \in Nat
    <2>1. \A i \in 1 .. Len(s) : (s \o u)[i] = s[i]
      OBVIOUS
    <2>2. \A i \in 1 .. Len(t) : (t \o v)[i] = t[i]
      OBVIOUS
    <2>3. QED
      BY <2>1, <2>2
  <1> HIDE DEF w
  <1>2. ASSUME NEW x \in Seq(S), NEW y \in Seq(S), Len(x) <= Len(y),
               \A i \in 1 .. Len(x) : x[i] = y[i]
        PROVE  IsPrefix(x, y)
    <2>1. SubSeq(x, 1, Len(x)) = SubSeq(y, 1, Len(x))
      BY <1>2
    <2>2. QED
      BY <1>2, <2>1 DEF IsPrefix
  <1>3. CASE Len(s) <= Len(t)
    <2>1. \A i \in 1 .. Len(s) : s[i] = t[i]
      BY <1>1, <1>3
    <2>2. QED
      BY <1>2, <1>3, <2>1
  <1>4. CASE Len(t) <= Len(s)
    <2>1. \A i \in 1 .. Len(t) : t[i] = s[i]
      BY <1>1, <1>4
    <2>2. QED
      BY <1>2, <1>4, <2>1
  <1>5. QED
    BY <1>1, <1>3, <1>4

LEMMA InvSiblingWindows == RelayInv => SiblingWindows
  <1> SUFFICES ASSUME RelayInv, NEW n \in Node, NEW p \in DOMAIN served,
                      NEW r \in DOMAIN served, {p, r} \subseteq RowsOf(n)
               PROVE  IsPrefix(served[p], served[r]) \/ IsPrefix(served[r], served[p])
    BY DEF SiblingWindows
  <1>1. p \in RowsOf(n) /\ r \in RowsOf(n) /\ p \in RxPort /\ r \in RxPort
    BY DEF RowsOf
  <1>2. Announced(n, p) = Announced(n, r)
    BY <1>1 DEF RelayInv, NodeInv
  <1>3. prod[n].count \in Nat
    <2>1. Batch \in Nat
      BY RuntimeAssumption
    <2>2. QED
      BY <2>1 DEF RelayInv, RelayTypeOK
  <1>4. ASSUME NEW q \in RxPort
        PROVE  \E u \in Seq(Nat) : Announced(n, q) = served[q] \o u
    <2>1. served[q] \in Seq(Nat) /\ Unsent(q) \in Seq(Nat)
      BY WindowTypes
    <2>2. served[q] \o Append(Unsent(q), prod[n].count)
            = Append(served[q] \o Unsent(q), prod[n].count)
      <3>1. \A s, t \in Seq(Nat), e \in Nat : s \o Append(t, e) = Append(s \o t, e)
        BY ConcatAppend
      <3>2. QED
        BY <1>3, <2>1, <3>1
    <2>3. Append(Unsent(q), prod[n].count) \in Seq(Nat)
      BY <1>3, <2>1
    <2>4. QED
      BY <2>1, <2>2, <2>3 DEF Announced, Windows
  <1>5. PICK u \in Seq(Nat) : Announced(n, p) = served[p] \o u
    BY <1>1, <1>4
  <1>6. PICK v \in Seq(Nat) : Announced(n, r) = served[r] \o v
    BY <1>1, <1>4
  <1>7. served[p] \in Seq(Nat) /\ served[r] \in Seq(Nat)
    BY <1>1, WindowTypes
  <1>8. served[p] \o u = served[r] \o v
    BY <1>2, <1>5, <1>6
  <1>9. QED
    BY <1>7, <1>8, PrefixesCompare

-----------------------------------------------------------------------------
(***************************************************************************)
(* The invariant of the whole relay: those of the two sides, and what each *)
(* producer has done with its ports and lanes (run_producer), whatever the *)
(* order of its turns, of the pullers, the REP workers and the radios.     *)
(***************************************************************************)
THEOREM RelayInvariant == Spec => []RelayInv
  <1>1. Init => RelayInv
    BY RelayInitInv
  <1>2. RelayInv /\ [Next]_vars => RelayInv'
    BY RelayStep
  <1>3. QED
    BY <1>1, <1>2, PTL DEF Spec

(***************************************************************************)
(* The relay implements the receive side: a producer publishes the         *)
(* superposition of the samples that carry the same number on every lane   *)
(* of the port, into room it has measured (Broker::run_producer, E and H). *)
(***************************************************************************)
THEOREM RelayImplementsRxPorts == Spec => RxSpec
  <1>1. Init => RxInit
    BY DEF Init
  <1>2. RelayInv /\ [Next]_vars => [RxNext]_rxVars
    BY RxSide
  <1>3. QED
    BY <1>1, <1>2, RelayInvariant, PTL DEF Spec, RxSpec

(***************************************************************************)
(* The relay implements the transmit side: the common window of a slot is  *)
(* one that every lane of the node holds (Broker::run_producer, C and D).  *)
(***************************************************************************)
THEOREM RelayImplementsTxPorts == Spec => TxSpec
  <1>1. Init => TxInit
    BY DEF Init
  <1>2. RelayInv /\ [Next]_vars => [TxNext]_txVars
    BY TxSide
  <1>3. QED
    BY <1>1, <1>2, RelayInvariant, PTL DEF Spec, TxSpec

\* So everything proved about the two sides holds of the relay: intact replies,
\* spans apart, bounded latency, no exception, aligned lanes, no sample lost.
THEOREM RelayKeepsPorts ==
  Spec => [](RxReplyIntact /\ RxNeverThrows /\ RxRingSound /\ LanesAligned /\ NoSampleLost)
  BY RelayImplementsRxPorts, RelayImplementsTxPorts, RxRepliesIntact, RxNoException,
     RxRingStaysSound, LanesStayAligned, NoSampleIsLost, PTL

(***************************************************************************)
(* The RX ports of a node get the same windows in the same order, however  *)
(* far their REP workers are apart (run_producer gives every port of the   *)
(* node the common count; run_rep_worker sends one window per request).    *)
(***************************************************************************)
THEOREM SiblingsGetSameWindows == Spec => []SiblingWindows
  BY InvSiblingWindows, RelayInvariant, PTL
=============================================================================
