------------------------- MODULE RelayThreadsProofs -------------------------
(***************************************************************************)
(* Proofs about RelayThreads, for any number of ports, any batch and any   *)
(* time limit of the detector.  What makes the waits safe: a thread about  *)
(* to wait, or in it, with a ticket that still stands, has seen everything *)
(* that happened to its rings; the thread that changes them has its        *)
(* notification to come.                                                   *)
(***************************************************************************)
EXTENDS RelayThreads, TLAPS

\* The rings need not be known to hold numbers; that each has its own place is enough.
ThreadsTypeOK ==
  /\ txHeld = [t \in TxThread |-> txHeld[t]] /\ rxHeld = [r \in RxThread |-> rxHeld[r]]
  /\ moved \in [Signals -> BOOLEAN]
  /\ puller \in [TxThread ->
       [pc : {"top", "look", "enter", "blocked", "recv", "notify", "done"}, pending : Nat]]
  /\ producer = [pc |-> producer.pc, stage |-> producer.stage, room |-> producer.room,
                 left |-> producer.left]
  /\ worker \in [RxThread ->
       [pc : {"recv", "ticket", "look", "enter", "blocked", "send", "freed", "done"},
        inRing : BOOLEAN]]
  /\ stopped \in BOOLEAN /\ supervisor \in {"poll", "notify", "join", "ended"}
  /\ wedge \in [armed : BOOLEAN, still : Nat]
  /\ diag \in [pulled : SUBSET TxThread, changed : BOOLEAN, quiet : Nat,
               unsent : [RxThread -> Nat]]

\* Waiting on a ticket that still stands.
Waiting(pc, s) == pc \in {"enter", "blocked"} /\ ~moved[s]

PullersWake ==
  \A t \in TxThread : Waiting(puller[t].pc, t) /\ ~NoRoom(t) =>
    producer.pc = "tell tx" /\ t \in producer.left
ProducerWakes ==
  Waiting(producer.pc, Node) /\ Found > 0 =>
    \/ \E t \in TxThread : puller[t].pc = "notify"
    \/ \E r \in RxThread : worker[r].pc = "freed"
WorkersWake ==
  \A r \in RxThread : Waiting(worker[r].pc, r) /\ rxHeld[r] # << >> =>
    producer.pc = "publish" \/ (producer.pc = "tell rx" /\ r \in producer.left)

\* The final notifications are sent when everybody can see the stop, and no
\* ticket is taken after it.
StopSeen ==
  /\ supervisor # "poll" => stopped
  /\ supervisor \in {"join", "ended"} => \A s \in Signals : moved[s]

\* A worker whose send was cut off does not come back to a send.
CutOff(r) ==
  diag.unsent[r] > 0 =>
    /\ diag.unsent[r] = 1 /\ stopped
    /\ \/ worker[r].pc \in {"recv", "ticket", "done"}
       \/ worker[r].pc = "freed" /\ worker[r].inRing

\* The polls the detector counts are polls in which no counter moved.
DetectorRight ==
  /\ wedge.armed => diag.pulled = TxThread
  /\ ~stopped /\ ~diag.changed => wedge.still <= diag.quiet
  /\ ~stopped => wedge.still < WedgePolls

\* The inductive invariant.
ThreadsInv ==
  /\ ThreadsTypeOK
  /\ PullersWake /\ ProducerWakes /\ WorkersWake
  /\ StopSeen /\ DetectorRight
  /\ \A r \in RxThread : CutOff(r)
\* Every thread waits on a signal of its own.
LEMMA OwnSignals ==
  /\ \A t \in TxThread : t \in Signals /\ t # Node /\ t \notin RxThread
  /\ \A r \in RxThread : r \in Signals /\ r # Node /\ r \notin TxThread
  /\ Node \in Signals
  BY ThreadsAssumption DEF Signals

\* Min, which the model takes from the library, on two numbers.
LEMMA LeastOfTwo ==
  ASSUME NEW a \in Nat, NEW b \in Nat
  PROVE  Min({a, b}) = IF a <= b THEN a ELSE b
  <1> DEFINE m == IF a <= b THEN a ELSE b
  <1>1. m \in {a, b} /\ \A y \in {a, b} : m <= y
    OBVIOUS
  <1>2. \A x \in {a, b} : (\A y \in {a, b} : x <= y) => x = m
    OBVIOUS
  <1>3. Min({a, b}) \in {a, b} /\ \A y \in {a, b} : Min({a, b}) <= y
    BY <1>1 DEF Min
  <1>4. QED
    BY <1>2, <1>3

\* What the producer finds depends on the rings and on its stage only.
LEMMA FoundSame ==
  ASSUME UNCHANGED rings, producer'.stage = producer.stage
  PROVE  Found' = Found
  BY DEF Found, RxRoom, Common, Occupied, rings

(***************************************************************************)
(* A step of a puller that leaves its ring alone: if it enters the wait,   *)
(* or stays in it, it has seen what its ring holds, and a notification it  *)
(* owed has been given.                                                    *)
(***************************************************************************)
PullerMove(t) ==
  /\ UNCHANGED << txHeld, rxHeld, producer, worker, supervisor, wedge, diag >>
  /\ puller' = [puller EXCEPT ![t] = puller'[t]]
  /\ puller'[t] \in [pc : {"top", "look", "enter", "blocked", "recv", "notify", "done"},
                     pending : Nat]
  /\ stopped' \in BOOLEAN /\ (stopped => stopped')
  /\ moved' \in [Signals -> BOOLEAN]
  /\ \A s \in Signals : moved[s] /\ ~moved'[s] => s = t /\ ~stopped
  /\ puller'[t].pc \in {"enter", "blocked"} =>
       \/ NoRoom(t)'
       \/ moved'[t]
       \/ Waiting(puller[t].pc, t) /\ puller'[t].pending = puller[t].pending
  /\ puller[t].pc = "notify" => moved'[Node]

\* Such a step keeps the invariant.
LEMMA PullerMoves ==
  ASSUME ThreadsInv, NEW t \in TxThread, PullerMove(t)
  PROVE  ThreadsInv'
  <1> USE OwnSignals DEF ThreadsInv, PullerMove
  <1>1. \A u \in TxThread \ {t} : puller'[u] = puller[u] /\ (moved[u] => moved'[u])
    BY DEF ThreadsTypeOK
  <1>2. ThreadsTypeOK'
    BY DEF ThreadsTypeOK
  <1>3. ASSUME NEW u \in TxThread \ {t}
        PROVE  NoRoom(u)' = NoRoom(u)
    BY <1>1 DEF NoRoom, TxRoom, RoomWanted
  <1>5. PullersWake'
    <2> SUFFICES ASSUME NEW u \in TxThread, Waiting(puller[u].pc, u)',
                        ~NoRoom(u)'
                 PROVE  producer.pc = "tell tx" /\ u \in producer.left
      BY DEF PullersWake
    <2>1. CASE u # t
      BY <2>1, <1>1, <1>3 DEF PullersWake, Waiting
    <2>2. CASE u = t
      <3>1. ~moved'[t] /\ puller'[t].pc \in {"enter", "blocked"}
        BY <2>2 DEF Waiting
      <3>2. Waiting(puller[t].pc, t) /\ puller'[t].pending = puller[t].pending
        BY <2>2, <3>1
      <3>3. NoRoom(t)' = NoRoom(t)
        BY <3>2 DEF NoRoom, TxRoom, RoomWanted
      <3>4. QED
        BY <2>2, <3>2, <3>3 DEF PullersWake
    <2>3. QED
      BY <2>1, <2>2
  <1>6. ProducerWakes'
    BY <1>1, FoundSame DEF ProducerWakes, Waiting, rings
  <1>7. WorkersWake'
    BY <1>1 DEF WorkersWake, Waiting
  <1>8. StopSeen' /\ DetectorRight' /\ \A r \in RxThread : CutOff(r)'
    BY <1>1 DEF StopSeen, DetectorRight, CutOff
  <1>9. QED
    BY <1>2, <1>5, <1>6, <1>7, <1>8

\* These are the puller's steps of that kind.
LEMMA PullerMovesOnly ==
  ASSUME ThreadsInv, NEW t \in TxThread,
         PullTop(t) \/ PullNotify(t) \/ PullWait(t) \/ PullMessage(t) \/ PullIdle(t) \/ PullFails(t)
  PROVE  PullerMove(t)
  <1> USE OwnSignals DEF PullerMove, Notify, Ticket, rings, ending
  <1>0. /\ puller \in [TxThread ->
             [pc : {"top", "look", "enter", "blocked", "recv", "notify", "done"}, pending : Nat]]
        /\ moved \in [Signals -> BOOLEAN] /\ stopped \in BOOLEAN
    BY DEF ThreadsInv, ThreadsTypeOK
  <1>1. CASE PullTop(t)
    <2>1. CASE stopped
      BY <1>0, <1>1, <2>1 DEF PullTop
    <2>2. CASE ~stopped
      <3>1. /\ puller[t].pc = "top" /\ puller' = [puller EXCEPT ![t].pc = "look"]
            /\ moved' = [moved EXCEPT ![t] = FALSE]
        BY <1>1, <2>2 DEF PullTop
      <3>2. UNCHANGED << txHeld, rxHeld, producer, worker, stopped, supervisor, wedge, diag >>
        BY <1>1 DEF PullTop
      <3>3. /\ moved' \in [Signals -> BOOLEAN]
            /\ \A s \in Signals : moved[s] /\ ~moved'[s] => s = t /\ ~stopped
        BY <1>0, <2>2, <3>1
      <3>4. QED
        BY <1>0, <3>1, <3>2, <3>3
    <2>3. QED
      BY <2>1, <2>2
  <1>2. CASE PullNotify(t)
    BY <1>0, <1>2 DEF PullNotify
  <1>3. CASE PullWait(t)
    BY <1>0, <1>3 DEF PullWait, Entered, Waiting
  <1>4. CASE PullMessage(t)
    BY <1>0, <1>4, ThreadsAssumption DEF PullMessage
  <1>5. CASE PullIdle(t)
    BY <1>0, <1>5 DEF PullIdle
  <1>6. CASE PullFails(t)
    BY <1>0, <1>6 DEF PullFails
  <1>7. QED
    BY <1>1, <1>2, <1>3, <1>4, <1>5, <1>6

(***************************************************************************)
(* A step of a worker: a window it takes out of its ring is told to the    *)
(* producer, it enters the wait only if its ring is empty, a notification  *)
(* it owed has been given, and it keeps the counters.                      *)
(***************************************************************************)
WorkerMove(r) ==
  /\ UNCHANGED << txHeld, puller, producer, supervisor, wedge >>
  /\ worker' = [worker EXCEPT ![r] = worker'[r]]
  /\ worker'[r] \in [pc : {"recv", "ticket", "look", "enter", "blocked", "send", "freed", "done"},
                     inRing : BOOLEAN]
  /\ rxHeld' = [rxHeld EXCEPT ![r] = rxHeld'[r]]
  /\ rxHeld'[r] # rxHeld[r] => worker'[r].pc = "freed"
  /\ stopped' \in BOOLEAN /\ (stopped => stopped')
  /\ moved' \in [Signals -> BOOLEAN]
  /\ \A s \in Signals : moved[s] /\ ~moved'[s] => s = r /\ ~stopped
  /\ worker'[r].pc \in {"enter", "blocked"} =>
       rxHeld'[r] = << >> \/ moved'[r] \/ Waiting(worker[r].pc, r)
  /\ worker[r].pc = "freed" => moved'[Node]
  /\ diag' \in [pulled : SUBSET TxThread, changed : BOOLEAN, quiet : Nat,
                unsent : [RxThread -> Nat]]
  /\ diag'.pulled = diag.pulled
  /\ \A q \in RxThread \ {r} : diag'.unsent[q] = diag.unsent[q]
  /\ CutOff(r)'
  /\ ~stopped /\ ~diag'.changed => ~diag.changed /\ diag'.quiet = diag.quiet

\* Such a step keeps the invariant.
LEMMA WorkerMoves ==
  ASSUME ThreadsInv, NEW r \in RxThread, WorkerMove(r)
  PROVE  ThreadsInv'
  <1> USE OwnSignals DEF ThreadsInv, WorkerMove
  <1>1. \A q \in RxThread \ {r} : /\ worker'[q] = worker[q] /\ (moved[q] => moved'[q])
                                  /\ rxHeld'[q] = rxHeld[q]
    BY DEF ThreadsTypeOK
  <1>2. ThreadsTypeOK'
    BY DEF ThreadsTypeOK
  <1>3. PullersWake'
    BY DEF PullersWake, Waiting, NoRoom, TxRoom, RoomWanted
  <1>4. ProducerWakes'
    <2> SUFFICES ASSUME Waiting(producer.pc, Node)', Found' > 0
                 PROVE  \/ \E t \in TxThread : puller[t].pc = "notify"
                        \/ \E q \in RxThread : worker'[q].pc = "freed"
      BY DEF ProducerWakes
    <2>1. Waiting(producer.pc, Node) /\ worker[r].pc # "freed"
      BY DEF Waiting
    <2>2. CASE rxHeld'[r] # rxHeld[r]
      BY <2>2
    <2>3. CASE rxHeld'[r] = rxHeld[r]
      <3> DEFINE S == {rxHeld[q] : q \in RxThread}
      <3>0. rxHeld \in [RxThread -> S]
        BY DEF ThreadsTypeOK
      <3>1. rxHeld' = rxHeld
        <4> HIDE DEF S
        <4>1. rxHeld' = [rxHeld EXCEPT ![r] = rxHeld[r]]
          BY <2>3
        <4>2. QED
          BY <3>0, <4>1
      <3>2. Found' = Found
        BY <3>1, FoundSame DEF rings
      <3>3. QED
        BY <3>2, <2>1, <1>1 DEF ProducerWakes
    <2>4. QED
      BY <2>2, <2>3
  <1>5. WorkersWake'
    <2> SUFFICES ASSUME NEW q \in RxThread, Waiting(worker[q].pc, q)', rxHeld'[q] # << >>
                 PROVE  producer.pc = "publish" \/ (producer.pc = "tell rx" /\ q \in producer.left)
      BY DEF WorkersWake
    <2>1. CASE q # r
      BY <2>1, <1>1 DEF WorkersWake, Waiting
    <2>2. CASE q = r
      <3>1. Waiting(worker[r].pc, r) /\ rxHeld'[r] = rxHeld[r]
        BY <2>2 DEF Waiting
      <3>2. QED
        BY <2>2, <3>1 DEF WorkersWake
    <2>3. QED
      BY <2>1, <2>2
  <1>6. StopSeen'
    BY DEF StopSeen
  <1>7. DetectorRight'
    BY DEF DetectorRight
  <1>8. \A q \in RxThread : CutOff(q)'
    BY <1>1 DEF CutOff
  <1>9. QED
    BY <1>2, <1>3, <1>4, <1>5, <1>6, <1>7, <1>8

\* Every step of a worker is of that kind.
LEMMA WorkerMovesOnly ==
  ASSUME ThreadsInv, NEW r \in RxThread,
         WorkerThread(r) \/ WorkerSend(r) \/ WorkerRequest(r) \/ WorkerFails(r)
  PROVE  WorkerMove(r)
  <1> USE OwnSignals DEF WorkerMove, rings, ending
  <1>0. /\ worker \in [RxThread ->
             [pc : {"recv", "ticket", "look", "enter", "blocked", "send", "freed", "done"},
              inRing : BOOLEAN]]
        /\ rxHeld = [q \in RxThread |-> rxHeld[q]]
        /\ moved \in [Signals -> BOOLEAN] /\ stopped \in BOOLEAN
        /\ diag \in [pulled : SUBSET TxThread, changed : BOOLEAN, quiet : Nat,
                     unsent : [RxThread -> Nat]]
        /\ CutOff(r)
    BY DEF ThreadsInv, ThreadsTypeOK
  <1>1. CASE WorkerTicket(r)
    <2>1. /\ UNCHANGED << txHeld, puller, producer, supervisor, wedge, rxHeld, stopped, diag >>
          /\ worker[r].pc = "ticket"
          /\ worker' = [worker EXCEPT ![r].pc = IF stopped THEN "done" ELSE "look"]
      BY <1>1 DEF WorkerTicket
    <2>2. /\ moved' \in [Signals -> BOOLEAN]
          /\ \A s \in Signals : moved[s] /\ ~moved'[s] => s = r /\ ~stopped
      BY <1>0, <1>1 DEF WorkerTicket, Ticket
    <2>3. CutOff(r)'
      BY <1>0, <2>1 DEF CutOff
    <2>4. QED
      BY <1>0, <2>1, <2>2, <2>3
  <1>2. CASE WorkerLook(r)
    <2>1. /\ UNCHANGED << txHeld, puller, producer, supervisor, wedge, moved, stopped, diag >>
          /\ worker[r].pc = "look"
      BY <1>2 DEF WorkerLook
    <2>2. CutOff(r)'
      BY <1>0, <1>2, <2>1 DEF CutOff, WorkerLook
    <2>3. /\ worker' = [worker EXCEPT ![r] = worker'[r]]
          /\ worker'[r] \in [pc : {"enter", "send", "freed"}, inRing : BOOLEAN]
          /\ worker'[r].pc = "enter" => rxHeld[r] = << >>
      <3>1. CASE rxHeld[r] = << >> /\ worker' = [worker EXCEPT ![r].pc = "enter"]
        <4>1. worker'[r] = [worker[r] EXCEPT !.pc = "enter"]
          BY <1>0, <3>1
        <4>2. worker[r] \in [pc : {"look"}, inRing : BOOLEAN]
          BY <1>0, <2>1
        <4>3. worker'[r] \in [pc : {"enter"}, inRing : BOOLEAN]
          BY <4>1, <4>2
        <4>4. worker' = [worker EXCEPT ![r] = worker'[r]]
          BY <3>1, <4>1
        <4>5. QED
          BY <3>1, <4>3, <4>4
      <3>2. CASE worker' = [worker EXCEPT ![r] = [pc |-> "send", inRing |-> TRUE]]
        BY <1>0, <3>2
      <3>3. CASE worker' = [worker EXCEPT ![r] = [pc |-> "freed", inRing |-> FALSE]]
        BY <1>0, <3>3
      <3>4. QED
        BY <1>2, <3>1, <3>2, <3>3 DEF WorkerLook
    <2>4. /\ rxHeld' = [rxHeld EXCEPT ![r] = rxHeld'[r]]
          /\ rxHeld' = rxHeld \/ worker'[r].pc = "freed"
      <3>1. CASE UNCHANGED rxHeld
        <4> DEFINE S == {rxHeld[q] : q \in RxThread}
        <4>1. rxHeld \in [RxThread -> S]
          BY <1>0
        <4> HIDE DEF S
        <4>2. QED
          BY <3>1, <4>1
      <3>2. CASE worker'[r].pc = "freed" /\ rxHeld' = [rxHeld EXCEPT ![r] = Tail(@)]
        BY <1>0, <3>2
      <3>3. QED
        BY <1>0, <1>2, <3>1, <3>2 DEF WorkerLook
    <2>5. QED
      BY <1>0, <2>1, <2>2, <2>3, <2>4
  <1>3. CASE WorkerWait(r)
    <2>1. /\ UNCHANGED << txHeld, puller, producer, supervisor, wedge, rxHeld, moved, stopped, diag >>
          /\ worker[r].pc \in {"enter", "blocked"}
          /\ \/ worker' = [worker EXCEPT ![r].pc = "ticket"]
             \/ worker' = [worker EXCEPT ![r].pc = "blocked"] /\ Waiting(worker[r].pc, r)
      BY <1>0, <1>3 DEF WorkerWait, Entered, Waiting
    <2>2. CutOff(r)'
      BY <1>0, <2>1 DEF CutOff, Waiting
    <2>3. CASE worker' = [worker EXCEPT ![r].pc = "ticket"]
      BY <1>0, <2>1, <2>2, <2>3
    <2>4. CASE worker' = [worker EXCEPT ![r].pc = "blocked"] /\ Waiting(worker[r].pc, r)
      BY <1>0, <2>1, <2>2, <2>4
    <2>5. QED
      BY <2>1, <2>3, <2>4
  <1>4. CASE WorkerNotify(r)
    <2>1. /\ UNCHANGED << txHeld, puller, producer, supervisor, wedge, rxHeld, stopped >>
          /\ worker[r].pc = "freed" /\ moved' = [moved EXCEPT ![Node] = TRUE]
      BY <1>4 DEF WorkerNotify, Notify
    <2>2. /\ worker' = [worker EXCEPT ![r] = worker'[r]]
          /\ worker'[r] \in [pc : {"recv", "send"}, inRing : BOOLEAN]
      <3>1. CASE worker' = [worker EXCEPT ![r].pc = "recv"]
        BY <1>0, <3>1
      <3>2. CASE worker' = [worker EXCEPT ![r].pc = "send"]
        BY <1>0, <3>2
      <3>3. QED
        BY <1>4, <3>1, <3>2 DEF WorkerNotify
    <2>3. diag' \in {diag, [diag EXCEPT !.changed = TRUE, !.quiet = 0]} /\ (stopped => diag' = diag)
      BY <1>4 DEF WorkerNotify, Progressed
    <2>4. /\ diag' \in [pulled : SUBSET TxThread, changed : BOOLEAN, quiet : Nat,
                        unsent : [RxThread -> Nat]]
          /\ diag'.pulled = diag.pulled /\ diag'.unsent = diag.unsent
          /\ ~stopped /\ ~diag'.changed => ~diag.changed /\ diag'.quiet = diag.quiet
      <3>1. CASE diag' = diag
        BY <1>0, <3>1
      <3>2. CASE diag' = [diag EXCEPT !.changed = TRUE, !.quiet = 0]
        BY <1>0, <3>2
      <3>3. QED
        BY <2>3, <3>1, <3>2
    <2>5. CutOff(r)'
      <3>1. worker[r].inRing => worker'[r].pc = "recv"
        BY <1>0, <1>4 DEF WorkerNotify
      <3>2. QED
        BY <1>0, <2>1, <2>4, <3>1 DEF CutOff
    <2>6. moved' \in [Signals -> BOOLEAN] /\ \A s \in Signals : moved[s] => moved'[s]
      BY <1>0, <2>1
    <2>7. \A q \in RxThread : diag'.unsent[q] = diag.unsent[q]
      BY <2>4
    <2>8. rxHeld' = [rxHeld EXCEPT ![r] = rxHeld'[r]]
      <3> DEFINE S == {rxHeld[q] : q \in RxThread}
      <3>1. rxHeld \in [RxThread -> S]
        BY <1>0
      <3> HIDE DEF S
      <3>2. QED
        BY <2>1, <3>1
    <2>9. QED
      BY <1>0, <2>1, <2>2, <2>4, <2>5, <2>6, <2>7, <2>8
  <1>5. CASE WorkerIdle(r)
    BY <1>0, <1>5 DEF WorkerIdle, CutOff
  <1>6. CASE WorkerSend(r)
    <2> DEFINE ended == IF worker[r].inRing THEN diag ELSE Progressed
    <2>1. /\ UNCHANGED << txHeld, puller, producer, supervisor, wedge, stopped, moved >>
          /\ worker[r].pc = "send"
      BY <1>6 DEF WorkerSend
    <2>2. /\ worker' = [worker EXCEPT ![r] = worker'[r]]
          /\ worker'[r] \in [pc : {"recv", "freed"}, inRing : {worker[r].inRing}]
          /\ worker'[r].pc = IF worker[r].inRing THEN "freed" ELSE "recv"
          /\ rxHeld' = [rxHeld EXCEPT ![r] = rxHeld'[r]]
          /\ rxHeld'[r] # rxHeld[r] => worker'[r].pc = "freed"
      <3>1. CASE worker[r].inRing
        BY <1>0, <1>6, <3>1 DEF WorkerSend
      <3>2. CASE ~worker[r].inRing
        <4> DEFINE S == {rxHeld[q] : q \in RxThread}
        <4>1. rxHeld \in [RxThread -> S]
          BY <1>0
        <4> HIDE DEF S
        <4>2. rxHeld' = rxHeld /\ worker' = [worker EXCEPT ![r].pc = "recv"]
          BY <1>6, <3>2 DEF WorkerSend
        <4>3. QED
          BY <1>0, <3>2, <4>1, <4>2
      <3>3. QED
        BY <3>1, <3>2
    <2>3. /\ ended \in [pulled : SUBSET TxThread, changed : BOOLEAN, quiet : Nat,
                        unsent : [RxThread -> Nat]]
          /\ ended.pulled = diag.pulled /\ ended.unsent = diag.unsent
          /\ ~stopped /\ ~ended.changed => ~diag.changed /\ ended.quiet = diag.quiet
      BY <1>0 DEF Progressed
    <2>4. \/ diag' = ended
          \/ stopped /\ diag' = [ended EXCEPT !.unsent[r] = @ + 1]
      BY <1>6 DEF WorkerSend
    <2>5. diag.unsent[r] = 0
      BY <1>0, <2>1 DEF CutOff
    <2> HIDE DEF ended
    <2>6. /\ diag' \in [pulled : SUBSET TxThread, changed : BOOLEAN, quiet : Nat,
                        unsent : [RxThread -> Nat]]
          /\ diag'.pulled = diag.pulled
          /\ \A q \in RxThread \ {r} : diag'.unsent[q] = diag.unsent[q]
          /\ ~stopped /\ ~diag'.changed => ~diag.changed /\ diag'.quiet = diag.quiet
          /\ diag'.unsent[r] = 0 \/ (stopped /\ diag'.unsent[r] = 1)
      BY <2>3, <2>4, <2>5
    <2>7. CutOff(r)'
      BY <1>0, <2>1, <2>2, <2>6 DEF CutOff
    <2>8. /\ worker[r].inRing \in BOOLEAN
          /\ moved' \in [Signals -> BOOLEAN] /\ \A s \in Signals : moved[s] => moved'[s]
      BY <1>0, <2>1
    <2>9. QED
      BY <1>0, <2>1, <2>2, <2>6, <2>7, <2>8
  <1>7. CASE WorkerRequest(r)
    BY <1>0, <1>7 DEF WorkerRequest, CutOff
  <1>8. CASE WorkerFails(r)
    BY <1>0, <1>8 DEF WorkerFails, CutOff
  <1>9. QED
    BY <1>1, <1>2, <1>3, <1>4, <1>5, <1>6, <1>7, <1>8 DEF WorkerThread

\* The puller's look at its ring: no room, a request, or a message stored, which
\* it then owes the producer a notification for.
LEMMA PullLookStep ==
  ASSUME ThreadsInv, NEW t \in TxThread, PullLook(t)
  PROVE  ThreadsInv'
  <1> USE OwnSignals
  <1>0. /\ puller \in [TxThread ->
             [pc : {"top", "look", "enter", "blocked", "recv", "notify", "done"}, pending : Nat]]
        /\ moved \in [Signals -> BOOLEAN] /\ stopped \in BOOLEAN /\ puller[t].pc = "look"
    BY DEF ThreadsInv, ThreadsTypeOK, PullLook
  <1>1. UNCHANGED << rxHeld, moved, producer, worker, stopped, supervisor, wedge >>
    BY DEF PullLook, ending
  <1>2. CASE puller' = [puller EXCEPT ![t].pc = "enter"] /\ NoRoom(t) /\ UNCHANGED << txHeld, diag >>
    <2>1. NoRoom(t)'
      BY <1>0, <1>2 DEF NoRoom, TxRoom, RoomWanted
    <2>2. PullerMove(t)
      BY <1>0, <1>1, <1>2, <2>1 DEF PullerMove
    <2>3. QED
      BY <2>2, PullerMoves
  <1>3. CASE puller' = [puller EXCEPT ![t].pc = "recv"] /\ UNCHANGED << txHeld, diag >>
    <2>1. PullerMove(t)
      BY <1>0, <1>1, <1>3 DEF PullerMove
    <2>2. QED
      BY <2>1, PullerMoves
  <1>4. CASE /\ txHeld' = [txHeld EXCEPT ![t] = @ + puller[t].pending]
             /\ puller' = [puller EXCEPT ![t] = [pc |-> "notify", pending |-> 0]]
             /\ diag' = [Progressed EXCEPT !.pulled = IF stopped THEN @ ELSE @ \cup {t}]
    <2>1. diag' \in [pulled : SUBSET TxThread, changed : BOOLEAN, quiet : Nat,
                     unsent : [RxThread -> Nat]]
      BY <1>4 DEF ThreadsInv, ThreadsTypeOK, Progressed
    <2>2. /\ diag.pulled \subseteq diag'.pulled /\ diag'.unsent = diag.unsent
          /\ ~stopped => diag'.changed
      BY <1>4 DEF ThreadsInv, ThreadsTypeOK, Progressed
    <2>3. ThreadsTypeOK'
      BY <1>0, <1>1, <1>4, <2>1 DEF ThreadsInv, ThreadsTypeOK
    <2>4. puller'[t].pc = "notify" /\ \A u \in TxThread \ {t} :
            puller'[u] = puller[u] /\ NoRoom(u)' = NoRoom(u)
      BY <1>0, <1>4 DEF ThreadsInv, ThreadsTypeOK, NoRoom, TxRoom, RoomWanted
    <2>5. PullersWake'
      BY <1>1, <2>4 DEF ThreadsInv, PullersWake, Waiting
    <2>6. ProducerWakes'
      BY <2>4 DEF ProducerWakes
    <2>7. WorkersWake'
      BY <1>1 DEF ThreadsInv, WorkersWake, Waiting
    <2>8. StopSeen'
      BY <1>1 DEF ThreadsInv, StopSeen
    <2>9. DetectorRight' /\ \A r \in RxThread : CutOff(r)'
      BY <1>1, <2>1, <2>2 DEF ThreadsInv, DetectorRight, CutOff
    <2>10. QED
      BY <2>3, <2>5, <2>6, <2>7, <2>8, <2>9 DEF ThreadsInv
  <1>5. QED
    BY <1>2, <1>3, <1>4 DEF PullLook

\* The producer's steps outside its work: to the wait, in it, and out of it.
LEMMA ProducerRests ==
  ASSUME ThreadsInv,
         \/ ProduceTop \/ ProduceWait
         \/ /\ producer.pc = "blocked" /\ producer' = [producer EXCEPT !.pc = "top"]
            /\ UNCHANGED << rings, moved, puller, worker, ending, diag >>
  PROVE  ThreadsInv'
  <1> USE OwnSignals
  <1>1. UNCHANGED << txHeld, rxHeld, puller, worker, stopped, supervisor, wedge, diag >>
    BY DEF ProduceTop, ProduceWait, rings, ending
  <1>a. producer.pc \in {"top", "enter", "blocked"}
    BY DEF ProduceTop, ProduceWait
  <1>b. \/ \E pc \in {"look", "done", "top"} : producer' = [producer EXCEPT !.pc = pc]
        \/ producer' = [producer EXCEPT !.pc = "blocked"] /\ Waiting(producer.pc, Node)
    BY DEF ProduceTop, ProduceWait, Entered, Waiting
  <1>c. PICK p, stage, room, left :
          producer = [pc |-> p, stage |-> stage, room |-> room, left |-> left]
    BY DEF ThreadsInv, ThreadsTypeOK
  <1>2. /\ producer'.pc \in {"look", "done", "top", "blocked"}
        /\ producer' = [pc |-> producer'.pc, stage |-> stage, room |-> room, left |-> left]
        /\ producer'.pc = "blocked" => Waiting(producer.pc, Node)
    BY <1>b, <1>c
  <1>3. /\ moved' \in [Signals -> BOOLEAN]
        /\ \A s \in Signals : moved[s] /\ ~moved'[s] => s = Node /\ ~stopped
        /\ producer'.pc = "blocked" => moved' = moved
    BY DEF ProduceTop, ProduceWait, Ticket, Entered, ThreadsInv, ThreadsTypeOK
  <1>4. ThreadsTypeOK'
    BY <1>1, <1>a, <1>2, <1>3 DEF ThreadsInv, ThreadsTypeOK
  <1>5. PullersWake'
    BY <1>1, <1>a, <1>2, <1>3 DEF ThreadsInv, PullersWake, Waiting, NoRoom, TxRoom, RoomWanted
  <1>6. ProducerWakes'
    <2>1. producer'.stage = producer.stage
      BY <1>2, <1>c
    <2>2. Found' = Found
      BY <1>1, <2>1, FoundSame DEF rings
    <2>3. QED
      BY <1>1, <1>a, <1>2, <2>2 DEF ThreadsInv, ProducerWakes, Waiting
  <1>7. WorkersWake'
    BY <1>1, <1>a, <1>2, <1>3 DEF ThreadsInv, WorkersWake, Waiting
  <1>8. StopSeen' /\ DetectorRight' /\ \A r \in RxThread : CutOff(r)'
    BY <1>1, <1>3 DEF ThreadsInv, StopSeen, DetectorRight, CutOff
  <1>9. QED
    BY <1>4, <1>5, <1>6, <1>7, <1>8 DEF ThreadsInv

\* Looking, under the ticket taken before: nothing found, the room, or a window.
LEMMA ProduceLookStep ==
  ASSUME ThreadsInv, ProduceLook
  PROVE  ThreadsInv'
  <1> USE OwnSignals
  <1>1. UNCHANGED << rxHeld, moved, puller, worker, stopped, supervisor, wedge, diag >>
    BY DEF ProduceLook, ending
  <1>2. PICK p, stage, room, left :
          producer = [pc |-> p, stage |-> stage, room |-> room, left |-> left]
    BY DEF ThreadsInv, ThreadsTypeOK
  <1>3. producer.pc = "look"
    BY DEF ProduceLook
  <1>4. \/ producer' = [producer EXCEPT !.pc = "enter"] /\ Found = 0 /\ txHeld' = txHeld
        \/ /\ producer' = [producer EXCEPT !.pc = "top", !.stage = "data", !.room = Found]
           /\ txHeld' = txHeld
        \/ /\ producer' = [producer EXCEPT !.pc = "tell tx", !.room = Min({@, Found}), !.left = TxThread]
           /\ txHeld' = [t \in TxThread |-> txHeld[t] - producer'.room]
    <2>1. CASE Found = 0
      BY <1>2, <2>1 DEF ProduceLook
    <2>2. CASE Found # 0 /\ producer.stage = "room"
      BY <1>2, <2>2 DEF ProduceLook
    <2>3. CASE Found # 0 /\ producer.stage # "room"
      BY <1>2, <2>3 DEF ProduceLook
    <2>4. QED
      BY <2>1, <2>2, <2>3
  <1>5. /\ \/ producer'.pc = "enter" /\ producer'.stage = producer.stage /\ Found = 0
           \/ producer'.pc = "top"
           \/ producer'.pc = "tell tx" /\ producer'.left = TxThread
        /\ producer'.pc # "tell tx" => txHeld' = txHeld
    BY <1>2, <1>4
  <1>6. ThreadsTypeOK'
    <2>1. /\ producer' = [pc |-> producer'.pc, stage |-> producer'.stage, room |-> producer'.room,
                          left |-> producer'.left]
      BY <1>2, <1>4
    <2>2. txHeld' = [t \in TxThread |-> txHeld'[t]]
      BY <1>4 DEF ThreadsInv, ThreadsTypeOK
    <2>3. QED
      BY <1>1, <2>1, <2>2 DEF ThreadsInv, ThreadsTypeOK
  <1>7. PullersWake'
    <2>1. CASE producer'.pc = "tell tx"
      BY <1>5, <2>1 DEF PullersWake
    <2>2. CASE producer'.pc # "tell tx"
      BY <1>1, <1>3, <1>5, <2>2 DEF ThreadsInv, PullersWake, Waiting, NoRoom, TxRoom, RoomWanted
    <2>3. QED
      BY <2>1, <2>2
  <1>8. ProducerWakes'
    <2>1. CASE producer'.pc = "enter"
      <3>1. Found' = 0
        BY <1>1, <1>5, <2>1, FoundSame DEF rings
      <3>2. QED
        BY <3>1 DEF ProducerWakes
    <2>2. CASE producer'.pc # "enter"
      BY <1>5, <2>2 DEF ProducerWakes, Waiting
    <2>3. QED
      BY <2>1, <2>2
  <1>9. WorkersWake'
    BY <1>1, <1>3 DEF ThreadsInv, WorkersWake, Waiting
  <1>10. StopSeen' /\ DetectorRight' /\ \A r \in RxThread : CutOff(r)'
    BY <1>1 DEF ThreadsInv, StopSeen, DetectorRight, CutOff
  <1>11. QED
    BY <1>6, <1>7, <1>8, <1>9, <1>10 DEF ThreadsInv

\* A row is published: every RX port is still to be told.
LEMMA ProducePublishStep ==
  ASSUME ThreadsInv, ProducePublish
  PROVE  ThreadsInv'
  <1> USE OwnSignals
  <1>1. UNCHANGED << txHeld, moved, puller, worker, stopped, supervisor, wedge, diag >>
    BY DEF ProducePublish, ending
  <1>2. producer.pc = "publish"
    BY DEF ProducePublish
  <1>3. PICK r \in producer.left :
          /\ rxHeld' = [rxHeld EXCEPT ![r] = Append(@, producer.room)]
          /\ producer' = IF producer.left = {r}
                         THEN [producer EXCEPT !.pc = "tell rx", !.left = RxThread]
                         ELSE [producer EXCEPT !.left = @ \ {r}]
    BY DEF ProducePublish
  <1>4. PICK p, stage, room, left :
          producer = [pc |-> p, stage |-> stage, room |-> room, left |-> left]
    BY DEF ThreadsInv, ThreadsTypeOK
  <1>5. \/ producer'.pc = "publish"
        \/ producer'.pc = "tell rx" /\ producer'.left = RxThread
    BY <1>2, <1>3, <1>4
  <1>6. ThreadsTypeOK'
    <2>1. /\ producer' = [pc |-> producer'.pc, stage |-> producer'.stage, room |-> producer'.room,
                          left |-> producer'.left]
      BY <1>3, <1>4
    <2>2. rxHeld' = [q \in RxThread |-> rxHeld'[q]]
      BY <1>3 DEF ThreadsInv, ThreadsTypeOK
    <2>3. QED
      BY <1>1, <2>1, <2>2 DEF ThreadsInv, ThreadsTypeOK
  <1>7. PullersWake'
    BY <1>1, <1>2 DEF ThreadsInv, PullersWake, Waiting, NoRoom, TxRoom, RoomWanted
  <1>8. ProducerWakes'
    BY <1>5 DEF ProducerWakes, Waiting
  <1>9. WorkersWake'
    BY <1>5 DEF WorkersWake
  <1>10. StopSeen' /\ DetectorRight' /\ \A q \in RxThread : CutOff(q)'
    BY <1>1 DEF ThreadsInv, StopSeen, DetectorRight, CutOff
  <1>11. QED
    BY <1>6, <1>7, <1>8, <1>9, <1>10 DEF ThreadsInv

\* One port is told: whoever waits there has its signal moved.
LEMMA ProduceTellStep ==
  ASSUME ThreadsInv, ProduceTell
  PROVE  ThreadsInv'
  <1> USE OwnSignals
  <1>1. UNCHANGED << txHeld, rxHeld, puller, worker, stopped, supervisor, wedge >>
    BY DEF ProduceTell, rings, ending
  <1>2. producer.pc \in {"tell tx", "tell rx"}
    BY DEF ProduceTell
  <1>3. PICK s \in producer.left :
          /\ moved' = [moved EXCEPT ![s] = TRUE]
          /\ IF producer.left # {s}
             THEN producer' = [producer EXCEPT !.left = @ \ {s}] /\ UNCHANGED diag
             ELSE IF producer.pc = "tell tx"
             THEN producer' = [producer EXCEPT !.pc = "publish", !.left = RxThread] /\ UNCHANGED diag
             ELSE /\ producer' = [pc |-> "top", stage |-> "room", room |-> 0, left |-> {}]
                  /\ diag' = Progressed
    BY DEF ProduceTell, Notify
  <1>4. PICK p, stage, room, left :
          producer = [pc |-> p, stage |-> stage, room |-> room, left |-> left]
    BY DEF ThreadsInv, ThreadsTypeOK
  <1>a. \/ producer' = [producer EXCEPT !.left = @ \ {s}]
        \/ /\ producer.left = {s} /\ producer.pc = "tell tx"
           /\ producer' = [producer EXCEPT !.pc = "publish", !.left = RxThread]
        \/ /\ producer.left = {s} /\ producer.pc # "tell tx"
           /\ producer' = [pc |-> "top", stage |-> "room", room |-> 0, left |-> {}]
    BY <1>3
  <1>5. /\ producer' = [pc |-> producer'.pc, stage |-> producer'.stage, room |-> producer'.room,
                        left |-> producer'.left]
        /\ \/ producer'.pc = producer.pc /\ producer'.left = producer.left \ {s}
           \/ producer.left = {s} /\ producer'.pc \in {"publish", "top"}
    <2>1. CASE producer' = [producer EXCEPT !.left = @ \ {s}]
      BY <1>4, <2>1
    <2>2. CASE producer.left = {s} /\ producer' = [producer EXCEPT !.pc = "publish", !.left = RxThread]
      BY <1>4, <2>2
    <2>3. CASE /\ producer.left = {s}
               /\ producer' = [pc |-> "top", stage |-> "room", room |-> 0, left |-> {}]
      BY <2>3
    <2>4. QED
      BY <1>a, <2>1, <2>2, <2>3
  <1>6. /\ moved' \in [Signals -> BOOLEAN] /\ \A q \in Signals : moved[q] => moved'[q]
        /\ s \in Signals => moved'[s]
    BY <1>3 DEF ThreadsInv, ThreadsTypeOK
  <1>7. /\ diag' \in [pulled : SUBSET TxThread, changed : BOOLEAN, quiet : Nat,
                      unsent : [RxThread -> Nat]]
        /\ diag'.pulled = diag.pulled /\ diag'.unsent = diag.unsent
        /\ ~stopped /\ ~diag'.changed => ~diag.changed /\ diag'.quiet = diag.quiet
    <2>1. CASE diag' = diag
      BY <2>1 DEF ThreadsInv, ThreadsTypeOK
    <2>2. CASE diag' = Progressed
      BY <2>2 DEF ThreadsInv, ThreadsTypeOK, Progressed
    <2>3. QED
      BY <1>3, <2>1, <2>2
  <1>8. ThreadsTypeOK'
    BY <1>1, <1>5, <1>6, <1>7 DEF ThreadsInv, ThreadsTypeOK
  <1>9. PullersWake'
    <2> SUFFICES ASSUME NEW t \in TxThread, Waiting(puller[t].pc, t)', ~NoRoom(t)'
                 PROVE  producer'.pc = "tell tx" /\ t \in producer'.left
      BY DEF PullersWake
    <2>1. Waiting(puller[t].pc, t) /\ ~NoRoom(t) /\ t # s
      BY <1>1, <1>6 DEF Waiting, NoRoom, TxRoom, RoomWanted
    <2>2. producer.pc = "tell tx" /\ t \in producer.left
      BY <2>1 DEF ThreadsInv, PullersWake
    <2>3. QED
      BY <2>1, <2>2, <1>5
  <1>10. ProducerWakes'
    BY <1>2, <1>5 DEF ProducerWakes, Waiting
  <1>11. WorkersWake'
    <2> SUFFICES ASSUME NEW r \in RxThread, Waiting(worker[r].pc, r)', rxHeld'[r] # << >>
                 PROVE  producer'.pc = "publish" \/ (producer'.pc = "tell rx" /\ r \in producer'.left)
      BY DEF WorkersWake
    <2>1. Waiting(worker[r].pc, r) /\ rxHeld[r] # << >> /\ r # s
      BY <1>1, <1>6 DEF Waiting
    <2>2. producer.pc = "tell rx" /\ r \in producer.left
      BY <1>2, <2>1 DEF ThreadsInv, WorkersWake
    <2>3. QED
      BY <2>1, <2>2, <1>5
  <1>12. StopSeen' /\ DetectorRight' /\ \A q \in RxThread : CutOff(q)'
    BY <1>1, <1>6, <1>7 DEF ThreadsInv, StopSeen, DetectorRight, CutOff
  <1>13. QED
    BY <1>8, <1>9, <1>10, <1>11, <1>12 DEF ThreadsInv

(***************************************************************************)
(* The steps of Broker::run: they notify, ask for the stop and count.      *)
(***************************************************************************)
LEMMA SupervisorMoves ==
  ASSUME ThreadsInv, Poll \/ EndRun \/ NotifyAll \/ JoinAll
  PROVE  ThreadsInv'
  <1> USE OwnSignals
  <1>0. /\ moved \in [Signals -> BOOLEAN] /\ stopped \in BOOLEAN
        /\ wedge \in [armed : BOOLEAN, still : Nat] /\ WedgePolls \in Nat \ {0}
        /\ diag \in [pulled : SUBSET TxThread, changed : BOOLEAN, quiet : Nat,
                     unsent : [RxThread -> Nat]]
    BY ThreadsAssumption DEF ThreadsInv, ThreadsTypeOK
  <1>1. UNCHANGED << txHeld, rxHeld, puller, producer, worker >>
    BY DEF Poll, EndRun, NotifyAll, JoinAll, rings
  <1>2. /\ moved' \in [Signals -> BOOLEAN]
        /\ \A s \in Signals : moved[s] => moved'[s]
    BY <1>0 DEF Poll, EndRun, NotifyAll, JoinAll
  <1>3. /\ StopSeen' /\ DetectorRight' /\ (stopped => stopped')
        /\ stopped' \in BOOLEAN /\ supervisor' \in {"poll", "notify", "join", "ended"}
        /\ wedge' \in [armed : BOOLEAN, still : Nat]
        /\ diag' \in [pulled : SUBSET TxThread, changed : BOOLEAN, quiet : Nat,
                      unsent : [RxThread -> Nat]]
        /\ diag'.unsent = diag.unsent
    <2>1. CASE Poll
      <3> DEFINE still == IF wedge.armed /\ ~diag.changed THEN wedge.still + 1 ELSE 0
      <3>1. /\ ~stopped /\ supervisor = "poll"
            /\ wedge' = [armed |-> wedge.armed \/ Pulling, still |-> still]
            /\ stopped' = (still = WedgePolls)
            /\ supervisor' = IF still = WedgePolls THEN "notify" ELSE "poll"
            /\ diag' = [diag EXCEPT !.changed = FALSE, !.quiet = Min({@ + 1, WedgePolls})]
        BY <2>1 DEF Poll
      <3>2. still \in Nat /\ still <= WedgePolls
        BY <1>0, <3>1 DEF ThreadsInv, DetectorRight
      <3>3. diag'.quiet = IF diag.quiet + 1 <= WedgePolls THEN diag.quiet + 1 ELSE WedgePolls
        BY <1>0, <3>1, LeastOfTwo
      <3>4. still <= diag'.quiet /\ diag'.quiet \in Nat
        BY <1>0, <3>1, <3>2, <3>3 DEF ThreadsInv, DetectorRight
      <3>5. /\ diag' \in [pulled : SUBSET TxThread, changed : BOOLEAN, quiet : Nat,
                          unsent : [RxThread -> Nat]]
            /\ diag'.pulled = diag.pulled /\ diag'.unsent = diag.unsent /\ ~diag'.changed
        BY <1>0, <3>1, <3>4
      <3>6. /\ wedge' \in [armed : BOOLEAN, still : Nat] /\ wedge'.still = still
            /\ wedge'.armed => diag'.pulled = TxThread
        BY <1>0, <3>1, <3>2, <3>5 DEF Pulling, ThreadsInv, DetectorRight
      <3>7. DetectorRight'
        BY <3>1, <3>2, <3>4, <3>6, <1>0 DEF DetectorRight
      <3>8. StopSeen' /\ stopped' \in BOOLEAN /\ supervisor' \in {"poll", "notify", "join", "ended"}
        BY <3>1 DEF StopSeen
      <3>9. QED
        BY <3>1, <3>5, <3>6, <3>7, <3>8
    <2>2. CASE EndRun
      BY <1>0, <2>2 DEF EndRun, StopSeen, DetectorRight, ThreadsInv
    <2>3. CASE NotifyAll
      <3>1. stopped
        BY <2>3 DEF NotifyAll, ThreadsInv, StopSeen
      <3>2. QED
        BY <1>0, <2>3, <3>1 DEF NotifyAll, StopSeen, DetectorRight
    <2>4. CASE JoinAll
      BY <1>0, <2>4 DEF JoinAll, StopSeen, DetectorRight, ThreadsInv
    <2>5. QED
      BY <2>1, <2>2, <2>3, <2>4
  <1>4. ThreadsTypeOK'
    BY <1>1, <1>2, <1>3 DEF ThreadsInv, ThreadsTypeOK
  <1>5. PullersWake'
    BY <1>1, <1>2 DEF ThreadsInv, PullersWake, Waiting, NoRoom, TxRoom, RoomWanted
  <1>6. ProducerWakes'
    BY <1>1, <1>2, FoundSame DEF ThreadsInv, ProducerWakes, Waiting, rings
  <1>7. WorkersWake'
    BY <1>1, <1>2 DEF ThreadsInv, WorkersWake, Waiting
  <1>8. \A r \in RxThread : CutOff(r)'
    BY <1>1, <1>3 DEF ThreadsInv, CutOff
  <1>9. QED
    BY <1>3, <1>4, <1>5, <1>6, <1>7, <1>8 DEF ThreadsInv

\* The 5 ms take a thread out of its wait; it then looks at its ring again.
LEMMA WaitTimeoutStep ==
  ASSUME ThreadsInv, WaitTimeout
  PROVE  ThreadsInv'
  <1> USE OwnSignals
  <1>1. UNCHANGED << txHeld, rxHeld, moved, stopped, supervisor, wedge, diag >>
    BY DEF WaitTimeout, rings, ending
  <1>2. ASSUME NEW t \in TxThread, puller[t].pc = "blocked",
               puller' = [puller EXCEPT ![t].pc = "top"], UNCHANGED << producer, worker >>
        PROVE  ThreadsInv'
    <2>1. PullerMove(t)
      BY <1>1, <1>2 DEF PullerMove, ThreadsInv, ThreadsTypeOK
    <2>2. QED
      BY <2>1, PullerMoves
  <1>3. CASE /\ producer.pc = "blocked" /\ producer' = [producer EXCEPT !.pc = "top"]
             /\ UNCHANGED << puller, worker >>
    BY <1>1, <1>3, ProducerRests DEF rings, ending
  <1>4. ASSUME NEW r \in RxThread, worker[r].pc = "blocked",
               worker' = [worker EXCEPT ![r].pc = "ticket"], UNCHANGED << puller, producer >>
        PROVE  ThreadsInv'
    <2>1. rxHeld' = [rxHeld EXCEPT ![r] = rxHeld'[r]]
      <3> DEFINE S == {rxHeld[q] : q \in RxThread}
      <3>1. rxHeld \in [RxThread -> S]
        BY DEF ThreadsInv, ThreadsTypeOK
      <3> HIDE DEF S
      <3>2. QED
        BY <1>1, <3>1
    <2>2. worker'[r] \in [pc : {"ticket"}, inRing : BOOLEAN] /\ worker' = [worker EXCEPT ![r] = worker'[r]]
      BY <1>4 DEF ThreadsInv, ThreadsTypeOK
    <2>3. CutOff(r)'
      BY <1>1, <1>4, <2>2 DEF ThreadsInv, CutOff
    <2>4. /\ moved \in [Signals -> BOOLEAN] /\ stopped \in BOOLEAN
          /\ diag \in [pulled : SUBSET TxThread, changed : BOOLEAN, quiet : Nat,
                       unsent : [RxThread -> Nat]]
      BY DEF ThreadsInv, ThreadsTypeOK
    <2>5. WorkerMove(r)
      BY <1>1, <1>4, <2>1, <2>2, <2>3, <2>4 DEF WorkerMove
    <2>6. QED
      BY <2>5, WorkerMoves
  <1>5. QED
    BY <1>2, <1>3, <1>4 DEF WaitTimeout

\* The threads start in a state that satisfies the invariant.
LEMMA ThreadsStart ==
  ASSUME ThreadsInit
  PROVE  ThreadsInv
  <1> USE OwnSignals DEF ThreadsInit
  <1>1. ThreadsTypeOK
    BY DEF ThreadsTypeOK
  <1>2. PullersWake /\ ProducerWakes /\ WorkersWake
    BY DEF PullersWake, ProducerWakes, WorkersWake, Waiting
  <1>3. StopSeen /\ DetectorRight /\ \A r \in RxThread : CutOff(r)
    BY ThreadsAssumption DEF StopSeen, DetectorRight, CutOff
  <1>4. QED
    BY <1>1, <1>2, <1>3 DEF ThreadsInv

\* Every step of every thread keeps it.
LEMMA ThreadsStep ==
  ASSUME ThreadsInv, [ThreadsNext]_threadVars
  PROVE  ThreadsInv'
  <1>1. ASSUME NEW t \in TxThread, PullerThread(t) \/ PullMessage(t) \/ PullFails(t)
        PROVE  ThreadsInv'
    BY <1>1, PullLookStep, PullerMoves, PullerMovesOnly DEF PullerThread
  <1>2. CASE ProducerThread
    BY <1>2, ProducerRests, ProduceLookStep, ProducePublishStep, ProduceTellStep DEF ProducerThread
  <1>3. ASSUME NEW r \in RxThread,
               WorkerThread(r) \/ WorkerSend(r) \/ WorkerRequest(r) \/ WorkerFails(r)
        PROVE  ThreadsInv'
    BY <1>3, WorkerMoves, WorkerMovesOnly
  <1>4. CASE WaitTimeout
    BY <1>4, WaitTimeoutStep
  <1>5. CASE Poll \/ EndRun \/ NotifyAll \/ JoinAll
    BY <1>5, SupervisorMoves
  <1>6. CASE UNCHANGED threadVars
    <2>1. UNCHANGED << txHeld, rxHeld, moved, puller, producer, worker, stopped, supervisor, wedge, diag >>
      BY <1>6 DEF threadVars
    <2>2. ThreadsTypeOK' /\ StopSeen' /\ DetectorRight' /\ \A r \in RxThread : CutOff(r)'
      BY <2>1 DEF ThreadsInv, ThreadsTypeOK, StopSeen, DetectorRight, CutOff
    <2>3. PullersWake' /\ WorkersWake'
      BY <2>1 DEF ThreadsInv, PullersWake, WorkersWake, Waiting, NoRoom, TxRoom, RoomWanted
    <2>4. ProducerWakes'
      BY <2>1, FoundSame DEF ThreadsInv, ProducerWakes, Waiting, rings
    <2>5. QED
      BY <2>2, <2>3, <2>4 DEF ThreadsInv
  <1>7. QED
    BY <1>1, <1>2, <1>3, <1>4, <1>5, <1>6 DEF ThreadsNext

\* The threads keep their signals, their rings and the detector consistent,
\* whatever order they run in (RingProgress, run_puller, run_producer,
\* run_rep_worker, Broker::run).
THEOREM ThreadsInvariant == ThreadsSpec => []ThreadsInv
  <1>1. ThreadsInit => ThreadsInv
    BY ThreadsStart
  <1>2. ThreadsInv /\ [ThreadsNext]_threadVars => ThreadsInv'
    BY ThreadsStep
  <1>3. QED
    BY <1>1, <1>2, PTL DEF ThreadsSpec

\* The invariant leaves no thread asleep with something to do and nobody to wake it.
LEMMA WakesNotLost == ThreadsInv => NoLostWake
  <1> SUFFICES ASSUME ThreadsInv PROVE NoLostWake
    OBVIOUS
  <1> USE DEF ThreadsInv, Sleeping, Waiting
  <1>1. /\ \A t \in TxThread : Sleeping(puller[t].pc, t) /\ ~NoRoom(t) =>
             producer.pc = "tell tx" /\ t \in producer.left
        /\ \A r \in RxThread : Sleeping(worker[r].pc, r) /\ rxHeld[r] # << >> =>
             producer.pc = "publish" \/ (producer.pc = "tell rx" /\ r \in producer.left)
    BY DEF PullersWake, WorkersWake
  <1>2. Sleeping(producer.pc, Node) /\ Found > 0 =>
          \/ \E t \in TxThread : puller[t].pc = "notify"
          \/ \E r \in RxThread : worker[r].pc = "freed"
    BY DEF ProducerWakes
  <1>3. supervisor \in {"join", "ended"} => \A s \in Signals : moved[s]
    BY DEF StopSeen
  <1>4. QED
    BY <1>1, <1>2, <1>3, OwnSignals DEF NoLostWake

\* No wake-up is ever lost: RingProgress::wait_past needs its 5 ms for nothing.
THEOREM NoWakeIsLost == ThreadsSpec => []NoLostWake
  BY ThreadsInvariant, WakesNotLost, PTL

\* At most one reply per port is counted and not sent, and that by a stop.
LEMMA RepliesAreCounted == ThreadsInv => RepliesCounted
  <1> SUFFICES ASSUME ThreadsInv, NEW r \in RxThread
               PROVE  diag.unsent[r] <= 1 /\ (diag.unsent[r] = 1 => stopped)
    BY DEF RepliesCounted
  <1>1. diag.unsent[r] \in Nat /\ CutOff(r)
    BY DEF ThreadsInv, ThreadsTypeOK
  <1>2. QED
    BY <1>1 DEF CutOff

\* A poll that gives the run up has seen the relay stand still for all its polls.
LEMMA GivesUpRightly ==
  ASSUME ThreadsInv, [ThreadsNext]_threadVars
  PROVE  [GivenUp]_wedge
  <1> SUFFICES ASSUME wedge' # wedge, wedge'.still = WedgePolls
               PROVE  diag.pulled = TxThread /\ diag'.quiet = WedgePolls
    BY DEF GivenUp
  <1>0. /\ wedge \in [armed : BOOLEAN, still : Nat] /\ WedgePolls \in Nat \ {0}
        /\ diag \in [pulled : SUBSET TxThread, changed : BOOLEAN, quiet : Nat,
                     unsent : [RxThread -> Nat]]
    BY ThreadsAssumption DEF ThreadsInv, ThreadsTypeOK
  <1>1. Poll \/ NotifyAll
    BY DEF ThreadsNext, PullerThread, ProducerThread, WorkerThread, PullTop, PullLook, PullNotify,
           PullWait, PullIdle, PullMessage, PullFails, ProduceTop, ProduceLook, ProduceWait,
           ProducePublish, ProduceTell, WorkerTicket, WorkerLook, WorkerWait, WorkerNotify,
           WorkerIdle, WorkerSend, WorkerRequest, WorkerFails, WaitTimeout, EndRun, JoinAll,
           threadVars, ending
  <1>2. CASE NotifyAll
    BY <1>0, <1>2 DEF NotifyAll
  <1>3. CASE Poll
    <2> DEFINE still == IF wedge.armed /\ ~diag.changed THEN wedge.still + 1 ELSE 0
    <2>1. /\ ~stopped /\ still = WedgePolls
          /\ diag'.quiet = Min({diag.quiet + 1, WedgePolls})
      BY <1>0, <1>3 DEF Poll
    <2>2. wedge.armed /\ ~diag.changed /\ wedge.still + 1 = WedgePolls
      BY <1>0, <2>1
    <2>3. diag.pulled = TxThread /\ wedge.still <= diag.quiet
      BY <2>1, <2>2 DEF ThreadsInv, DetectorRight
    <2>4. diag'.quiet = IF diag.quiet + 1 <= WedgePolls THEN diag.quiet + 1 ELSE WedgePolls
      BY <1>0, <2>1, LeastOfTwo
    <2>5. QED
      BY <1>0, <2>2, <2>3, <2>4
  <1>4. QED
    BY <1>1, <1>2, <1>3

\* The detector gives up only a relay that stood still for the whole timeout
\* after every puller had pulled, and the replies counted are the replies sent.
THEOREM StopsHonestly == ThreadsSpec => StopHonest
  <1>1. ThreadsInv /\ [ThreadsNext]_threadVars => [GivenUp]_wedge
    BY GivesUpRightly
  <1>2. QED
    BY <1>1, ThreadsInvariant, RepliesAreCounted, PTL DEF ThreadsSpec, StopHonest
=============================================================================
