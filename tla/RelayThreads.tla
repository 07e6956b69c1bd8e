---------------------------- MODULE RelayThreads ----------------------------
(***************************************************************************)
(* How the threads of Broker::run wake each other and how a run ends: the  *)
(* signals of RingProgress (a generation, a ticket taken before the rings  *)
(* are looked at, notify_one), the loops of puller, producer and REP       *)
(* worker around them, the wedge detector, and the stop with its joins.    *)
(* One node that hears all its TX ports; samples are only counted here     *)
(* (RxPorts, TxPorts and Relay say which ones they are).                   *)
(*                                                                         *)
(* `moved[s]' is the predicate of wait(): the generation of signal s is no *)
(* longer the one of its waiter's ticket.  Each signal has one waiter.     *)
(***************************************************************************)
EXTENDS RuntimeConfig, SequencesExt

CONSTANTS
  TxThread,    \* the pullers, one per TX port
  RxThread,    \* the REP workers, one per RX port
  Chunks,      \* the lengths of the messages the radio sends
  WedgePolls   \* OCG_BROKER_WEDGE_TIMEOUT_MS in polls of 20 ms

VARIABLES
  txHeld,      \* samples of each TX ring that the node has not consumed
  rxHeld,      \* the windows of each RX ring (rx_slots)
  moved,       \* generation_ # observed, per signal
  puller,      \* run_puller: [pc, pending]
  producer,    \* run_producer: [pc, stage, room, left]
  worker,      \* run_rep_worker: [pc, inRing]
  stopped,     \* stop_requested
  supervisor,  \* the thread in Broker::run
  wedge,       \* the detector: [armed, still]
  diag         \* WorkerDiag counters: [pulled, changed]; history: [quiet, unsent]

threadVars == << txHeld, rxHeld, moved, puller, producer, worker, stopped,
                 supervisor, wedge, diag >>
rings == << txHeld, rxHeld >>
ending == << stopped, supervisor, wedge >>

Node == "node"
Signals == TxThread \cup RxThread \cup {Node}

\* Every port and the node have a RingProgress of their own.
ASSUME ThreadsAssumption ==
  /\ TxThread \cap RxThread = {} /\ Node \notin TxThread \cup RxThread
  /\ Chunks \subseteq 1 .. QueueSamples /\ WedgePolls \in Nat \ {0}

Total(windows) == FoldLeft(LAMBDA a, b : a + b, 0, windows)
Occupied(r) == Total(rxHeld[r])

ThreadsInit ==
  /\ txHeld = [t \in TxThread |-> 0]
  /\ rxHeld = [r \in RxThread |-> << >>]
  /\ moved = [s \in Signals |-> FALSE]
  /\ puller = [t \in TxThread |-> [pc |-> "top", pending |-> 0]]
  /\ producer = [pc |-> "top", stage |-> "room", room |-> 0, left |-> {}]
  /\ worker = [r \in RxThread |-> [pc |-> "recv", inRing |-> FALSE]]
  /\ stopped = FALSE
  /\ supervisor = "poll"
  /\ wedge = [armed |-> FALSE, still |-> 0]
  /\ diag = [pulled |-> {}, changed |-> FALSE, quiet |-> 0, unsent |-> [r \in RxThread |-> 0]]
-----------------------------------------------------------------------------
(***************************************************************************)
(* RingProgress.  A thread that found nothing to do enters wait() at       *)
(* "enter" and goes back to `top' if the predicate holds, else it blocks;  *)
(* a notify or the 5 ms time limit gets it out.                            *)
(***************************************************************************)
Ticket(s) == moved' = [moved EXCEPT ![s] = FALSE]
Notify(s) == moved' = [moved EXCEPT ![s] = TRUE]

Entered(s, top) == IF moved[s] \/ stopped THEN top ELSE "blocked"

\* A progress counter moves on: relay_progress() # wedge_last_progress.  Once a
\* stop is asked for nobody compares the counters any more.
Progressed == IF stopped THEN diag ELSE [diag EXCEPT !.changed = TRUE, !.quiet = 0]
-----------------------------------------------------------------------------
\* Where run_puller's `while' looks at stop_requested and takes its ticket.
PullTop(t) ==
  /\ puller[t].pc = "top"
  /\ IF stopped THEN puller' = [puller EXCEPT ![t].pc = "done"] /\ UNCHANGED moved
     ELSE puller' = [puller EXCEPT ![t].pc = "look"] /\ Ticket(t)
  /\ UNCHANGED << rings, producer, worker, ending, diag >>

\* The ring once what the node has consumed is discarded.
TxRoom(t) == QueueSamples - txHeld[t]
RoomWanted(t) == IF puller[t].pending > 0 THEN puller[t].pending ELSE Batch
NoRoom(t) == TxRoom(t) < RoomWanted(t)

PullLook(t) ==
  /\ puller[t].pc = "look"
  /\ IF NoRoom(t)
     THEN puller' = [puller EXCEPT ![t].pc = "enter"] /\ UNCHANGED << txHeld, diag >>
     ELSE IF puller[t].pending = 0
     THEN puller' = [puller EXCEPT ![t].pc = "recv"] /\ UNCHANGED << txHeld, diag >>
     ELSE /\ txHeld' = [txHeld EXCEPT ![t] = @ + puller[t].pending]
          /\ puller' = [puller EXCEPT ![t] = [pc |-> "notify", pending |-> 0]]
          /\ diag' = [Progressed EXCEPT !.pulled = IF stopped THEN @ ELSE @ \cup {t}]
  /\ UNCHANGED << rxHeld, moved, producer, worker, ending >>

PullNotify(t) ==
  /\ puller[t].pc = "notify"
  /\ puller' = [puller EXCEPT ![t].pc = "top"]
  /\ Notify(Node)
  /\ UNCHANGED << rings, producer, worker, ending, diag >>

\* Mutant of PullWait: the ticket is taken on entering the wait.
PullWaitAfresh(t) ==
  /\ \/ puller[t].pc = "enter" /\ puller' = [puller EXCEPT ![t].pc = "blocked"] /\ Ticket(t)
     \/ /\ puller[t].pc = "blocked" /\ moved[t]
        /\ puller' = [puller EXCEPT ![t].pc = "top"] /\ UNCHANGED moved
  /\ UNCHANGED << rings, producer, worker, ending, diag >>

PullWait(t) ==
  /\ \/ puller[t].pc = "enter" /\ puller' = [puller EXCEPT ![t].pc = Entered(t, "top")]
     \/ puller[t].pc = "blocked" /\ moved[t] /\ puller' = [puller EXCEPT ![t].pc = "top"]
  /\ UNCHANGED << rings, moved, producer, worker, ending, diag >>

\* The radio answers the request, or does not within the socket's 100 ms.
PullMessage(t) ==
  /\ puller[t].pc = "recv"
  /\ \E n \in Chunks : puller' = [puller EXCEPT ![t] = [pc |-> "top", pending |-> n]]
  /\ UNCHANGED << rings, moved, producer, worker, ending, diag >>

PullIdle(t) ==
  /\ puller[t].pc = "recv"
  /\ puller' = [puller EXCEPT ![t].pc = "top"]
  /\ UNCHANGED << rings, moved, producer, worker, ending, diag >>

\* A payload larger than the ring, or a socket error: report_thread_error.
PullFails(t) ==
  /\ puller[t].pc = "recv"
  /\ puller' = [puller EXCEPT ![t].pc = "done"]
  /\ stopped' = TRUE
  /\ UNCHANGED << rings, moved, producer, worker, supervisor, wedge, diag >>
-----------------------------------------------------------------------------
ProduceTop ==
  /\ producer.pc = "top"
  /\ IF stopped THEN producer' = [producer EXCEPT !.pc = "done"] /\ UNCHANGED moved
     ELSE producer' = [producer EXCEPT !.pc = "look"] /\ Ticket(Node)
  /\ UNCHANGED << rings, puller, worker, ending, diag >>

\* Steps (A) and (C): the room every RX port has, the samples every lane has.  The
\* code looks at one port after the other under one ticket; a change behind its
\* back moves the generation, so that looking once at all of them loses nothing.
RxRoom == Min({Batch} \cup {Batch - Occupied(r) : r \in RxThread})
Common == Min({Batch} \cup {txHeld[t] : t \in TxThread})
Found == IF producer.stage = "room" THEN RxRoom ELSE Common

\* A window found is processed and committed (F): all cursors move by it, then
\* every source port is told.  Until then the pullers can only add samples.
ProduceLook ==
  /\ producer.pc = "look"
  /\ producer' =
       IF Found = 0 THEN [producer EXCEPT !.pc = "enter"]
       ELSE IF producer.stage = "room"
       THEN [producer EXCEPT !.pc = "top", !.stage = "data", !.room = Found]
       ELSE [producer EXCEPT !.pc = "tell tx", !.room = Min({@, Found}), !.left = TxThread]
  /\ txHeld' = IF producer'.pc = "tell tx"
               THEN [t \in TxThread |-> txHeld[t] - producer'.room] ELSE txHeld
  /\ UNCHANGED << rxHeld, moved, puller, worker, ending, diag >>

ProduceWait ==
  /\ \/ producer.pc = "enter" /\ producer' = [producer EXCEPT !.pc = Entered(Node, "top")]
     \/ producer.pc = "blocked" /\ moved[Node] /\ producer' = [producer EXCEPT !.pc = "top"]
  /\ UNCHANGED << rings, moved, puller, worker, ending, diag >>

\* (H) Each row into its port's ring, then every RX port is told.
ProducePublish ==
  /\ producer.pc = "publish"
  /\ \E r \in producer.left :
       /\ rxHeld' = [rxHeld EXCEPT ![r] = Append(@, producer.room)]
       /\ producer' = IF producer.left = {r}
                      THEN [producer EXCEPT !.pc = "tell rx", !.left = RxThread]
                      ELSE [producer EXCEPT !.left = @ \ {r}]
  /\ UNCHANGED << txHeld, moved, puller, worker, ending, diag >>

ProduceTell ==
  /\ producer.pc \in {"tell tx", "tell rx"}
  /\ \E s \in producer.left :
       /\ Notify(s)
       /\ IF producer.left # {s}
          THEN producer' = [producer EXCEPT !.left = @ \ {s}] /\ UNCHANGED diag
          ELSE IF producer.pc = "tell tx"
          THEN producer' = [producer EXCEPT !.pc = "publish", !.left = RxThread] /\ UNCHANGED diag
          ELSE /\ producer' = [pc |-> "top", stage |-> "room", room |-> 0, left |-> {}]
               /\ diag' = Progressed
  /\ UNCHANGED << rings, puller, worker, ending >>
-----------------------------------------------------------------------------
WorkerRequest(r) ==
  /\ worker[r].pc = "recv"
  /\ worker' = [worker EXCEPT ![r].pc = "ticket"]
  /\ UNCHANGED << rings, moved, puller, producer, ending, diag >>

\* No request within the socket's 100 ms: the loop looks at stop_requested.
WorkerIdle(r) ==
  /\ worker[r].pc = "recv" /\ stopped
  /\ worker' = [worker EXCEPT ![r].pc = "done"]
  /\ UNCHANGED << rings, moved, puller, producer, ending, diag >>

WorkerFails(r) ==
  /\ worker[r].pc = "recv"
  /\ worker' = [worker EXCEPT ![r].pc = "done"]
  /\ stopped' = TRUE
  /\ UNCHANGED << rings, moved, puller, producer, supervisor, wedge, diag >>

WorkerTicket(r) ==
  /\ worker[r].pc = "ticket"
  /\ IF stopped THEN worker' = [worker EXCEPT ![r].pc = "done"] /\ UNCHANGED moved
     ELSE worker' = [worker EXCEPT ![r].pc = "look"] /\ Ticket(r)
  /\ UNCHANGED << rings, puller, producer, ending, diag >>

\* One window, kept in the ring until it is sent, or copied out and released
\* at once (the copying broker, and a window that wraps).
WorkerLook(r) ==
  /\ worker[r].pc = "look"
  /\ IF rxHeld[r] = << >>
     THEN worker' = [worker EXCEPT ![r].pc = "enter"] /\ UNCHANGED rxHeld
     ELSE \/ /\ FewerCopies
             /\ worker' = [worker EXCEPT ![r] = [pc |-> "send", inRing |-> TRUE]]
             /\ UNCHANGED rxHeld
          \/ /\ worker' = [worker EXCEPT ![r] = [pc |-> "freed", inRing |-> FALSE]]
             /\ rxHeld' = [rxHeld EXCEPT ![r] = Tail(@)]
  /\ UNCHANGED << txHeld, moved, puller, producer, ending, diag >>

WorkerWait(r) ==
  /\ \/ worker[r].pc = "enter" /\ worker' = [worker EXCEPT ![r].pc = Entered(r, "ticket")]
     \/ worker[r].pc = "blocked" /\ moved[r] /\ worker' = [worker EXCEPT ![r].pc = "ticket"]
  /\ UNCHANGED << rings, moved, puller, producer, ending, diag >>

\* The send loop ends with the send, or with a stop while the radio does not
\* take the reply; the code after it is the same.
WorkerSend(r) ==
  /\ worker[r].pc = "send"
  /\ LET after == IF worker[r].inRing THEN "freed" ELSE "recv"
         ended == IF worker[r].inRing THEN diag ELSE Progressed
     IN  /\ worker' = [worker EXCEPT ![r].pc = after]
         /\ \/ diag' = ended
            \/ stopped /\ diag' = [ended EXCEPT !.unsent[r] = @ + 1]
  /\ rxHeld' = IF worker[r].inRing THEN [rxHeld EXCEPT ![r] = Tail(@)] ELSE rxHeld
  /\ UNCHANGED << txHeld, moved, puller, producer, ending >>

WorkerNotify(r) ==
  /\ worker[r].pc = "freed"
  /\ Notify(Node)
  /\ IF worker[r].inRing
     THEN worker' = [worker EXCEPT ![r].pc = "recv"] /\ diag' = Progressed
     ELSE worker' = [worker EXCEPT ![r].pc = "send"] /\ UNCHANGED diag
  /\ UNCHANGED << rings, puller, producer, ending >>
-----------------------------------------------------------------------------
\* The 5 ms of wait_for: nothing below relies on them.
WaitTimeout ==
  /\ \/ \E t \in TxThread : puller[t].pc = "blocked" /\ puller' = [puller EXCEPT ![t].pc = "top"]
                            /\ UNCHANGED << producer, worker >>
     \/ producer.pc = "blocked" /\ producer' = [producer EXCEPT !.pc = "top"]
        /\ UNCHANGED << puller, worker >>
     \/ \E r \in RxThread : worker[r].pc = "blocked" /\ worker' = [worker EXCEPT ![r].pc = "ticket"]
                            /\ UNCHANGED << puller, producer >>
  /\ UNCHANGED << rings, moved, ending, diag >>

\* Mutant of Pulling: the detector is armed from the start.
PullingUnseen == TRUE

\* The detector is armed once every puller has pulled.
Pulling == diag.pulled = TxThread

(***************************************************************************)
(* One poll of Broker::run, every 20 ms: until the detector is armed the   *)
(* clock of the relay is read afresh, then the polls it stood still count. *)
(***************************************************************************)
Poll ==
  LET still == IF wedge.armed /\ ~diag.changed THEN wedge.still + 1 ELSE 0
  IN  /\ supervisor = "poll" /\ ~stopped
      /\ wedge' = [armed |-> wedge.armed \/ Pulling, still |-> still]
      /\ stopped' = (still = WedgePolls)
      /\ supervisor' = IF still = WedgePolls THEN "notify" ELSE "poll"
      /\ diag' = [diag EXCEPT !.changed = FALSE, !.quiet = Min({@ + 1, WedgePolls})]
      /\ UNCHANGED << rings, moved, puller, producer, worker >>

\* The loop ends: a worker or a signal handler asked for it, or --duration.
EndRun ==
  /\ supervisor = "poll"
  /\ stopped' = TRUE
  /\ supervisor' = "notify"
  /\ UNCHANGED << rings, moved, puller, producer, worker, wedge, diag >>

\* Every signal is notified; each wakes another thread, so they need no order.
\* The loop's variables are gone, and with them what the model keeps for it.
NotifyAll ==
  /\ supervisor = "notify"
  /\ moved' = [s \in Signals |-> TRUE]
  /\ supervisor' = "join"
  /\ wedge' = [armed |-> FALSE, still |-> 0]
  /\ diag' = [diag EXCEPT !.pulled = {}, !.changed = FALSE, !.quiet = 0]
  /\ UNCHANGED << rings, puller, producer, worker, stopped >>

JoinAll ==
  /\ supervisor = "join"
  /\ \A t \in TxThread : puller[t].pc = "done"
  /\ producer.pc = "done"
  /\ \A r \in RxThread : worker[r].pc = "done"
  /\ supervisor' = "ended"
  /\ UNCHANGED << rings, moved, puller, producer, worker, stopped, wedge, diag >>
-----------------------------------------------------------------------------
PullerThread(t) == PullTop(t) \/ PullLook(t) \/ PullNotify(t) \/ PullWait(t) \/ PullIdle(t)
ProducerThread ==
  ProduceTop \/ ProduceLook \/ ProduceWait \/ ProducePublish \/ ProduceTell
WorkerThread(r) == WorkerTicket(r) \/ WorkerLook(r) \/ WorkerWait(r) \/ WorkerNotify(r) \/ WorkerIdle(r)

\* A step of any thread.
ThreadsNext ==
  \/ \E t \in TxThread : PullerThread(t) \/ PullMessage(t) \/ PullFails(t)
  \/ ProducerThread
  \/ \E r \in RxThread : WorkerThread(r) \/ WorkerSend(r) \/ WorkerRequest(r) \/ WorkerFails(r)
  \/ WaitTimeout \/ Poll \/ EndRun \/ NotifyAll \/ JoinAll

ThreadsSpec == ThreadsInit /\ [][ThreadsNext]_threadVars

(***************************************************************************)
(* A thread that is blocked although its rings have changed in its favour  *)
(* will be notified by the thread that changed them, so that the 5 ms of   *)
(* the wait are never what it waits for; and after the notifications of a  *)
(* stop none is blocked for good (RingProgress: "a publication between the *)
(* empty check and wait must not become a lost wake").                     *)
(***************************************************************************)
Sleeping(pc, s) == pc = "blocked" /\ ~moved[s]

NoLostWake ==
  /\ \A t \in TxThread : Sleeping(puller[t].pc, t) /\ ~NoRoom(t) =>
       producer.pc = "tell tx" /\ t \in producer.left
  /\ Sleeping(producer.pc, Node) /\ Found > 0 =>
       \/ \E t \in TxThread : puller[t].pc = "notify"
       \/ \E r \in RxThread : worker[r].pc = "freed"
  /\ \A r \in RxThread : Sleeping(worker[r].pc, r) /\ rxHeld[r] # << >> =>
       producer.pc = "publish" \/ (producer.pc = "tell rx" /\ r \in producer.left)
  /\ supervisor \in {"join", "ended"} =>
       /\ \A t \in TxThread : ~Sleeping(puller[t].pc, t)
       /\ ~Sleeping(producer.pc, Node)
       /\ \A r \in RxThread : ~Sleeping(worker[r].pc, r)

\* The detector gives a run up only after every puller has pulled and when no
\* worker has got anything done for the whole timeout; and the replies counted
\* (rx_requests) are the replies sent, but for one per port that a stop cut off.
GivenUp == wedge'.still = WedgePolls => diag.pulled = TxThread /\ diag'.quiet = WedgePolls
RepliesCounted == \A r \in RxThread : diag.unsent[r] <= 1 /\ (diag.unsent[r] = 1 => stopped)
StopHonest == [][GivenUp]_wedge /\ []RepliesCounted

\* A run that is asked to stop, by a signal, its duration, a worker's error or
\* the detector, ends with all threads joined.
RunStops == stopped ~> supervisor = "ended"

\* An armed detector ends a run in which nothing moves any more.
WedgeCaught == <>[](wedge.armed /\ diag.quiet > 0) => <>stopped
=============================================================================
