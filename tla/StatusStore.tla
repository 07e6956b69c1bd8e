---------------------------- MODULE StatusStore ----------------------------
(***************************************************************************)
(* The dashboard's StatusStore (apps/dashboard/server.py) and what feeds   *)
(* it: the tail of the bridge's JSONL file, the telemetry subscription and *)
(* the HTTP threads that take snapshots.  Every update of the store runs   *)
(* under its lock, so each is one step; a snapshot reads the clock before  *)
(* it takes the lock.                                                      *)
(*                                                                         *)
(* Bridge, broker and file system are the environment, modelled from the   *)
(* records and frames the dashboard parses.  One clock serves as wall      *)
(* clock, monotonic clock and slot counter; it starts at 1 and 0 means     *)
(* None.                                                                   *)
(***************************************************************************)
EXTENDS Integers, SequencesExt

CONSTANTS
  NumLinks,      \* links 1 .. NumLinks, in the order of the control reply
  Legacy,        \* does the broker report no warm-up events?
  Fresh,         \* TELEMETRY_FRESH_SECONDS
  MaxEvents,     \* the 512 of _iteration_history
  Warmup,        \* slots of a warm-up
  Replies,       \* control replies the bridge may record
  MaxNow, MaxBatch   \* bounds of the model

Link == 1 .. NumLinks

ASSUME StoreAssumption ==
  /\ {NumLinks, MaxEvents, MaxNow, Warmup} \subseteq Nat \ {0}
  /\ {Fresh, MaxBatch} \subseteq Nat
  /\ Legacy \in BOOLEAN
  /\ Replies \subseteq {"missing", "dry_run", "rejected", "ok"}

VARIABLES
  now,      \* the clock
  bridge,   \* the Sionna bridge: where it is in its iteration
  file,     \* the records of the JSONL file the tail has yet to read
  broker,   \* per link, what the broker's backend has applied
  store,    \* StatusStore
  past      \* history: the bridge's updates and the broker's warm-ups

storeVars == << now, bridge, file, broker, store, past >>

NoPayload == [seqno |-> -1, active |-> FALSE, slot |-> 0, until |-> 0,
              event |-> 0, profile |-> 0, begin |-> 0, end |-> 0]
NoUpdate == [session |-> 0, iter |-> 0]
NoTargets == [k \in {} |-> 0]

\* Telemetry of a link as the broker publishes it; a legacy broker has no
\* warm-up events (event = -1).
Payload(l) ==
  IF Legacy
  THEN [broker[l] EXCEPT !.slot = now, !.event = -1, !.profile = 0, !.begin = 0, !.end = 0]
  ELSE [broker[l] EXCEPT !.slot = now]

StoreInit ==
  /\ now = 1
  /\ bridge = [pc |-> "idle", session |-> 1, iter |-> 0, seqno |-> 0, batches |-> 0]
  /\ file = << >>
  /\ broker = [l \in Link |-> [NoPayload EXCEPT !.seqno = 0]]
  /\ store = [telemetry |-> [l \in Link |-> NoPayload], seen |-> [l \in Link |-> 0],
              sionna |-> NoUpdate, session |-> 0, events |-> << >>,
              targets |-> NoTargets]
  /\ past = [updates |-> {}, warmups |-> {}]

(***************************************************************************)
(* Warm-ups: _close_completed_warmups.                                     *)
(***************************************************************************)

\* Mutant of ExactCycle: any warm-up event of the link will do.
ExactCycleAny(p, seqno) == p.event > 0

\* The link's latched warm-up event is the one this update caused.
ExactCycle(p, seqno) == p.event > 0 /\ p.profile = seqno

LegacyWarming(p, seqno) ==
  p.event = -1 /\ p.seqno >= seqno /\ p.active /\ p.slot < p.until

\* Mutant of LinkReady: waits for the event of this very update.
LinkReadyExact(p, seqno) ==
  p.seqno >= seqno /\ p.active /\ ExactCycle(p, seqno) /\ p.end > 0

LinkReady(p, seqno) ==
  /\ p.seqno >= seqno /\ p.active
  /\ IF ExactCycle(p, seqno) THEN p.end > 0 ELSE ~(p.until > 0 /\ p.slot < p.until)

\* The loop over the links stops at the first that is not ready.
Examined(telemetry, target) ==
  {l \in DOMAIN target : \A k \in DOMAIN target :
     k < l => LinkReady(telemetry[k], target[k])}

Times(telemetry, target, field) ==
  {telemetry[l][field] : l \in {l \in Examined(telemetry, target) :
     ExactCycle(telemetry[l], target[l]) /\ telemetry[l][field] > 0}}

AllReady(telemetry, target) == \A l \in DOMAIN target : LinkReady(telemetry[l], target[l])

\* The end of a completed warm-up.
WarmedUp(e, ends, t) ==
  IF e.warmEnd # 0 THEN e
  ELSE IF ends # {} THEN [e EXCEPT !.warmEnd = Max(ends), !.source = "backend"]
  ELSE IF e.warmBegin # 0 THEN [e EXCEPT !.warmEnd = t, !.source = "telemetry_observed"]
  ELSE [e EXCEPT !.expected = FALSE]

CloseEvent(e, telemetry, target, t) ==
  LET begins == Times(telemetry, target, "begin")
      warming == \E l \in Examined(telemetry, target) : LegacyWarming(telemetry[l], target[l])
      begun == IF begins # {} THEN [e EXCEPT !.warmBegin = Min(begins), !.source = "backend"]
               ELSE IF warming /\ e.warmBegin = 0
               THEN [e EXCEPT !.warmBegin = t, !.source = "telemetry_observed"]
               ELSE e
  IN  IF AllReady(telemetry, target)
      THEN WarmedUp(begun, Times(telemetry, target, "end"), t) ELSE begun

Key(e) == << e.session, e.iter >>

CloseCompletedWarmups(st, t) ==
  [st EXCEPT
     !.events = [i \in DOMAIN @ |->
        IF Key(@[i]) \in DOMAIN st.targets
        THEN CloseEvent(@[i], st.telemetry, st.targets[Key(@[i])], t) ELSE @[i]],
     !.targets = RestrictDomain(@, LAMBDA k : ~AllReady(st.telemetry, @[k]))]

(***************************************************************************)
(* Updates of the store.                                                   *)
(***************************************************************************)

UpdateTelemetry(st, l, p, t) ==
  CloseCompletedWarmups(
    [st EXCEPT !.telemetry[l] = p, !.seen[l] = t], t)

\* A record of another session clears what belongs to the previous one.
NewSession(st, session) ==
  IF session = st.session THEN st
  ELSE IF st.session = 0 THEN [st EXCEPT !.session = session]
  ELSE [st EXCEPT !.session = session, !.events = << >>, !.targets = NoTargets,
                  !.sionna = NoUpdate]

LastEvents(events) ==
  SubSeq(events, Max({0, Len(events) - MaxEvents}) + 1, Len(events))

\* _iteration_event, or a new event at the end.
EventIndex(st, key) ==
  LET i == SelectLastInSeq(st.events, LAMBDA e : Key(e) = key)
  IN  IF i = 0 THEN Len(st.events) + 1 ELSE i

\* sionna_rt_update
NoteUpdate(st, rec, t) ==
  LET key == Key(rec)
      i == EventIndex(st, key)
      event == [session |-> rec.session, iter |-> rec.iter, observed |-> rec.at,
                expected |-> rec.warm # {}, warmBegin |-> 0, warmEnd |-> 0, source |-> "none"]
      noted == [st EXCEPT !.sionna = rec,
                  !.events = IF i <= Len(@) THEN [@ EXCEPT ![i] = event] ELSE Append(@, event)]
      closed == IF rec.warm = {}
                THEN [noted EXCEPT !.targets = RestrictDomain(@, LAMBDA k : k # key)]
                ELSE CloseCompletedWarmups(
                       [noted EXCEPT !.targets =
                          [k \in DOMAIN @ \cup {key} |->
                             IF k = key THEN [l \in rec.warm |-> rec.seqno] ELSE @[k]]], t)
  IN  [closed EXCEPT !.events = LastEvents(@)]

\* sionna_rt_runtime in phase tracing_channels
NoteTracing(st, rec) ==
  IF EventIndex(st, Key(rec)) <= Len(st.events) THEN st
  ELSE [st EXCEPT !.events = LastEvents(Append(@,
         [session |-> rec.session, iter |-> rec.iter, observed |-> rec.at, expected |-> FALSE,
          warmBegin |-> 0, warmEnd |-> 0, source |-> "none"]))]

UpdateSionna(st, rec, t) ==
  LET fresh == NewSession(st, rec.session)
  IN  IF rec.event = "update" THEN NoteUpdate(fresh, rec, t) ELSE NoteTracing(fresh, rec)

(***************************************************************************)
(* delivery_status: the last update correlated with the telemetry.         *)
(***************************************************************************)

\* Fresh telemetry shows the acknowledged seqno, or a later one, active.
Applied(p, seqno, age) == age \in 0 .. Fresh /\ p.seqno >= seqno /\ p.active

Usable(p, seqno, age) == Applied(p, seqno, age) /\ ~(p.until > 0 /\ p.slot < p.until)

Stale(p, age) == p # NoPayload /\ age \notin 0 .. Fresh

DeliveryState(rec, telemetry, age) ==
  CASE rec = NoUpdate -> "waiting_for_sionna"
    [] rec # NoUpdate /\ rec.reply = "missing" -> "missing_control_reply"
    [] rec # NoUpdate /\ rec.reply \in {"dry_run", "rejected"} -> rec.reply
    [] OTHER ->
         IF \E l \in Link : Stale(telemetry[l], age[l]) THEN "stale_backend_telemetry"
         ELSE IF \A l \in Link : Usable(telemetry[l], rec.seqno, age[l]) THEN "backend_applied"
         ELSE IF \A l \in Link : Applied(telemetry[l], rec.seqno, age[l]) THEN "backend_warmup"
         ELSE IF \E l \in Link : Applied(telemetry[l], rec.seqno, age[l])
         THEN "partially_applied" ELSE "awaiting_backend_telemetry"

\* GET /api/status: snapshot() reads the clock, then takes the lock; t is what
\* it read, and the store may have been updated since.
SnapshotAges(t) == [l \in Link |-> t - store.seen[l]]

Snapshot(t) == DeliveryState(store.sionna, store.telemetry, SnapshotAges(t))

UsableLinks(t) ==
  {l \in Link : /\ store.sionna # NoUpdate /\ store.sionna.reply = "ok"
                /\ Usable(store.telemetry[l], store.sionna.seqno, SnapshotAges(t)[l])}

(***************************************************************************)
(* The threads that feed the store.                                        *)
(***************************************************************************)

\* telemetry_loop: one frame of the PUB socket.  Frames may be lost; one that
\* parse_telemetry_frame rejects is only counted.
TelemetryLoop(l) ==
  /\ store' = UpdateTelemetry(store, l, Payload(l), now)
  /\ UNCHANGED << now, bridge, file, broker, past >>

\* poll_once, for one of the records it finds (SionnaTail says which these
\* are): update_sionna takes the lock for each, so that telemetry and snapshots
\* may come between them.
PollOnce ==
  /\ file # << >>
  /\ store' = UpdateSionna(store, Head(file), now)
  /\ file' = Tail(file)
  /\ UNCHANGED << now, bridge, broker, past >>

(***************************************************************************)
(* The environment.                                                        *)
(***************************************************************************)

\* The broker closes a warm-up at the slot it was to end.
EndWarmup(b, t) ==
  IF b.until # 0 /\ t >= b.until THEN [b EXCEPT !.until = 0, !.end = t] ELSE b

StoreTick ==
  /\ now < MaxNow
  /\ now' = now + 1
  /\ broker' = [l \in Link |-> EndWarmup(broker[l], now + 1)]
  /\ UNCHANGED << bridge, file, store, past >>

\* The backend snaps the newest profile; history is reset or preserved.
BrokerApply(l, reset) ==
  LET b == broker[l]
  IN  /\ b.seqno < bridge.seqno
      /\ broker' = [broker EXCEPT ![l] =
           IF reset
           THEN [b EXCEPT !.seqno = bridge.seqno, !.active = TRUE, !.until = now + Warmup,
                          !.event = @ + 1, !.profile = bridge.seqno, !.begin = now, !.end = 0]
           ELSE [b EXCEPT !.seqno = bridge.seqno, !.active = TRUE]]
      /\ past' = [past EXCEPT !.warmups =
           IF reset THEN @ \cup {[profile |-> bridge.seqno, begin |-> now]} ELSE @]
      /\ UNCHANGED << now, bridge, file, store >>

\* An iteration starts; a restarted bridge starts a session of its own.
BridgeTrace(restart) ==
  /\ bridge.pc = "idle" /\ bridge.batches < MaxBatch
  /\ restart => bridge.iter > 0
  /\ LET b == [bridge EXCEPT !.pc = "traced", !.batches = @ + 1,
                             !.session = IF restart THEN @ + 1 ELSE @,
                             !.iter = IF restart THEN 1 ELSE @ + 1]
     IN  /\ bridge' = b
         /\ file' = Append(file, [event |-> "runtime", session |-> b.session,
                                  iter |-> b.iter, at |-> now])
  /\ UNCHANGED << now, broker, store, past >>

\* The control reply and its record, which the tail may lose: it is long enough
\* to be written in two parts.
BridgeUpdate(reply, lost) ==
  LET seqno == IF reply = "ok" THEN bridge.seqno + 1 ELSE bridge.seqno
      rec == [event |-> "update", session |-> bridge.session, iter |-> bridge.iter,
              at |-> now, reply |-> reply, seqno |-> seqno,
              warm |-> IF reply = "ok" THEN Link ELSE {}]
  IN  /\ bridge.pc = "traced"
      /\ bridge' = [bridge EXCEPT !.pc = "idle", !.seqno = seqno]
      /\ file' = IF lost THEN file ELSE Append(file, rec)
      /\ past' = [past EXCEPT !.updates = @ \cup {rec}]
      /\ UNCHANGED << now, broker, store >>

StoreNext ==
  \/ StoreTick
  \/ \E l \in Link : TelemetryLoop(l)
  \/ PollOnce
  \/ \E l \in Link, reset \in BOOLEAN : BrokerApply(l, reset)
  \/ \E restart \in BOOLEAN : BridgeTrace(restart)
  \/ \E reply \in Replies, lost \in BOOLEAN : BridgeUpdate(reply, lost)

StoreSpec == StoreInit /\ [][StoreNext]_storeVars

\* Telemetry of every link keeps arriving.
StoreFairSpec ==
  /\ StoreSpec
  /\ \A l \in Link : WF_storeVars(TelemetryLoop(l))

(***************************************************************************)
(* Properties.                                                             *)
(***************************************************************************)

\* Type correctness: at most MaxEvents iterations are kept, and all times are
\* in the past.
StoreTypeOK ==
  /\ now \in 1 .. MaxNow
  /\ Len(store.events) <= MaxEvents
  /\ \A l \in Link : store.seen[l] \in 0 .. now /\ store.telemetry[l].slot \in 0 .. now

\* A report of backend_applied is the truth although update, acknowledgement
\* and telemetry reach the dashboard over three paths: every link has applied
\* the acknowledged profile or a newer one, and a link called usable is not
\* warming up, unless it has been given a newer profile since.
DeliveryTruthful ==
  \A t \in 1 .. now :
    /\ Snapshot(t) = "backend_applied" =>
         \A l \in Link : broker[l].seqno >= store.sionna.seqno
    /\ \A l \in UsableLinks(t) :
         broker[l].seqno = store.telemetry[l].seqno => broker[l].until = 0

\* The warm-up drawn for an iteration has a beginning before its end.
WarmupOrdered ==
  \A i \in DOMAIN store.events : store.events[i].warmEnd # 0 =>
    store.events[i].warmBegin \in 1 .. store.events[i].warmEnd

\* A boundary attributed to the backend is the one of a warm-up this very
\* update caused, although frames are lost and the broker latches only its
\* last warm-up.
WarmupAttributed ==
  \A i \in DOMAIN store.events :
    LET e == store.events[i]
    IN  e.source = "backend" => \E r \in past.updates, w \in past.warmups :
          Key(r) = Key(e) /\ w.profile = r.seqno /\ w.begin = e.warmBegin

\* After a restart of the bridge nothing of the previous session is shown.
SessionClean ==
  /\ \A i \in DOMAIN store.events : store.events[i].session = store.session
  /\ \A k \in DOMAIN store.targets : k[1] = store.session
  /\ store.sionna.session \in {0, store.session}

\* Every warm-up the dashboard waits for is closed once the broker is quiet,
\* although a newer profile may have replaced the one waited for.
WarmupsClose ==
  <>[](\A l \in Link : broker[l].seqno = bridge.seqno /\ broker[l].until = 0)
    => <>[](store.targets = NoTargets)

\* What the dashboard tells of an update is true (Store.snapshot): no delivery
\* before every link has it, no warm-up but the update's own, nothing of an
\* earlier session of the bridge.
StoreTruthful ==
  StoreTypeOK /\ DeliveryTruthful /\ WarmupOrdered /\ WarmupAttributed /\ SessionClean

(***************************************************************************)
(* Inductive invariant of StoreTruthful.                                   *)
(***************************************************************************)

\* What broker and dashboard hold of a link, and what the bridge records.
LinkStatus == [seqno : Int, active : BOOLEAN, slot : Nat, until : Nat,
               event : Int, profile : Nat, begin : Nat, end : Nat]
UpdateRecord == [event : {"update"}, session : Nat \ {0}, iter : Nat, at : Nat,
                 reply : Replies, seqno : Nat, warm : {Link, {}}]
RuntimeRecord == [event : {"runtime"}, session : Nat \ {0}, iter : Nat, at : Nat]
Event == [session : Nat \ {0}, iter : Nat, observed : Nat, expected : BOOLEAN,
          warmBegin : Nat, warmEnd : Nat, source : {"none", "backend", "telemetry_observed"}]

\* The warm-up a link reports is one of the broker's and lies in the past.
WarmupKnown(p, t, h) ==
  p.event > 0 =>
    /\ p.begin \in 1 .. t /\ p.end \in 0 .. t /\ (p.end = 0 \/ p.begin <= p.end)
    /\ [profile |-> p.profile, begin |-> p.begin] \in h.warmups

BackendAt(l) ==
  LET b == broker[l]
  IN  /\ b.seqno \in 0 .. bridge.seqno
      /\ b.until = 0 \/ b.until > now
      /\ b.event >= 0 /\ WarmupKnown(b, now, past)

\* Telemetry is behind the broker, and knows how long the warm-up of its
\* profile will last.
TelemetryAt(st, l) ==
  LET p == st.telemetry[l]
  IN  /\ p.slot <= now /\ st.seen[l] \in 0 .. now
      /\ p.seqno <= broker[l].seqno
      /\ p.until = 0 \/ p.until > p.slot
      /\ p.seqno = broker[l].seqno => broker[l].until \in {0, p.until}
      /\ WarmupKnown(p, now, past)

\* A time taken from the backend is that of a warm-up of this update.
Attributed(e, h) ==
  e.source = "backend" => \E r \in h.updates, w \in h.warmups :
    Key(r) = Key(e) /\ w.profile = r.seqno /\ w.begin = e.warmBegin

EventOK(e, targets, t, h) ==
  /\ e \in Event /\ e.warmBegin \in 0 .. t /\ Attributed(e, h)
  /\ e.warmEnd # 0 => e.warmBegin \in 1 .. e.warmEnd
  /\ Key(e) \in DOMAIN targets => e.warmEnd = 0

EventsOK(events, session, targets, t, h) ==
  /\ events \in Seq(Event)
  /\ \A i \in DOMAIN events :
       events[i].session = session /\ EventOK(events[i], targets, t, h)
  /\ \A i, j \in DOMAIN events : Key(events[i]) = Key(events[j]) => i = j

\* What is waited for: the links and the seqno of an update of this session.
TargetsOK(targets, session, h) ==
  \A k \in DOMAIN targets : \E r \in h.updates :
    k = Key(r) /\ r.session = session /\ targets[k] = [l \in r.warm |-> r.seqno]

\* A store has these fields and no other.
StoreShape(st) ==
  st = [telemetry |-> st.telemetry, seen |-> st.seen, sionna |-> st.sionna,
        session |-> st.session, events |-> st.events, targets |-> st.targets]

StoreOK(st) ==
  /\ StoreShape(st) /\ st.session \in Nat
  /\ st.telemetry \in [Link -> LinkStatus] /\ st.seen \in [Link -> Nat]
  /\ \A l \in Link : TelemetryAt(st, l)
  /\ st.sionna = NoUpdate \/ (st.sionna \in UpdateRecord /\ st.sionna.session = st.session)
  /\ TargetsOK(st.targets, st.session, past)
  /\ EventsOK(st.events, st.session, st.targets, now, past) /\ Len(st.events) <= MaxEvents

Bridge == [pc : {"idle", "traced"}, session : Nat \ {0}, iter : Nat, seqno : Nat, batches : Nat]

RecordsUnderWay ==
  /\ past = [updates |-> past.updates, warmups |-> past.warmups]
  /\ past.updates \subseteq UpdateRecord
  /\ file \in Seq(UpdateRecord \cup RuntimeRecord)
  /\ \A i \in DOMAIN file : file[i].event = "update" => file[i] \in past.updates

StoreInv ==
  /\ now \in 1 .. MaxNow /\ bridge \in Bridge /\ broker \in [Link -> LinkStatus]
  /\ RecordsUnderWay /\ (\A l \in Link : BackendAt(l)) /\ StoreOK(store)
=============================================================================
