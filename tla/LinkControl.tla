---------------------------- MODULE LinkControl ----------------------------
(***************************************************************************)
(* Runtime control of physical links: the ControlServer thread             *)
(* (src/src/control_server.cpp) writes each link's shadow, and the         *)
(* producer thread that serves the link snaps the shadow into its live     *)
(* state at every slot boundary (runtime_control.h, physical_link.h).      *)
(*                                                                         *)
(* Only seqno and current_slot are atomic.  Everything else the two        *)
(* threads share is plain memory, so every store and every load of a       *)
(* shared word is an action of its own.  A profile, a matrix profile and a *)
(* correlation factor are wide: each is a record of two words, "layout"    *)
(* (delays, dimensions and other settings) and "gain".                     *)
(*                                                                         *)
(* Values are abstracted to identities: the n-th update accepted for a     *)
(* link writes n, which is also the seqno it is published under.           *)
(***************************************************************************)
EXTENDS Integers, Sequences, FiniteSets

CONSTANTS
  Link,         \* the physical links of the link map
  Param,        \* the scalar parameters of MutableParams a link accepts
  Swap,         \* the replacements it accepts, a subset of SwapKind
  Layout,       \* the layouts a replacement may have (never 0)
  Forced,       \* those that come with force=true
  LeadingTdl,   \* chain_has_leading_tdl
  History(_),   \* samples of history a layout needs
  DlHint,       \* dl_size_samples_hint
  Count,        \* the window lengths a slot may have
  BatchId,      \* batch ids a client may use
  MaxStaged,    \* bound of the model: operations staged per batch
  Gate,         \* values of take_effect_at_slot, 0 among them
  Paced,        \* TRUE: a client waits for telemetry to show its update
  MaxUpdate,    \* bound of the model: updates accepted per link
  MaxSlot       \* slot indices saturate here

SwapKind == {"profile", "matrix", "correlation"}
Word == {"layout", "gain"}

ASSUME ControlAssumption ==
  /\ Swap \subseteq SwapKind /\ Param \cap SwapKind = {}
  /\ Layout \subseteq Nat \ {0} /\ Forced \subseteq Layout
  /\ LeadingTdl \in BOOLEAN /\ Paced \in BOOLEAN
  /\ \A x \in Layout : History(x) \in Nat
  /\ DlHint \in Nat /\ Count \subseteq Nat \ {0} /\ Count # {}
  /\ MaxStaged \in Nat /\ MaxUpdate \in Nat /\ MaxSlot \in Nat
  /\ 0 \in Gate /\ Gate \subseteq 0 .. MaxSlot

VARIABLES
  ctl,        \* BrokerLinkControl of each link
  server,     \* the control thread: what is left of the request in hand
  batches,    \* ControlServer::open_batches_
  ack,        \* the last reply that named a slot, per link
  link,       \* PhysicalLinkRuntime, private to the link's producer
  snap,       \* the producer inside snap_physical_link
  telemetry,  \* BrokerLinkControl::telemetry, as published
  log,        \* history: the updates accepted for each link
  applied     \* history: the slot that took each published update live

serverVars == << server, batches, ack, log >>
linkVars == << link, snap, telemetry, applied >>
vars == << ctl, serverVars, linkVars >>

Larger(a, b) == IF a >= b THEN a ELSE b
Blank == [layout |-> 0, gain |-> 0]

\* A validated operation.
Op == {op \in [link : Link, what : Param \cup Swap, layout : Layout \cup {0},
               at : Gate] :
         op.layout = 0 <=> op.what \in Param}

Idle == [phase |-> "idle", todo |-> << >>, pc |-> 1, batch |-> FALSE]
NoSnap == [pc |-> "begin", stored |-> FALSE, observed |-> -1, left |-> {},
           preserve |-> FALSE, reset |-> FALSE, matrix |-> FALSE, copy |-> FALSE]

\* init_broker_link_control(): shadow and live both mirror the YAML.
Init ==
  /\ ctl = [l \in Link |->
       [shadow |-> [p \in Param |-> 0], swap |-> [k \in SwapKind |-> Blank],
        pending |-> [k \in SwapKind |-> FALSE], gate |-> 0, slot |-> 0,
        seqno |-> 0]]
  /\ server = Idle
  /\ batches = << >>
  /\ ack = [l \in Link |-> [seqno |-> 0, at |-> 0]]
  /\ link = [l \in Link |->
       [live |-> [p \in Param |-> 0], swap |-> [k \in SwapKind |-> Blank],
        active |-> "none", seqno |-> 0, next |-> 0, warmup |-> 0,
        since |-> MaxSlot, count |-> 0]]
  /\ snap = [l \in Link |-> NoSnap]
  /\ telemetry = [l \in Link |-> [slot |-> 0, seqno |-> 0, warmup |-> 0]]
  /\ log = [l \in Link |-> << >>]
  /\ applied = [l \in Link |-> << >>]

(***************************************************************************)
(* The control thread.  A request that fails validation is answered with   *)
(* an error and changes nothing: it is a stuttering step.                  *)
(***************************************************************************)

\* What a paced client waits for before it sends the next update.
CaughtUp(l) == Paced => telemetry[l].seqno = Len(log[l])

\* A validated request without a batch_id is carried out at once.
Begin(op) ==
  /\ server.phase = "idle"
  /\ CaughtUp(op.link)
  /\ Len(log[op.link]) < MaxUpdate
  /\ server' = [Idle EXCEPT !.phase = "write", !.todo = << op >>]
  /\ UNCHANGED << ctl, batches, ack, log, linkVars >>

\* handle_scalar_update
ScalarUpdate(op) == op.what \in Param /\ Begin(op)

\* handle_profile_swap
ProfileSwap(op) == op.what = "profile" /\ Begin(op)

\* handle_matrix_profile_swap
MatrixProfileSwap(op) == op.what = "matrix" /\ Begin(op)

\* handle_correlation_swap
CorrelationSwap(op) == op.what = "correlation" /\ Begin(op)

\* handle_batch_begin
BatchBegin(b) ==
  /\ server.phase = "idle"
  /\ b \notin DOMAIN batches
  /\ batches' = [x \in DOMAIN batches \cup {b} |->
                   IF x = b THEN << >> ELSE batches[x]]
  /\ UNCHANGED << ctl, server, ack, log, linkVars >>

\* The same handlers with a batch_id: the operation is kept for the commit.
\* correlation_swap takes no batch_id.
Stage(b, op) ==
  /\ server.phase = "idle"
  /\ b \in DOMAIN batches
  /\ op.what # "correlation"
  /\ op.at = 0
  /\ Len(batches[b]) < MaxStaged
  /\ batches' = [batches EXCEPT ![b] = Append(@, op)]
  /\ UNCHANGED << ctl, server, ack, log, linkVars >>

Closed(b) == [x \in DOMAIN batches \ {b} |-> batches[x]]

\* handle_batch_commit: the staged operations, in order, all gated at `at`.
\* (The batch is erased after the writes; only this thread can tell.)
BatchCommit(b, at) ==
  /\ server.phase = "idle"
  /\ b \in DOMAIN batches
  /\ \A l \in Link :
       LET mine == {i \in DOMAIN batches[b] : batches[b][i].link = l}
       IN  mine # {} => /\ CaughtUp(l)
                        /\ Len(log[l]) + Cardinality(mine) <= MaxUpdate
  /\ server' =
       IF batches[b] = << >> THEN Idle
       ELSE [phase |-> "write", pc |-> 1, batch |-> TRUE,
             todo |-> [i \in DOMAIN batches[b] |->
                         [batches[b][i] EXCEPT !.at = at]]]
  /\ batches' = Closed(b)
  /\ UNCHANGED << ctl, ack, log, linkVars >>

\* handle_batch_abort
BatchAbort(b) ==
  /\ server.phase = "idle"
  /\ b \in DOMAIN batches
  /\ batches' = Closed(b)
  /\ UNCHANGED << ctl, server, ack, log, linkVars >>

\* Mutants of ScalarStores: seqno bumped before the parameter is written; the
\* gate written after the bump; apply_update and its caller both bump.
ScalarBumpFirst == << "gate", "bump", "param" >>
ScalarGateLast == << "param", "bump", "gate" >>
ScalarBumpTwice == << "gate", "param", "bump", "bump" >>

\* The stores of a scalar update, in program order.
ScalarStores == << "gate", "param", "bump" >>

\* Mutant of SwapStores: the flag is raised after the bump.
SwapFlagLast == << "layout", "gain", "gate", "bump", "pending", "supersede" >>

\* Those of a replacement sent on its own (nothing is superseded by a
\* correlation factor).
SwapStores == << "layout", "gain", "pending", "supersede", "gate", "bump" >>

\* Those of a replacement staged in a batch.
StagedSwapStores == << "gate", "layout", "gain", "pending", "supersede", "bump" >>

Program(op, batch) ==
  IF op.what \in Param THEN ScalarStores
  ELSE IF batch THEN StagedSwapStores
  ELSE SwapStores

\* A profile and a matrix profile cancel each other's pending flag.
Superseded(k) ==
  CASE k = "profile" -> {"matrix"}
    [] k = "matrix" -> {"profile"}
    [] OTHER -> {}

\* One store; n is the identity of the update it belongs to.
Store(c, op, step, n) ==
  CASE step = "gate"      -> [c EXCEPT !.gate = op.at]
    [] step = "param"     -> [c EXCEPT !.shadow[op.what] = n]
    [] step = "layout"    -> [c EXCEPT !.swap[op.what].layout = op.layout]
    [] step = "gain"      -> [c EXCEPT !.swap[op.what].gain = n]
    [] step = "pending"   -> [c EXCEPT !.pending[op.what] = TRUE]
    [] step = "supersede" -> [c EXCEPT !.pending =
          [k \in SwapKind |-> @[k] /\ k \notin Superseded(op.what)]]
    [] step = "bump"      -> [c EXCEPT !.seqno = @ + 1]

Write ==
  /\ server.phase = "write"
  /\ LET op == Head(server.todo)
         program == Program(op, server.batch)
         opening == IF server.pc = 1 THEN Append(log[op.link], op) ELSE log[op.link]
     IN  /\ log' = [log EXCEPT ![op.link] = opening]
         /\ ctl' = [ctl EXCEPT ![op.link] =
                      Store(@, op, program[server.pc], Len(opening))]
         /\ server' =
              IF server.pc < Len(program) THEN [server EXCEPT !.pc = @ + 1]
              ELSE IF ~server.batch THEN [server EXCEPT !.phase = "reply"]
              ELSE IF Len(server.todo) = 1 THEN Idle
              ELSE [server EXCEPT !.todo = Tail(@), !.pc = 1]
  /\ UNCHANGED << batches, ack, linkVars >>

\* Mutant of ReplySlot: the gate forgotten.
ReplySlotNow(c) == c.slot

\* applied_at_slot: the gate if it lies ahead of the slot last seen.
ReplySlot(c) == Larger(c.gate, c.slot)

\* make_success_reply_v2, make_profile_swap_reply (correlation_swap replies
\* with the seqno alone).
Reply ==
  /\ server.phase = "reply"
  /\ LET op == Head(server.todo)
     IN  ack' = IF op.what = "correlation" THEN ack
                ELSE [ack EXCEPT ![op.link] =
                        [seqno |-> ctl[op.link].seqno,
                         at |-> ReplySlot(ctl[op.link])]]
  /\ server' = Idle
  /\ UNCHANGED << ctl, batches, log, linkVars >>

Server ==
  \/ \E op \in Op : ScalarUpdate(op)
  \/ \E op \in Op : ProfileSwap(op)
  \/ \E op \in Op : MatrixProfileSwap(op)
  \/ \E op \in Op : CorrelationSwap(op)
  \/ \E b \in BatchId : BatchBegin(b)
  \/ \E b \in BatchId, op \in Op : Stage(b, op)
  \/ \E b \in BatchId, at \in Gate : BatchCommit(b, at)
  \/ \E b \in BatchId : BatchAbort(b)
  \/ Write
  \/ Reply

(***************************************************************************)
(* The producer.  snap_physical_link runs once per link and slot, before   *)
(* any lane is shaped; the slot is then served from `link'.                *)
(***************************************************************************)

\* current_slot.store(relaxed) and seqno.load(acquire): nothing orders the
\* store before the load, so a peer may see them either way round.
SnapStore(l) ==
  /\ snap[l].pc = "begin" /\ ~snap[l].stored
  /\ ctl' = [ctl EXCEPT ![l].slot = link[l].next]
  /\ snap' = [snap EXCEPT ![l].stored = TRUE]
  /\ UNCHANGED << serverVars, link, telemetry, applied >>

SnapLoad(l) ==
  /\ snap[l].pc = "begin" /\ snap[l].observed = -1
  /\ snap' = [snap EXCEPT ![l].observed = ctl[l].seqno]
  /\ UNCHANGED << ctl, serverVars, link, telemetry, applied >>

\* Mutant of GateOpen: a gate already past never opens.
GateOpenOnTheDot(l) == ctl[l].gate \in {0, link[l].next}

\* take_effect_at_slot, read as plain memory.
GateOpen(l) == ctl[l].gate <= link[l].next

\* Nothing new, or not yet due: the slot is served from the old live state.
SnapGate(l) ==
  /\ snap[l].pc = "begin" /\ snap[l].stored /\ snap[l].observed # -1
  /\ snap' = [snap EXCEPT ![l] =
                IF snap[l].observed # link[l].seqno /\ GateOpen(l)
                THEN [@ EXCEPT !.pc = "params", !.left = Param]
                ELSE [@ EXCEPT !.pc = "finish"]]
  /\ UNCHANGED << ctl, serverVars, link, telemetry, applied >>

\* live = shadow, one word at a time, in any order.
SnapParam(l, p) ==
  /\ snap[l].pc = "params" /\ p \in snap[l].left
  /\ link' = [link EXCEPT ![l].live[p] = ctl[l].shadow[p]]
  /\ snap' = [snap EXCEPT ![l].left = @ \ {p}]
  /\ UNCHANGED << ctl, serverVars, telemetry, applied >>

\* The seqno the snap records: the one it observed before it copied.
Version(l) == snap[l].observed

\* live_seqno = observed
SnapVersion(l) ==
  /\ snap[l].pc = "params" /\ snap[l].left = {}
  /\ link' = [link EXCEPT ![l].seqno = Version(l)]
  /\ applied' = [applied EXCEPT ![l] =
                   @ \o [i \in 1 .. Version(l) - link[l].seqno |-> link[l].next]]
  /\ snap' = [snap EXCEPT ![l].pc = "profile"]
  /\ UNCHANGED << ctl, serverVars, telemetry >>

After(k) ==
  CASE k = "profile" -> "matrix"
    [] k = "matrix" -> "correlation"
    [] k = "correlation" -> "finish"

\* A profile needs a leading tdl to flow through, or force.
Eligible(l, k) ==
  k = "correlation" \/ LeadingTdl \/ ctl[l].swap[k].layout \in Forced

\* matrix_history_compatible: only gains and phases differ.
HistoryCompatible(l) ==
  /\ link[l].active = "matrix"
  /\ link[l].swap["matrix"].layout = ctl[l].swap["matrix"].layout

\* Is replacement k pending, and may this link take it?
SnapTest(l, k) ==
  /\ snap[l].pc = k /\ ~snap[l].copy
  /\ snap' = [snap EXCEPT ![l] =
                IF ctl[l].pending[k] /\ Eligible(l, k)
                THEN [@ EXCEPT !.copy = TRUE, !.left = Word,
                               !.preserve = HistoryCompatible(l)]
                ELSE [@ EXCEPT !.pc = After(k)]]
  /\ UNCHANGED << ctl, serverVars, link, telemetry, applied >>

\* The flag is tested again before the copy.  Both tests are plain loads, so
\* the compiler may merge them: the second may or may not see a supersede.
SnapDropped(l, k) ==
  /\ snap[l].pc = k /\ snap[l].copy /\ snap[l].left = Word
  /\ k # "correlation" /\ ~ctl[l].pending[k]
  /\ snap' = [snap EXCEPT ![l] = [@ EXCEPT !.pc = After(k), !.copy = FALSE]]
  /\ UNCHANGED << ctl, serverVars, link, telemetry, applied >>

SnapCopy(l, k, w) ==
  /\ snap[l].pc = k /\ snap[l].copy /\ w \in snap[l].left
  /\ link' = [link EXCEPT ![l].swap[k][w] = ctl[l].swap[k][w]]
  /\ snap' = [snap EXCEPT ![l].left = @ \ {w}]
  /\ UNCHANGED << ctl, serverVars, telemetry, applied >>

\* The replacement is consumed: the flag cleared, the profile made active.
SnapConsume(l, k) ==
  /\ snap[l].pc = k /\ snap[l].copy /\ snap[l].left = {}
  /\ ctl' = [ctl EXCEPT ![l].pending[k] = FALSE]
  /\ link' = [link EXCEPT ![l].active = IF k = "correlation" THEN @ ELSE k]
  /\ snap' = [snap EXCEPT ![l] =
                [@ EXCEPT !.pc = After(k), !.copy = FALSE,
                          !.matrix = snap[l].matrix \/ k = "matrix",
                          !.reset = CASE k = "profile" -> TRUE
                                      [] k = "matrix" -> ~snap[l].preserve
                                      [] OTHER -> snap[l].reset]]
  /\ UNCHANGED << serverVars, telemetry, applied >>

\* Mutant of WarmupSlots: rounded down.
WarmupSlotsFloor(dl, n) == Larger(1, dl \div n)

\* The window of a reset, in slots as long as the one that activates it.
WarmupSlots(dl, n) == Larger(1, (dl + n - 1) \div n)

\* The end of the snap for a slot of n samples: warm-up and telemetry.  since
\* counts the samples between the last reset and this slot, up to MaxSlot.
SnapFinish(l, n) ==
  LET s == snap[l]
      slot == link[l].next
      dl == IF s.matrix THEN Larger(DlHint, History(link[l].swap["matrix"].layout))
            ELSE DlHint
      until == IF s.reset THEN slot + WarmupSlots(dl, n) ELSE link[l].warmup
      warmup == IF slot >= until THEN 0 ELSE until
      since == IF s.reset THEN 0 ELSE link[l].since + link[l].count
  IN  /\ s.pc = "finish"
      /\ link' = [link EXCEPT ![l].warmup = warmup,
                              ![l].since = IF since > MaxSlot THEN MaxSlot ELSE since,
                              ![l].count = n,
                              ![l].next = IF slot < MaxSlot THEN slot + 1 ELSE slot]
      /\ telemetry' = [telemetry EXCEPT ![l] =
                         [slot |-> slot, seqno |-> link[l].seqno, warmup |-> warmup]]
      /\ snap' = [snap EXCEPT ![l] = NoSnap]
      /\ UNCHANGED << ctl, serverVars, applied >>

Snap(l) ==
  \/ SnapStore(l)
  \/ SnapLoad(l)
  \/ SnapGate(l)
  \/ \E p \in Param : SnapParam(l, p)
  \/ SnapVersion(l)
  \/ \E k \in SwapKind : SnapTest(l, k)
  \/ \E k \in SwapKind : SnapDropped(l, k)
  \/ \E k \in SwapKind, w \in Word : SnapCopy(l, k, w)
  \/ \E k \in SwapKind : SnapConsume(l, k)
  \/ \E n \in Count : SnapFinish(l, n)

Next ==
  \/ Server
  \/ \E l \in Link : Snap(l)

Spec == Init /\ [][Next]_vars

\* Slots keep coming while IQ flows, and the control thread finishes the
\* request it has in hand; nothing obliges a client to send another one.
Fairness ==
  /\ WF_vars(Write) /\ WF_vars(Reply)
  /\ \A l \in Link : WF_vars(Snap(l))

FairSpec == Spec /\ Fairness

(***************************************************************************)
(* Properties.                                                             *)
(***************************************************************************)

\* Type correctness of both threads' state; the history variables keep pace
\* with the seqnos they describe.
CtlTypeOK ==
  /\ \A l \in Link :
       /\ ctl[l].shadow \in [Param -> 0 .. MaxUpdate]
       /\ ctl[l].swap \in [SwapKind -> [layout : Layout \cup {0}, gain : 0 .. MaxUpdate]]
       /\ ctl[l].pending \in [SwapKind -> BOOLEAN]
       /\ ctl[l].gate \in Gate /\ ctl[l].slot \in 0 .. MaxSlot
       /\ link[l].live \in [Param -> 0 .. MaxUpdate]
       /\ link[l].active \in {"none", "profile", "matrix"}
       /\ link[l].next \in 0 .. MaxSlot
       /\ snap[l].observed \in -1 .. ctl[l].seqno
       /\ snap[l].left \subseteq Param \cup Word
       /\ Len(applied[l]) = link[l].seqno
       /\ link[l].seqno <= ctl[l].seqno
       /\ ctl[l].seqno \in {Len(log[l]), Len(log[l]) - 1}
  /\ server.phase \in {"idle", "write", "reply"}
  /\ \A i \in DOMAIN server.todo : server.todo[i] \in Op
  /\ DOMAIN batches \subseteq BatchId

\* The slot being served, between two snaps.
Serving(l) == snap[l].pc = "begin" /\ applied[l] # << >>

\* The last of the first s updates of link l that wrote one of `names'.
LastWrite(l, names, s) ==
  LET hits == {n \in 1 .. s : log[l][n].what \in names}
  IN  IF hits = {} THEN 0 ELSE CHOOSE n \in hits : \A m \in hits : m <= n

\* The profile or matrix profile in force.
ActiveGain(l) == IF link[l].active = "none" THEN 0
                 ELSE link[l].swap[link[l].active].gain

\* A link that reports live_seqno s runs no parameter older than update s:
\* the shadow is written before the seqno is bumped, and the snap observes
\* the seqno before it copies (control_server.cpp apply_update,
\* runtime_control.h snap_mutable_params).  Later values may already be in.
SeqnoCoversParams ==
  \A l \in Link : Serving(l) =>
    \A p \in Param : link[l].live[p] >= LastWrite(l, {p}, link[l].seqno)

\* The same for the replacements: the profile in force, and the correlation
\* factor, are at least as new as the reported seqno.
SeqnoCoversSwaps ==
  \A l \in Link : Serving(l) =>
    /\ ActiveGain(l) >= LastWrite(l, {"profile", "matrix"}, link[l].seqno)
    /\ link[l].swap["correlation"].gain
         >= LastWrite(l, {"correlation"}, link[l].seqno)

\* No slot is served from a mixture of two replacements: what is live is,
\* word for word, one accepted update.
SwapWhole ==
  \A l \in Link, k \in SwapKind :
    LET r == link[l].swap[k]
    IN  Serving(l) /\ r # Blank =>
          r.gain # 0 /\ log[l][r.gain].what = k /\ log[l][r.gain].layout = r.layout

\* A slot is served from exactly the updates its reported seqno counts, all
\* of each and none of the next: what a client that waits for telemetry
\* before it sends the next update gets from the lock-free handshake.
OneVersion ==
  /\ SwapWhole
  /\ \A l \in Link : Serving(l) =>
       /\ \A p \in Param : link[l].live[p] = LastWrite(l, {p}, link[l].seqno)
       /\ ActiveGain(l) = LastWrite(l, {"profile", "matrix"}, link[l].seqno)
       /\ link[l].swap["correlation"].gain
            = LastWrite(l, {"correlation"}, link[l].seqno)

\* No slot before its take_effect_at_slot is served from an update.
NotBeforeItsSlot ==
  \A l \in Link : Serving(l) =>
    \A n \in {link[l].live[p] : p \in Param} \cup {ActiveGain(l)}
             \cup {link[l].swap["correlation"].gain} :
      n # 0 => log[l][n].at <= telemetry[l].slot

\* An acknowledged update is live at most two slots after the applied_at_slot
\* of its reply (make_success_reply_v2): one slot because the snap may have
\* read the seqno just before the bump, one because its current_slot store
\* may not be visible yet.
AckHonoured ==
  \A l \in Link :
    /\ 0 < ack[l].seqno /\ ack[l].seqno <= link[l].seqno
         => applied[l][ack[l].seqno] <= ack[l].at + 2
    /\ ack[l].seqno > link[l].seqno /\ snap[l].pc = "begin" /\ telemetry[l].slot < MaxSlot
         => telemetry[l].slot < ack[l].at + 2

\* While fewer samples than the history of the active matrix profile have been
\* served since the delay lines were reset, telemetry reports the link as
\* warming up, and a profile that needs no reset has its history (the warm-up
\* window of snap_physical_link, rounded to slots).
WarmupCovers ==
  \A l \in Link :
    /\ Serving(l) /\ link[l].active = "matrix"
    /\ link[l].since < History(link[l].swap["matrix"].layout)
    => telemetry[l].warmup # 0

\* Once clients stop sending, the live parameters become and stay the
\* shadow's, however the copies and the writes interleaved before.
ParamsConverge ==
  \A l \in Link : <>[](snap[l].pc = "begin" => link[l].live = ctl[l].shadow)
=============================================================================
