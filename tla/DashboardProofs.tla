--------------------------- MODULE DashboardProofs ---------------------------
(***************************************************************************)
(* Theorems about the processes beside the broker, for every value of the  *)
(* constants: the bridge's fan-out of profiles (ProfileFanout), the        *)
(* dashboard's metrics subscription (MetricsFeed), the snapshot that the   *)
(* telemetry thread reads for it (Telemetry), the bridge's update loop     *)
(* (BridgeLoop) and the dashboard's status store (StatusStore).  They      *)
(* share no state.                                                         *)
(***************************************************************************)
EXTENDS StatusStore, ProfileFanout, MetricsFeed, Telemetry, BridgeLoop,
        FiniteSetTheorems, WellFoundedInduction, TLAPS

(***************************************************************************)
(* The fan-out of the profiles (ProfileFanout).                            *)
(***************************************************************************)

\* What the type invariant says of one broker and its client.
LEMMA FanTypes ==
  ASSUME FanTypeOK, NEW b \in Broker
  PROVE  /\ client[b] \in Clients /\ CellOK(cellBroker[b])
         /\ fanout.session \in Nat /\ fanout.iteration \in 0 .. MaxUpdate
         /\ BatchLinks \in Nat \ {0} /\ MaxUpdate \in Nat
         /\ Update \in Nat \X Nat /\ BatchId \in 0 .. MaxUpdate /\ BatchId \in Nat
  <1>1. BatchLinks \in Nat \ {0} /\ MaxUpdate \in Nat
    BY FanoutAssumption
  <1>2. /\ client[b] \in Clients /\ CellOK(cellBroker[b])
        /\ fanout.session \in Nat /\ fanout.iteration \in 0 .. MaxUpdate
    BY DEF FanTypeOK
  <1>3. QED
    BY <1>1, <1>2 DEF Update, BatchId

\* A broker that a step does not touch.
FanUntouched(b) ==
  /\ client'[b] = client[b] /\ wire'[b] = wire[b] /\ cellBroker'[b] = cellBroker[b]
  /\ b \in dirty' <=> b \in dirty

LEMMA FanElsewhere ==
  ASSUME NEW b \in Broker, BrokerInv(b), fanout' = fanout, FanUntouched(b)
  PROVE  BrokerInv(b)'
  <1>1. WireAt(b)'
    BY DEF BrokerInv, WireAt, FanUntouched, RequestOf, BatchId, Update
  <1>2. ClientAt(b)'
    BY DEF BrokerInv, ClientAt, FanUntouched
  <1>3. StagedAt(b)'
    BY DEF BrokerInv, StagedAt, FanUntouched, RequestOf, BatchId, Update, Copies
  <1>4. ShownAt(b)'
    BY DEF BrokerInv, ShownAt, FanUntouched, BatchId, Update
  <1>5. CleanAt(b)'
    BY DEF BrokerInv, CleanAt, FanUntouched, BatchId
  <1>6. QED
    BY <1>1, <1>2, <1>3, <1>4, <1>5 DEF BrokerInv

\* A step at one broker.
LEMMA FanAtBroker ==
  ASSUME FanInv, NEW b \in Broker, fanout' = fanout, FanTypeOK',
         \A a \in Broker : a # b => FanUntouched(a), BrokerInv(b)'
  PROVE  FanInv'
  <1>1. ASSUME NEW a \in Broker PROVE BrokerInv(a)'
    BY FanElsewhere DEF FanInv
  <1>2. QED
    BY <1>1 DEF FanInv

LEMMA FanInitInv == FanInit => FanInv
  <1> SUFFICES ASSUME FanInit PROVE FanInv
    OBVIOUS
  <1>1. BatchLinks \in Nat \ {0} /\ MaxUpdate \in Nat
    BY FanoutAssumption
  <1>2. FanTypeOK
    <2>1. NewControlClient \in Clients
      BY <1>1 DEF NewControlClient, Clients
    <2>2. ASSUME NEW b \in Broker PROVE CellOK(cellBroker[b])
      <3> DEFINE s == cellBroker[b]
      <3>1. /\ s = [up |-> TRUE, open |-> NoBatches, shown |-> Unseen, whole |-> TRUE,
                    outages |-> 0]
        BY DEF FanInit
      <3>2. NoBatches \in [{} -> Seq(Nat \X Nat)] /\ DOMAIN NoBatches = {}
        BY DEF NoBatches
      <3>3. Unseen \in Nat \X Nat
        BY DEF Unseen
      <3> HIDE DEF s
      <3>4. CellOK(s)
        BY <3>1, <3>2, <3>3 DEF CellOK
      <3>5. QED
        BY <3>4 DEF s
    <2>3. /\ fanout \in [pc : {"solve", "send", "closing", "failed", "killed"}, session : Nat,
                         iteration : 0 .. MaxUpdate]
          /\ fanout.pc = "solve"
      BY <1>1 DEF FanInit
    <2>4. client \in [Broker -> Clients]
      BY <2>1 DEF FanInit
    <2>5. DOMAIN cellBroker = Broker /\ DOMAIN wire = Broker
      BY DEF FanInit
    <2>6. QED
      BY <2>2, <2>3, <2>4, <2>5 DEF FanTypeOK
  <1>3. ASSUME NEW b \in Broker PROVE BrokerInv(b)
    BY DEF FanInit, BrokerInv, WireAt, ClientAt, StagedAt, ShownAt, CleanAt, NoBatches,
           NewControlClient, Asking
  <1>4. QED
    BY <1>2, <1>3 DEF FanInv

LEMMA SendRequestStep ==
  ASSUME FanInv, NEW b \in Broker, SendRequest(b)
  PROVE  FanInv'
  <1>1. /\ FanTypeOK /\ BrokerInv(b) /\ fanout' = fanout /\ dirty' = dirty
        /\ cellBroker' = cellBroker
        /\ fanout.pc \in {"send", "closing"} /\ client[b].pc \in Asking /\ ~client[b].asked
    BY DEF FanInv, SendRequest, Asking
  <1>2. client[b] \in Clients /\ client \in [Broker -> Clients] /\ DOMAIN wire = Broker
    BY <1>1, FanTypes DEF FanTypeOK
  <1>3. client[b].reply = "none"
    BY <1>1, <1>2 DEF BrokerInv, ClientAt, Clients
  <1>4. CASE client[b].usable
    <2>1. /\ client' = [client EXCEPT ![b].asked = TRUE]
          /\ wire' = [wire EXCEPT ![b] = Append(@, Request(b))]
      BY <1>4 DEF SendRequest
    <2>2. /\ \A a \in Broker : a # b => client'[a] = client[a] /\ wire'[a] = wire[a]
          /\ client' \in [Broker -> Clients] /\ DOMAIN wire' = Broker
          /\ client'[b].asked /\ client'[b].pc = client[b].pc
          /\ client'[b].staged = client[b].staged /\ client'[b].usable
          /\ client'[b].reply = "none"
      BY <1>2, <1>3, <1>4, <2>1 DEF Clients
    <2>3. wire'[b] = << RequestOf(client[b].pc) >>
      <3>1. wire[b] = << >>
        BY <1>1, <1>4 DEF BrokerInv, WireAt
      <3>2. QED
        BY <1>2, <2>1, <3>1 DEF Request, RequestOf
    <2>4. FanTypeOK'
      BY <1>1, <2>2 DEF FanTypeOK
    <2>5. WireAt(b)'
      BY <1>1, <2>2, <2>3 DEF WireAt, RequestOf, BatchId, Update
    <2>6. ClientAt(b)'
      BY <1>1, <1>4, <2>2 DEF BrokerInv, ClientAt, Asking, NewControlClient
    <2>7. StagedAt(b)'
      <3>1. wire'[b] = << RequestOf("commit") >> => client[b].pc = "commit"
        BY <2>3 DEF RequestOf
      <3>2. QED
        BY <1>1, <1>3, <1>4, <2>2, <3>1
        DEF BrokerInv, StagedAt, Copies, BatchId, Update, RequestOf
    <2>8. ShownAt(b)'
      BY <1>1, <2>2 DEF BrokerInv, ShownAt, BatchId, Update
    <2>9. CleanAt(b)'
      BY <1>1, <1>3, <1>4, <2>2 DEF BrokerInv, CleanAt, BatchId, Asking
    <2>10. \A a \in Broker : a # b => FanUntouched(a)
      BY <1>1, <2>2 DEF FanUntouched
    <2>11. QED
      BY <1>1, <2>4, <2>5, <2>6, <2>7, <2>8, <2>9, <2>10, FanAtBroker DEF BrokerInv
  <1>5. CASE ~client[b].usable
    <2>1. client' = [client EXCEPT ![b] = AfterError(client[b])] /\ wire' = wire
      BY <1>5 DEF SendRequest
    <2>2. /\ \A a \in Broker : a # b => client'[a] = client[a]
          /\ client' \in [Broker -> Clients] /\ DOMAIN wire' = Broker
          /\ ~client'[b].asked /\ client'[b].pc \in {"abort", "raised"}
          /\ ~client'[b].usable
          /\ client'[b].reply = "none"
      BY <1>1, <1>2, <1>3, <1>5, <2>1 DEF Clients, AfterError
    <2>3. b \in dirty
      BY <1>1, <1>5 DEF BrokerInv, CleanAt
    <2>4. FanTypeOK'
      BY <1>1, <2>2 DEF FanTypeOK
    <2>5. WireAt(b)'
      BY <1>1, <2>1, <2>2 DEF BrokerInv, WireAt, RequestOf, BatchId, Update
    <2>6. ClientAt(b)'
      BY <1>1, <2>2 DEF BrokerInv, ClientAt, Asking, NewControlClient
    <2>7. StagedAt(b)'
      BY <1>1, <2>1, <2>2 DEF BrokerInv, StagedAt, Copies, BatchId, Update, RequestOf
    <2>8. ShownAt(b)'
      BY <1>1, <2>2 DEF BrokerInv, ShownAt, BatchId, Update
    <2>9. CleanAt(b)'
      BY <1>1, <2>3 DEF CleanAt
    <2>10. \A a \in Broker : a # b => FanUntouched(a)
      BY <1>1, <2>1, <2>2 DEF FanUntouched
    <2>11. QED
      BY <1>1, <2>4, <2>5, <2>6, <2>7, <2>8, <2>9, <2>10, FanAtBroker DEF BrokerInv
  <1>6. QED
    BY <1>4, <1>5

\* A timeout: the client is out of step with its socket, and the broker dirty.
LEMMA RequestTimeoutStep ==
  ASSUME FanInv, NEW b \in Broker, RequestTimeout(b)
  PROVE  FanInv'
  <1>1. /\ FanTypeOK /\ BrokerInv(b) /\ fanout' = fanout /\ dirty' = dirty \cup {b}
        /\ cellBroker' = cellBroker /\ wire' = wire
        /\ client[b].asked /\ client[b].reply = "none"
    BY DEF FanInv, RequestTimeout
  <1>2. client[b] \in Clients /\ client \in [Broker -> Clients] /\ client[b].pc \in Asking
    BY <1>1, FanTypes DEF FanTypeOK, BrokerInv, ClientAt
  <1> DEFINE c == [client[b] EXCEPT !.asked = FALSE, !.usable = FALSE]
  <1>3. /\ c \in Clients /\ c.pc = client[b].pc /\ c.reply = "none" /\ ~c.asked /\ ~c.usable
    BY <1>1, <1>2 DEF Clients
  <1>4. client' = [client EXCEPT ![b] = AfterError(c)]
    BY DEF RequestTimeout
  <1> HIDE DEF c
  <1>5. /\ AfterError(c) \in Clients /\ AfterError(c).pc \in {"abort", "raised"}
        /\ ~AfterError(c).asked /\ ~AfterError(c).usable /\ AfterError(c).reply = "none"
    BY <1>2, <1>3 DEF AfterError, Clients
  <1>6. /\ \A a \in Broker : a # b => client'[a] = client[a]
        /\ client' \in [Broker -> Clients]
        /\ ~client'[b].asked /\ client'[b].pc \in {"abort", "raised"}
        /\ ~client'[b].usable /\ client'[b].reply = "none"
    BY <1>2, <1>4, <1>5
  <1>7. FanTypeOK'
    BY <1>1, <1>6 DEF FanTypeOK
  <1>8. WireAt(b)'
    BY <1>1, <1>6 DEF BrokerInv, WireAt, RequestOf, BatchId, Update
  <1>9. ClientAt(b)'
    BY <1>1, <1>2, <1>6 DEF BrokerInv, ClientAt, Asking, NewControlClient
  <1>10. StagedAt(b)'
    BY <1>1, <1>6 DEF BrokerInv, StagedAt, Copies, BatchId, Update, RequestOf
  <1>11. ShownAt(b)'
    BY <1>1, <1>6 DEF BrokerInv, ShownAt, BatchId, Update
  <1>12. CleanAt(b)'
    BY <1>1 DEF CleanAt
  <1>13. \A a \in Broker : a # b => FanUntouched(a)
    BY <1>1, <1>6 DEF FanUntouched
  <1>14. QED
    BY <1>1, <1>7, <1>8, <1>9, <1>10, <1>11, <1>12, <1>13, FanAtBroker DEF BrokerInv

(***************************************************************************)
(* An answer well received: the client goes on to its next request.        *)
(***************************************************************************)
LEMMA ReceiveReplyStep ==
  ASSUME FanInv, NEW b \in Broker, ReceiveReply(b)
  PROVE  FanInv'
  <1>1. /\ FanTypeOK /\ BrokerInv(b) /\ fanout' = fanout /\ dirty' = dirty
        /\ cellBroker' = cellBroker /\ wire' = wire
        /\ client[b].asked /\ client[b].reply # "none"
    BY DEF FanInv, ReceiveReply
  <1>2. /\ client[b] \in Clients /\ client \in [Broker -> Clients] /\ client[b].pc \in Asking
        /\ client[b].usable /\ wire[b] = << >>
        /\ fanout.pc \notin {"solve", "failed"}
        /\ BatchLinks \in Nat \ {0} /\ client[b].staged \in 0 .. BatchLinks
    BY <1>1, FanTypes DEF FanTypeOK, BrokerInv, ClientAt, WireAt, Clients, Asking
  <1> DEFINE c == [client[b] EXCEPT !.asked = FALSE, !.reply = "none"]
             d == IF client[b].reply = "ok" THEN AfterOk(c) ELSE AfterError(c)
  <1>3. /\ c \in Clients /\ c.pc = client[b].pc /\ c.reply = "none" /\ ~c.asked /\ c.usable
        /\ c.staged = client[b].staged
    BY <1>1, <1>2 DEF Clients
  <1>4. client' = [client EXCEPT ![b] = d]
    BY DEF ReceiveReply
  <1> HIDE DEF c
  <1>5. /\ d \in Clients /\ ~d.asked /\ d.usable /\ d.reply = "none"
        /\ client[b].reply = "ok" =>
             /\ client[b].pc = "begin" => d.pc = "swap" /\ d.staged = client[b].staged
             /\ client[b].pc = "swap" =>
                  /\ d.staged = client[b].staged + 1
                  /\ d.pc = IF client[b].staged + 1 = BatchLinks THEN "commit" ELSE "swap"
             /\ client[b].pc = "commit" => d.pc = "ok"
             /\ client[b].pc = "abort" => d.pc = "raised"
        /\ client[b].reply # "ok" =>
             d.pc = IF client[b].pc \in {"swap", "commit"} THEN "abort" ELSE "raised"
    <2>1. client[b].pc = "swap" => client[b].staged < BatchLinks
      BY <1>1 DEF BrokerInv, ClientAt
    <2>2. CASE client[b].reply = "ok" /\ client[b].pc = "begin"
      BY <1>3, <2>2 DEF AfterOk, Clients
    <2>3. CASE client[b].reply = "ok" /\ client[b].pc = "swap"
      <3> DEFINE n == c.staged + 1
                 next == IF n = BatchLinks THEN "commit" ELSE "swap"
      <3>1. n \in 0 .. BatchLinks /\ n = client[b].staged + 1
        BY <1>2, <1>3, <2>1, <2>3
      <3>2. d = [c EXCEPT !.staged = n, !.pc = next]
        BY <1>3, <2>3 DEF AfterOk
      <3>3. next \in {"commit", "swap"}
        OBVIOUS
      <3> HIDE DEF n, next, d
      <3>4. /\ d \in Clients /\ ~d.asked /\ d.usable /\ d.reply = "none"
            /\ d.staged = n /\ d.pc = next
        BY <1>3, <3>1, <3>2, <3>3 DEF Clients
      <3>5. QED
        BY <2>3, <3>1, <3>4 DEF next
    <2>4. CASE client[b].reply = "ok" /\ client[b].pc = "commit"
      BY <1>3, <2>4 DEF AfterOk, Clients
    <2>5. CASE client[b].reply = "ok" /\ client[b].pc = "abort"
      BY <1>3, <2>5 DEF AfterOk, Clients
    <2>6. CASE client[b].reply # "ok"
      BY <1>3, <2>6 DEF AfterError, Clients
    <2>7. QED
      BY <1>2, <2>2, <2>3, <2>4, <2>5, <2>6 DEF Asking
  <1> HIDE DEF d
  <1>6. /\ \A a \in Broker : a # b => client'[a] = client[a]
        /\ client' \in [Broker -> Clients]
        /\ client'[b] = d
    BY <1>2, <1>4, <1>5
  <1>7. FanTypeOK'
    BY <1>1, <1>6 DEF FanTypeOK
  <1>8. WireAt(b)'
    BY <1>1, <1>2 DEF WireAt
  <1>9. ClientAt(b)'
    <2>1. client[b].pc = "begin" => client[b].staged = 0
      BY <1>1 DEF BrokerInv, ClientAt
    <2>2. client[b].pc = "swap" => client[b].staged < BatchLinks
      BY <1>1 DEF BrokerInv, ClientAt
    <2>3. /\ d.pc \in {"swap", "commit", "ok", "raised", "abort"}
          /\ d.pc = "swap" => d.staged < BatchLinks
          /\ d.pc = "commit" => d.staged = BatchLinks
      BY <1>2, <1>5, <2>1, <2>2 DEF Asking
    <2>4. QED
      BY <1>1, <1>2, <1>5, <1>6, <2>3 DEF ClientAt
  <1>10. StagedAt(b)'
    <2>1. wire'[b] = << >>
      BY <1>1, <1>2
    <2>2. ASSUME BatchId \in DOMAIN cellBroker[b].open
          PROVE  /\ d.pc = "swap" => cellBroker[b].open[BatchId] = Copies(d.staged)
                 /\ d.pc = "commit" => cellBroker[b].open[BatchId] = Copies(BatchLinks)
      <3>1. CASE client[b].reply = "ok" /\ client[b].pc = "begin"
        <4>1. cellBroker[b].open[BatchId] = << >> /\ d.pc = "swap" /\ d.staged = 0
          BY <1>1, <1>2, <1>5, <2>2, <3>1 DEF BrokerInv, StagedAt, ClientAt
        <4>2. Copies(0) = << >>
          BY DEF Copies
        <4>3. QED
          BY <4>1, <4>2
      <3>2. CASE client[b].reply = "ok" /\ client[b].pc = "swap"
        <4>1. cellBroker[b].open[BatchId] = Copies(client[b].staged + 1)
          BY <1>1, <1>2, <2>2, <3>2 DEF BrokerInv, StagedAt
        <4>2. QED
          BY <1>2, <1>5, <3>2, <4>1
      <3>3. CASE client[b].pc \in {"commit", "abort"} \/ client[b].reply # "ok"
        BY <1>2, <1>5, <3>3 DEF Asking
      <3>4. QED
        BY <1>2, <3>1, <3>2, <3>3 DEF Asking
    <2>3. /\ cellBroker' = cellBroker /\ BatchId' = BatchId /\ Update' = Update
          /\ client'[b] = d /\ d.pc # "begin" /\ d.reply # "ok"
      BY <1>1, <1>2, <1>5, <1>6 DEF BatchId, Update, Asking
    <2>4. \A n : Copies(n)' = Copies(n)
      BY <2>3 DEF Copies
    <2>5. QED
      BY <2>1, <2>2, <2>3, <2>4 DEF StagedAt
  <1>11. ShownAt(b)'
    BY <1>1, <1>2, <1>5, <1>6 DEF BrokerInv, ShownAt, BatchId, Update, Asking
  <1>12. CleanAt(b)'
    BY <1>1, <1>2, <1>5, <1>6 DEF BrokerInv, CleanAt, BatchId, Asking
  <1>13. \A a \in Broker : a # b => FanUntouched(a)
    BY <1>1, <1>6 DEF FanUntouched
  <1>14. QED
    BY <1>1, <1>7, <1>8, <1>9, <1>10, <1>11, <1>12, <1>13, FanAtBroker DEF BrokerInv

(***************************************************************************)
(* A broker serves the request on the wire.                                *)
(***************************************************************************)

\* What an accepted request does to the open batches.
LEMMA ServedBegin ==
  ASSUME NEW s, NEW r, CellOK(s), r.type = "begin", r.id \in 0 .. MaxUpdate
  PROVE  /\ CellOK(Served(s, r))
         /\ Served(s, r).shown = s.shown /\ Served(s, r).whole = s.whole
         /\ Served(s, r).up = s.up
         /\ DOMAIN Served(s, r).open = DOMAIN s.open \cup {r.id}
         /\ Served(s, r).open[r.id] = << >>
  <1> DEFINE tab == [i \in DOMAIN s.open \cup {r.id} |-> IF i = r.id THEN << >> ELSE s.open[i]]
  <1>1. Served(s, r) = [s EXCEPT !.open = tab]
    BY DEF Served
  <1>2. /\ DOMAIN tab = DOMAIN s.open \cup {r.id} /\ tab[r.id] = << >>
        /\ tab \in [DOMAIN tab -> Seq(Nat \X Nat)]
    BY DEF CellOK
  <1> HIDE DEF tab
  <1>3. QED
    BY <1>1, <1>2 DEF CellOK

LEMMA ServedSwap ==
  ASSUME NEW s, NEW r, CellOK(s), r.type = "swap", r.id \in DOMAIN s.open,
         r.update \in Nat \X Nat
  PROVE  /\ CellOK(Served(s, r))
         /\ Served(s, r).shown = s.shown /\ Served(s, r).whole = s.whole
         /\ Served(s, r).up = s.up
         /\ DOMAIN Served(s, r).open = DOMAIN s.open
         /\ Served(s, r).open[r.id] = Append(s.open[r.id], r.update)
  <1> DEFINE tab == [s.open EXCEPT ![r.id] = Append(@, r.update)]
  <1>1. s \in [up : BOOLEAN, open : [DOMAIN s.open -> Seq(Nat \X Nat)], shown : Nat \X Nat,
               whole : BOOLEAN, outages : Nat]
    BY DEF CellOK
  <1>2. Served(s, r) = [s EXCEPT !.open = tab]
    BY <1>1 DEF Served
  <1>3. /\ DOMAIN tab = DOMAIN s.open /\ tab[r.id] = Append(s.open[r.id], r.update)
        /\ tab \in [DOMAIN tab -> Seq(Nat \X Nat)]
    <2>1. s.open \in [DOMAIN s.open -> Seq(Nat \X Nat)]
      BY <1>1
    <2>2. Append(s.open[r.id], r.update) \in Seq(Nat \X Nat)
      BY <2>1
    <2>3. QED
      BY <2>1, <2>2
  <1> HIDE DEF tab
  <1>4. QED
    BY <1>1, <1>2, <1>3 DEF CellOK

LEMMA ServedClose ==
  ASSUME NEW s, NEW r, CellOK(s), r.type \in {"commit", "abort"}, r.id \in DOMAIN s.open,
         r.type = "commit" => Last(s.open[r.id]) \in Nat \X Nat
  PROVE  /\ CellOK(Served(s, r))
         /\ Served(s, r).up = s.up
         /\ DOMAIN Served(s, r).open = DOMAIN s.open \ {r.id}
         /\ r.type = "abort" => Served(s, r).shown = s.shown /\ Served(s, r).whole = s.whole
         /\ r.type = "commit" =>
              /\ Served(s, r).shown = Last(s.open[r.id])
              /\ Served(s, r).whole = (s.open[r.id] = [l \in 1 .. BatchLinks |-> r.update])
  <1> DEFINE tab == [i \in DOMAIN s.open \ {r.id} |-> s.open[i]]
             last == Last(s.open[r.id])
             all == s.open[r.id] = [l \in 1 .. BatchLinks |-> r.update]
  <1>1. s \in [up : BOOLEAN, open : [DOMAIN s.open -> Seq(Nat \X Nat)], shown : Nat \X Nat,
               whole : BOOLEAN, outages : Nat] /\ DOMAIN s.open \subseteq 0 .. MaxUpdate
    BY DEF CellOK
  <1>2. /\ r.type = "commit" => Served(s, r) = [s EXCEPT !.open = tab, !.shown = last, !.whole = all]
        /\ r.type = "abort" => Served(s, r) = [s EXCEPT !.open = tab]
    BY DEF Served
  <1>3. DOMAIN tab = DOMAIN s.open \ {r.id} /\ tab \in [DOMAIN tab -> Seq(Nat \X Nat)]
    <2>1. s.open \in [DOMAIN s.open -> Seq(Nat \X Nat)]
      BY <1>1
    <2>2. QED
      BY <2>1
  <1>4. all \in BOOLEAN /\ (r.type = "commit" => last \in Nat \X Nat)
    OBVIOUS
  <1>5. last = Last(s.open[r.id]) /\ all = (s.open[r.id] = [l \in 1 .. BatchLinks |-> r.update])
    OBVIOUS
  <1> HIDE DEF tab, last, all
  <1>6. CASE r.type = "abort"
    BY <1>1, <1>2, <1>3, <1>6 DEF CellOK
  <1>7. CASE r.type = "commit"
    <2>1. /\ Served(s, r).open = tab /\ Served(s, r).shown = last /\ Served(s, r).whole = all
          /\ Served(s, r).up = s.up /\ Served(s, r).outages = s.outages
          /\ Served(s, r) \in [up : BOOLEAN, open : [DOMAIN tab -> Seq(Nat \X Nat)],
                               shown : Nat \X Nat, whole : BOOLEAN, outages : Nat]
      BY <1>1, <1>2, <1>3, <1>4, <1>7
    <2>2. QED
      BY <1>1, <1>3, <1>5, <1>7, <2>1 DEF CellOK
  <1>8. QED
    BY <1>6, <1>7

\* The answer to the request on the wire, and what it leaves of the broker.
LEMMA ServedHere ==
  ASSUME FanInv, NEW b \in Broker, NEW type \in Asking, wire[b] = << RequestOf(type) >>,
         NEW ok \in BOOLEAN,
         ok => Accepts(cellBroker[b], RequestOf(type)),
         ~ok /\ type # "swap" => ~Accepts(cellBroker[b], RequestOf(type)),
         NEW t, t = IF ok THEN Served(cellBroker[b], RequestOf(type)) ELSE cellBroker[b]
  PROVE  /\ CellOK(t) /\ t.up = cellBroker[b].up /\ t.whole
         /\ type # "commit" => t.shown = cellBroker[b].shown
         /\ ~ok => t = cellBroker[b]
         /\ type = "begin" => (ok <=> BatchId \notin DOMAIN cellBroker[b].open)
         /\ type = "begin" /\ ok =>
              DOMAIN t.open = DOMAIN cellBroker[b].open \cup {BatchId} /\ t.open[BatchId] = << >>
         /\ type = "swap" /\ ok =>
              /\ BatchId \in DOMAIN cellBroker[b].open
              /\ DOMAIN t.open = DOMAIN cellBroker[b].open
              /\ t.open[BatchId] = Append(cellBroker[b].open[BatchId], Update)
         /\ type = "commit" /\ ok => t.shown = Update
         /\ type \in {"commit", "abort"} => DOMAIN t.open = DOMAIN cellBroker[b].open \ {BatchId}
  <1> DEFINE s == cellBroker[b]
             r == RequestOf(type)
  <1>1. /\ FanTypeOK /\ BrokerInv(b) /\ CellOK(s) /\ BatchId \in 0 .. MaxUpdate
        /\ Update \in Nat \X Nat /\ BatchLinks \in Nat \ {0}
    BY FanTypes DEF FanInv
  <1>2. r.type = type /\ r.id = BatchId /\ r.update = Update
    BY DEF RequestOf
  <1>3. s.whole
    BY <1>1 DEF BrokerInv, ShownAt
  <1>4. Accepts(s, r) <=> (BatchId \in DOMAIN s.open <=> type # "begin")
    BY <1>2 DEF Accepts
  <1>5. type = "commit" /\ BatchId \in DOMAIN s.open => s.open[BatchId] = Copies(BatchLinks)
    BY <1>1 DEF BrokerInv, StagedAt
  <1>6. /\ Copies(BatchLinks) = [l \in 1 .. BatchLinks |-> Update]
        /\ Last(Copies(BatchLinks)) = Update
    <2>1. Copies(BatchLinks) = [l \in 1 .. BatchLinks |-> Update]
      BY DEF Copies
    <2>2. Copies(BatchLinks) \in Seq(Nat \X Nat) /\ Len(Copies(BatchLinks)) = BatchLinks
      BY <1>1, <2>1
    <2>3. QED
      BY <1>1, <2>1, <2>2 DEF Last
  <1>7. t = IF ok THEN Served(s, r) ELSE s
    OBVIOUS
  <1>8. ok => Accepts(s, r)
    OBVIOUS
  <1>9. ~ok /\ type # "swap" => ~Accepts(s, r)
    OBVIOUS
  <1> HIDE DEF r
  <1>10. ASSUME ok, type = "begin"
         PROVE  /\ CellOK(t) /\ t.shown = s.shown /\ t.whole = s.whole /\ t.up = s.up
                /\ DOMAIN t.open = DOMAIN s.open \cup {BatchId} /\ t.open[BatchId] = << >>
    BY <1>1, <1>2, <1>7, <1>10, ServedBegin
  <1>11. ASSUME ok, type = "swap"
         PROVE  /\ CellOK(t) /\ t.shown = s.shown /\ t.whole = s.whole /\ t.up = s.up
                /\ BatchId \in DOMAIN s.open
                /\ DOMAIN t.open = DOMAIN s.open
                /\ t.open[BatchId] = Append(s.open[BatchId], Update)
    <2>1. BatchId \in DOMAIN s.open
      BY <1>4, <1>8, <1>11
    <2>2. /\ CellOK(Served(s, r)) /\ Served(s, r).shown = s.shown
          /\ Served(s, r).whole = s.whole /\ Served(s, r).up = s.up
          /\ DOMAIN Served(s, r).open = DOMAIN s.open
          /\ Served(s, r).open[r.id] = Append(s.open[r.id], r.update)
      <3>1. r.type = "swap" /\ r.id \in DOMAIN s.open /\ r.update \in Nat \X Nat /\ CellOK(s)
        BY <1>1, <1>2, <1>11, <2>1
      <3>2. QED
        BY ONLY <3>1, ServedSwap
    <2>3. t = Served(s, r)
      BY <1>7, <1>11
    <2>4. QED
      BY <1>2, <2>1, <2>2, <2>3
  <1>12. ASSUME ok, type \in {"commit", "abort"}
         PROVE  /\ CellOK(t) /\ t.up = s.up /\ DOMAIN t.open = DOMAIN s.open \ {BatchId}
                /\ type = "abort" => t.shown = s.shown /\ t.whole = s.whole
                /\ type = "commit" => t.shown = Update /\ t.whole
    <2>1. BatchId \in DOMAIN s.open
      BY <1>4, <1>8, <1>12
    <2>2. type = "commit" => Last(s.open[r.id]) \in Nat \X Nat
      BY <1>1, <1>2, <1>5, <1>6, <2>1
    <2>3. /\ CellOK(Served(s, r)) /\ Served(s, r).up = s.up
          /\ DOMAIN Served(s, r).open = DOMAIN s.open \ {r.id}
          /\ r.type = "abort" => Served(s, r).shown = s.shown /\ Served(s, r).whole = s.whole
          /\ r.type = "commit" =>
              /\ Served(s, r).shown = Last(s.open[r.id])
              /\ Served(s, r).whole = (s.open[r.id] = [l \in 1 .. BatchLinks |-> r.update])
      BY <1>1, <1>2, <1>12, <2>1, <2>2, ServedClose
    <2>4. type = "commit" => Served(s, r).shown = Update /\ Served(s, r).whole
      BY <1>2, <1>5, <1>6, <2>1, <2>3
    <2>5. QED
      BY <1>2, <1>7, <1>12, <2>3, <2>4
  <1>13. ASSUME ~ok
         PROVE  /\ t = s
                /\ type = "begin" => BatchId \in DOMAIN s.open
                /\ type \in {"commit", "abort"} => BatchId \notin DOMAIN s.open
    BY <1>4, <1>7, <1>9, <1>13
  <1>14. ok /\ type = "begin" => BatchId \notin DOMAIN s.open
    BY <1>4, <1>8
  <1>15. type \in {"begin", "swap", "commit", "abort"}
    BY DEF Asking
  <1>16. CASE ok
    BY <1>3, <1>10, <1>11, <1>12, <1>14, <1>15, <1>16
  <1>17. CASE ~ok
    BY <1>1, <1>3, <1>13, <1>15, <1>17
  <1>18. QED
    BY <1>16, <1>17

LEMMA SameSequence ==
  ASSUME NEW S, NEW s \in Seq(S), NEW t \in Seq(S), Len(s) = Len(t),
         \A i \in 1 .. Len(s) : s[i] = t[i]
  PROVE  s = t
  OBVIOUS

LEMMA CopiesAppend ==
  ASSUME NEW n \in Nat, Update \in Nat \X Nat
  PROVE  Append(Copies(n), Update) = Copies(n + 1)
  <1>1. Copies(n) \in Seq(Nat \X Nat) /\ Len(Copies(n)) = n
    BY DEF Copies
  <1>2. /\ Append(Copies(n), Update) \in Seq(Nat \X Nat)
        /\ Len(Append(Copies(n), Update)) = n + 1
    BY <1>1
  <1>3. Copies(n + 1) \in Seq(Nat \X Nat) /\ Len(Copies(n + 1)) = n + 1
    BY DEF Copies
  <1>4. \A i \in 1 .. n + 1 : Append(Copies(n), Update)[i] = Copies(n + 1)[i]
    BY <1>1 DEF Copies
  <1>5. QED
    BY ONLY <1>2, <1>3, <1>4, SameSequence

LEMMA ServeStep ==
  ASSUME FanInv, NEW b \in Broker, Serve(b)
  PROVE  FanInv'
  <1>1. /\ FanTypeOK /\ BrokerInv(b) /\ fanout' = fanout /\ dirty' = dirty
        /\ wire[b] # << >> /\ wire' = [wire EXCEPT ![b] = Tail(@)]
    BY DEF FanInv, Serve
  <1>2. PICK type \in Asking : wire[b] = << RequestOf(type) >>
    BY <1>1 DEF BrokerInv, WireAt
  <1> DEFINE r == RequestOf(type)
             s == cellBroker[b]
  <1>3. Head(wire[b]) = r /\ Tail(wire[b]) = << >>
    BY <1>2
  <1>4. r.type = type /\ r.session = fanout.session
    BY DEF RequestOf
  <1> HIDE DEF r
  <1>5. PICK ok \in IF Accepts(s, r) THEN IF r.type = "swap" THEN BOOLEAN ELSE {TRUE} ELSE {FALSE} :
          /\ cellBroker' = [cellBroker EXCEPT ![b] = IF ok THEN Served(@, r) ELSE @]
          /\ client' = IF r.session = fanout.session /\ client[b].asked
                       THEN [client EXCEPT ![b].reply = IF ok THEN "ok" ELSE "rejected"] ELSE client
    BY <1>3 DEF Serve
  <1>6. /\ ok \in BOOLEAN
        /\ ok => Accepts(s, r)
        /\ ~ok /\ type # "swap" => ~Accepts(s, r)
    BY <1>4, <1>5
  <1> DEFINE t == IF ok THEN Served(s, r) ELSE s
             c == client[b]
             d == client'[b]
  <1>7. /\ client \in [Broker -> Clients] /\ DOMAIN wire = Broker /\ DOMAIN cellBroker = Broker
        /\ \A a \in Broker : CellOK(cellBroker[a])
        /\ fanout \in [pc : {"solve", "send", "closing", "failed", "killed"}, session : Nat,
                       iteration : 0 .. MaxUpdate]
        /\ fanout.pc = "send" => fanout.iteration < MaxUpdate
    BY <1>1 DEF FanTypeOK
  <1>8. /\ cellBroker'[b] = t /\ DOMAIN cellBroker' = Broker
        /\ \A a \in Broker : a # b => cellBroker'[a] = cellBroker[a]
    BY <1>5, <1>7
  <1>9. /\ wire'[b] = << >> /\ DOMAIN wire' = Broker
        /\ \A a \in Broker : a # b => wire'[a] = wire[a]
    BY <1>1, <1>3, <1>7
  <1>10. /\ client' \in [Broker -> Clients]
         /\ \A a \in Broker : a # b => client'[a] = client[a]
         /\ ~c.asked => d = c
         /\ c.asked => /\ d.pc = c.pc /\ d.staged = c.staged /\ d.usable = c.usable /\ d.asked
                       /\ d.reply = IF ok THEN "ok" ELSE "rejected"
    <2>1. client[b] \in Clients
      BY <1>7
    <2>2. CASE c.asked
      <3> DEFINE e == [client[b] EXCEPT !.reply = IF ok THEN "ok" ELSE "rejected"]
      <3>1. client' = [client EXCEPT ![b] = e]
        BY <1>4, <1>5, <2>2
      <3>2. /\ e \in Clients
            /\ e.pc = c.pc /\ e.staged = c.staged /\ e.usable = c.usable /\ e.asked = c.asked
            /\ e.reply = IF ok THEN "ok" ELSE "rejected"
        BY <2>1 DEF Clients
      <3> HIDE DEF e
      <3>3. QED
        BY <1>7, <2>2, <3>1, <3>2
    <2>3. CASE ~c.asked
      BY <1>5, <1>7, <2>3
    <2>4. QED
      BY <2>2, <2>3
  <1>11. /\ CellOK(t) /\ t.up = s.up /\ t.whole
         /\ type # "commit" => t.shown = s.shown
         /\ ~ok => t = s
         /\ type = "begin" => (ok <=> BatchId \notin DOMAIN s.open)
         /\ type = "begin" /\ ok =>
              DOMAIN t.open = DOMAIN s.open \cup {BatchId} /\ t.open[BatchId] = << >>
         /\ type = "swap" /\ ok =>
              /\ BatchId \in DOMAIN s.open
              /\ DOMAIN t.open = DOMAIN s.open
              /\ t.open[BatchId] = Append(s.open[BatchId], Update)
         /\ type = "commit" /\ ok => t.shown = Update
         /\ type \in {"commit", "abort"} => DOMAIN t.open = DOMAIN s.open \ {BatchId}
    <2>1. t = IF ok THEN Served(cellBroker[b], RequestOf(type)) ELSE cellBroker[b]
      BY DEF r
    <2>2. /\ ok => Accepts(cellBroker[b], RequestOf(type))
          /\ ~ok /\ type # "swap" => ~Accepts(cellBroker[b], RequestOf(type))
      BY <1>6 DEF r
    <2> HIDE DEF t
    <2>3. QED
      BY <1>2, <1>6, <2>1, <2>2, ServedHere
  <1> HIDE DEF t
  <1>12. FanTypeOK'
    <2>1. \A a \in Broker : CellOK(cellBroker'[a])
      BY <1>7, <1>8, <1>11
    <2>2. QED
      BY <1>1, <1>7, <1>8, <1>9, <1>10, <2>1 DEF FanTypeOK, CellOK
  <1>13. \A a \in Broker : a # b => FanUntouched(a)
    BY <1>1, <1>8, <1>9, <1>10 DEF FanUntouched
  <1>14. WireAt(b)'
    BY <1>9 DEF WireAt
  <1>15. /\ BatchId' = BatchId /\ Update' = Update
         /\ \A n : Copies(n)' = Copies(n)
    BY <1>1 DEF BatchId, Update, Copies
  <1>16. c \in Clients /\ d \in Clients
    BY <1>7, <1>10
  <1>17. ASSUME ~c.asked PROVE BrokerInv(b)'
    <2>1. d = c /\ ~c.usable /\ b \in dirty
      BY <1>1, <1>2, <1>10, <1>17 DEF BrokerInv, WireAt, CleanAt
    <2>2. c.pc \notin {"idle", "ok"} /\ c.reply = "none"
      BY <1>1, <1>16, <1>17, <2>1 DEF BrokerInv, ClientAt, NewControlClient, Clients
    <2>3. ClientAt(b)'
      BY <1>1, <2>1 DEF BrokerInv, ClientAt
    <2>4. StagedAt(b)'
      BY <1>9, <2>1 DEF StagedAt
    <2>5. ShownAt(b)'
      <3>1. fanout.pc # "solve"
        BY <1>1, <2>2 DEF BrokerInv, ClientAt
      <3>2. QED
        BY <1>1, <1>8, <1>11, <2>1, <2>2, <3>1 DEF ShownAt
    <2>6. CleanAt(b)'
      BY <1>1, <2>1 DEF CleanAt
    <2>7. QED
      BY <1>14, <2>3, <2>4, <2>5, <2>6 DEF BrokerInv
  <1>18. ASSUME c.asked PROVE BrokerInv(b)'
    <2>1. c.usable /\ c.reply = "none" /\ c.pc = type /\ fanout.pc \notin {"solve", "failed"}
      <3>1. c.usable /\ c.reply = "none" /\ wire[b] = << RequestOf(c.pc) >> /\ c.pc \in Asking
        BY <1>1, <1>2, <1>18 DEF BrokerInv, WireAt, ClientAt
      <3>2. c.pc = type
        BY <1>2, <3>1 DEF RequestOf
      <3>3. QED
        BY <1>1, <3>1, <3>2 DEF BrokerInv, ClientAt, Asking
    <2>2. /\ d.pc = type /\ d.staged = c.staged /\ d.usable /\ d.asked
          /\ d.reply = IF ok THEN "ok" ELSE "rejected"
      BY <1>10, <1>18, <2>1
    <2>3. ClientAt(b)'
      BY <1>1, <1>18, <2>1, <2>2 DEF BrokerInv, ClientAt, Asking
    <2>4. StagedAt(b)'
      <3>1. type = "begin" /\ ok => t.open[BatchId] = << >>
        BY <1>11
      <3>2. ASSUME type = "swap", BatchId \in DOMAIN t.open
            PROVE  t.open[BatchId] = Copies(IF d.reply = "ok" THEN c.staged + 1 ELSE c.staged)
        <4>1. BatchId \in DOMAIN s.open
          BY <1>11, <3>2
        <4>2. s.open[BatchId] = Copies(c.staged)
          BY <1>1, <2>1, <3>2, <4>1 DEF BrokerInv, StagedAt
        <4>3. CASE ok
          <5>1. t.open[BatchId] = Append(s.open[BatchId], Update)
            BY <1>11, <3>2, <4>3
          <5>2. c.staged \in Nat /\ Update \in Nat \X Nat
            BY <1>1, <1>16, FanTypes DEF Clients
          <5>3. Append(Copies(c.staged), Update) = Copies(c.staged + 1)
            BY <5>2, CopiesAppend
          <5>4. QED
            BY <2>2, <4>2, <4>3, <5>1, <5>3
        <4>4. CASE ~ok
          BY <1>11, <2>2, <4>2, <4>4
        <4>5. QED
          BY <4>3, <4>4
      <3>3. type = "commit" => BatchId \notin DOMAIN t.open
        BY <1>11
      <3>4. QED
        BY <1>8, <1>9, <1>15, <2>2, <3>1, <3>2, <3>3 DEF StagedAt
    <2>5. ShownAt(b)'
      BY <1>1, <1>8, <1>11, <1>15, <2>1, <2>2 DEF ShownAt, Asking
    <2>6. CleanAt(b)'
      <3>1. ASSUME b \notin dirty
            PROVE  /\ ~(type = "begin" /\ ~ok) /\ fanout.pc # "killed"
                   /\ DOMAIN t.open \subseteq
                        IF type \in {"commit", "abort"} THEN {} ELSE {BatchId}
        <4>1. /\ fanout.pc # "killed"
              /\ DOMAIN s.open \subseteq IF type = "begin" THEN {} ELSE {BatchId}
          BY <1>1, <2>1, <3>1 DEF BrokerInv, CleanAt
        <4>2. QED
          BY <1>11, <4>1 DEF Asking
      <3>2. QED
        BY <1>1, <1>8, <1>15, <2>2, <3>1 DEF CleanAt, Asking
    <2>7. QED
      BY <1>14, <2>3, <2>4, <2>5, <2>6 DEF BrokerInv
  <1>19. QED
    BY <1>1, <1>12, <1>13, <1>17, <1>18, FanAtBroker

LEMMA BrokerDiesStep ==
  ASSUME FanInv, NEW b \in Broker, BrokerDies(b)
  PROVE  FanInv'
  <1>1. /\ FanTypeOK /\ BrokerInv(b) /\ fanout' = fanout /\ dirty' = dirty /\ client' = client
        /\ wire' = [wire EXCEPT ![b] = << >>] /\ DOMAIN wire = Broker
        /\ DOMAIN cellBroker = Broker /\ CellOK(cellBroker[b])
        /\ \A a \in Broker : CellOK(cellBroker[a])
    BY DEF FanInv, BrokerDies, FanTypeOK
  <1> DEFINE s == cellBroker[b]
             t == [up |-> FALSE, open |-> NoBatches, shown |-> Unseen, whole |-> TRUE,
                   outages |-> s.outages + 1]
  <1>2. cellBroker' = [cellBroker EXCEPT ![b] = t]
    BY DEF BrokerDies
  <1>3. CellOK(t) /\ DOMAIN t.open = {} /\ t.shown = Unseen /\ t.whole
    <2>1. s \in [up : BOOLEAN, open : [DOMAIN s.open -> Seq(Nat \X Nat)], shown : Nat \X Nat,
                 whole : BOOLEAN, outages : Nat]
      BY <1>1 DEF CellOK
    <2>2. NoBatches \in [{} -> Seq(Nat \X Nat)] /\ DOMAIN NoBatches = {}
      BY DEF NoBatches
    <2>3. Unseen \in Nat \X Nat
      BY DEF Unseen
    <2>4. /\ t.open = NoBatches /\ t.shown = Unseen /\ t.whole
          /\ t \in [up : BOOLEAN, open : [{} -> Seq(Nat \X Nat)], shown : Nat \X Nat,
                    whole : BOOLEAN, outages : Nat]
      <3>1. s.outages + 1 \in Nat
        BY <2>1
      <3>2. QED
        BY <2>2, <2>3, <3>1
    <2> HIDE DEF t
    <2>5. QED
      BY <2>2, <2>4 DEF CellOK
  <1> HIDE DEF t
  <1>4. /\ cellBroker'[b] = t /\ DOMAIN cellBroker' = Broker
        /\ \A a \in Broker : a # b => cellBroker'[a] = cellBroker[a]
    BY <1>1, <1>2
  <1>5. /\ wire'[b] = << >> /\ DOMAIN wire' = Broker
        /\ \A a \in Broker : a # b => wire'[a] = wire[a]
    BY <1>1
  <1>6. FanTypeOK'
    <2>1. \A a \in Broker : CellOK(cellBroker'[a])
      BY <1>1, <1>3, <1>4
    <2>2. QED
      BY <1>1, <1>4, <1>5, <2>1 DEF FanTypeOK, CellOK
  <1>7. BrokerInv(b)'
    <2>1. WireAt(b)' /\ ClientAt(b)' /\ StagedAt(b)'
      BY <1>1, <1>3, <1>4, <1>5 DEF BrokerInv, WireAt, ClientAt, StagedAt, BatchId
    <2>2. ShownAt(b)'
      BY <1>3, <1>4 DEF ShownAt
    <2>3. CleanAt(b)'
      BY <1>1, <1>3, <1>4 DEF BrokerInv, CleanAt
    <2>4. QED
      BY <2>1, <2>2, <2>3 DEF BrokerInv
  <1>8. \A a \in Broker : a # b => FanUntouched(a)
    BY <1>1, <1>4, <1>5 DEF FanUntouched
  <1>9. QED
    BY <1>1, <1>6, <1>7, <1>8, FanAtBroker

LEMMA BrokerStartsStep ==
  ASSUME FanInv, NEW b \in Broker, BrokerStarts(b)
  PROVE  FanInv'
  <1>1. /\ FanTypeOK /\ BrokerInv(b) /\ fanout' = fanout /\ dirty' = dirty /\ client' = client
        /\ wire' = wire /\ DOMAIN cellBroker = Broker
        /\ \A a \in Broker : CellOK(cellBroker[a])
    BY DEF FanInv, BrokerStarts, FanTypeOK
  <1> DEFINE s == cellBroker[b]
             t == [s EXCEPT !.up = TRUE]
  <1>2. cellBroker' = [cellBroker EXCEPT ![b] = t]
    BY DEF BrokerStarts
  <1>3. CellOK(t) /\ t.open = s.open /\ t.shown = s.shown /\ t.whole = s.whole
    BY <1>1 DEF CellOK
  <1> HIDE DEF t
  <1>4. /\ cellBroker'[b] = t /\ DOMAIN cellBroker' = Broker
        /\ \A a \in Broker : a # b => cellBroker'[a] = cellBroker[a]
    BY <1>1, <1>2
  <1>5. FanTypeOK'
    <2>1. \A a \in Broker : CellOK(cellBroker'[a])
      BY <1>1, <1>3, <1>4
    <2>2. QED
      BY <1>1, <1>4, <2>1 DEF FanTypeOK, CellOK
  <1>6. BrokerInv(b)'
    <2>1. /\ BatchId' = BatchId /\ Update' = Update /\ \A n : Copies(n)' = Copies(n)
          /\ \A type : RequestOf(type)' = RequestOf(type)
      BY <1>1 DEF BatchId, Update, Copies, RequestOf
    <2>2. WireAt(b)' /\ ClientAt(b)'
      BY <1>1, <2>1 DEF BrokerInv, WireAt, ClientAt
    <2>3. StagedAt(b)'
      BY <1>1, <1>3, <1>4, <2>1 DEF BrokerInv, StagedAt
    <2>4. ShownAt(b)' /\ CleanAt(b)'
      BY <1>1, <1>3, <1>4, <2>1 DEF BrokerInv, ShownAt, CleanAt
    <2>5. QED
      BY <2>2, <2>3, <2>4 DEF BrokerInv
  <1>7. \A a \in Broker : a # b => FanUntouched(a)
    BY <1>1, <1>4 DEF FanUntouched
  <1>8. QED
    BY <1>1, <1>5, <1>6, <1>7, FanAtBroker

(***************************************************************************)
(* The steps of the bridge as a whole.                                     *)
(***************************************************************************)

\* A worker that has nothing to ask, on a socket that answers, has left nothing
\* on the wire.
LEMMA WireEmpty ==
  ASSUME FanInv, NEW b \in Broker, client[b].usable, client[b].pc \notin Asking
  PROVE  wire[b] = << >>
  BY DEF FanInv, BrokerInv, WireAt, ClientAt

LEMMA NewClients ==
  /\ NewControlClient \in Clients /\ [NewControlClient EXCEPT !.pc = "begin"] \in Clients
  /\ NewControlClient.pc = "idle" /\ [NewControlClient EXCEPT !.pc = "begin"].pc = "begin"
  /\ \A c \in {NewControlClient, [NewControlClient EXCEPT !.pc = "begin"]} :
       c.staged = 0 /\ ~c.asked /\ c.usable /\ c.reply = "none"
  <1>1. BatchLinks \in Nat \ {0}
    BY FanoutAssumption
  <1> DEFINE m == NewControlClient
  <1>2. /\ m \in Clients /\ m.pc = "idle" /\ m.staged = 0 /\ ~m.asked /\ m.usable
        /\ m.reply = "none"
    BY <1>1 DEF NewControlClient, Clients
  <1> DEFINE n == [m EXCEPT !.pc = "begin"]
  <1> HIDE DEF m
  <1>3. /\ n \in Clients /\ n.pc = "begin" /\ n.staged = 0 /\ ~n.asked /\ n.usable
        /\ n.reply = "none"
    BY <1>2 DEF Clients
  <1> HIDE DEF n
  <1>4. \A c \in {m, n} : c.staged = 0 /\ ~c.asked /\ c.usable /\ c.reply = "none"
    BY <1>2, <1>3
  <1>5. QED
    BY <1>2, <1>3, <1>4 DEF m, n

LEMMA DispatchStep ==
  ASSUME FanInv, Dispatch
  PROVE  FanInv'
  <1> DEFINE n == [NewControlClient EXCEPT !.pc = "begin"]
  <1>1. /\ FanTypeOK /\ \A b \in Broker : BrokerInv(b)
        /\ fanout.pc = "solve" /\ fanout.iteration < MaxUpdate
        /\ fanout' = [fanout EXCEPT !.pc = "send"] /\ client' = [b \in Broker |-> n]
        /\ wire' = wire /\ cellBroker' = cellBroker /\ dirty' = dirty
    BY DEF FanInv, Dispatch
  <1>2. /\ n \in Clients /\ n.pc = "begin" /\ n.staged = 0 /\ ~n.asked /\ n.usable
        /\ n.reply = "none"
    BY NewClients
  <1> HIDE DEF n
  <1>3. /\ fanout' \in [pc : {"solve", "send", "closing", "failed", "killed"}, session : Nat,
                        iteration : 0 .. MaxUpdate]
        /\ fanout'.pc = "send" /\ fanout'.iteration = fanout.iteration
    BY <1>1 DEF FanTypeOK
  <1>4. FanTypeOK'
    BY <1>1, <1>2, <1>3 DEF FanTypeOK
  <1>5. ASSUME NEW b \in Broker PROVE BrokerInv(b)'
    <2>1. client[b] = NewControlClient /\ client'[b] = n
      BY <1>1 DEF BrokerInv, ClientAt
    <2>2. wire'[b] = << >>
      <3>1. client[b].usable /\ client[b].pc \notin Asking
        BY <2>1, NewClients DEF Asking
      <3>2. QED
        BY <1>1, <3>1, WireEmpty
    <2>3. WireAt(b)'
      BY <2>2 DEF WireAt
    <2>4. ClientAt(b)'
      BY <1>2, <1>3, <2>1 DEF ClientAt
    <2>5. StagedAt(b)'
      BY <1>2, <2>1, <2>2 DEF StagedAt
    <2>6. ShownAt(b)'
      BY <1>1, <1>2, <1>3, <2>1 DEF BrokerInv, ShownAt
    <2>7. CleanAt(b)'
      <3>1. b \notin dirty => DOMAIN cellBroker[b].open = {}
        BY <1>1, <2>1, NewClients DEF BrokerInv, CleanAt
      <3>2. QED
        BY <1>1, <1>2, <1>3, <2>1, <3>1 DEF CleanAt
    <2>8. QED
      BY <2>3, <2>4, <2>5, <2>6, <2>7 DEF BrokerInv
  <1>6. QED
    BY <1>4, <1>5 DEF FanInv

LEMMA JoinedStep ==
  ASSUME FanInv, Joined
  PROVE  FanInv'
  <1> DEFINE n == NewControlClient
  <1>1. /\ FanTypeOK /\ \A b \in Broker : BrokerInv(b)
        /\ fanout.pc = "send" /\ \A b \in Broker : client[b].pc = "ok"
        /\ fanout' = [fanout EXCEPT !.pc = "solve", !.iteration = fanout.iteration + 1]
        /\ client' = [b \in Broker |-> n]
        /\ wire' = wire /\ cellBroker' = cellBroker /\ dirty' = dirty
    BY DEF FanInv, Joined, Acknowledged, Workers
  <1>2. /\ n \in Clients /\ n.pc = "idle" /\ n.staged = 0 /\ ~n.asked /\ n.usable
        /\ n.reply = "none"
    BY NewClients
  <1>3. n = NewControlClient
    OBVIOUS
  <1> HIDE DEF n
  <1>4. /\ fanout' \in [pc : {"solve", "send", "closing", "failed", "killed"}, session : Nat,
                        iteration : 0 .. MaxUpdate]
        /\ fanout'.pc = "solve" /\ fanout'.iteration = fanout.iteration + 1
        /\ fanout'.session = fanout.session /\ fanout'.iteration - 1 = fanout.iteration
    <2>1. /\ fanout \in [pc : {"solve", "send", "closing", "failed", "killed"}, session : Nat,
                         iteration : 0 .. MaxUpdate]
          /\ fanout.iteration < MaxUpdate /\ MaxUpdate \in Nat
      BY <1>1, FanoutAssumption DEF FanTypeOK
    <2> DEFINE k == fanout.iteration + 1
    <2>2. k \in 0 .. MaxUpdate /\ k - 1 = fanout.iteration /\ k = fanout.iteration + 1
      BY <2>1
    <2>3. fanout' = [fanout EXCEPT !.pc = "solve", !.iteration = k]
      BY <1>1
    <2> HIDE DEF k
    <2>4. QED
      BY <2>1, <2>2, <2>3
  <1>5. FanTypeOK'
    BY <1>1, <1>2, <1>4 DEF FanTypeOK
  <1>6. ASSUME NEW b \in Broker PROVE BrokerInv(b)'
    <2>1. client[b].pc = "ok" /\ client[b].usable /\ client'[b] = n
      BY <1>1 DEF BrokerInv, ClientAt
    <2>2. wire'[b] = << >>
      BY <1>1, <2>1, WireEmpty DEF Asking
    <2>3. WireAt(b)'
      BY <2>2 DEF WireAt
    <2>4. ClientAt(b)'
      BY <1>2, <1>3, <1>4, <2>1 DEF ClientAt
    <2>5. StagedAt(b)'
      BY <1>2, <2>1, <2>2 DEF StagedAt
    <2>6. ShownAt(b)'
      <3>1. cellBroker[b].whole /\ cellBroker[b].shown \in {Unseen, << fanout.session, fanout.iteration >>}
        BY <1>1, <2>1 DEF BrokerInv, ShownAt, Update
      <3>2. QED
        BY <1>1, <1>2, <1>4, <2>1, <3>1 DEF ShownAt
    <2>7. CleanAt(b)'
      <3>1. b \notin dirty => DOMAIN cellBroker[b].open = {}
        BY <1>1, <2>1 DEF BrokerInv, CleanAt
      <3>2. QED
        BY <1>1, <1>2, <1>4, <2>1, <3>1 DEF CleanAt
    <2>8. QED
      BY <2>3, <2>4, <2>5, <2>6, <2>7 DEF BrokerInv
  <1>7. QED
    BY <1>5, <1>6 DEF FanInv

LEMMA RaisedStep ==
  ASSUME FanInv, Raised
  PROVE  FanInv'
  <1>1. /\ FanTypeOK /\ \A b \in Broker : BrokerInv(b)
        /\ fanout.pc = "send" /\ fanout' = [fanout EXCEPT !.pc = "closing"]
        /\ wire' = wire /\ cellBroker' = cellBroker /\ dirty' = dirty
        /\ client \in [Broker -> Clients]
    BY DEF FanInv, Raised, FanTypeOK
  <1>2. PICK cancelled \in SUBSET {b \in Broker : client[b].pc = "begin" /\ ~client[b].asked} :
          client' = [b \in Broker |->
            IF b \in cancelled THEN [client[b] EXCEPT !.pc = "raised"] ELSE client[b]]
    BY DEF Raised
  <1>3. ASSUME NEW b \in Broker
        PROVE  /\ client'[b] \in Clients /\ client'[b].staged = client[b].staged
               /\ client'[b].asked = client[b].asked /\ client'[b].usable = client[b].usable
               /\ client'[b].reply = client[b].reply
               /\ \/ client'[b].pc = client[b].pc
                  \/ client[b].pc = "begin" /\ ~client[b].asked /\ client'[b].pc = "raised"
    <2>1. CASE b \in cancelled
      <3>1. client'[b] = [client[b] EXCEPT !.pc = "raised"]
        BY <1>2, <2>1
      <3>2. client[b] \in Clients /\ client[b].pc = "begin" /\ ~client[b].asked
        BY <1>1, <1>2, <2>1
      <3>3. QED
        BY <3>1, <3>2 DEF Clients
    <2>2. CASE b \notin cancelled
      BY <1>1, <1>2, <2>2
    <2>3. QED
      BY <2>1, <2>2
  <1>4. client' \in [Broker -> Clients]
    BY <1>2, <1>3
  <1>5. /\ fanout' \in [pc : {"solve", "send", "closing", "failed", "killed"}, session : Nat,
                        iteration : 0 .. MaxUpdate]
        /\ fanout'.pc = "closing" /\ fanout'.iteration = fanout.iteration
        /\ fanout'.session = fanout.session
    BY <1>1 DEF FanTypeOK
  <1>6. FanTypeOK'
    BY <1>1, <1>4, <1>5 DEF FanTypeOK
  <1>7. /\ BatchId' = BatchId /\ Update' = Update /\ \A n : Copies(n)' = Copies(n)
        /\ \A type : RequestOf(type)' = RequestOf(type)
    BY <1>5 DEF BatchId, Update, Copies, RequestOf
  <1>8. ASSUME NEW b \in Broker PROVE BrokerInv(b)'
    <2>1. WireAt(b)'
      BY <1>1, <1>3, <1>7 DEF BrokerInv, WireAt
    <2>2. client'[b].pc # "idle"
      BY <1>1, <1>3 DEF BrokerInv, ClientAt
    <2>3. ClientAt(b)'
      BY <1>1, <1>3, <1>5, <2>2 DEF BrokerInv, ClientAt
    <2>4. StagedAt(b)'
      BY <1>1, <1>3, <1>7 DEF BrokerInv, StagedAt
    <2>5. ShownAt(b)'
      BY <1>1, <1>3, <1>5, <1>7 DEF BrokerInv, ShownAt
    <2>6. CleanAt(b)'
      <3>1. client[b].pc = "begin" /\ ~client[b].asked => client[b].reply = "none"
        BY <1>1 DEF BrokerInv, ClientAt
      <3>2. QED
        BY <1>1, <1>3, <1>5, <1>7, <3>1 DEF BrokerInv, CleanAt
    <2>7. QED
      BY <2>1, <2>3, <2>4, <2>5, <2>6 DEF BrokerInv
  <1>9. QED
    BY <1>6, <1>8 DEF FanInv

\* The bridge ends, by an error or by a kill: nothing but its own state, and
\* what its sockets had not sent, changes.
LEMMA BridgeEnds ==
  ASSUME FanInv, NEW end \in {"failed", "killed"}, fanout.pc \in {"solve", "send", "closing"},
         fanout' = [fanout EXCEPT !.pc = end],
         CloseSockets, client' = client, cellBroker' = cellBroker,
         end = "failed" => dirty' = dirty /\ Drained /\ fanout.pc = "closing",
         end = "killed" => dirty' = dirty \cup {b \in Broker : client[b].pc \in Asking}
  PROVE  FanInv'
  <1>1. FanTypeOK /\ \A b \in Broker : BrokerInv(b)
    BY DEF FanInv
  <1>2. /\ fanout' \in [pc : {"solve", "send", "closing", "failed", "killed"}, session : Nat,
                        iteration : 0 .. MaxUpdate]
        /\ fanout'.pc = end /\ fanout'.iteration = fanout.iteration
        /\ fanout'.session = fanout.session
    BY <1>1 DEF FanTypeOK
  <1>3. DOMAIN wire' = Broker /\ \A b \in Broker : wire'[b] \in {wire[b], << >>}
    BY DEF CloseSockets
  <1>4. FanTypeOK'
    BY <1>1, <1>2, <1>3 DEF FanTypeOK
  <1>5. /\ BatchId' = BatchId /\ Update' = Update /\ \A n : Copies(n)' = Copies(n)
        /\ \A type : RequestOf(type)' = RequestOf(type)
    BY <1>2 DEF BatchId, Update, Copies, RequestOf
  <1>6. ASSUME NEW b \in Broker PROVE BrokerInv(b)'
    <2>1. WireAt(b)'
      BY <1>1, <1>3, <1>5 DEF BrokerInv, WireAt
    <2>2. ClientAt(b)'
      BY <1>1, <1>2 DEF BrokerInv, ClientAt, Drained, Workers
    <2>3. StagedAt(b)'
      <3>1. wire'[b] = << RequestOf("commit") >> => wire[b] = << RequestOf("commit") >>
        BY <1>3
      <3>2. QED
        BY <1>1, <1>5, <3>1 DEF BrokerInv, StagedAt
    <2>4. ShownAt(b)'
      BY <1>1, <1>2, <1>5 DEF BrokerInv, ShownAt
    <2>5. CleanAt(b)'
      BY <1>1, <1>2, <1>5 DEF BrokerInv, CleanAt, Asking
    <2>6. QED
      BY <2>1, <2>2, <2>3, <2>4, <2>5 DEF BrokerInv
  <1>7. QED
    BY <1>4, <1>6 DEF FanInv

LEMMA BridgeStartsStep ==
  ASSUME FanInv, BridgeStarts
  PROVE  FanInv'
  <1> DEFINE n == NewControlClient
  <1>1. /\ FanTypeOK /\ \A b \in Broker : BrokerInv(b)
        /\ fanout.pc \in {"failed", "killed"} /\ \A b \in Broker : wire[b] = << >>
        /\ fanout' = [pc |-> "solve", session |-> fanout.session + 1, iteration |-> 0]
        /\ client' = [b \in Broker |-> n]
        /\ wire' = wire /\ cellBroker' = cellBroker /\ dirty' = dirty
    BY DEF FanInv, BridgeStarts
  <1>2. /\ n \in Clients /\ n.pc = "idle" /\ n.staged = 0 /\ ~n.asked /\ n.usable
        /\ n.reply = "none"
    BY NewClients
  <1>3. n = NewControlClient
    OBVIOUS
  <1> HIDE DEF n
  <1>4. /\ fanout' \in [pc : {"solve", "send", "closing", "failed", "killed"}, session : Nat,
                        iteration : 0 .. MaxUpdate]
        /\ fanout'.pc = "solve" /\ fanout'.iteration = 0
    <2>1. fanout.session + 1 \in Nat /\ 0 \in 0 .. MaxUpdate
      BY <1>1, FanoutAssumption DEF FanTypeOK
    <2>2. QED
      BY <1>1, <2>1
  <1>5. FanTypeOK'
    BY <1>1, <1>2, <1>4 DEF FanTypeOK
  <1>6. ASSUME NEW b \in Broker PROVE BrokerInv(b)'
    <2>1. client'[b] = n /\ wire'[b] = << >> /\ cellBroker'[b] = cellBroker[b]
      BY <1>1
    <2>2. WireAt(b)'
      BY <2>1 DEF WireAt
    <2>3. ClientAt(b)'
      BY <1>2, <1>3, <1>4, <2>1 DEF ClientAt
    <2>4. StagedAt(b)'
      BY <1>2, <2>1 DEF StagedAt
    <2>5. ShownAt(b)'
      BY <1>1, <1>2, <1>4, <2>1 DEF BrokerInv, ShownAt
    <2>6. CleanAt(b)'
      <3>1. client[b] \in Clients
        BY <1>1, FanTypes
      <3>2. b \notin dirty => DOMAIN cellBroker[b].open = {}
        BY <1>1, <3>1 DEF BrokerInv, CleanAt, ClientAt, Clients, Asking
      <3>3. QED
        BY <1>1, <1>2, <1>4, <2>1, <3>2 DEF CleanAt
    <2>7. QED
      BY <2>2, <2>3, <2>4, <2>5, <2>6 DEF BrokerInv
  <1>7. QED
    BY <1>5, <1>6 DEF FanInv

LEMMA FanStep == FanInv /\ [FanNext]_fanVars => FanInv'
  <1> SUFFICES ASSUME FanInv, [FanNext]_fanVars PROVE FanInv'
    OBVIOUS
  <1>1. CASE UNCHANGED fanVars
    <2>1. fanout' = fanout /\ client' = client /\ wire' = wire /\ cellBroker' = cellBroker
          /\ dirty' = dirty
      BY <1>1 DEF fanVars
    <2>2. FanTypeOK'
      BY <2>1 DEF FanInv, FanTypeOK, CellOK
    <2>3. \A b \in Broker : BrokerInv(b)'
      BY <2>1, FanElsewhere DEF FanInv, FanUntouched
    <2>4. QED
      BY <2>2, <2>3 DEF FanInv
  <1>2. CASE Dispatch \/ Joined \/ Raised \/ BridgeStarts
    BY <1>2, DispatchStep, JoinedStep, RaisedStep, BridgeStartsStep
  <1>3. CASE CloseClients
    BY <1>3, BridgeEnds DEF CloseClients
  <1>4. CASE BridgeKilled
    BY <1>4, BridgeEnds DEF BridgeKilled, Asking
  <1>5. ASSUME NEW b \in Broker,
               \/ SendRequest(b) \/ ReceiveReply(b) \/ RequestTimeout(b)
               \/ Serve(b) \/ BrokerDies(b) \/ BrokerStarts(b)
        PROVE  FanInv'
    BY <1>5, SendRequestStep, ReceiveReplyStep, RequestTimeoutStep, ServeStep, BrokerDiesStep,
       BrokerStartsStep
  <1>6. QED
    BY <1>1, <1>2, <1>3, <1>4, <1>5 DEF FanNext

\* The invariant that carries the fan-out: at every broker at most one request of
\* the update in hand is on the wire, the batch it opened holds what its client
\* staged, and a broker that no bridge gave up on has no other batch open.
THEOREM FanInvariant == FanSpec => []FanInv
  BY FanInitInv, FanStep, PTL DEF FanSpec

\* An update reaches every cell whole or the bridge ends: send_fanout goes on to
\* the next update only when every broker has committed, no broker commits a batch
\* that mixes updates although a restarted bridge uses the same batch ids again, a
\* failing bridge has no request under way, and a batch is refused only where an
\* earlier one was given up.
THEOREM UpdatesReachWhole == FanSpec => []UpdatesWhole
  <1>1. FanInv => UpdatesWhole
    <2> SUFFICES ASSUME FanInv PROVE UpdatesWhole
      OBVIOUS
    <2>1. CellsTogether
      BY DEF FanInv, BrokerInv, ShownAt, CellsTogether
    <2>2. WholeBatch
      BY DEF FanInv, BrokerInv, ShownAt, WholeBatch
    <2>3. FailsQuietly
      BY DEF FanInv, BrokerInv, ClientAt, FailsQuietly, Workers
    <2>4. RefusedOnlyDirty
      BY DEF FanInv, BrokerInv, CleanAt, RefusedOnlyDirty
    <2>5. QED
      BY <2>1, <2>2, <2>3, <2>4 DEF UpdatesWhole
  <1>2. QED
    BY <1>1, FanInvariant, PTL

(***************************************************************************)
(* The metrics subscription (MetricsFeed).                                 *)
(***************************************************************************)

LEMMA FeedConstants ==
  /\ IdleSeconds \in Nat \ {0} /\ PongSeconds \in Nat \ {0} /\ StaleSeconds \in Nat \ {0}
  /\ MaxBackoff \in Nat \ {0} /\ MaxClock \in Nat \ {0} /\ MaxMessage \in Nat \ {0}
  /\ MaxConn \in Nat \ {0}
  BY FeedAssumption

LEMMA SmallerOfTwo ==
  ASSUME NEW a \in Int, NEW b \in Int
  PROVE  Min({a, b}) = IF a <= b THEN a ELSE b
  <1> DEFINE m == IF a <= b THEN a ELSE b
  <1>1. m \in {a, b} /\ \A y \in {a, b} : m <= y
    OBVIOUS
  <1>2. \A x \in {a, b} : (\A y \in {a, b} : x <= y) => x = m
    OBVIOUS
  <1>3. QED
    BY <1>1, <1>2 DEF Min

LEMMA AppendOne == \A y : Append(<< >>, y) = << y >> /\ Append(<< y >>, y) = << y, y >>
  <1> TAKE y
  <1>1. << >> \in Seq({y}) /\ << y >> \in Seq({y}) /\ << y, y >> \in Seq({y})
    OBVIOUS
  <1>2. Append(<< >>, y) = << y >>
    BY <1>1
  <1>3. Append(<< y >>, y) = << y, y >>
    <2> DEFINE s == Append(<< y >>, y)
               t == << y, y >>
    <2>1. s \in Seq({y}) /\ t \in Seq({y}) /\ Len(s) = 2 /\ Len(t) = 2
      BY <1>1
    <2>2. s[1] = y /\ s[2] = y /\ t[1] = y /\ t[2] = y
      BY <1>1
    <2> HIDE DEF s, t
    <2>3. \A i \in 1 .. Len(s) : s[i] = t[i]
      BY <2>1, <2>2
    <2>4. s = t
      BY <2>1, <2>3, SameSequence
    <2>5. QED
      BY <2>4 DEF s, t
  <1>4. QED
    BY <1>2, <1>3

\* What the type says, with the bounds of the clock.
LEMMA FeedTypes ==
  ASSUME FeedRecords
  PROVE  /\ gnb \in GnbType /\ conn \in ConnType /\ loop \in LoopType /\ feed \in FeedType
         /\ mclock \in Nat /\ conn.last \in Nat /\ conn.last <= mclock /\ stop \in BOOLEAN
         /\ mclock \in 0 .. MaxClock /\ conn.id \in 0 .. MaxConn /\ conn.deadline \in Nat
         /\ loop.backoff \in 1 .. MaxBackoff /\ loop.until \in Nat
         /\ feed.ueSeen \in Int /\ feed.seen \in Int
         /\ -1 <= feed.ueSeen /\ feed.ueSeen <= feed.seen /\ feed.seen <= mclock
         /\ conn.ping \in BOOLEAN /\ conn.polled \in BOOLEAN
  BY FeedConstants DEF FeedRecords, FeedTypeOK, ConnType, LoopType, FeedType

LEMMA SetStateFacts ==
  ASSUME FeedRecords, NEW state \in {"connecting", "subscribed", "connected", "disconnected"}
  PROVE  /\ SetState(state) \in FeedType
         /\ SetState(state).seen = feed.seen /\ SetState(state).ueSeen = feed.ueSeen
         /\ SetState(state).table = feed.table /\ SetState(state).conn = feed.conn
         /\ SetState(state).state = state
         /\ SetState(state).current => feed.current
         /\ state \in {"connecting", "disconnected"} => ~SetState(state).current
  <1>1. feed \in FeedType
    BY FeedTypes
  <1> DEFINE k == IF state \in {"connecting", "disconnected"} THEN FALSE ELSE feed.current
  <1>2. k \in BOOLEAN /\ (k => feed.current)
    BY <1>1 DEF FeedType
  <1>3. SetState(state) = [feed EXCEPT !.state = state, !.current = k]
    BY DEF SetState
  <1>4. state \in {"connecting", "disconnected"} => ~k
    OBVIOUS
  <1> HIDE DEF k
  <1>5. QED
    BY <1>1, <1>2, <1>3, <1>4 DEF FeedType

\* The parts of the invariant that a step leaves alone.
LEMMA MessagesKept ==
  ASSUME MessagesUnderWay, conn'.wire = conn.wire, conn'.partial = conn.partial,
         conn'.got = conn.got, gnb'.half = gnb.half, gnb'.sent = gnb.sent,
         gnb'.onConn = gnb.onConn
  PROVE  MessagesUnderWay'
  BY DEF MessagesUnderWay, FrameUnderWay, InHand

LEMMA SilenceKept ==
  ASSUME SilenceWatched, loop'.pc = "read" => loop.pc = "read", mclock' = mclock,
         conn'.ping = conn.ping, conn'.polled = conn.polled, conn'.last = conn.last,
         conn'.deadline = conn.deadline
  PROVE  SilenceWatched'
  BY DEF SilenceWatched

LEMMA FeedInitInv == FeedInit => FeedInv
  <1> SUFFICES ASSUME FeedInit PROVE FeedInv
    OBVIOUS
  <1> USE FeedConstants
  <1> DEFINE c == NewClient(0)
  <1>1. c \in ConnType /\ c.wire = << >> /\ c.partial = << >> /\ c.got = << >> /\ c.last = 0
    BY DEF FeedInit, NewClient, ConnType
  <1>2. conn = [c EXCEPT !.peer = "closed"]
    BY DEF FeedInit
  <1> HIDE DEF c
  <1>3. /\ conn \in ConnType /\ conn.wire = << >> /\ conn.partial = << >> /\ conn.got = << >>
        /\ conn.last = 0
    BY <1>1, <1>2 DEF ConnType
  <1>4. gnb \in GnbType /\ gnb.onConn = << >> /\ ~gnb.half
    BY DEF FeedInit, GnbType
  <1>5. loop \in LoopType /\ loop.pc = "start"
    BY DEF FeedInit, LoopType
  <1>6. feed \in FeedType /\ ~feed.current /\ feed.table = 0 /\ feed.seen = -1 /\ feed.ueSeen = -1
    BY DEF FeedInit, FeedType
  <1>7. mclock = 0 /\ stop = FALSE
    BY DEF FeedInit
  <1>8. FeedRecords
    <2>1. conn.id \in 0 .. MaxConn
      BY <1>3 DEF ConnType
    <2>2. loop.backoff \in 1 .. MaxBackoff
      BY <1>5 DEF LoopType
    <2>3. feed.state \in {"connecting", "subscribed", "connected", "disconnected"}
      BY <1>6 DEF FeedType
    <2>4. mclock \in 0 .. MaxClock
      BY <1>7
    <2>5. feed.ueSeen \in -1 .. feed.seen /\ feed.seen \in -1 .. mclock
      BY <1>6, <1>7
    <2>6. FeedTypeOK
      BY <1>5, <2>1, <2>2, <2>3, <2>4, <2>5 DEF FeedTypeOK
    <2>7. conn.last <= mclock /\ stop \in BOOLEAN
      <3>1. conn.last <= mclock
        BY <1>3, <1>7
      <3>2. stop \in BOOLEAN
        BY <1>7
      <3>3. QED
        BY <3>1, <3>2
    <2>8. QED
      BY <1>3, <1>4, <1>5, <1>6, <2>6, <2>7 DEF FeedRecords
  <1>9. TableHeld /\ MessagesUnderWay /\ SilenceWatched
    BY <1>3, <1>4, <1>5, <1>6 DEF TableHeld, MessagesUnderWay, InHand, SilenceWatched
  <1>10. QED
    BY <1>8, <1>9 DEF FeedInv

\* The turn of the loop ends: what was shown is no longer current.
LEMMA DisconnectStep ==
  ASSUME FeedInv, Disconnect, conn' = conn, gnb' = gnb, mclock' = mclock, stop' = stop
  PROVE  FeedInv'
  <1>1. FeedRecords /\ TableHeld /\ MessagesUnderWay /\ SilenceWatched
    BY DEF FeedInv
  <1>2. /\ feed' \in FeedType /\ feed'.seen = feed.seen /\ feed'.ueSeen = feed.ueSeen
        /\ feed'.table = feed.table /\ ~feed'.current
    BY <1>1, SetStateFacts DEF Disconnect
  <1>3. loop' \in LoopType /\ loop'.pc = "backoff"
    <2> DEFINE m == Min({2 * loop.backoff, MaxBackoff})
               u == mclock + loop.backoff
    <2>1. loop.backoff \in 1 .. MaxBackoff /\ MaxBackoff \in Nat \ {0} /\ mclock \in Nat
      BY <1>1, FeedTypes, FeedConstants
    <2>2. m \in 1 .. MaxBackoff /\ u \in Nat
      <3>1. 2 * loop.backoff \in Int /\ MaxBackoff \in Int
        BY <2>1
      <3>2. m = IF 2 * loop.backoff <= MaxBackoff THEN 2 * loop.backoff ELSE MaxBackoff
        BY <3>1, SmallerOfTwo
      <3>3. QED
        BY <2>1, <3>2
    <2>3. loop' = [pc |-> "backoff", until |-> u, backoff |-> m]
      BY DEF Disconnect
    <2> HIDE DEF m, u
    <2>4. QED
      BY <2>2, <2>3 DEF LoopType
  <1>4. FeedRecords'
    BY <1>1, <1>2, <1>3 DEF FeedRecords, FeedTypeOK, LoopType, FeedType
  <1>5. TableHeld' /\ SilenceWatched'
    BY <1>1, <1>2, <1>3 DEF TableHeld, SilenceWatched
  <1>6. MessagesUnderWay'
    BY <1>1, MessagesKept
  <1>7. QED
    BY <1>4, <1>5, <1>6 DEF FeedInv

LEMMA ConnectingStep ==
  ASSUME FeedInv, Connecting
  PROVE  FeedInv'
  <1>1. /\ FeedRecords /\ TableHeld /\ MessagesUnderWay /\ SilenceWatched
        /\ loop.pc = "start" /\ conn' = conn /\ gnb' = gnb /\ mclock' = mclock /\ stop' = stop
        /\ loop \in LoopType
    BY FeedTypes DEF FeedInv, Connecting
  <1>2. loop' \in LoopType /\ loop'.pc # "read"
    BY <1>1 DEF Connecting, LoopType
  <1>3. /\ feed' \in FeedType /\ feed'.seen = feed.seen /\ feed'.ueSeen = feed.ueSeen
        /\ feed'.table = feed.table /\ ~feed'.current
    <2>1. ~feed.current /\ feed \in FeedType
      BY <1>1, FeedTypes DEF TableHeld
    <2>2. QED
      BY <1>1, <2>1, SetStateFacts DEF Connecting
  <1>4. FeedRecords'
    BY <1>1, <1>2, <1>3 DEF FeedRecords, FeedTypeOK, LoopType, FeedType
  <1>5. TableHeld' /\ SilenceWatched'
    BY <1>1, <1>2, <1>3 DEF TableHeld, SilenceWatched
  <1>6. MessagesUnderWay'
    BY <1>1, MessagesKept
  <1>7. QED
    BY <1>4, <1>5, <1>6 DEF FeedInv

LEMMA DialStep ==
  ASSUME FeedInv, Dial
  PROVE  FeedInv'
  <1>1. /\ FeedRecords /\ TableHeld /\ MessagesUnderWay /\ SilenceWatched
        /\ loop.pc = "dial" /\ mclock' = mclock /\ stop' = stop
    BY DEF FeedInv, Dial
  <1>2. ASSUME gnb.up /\ conn.id < MaxConn PROVE FeedInv'
    <2>1. /\ conn' = NewClient(conn.id + 1)
          /\ gnb' = [gnb EXCEPT !.half = FALSE, !.onConn = << >>]
          /\ loop' = [loop EXCEPT !.pc = "read", !.backoff = 1]
          /\ feed' = SetState("subscribed")
      BY <1>2 DEF Dial
    <2>2. /\ conn' \in ConnType /\ conn'.wire = << >> /\ conn'.partial = << >>
          /\ conn'.got = << >> /\ conn'.last = mclock /\ ~conn'.ping /\ ~conn'.polled
      <3>1. conn.id + 1 \in 0 .. MaxConn /\ mclock \in Nat
        BY <1>1, <1>2, FeedTypes, FeedConstants
      <3>2. QED
        BY <2>1, <3>1 DEF NewClient, ConnType
    <2>3. gnb' \in GnbType /\ ~gnb'.half /\ gnb'.onConn = << >>
      <3>1. gnb \in GnbType
        BY <1>1, FeedTypes
      <3> DEFINE e == << >>
      <3>2. e \in Seq(Seq(Nat)) /\ e = << >>
        OBVIOUS
      <3>3. gnb' = [gnb EXCEPT !.half = FALSE, !.onConn = e]
        BY <2>1
      <3> HIDE DEF e
      <3>4. QED
        BY <3>1, <3>2, <3>3 DEF GnbType
    <2>4. loop' \in LoopType /\ loop'.pc = "read"
      <3>1. loop \in LoopType /\ 1 \in 1 .. MaxBackoff
        BY <1>1, FeedTypes, FeedConstants
      <3> DEFINE one == 1
      <3>2. loop' = [loop EXCEPT !.pc = "read", !.backoff = one] /\ one \in 1 .. MaxBackoff
        BY <2>1, <3>1
      <3> HIDE DEF one
      <3>3. QED
        BY <3>1, <3>2 DEF LoopType
    <2>5. /\ feed' \in FeedType /\ feed'.seen = feed.seen /\ feed'.ueSeen = feed.ueSeen
          /\ feed'.table = feed.table /\ ~feed'.current
      BY <1>1, <2>1, SetStateFacts DEF TableHeld
    <2>6. FeedRecords'
      <3>1. mclock \in Nat
        BY <1>1, FeedTypes
      <3>2. QED
        BY <1>1, <2>2, <2>3, <2>4, <2>5, <3>1 DEF FeedRecords, FeedTypeOK, LoopType, FeedType, ConnType
    <2>7. TableHeld' /\ MessagesUnderWay'
      BY <1>1, <2>2, <2>3, <2>5 DEF TableHeld, MessagesUnderWay, InHand
    <2>8. SilenceWatched'
      BY <1>1, <2>2, FeedConstants, FeedTypes DEF SilenceWatched
    <2>9. QED
      BY <2>6, <2>7, <2>8 DEF FeedInv
  <1>3. ASSUME ~(gnb.up /\ conn.id < MaxConn) PROVE FeedInv'
    BY <1>1, <1>3, DisconnectStep DEF Dial
  <1>4. QED
    BY <1>2, <1>3

\* _check_liveness leaves the client as it is, or sends a ping.
LEMMA CheckedFacts ==
  ASSUME FeedRecords
  PROVE  /\ Checked \in ConnType /\ Checked.id = conn.id /\ Checked.wire = conn.wire
         /\ Checked.partial = conn.partial /\ Checked.got = conn.got
         /\ Checked.last = conn.last /\ Checked.polled = conn.polled
         /\ IF Liveness = "ping" THEN Checked.ping /\ Checked.deadline = mclock + PongSeconds
            ELSE Checked.ping = conn.ping /\ Checked.deadline = conn.deadline
  <1>1. conn \in ConnType /\ mclock \in Nat
    BY FeedTypes
  <1> DEFINE d == mclock + PongSeconds
  <1>2. d \in Nat
    BY <1>1, FeedConstants
  <1>3. Liveness = "ping" => Checked = [conn EXCEPT !.ping = TRUE, !.unsent = TRUE, !.deadline = d]
    BY DEF Checked
  <1>4. Liveness # "ping" => Checked = conn
    BY DEF Checked
  <1> HIDE DEF d
  <1>5. CASE Liveness = "ping"
    <2>1. /\ Checked \in ConnType /\ Checked.id = conn.id /\ Checked.wire = conn.wire
          /\ Checked.partial = conn.partial /\ Checked.got = conn.got
          /\ Checked.last = conn.last /\ Checked.polled = conn.polled
          /\ Checked.ping /\ Checked.deadline = d
      <3> DEFINE c1 == [conn EXCEPT !.ping = TRUE]
      <3>1. /\ c1 \in ConnType /\ c1.id = conn.id /\ c1.wire = conn.wire
            /\ c1.partial = conn.partial /\ c1.got = conn.got
            /\ c1.last = conn.last /\ c1.polled = conn.polled /\ c1.ping
        BY <1>1 DEF ConnType
      <3> DEFINE c2 == [c1 EXCEPT !.unsent = TRUE]
      <3>2. Checked = [c2 EXCEPT !.deadline = d]
        BY <1>3, <1>5
      <3> HIDE DEF c1
      <3>3. /\ c2 \in ConnType /\ c2.id = c1.id /\ c2.wire = c1.wire
            /\ c2.partial = c1.partial /\ c2.got = c1.got
            /\ c2.last = c1.last /\ c2.polled = c1.polled /\ c2.ping = c1.ping
        BY <3>1 DEF ConnType
      <3> HIDE DEF c2
      <3>4. QED
        BY <1>2, <3>1, <3>2, <3>3 DEF ConnType
    <2>2. QED
      BY <1>5, <2>1 DEF d
  <1>6. CASE Liveness # "ping"
    BY <1>1, <1>4, <1>6
  <1>7. QED
    BY <1>5, <1>6

\* What the client knows of time after _check_liveness found nothing wrong.
LEMMA CheckedInTime ==
  ASSUME FeedRecords, SilenceWatched, loop.pc = "read", ~Alarm
  PROVE  IF Checked.ping
         THEN mclock <= Checked.deadline /\ Checked.deadline <= conn.last + IdleSeconds + PongSeconds
         ELSE mclock - conn.last < IdleSeconds
  <1>1. /\ mclock \in Nat /\ conn.last \in Nat /\ conn.last <= mclock
        /\ conn.deadline \in Nat /\ IdleSeconds \in Nat /\ PongSeconds \in Nat
    BY FeedTypes, FeedConstants
  <1>2. IF Liveness = "ping" THEN Checked.ping /\ Checked.deadline = mclock + PongSeconds
        ELSE Checked.ping = conn.ping /\ Checked.deadline = conn.deadline
    BY CheckedFacts
  <1>3. ~stop
    BY DEF Alarm, Liveness
  <1>4. CASE conn.ping
    <2>1. Liveness # "ping"
      BY <1>3, <1>4 DEF Liveness
    <2>2. QED
      BY <1>1, <1>2, <1>4, <2>1 DEF SilenceWatched
  <1>5. CASE ~conn.ping
    <2>1. mclock - conn.last <= IdleSeconds
      BY <1>5 DEF SilenceWatched
    <2>2. CASE Liveness = "ping"
      BY <1>1, <1>2, <2>1, <2>2
    <2>3. CASE Liveness # "ping"
      <3>1. ~(mclock - conn.last >= IdleSeconds)
        BY <1>3, <1>5, <2>3 DEF Liveness
      <3>2. QED
        BY <1>1, <1>2, <1>5, <2>3, <3>1
    <2>4. QED
      BY <2>2, <2>3
  <1>6. QED
    BY <1>4, <1>5

LEMMA PollTimeoutStep ==
  ASSUME FeedInv, PollTimeout
  PROVE  FeedInv'
  <1>1. /\ FeedRecords /\ TableHeld /\ MessagesUnderWay /\ SilenceWatched
        /\ loop.pc = "read" /\ mclock' = mclock /\ stop' = stop /\ gnb' = gnb
    BY DEF FeedInv, PollTimeout
  <1>2. ASSUME Disconnect, conn' = conn PROVE FeedInv'
    BY <1>1, <1>2, DisconnectStep
  <1>3. ASSUME ~Alarm, conn' = [Checked EXCEPT !.polled = TRUE], feed' = feed, loop' = loop
        PROVE  FeedInv'
    <2>1. /\ Checked \in ConnType /\ Checked.id = conn.id /\ Checked.wire = conn.wire
          /\ Checked.partial = conn.partial /\ Checked.got = conn.got /\ Checked.last = conn.last
      BY <1>1, CheckedFacts
    <2>2. /\ conn' \in ConnType /\ conn'.id = conn.id /\ conn'.wire = conn.wire
          /\ conn'.partial = conn.partial /\ conn'.got = conn.got /\ conn'.last = conn.last
          /\ conn'.polled /\ conn'.ping = Checked.ping /\ conn'.deadline = Checked.deadline
      BY <1>3, <2>1 DEF ConnType
    <2>3. FeedRecords'
      BY <1>1, <1>3, <2>2 DEF FeedRecords, FeedTypeOK
    <2>4. TableHeld'
      BY <1>1, <1>3, <2>2 DEF TableHeld
    <2>5. MessagesUnderWay'
      BY <1>1, <2>2, MessagesKept
    <2>6. SilenceWatched'
      <3>1. IF Checked.ping
            THEN mclock <= Checked.deadline
                 /\ Checked.deadline <= conn.last + IdleSeconds + PongSeconds
            ELSE mclock - conn.last < IdleSeconds
        BY <1>1, <1>3, CheckedInTime
      <3>2. mclock \in Nat /\ conn.last \in Nat /\ IdleSeconds \in Nat
        BY <1>1, FeedTypes, FeedConstants
      <3>3. QED
        BY <1>1, <2>2, <3>1, <3>2 DEF SilenceWatched
    <2>7. QED
      BY <2>3, <2>4, <2>5, <2>6 DEF FeedInv
  <1>4. QED
    BY <1>2, <1>3 DEF PollTimeout

\* One frame is read: a message that is whole reaches the store, in order.
LEMMA ReadFrameStep ==
  ASSUME FeedInv, ReadFrame
  PROVE  FeedInv'
  <1> DEFINE f == Head(conn.wire)
             whole == f.op = "data" /\ f.fin
  <1>1. /\ FeedRecords /\ TableHeld /\ MessagesUnderWay /\ SilenceWatched
        /\ loop.pc = "read" /\ mclock' = mclock /\ stop' = stop /\ gnb' = gnb
        /\ conn.wire # << >>
    BY DEF FeedInv, ReadFrame
  <1>2. ASSUME Disconnect, conn' = conn PROVE FeedInv'
    BY <1>1, <1>2, DisconnectStep
  <1> DEFINE c == [Checked EXCEPT !.wire = Tail(@), !.last = mclock]
             parts == Reassembled(c, f)
             partial == IF whole THEN << >> ELSE parts
             ping == c.ping /\ f.op # "pong"
             got == IF whole THEN Append(c.got, parts) ELSE c.got
  <1>3. ASSUME ~Alarm, f.op # "close",
               conn' = [c EXCEPT !.partial = partial, !.ping = ping, !.got = got],
               feed' = IF whole /\ f.kind # "noise" THEN UpdateGnbMetrics(f) ELSE feed,
               loop' = loop
        PROVE  FeedInv'
    <2>1. /\ conn \in ConnType /\ mclock \in Nat /\ conn.last \in Nat /\ conn.last <= mclock
          /\ feed \in FeedType /\ gnb \in GnbType /\ IdleSeconds \in Nat \ {0} /\ PongSeconds \in Nat
          /\ feed.ueSeen <= feed.seen /\ feed.seen <= mclock /\ -1 <= feed.ueSeen
      BY <1>1, FeedTypes, FeedConstants
    <2>2. /\ conn.wire = << f >> /\ f \in Frames /\ Tail(conn.wire) = << >>
          /\ FrameUnderWay(f)
      <3>1. Len(conn.wire) = 1 /\ FrameUnderWay(conn.wire[1]) /\ conn.wire \in Seq(Frames)
        BY <1>1, <2>1 DEF MessagesUnderWay, ConnType
      <3>2. Head(conn.wire) = conn.wire[1] /\ conn.wire[1] \in Frames
        BY <3>1
      <3>3. conn.wire = << conn.wire[1] >>
        BY <3>1
      <3>4. Tail(conn.wire) = << >>
        <4>1. PICK x : conn.wire = << x >>
          BY <3>3
        <4>2. QED
          BY <4>1
      <3>5. QED
        BY <3>1, <3>2, <3>3, <3>4
    <2>3. /\ c \in ConnType /\ c.id = conn.id /\ c.wire = << >> /\ c.partial = conn.partial
          /\ c.got = conn.got /\ c.last = mclock /\ c.polled = conn.polled
          /\ c.ping = Checked.ping /\ c.deadline = Checked.deadline
      <3>1. /\ Checked \in ConnType /\ Checked.id = conn.id /\ Checked.wire = conn.wire
            /\ Checked.partial = conn.partial /\ Checked.got = conn.got
            /\ Checked.polled = conn.polled
        BY <1>1, CheckedFacts
      <3> DEFINE none == << >>
      <3>2. none \in Seq(Frames) /\ none = << >>
        OBVIOUS
      <3>3. c = [Checked EXCEPT !.wire = none, !.last = mclock]
        BY <2>2, <3>1
      <3> HIDE DEF none
      <3>4. QED
        BY <2>1, <3>1, <3>2, <3>3 DEF ConnType
    <2> HIDE DEF c
    <2>4. /\ parts = IF f.op = "pong" THEN conn.partial ELSE Append(conn.partial, f.id)
          /\ parts \in Seq(Nat)
      <3>1. conn.partial \in Seq(Nat) /\ f.id \in Nat /\ f.op \in {"data", "pong", "close"}
        BY <2>1, <2>2 DEF ConnType, Frames
      <3>2. parts = IF f.op = "pong" THEN conn.partial ELSE Append(conn.partial, f.id)
        BY <2>3, <3>1 DEF Reassembled
      <3> HIDE DEF f, parts
      <3>3. Append(conn.partial, f.id) \in Seq(Nat)
        BY <3>1
      <3>4. QED
        BY <3>1, <3>2, <3>3
    <2> HIDE DEF parts
    <2>5. /\ partial \in Seq(Nat) /\ got \in Seq(Seq(Nat)) /\ ping \in BOOLEAN
      <3>1. c.got \in Seq(Seq(Nat)) /\ c.ping \in BOOLEAN
        BY <2>3 DEF ConnType
      <3>2. << >> \in Seq(Nat) /\ Append(c.got, parts) \in Seq(Seq(Nat))
        BY <2>4, <3>1
      <3>3. QED
        BY <2>4, <3>1, <3>2
    <2>6. /\ partial = (IF whole THEN << >> ELSE parts) /\ ping = (c.ping /\ f.op # "pong")
          /\ got = IF whole THEN Append(c.got, parts) ELSE c.got
      OBVIOUS
    <2> HIDE DEF partial, got, ping
    <2>7. /\ conn' \in ConnType /\ conn'.id = conn.id /\ conn'.wire = << >>
          /\ conn'.partial = partial /\ conn'.got = got /\ conn'.ping = ping
          /\ conn'.last = mclock /\ conn'.deadline = Checked.deadline
      <3> DEFINE c1 == [c EXCEPT !.partial = partial]
      <3>1. /\ c1 \in ConnType /\ c1.id = c.id /\ c1.wire = c.wire /\ c1.partial = partial
            /\ c1.last = c.last /\ c1.deadline = c.deadline
        BY <2>3, <2>5 DEF ConnType
      <3> DEFINE c2 == [c1 EXCEPT !.ping = ping]
      <3>2. conn' = [c2 EXCEPT !.got = got]
        BY <1>3
      <3> HIDE DEF c1
      <3>3. /\ c2 \in ConnType /\ c2.id = c1.id /\ c2.wire = c1.wire /\ c2.partial = c1.partial
            /\ c2.last = c1.last /\ c2.deadline = c1.deadline /\ c2.ping = ping
        BY <2>5, <3>1 DEF ConnType
      <3> HIDE DEF c2
      <3>4. QED
        BY <2>3, <2>5, <3>1, <3>2, <3>3 DEF ConnType
    <2>8. /\ feed' \in FeedType
          /\ feed'.ueSeen \in -1 .. feed'.seen /\ feed'.seen \in -1 .. mclock
          /\ feed'.current => feed'.conn = conn.id
          /\ feed'.table # 0 => feed'.ueSeen # -1
      <3>1. CASE whole /\ f.kind # "noise"
        <4> DEFINE heard == [feed EXCEPT !.state = "connected", !.seen = mclock]
        <4>0. feed \in FeedType /\ mclock \in Int
          BY <2>1
        <4>1. /\ heard \in FeedType /\ heard.ueSeen = feed.ueSeen /\ heard.seen = mclock
              /\ heard.current = feed.current /\ heard.table = feed.table
              /\ heard.conn = feed.conn
          <5> DEFINE h == [feed EXCEPT !.state = "connected"]
          <5>1. /\ h \in FeedType /\ h.ueSeen = feed.ueSeen /\ h.current = feed.current
                /\ h.table = feed.table /\ h.conn = feed.conn
            BY <4>0 DEF FeedType
          <5>2. heard = [h EXCEPT !.seen = mclock]
            OBVIOUS
          <5> HIDE DEF h, heard
          <5>3. QED
            BY <4>0, <5>1, <5>2 DEF FeedType
        <4>2. feed' = IF f.kind = "scheduler"
                      THEN [heard EXCEPT !.table = f.id, !.conn = conn.id, !.ueSeen = mclock,
                                         !.current = TRUE]
                      ELSE heard
          BY <1>3, <3>1 DEF UpdateGnbMetrics
        <4> HIDE DEF heard
        <4>3. conn.id \in Nat /\ f.id \in Nat /\ mclock \in Int
          BY <2>1, <2>2, FeedConstants DEF ConnType, Frames
        <4>4. CASE f.kind = "scheduler"
          <5> DEFINE h1 == [heard EXCEPT !.table = f.id, !.conn = conn.id]
          <5>1. h1 \in FeedType /\ h1.conn = conn.id /\ h1.seen = heard.seen
            BY <4>1, <4>3 DEF FeedType
          <5>2. feed' = [h1 EXCEPT !.ueSeen = mclock, !.current = TRUE]
            BY <4>2, <4>4
          <5> HIDE DEF h1
          <5>3. /\ feed' \in FeedType /\ feed'.conn = conn.id /\ feed'.seen = mclock
                /\ feed'.ueSeen = mclock
            BY <4>1, <4>3, <5>1, <5>2 DEF FeedType
          <5>4. QED
            BY <2>1, <5>3
        <4>5. CASE f.kind # "scheduler"
          <5>1. feed' = heard
            BY <4>2, <4>5
          <5>2. feed.ueSeen \in Int /\ feed.seen \in Int
            BY <2>1 DEF FeedType
          <5>3. QED
            BY <1>1, <2>1, <4>1, <5>1, <5>2 DEF TableHeld
        <4>6. QED
          BY <4>4, <4>5
      <3>2. CASE ~(whole /\ f.kind # "noise")
        <4>1. feed' = feed
          BY <1>3, <3>2
        <4>2. QED
          BY <1>1, <2>1, <4>1 DEF TableHeld, FeedRecords, FeedTypeOK
      <3>3. QED
        BY <3>1, <3>2
    <2>9. FeedRecords'
      <3>1. conn'.id \in 0 .. MaxConn /\ feed'.state \in {"connecting", "subscribed", "connected", "disconnected"}
        BY <2>7, <2>8 DEF ConnType, FeedType
      <3>2. QED
        BY <1>1, <1>3, <2>1, <2>7, <2>8, <3>1 DEF FeedRecords, FeedTypeOK
    <2>10. TableHeld'
      BY <1>1, <1>3, <2>7, <2>8 DEF TableHeld
    <2>11. MessagesUnderWay'
      <3>1. f.op \in {"data", "pong"} /\ f.fin \in BOOLEAN
        BY <1>3, <2>2 DEF Frames
      <3>2. CASE whole
        <4>1. gnb.onConn = Append(conn.got, Append(conn.partial, f.id)) /\ ~gnb.half
          BY <2>2, <3>2 DEF FrameUnderWay
        <4>2. conn'.got = gnb.onConn /\ conn'.partial = << >>
          BY <2>3, <2>4, <2>6, <2>7, <3>2, <4>1
        <4>3. QED
          BY <1>1, <2>7, <4>1, <4>2 DEF MessagesUnderWay, InHand
      <3>3. CASE f.op = "data" /\ ~f.fin
        <4>1. gnb.onConn = conn.got /\ conn.partial = << >> /\ gnb.half /\ f.id = gnb.sent
          BY <2>2, <3>3 DEF FrameUnderWay
        <4>2. conn'.got = gnb.onConn /\ conn'.partial = << gnb.sent >>
          BY <2>3, <2>4, <2>6, <2>7, <3>3, <4>1
        <4>3. QED
          BY <1>1, <2>7, <4>1, <4>2 DEF MessagesUnderWay, InHand
      <3>4. CASE f.op = "pong"
        <4>1. gnb.onConn = conn.got /\ InHand
          BY <2>2, <3>4 DEF FrameUnderWay
        <4>2. conn'.got = conn.got /\ conn'.partial = conn.partial
          BY <2>3, <2>4, <2>6, <2>7, <3>4
        <4>3. QED
          BY <1>1, <2>7, <4>1, <4>2 DEF MessagesUnderWay, InHand
      <3>5. QED
        BY <3>1, <3>2, <3>3, <3>4
    <2>12. SilenceWatched'
      <3>1. IF Checked.ping
            THEN mclock <= Checked.deadline
                 /\ Checked.deadline <= conn.last + IdleSeconds + PongSeconds
            ELSE mclock - conn.last < IdleSeconds
        BY <1>1, <1>3, CheckedInTime
      <3>2. conn'.ping => Checked.ping
        BY <2>3, <2>6, <2>7
      <3>3. Checked.deadline \in Nat
        BY <1>1, CheckedFacts DEF ConnType
      <3>4. QED
        BY <1>1, <1>3, <2>1, <2>7, <3>1, <3>2, <3>3 DEF SilenceWatched
    <2>13. QED
      BY <2>9, <2>10, <2>11, <2>12 DEF FeedInv
  <1>4. QED
    BY <1>2, <1>3 DEF ReadFrame

LEMMA BackoffOverStep ==
  ASSUME FeedInv, BackoffOver
  PROVE  FeedInv'
  <1>1. /\ FeedRecords /\ TableHeld /\ MessagesUnderWay /\ SilenceWatched
        /\ loop.pc = "backoff" /\ mclock' = mclock /\ stop' = stop /\ gnb' = gnb /\ conn' = conn
        /\ feed' = feed /\ loop \in LoopType
    BY FeedTypes DEF FeedInv, BackoffOver
  <1>2. loop' \in LoopType /\ loop'.pc # "read"
    BY <1>1 DEF BackoffOver, LoopType
  <1>3. FeedRecords'
    BY <1>1, <1>2 DEF FeedRecords, FeedTypeOK, LoopType
  <1>4. TableHeld' /\ SilenceWatched'
    BY <1>1, <1>2 DEF TableHeld, SilenceWatched
  <1>5. MessagesUnderWay'
    BY <1>1, MessagesKept
  <1>6. QED
    BY <1>3, <1>4, <1>5 DEF FeedInv

\* A frame is put on the wire, and nothing else about the client changes but
\* what it has left to answer.
LEMMA OnWire ==
  ASSUME FeedInv, NEW f \in Frames, conn.wire = << >>, conn' \in ConnType,
         conn'.wire = << f >>, conn'.id = conn.id, conn'.partial = conn.partial,
         conn'.got = conn.got, conn'.last = conn.last, conn'.polled = conn.polled,
         conn'.ping = conn.ping, conn'.deadline = conn.deadline,
         gnb' \in GnbType, FrameUnderWay(f)', loop' = loop, feed' = feed, mclock' = mclock,
         stop' = stop
  PROVE  FeedInv'
  <1>1. FeedRecords /\ TableHeld /\ MessagesUnderWay /\ SilenceWatched
    BY DEF FeedInv
  <1>2. FeedRecords' /\ TableHeld' /\ SilenceWatched'
    BY <1>1 DEF FeedRecords, FeedTypeOK, TableHeld, SilenceWatched
  <1>3. MessagesUnderWay'
    <2>1. Len(conn'.wire) = 1 /\ conn'.wire[1] = f
      OBVIOUS
    <2>2. QED
      BY <2>1 DEF MessagesUnderWay
  <1>4. QED
    BY <1>2, <1>3 DEF FeedInv

LEMMA GnbSendStep ==
  ASSUME FeedInv, NEW kind \in {"scheduler", "other", "noise"}, NEW fin \in BOOLEAN,
         GnbSend(kind, fin)
  PROVE  FeedInv'
  <1> DEFINE id == IF gnb.half THEN gnb.sent ELSE gnb.sent + 1
             f == Frame("data", id, fin, kind)
             message == IF gnb.half THEN << id, id >> ELSE << id >>
             sent == IF fin THEN Append(gnb.onConn, message) ELSE gnb.onConn
  <1>1. /\ FeedRecords /\ MessagesUnderWay /\ conn.wire = << >> /\ (gnb.half => fin)
        /\ conn' = [conn EXCEPT !.wire = Append(@, f)]
        /\ gnb' = [gnb EXCEPT !.sent = id, !.half = ~fin, !.onConn = sent]
        /\ loop' = loop /\ feed' = feed /\ mclock' = mclock /\ stop' = stop
    BY DEF FeedInv, GnbSend, Connected
  <1>2. conn \in ConnType /\ gnb \in GnbType /\ gnb.sent \in Nat /\ gnb.onConn \in Seq(Seq(Nat))
    BY <1>1, FeedTypes DEF GnbType
  <1>3. id \in Nat
    BY <1>2
  <1>4. message \in Seq(Nat) /\ message = IF gnb.half THEN << id, id >> ELSE << id >>
    BY <1>3
  <1> HIDE DEF message
  <1>5. sent \in Seq(Seq(Nat)) /\ (fin => sent = Append(gnb.onConn, message))
        /\ (~fin => sent = gnb.onConn)
    BY <1>2, <1>4
  <1>6. gnb.half => id = gnb.sent
    OBVIOUS
  <1> HIDE DEF id
  <1>7. /\ f \in Frames /\ f.op = "data" /\ f.fin = fin /\ f.id = id
    BY <1>3 DEF Frame, Frames
  <1> HIDE DEF f, sent
  <1>8. gnb' \in GnbType /\ gnb'.sent = id /\ gnb'.half = ~fin /\ gnb'.onConn = sent
    <2> DEFINE half == ~fin
               g1 == [gnb EXCEPT !.sent = id]
    <2>1. g1 \in GnbType /\ g1.sent = id
      BY <1>2, <1>3 DEF GnbType
    <2>2. gnb' = [g1 EXCEPT !.half = half, !.onConn = sent] /\ half \in BOOLEAN
      BY <1>1
    <2> HIDE DEF half, g1
    <2>3. gnb' \in GnbType /\ gnb'.sent = id /\ gnb'.half = half /\ gnb'.onConn = sent
      BY <1>5, <2>1, <2>2 DEF GnbType
    <2>4. QED
      BY <2>3 DEF half
  <1>9. /\ conn' \in ConnType /\ conn'.wire = << f >> /\ conn'.id = conn.id
        /\ conn'.partial = conn.partial /\ conn'.got = conn.got /\ conn'.last = conn.last
        /\ conn'.polled = conn.polled /\ conn'.ping = conn.ping /\ conn'.deadline = conn.deadline
    <2> DEFINE w == << f >>
    <2>1. w \in Seq(Frames) /\ Append(conn.wire, f) = w
      BY <1>1, <1>7
    <2>2. conn' = [conn EXCEPT !.wire = w]
      BY <1>1, <1>2, <2>1
    <2> HIDE DEF w
    <2>3. /\ conn' \in ConnType /\ conn'.wire = w /\ conn'.id = conn.id
          /\ conn'.partial = conn.partial /\ conn'.got = conn.got /\ conn'.last = conn.last
          /\ conn'.polled = conn.polled /\ conn'.ping = conn.ping
          /\ conn'.deadline = conn.deadline
      BY <1>2, <2>1, <2>2 DEF ConnType
    <2>4. QED
      BY <2>3 DEF w
  <1>10. gnb.onConn = conn.got /\ InHand
    BY <1>1 DEF MessagesUnderWay
  <1>11. PICK x \in Frames : x = f
    BY <1>7
  <1>12. FrameUnderWay(x)'
    <2>1. /\ x.op = "data" /\ x.fin = fin /\ x.id = id
      BY <1>7, <1>11
    <2>2. CASE fin
      <3>1. Append(conn.partial, id) = message
        <4>1. CASE gnb.half
          <5>1. conn.partial = << id >> /\ message = << id, id >>
            BY <1>4, <1>6, <1>10, <4>1 DEF InHand
          <5>2. QED
            BY <5>1, AppendOne
        <4>2. CASE ~gnb.half
          <5>1. conn.partial = << >> /\ message = << id >>
            BY <1>4, <1>10, <4>2 DEF InHand
          <5>2. QED
            BY <5>1, AppendOne
        <4>3. QED
          BY <4>1, <4>2
      <3>2. gnb'.onConn = Append(conn'.got, Append(conn'.partial, x.id)) /\ ~gnb'.half
        BY <1>5, <1>8, <1>9, <1>10, <2>1, <2>2, <3>1
      <3>3. QED
        BY <2>1, <2>2, <3>2 DEF FrameUnderWay
    <2>3. CASE ~fin
      <3>1. conn.partial = << >>
        BY <1>1, <1>10, <2>3 DEF InHand
      <3>2. gnb'.onConn = conn'.got /\ conn'.partial = << >> /\ gnb'.half /\ x.id = gnb'.sent
        BY <1>5, <1>8, <1>9, <1>10, <2>1, <2>3, <3>1
      <3>3. QED
        BY <2>1, <2>3, <3>2 DEF FrameUnderWay
    <2>4. QED
      BY <2>2, <2>3
  <1>13. QED
    BY <1>1, <1>8, <1>9, <1>11, <1>12, OnWire

\* A control frame on the wire: the fragment in hand stays in hand.
LEMMA ControlOnWire ==
  ASSUME FeedInv, NEW op \in {"pong", "close"}, NEW unsent \in BOOLEAN, conn.wire = << >>,
         NEW c, c = [conn EXCEPT !.unsent = unsent],
         conn' = [c EXCEPT !.wire = Append(@, Frame(op, 0, TRUE, "none"))],
         gnb' \in GnbType, gnb'.half = gnb.half, gnb'.sent = gnb.sent,
         gnb'.onConn = gnb.onConn, loop' = loop, feed' = feed, mclock' = mclock, stop' = stop
  PROVE  FeedInv'
  <1> DEFINE f == Frame(op, 0, TRUE, "none")
             w == << f >>
  <1>1. FeedRecords /\ MessagesUnderWay /\ conn \in ConnType
    BY FeedTypes DEF FeedInv
  <1>2. f \in Frames /\ f.op = op
    BY DEF Frame, Frames
  <1>3. conn' = [c EXCEPT !.wire = Append(@, f)]
    OBVIOUS
  <1> HIDE DEF f
  <1>4. /\ c \in ConnType /\ c.wire = << >> /\ c.id = conn.id
        /\ c.partial = conn.partial /\ c.got = conn.got /\ c.last = conn.last
        /\ c.polled = conn.polled /\ c.ping = conn.ping /\ c.deadline = conn.deadline
    BY <1>1 DEF ConnType
  <1>5. conn' = [c EXCEPT !.wire = w] /\ w \in Seq(Frames) /\ w = << f >>
    <2>1. Append(c.wire, f) = w
      BY <1>4, AppendOne
    <2>2. w \in Seq(Frames) /\ w = << f >>
      BY <1>2
    <2> HIDE DEF w
    <2>3. conn' = [c EXCEPT !.wire = w]
      BY <1>3, <2>1
    <2>4. QED
      BY <2>2, <2>3
  <1> HIDE DEF w
  <1>6. /\ conn' \in ConnType /\ conn'.wire = w /\ conn'.id = conn.id
        /\ conn'.partial = conn.partial /\ conn'.got = conn.got /\ conn'.last = conn.last
        /\ conn'.polled = conn.polled /\ conn'.ping = conn.ping /\ conn'.deadline = conn.deadline
    BY <1>4, <1>5 DEF ConnType
  <1>7. FrameUnderWay(f)'
    BY <1>1, <1>2, <1>6 DEF MessagesUnderWay, FrameUnderWay, InHand
  <1>8. QED
    BY <1>2, <1>5, <1>6, <1>7, OnWire

LEMMA GnbPongStep ==
  ASSUME FeedInv, GnbPong
  PROVE  FeedInv'
  <1> DEFINE c == [conn EXCEPT !.unsent = FALSE]
  <1>1. /\ conn.wire = << >> /\ gnb' = gnb /\ loop' = loop /\ feed' = feed /\ mclock' = mclock
        /\ stop' = stop /\ conn \in ConnType /\ gnb \in GnbType
        /\ conn' = [conn EXCEPT !.wire = Append(@, Frame("pong", 0, TRUE, "none")),
                                !.unsent = FALSE]
    BY FeedTypes DEF FeedInv, GnbPong, Connected
  <1>2. conn' = [c EXCEPT !.wire = Append(@, Frame("pong", 0, TRUE, "none"))]
    BY <1>1 DEF ConnType
  <1> HIDE DEF c
  <1>3. QED
    BY <1>1, <1>2, ControlOnWire DEF c

LEMMA GnbEndsStep ==
  ASSUME FeedInv, NEW how \in {"close", "closed", "silent"}, GnbEnds(how)
  PROVE  FeedInv'
  <1>1. /\ FeedRecords /\ TableHeld /\ MessagesUnderWay /\ SilenceWatched
        /\ conn.wire = << >> /\ loop' = loop /\ feed' = feed /\ mclock' = mclock
        /\ stop' = stop /\ conn \in ConnType /\ gnb \in GnbType
        /\ gnb' = [gnb EXCEPT !.up = how # "closed"]
    BY FeedTypes DEF FeedInv, GnbEnds, Connected
  <1>2. /\ gnb' \in GnbType /\ gnb'.half = gnb.half /\ gnb'.sent = gnb.sent
        /\ gnb'.onConn = gnb.onConn
    <2> DEFINE up == how # "closed"
    <2>1. gnb' = [gnb EXCEPT !.up = up] /\ up \in BOOLEAN
      BY <1>1
    <2> HIDE DEF up
    <2>2. QED
      BY <1>1, <2>1 DEF GnbType
  <1>3. CASE how = "close"
    <2> DEFINE c == [conn EXCEPT !.unsent = conn.unsent]
    <2>1. c = conn /\ conn.unsent \in BOOLEAN
      BY <1>1 DEF ConnType
    <2>2. conn' = [conn EXCEPT !.wire = Append(@, Frame("close", 0, TRUE, "none"))]
      BY <1>3 DEF GnbEnds
    <2> HIDE DEF c
    <2>3. conn' = [c EXCEPT !.wire = Append(@, Frame("close", 0, TRUE, "none"))]
      BY <2>1, <2>2
    <2>4. QED
      BY <1>1, <1>2, <2>1, <2>3, ControlOnWire DEF c
  <1>4. CASE how # "close"
    <2>1. conn' = [conn EXCEPT !.peer = how]
      BY <1>4 DEF GnbEnds
    <2>2. /\ conn' \in ConnType /\ conn'.wire = conn.wire /\ conn'.id = conn.id
          /\ conn'.partial = conn.partial /\ conn'.got = conn.got /\ conn'.last = conn.last
          /\ conn'.polled = conn.polled /\ conn'.ping = conn.ping
          /\ conn'.deadline = conn.deadline
      BY <1>1, <1>4, <2>1 DEF ConnType
    <2>3. FeedRecords' /\ TableHeld' /\ SilenceWatched'
      BY <1>1, <1>2, <2>2 DEF FeedRecords, FeedTypeOK, TableHeld, SilenceWatched
    <2>4. MessagesUnderWay'
      BY <1>1, <1>2, <2>2, MessagesKept
    <2>5. QED
      BY <2>3, <2>4 DEF FeedInv
  <1>5. QED
    BY <1>3, <1>4

LEMMA GnbStartsStep ==
  ASSUME FeedInv, GnbStarts
  PROVE  FeedInv'
  <1>1. /\ FeedRecords /\ TableHeld /\ MessagesUnderWay /\ SilenceWatched
        /\ loop' = loop /\ feed' = feed /\ mclock' = mclock /\ conn' = conn
        /\ stop' = stop /\ gnb \in GnbType /\ gnb' = [gnb EXCEPT !.up = TRUE]
    BY FeedTypes DEF FeedInv, GnbStarts
  <1>2. /\ gnb' \in GnbType /\ gnb'.half = gnb.half /\ gnb'.sent = gnb.sent
        /\ gnb'.onConn = gnb.onConn
    BY <1>1 DEF GnbType
  <1>3. FeedRecords' /\ TableHeld' /\ SilenceWatched'
    BY <1>1, <1>2 DEF FeedRecords, FeedTypeOK, TableHeld, SilenceWatched
  <1>4. MessagesUnderWay'
    BY <1>1, <1>2, MessagesKept
  <1>5. QED
    BY <1>3, <1>4 DEF FeedInv

\* Time passes only while the thread waits within its limits.
LEMMA FeedTickStep ==
  ASSUME FeedInv, FeedTick
  PROVE  FeedInv'
  <1>1. /\ FeedRecords /\ TableHeld /\ MessagesUnderWay /\ SilenceWatched
        /\ loop' = loop /\ feed' = feed /\ mclock' = mclock + 1 /\ gnb' = gnb
        /\ stop' = stop /\ conn \in ConnType /\ conn' = [conn EXCEPT !.polled = FALSE]
        /\ mclock < MaxClock
        /\ loop.pc = "read" => conn.polled /\ ~Alarm
    BY FeedTypes DEF FeedInv, FeedTick
  <1>2. /\ conn' \in ConnType /\ conn'.wire = conn.wire /\ conn'.id = conn.id
        /\ conn'.partial = conn.partial /\ conn'.got = conn.got /\ conn'.last = conn.last
        /\ ~conn'.polled /\ conn'.ping = conn.ping /\ conn'.deadline = conn.deadline
    BY <1>1 DEF ConnType
  <1>3. /\ mclock \in Nat /\ conn.last \in Nat /\ conn.last <= mclock /\ MaxClock \in Nat
        /\ conn.deadline \in Nat /\ IdleSeconds \in Nat /\ PongSeconds \in Nat
        /\ feed.ueSeen \in Int /\ feed.seen \in Int
        /\ -1 <= feed.ueSeen /\ feed.ueSeen <= feed.seen /\ feed.seen <= mclock
    BY <1>1, FeedTypes, FeedConstants
  <1>4. FeedRecords'
    <2>1. mclock + 1 \in 0 .. MaxClock /\ feed.seen \in -1 .. mclock + 1 /\ conn.last <= mclock + 1
      BY <1>1, <1>3
    <2>2. QED
      BY <1>1, <1>2, <2>1 DEF FeedRecords, FeedTypeOK
  <1>5. TableHeld'
    BY <1>1, <1>2 DEF TableHeld
  <1>6. MessagesUnderWay'
    BY <1>1, <1>2, MessagesKept
  <1>7. SilenceWatched'
    <2>1. ASSUME loop.pc = "read"
          PROVE  /\ conn.ping => /\ mclock + 1 <= conn.deadline
                                 /\ conn.deadline <= conn.last + IdleSeconds + PongSeconds
                 /\ ~conn.ping => mclock + 1 - conn.last <= IdleSeconds
      <3>1. ~stop /\ (conn.ping => ~(mclock >= conn.deadline)) /\ conn.polled
        BY <1>1, <2>1 DEF Alarm, Liveness
      <3>2. QED
        BY <1>1, <1>3, <2>1, <3>1 DEF SilenceWatched
    <2>2. /\ loop'.pc = loop.pc /\ conn'.ping = conn.ping /\ conn'.deadline = conn.deadline
          /\ conn'.last = conn.last /\ mclock' = mclock + 1 /\ ~conn'.polled
      BY <1>1, <1>2
    <2>3. CASE conn.ping
      BY <2>1, <2>2, <2>3 DEF SilenceWatched
    <2>4. CASE ~conn.ping
      <3>1. loop'.pc = "read" => mclock' - conn'.last <= IdleSeconds
        BY <1>3, <2>1, <2>2, <2>4
      <3>2. ~conn'.ping /\ ~conn'.polled
        BY <2>2, <2>4
      <3>3. QED
        BY <3>1, <3>2 DEF SilenceWatched
    <2>5. QED
      BY <2>3, <2>4
  <1>8. QED
    BY <1>4, <1>5, <1>6, <1>7 DEF FeedInv

LEMMA FeedStep == FeedInv /\ [FeedNext]_feedVars => FeedInv'
  <1> SUFFICES ASSUME FeedInv, [FeedNext]_feedVars PROVE FeedInv'
    OBVIOUS
  <1>1. ASSUME gnb' = gnb, conn' = conn, loop' = loop, feed' = feed, mclock' = mclock,
               stop' \in BOOLEAN
        PROVE  FeedInv'
    <2>1. FeedRecords /\ TableHeld /\ MessagesUnderWay /\ SilenceWatched
      BY DEF FeedInv
    <2>2. FeedRecords' /\ TableHeld' /\ SilenceWatched'
      BY <1>1, <2>1 DEF FeedRecords, FeedTypeOK, TableHeld, SilenceWatched
    <2>3. MessagesUnderWay'
      BY <1>1, <2>1, MessagesKept
    <2>4. QED
      BY <2>2, <2>3 DEF FeedInv
  <1>2. CASE UNCHANGED feedVars \/ RequestStop
    BY <1>1, <1>2 DEF feedVars, RequestStop, FeedInv, FeedRecords
  <1>3. CASE FeedThread
    BY <1>3, ConnectingStep, DialStep, PollTimeoutStep, ReadFrameStep, BackoffOverStep
    DEF FeedThread
  <1>4. CASE \E kind \in {"scheduler", "other", "noise"}, fin \in BOOLEAN : GnbSend(kind, fin)
    BY <1>4, GnbSendStep
  <1>5. CASE \E how \in {"close", "closed", "silent"} : GnbEnds(how)
    BY <1>5, GnbEndsStep
  <1>6. CASE GnbPong \/ GnbStarts \/ FeedTick
    BY <1>6, GnbPongStep, GnbStartsStep, FeedTickStep
  <1>7. QED
    BY <1>2, <1>3, <1>4, <1>5, <1>6 DEF FeedNext

\* The invariant of the subscription: a current table belongs to the connection
\* being read, what was sent over it has been read or is on the wire, and silence
\* is watched by the ping and its deadline.
THEOREM FeedInvariant == FeedSpec => []FeedInv
  BY FeedInitInv, FeedStep, PTL DEF FeedSpec

\* What the dashboard shows of a gNB came over the connection that is open now,
\* whole and recently, however fragments, control frames, poll timeouts, ends of
\* the connection and reconnections fall (gnb_metrics_loop, WebSocketClient,
\* _gnb_snapshot), and a dead connection is given up in time.
THEOREM FeedShowsTruth == FeedSpec => []FeedTruthful
  <1>1. FeedInv => FeedTruthful
    <2> SUFFICES ASSUME FeedInv PROVE FeedTruthful
      OBVIOUS
    <2>1. FeedRecords /\ TableHeld /\ MessagesUnderWay /\ SilenceWatched
      BY DEF FeedInv
    <2>2. FeedTypeOK
      BY <2>1 DEF FeedRecords
    <2>3. TableCurrent
      <3>1. mclock \in Nat /\ feed.ueSeen \in Int /\ StaleSeconds \in Nat
        BY <2>1, FeedTypes, FeedConstants
      <3>2. QED
        BY <2>1, <3>1 DEF TableHeld, TableCurrent, TableStale
    <2>4. MessagesWhole
      <3>1. conn.got \in Seq(Seq(Nat)) /\ conn.partial \in Seq(Nat) /\ conn.wire \in Seq(Frames)
        BY <2>1, FeedTypes DEF ConnType
      <3>2. CASE gnb.onConn = conn.got
        BY <3>1, <3>2 DEF MessagesWhole, IsPrefix
      <3>3. ASSUME NEW m \in Seq(Nat), gnb.onConn = Append(conn.got, m) PROVE MessagesWhole
        BY <3>1, <3>3 DEF MessagesWhole, IsPrefix
      <3>4. ASSUME Len(conn.wire) = 1, FrameUnderWay(conn.wire[1]) PROVE MessagesWhole
        <4> DEFINE f == conn.wire[1]
        <4>1. f \in Frames
          BY <3>1, <3>4
        <4>2. FrameUnderWay(f)
          BY <3>4
        <4> HIDE DEF f
        <4>3. f.id \in Nat
          BY <4>1 DEF Frames
        <4>4. Append(conn.partial, f.id) \in Seq(Nat)
          BY <3>1, <4>3
        <4>5. gnb.onConn = conn.got \/ gnb.onConn = Append(conn.got, Append(conn.partial, f.id))
          BY <4>2 DEF FrameUnderWay
        <4>6. QED
          BY <3>2, <3>3, <4>4, <4>5
      <3>5. QED
        BY <2>1, <3>2, <3>4 DEF MessagesUnderWay
    <2>5. SilenceBounded
      <3>1. /\ mclock \in Nat /\ conn.last \in Nat /\ conn.deadline \in Nat
            /\ IdleSeconds \in Nat /\ PongSeconds \in Nat
        BY <2>1, FeedTypes, FeedConstants
      <3>2. QED
        BY <2>1, <3>1 DEF SilenceWatched, SilenceBounded
    <2>6. QED
      BY <2>2, <2>3, <2>4, <2>5 DEF FeedTruthful
  <1>2. QED
    BY <1>1, FeedInvariant, PTL

(***************************************************************************)
(* The telemetry snapshot (Telemetry), for every number of retries and of  *)
(* slots.                                                                  *)
(***************************************************************************)

LEMMA SeqlockInitial == Init => SeqlockInv
<1> SUFFICES ASSUME Init PROVE SeqlockInv
  OBVIOUS
<1>1. SeqlockTypeOK
  BY DEF Init, SeqlockTypeOK, Contents, Default, NoRead, Word
<1>2. Len(published) = 1 /\ published[1] = Default
  BY DEF Init
<1>3. Counted /\ SharedWords /\ CopiedWords
  BY <1>2 DEF Init, Counted, SharedWords, CopiedWords, NoRead
<1>4. AgreedFrameCurrent
  BY <1>2 DEF Init, AgreedFrameCurrent, Current
<1>5. QED
  BY <1>1, <1>2, <1>3, <1>4 DEF SeqlockInv

\* The writer's steps outside the lock change nothing a reader looks at.
LEMMA PublishStep ==
  SeqlockInv /\ (PublishControl \/ PublishTiming) => SeqlockInv'
<1> SUFFICES ASSUME SeqlockInv, PublishControl \/ PublishTiming PROVE SeqlockInv'
  OBVIOUS
<1> USE DEF SeqlockInv
<1>1. PICK snap \in Contents :
        /\ writer.pc = "idle" /\ writer' = [pc |-> "mark", left |-> Word, snap |-> snap]
        /\ UNCHANGED << seq, shared, published, reader, frame >>
  <2>1. CASE PublishControl
    <3>1. [shared EXCEPT !["control"] = @ + 1] \in Contents
      BY DEF SeqlockTypeOK, Contents, Word
    <3>2. QED
      BY <2>1, <3>1 DEF PublishControl, readerVars
  <2>2. CASE PublishTiming
    <3>1. [shared EXCEPT !["timing"] = shared["control"]] \in Contents
      BY DEF SeqlockTypeOK, Contents, Word
    <3>2. QED
      BY <2>2, <3>1 DEF PublishTiming, readerVars
  <2>3. QED
    BY <2>1, <2>2
<1>2. SeqlockTypeOK'
  BY <1>1 DEF SeqlockTypeOK
<1>3. Counted' /\ SharedWords' /\ CopiedWords' /\ AgreedFrameCurrent'
  BY <1>1 DEF Counted, SharedWords, CopiedWords, AgreedFrameCurrent, Current
<1>4. QED
  BY <1>1, <1>2, <1>3

LEMMA MarkStep == SeqlockInv /\ Mark => SeqlockInv'
<1> SUFFICES ASSUME SeqlockInv, Mark PROVE SeqlockInv'
  OBVIOUS
<1> USE DEF SeqlockInv
<1>1. /\ writer.pc = "mark" /\ seq' = seq + 1 /\ writer'.pc = "write" /\ writer'.left = Word
      /\ UNCHANGED << shared, published, reader, frame >>
  BY DEF Mark, SeqlockTypeOK, SharedWords, readerVars
<1>2. SeqlockTypeOK'
  BY <1>1 DEF SeqlockTypeOK, Mark
<1>3. Counted' /\ SharedWords' /\ AgreedFrameCurrent'
  BY <1>1 DEF Counted, SharedWords, AgreedFrameCurrent, Current
<1>4. CopiedWords'
  \* The counter becomes odd, so it is not the even number a reader has loaded.
  <2>1. seq' = 2 * (Len(published) - 1) + 1 /\ Len(published) \in Nat /\ reader.pre \in Nat
    BY <1>1 DEF Counted, SeqlockTypeOK
  <2>2. seq' % 2 = 1
    BY <2>1
  <2>3. reader.pc = "copy" => reader.pre % 2 = 0 /\ reader.pre <= seq
    BY DEF CopiedWords
  <2>4. reader.pc = "copy" => reader.pre # seq' /\ reader.pre <= seq'
    BY <1>1, <2>1, <2>2, <2>3 DEF SeqlockTypeOK
  <2>5. QED
    BY <1>1, <2>3, <2>4 DEF CopiedWords
<1>5. QED
  BY <1>1, <1>2, <1>3, <1>4

LEMMA WriteStep == ASSUME NEW w \in Word PROVE SeqlockInv /\ WriteWord(w) => SeqlockInv'
<1> SUFFICES ASSUME SeqlockInv, WriteWord(w) PROVE SeqlockInv'
  OBVIOUS
<1> USE DEF SeqlockInv
<1>1. /\ writer.pc = "write" /\ writer' = [writer EXCEPT !.left = @ \ {w}]
      /\ shared' = [shared EXCEPT ![w] = writer.snap[w]]
      /\ UNCHANGED << seq, published, reader, frame >>
  BY DEF WriteWord, readerVars
<1>2. SeqlockTypeOK'
  BY <1>1 DEF SeqlockTypeOK, Contents
<1>3. SharedWords'
  BY <1>1 DEF SharedWords, SeqlockTypeOK, Contents
<1>4. Counted' /\ CopiedWords' /\ AgreedFrameCurrent'
  BY <1>1 DEF Counted, CopiedWords, AgreedFrameCurrent, Current, SeqlockTypeOK
<1>5. QED
  BY <1>1, <1>2, <1>3, <1>4

\* The publication is complete: one more, and no reader has loaded its counter.
LEMMA UnmarkStep == SeqlockInv /\ Unmark => SeqlockInv'
<1> SUFFICES ASSUME SeqlockInv, Unmark PROVE SeqlockInv'
  OBVIOUS
<1> USE DEF SeqlockInv
<1>1. /\ writer.pc = "write" /\ writer.left = {} /\ writer'.pc = "idle" /\ seq' = seq + 1
      /\ published' = Append(published, writer.snap)
      /\ UNCHANGED << shared, reader, frame >>
  BY DEF Unmark, readerVars, SeqlockTypeOK
<1>2. /\ Len(published') = Len(published) + 1
      /\ published'[Len(published')] = writer.snap
      /\ \A i \in 1 .. Len(published) : published'[i] = published[i]
  BY <1>1 DEF SeqlockTypeOK
<1>3. SeqlockTypeOK'
  <2>1. published' \in Seq(Contents)
    BY <1>1 DEF SeqlockTypeOK
  <2>2. writer' \in [pc : {"idle", "mark", "write"}, snap : Contents, left : SUBSET Word]
    BY DEF SeqlockTypeOK, Unmark
  <2>3. QED
    BY <1>1, <2>1, <2>2 DEF SeqlockTypeOK
<1>4. Counted'
  BY <1>1, <1>2 DEF Counted, SeqlockTypeOK
<1>5. SharedWords'
  <2>1. shared = writer.snap
    BY <1>1 DEF SharedWords, SeqlockTypeOK, Contents
  <2>2. QED
    BY <1>1, <1>2, <2>1 DEF SharedWords
<1>6. CopiedWords'
  <2>1. reader.pc = "copy" => seq' # reader.pre
    <3>1. seq' = 2 * Len(published) /\ seq = 2 * Len(published) - 1
      BY <1>1 DEF Counted, SeqlockTypeOK
    <3>2. reader.pc = "copy" => reader.pre <= seq
      BY DEF CopiedWords
    <3>3. QED
      BY <3>1, <3>2 DEF SeqlockTypeOK
  <2>2. QED
    BY <1>1, <1>2, <2>1 DEF CopiedWords, SeqlockTypeOK
<1>7. AgreedFrameCurrent'
  BY <1>1, <1>2 DEF AgreedFrameCurrent, Current, SeqlockTypeOK
<1>8. QED
  BY <1>2, <1>3, <1>4, <1>5, <1>6, <1>7 DEF SeqlockTypeOK

\* A read that ends leaves the frame it returns; the caller has shown what
\* agreement is worth.
LEMMA ReturnStep ==
  ASSUME SeqlockInv, reader.pc # "idle", UNCHANGED writerVars,
         NEW agreed \in BOOLEAN, Return(reader.copy, agreed),
         agreed => \E i \in reader.floor .. Len(published) : reader.copy = published[i]
  PROVE  SeqlockInv'
<1> USE DEF SeqlockInv
<1>1. /\ frame' = [copy |-> reader.copy, agreed |-> agreed, floor |-> reader.floor]
      /\ reader' = NoRead
      /\ UNCHANGED << seq, shared, writer, published >>
  BY DEF Return, writerVars
<1>2. SeqlockTypeOK'
  BY <1>1 DEF SeqlockTypeOK, NoRead, Default, Contents, Word
<1>3. Counted' /\ SharedWords' /\ CopiedWords'
  BY <1>1 DEF Counted, SharedWords, CopiedWords, NoRead
<1>4. AgreedFrameCurrent'
  BY <1>1 DEF AgreedFrameCurrent, Current
<1>5. QED
  BY <1>1, <1>2, <1>3, <1>4

LEMMA RetryStep ==
  ASSUME SeqlockInv, reader.pc # "idle", UNCHANGED writerVars, Retry
  PROVE  SeqlockInv'
<1> USE DEF SeqlockInv
<1>1. CASE reader.tries + 1 < MaxRetries
  <2>1. /\ reader' = [reader EXCEPT !.pc = "load", !.tries = @ + 1]
        /\ UNCHANGED << seq, shared, writer, published, frame >>
    BY <1>1 DEF Retry, writerVars
  <2>2. SeqlockTypeOK'
    <3>1. reader' = [pc |-> "load", tries |-> reader.tries + 1, pre |-> reader.pre,
                     left |-> reader.left, copy |-> reader.copy, floor |-> reader.floor]
      BY <2>1 DEF SeqlockTypeOK
    <3>2. QED
      BY <2>1, <3>1 DEF SeqlockTypeOK
  <2>3. Counted' /\ SharedWords' /\ CopiedWords' /\ AgreedFrameCurrent'
    BY <2>1 DEF Counted, SharedWords, CopiedWords, AgreedFrameCurrent, Current, SeqlockTypeOK
  <2>4. QED
    BY <2>1, <2>2, <2>3
<1>2. CASE ~(reader.tries + 1 < MaxRetries)
  <2>1. Return(reader.copy, FALSE)
    BY <1>2 DEF Retry
  <2>2. QED
    BY <2>1, ReturnStep
<1>3. QED
  BY <1>1, <1>2

LEMMA TickStep == SeqlockInv /\ Tick => SeqlockInv'
<1> SUFFICES ASSUME SeqlockInv, Tick PROVE SeqlockInv'
  OBVIOUS
<1> USE DEF SeqlockInv
<1>1. /\ reader' = [NoRead EXCEPT !.pc = "load", !.floor = Len(published)]
      /\ UNCHANGED << seq, shared, writer, published, frame >>
  BY DEF Tick, writerVars
<1>2. SeqlockTypeOK'
  <2>1. Len(published) \in Nat \ {0}
    BY DEF SeqlockTypeOK
  <2>2. Default \in Contents
    BY DEF Default, Contents
  <2>3. reader' = [pc |-> "load", tries |-> 0, pre |-> 0, left |-> {}, copy |-> Default,
                   floor |-> Len(published)]
    BY <1>1 DEF NoRead
  <2>4. QED
    BY <1>1, <2>1, <2>2, <2>3 DEF SeqlockTypeOK
<1>3. Counted' /\ SharedWords' /\ CopiedWords' /\ AgreedFrameCurrent'
  BY <1>1 DEF Counted, SharedWords, CopiedWords, AgreedFrameCurrent, Current, NoRead, SeqlockTypeOK
<1>4. QED
  BY <1>1, <1>2, <1>3

LEMMA LoadPreStep == SeqlockInv /\ LoadPre => SeqlockInv'
<1> SUFFICES ASSUME SeqlockInv, LoadPre PROVE SeqlockInv'
  OBVIOUS
<1>1. CASE seq % 2 = 1
  BY <1>1, RetryStep DEF LoadPre
<1>2. CASE seq % 2 # 1
  <2> USE DEF SeqlockInv
  <2>1. /\ reader.pc = "load"
        /\ reader' = [reader EXCEPT !.pc = "copy", !.pre = seq, !.left = Word]
        /\ UNCHANGED << seq, shared, writer, published, frame >>
    BY <1>2 DEF LoadPre, writerVars
  <2>2. SeqlockTypeOK'
    BY <2>1 DEF SeqlockTypeOK
  <2>3. seq % 2 = 0
    BY <1>2 DEF SeqlockTypeOK
  <2>4. Counted' /\ SharedWords' /\ CopiedWords' /\ AgreedFrameCurrent'
    BY <2>1, <2>3 DEF Counted, SharedWords, CopiedWords, AgreedFrameCurrent, Current, SeqlockTypeOK
  <2>5. QED
    BY <2>1, <2>2, <2>4
<1>3. QED
  BY <1>1, <1>2

\* An even counter that has not moved means that no write is going on.
LEMMA CopyStep == ASSUME NEW w \in Word PROVE SeqlockInv /\ CopyWord(w) => SeqlockInv'
<1> SUFFICES ASSUME SeqlockInv, CopyWord(w) PROVE SeqlockInv'
  OBVIOUS
<1> USE DEF SeqlockInv
<1>1. /\ reader.pc = "copy"
      /\ reader' = [reader EXCEPT !.copy[w] = shared[w], !.left = @ \ {w}]
      /\ UNCHANGED << seq, shared, writer, published, frame >>
  BY DEF CopyWord, writerVars
<1>2. SeqlockTypeOK'
  BY <1>1 DEF SeqlockTypeOK, Contents
<1>3. seq = reader.pre => writer.pc # "write"
  <2>1. writer.pc = "write" => seq = 2 * (Len(published) - 1) + 1 /\ Len(published) \in Nat
    BY DEF Counted, SeqlockTypeOK
  <2>2. writer.pc = "write" => seq % 2 = 1
    BY <2>1
  <2>3. QED
    BY <2>2, <1>1 DEF CopiedWords
<1>4. CopiedWords'
  <2>1. ASSUME seq = reader.pre, NEW v \in Word \ reader'.left
        PROVE  reader'.copy[v] = published[Len(published)][v]
    <3>1. shared = published[Len(published)]
      BY <1>3, <2>1 DEF SharedWords
    <3>2. CASE v = w
      BY <1>1, <3>1, <3>2 DEF SeqlockTypeOK, Contents
    <3>3. CASE v # w
      BY <1>1, <2>1, <3>3 DEF SeqlockTypeOK, Contents, CopiedWords
    <3>4. QED
      BY <3>2, <3>3
  <2>2. QED
    BY <1>1, <2>1 DEF CopiedWords, SeqlockTypeOK
<1>5. Counted' /\ SharedWords' /\ AgreedFrameCurrent'
  BY <1>1 DEF Counted, SharedWords, AgreedFrameCurrent, Current
<1>6. QED
  BY <1>1, <1>2, <1>4, <1>5

LEMMA LoadPostStep == SeqlockInv /\ LoadPost => SeqlockInv'
<1> SUFFICES ASSUME SeqlockInv, LoadPost PROVE SeqlockInv'
  OBVIOUS
<1>1. CASE seq # reader.pre
  BY <1>1, RetryStep DEF LoadPost
<1>2. CASE seq = reader.pre
  <2>1. /\ Return(reader.copy, TRUE) /\ reader.pc = "copy" /\ reader.left = {}
        /\ UNCHANGED writerVars
    BY <1>2 DEF LoadPost
  <2>2. reader.copy = published[Len(published)]
    <3>1. \A w \in Word : reader.copy[w] = published[Len(published)][w]
      BY <1>2, <2>1 DEF SeqlockInv, CopiedWords
    <3>2. reader.copy \in Contents /\ published[Len(published)] \in Contents
      BY DEF SeqlockInv, SeqlockTypeOK
    <3>3. QED
      BY <3>1, <3>2 DEF Contents
  <2>3. Len(published) \in reader.floor .. Len(published)
    BY <2>1 DEF SeqlockInv, CopiedWords, SeqlockTypeOK
  <2>4. QED
    BY <2>1, <2>2, <2>3, ReturnStep
<1>3. QED
  BY <1>1, <1>2

\* SeqlockInv is an invariant, whatever the reader and the writer interleave.
THEOREM SeqlockInvariant == Spec => []SeqlockInv
<1>1. SeqlockInv /\ [Next]_vars => SeqlockInv'
  <2> SUFFICES ASSUME SeqlockInv, [Next]_vars PROVE SeqlockInv'
    OBVIOUS
  <2>1. CASE PublishControl \/ PublishTiming
    BY <2>1, PublishStep
  <2>2. CASE Mark
    BY <2>2, MarkStep
  <2>3. CASE \E w \in Word : WriteWord(w)
    BY <2>3, WriteStep
  <2>4. CASE Unmark
    BY <2>4, UnmarkStep
  <2>5. CASE Tick
    BY <2>5, TickStep
  <2>6. CASE LoadPre
    BY <2>6, LoadPreStep
  <2>7. CASE \E w \in Word : CopyWord(w)
    BY <2>7, CopyStep
  <2>8. CASE LoadPost
    BY <2>8, LoadPostStep
  <2>9. CASE UNCHANGED vars
    BY <2>9 DEF vars, SeqlockInv, SeqlockTypeOK, Counted, SharedWords, CopiedWords,
                AgreedFrameCurrent, Current
  <2>10. QED
    BY <2>1, <2>2, <2>3, <2>4, <2>5, <2>6, <2>7, <2>8, <2>9 DEF Next
<1>2. QED
  BY <1>1, SeqlockInitial, PTL DEF Spec

\* read_telemetry_snapshot never calls a copy whole that is torn or stale.
THEOREM FramesCurrent == Spec => []AgreedFrameCurrent
<1>1. SeqlockInv => AgreedFrameCurrent
  BY DEF SeqlockInv
<1>2. QED
  BY <1>1, SeqlockInvariant, PTL

(***************************************************************************)
(* The update loop of the bridge (BridgeLoop).                             *)
(***************************************************************************)

LEMMA LargerOfTwo ==
  ASSUME NEW a \in Int, NEW b \in Int
  PROVE  Max({a, b}) = IF a >= b THEN a ELSE b
  <1> DEFINE m == IF a >= b THEN a ELSE b
  <1>1. m \in {a, b} /\ \A y \in {a, b} : m >= y
    OBVIOUS
  <1>2. \A x \in {a, b} : (\A y \in {a, b} : x >= y) => x = m
    OBVIOUS
  <1>3. QED
    BY <1>1, <1>2 DEF Max

LEMMA LoopConstants == Period \in Nat \ {0} /\ MaxFrame \in Nat
  BY LoopAssumption

\* What the newest point already due leaves of the time.
LEMMA WholePeriods ==
  ASSUME NEW m \in Int, NEW k \in Nat \ {0}
  PROVE  m \div k \in Int /\ m - (m \div k) * k \in 0 .. k - 1
  OBVIOUS

LEMMA PointsInOrder ==
  ASSUME NEW a \in Int, NEW m \in Int, NEW k \in Nat \ {0}, a * k <= m
  PROVE  a <= m \div k
  OBVIOUS

LEMMA OnePeriodMore ==
  ASSUME NEW a \in Int, NEW k \in Nat
  PROVE  (a + 1) * k = a * k + k /\ a * k \in Int /\ (a >= 0 => a * k >= 0)
  OBVIOUS

\* The loop's record, one field or two at a time.
LEMMA GotoRecord ==
  ASSUME LoopTypes, NEW pc \in Stations, NEW wake \in Int, GotoPc(pc, wake)
  PROVE  /\ bridgeLoop'.pc = pc /\ bridgeLoop'.wake = wake
         /\ bridgeLoop'.iteration = bridgeLoop.iteration /\ bridgeLoop'.next = bridgeLoop.next
         /\ bridgeLoop'.hold = bridgeLoop.hold
         /\ bridgeLoop' \in [pc : Stations, iteration : Nat, next : Nat, wake : Int, hold : BOOLEAN]
         /\ UNCHANGED << monotonic, mode, startFile, stopped, grid, positions, solved >>
  <1> DEFINE one == [bridgeLoop EXCEPT !.pc = pc]
  <1>1. bridgeLoop \in [pc : Stations, iteration : Nat, next : Nat, wake : Int, hold : BOOLEAN]
    BY DEF LoopTypes
  <1>2. /\ one \in [pc : Stations, iteration : Nat, next : Nat, wake : Int, hold : BOOLEAN]
        /\ one.pc = pc /\ one.iteration = bridgeLoop.iteration /\ one.next = bridgeLoop.next
        /\ one.hold = bridgeLoop.hold
    BY <1>1
  <1>3. bridgeLoop' = [one EXCEPT !.wake = wake]
    BY DEF GotoPc
  <1> HIDE DEF one
  <1>4. QED
    BY <1>2, <1>3 DEF GotoPc

LEMMA LoopInitInv == LoopInit => LoopInv
  <1> SUFFICES ASSUME LoopInit PROVE LoopInv
    OBVIOUS
  <1>1. mode \in Modes /\ mode.hold \in BOOLEAN /\ mode.grid \in BOOLEAN /\ (mode.hold => mode.grid)
    BY DEF LoopInit, Modes
  <1>2. /\ monotonic = 0 /\ startFile = FALSE /\ stopped = FALSE /\ solved = << >>
        /\ bridgeLoop = [pc |-> "top", iteration |-> 0, next |-> 0, wake |-> 0, hold |-> mode.hold]
        /\ grid = [anchor |-> IF mode.grid /\ ~mode.hold THEN 0 ELSE -1, last |-> -1, skipped |-> 0]
    BY DEF LoopInit, Anchored, None
  <1>3. /\ bridgeLoop \in [pc : Stations, iteration : Nat, next : Nat, wake : Int, hold : BOOLEAN]
        /\ bridgeLoop.pc = "top" /\ bridgeLoop.iteration = 0 /\ bridgeLoop.next = 0
        /\ bridgeLoop.hold = mode.hold
    BY <1>1, <1>2 DEF Stations
  <1>4. /\ grid \in [anchor : Int, last : Int, skipped : Int] /\ grid.last = -1 /\ grid.skipped = 0
        /\ grid.anchor = (IF mode.grid /\ ~mode.hold THEN 0 ELSE -1)
    BY <1>1, <1>2
  <1>5. solved \in Seq([index : Int, at : Nat, scenario : Int]) /\ Len(solved) = 0
        /\ DOMAIN solved = {}
    BY <1>2
  <1>6. LoopTypes
    BY <1>1, <1>2, <1>3, <1>4, <1>5 DEF LoopTypes
  <1>7. Runs = {} /\ Cardinality(Runs) = 0
    BY <1>5, FS_EmptySet DEF Runs
  <1>8. HoldFirst
    BY <1>2, <1>3, <1>5 DEF HoldFirst
  <1>9. GridKept
    BY <1>1, <1>3, <1>4, <1>7 DEF GridKept, None
  <1>10. WallKept /\ NoBurst
    BY <1>3, <1>5 DEF WallKept, NoBurst
  <1>11. FeedKept
    <2>1. positions = [wire |-> << >>, sent |-> 0, sample |-> [n |-> 0, nodes |-> {}],
             received |-> 0, invalid |-> 0, dropped |-> 0, kept |-> 0,
             external |-> {}, mentioned |-> {}, good |-> 0]
      BY DEF LoopInit
    <2>2. positions.wire = << >> /\ positions.sample = [n |-> 0, nodes |-> {}]
      BY <2>1
    <2>3. ValidFrames = {}
      BY <2>2 DEF ValidFrames
    <2>4. [n |-> 0, nodes |-> {}] \in [n : Nat, nodes : SUBSET Node]
      OBVIOUS
    <2>5. << >> \in Seq([n : Nat, nodes : SUBSET Node, valid : BOOLEAN])
      OBVIOUS
    <2>6. QED
      BY <2>1, <2>2, <2>3, <2>4, <2>5 DEF FeedKept
  <1>12. QED
    BY <1>6, <1>8, <1>9, <1>10, <1>11 DEF LoopInv

LEMMA SequenceEntry ==
  ASSUME NEW S, NEW s \in Seq(S), NEW i \in 1 .. Len(s)
  PROVE  s[i] \in S
  OBVIOUS

\* The updates so far and those of grid points among them.
LEMMA SolvedEntries ==
  ASSUME LoopTypes
  PROVE  /\ Len(solved) \in Nat /\ DOMAIN solved = 1 .. Len(solved)
         /\ \A i \in 1 .. Len(solved) :
               solved[i].index \in Int /\ solved[i].at \in Nat /\ solved[i].scenario \in Int
         /\ Runs \subseteq 1 .. Len(solved) /\ IsFiniteSet(Runs) /\ Cardinality(Runs) \in Nat
         /\ Following \in Int
  <1>1. solved \in Seq([index : Int, at : Nat, scenario : Int])
    BY DEF LoopTypes
  <1>2. Len(solved) \in Nat /\ DOMAIN solved = 1 .. Len(solved)
    BY <1>1
  <1>3. \A i \in 1 .. Len(solved) : solved[i] \in [index : Int, at : Nat, scenario : Int]
    BY ONLY <1>1, SequenceEntry
  <1>4. \A i \in 1 .. Len(solved) :
          solved[i].index \in Int /\ solved[i].at \in Nat /\ solved[i].scenario \in Int
    BY <1>3
  <1>5. Runs \subseteq 1 .. Len(solved)
    BY <1>2, Zenon DEF Runs
  <1>6. IsFiniteSet(1 .. Len(solved))
    BY <1>2, FS_Interval
  <1>7. IsFiniteSet(Runs)
    BY <1>5, <1>6, FS_Subset
  <1>8. Cardinality(Runs) \in Nat
    BY <1>7, FS_CardinalityType
  <1>9. Following \in Int
    <2>1. grid.last \in Int
      BY DEF LoopTypes
    <2>2. QED
      BY <2>1 DEF Following
  <1>10. QED
    BY <1>2, <1>4, <1>5, <1>7, <1>8, <1>9

\* Points and updates that a step leaves as they are.
LEMMA RunsStay ==
  ASSUME UNCHANGED << solved, grid >>
  PROVE  Runs' = Runs /\ Following' = Following /\ \A i \in Int : Due(i)' = Due(i)
  BY DEF Runs, Following, Due

LEMMA FeedStays ==
  ASSUME FeedKept, UNCHANGED positions
  PROVE  FeedKept'
  BY DEF FeedKept, ValidFrames

\* The loop goes to another place and changes nothing else.
LEMMA GotoStep ==
  ASSUME LoopInv, NEW pc \in Stations \ {"solve", "anchored"}, NEW wake \in Int, GotoPc(pc, wake),
         pc = "failed" \/ bridgeLoop.pc \notin {"solve", "failed"},
         pc = "top" => bridgeLoop.pc = "hold",
         pc = "hold" => mode.grid,
         pc = "sleep" => IF mode.grid THEN ~bridgeLoop.hold /\ wake = Due(Following)
                         ELSE bridgeLoop.pc = "top" /\ wake = bridgeLoop.next
  PROVE  LoopInv'
  <1>1. /\ bridgeLoop'.pc = pc /\ bridgeLoop'.wake = wake
        /\ bridgeLoop'.iteration = bridgeLoop.iteration /\ bridgeLoop'.next = bridgeLoop.next
        /\ bridgeLoop'.hold = bridgeLoop.hold
        /\ bridgeLoop' \in [pc : Stations, iteration : Nat, next : Nat, wake : Int, hold : BOOLEAN]
        /\ UNCHANGED << monotonic, mode, startFile, stopped, grid, positions, solved >>
    BY GotoRecord DEF LoopInv
  <1>2. LoopTypes'
    BY <1>1 DEF LoopInv, LoopTypes
  <1>3. HoldFirst'
    BY <1>1 DEF LoopInv, HoldFirst
  <1>4. Runs' = Runs /\ Following' = Following /\ \A i \in Int : Due(i)' = Due(i)
    BY <1>1, RunsStay
  <1>5. GridKept'
    <2>1. CASE mode.grid
      <3>1. \A i \in Runs : solved[i].index \in Int
        BY SolvedEntries DEF LoopInv
      <3>2. Following \in Int
        BY SolvedEntries DEF LoopInv
      <3>3. /\ bridgeLoop.hold <=> grid.anchor = None
            /\ bridgeLoop.hold => grid.last = None /\ Runs = {}
            /\ grid.last >= None /\ grid.anchor >= None
            /\ Cardinality(Runs) + grid.skipped = grid.last + 1
            /\ \A i \in Runs : /\ 0 <= solved[i].index /\ solved[i].index <= grid.last
                               /\ solved[i].scenario = solved[i].index * Period
                               /\ solved[i].at - Due(solved[i].index) \in 0 .. Period - 1
            /\ \A i, j \in Runs : i < j => solved[i].index < solved[j].index
            /\ bridgeLoop.pc \in {"sleep", "anchored"} => ~bridgeLoop.hold
        BY <2>1 DEF LoopInv, GridKept
      <3>4. \A i \in Runs : Due(solved[i].index)' = Due(solved[i].index)
        BY <1>1, <1>4, <3>1
      <3>5. (bridgeLoop.pc \in {"sleep", "anchored"} => ~bridgeLoop.hold)'
        BY <1>1, <2>1
      <3>6. (bridgeLoop.pc = "sleep" => bridgeLoop.wake = Due(Following))'
        BY <1>1, <1>4, <2>1, <3>2
      <3>7. \A i \in Runs' : /\ 0 <= solved'[i].index /\ solved'[i].index <= grid'.last
                            /\ solved'[i].scenario = solved'[i].index * Period
                            /\ solved'[i].at - Due(solved[i].index)' \in 0 .. Period - 1
        BY <1>1, <1>4, <3>3, <3>4
      <3>8. QED
        BY <1>1, <1>4, <2>1, <3>3, <3>5, <3>6, <3>7 DEF GridKept
    <2>2. CASE ~mode.grid
      BY <1>1, <1>4, <2>2 DEF LoopInv, GridKept
    <2>3. QED
      BY <2>1, <2>2
  <1>6. WallKept'
    <2>1. CASE mode.grid
      BY <1>1, <2>1 DEF WallKept
    <2>2. CASE ~mode.grid
      BY <1>1, <2>2 DEF LoopInv, WallKept
    <2>3. QED
      BY <2>1, <2>2
  <1>7. NoBurst' /\ FeedKept'
    BY <1>1, FeedStays DEF LoopInv, NoBurst
  <1>8. QED
    BY <1>2, <1>3, <1>5, <1>6, <1>7 DEF LoopInv

LEMMA WaitingSteps ==
  ASSUME LoopInv,
         \/ Finish \/ WallSleep \/ HoldWait \/ HoldWake \/ GridSleep \/ SleepStopped \/ FailUpdate
  PROVE  LoopInv'
  <1>1. monotonic \in Nat /\ bridgeLoop.next \in Nat /\ Following \in Int /\ grid.anchor \in Int
    BY SolvedEntries DEF LoopInv, LoopTypes
  <1>2. CASE Finish
    BY <1>1, <1>2, GotoStep DEF Finish, Stations
  <1>3. CASE WallSleep
    BY <1>1, <1>3, GotoStep DEF WallSleep, Stations
  <1>4. CASE HoldWait
    <2>1. monotonic + 1 \in Int
      BY <1>1
    <2>2. QED
      BY <1>4, <2>1, GotoStep DEF HoldWait, Stations
  <1>5. CASE HoldWake
    BY <1>1, <1>5, GotoStep DEF HoldWake, Stations
  <1>6. CASE GridSleep
    <2>1. mode.grid /\ ~bridgeLoop.hold /\ bridgeLoop.pc \in {"anchored", "top"}
      BY <1>6 DEF GridSleep, GridPc, LoopInv, GridKept, WallKept
    <2>2. Due(Following) \in Int
      BY <1>1, LoopConstants DEF Due
    <2>3. QED
      BY <1>6, <2>1, <2>2, GotoStep DEF GridSleep, Stations
  <1>7. CASE SleepStopped
    BY <1>1, <1>7, GotoStep DEF SleepStopped, Stations
  <1>8. CASE FailUpdate
    BY <1>1, <1>8, GotoStep DEF FailUpdate, Stations
  <1>9. QED
    BY <1>2, <1>3, <1>4, <1>5, <1>6, <1>7, <1>8

\* Grid points stay accounted for in a step that solves and sleeps nothing.
LEMMA GridStays ==
  ASSUME LoopInv, UNCHANGED << mode, solved, grid >>, bridgeLoop'.hold = bridgeLoop.hold,
         bridgeLoop'.pc \in {bridgeLoop.pc, "top"},
         bridgeLoop'.pc = "sleep" => bridgeLoop'.wake = bridgeLoop.wake
  PROVE  GridKept'
  <1>1. Runs' = Runs /\ Following' = Following /\ \A i \in Int : Due(i)' = Due(i)
    BY RunsStay
  <1>2. (\A i \in Runs : solved[i].index \in Int) /\ Following \in Int
    BY SolvedEntries DEF LoopInv
  <1>3. CASE mode.grid
    <2>1. /\ bridgeLoop.hold <=> grid.anchor = None
          /\ bridgeLoop.hold => grid.last = None /\ Runs = {}
          /\ grid.last >= None /\ grid.anchor >= None
          /\ Cardinality(Runs) + grid.skipped = grid.last + 1
          /\ \A i \in Runs : /\ 0 <= solved[i].index /\ solved[i].index <= grid.last
                             /\ solved[i].scenario = solved[i].index * Period
                             /\ solved[i].at - Due(solved[i].index) \in 0 .. Period - 1
          /\ \A i, j \in Runs : i < j => solved[i].index < solved[j].index
          /\ bridgeLoop.pc \in {"sleep", "anchored"} => ~bridgeLoop.hold
          /\ bridgeLoop.pc = "sleep" => bridgeLoop.wake = Due(Following)
      BY <1>3 DEF LoopInv, GridKept
    <2>2. \A i \in Runs : Due(solved[i].index)' = Due(solved[i].index)
      BY <1>1, <1>2
    <2>3. (bridgeLoop.pc \in {"sleep", "anchored"} => ~bridgeLoop.hold)'
      BY <2>1
    <2>4. (bridgeLoop.pc = "sleep" => bridgeLoop.wake = Due(Following))'
      BY <1>1, <1>2, <2>1
    <2>5. \A i \in Runs' : /\ 0 <= solved'[i].index /\ solved'[i].index <= grid'.last
                          /\ solved'[i].scenario = solved'[i].index * Period
                          /\ solved'[i].at - Due(solved[i].index)' \in 0 .. Period - 1
      BY <1>1, <2>1, <2>2
    <2>6. QED
      BY <1>1, <1>3, <2>1, <2>3, <2>4, <2>5 DEF GridKept
  <1>4. CASE ~mode.grid
    BY <1>1, <1>4 DEF LoopInv, GridKept
  <1>5. QED
    BY <1>3, <1>4

LEMMA WorldSteps ==
  ASSUME LoopInv, StartMeasurement \/ SignalStop \/ LoopTick \/ UNCHANGED loopVars
  PROVE  LoopInv'
  <1>1. /\ UNCHANGED << mode, bridgeLoop, grid, positions, solved >>
        /\ monotonic' \in Nat /\ monotonic <= monotonic'
        /\ startFile' \in BOOLEAN /\ (startFile => startFile') /\ stopped' \in BOOLEAN
    <2>1. monotonic \in Nat
      BY DEF LoopInv, LoopTypes
    <2>2. monotonic' \in Nat /\ monotonic <= monotonic'
      BY <2>1 DEF StartMeasurement, SignalStop, LoopTick, loopVars
    <2>3. startFile' \in BOOLEAN /\ (startFile => startFile') /\ stopped' \in BOOLEAN
      BY DEF LoopInv, LoopTypes, StartMeasurement, SignalStop, LoopTick, loopVars
    <2>4. QED
      BY <2>2, <2>3 DEF StartMeasurement, SignalStop, LoopTick, loopVars
  <1>2. LoopTypes'
    BY <1>1 DEF LoopInv, LoopTypes
  <1>3. HoldFirst' /\ NoBurst'
    BY <1>1 DEF LoopInv, HoldFirst, NoBurst
  <1>4. GridKept' /\ FeedKept'
    BY <1>1, GridStays, FeedStays DEF LoopInv
  <1>5. WallKept'
    <2>1. monotonic \in Nat /\ \A i \in DOMAIN solved : solved[i].at \in Nat
      BY SolvedEntries DEF LoopInv, LoopTypes
    <2>2. ~mode.grid => \A i \in DOMAIN solved : solved[i].at <= monotonic'
      BY <1>1, <2>1 DEF LoopInv, WallKept
    <2>3. QED
      BY <1>1, <2>2 DEF LoopInv, WallKept
  <1>6. QED
    BY <1>2, <1>3, <1>4, <1>5 DEF LoopInv

LEMMA EndUpdateStep == ASSUME LoopInv, EndUpdate PROVE LoopInv'
  <1> DEFINE one == [bridgeLoop EXCEPT !.pc = "top"]
             two == [one EXCEPT !.iteration = bridgeLoop.iteration + 1]
  <1>1. bridgeLoop \in [pc : Stations, iteration : Nat, next : Nat, wake : Int, hold : BOOLEAN]
        /\ monotonic \in Nat
    BY DEF LoopInv, LoopTypes
  <1>2. /\ one \in [pc : Stations, iteration : Nat, next : Nat, wake : Int, hold : BOOLEAN]
        /\ one.pc = "top" /\ one.iteration = bridgeLoop.iteration /\ one.hold = bridgeLoop.hold
    BY <1>1 DEF Stations
  <1>3. NextUpdate \in Nat
        /\ (~mode.grid => bridgeLoop.next + Period <= NextUpdate /\ monotonic <= NextUpdate)
    <2>1. bridgeLoop.next \in Nat /\ bridgeLoop.next + Period \in Nat /\ monotonic \in Nat
      BY <1>1, LoopConstants
    <2>2. Max({bridgeLoop.next + Period, monotonic})
            = IF bridgeLoop.next + Period >= monotonic THEN bridgeLoop.next + Period ELSE monotonic
      BY <2>1, LargerOfTwo
    <2>3. QED
      BY <2>1, <2>2 DEF NextUpdate
  <1>4. bridgeLoop' = [two EXCEPT !.next = NextUpdate]
    BY DEF EndUpdate
  <1> HIDE DEF one
  <1>5. /\ two \in [pc : Stations, iteration : Nat, next : Nat, wake : Int, hold : BOOLEAN]
        /\ two.pc = "top" /\ two.iteration = bridgeLoop.iteration + 1 /\ two.hold = bridgeLoop.hold
    BY <1>1, <1>2
  <1> HIDE DEF two
  <1>6. /\ bridgeLoop' \in [pc : Stations, iteration : Nat, next : Nat, wake : Int, hold : BOOLEAN]
        /\ bridgeLoop'.pc = "top" /\ bridgeLoop'.iteration = bridgeLoop.iteration + 1
        /\ bridgeLoop'.hold = bridgeLoop.hold /\ bridgeLoop'.next = NextUpdate
    BY <1>3, <1>4, <1>5
  <1>7. bridgeLoop.pc = "solve" /\ UNCHANGED << monotonic, mode, startFile, stopped, grid, positions, solved >>
    BY DEF EndUpdate
  <1>8. LoopTypes'
    BY <1>6, <1>7 DEF LoopInv, LoopTypes
  <1>9. HoldFirst'
    <2>1. Len(solved) \in Nat /\ bridgeLoop.iteration \in Nat /\ bridgeLoop.iteration < Len(solved)
      BY <1>1, <1>7, SolvedEntries DEF LoopInv, HoldFirst
    <2>2. bridgeLoop'.iteration <= Len(solved) /\ bridgeLoop'.iteration # 0
      BY <1>6, <2>1
    <2>3. QED
      BY <1>6, <1>7, <2>2 DEF LoopInv, HoldFirst
  <1>10. GridKept' /\ FeedKept'
    BY <1>6, <1>7, GridStays, FeedStays DEF LoopInv
  <1>11. NoBurst'
    BY <1>7 DEF LoopInv, NoBurst
  <1>12. WallKept'
    <2>1. CASE mode.grid
      BY <1>7, <2>1 DEF WallKept
    <2>2. CASE ~mode.grid
      <3>1. /\ Len(solved) \in Nat /\ DOMAIN solved = 1 .. Len(solved)
            /\ \A i \in DOMAIN solved : solved[i].at \in Nat /\ solved[i].at <= monotonic
            /\ \A i \in DOMAIN solved : i < Len(solved) =>
                 solved[i].at + (Len(solved) - 1 - i) * Period <= bridgeLoop.next
        BY <1>7, <2>2, SolvedEntries DEF LoopInv, WallKept
      <3>2. ASSUME NEW i \in 1 .. Len(solved)
            PROVE  solved[i].at + (Len(solved) - i) * Period <= NextUpdate
        <4>1. CASE i = Len(solved)
          <5>1. (Len(solved) - i) * Period = 0
            BY <3>1, <4>1, LoopConstants
          <5>2. QED
            BY <1>1, <1>3, <2>2, <3>1, <5>1
        <4>2. CASE i < Len(solved)
          <5> DEFINE a == Len(solved) - 1 - i
          <5>1. a \in Int /\ Len(solved) - i = a + 1
            BY <3>1
          <5>2. (a + 1) * Period = a * Period + Period /\ a * Period \in Int
            BY <5>1, LoopConstants, OnePeriodMore
          <5>3. solved[i].at + a * Period <= bridgeLoop.next
            BY <3>1, <4>2
          <5> HIDE DEF a
          <5>4. solved[i].at + (a + 1) * Period <= NextUpdate
            <6>1. bridgeLoop.next + Period <= NextUpdate /\ bridgeLoop.next \in Int
                  /\ NextUpdate \in Int /\ solved[i].at \in Int /\ Period \in Int
              BY <1>1, <1>3, <2>2, <3>1, LoopConstants
            <6>2. QED
              BY ONLY <5>2, <5>3, <6>1
          <5>5. QED
            BY <5>1, <5>4
        <4>3. QED
          BY <3>1, <4>1, <4>2
      <3>3. QED
        BY <1>6, <1>7, <2>2, <3>1, <3>2 DEF WallKept
    <2>3. QED
      BY <2>1, <2>2
  <1>13. QED
    BY <1>8, <1>9, <1>10, <1>11, <1>12 DEF LoopInv

LEMMA AnchorGridStep == ASSUME LoopInv, AnchorGrid PROVE LoopInv'
  <1> DEFINE one == [bridgeLoop EXCEPT !.pc = "anchored"]
  <1>1. bridgeLoop \in [pc : Stations, iteration : Nat, next : Nat, wake : Int, hold : BOOLEAN]
        /\ monotonic \in Nat /\ grid \in [anchor : Int, last : Int, skipped : Int]
    BY DEF LoopInv, LoopTypes
  <1>2. /\ one \in [pc : Stations, iteration : Nat, next : Nat, wake : Int, hold : BOOLEAN]
        /\ one.pc = "anchored" /\ one.iteration = bridgeLoop.iteration
    BY <1>1 DEF Stations
  <1>3. /\ bridgeLoop' = [one EXCEPT !.hold = FALSE] /\ mode.grid /\ bridgeLoop.hold
        /\ bridgeLoop.iteration > 0 /\ startFile
        /\ grid' = [anchor |-> monotonic, last |-> -1, skipped |-> 0]
        /\ UNCHANGED << monotonic, mode, startFile, stopped, positions, solved >>
    BY DEF AnchorGrid, Holding, Anchored, None
  <1> HIDE DEF one
  <1>4. /\ bridgeLoop' \in [pc : Stations, iteration : Nat, next : Nat, wake : Int, hold : BOOLEAN]
        /\ bridgeLoop'.pc = "anchored" /\ bridgeLoop'.iteration = bridgeLoop.iteration
        /\ bridgeLoop'.hold = FALSE
    BY <1>2, <1>3
  <1>5. /\ grid' \in [anchor : Int, last : Int, skipped : Int]
        /\ grid'.anchor = monotonic /\ grid'.last = -1 /\ grid'.skipped = 0
    BY <1>1, <1>3
  <1>6. LoopTypes'
    BY <1>3, <1>4, <1>5 DEF LoopInv, LoopTypes
  <1>7. HoldFirst'
    <2>1. Len(solved) \in Nat /\ bridgeLoop.iteration \in Nat /\ bridgeLoop.iteration <= Len(solved)
      BY <1>1, SolvedEntries DEF LoopInv, HoldFirst
    <2>2. solved # << >>
      BY <1>3, <2>1
    <2>3. QED
      BY <1>3, <1>4, <2>2 DEF LoopInv, HoldFirst
  <1>8. GridKept'
    <2>1. Runs' = {} /\ Cardinality(Runs') = 0
      BY <1>3, FS_EmptySet DEF LoopInv, GridKept, Runs
    <2>2. grid'.anchor # -1 /\ grid'.anchor >= -1 /\ grid'.last >= -1
          /\ Cardinality(Runs') + grid'.skipped = grid'.last + 1
      BY <1>1, <1>5, <2>1
    <2>3. QED
      BY <1>3, <1>4, <2>1, <2>2 DEF GridKept, None
  <1>9. WallKept' /\ NoBurst' /\ FeedKept'
    BY <1>3, FeedStays DEF LoopInv, WallKept, NoBurst
  <1>10. QED
    BY <1>6, <1>7, <1>8, <1>9 DEF LoopInv

(***************************************************************************)
(* The position feed.                                                      *)
(***************************************************************************)
PositionFrame == [n : Nat, nodes : SUBSET Node, valid : BOOLEAN]

LEMMA FrameFacts ==
  ASSUME FeedKept
  PROVE  /\ positions.wire \in Seq(PositionFrame) /\ Len(positions.wire) \in Nat
         /\ DOMAIN positions.wire = 1 .. Len(positions.wire)
         /\ \A i \in 1 .. Len(positions.wire) : positions.wire[i] \in PositionFrame
         /\ ValidFrames \subseteq 1 .. Len(positions.wire)
         /\ IsFiniteSet(ValidFrames) /\ Cardinality(ValidFrames) \in Nat
         /\ positions.sent \in Nat /\ positions.good \in Nat
         /\ positions.sample \in [n : Nat, nodes : SUBSET Node]
         /\ positions.received \in Int /\ positions.invalid \in Int /\ positions.dropped \in Int
         /\ positions.kept \in Int /\ positions.external \in SUBSET Node
         /\ positions.mentioned \in SUBSET Node
  <1>1. positions \in
          [wire : Seq(PositionFrame), sent : Nat,
           sample : [n : Nat, nodes : SUBSET Node], received : Int, invalid : Int, dropped : Int,
           kept : Int, external : SUBSET Node, mentioned : SUBSET Node, good : Nat]
    BY DEF FeedKept, PositionFrame
  <1>2. positions.wire \in Seq(PositionFrame)
    BY <1>1
  <1>3. Len(positions.wire) \in Nat /\ DOMAIN positions.wire = 1 .. Len(positions.wire)
    BY <1>2
  <1>4. \A i \in 1 .. Len(positions.wire) : positions.wire[i] \in PositionFrame
    BY ONLY <1>2, SequenceEntry
  <1>5. ValidFrames \subseteq 1 .. Len(positions.wire)
    BY <1>3, Zenon DEF ValidFrames
  <1>6. IsFiniteSet(1 .. Len(positions.wire))
    BY <1>3, FS_Interval
  <1>7. IsFiniteSet(ValidFrames)
    BY <1>5, <1>6, FS_Subset
  <1>8. Cardinality(ValidFrames) \in Nat
    BY <1>7, FS_CardinalityType
  <1>9. QED
    BY <1>1, <1>2, <1>3, <1>4, <1>5, <1>7, <1>8

LEMMA PollAccounts ==
  ASSUME FeedKept, positions' = FeedPoll
  PROVE  FeedKept'
  <1> DEFINE k == Cardinality(ValidFrames)
             new == Newest(ValidFrames)
             over == Max({0, k - 1})
             taken == Min({1, k})
  <1>1. /\ positions.wire \in Seq(PositionFrame) /\ Len(positions.wire) \in Nat
        /\ ValidFrames \subseteq 1 .. Len(positions.wire)
        /\ \A i \in 1 .. Len(positions.wire) : positions.wire[i] \in PositionFrame
        /\ positions.sample \in [n : Nat, nodes : SUBSET Node] /\ positions.mentioned \in SUBSET Node
    BY FrameFacts
  <1>2. /\ k \in Nat /\ positions.sent \in Nat /\ positions.good \in Nat
        /\ positions.received \in Int /\ positions.invalid \in Int /\ positions.dropped \in Int
        /\ positions.kept \in Int
    BY FrameFacts
  <1>3. new \in [n : Nat, nodes : SUBSET Node] /\ new.n = positions.good
    <2>1. CASE ValidFrames = {}
      BY <1>1, <2>1 DEF FeedKept, Newest
    <2>2. CASE ValidFrames # {}
      <3>1. PICK i \in ValidFrames : (\A j \in ValidFrames : j <= i) /\ positions.wire[i].n = positions.good
        BY <2>2 DEF FeedKept
      <3>2. \A j \in ValidFrames : j \in Int
        BY <1>1
      <3>3. Max(ValidFrames) = i
        <4>1. \A j \in ValidFrames : i >= j
          BY <3>1, <3>2
        <4>2. \A x \in ValidFrames : (\A j \in ValidFrames : x >= j) => x = i
          BY <3>1, <3>2
        <4>3. QED
          BY <4>1, <4>2 DEF Max
      <3>4. positions.wire[i] \in PositionFrame
        BY <1>1
      <3>5. new = [n |-> positions.wire[i].n, nodes |-> positions.wire[i].nodes]
        BY <2>2, <3>3 DEF Newest
      <3>6. QED
        BY <3>1, <3>4, <3>5 DEF PositionFrame
    <2>3. QED
      BY <2>1, <2>2
  <1>4. over \in Int /\ taken \in Int /\ over + taken = k
    <2>1. k - 1 \in Int /\ 0 \in Int /\ 1 \in Int /\ k \in Int /\ k >= 0
      BY <1>2
    <2>2. over = IF 0 >= k - 1 THEN 0 ELSE k - 1
      BY ONLY <2>1, LargerOfTwo
    <2>3. taken = IF 1 <= k THEN 1 ELSE k
      BY ONLY <2>1, SmallerOfTwo
    <2> HIDE DEF k, over, taken
    <2>4. QED
      BY ONLY <2>1, <2>2, <2>3
  <1>5. positions' =
          [wire |-> << >>, sent |-> positions.sent, good |-> positions.good,
           received |-> positions.received + Len(positions.wire),
           invalid |-> positions.invalid + Len(positions.wire) - k,
           dropped |-> positions.dropped + over,
           kept |-> positions.kept + taken,
           sample |-> new, external |-> new.nodes, mentioned |-> positions.mentioned \cup new.nodes]
    BY DEF FeedPoll, ValidFrames
  <1> HIDE DEF k, new, over, taken
  <1>6. /\ positions'.wire = << >> /\ positions'.sample = new /\ positions'.sent = positions.sent
        /\ positions'.good = positions.good
        /\ positions'.received = positions.received + Len(positions.wire)
        /\ positions'.invalid = positions.invalid + Len(positions.wire) - k
        /\ positions'.dropped = positions.dropped + over
        /\ positions'.kept = positions.kept + taken
    BY <1>5
  <1>7. /\ positions'.received = positions'.invalid + positions'.dropped + positions'.kept
        /\ positions.received + Len(positions.wire) \in Int
        /\ positions.invalid + Len(positions.wire) - k \in Int
        /\ positions.dropped + over \in Int /\ positions.kept + taken \in Int
    <2>1. positions.received = positions.invalid + positions.dropped + positions.kept
      BY DEF FeedKept
    <2>2. /\ positions.received \in Int /\ positions.invalid \in Int /\ positions.dropped \in Int
          /\ positions.kept \in Int /\ Len(positions.wire) \in Int /\ k \in Int
      BY <1>1, <1>2
    <2>3. /\ positions.received + Len(positions.wire) \in Int
          /\ positions.invalid + Len(positions.wire) - k \in Int
          /\ positions.dropped + over \in Int /\ positions.kept + taken \in Int
          /\ positions.received + Len(positions.wire)
               = (positions.invalid + Len(positions.wire) - k)
                   + (positions.dropped + over) + (positions.kept + taken)
      <3> DEFINE r == positions.received
                 bad == positions.invalid
                 d == positions.dropped
                 p == positions.kept
                 l == Len(positions.wire)
      <3>1. r \in Int /\ bad \in Int /\ d \in Int /\ p \in Int /\ l \in Int /\ r = bad + d + p
        BY <2>1, <2>2
      <3> HIDE DEF r, bad, d, p, l
      <3>2. r + l \in Int /\ bad + l - k \in Int /\ d + over \in Int /\ p + taken \in Int
        BY ONLY <1>4, <2>2, <3>1
      <3>3. r + l = (bad + l - k) + (d + over) + (p + taken)
        BY ONLY <1>4, <2>2, <3>1
      <3>4. QED
        BY ONLY <3>2, <3>3 DEF r, bad, d, p, l
    <2>4. QED
      BY ONLY <1>6, <2>3, Zenon
  <1>8. positions'.received + Len(positions'.wire) = positions'.sent
    <2>1. Len(<< >>) = 0
      OBVIOUS
    <2>2. QED
      BY <1>1, <1>2, <1>6, <2>1 DEF FeedKept
  <1>9. ValidFrames' = {}
    BY <1>6 DEF ValidFrames
  <1>11. << >> \in Seq(PositionFrame) /\ new.nodes \in SUBSET Node
         /\ positions.mentioned \cup new.nodes \in SUBSET Node
    BY <1>1, <1>3
  <1>12. positions' \in
          [wire : Seq(PositionFrame), sent : Nat,
           sample : [n : Nat, nodes : SUBSET Node], received : Int, invalid : Int, dropped : Int,
           kept : Int, external : SUBSET Node, mentioned : SUBSET Node, good : Nat]
    <2> DEFINE a == positions.received + Len(positions.wire)
               b == positions.invalid + Len(positions.wire) - k
               c == positions.dropped + over
               d == positions.kept + taken
               seen == positions.mentioned \cup new.nodes
               ext == new.nodes
               u == positions.sent
               g == positions.good
    <2>1. a \in Int /\ b \in Int /\ c \in Int /\ d \in Int /\ seen \in SUBSET Node
          /\ ext \in SUBSET Node /\ u \in Nat /\ g \in Nat
      BY <1>2, <1>7, <1>11
    <2>2. positions' = [wire |-> << >>, sent |-> u, good |-> g, received |-> a, invalid |-> b,
                        dropped |-> c, kept |-> d, sample |-> new, external |-> ext, mentioned |-> seen]
      BY <1>5
    <2> HIDE DEF a, b, c, d, seen, ext, u, g
    <2>3. << >> \in Seq(PositionFrame) /\ new \in [n : Nat, nodes : SUBSET Node]
      BY <1>3, <1>11
    <2>4. QED
      BY ONLY <2>1, <2>2, <2>3
  <1>13. QED
    BY <1>3, <1>6, <1>7, <1>8, <1>9, <1>12 DEF FeedKept, PositionFrame

\* A frame sent is the newest good one if it is valid.
LEMMA PublishFrameStep ==
  ASSUME LoopInv, NEW nodes \in SUBSET Node, NEW valid \in BOOLEAN, PublishFrame(nodes, valid)
  PROVE  LoopInv'
  <1> DEFINE n == positions.sent + 1
             f == [n |-> n, nodes |-> nodes, valid |-> valid]
             best == IF valid THEN n ELSE positions.good
             one == [positions EXCEPT !.sent = n]
             two == [one EXCEPT !.good = best]
             P == [wire : Seq(PositionFrame), sent : Nat,
                   sample : [n : Nat, nodes : SUBSET Node], received : Int, invalid : Int,
                   dropped : Int, kept : Int, external : SUBSET Node, mentioned : SUBSET Node,
                   good : Nat]
  <1>1. /\ positions.wire \in Seq(PositionFrame) /\ Len(positions.wire) \in Nat
        /\ ValidFrames \subseteq 1 .. Len(positions.wire)
        /\ DOMAIN positions.wire = 1 .. Len(positions.wire)
        /\ positions.sent \in Nat /\ positions.good \in Nat /\ positions.received \in Int
    BY FrameFacts DEF LoopInv
  <1>2. positions \in P /\ FeedKept
    BY DEF LoopInv, FeedKept, PositionFrame
  <1>3. n \in Nat /\ f \in PositionFrame /\ best \in Nat
    BY <1>1 DEF PositionFrame
  <1>4. /\ UNCHANGED << monotonic, mode, startFile, stopped, bridgeLoop, grid, solved >>
        /\ positions' = [two EXCEPT !.wire = Append(positions.wire, f)]
    BY DEF PublishFrame
  <1>5. one \in P /\ one.good = positions.good /\ one.wire = positions.wire
        /\ one.received = positions.received /\ one.invalid = positions.invalid
        /\ one.dropped = positions.dropped /\ one.kept = positions.kept
        /\ one.sample = positions.sample /\ one.sent = n
    BY <1>2, <1>3
  <1>6. f.n = n /\ f.valid = valid
    OBVIOUS
  <1> HIDE DEF one, f
  <1>7. two \in P /\ two.good = best /\ two.wire = positions.wire
        /\ two.received = positions.received /\ two.invalid = positions.invalid
        /\ two.dropped = positions.dropped /\ two.kept = positions.kept
        /\ two.sample = positions.sample /\ two.sent = n
    BY <1>3, <1>5
  <1> HIDE DEF two, best
  <1>8. Append(positions.wire, f) \in Seq(PositionFrame)
    BY <1>1, <1>3
  <1>9. positions' \in P /\ positions'.good = best /\ positions'.wire = Append(positions.wire, f)
        /\ positions'.received = positions.received /\ positions'.invalid = positions.invalid
        /\ positions'.dropped = positions.dropped /\ positions'.kept = positions.kept
        /\ positions'.sample = positions.sample /\ positions'.sent = n
    BY <1>4, <1>7, <1>8
  <1>10. /\ Len(positions'.wire) = Len(positions.wire) + 1
         /\ DOMAIN positions'.wire = 1 .. Len(positions.wire) + 1
         /\ \A i \in 1 .. Len(positions.wire) : positions'.wire[i] = positions.wire[i]
         /\ positions'.wire[Len(positions.wire) + 1] = f
    BY <1>1, <1>3, <1>9
  <1>11. ValidFrames' = IF valid THEN ValidFrames \cup {Len(positions.wire) + 1} ELSE ValidFrames
    <2>1. ValidFrames' = {i \in 1 .. Len(positions.wire) + 1 : positions'.wire[i].valid}
      BY <1>10 DEF ValidFrames
    <2>2. ValidFrames = {i \in 1 .. Len(positions.wire) : positions.wire[i].valid}
      BY <1>1 DEF ValidFrames
    <2>3. \A i : i \in 1 .. Len(positions.wire) + 1
                   <=> i \in 1 .. Len(positions.wire) \/ i = Len(positions.wire) + 1
      BY <1>1
    <2>4. Len(positions.wire) + 1 \notin 1 .. Len(positions.wire)
      BY <1>1
    <2>5. CASE valid
      BY <1>6, <1>10, <2>1, <2>2, <2>3, <2>4, <2>5, Zenon
    <2>6. CASE ~valid
      BY <1>6, <1>10, <2>1, <2>2, <2>3, <2>4, <2>6, Zenon
    <2>7. QED
      BY <2>5, <2>6
  <1>12. FeedKept'
    <2>1. positions'.received = positions'.invalid + positions'.dropped + positions'.kept
      BY <1>2, <1>9 DEF FeedKept
    <2>2. positions'.received + Len(positions'.wire) = positions'.sent
      BY <1>1, <1>2, <1>9, <1>10 DEF FeedKept
    <2>3. CASE valid
      <3>1. ValidFrames' = ValidFrames \cup {Len(positions.wire) + 1} /\ positions'.good = n
        BY <1>9, <1>11, <2>3 DEF best
      <3>2. \A j \in ValidFrames' : j <= Len(positions.wire) + 1
        <4>1. \A j \in 1 .. Len(positions.wire) : j <= Len(positions.wire) + 1
          BY <1>1
        <4>2. Len(positions.wire) + 1 <= Len(positions.wire) + 1
          BY <1>1
        <4>3. QED
          BY <1>1, <3>1, <4>1, <4>2, Zenon
      <3>3. positions'.wire[Len(positions.wire) + 1].n = positions'.good
        BY <1>6, <1>10, <3>1
      <3>4. QED
        BY <1>9, <2>1, <2>2, <3>1, <3>2, <3>3 DEF FeedKept, PositionFrame
    <2>4. CASE ~valid
      <3>1. ValidFrames' = ValidFrames /\ positions'.good = positions.good
        BY <1>9, <1>11, <2>4 DEF best
      <3>2. \A i \in ValidFrames : positions'.wire[i] = positions.wire[i]
        BY <1>1, <1>10
      <3>3. QED
        BY <1>2, <1>9, <2>1, <2>2, <3>1, <3>2 DEF FeedKept, PositionFrame
    <2>5. QED
      BY <2>3, <2>4
  <1>13. LoopTypes' /\ HoldFirst' /\ WallKept' /\ NoBurst'
    BY <1>4 DEF LoopInv, LoopTypes, HoldFirst, WallKept, NoBurst
  <1>14. GridKept'
    BY <1>4, GridStays
  <1>15. QED
    BY <1>12, <1>13, <1>14 DEF LoopInv

(***************************************************************************)
(* An update begins.                                                       *)
(***************************************************************************)
LEMMA BeginFacts ==
  ASSUME LoopInv, NEW index \in Int, NEW scenario \in Int, BeginUpdate(index, scenario)
  PROVE  /\ bridgeLoop' \in [pc : Stations, iteration : Nat, next : Nat, wake : Int, hold : BOOLEAN]
         /\ bridgeLoop'.pc = "solve" /\ bridgeLoop'.iteration = bridgeLoop.iteration
         /\ bridgeLoop'.next = bridgeLoop.next /\ bridgeLoop'.hold = bridgeLoop.hold
         /\ solved' \in Seq([index : Int, at : Nat, scenario : Int])
         /\ Len(solved') = Len(solved) + 1 /\ DOMAIN solved' = 1 .. Len(solved) + 1
         /\ \A i \in 1 .. Len(solved) : solved'[i] = solved[i]
         /\ solved'[Len(solved) + 1].index = index /\ solved'[Len(solved) + 1].at = monotonic
         /\ solved'[Len(solved) + 1].scenario = scenario
         /\ FeedKept'
         /\ UNCHANGED << monotonic, mode, startFile, stopped >>
  <1> DEFINE e == [index |-> index, at |-> monotonic, scenario |-> scenario]
  <1>1. /\ bridgeLoop \in [pc : Stations, iteration : Nat, next : Nat, wake : Int, hold : BOOLEAN]
        /\ solved \in Seq([index : Int, at : Nat, scenario : Int])
    BY DEF LoopInv, LoopTypes
  <1>2. e \in [index : Int, at : Nat, scenario : Int] /\ e.index = index /\ e.at = monotonic
        /\ e.scenario = scenario
    BY DEF LoopInv, LoopTypes
  <1>3. /\ bridgeLoop' = [bridgeLoop EXCEPT !.pc = "solve"] /\ solved' = Append(solved, e)
        /\ UNCHANGED << monotonic, mode, startFile, stopped >>
    BY DEF BeginUpdate
  <1> HIDE DEF e
  <1>4. /\ bridgeLoop' \in [pc : Stations, iteration : Nat, next : Nat, wake : Int, hold : BOOLEAN]
        /\ bridgeLoop'.pc = "solve" /\ bridgeLoop'.iteration = bridgeLoop.iteration
        /\ bridgeLoop'.next = bridgeLoop.next /\ bridgeLoop'.hold = bridgeLoop.hold
    BY <1>1, <1>3 DEF Stations
  <1>5. /\ solved' \in Seq([index : Int, at : Nat, scenario : Int])
        /\ Len(solved') = Len(solved) + 1 /\ DOMAIN solved' = 1 .. Len(solved) + 1
        /\ \A i \in 1 .. Len(solved) : solved'[i] = solved[i]
        /\ solved'[Len(solved) + 1] = e
    BY <1>1, <1>2, <1>3
  <1>6. FeedKept'
    <2>1. CASE mode.feed
      BY <2>1, PollAccounts DEF LoopInv, BeginUpdate
    <2>2. CASE ~mode.feed
      BY <2>2, FeedStays DEF LoopInv, BeginUpdate
    <2>3. QED
      BY <2>1, <2>2
  <1>7. QED
    BY <1>2, <1>3, <1>4, <1>5, <1>6

\* The updates of grid points, with one more or not.
LEMMA RunsGrow ==
  ASSUME LoopInv, NEW index \in Int, NEW scenario \in Int, BeginUpdate(index, scenario)
  PROVE  Runs' = IF index = None THEN Runs ELSE Runs \cup {Len(solved) + 1}
  <1>1. /\ Len(solved) \in Nat /\ DOMAIN solved = 1 .. Len(solved)
        /\ DOMAIN solved' = 1 .. Len(solved) + 1
        /\ \A i \in 1 .. Len(solved) : solved'[i] = solved[i]
        /\ solved'[Len(solved) + 1].index = index
    BY BeginFacts, SolvedEntries DEF LoopInv
  <1>2. Runs' = {i \in 1 .. Len(solved) + 1 : solved'[i].index # None}
    BY <1>1 DEF Runs
  <1>3. Runs = {i \in 1 .. Len(solved) : solved[i].index # None}
    BY <1>1 DEF Runs
  <1>4. \A i : i \in 1 .. Len(solved) + 1 <=> i \in 1 .. Len(solved) \/ i = Len(solved) + 1
    BY <1>1
  <1>5. Len(solved) + 1 \notin 1 .. Len(solved)
    BY <1>1
  <1>6. CASE index = None
    BY <1>1, <1>2, <1>3, <1>4, <1>5, <1>6, Zenon
  <1>7. CASE index # None
    BY <1>1, <1>2, <1>3, <1>4, <1>5, <1>7, Zenon
  <1>8. QED
    BY <1>6, <1>7

\* Scenario time 0, once, before anything else.
LEMMA HoldUpdateStep == ASSUME LoopInv, HoldUpdate PROVE LoopInv'
  <1>1. /\ bridgeLoop.pc = "top" /\ mode.grid /\ bridgeLoop.hold /\ bridgeLoop.iteration = 0
        /\ BeginUpdate(-1, 0) /\ UNCHANGED grid
    BY DEF HoldUpdate, Holding, None
  <1>2. solved = << >> /\ Len(solved) = 0 /\ mode.hold
    <2>1. solved = << >> /\ mode.hold
      BY <1>1 DEF LoopInv, HoldFirst
    <2>2. QED
      BY <2>1
  <1>3. /\ bridgeLoop' \in [pc : Stations, iteration : Nat, next : Nat, wake : Int, hold : BOOLEAN]
        /\ bridgeLoop'.pc = "solve" /\ bridgeLoop'.iteration = bridgeLoop.iteration
        /\ bridgeLoop'.next = bridgeLoop.next /\ bridgeLoop'.hold = bridgeLoop.hold
        /\ solved' \in Seq([index : Int, at : Nat, scenario : Int])
        /\ Len(solved') = 1 /\ solved'[1].index = -1 /\ solved'[1].scenario = 0
        /\ FeedKept'
        /\ UNCHANGED << monotonic, mode, startFile, stopped >>
    <2>1. -1 \in Int /\ 0 \in Int /\ 0 + 1 = 1
      OBVIOUS
    <2>2. QED
      BY <1>1, <1>2, <2>1, BeginFacts
  <1>4. Runs' = Runs
    BY <1>1, RunsGrow DEF None
  <1>5. Runs = {} /\ grid.last = -1 /\ grid.anchor = -1
    BY <1>1 DEF LoopInv, GridKept, None
  <1>6. LoopTypes'
    BY <1>1, <1>3 DEF LoopInv, LoopTypes
  <1>7. HoldFirst'
    BY <1>1, <1>2, <1>3 DEF HoldFirst, None
  <1>8. GridKept'
    BY <1>1, <1>3, <1>4, <1>5 DEF LoopInv, GridKept, None
  <1>9. WallKept' /\ NoBurst'
    BY <1>1, <1>3 DEF WallKept, NoBurst
  <1>10. QED
    BY <1>3, <1>6, <1>7, <1>8, <1>9 DEF LoopInv

\* An update on the wall clock: a period or more for every one before it.
LEMMA WallUpdateStep == ASSUME LoopInv, WallUpdate PROVE LoopInv'
  <1> DEFINE n == Len(solved)
  <1>1. BeginUpdate(-1, monotonic) /\ UNCHANGED grid /\ ~mode.grid
    BY DEF WallUpdate, None
  <1>2. /\ n \in Nat /\ DOMAIN solved = 1 .. n /\ \A i \in 1 .. n : solved[i].at \in Nat
        /\ monotonic \in Nat /\ bridgeLoop.next \in Nat /\ bridgeLoop.iteration \in Nat
    BY SolvedEntries DEF LoopInv, LoopTypes
  <1>3. bridgeLoop.pc \in {"top", "sleep"} /\ monotonic >= bridgeLoop.next
    BY <1>1, <1>2 DEF WallUpdate, LoopInv, WallKept
  <1>4. /\ bridgeLoop' \in [pc : Stations, iteration : Nat, next : Nat, wake : Int, hold : BOOLEAN]
        /\ bridgeLoop'.pc = "solve" /\ bridgeLoop'.iteration = bridgeLoop.iteration
        /\ bridgeLoop'.next = bridgeLoop.next /\ bridgeLoop'.hold = bridgeLoop.hold
        /\ solved' \in Seq([index : Int, at : Nat, scenario : Int])
        /\ Len(solved') = n + 1 /\ DOMAIN solved' = 1 .. n + 1
        /\ \A i \in 1 .. n : solved'[i] = solved[i]
        /\ solved'[n + 1].at = monotonic
        /\ FeedKept'
        /\ UNCHANGED << monotonic, mode, startFile, stopped >>
    <2>1. -1 \in Int /\ monotonic \in Int
      BY <1>2
    <2>2. QED
      BY <1>1, <2>1, BeginFacts
  <1>5. ~mode.hold /\ ~bridgeLoop.hold
    <2>1. ~mode.hold
      BY <1>1 DEF LoopInv, LoopTypes, Modes
    <2>2. QED
      BY <2>1 DEF LoopInv, HoldFirst
  <1>6. /\ \A i \in 1 .. n : solved[i].at <= monotonic
        /\ \A i \in 1 .. n : solved[i].at + (n - i) * Period <= bridgeLoop.next
        /\ \A i, j \in 1 .. n : i < j => solved[j].at - solved[i].at >= (j - i - 1) * Period
    BY <1>1, <1>2, <1>3 DEF LoopInv, WallKept, NoBurst
  <1>7. LoopTypes'
    BY <1>1, <1>4 DEF LoopInv, LoopTypes
  <1>8. HoldFirst'
    <2>1. bridgeLoop.iteration <= n
      BY DEF LoopInv, HoldFirst
    <2>2. bridgeLoop'.iteration <= Len(solved') /\ bridgeLoop'.iteration < Len(solved')
      BY <1>2, <1>4, <2>1
    <2>3. QED
      BY <1>4, <1>5, <2>2 DEF HoldFirst
  <1>9. GridKept'
    <2>1. Runs' = Runs
      <3>1. -1 \in Int /\ monotonic \in Int
        BY <1>2
      <3>2. QED
        BY <1>1, <3>1, RunsGrow DEF None
    <2>2. QED
      BY <1>1, <1>4, <2>1 DEF LoopInv, GridKept
  <1> HIDE DEF n
  <1>10. \A i \in 1 .. n + 1 : i # n + 1 => i \in 1 .. n
    BY <1>2
  <1>11. NoBurst'
    <2>1. ASSUME NEW i \in 1 .. n + 1, NEW j \in 1 .. n + 1, i < j
          PROVE  solved'[j].at - solved'[i].at >= (j - i - 1) * Period
      <3>1. i \in 1 .. n /\ solved'[i] = solved[i]
        BY <1>2, <1>4, <2>1
      <3>2. CASE j # n + 1
        <4>1. j \in 1 .. n /\ solved'[j] = solved[j]
          BY <1>4, <1>10, <3>2
        <4>2. QED
          BY <1>6, <2>1, <3>1, <4>1
      <3>3. CASE j = n + 1
        <4>1. solved'[j].at = monotonic /\ j - i - 1 = n - i /\ n - i \in Int
          BY <1>2, <1>4, <3>3
        <4>2. (n - i) * Period \in Int
          BY <4>1, LoopConstants
        <4>3. monotonic - solved[i].at >= (n - i) * Period
          BY <1>2, <1>3, <1>6, <3>1, <4>2
        <4>4. QED
          BY <3>1, <4>1, <4>3
      <3>4. QED
        BY <3>2, <3>3
    <2>2. QED
      BY <1>4, <2>1 DEF NoBurst
  <1>12. WallKept'
    <2>1. ASSUME NEW i \in DOMAIN solved' PROVE solved'[i].at <= monotonic'
      <3>1. CASE i = n + 1
        <4>1. monotonic <= monotonic /\ solved'[i].at = monotonic /\ monotonic' = monotonic
          BY <1>2, <1>4, <3>1
        <4>2. QED
          BY <4>1
      <3>2. CASE i # n + 1
        <4>1. i \in 1 .. n
          BY <1>4, <1>10, <3>2
        <4>2. QED
          BY <1>4, <1>6, <4>1
      <3>3. QED
        BY <3>1, <3>2
    <2>2. ASSUME NEW i \in DOMAIN solved', i < Len(solved')
          PROVE  solved'[i].at + (Len(solved') - 1 - i) * Period <= bridgeLoop'.next
      <3>1. i \in 1 .. n /\ Len(solved') - 1 - i = n - i
        <4>1. n \in Nat /\ i \in 1 .. n + 1 /\ Len(solved') = n + 1
          BY <1>2, <1>4, Zenon
        <4>2. QED
          BY ONLY <2>2, <4>1
      <3>2. QED
        BY <1>4, <1>6, <3>1
    <2>3. QED
      BY <1>4, <2>1, <2>2 DEF WallKept
  <1>13. QED
    BY <1>4, <1>7, <1>8, <1>9, <1>11, <1>12 DEF LoopInv

\* The point an update on the grid takes: the newest one due.
LEMMA PointTaken ==
  ASSUME LoopInv, GridUpdate
  PROVE  /\ mode.grid /\ ~bridgeLoop.hold /\ grid.anchor \in Nat
         /\ Following = grid.last + 1 /\ Following >= 0
         /\ NextPoint \in Int /\ Following <= NextPoint
         /\ monotonic - (grid.anchor + NextPoint * Period) \in 0 .. Period - 1
  <1> DEFINE m == monotonic - grid.anchor
             q == m \div Period
  <1>1. mode.grid /\ monotonic \in Nat /\ grid.anchor \in Int /\ grid.last \in Int /\ Following \in Int
    BY SolvedEntries DEF GridUpdate, LoopInv, LoopTypes
  <1>2. ~bridgeLoop.hold
    BY <1>1 DEF GridUpdate, GridPc, LoopInv, GridKept
  <1>3. grid.anchor \in Nat /\ grid.last >= -1
    <2>1. grid.anchor # -1 /\ grid.anchor >= -1 /\ grid.last >= -1
      BY <1>1, <1>2 DEF LoopInv, GridKept, None
    <2>2. QED
      BY <1>1, <2>1
  <1>4. Following = grid.last + 1 /\ Following >= 0
    BY <1>1, <1>3 DEF Following, None
  <1>5. monotonic >= Due(Following)
    <2>1. CASE GridPc /\ monotonic >= Due(Following)
      BY <2>1
    <2>2. CASE bridgeLoop.pc = "sleep" /\ monotonic >= bridgeLoop.wake
      BY <1>1, <2>2 DEF LoopInv, GridKept
    <2>3. QED
      BY <2>1, <2>2 DEF GridUpdate
  <1>6. m \in Int /\ Following * Period \in Int /\ Following * Period <= m
    <2>1. Following * Period \in Int
      BY <1>1, LoopConstants
    <2>2. monotonic >= grid.anchor + Following * Period
      BY <1>5 DEF Due
    <2>3. QED
      BY <1>1, <2>1, <2>2
  <1> HIDE DEF m
  <1>7. q \in Int /\ m - q * Period \in 0 .. Period - 1
    BY ONLY <1>6, LoopConstants, WholePeriods
  <1>8. Following <= q
    BY ONLY <1>1, <1>6, LoopConstants, PointsInOrder
  <1> HIDE DEF q
  <1>9. NextPoint = q
    <2>1. NextPoint = Max({Following, q})
      BY DEF NextPoint, m, q
    <2>2. Max({Following, q}) = IF Following >= q THEN Following ELSE q
      BY ONLY <1>1, <1>7, LargerOfTwo
    <2>3. QED
      BY <1>1, <1>7, <1>8, <2>1, <2>2
  <1>10. monotonic - (grid.anchor + q * Period) = m - q * Period
    <2>1. q * Period \in Int
      BY <1>7, LoopConstants
    <2>2. QED
      BY <1>1, <2>1 DEF m
  <1>11. QED
    BY <1>1, <1>2, <1>3, <1>4, <1>7, <1>8, <1>9, <1>10

\* An update on the grid: the newest point due, and those before it skipped.
LEMMA GridUpdateStep == ASSUME LoopInv, GridUpdate PROVE LoopInv'
  <1> DEFINE n == Len(solved)
             q == NextPoint
             s == Skipped
             one == [grid EXCEPT !.last = q]
  <1>1. /\ mode.grid /\ ~bridgeLoop.hold /\ grid.anchor \in Nat
        /\ Following = grid.last + 1 /\ Following >= 0
        /\ q \in Int /\ Following <= q
        /\ monotonic - (grid.anchor + q * Period) \in 0 .. Period - 1
    BY PointTaken
  <1>2. /\ n \in Nat /\ DOMAIN solved = 1 .. n
        /\ \A i \in 1 .. n : solved[i].index \in Int /\ solved[i].at \in Nat
        /\ Runs \subseteq 1 .. n /\ IsFiniteSet(Runs) /\ Cardinality(Runs) \in Nat
        /\ bridgeLoop.iteration \in Nat /\ grid \in [anchor : Int, last : Int, skipped : Int]
    BY SolvedEntries DEF LoopInv, LoopTypes
  <1>3. s = grid.skipped + q - Following /\ s \in Int /\ grid.skipped \in Int /\ grid.last \in Int
    BY <1>1, <1>2 DEF Skipped
  <1>4. grid' = [one EXCEPT !.skipped = s] /\ BeginUpdate(q, q * Period)
    BY DEF GridUpdate
  <1>5. q * Period \in Int /\ q >= 0 /\ q # None /\ q > grid.last
    BY <1>1, <1>3, LoopConstants DEF None
  <1>6. /\ bridgeLoop' \in [pc : Stations, iteration : Nat, next : Nat, wake : Int, hold : BOOLEAN]
        /\ bridgeLoop'.pc = "solve" /\ bridgeLoop'.iteration = bridgeLoop.iteration
        /\ bridgeLoop'.next = bridgeLoop.next /\ bridgeLoop'.hold = bridgeLoop.hold
        /\ solved' \in Seq([index : Int, at : Nat, scenario : Int])
        /\ Len(solved') = n + 1 /\ DOMAIN solved' = 1 .. n + 1
        /\ \A i \in 1 .. n : solved'[i] = solved[i]
        /\ solved'[n + 1].index = q /\ solved'[n + 1].at = monotonic
        /\ solved'[n + 1].scenario = q * Period
        /\ FeedKept'
        /\ UNCHANGED << monotonic, mode, startFile, stopped >>
    BY <1>1, <1>4, <1>5, BeginFacts
  <1>7. Runs' = Runs \cup {n + 1}
    BY <1>1, <1>4, <1>5, RunsGrow
  <1> HIDE DEF s, q, n
  <1>8. /\ one \in [anchor : Int, last : Int, skipped : Int] /\ one.last = q
        /\ one.anchor = grid.anchor
    BY <1>1, <1>2
  <1> HIDE DEF one
  <1>9. /\ grid' \in [anchor : Int, last : Int, skipped : Int] /\ grid'.last = q
        /\ grid'.anchor = grid.anchor /\ grid'.skipped = s
    BY <1>3, <1>4, <1>8
  <1>10. LoopTypes'
    BY <1>6, <1>9 DEF LoopInv, LoopTypes
  <1>11. HoldFirst'
    <2>1. bridgeLoop.iteration <= n /\ (mode.hold => startFile /\ solved # << >>
            /\ solved[1].scenario = 0 /\ solved[1].index = None)
      BY <1>1 DEF LoopInv, HoldFirst, n
    <2>2. bridgeLoop'.iteration <= Len(solved') /\ bridgeLoop'.iteration < Len(solved')
      <3>1. n \in Nat /\ bridgeLoop.iteration \in Nat /\ Len(solved') = n + 1
            /\ bridgeLoop'.iteration = bridgeLoop.iteration
        BY <1>2, <1>6, Zenon
      <3>2. QED
        BY ONLY <2>1, <3>1
    <2>3. solved # << >> => solved'[1] = solved[1] /\ solved' # << >>
      <3>1. solved # << >> => 1 \in 1 .. n
        BY <1>2 DEF n, LoopInv, LoopTypes
      <3>2. solved' # << >>
        BY <1>2, <1>6
      <3>3. QED
        BY <1>6, <3>1, <3>2
    <2>4. QED
      BY <1>1, <1>6, <2>1, <2>2, <2>3 DEF HoldFirst
  <1>12. GridKept'
    <2>1. /\ grid.last >= None /\ Cardinality(Runs) + grid.skipped = grid.last + 1
          /\ \A i \in Runs : /\ 0 <= solved[i].index /\ solved[i].index <= grid.last
                             /\ solved[i].scenario = solved[i].index * Period
                             /\ solved[i].at - Due(solved[i].index) \in 0 .. Period - 1
          /\ \A i, j \in Runs : i < j => solved[i].index < solved[j].index
      BY <1>1 DEF LoopInv, GridKept
    <2>2. n + 1 \notin Runs /\ \A i \in Runs : i \in 1 .. n /\ i < n + 1 /\ i \in Int
      <3>1. n \in Nat /\ Runs \subseteq 1 .. n
        BY <1>2
      <3> DEFINE R == Runs
      <3> HIDE DEF R
      <3>2. n + 1 \notin R /\ \A i \in R : i \in 1 .. n /\ i < n + 1 /\ i \in Int
        <4>1. R \subseteq 1 .. n
          BY <3>1 DEF R
        <4>2. QED
          BY ONLY <3>1, <4>1
      <3>3. QED
        BY <3>2 DEF R
    <2>3. Cardinality(Runs') = Cardinality(Runs) + 1
      <3>1. IsFiniteSet(Runs)
        BY <1>2
      <3>2. Cardinality(Runs \cup {n + 1}) = IF n + 1 \in Runs THEN Cardinality(Runs) ELSE Cardinality(Runs) + 1
        BY ONLY <3>1, FS_AddElement
      <3>3. QED
        BY <1>7, <2>2, <3>2
    <2>4. Cardinality(Runs') + grid'.skipped = grid'.last + 1
      <3> DEFINE c == Cardinality(Runs)
      <3>1. c \in Int /\ q \in Int /\ grid.skipped \in Int /\ grid.last \in Int /\ Following = grid.last + 1
            /\ s = grid.skipped + q - Following /\ c + grid.skipped = grid.last + 1
        BY <1>1, <1>2, <1>3, <2>1
      <3>2. Cardinality(Runs') = c + 1 /\ grid'.skipped = s /\ grid'.last = q
        BY <1>9, <2>3
      <3> HIDE DEF c
      <3>3. c + 1 + s = q + 1
        BY ONLY <3>1
      <3>4. QED
        BY ONLY <3>2, <3>3, Zenon
    <2>5. \A i \in Runs : solved'[i] = solved[i] /\ solved[i].index \in Int /\ solved[i].index < q
      <3> SUFFICES ASSUME NEW i \in Runs
                   PROVE  solved'[i] = solved[i] /\ solved[i].index \in Int /\ solved[i].index < q
        OBVIOUS
      <3>1. solved'[i] = solved[i] /\ solved[i].index \in Int /\ solved[i].index <= grid.last
        BY <1>2, <1>6, <2>1, <2>2, Zenon
      <3>2. grid.last \in Int /\ q \in Int /\ q > grid.last
        BY <1>1, <1>3, <1>5
      <3>3. QED
        BY ONLY <3>1, <3>2
    <2>6. ASSUME NEW i \in Runs'
          PROVE  /\ 0 <= solved'[i].index /\ solved'[i].index <= grid'.last
                 /\ solved'[i].scenario = solved'[i].index * Period
                 /\ solved'[i].at - Due(solved[i].index)' \in 0 .. Period - 1
      <3>1. CASE i \in Runs
        <4>1. Due(solved[i].index)' = Due(solved[i].index)
          BY <1>9, <2>5, <3>1 DEF Due
        <4>2. solved[i].index <= q
          BY <1>1, <2>5, <3>1
        <4>3. QED
          BY <1>9, <2>1, <2>5, <3>1, <4>1, <4>2
      <3>2. CASE i = n + 1
        <4>1. Due(solved[i].index)' = grid.anchor + q * Period
          BY <1>6, <1>9, <3>2 DEF Due
        <4>2. q <= q
          BY <1>1
        <4>3. QED
          BY <1>1, <1>5, <1>6, <1>9, <3>2, <4>1, <4>2
      <3>3. QED
        BY <1>7, <2>6, <3>1, <3>2
    <2>7. ASSUME NEW i \in Runs', NEW j \in Runs', i < j
          PROVE  solved'[i].index < solved'[j].index
      <3>1. i \in Runs
        BY <1>2, <1>7, <2>2, <2>7
      <3>2. CASE j \in Runs
        BY <2>1, <2>5, <2>7, <3>1, <3>2
      <3>3. CASE j = n + 1
        BY <1>6, <2>5, <3>1, <3>3
      <3>4. QED
        BY <1>7, <2>7, <3>2, <3>3
    <2>8. grid'.anchor # None /\ grid'.anchor >= None /\ grid'.last >= None
      BY <1>1, <1>5, <1>9 DEF None
    <2>9. QED
      BY <1>1, <1>6, <2>4, <2>6, <2>7, <2>8 DEF GridKept
  <1>13. WallKept' /\ NoBurst'
    BY <1>1, <1>6 DEF WallKept, NoBurst
  <1>14. QED
    BY <1>6, <1>10, <1>11, <1>12, <1>13 DEF LoopInv

LEMMA LoopNextStep == LoopInv /\ [LoopNext]_loopVars => LoopInv'
  <1> SUFFICES ASSUME LoopInv, [LoopNext]_loopVars PROVE LoopInv'
    OBVIOUS
  <1>1. CASE \E nodes \in SUBSET Node, valid \in BOOLEAN : PublishFrame(nodes, valid)
    BY <1>1, PublishFrameStep
  <1>2. CASE \/ Finish \/ WallSleep \/ HoldWait \/ HoldWake \/ GridSleep \/ SleepStopped
             \/ FailUpdate
    BY <1>2, WaitingSteps
  <1>3. CASE StartMeasurement \/ SignalStop \/ LoopTick \/ UNCHANGED loopVars
    BY <1>3, WorldSteps
  <1>4. CASE WallUpdate
    BY <1>4, WallUpdateStep
  <1>5. CASE HoldUpdate
    BY <1>5, HoldUpdateStep
  <1>6. CASE GridUpdate
    BY <1>6, GridUpdateStep
  <1>7. CASE AnchorGrid
    BY <1>7, AnchorGridStep
  <1>8. CASE EndUpdate
    BY <1>8, EndUpdateStep
  <1>9. QED
    BY <1>1, <1>2, <1>3, <1>4, <1>5, <1>6, <1>7, <1>8 DEF LoopNext, LoopStep

\* The update loop (main of run_bridge.py): the hold's update comes first and
\* alone, every grid point is solved or counted, the wall clock leaves each
\* update its period, and the feed's counters and newest frame agree.
THEOREM LoopInvariant == LoopSpec => []LoopInv
  BY LoopInitInv, LoopNextStep, PTL DEF LoopSpec

LEMMA ScheduleKept == LoopInv => OnSchedule
  <1> SUFFICES ASSUME LoopInv PROVE OnSchedule
    OBVIOUS
  <1>1. /\ DOMAIN solved = 1 .. Len(solved) /\ Len(solved) \in Nat
        /\ Runs \subseteq 1 .. Len(solved)
        /\ \A i \in 1 .. Len(solved) : solved[i].index \in Int /\ solved[i].at \in Nat
        /\ grid.anchor \in Int
    BY SolvedEntries DEF LoopInv, LoopTypes
  <1>2. GridAccounted
    BY DEF LoopInv, GridKept, GridAccounted
  <1>3. LagBounded
    BY DEF LoopInv, GridKept, LagBounded
  <1>4. ASSUME mode.hold PROVE mode.grid
    BY <1>4 DEF LoopInv, LoopTypes, Modes
  <1>5. ASSUME mode.hold, NEW i \in Runs PROVE solved[i].at >= grid.anchor
    <2>1. /\ 0 <= solved[i].index /\ solved[i].index \in Int /\ solved[i].at \in Nat
          /\ solved[i].at - (grid.anchor + solved[i].index * Period) \in 0 .. Period - 1
      BY <1>1, <1>4, <1>5 DEF LoopInv, GridKept, Due
    <2> DEFINE p == solved[i].index * Period
    <2>2. p \in Int /\ p >= 0
      BY <2>1, LoopConstants, OnePeriodMore
    <2>3. solved[i].at \in Int /\ solved[i].at - (grid.anchor + p) \in 0 .. Period - 1
      BY <2>1
    <2> HIDE DEF p
    <2>4. QED
      BY <1>1, <2>2, <2>3, LoopConstants
  <1>6. HoldKept
    <2>1. ASSUME mode.hold, ~startFile PROVE Len(solved) <= 1 /\ grid.anchor = None
      BY <1>4, <2>1 DEF LoopInv, HoldFirst, GridKept
    <2>2. QED
      BY <1>5, <2>1 DEF LoopInv, HoldFirst, HoldKept
  <1>7. FeedAccounted
    <2>1. positions.wire = << >> => ValidFrames = {}
      BY DEF ValidFrames
    <2>2. QED
      BY <2>1 DEF LoopInv, FeedKept, FeedAccounted
  <1>8. QED
    BY <1>2, <1>3, <1>6, <1>7 DEF LoopInv, OnSchedule

\* The bridge keeps its schedule for every period, duration and number of
\* iterations, in every mode (main of run_bridge.py, GridTimeline,
\* ExternalPositionSource.poll): no grid point twice, early or a step late, no
\* burst on the wall clock, nothing but scenario time 0 before the start file,
\* and after a poll the newest valid frame in use.
THEOREM BridgeOnSchedule == LoopSpec => []OnSchedule
  BY LoopInvariant, ScheduleKept, PTL

(***************************************************************************)
(* The status store (StatusStore).                                         *)
(***************************************************************************)

LEMMA StoreConstants ==
  /\ NumLinks \in Nat \ {0} /\ MaxEvents \in Nat \ {0} /\ MaxNow \in Nat \ {0}
  /\ Warmup \in Nat \ {0} /\ Fresh \in Nat /\ MaxBatch \in Nat /\ Legacy \in BOOLEAN
  /\ Link = 1 .. NumLinks /\ Link # {}
  BY StoreAssumption DEF Link

\* Some time of the past is the latest of a set of them, and some the earliest.
LEMMA LatestOf ==
  ASSUME NEW t \in Nat, NEW T \in SUBSET (1 .. t), T # {}
  PROVE  Max(T) \in T /\ \A y \in T : y <= Max(T)
  <1> DEFINE U == {n .. t : n \in T}
  <1>1. U \subseteq FiniteSubsetsOf(Nat) /\ U # {}
    <2>1. ASSUME NEW n \in T PROVE n .. t \in FiniteSubsetsOf(Nat)
      <3>1. n \in Nat /\ IsFiniteSet(n .. t) /\ n .. t \subseteq Nat
        BY FS_Interval
      <3>2. QED
        BY <3>1 DEF FiniteSubsetsOf
    <2>2. QED
      BY <2>1
  <1>2. PICK V \in U : \A W \in U : ~(<<W, V>> \in StrictSubsetOrdering(Nat))
    <2> HIDE DEF U
    <2>1. IsWellFoundedOn(StrictSubsetOrdering(Nat), FiniteSubsetsOf(Nat))
      BY FS_StrictSubsetOrderingWellFounded
    <2>2. QED
      BY <1>1, <2>1, WFMin
  <1>3. PICK x \in T : V = x .. t
    OBVIOUS
  <1>4. ASSUME NEW y \in T, y > x PROVE FALSE
    <2>1. y .. t \subseteq x .. t /\ y .. t # x .. t
      <3>1. x \in x .. t /\ x \notin y .. t
        BY <1>4
      <3>2. QED
        BY <3>1, <1>4
    <2>2. y .. t \in SUBSET Nat /\ x .. t \in SUBSET Nat
      OBVIOUS
    <2>3. <<y .. t, V>> \in StrictSubsetOrdering(Nat)
      BY <1>3, <2>1, <2>2 DEF StrictSubsetOrdering
    <2>4. QED
      BY <1>2, <2>3
  <1>5. x \in T /\ \A y \in T : x >= y
    BY <1>4
  <1> HIDE DEF U
  <1>6. Max(T) \in T /\ \A y \in T : Max(T) >= y
    BY <1>5 DEF Max
  <1>7. QED
    BY <1>6

LEMMA EarliestOf ==
  ASSUME NEW t \in Nat, NEW T \in SUBSET (1 .. t), T # {}
  PROVE  Min(T) \in T /\ \A y \in T : Min(T) <= y
  <1> DEFINE U == {t + 1 - y : y \in T}
  <1>1. U \in SUBSET (1 .. t) /\ U # {}
    <2>1. ASSUME NEW y \in T PROVE t + 1 - y \in 1 .. t
      <3>1. y \in Nat /\ 1 <= y /\ y <= t
        OBVIOUS
      <3>2. QED
        BY <3>1
    <2>2. QED
      BY <2>1
  <1>2. Max(U) \in U /\ \A u \in U : u <= Max(U)
    <2> HIDE DEF U
    <2>1. QED
      BY <1>1, LatestOf
  <1>3. PICK x \in T : Max(U) = t + 1 - x
    BY <1>2
  <1>4. ASSUME NEW y \in T PROVE x <= y
    <2>1. t + 1 - y \in U
      OBVIOUS
    <2>2. t + 1 - y <= t + 1 - x
      BY <1>2, <1>3, <2>1
    <2>3. QED
      BY <2>2
  <1> HIDE DEF U
  <1>5. QED
    BY <1>4 DEF Min

\* What the telemetry says of the warm-ups this update caused.
LEMMA TimesKnown ==
  ASSUME NEW t \in Nat, NEW h, NEW telemetry \in [Link -> LinkStatus],
         \A l \in Link : WarmupKnown(telemetry[l], t, h),
         NEW r \in UpdateRecord, NEW target, target = [l \in r.warm |-> r.seqno]
  PROVE  /\ Times(telemetry, target, "begin") \in SUBSET (1 .. t)
         /\ Times(telemetry, target, "end") \in SUBSET (1 .. t)
         /\ \A x \in Times(telemetry, target, "begin") : \E w \in h.warmups :
              w.profile = r.seqno /\ w.begin = x
         /\ \A y \in Times(telemetry, target, "end") :
              \E x \in Times(telemetry, target, "begin") : x <= y
  <1>1. DOMAIN target \subseteq Link /\ \A l \in DOMAIN target : target[l] = r.seqno
    BY DEF UpdateRecord
  <1> DEFINE L == {l \in Examined(telemetry, target) : ExactCycle(telemetry[l], target[l])}
  <1>2. ASSUME NEW l \in L
        PROVE  /\ l \in Link /\ telemetry[l].begin \in 1 .. t /\ telemetry[l].end \in 0 .. t
               /\ telemetry[l].end > 0 => telemetry[l].begin <= telemetry[l].end
               /\ \E w \in h.warmups : w.profile = r.seqno /\ w.begin = telemetry[l].begin
    <2>1. l \in DOMAIN target /\ ExactCycle(telemetry[l], target[l])
      BY DEF Examined
    <2> DEFINE p == telemetry[l]
    <2>2. l \in Link /\ p \in LinkStatus /\ WarmupKnown(p, t, h)
      BY <1>1, <2>1
    <2>3. p.event > 0 /\ p.profile = r.seqno
      BY <1>1, <2>1 DEF ExactCycle
    <2> DEFINE w == [profile |-> p.profile, begin |-> p.begin]
    <2>4. /\ p.begin \in 1 .. t /\ p.end \in 0 .. t /\ (p.end = 0 \/ p.begin <= p.end)
          /\ w \in h.warmups
      BY <2>2, <2>3 DEF WarmupKnown
    <2>5. w.profile = r.seqno /\ w.begin = p.begin
      BY <2>3
    <2> HIDE DEF p, w
    <2>6. /\ p.begin \in 1 .. t /\ p.end \in 0 .. t
          /\ p.end > 0 => p.begin <= p.end
      BY <2>4
    <2>7. QED
      BY <2>2, <2>4, <2>5, <2>6 DEF p
  <1> DEFINE B == Times(telemetry, target, "begin")
             E == Times(telemetry, target, "end")
  <1>3. /\ B = {telemetry[l].begin : l \in {l \in L : telemetry[l].begin > 0}}
        /\ E = {telemetry[l].end : l \in {l \in L : telemetry[l].end > 0}}
    <2>1. B = {telemetry[l].begin : l \in {l \in Examined(telemetry, target) :
                 ExactCycle(telemetry[l], target[l]) /\ telemetry[l].begin > 0}}
      BY DEF Times
    <2>2. E = {telemetry[l].end : l \in {l \in Examined(telemetry, target) :
                 ExactCycle(telemetry[l], target[l]) /\ telemetry[l].end > 0}}
      BY DEF Times
    <2> HIDE DEF B, E
    <2>3. QED
      BY <2>1, <2>2
  <1> HIDE DEF B, E, L
  <1>4. \A x \in B : \E l \in L : x = telemetry[l].begin /\ x > 0
    BY <1>3
  <1>5. \A y \in E : \E l \in L : y = telemetry[l].end /\ y > 0
    BY <1>3
  <1>6. \A l \in L : telemetry[l].begin > 0 => telemetry[l].begin \in B
    BY <1>3
  <1>7. B \in SUBSET (1 .. t)
    BY <1>2, <1>4
  <1>8. E \in SUBSET (1 .. t)
    BY <1>2, <1>5
  <1>9. \A x \in B : \E w \in h.warmups : w.profile = r.seqno /\ w.begin = x
    BY <1>2, <1>4
  <1>10. ASSUME NEW y \in E PROVE \E x \in B : x <= y
    <2>1. PICK l \in L : y = telemetry[l].end /\ y > 0
      BY <1>5
    <2>2. telemetry[l].begin \in 1 .. t /\ telemetry[l].begin <= telemetry[l].end
      BY <1>2, <2>1
    <2>3. telemetry[l].begin \in B
      BY <1>6, <2>2
    <2>4. QED
      BY <2>1, <2>2, <2>3
  <1>11. QED
    BY <1>7, <1>8, <1>9, <1>10 DEF B, E

\* Closing the warm-up of an event whose update is waited for.
LEMMA CloseEventOK ==
  ASSUME NEW t \in Nat, NEW h, NEW telemetry \in [Link -> LinkStatus],
         \A l \in Link : WarmupKnown(telemetry[l], t, h),
         NEW r \in UpdateRecord, r \in h.updates,
         NEW target, target = [l \in r.warm |-> r.seqno],
         NEW e \in Event, Key(r) = Key(e), e.warmBegin \in 0 .. t, e.warmEnd = 0,
         Attributed(e, h)
  PROVE  LET c == CloseEvent(e, telemetry, target, t)
         IN  /\ c \in Event /\ c.session = e.session /\ c.iter = e.iter
             /\ c.warmBegin \in 0 .. t /\ Attributed(c, h)
             /\ c.warmEnd # 0 => c.warmBegin \in 1 .. c.warmEnd
             /\ ~AllReady(telemetry, target) => c.warmEnd = 0
  <1> DEFINE B == Times(telemetry, target, "begin")
             E == Times(telemetry, target, "end")
             warming == \E l \in Examined(telemetry, target) :
                          LegacyWarming(telemetry[l], target[l])
             b == IF B # {} THEN [e EXCEPT !.warmBegin = Min(B), !.source = "backend"]
                  ELSE IF warming /\ e.warmBegin = 0
                  THEN [e EXCEPT !.warmBegin = t, !.source = "telemetry_observed"]
                  ELSE e
             ready == AllReady(telemetry, target)
             c == IF ready THEN WarmedUp(b, E, t) ELSE b
  <1>1. CloseEvent(e, telemetry, target, t) = c
    BY DEF CloseEvent
  <1>2. /\ B \in SUBSET (1 .. t) /\ E \in SUBSET (1 .. t)
        /\ \A x \in B : \E w \in h.warmups : w.profile = r.seqno /\ w.begin = x
        /\ \A y \in E : \E x \in B : x <= y
    BY TimesKnown
  <1>3. ready \in BOOLEAN /\ warming \in BOOLEAN
    <2>1. ready \in BOOLEAN
      BY Zenon DEF AllReady
    <2>2. warming \in BOOLEAN
      BY Zenon
    <2>3. QED
      BY <2>1, <2>2
  <1> HIDE DEF B, E, warming, ready
  <1>21. B # {} => Min(B) \in B /\ \A y \in B : Min(B) <= y
    <2>1. ASSUME B # {} PROVE Min(B) \in B /\ \A y \in B : Min(B) <= y
      BY ONLY <1>2, <2>1, EarliestOf, t \in Nat
    <2>2. QED
      BY <2>1
  <1>4. /\ b \in Event /\ b.session = e.session /\ b.iter = e.iter /\ b.warmEnd = 0
        /\ b.warmBegin \in 0 .. t
        /\ B # {} => b.warmBegin = Min(B) /\ b.warmBegin \in B
        /\ b.source = "backend" =>
             b.warmBegin \in B \/ (e.source = "backend" /\ b.warmBegin = e.warmBegin)
    <2>1. CASE B # {}
      <3> DEFINE m == Min(B)
      <3>0. m \in B /\ B \in SUBSET (1 .. t)
        BY <1>2, <2>1, <1>21
      <3> HIDE DEF m
      <3>1. m \in B /\ m \in Nat /\ m \in 0 .. t
        BY ONLY <3>0, t \in Nat
      <3>2. b = [e EXCEPT !.warmBegin = m, !.source = "backend"]
        BY <2>1 DEF m
      <3> HIDE DEF b
      <3>3. /\ b \in Event /\ b.session = e.session /\ b.iter = e.iter /\ b.warmEnd = e.warmEnd
            /\ b.warmBegin = m
        BY <3>1, <3>2 DEF Event
      <3>4. QED
        BY <3>1, <3>3 DEF m
    <2>2. CASE B = {} /\ warming /\ e.warmBegin = 0
      <3>1. b = [e EXCEPT !.warmBegin = t, !.source = "telemetry_observed"]
        BY <2>2
      <3> HIDE DEF b
      <3>2. /\ b \in Event /\ b.session = e.session /\ b.iter = e.iter /\ b.warmEnd = e.warmEnd
            /\ b.warmBegin = t /\ b.source = "telemetry_observed"
        BY <3>1 DEF Event
      <3>3. QED
        BY <2>2, <3>2
    <2>3. CASE B = {} /\ ~(warming /\ e.warmBegin = 0)
      <3>1. b = e
        BY <2>3
      <3> HIDE DEF b
      <3>2. QED
        BY <2>3, <3>1
    <2>4. QED
      BY <1>3, <2>1, <2>2, <2>3
  <1> HIDE DEF b
  <1>5. Key(e) = << e.session, e.iter >> /\ Key(r) = Key(e)
    BY DEF Key
  <1>6. ASSUME NEW d, d.session = e.session, d.iter = e.iter, d.source = "backend",
               b.source = "backend" \/ b.warmBegin \in B, d.warmBegin = b.warmBegin
        PROVE  Attributed(d, h)
    <2>1. Key(d) = Key(r)
      BY <1>5, <1>6 DEF Key
    <2>2. CASE b.warmBegin \in B
      <3>1. PICK w \in h.warmups : w.profile = r.seqno /\ w.begin = b.warmBegin
        BY <1>2, <2>2
      <3>2. QED
        BY <1>6, <2>1, <3>1 DEF Attributed
    <2>3. CASE e.source = "backend" /\ b.warmBegin = e.warmBegin
      <3>1. PICK q \in h.updates, w \in h.warmups :
              Key(q) = Key(e) /\ w.profile = q.seqno /\ w.begin = e.warmBegin
        BY <2>3 DEF Attributed
      <3>2. Key(q) = Key(d) /\ w.begin = d.warmBegin
        BY <1>5, <1>6, <2>1, <2>3, <3>1
      <3>3. QED
        BY <3>1, <3>2 DEF Attributed
    <2>4. QED
      BY <1>4, <1>6, <2>2, <2>3
  <1>7. Attributed(b, h)
    <2>1. CASE b.source = "backend"
      BY <1>4, <1>6, <2>1
    <2>2. CASE b.source # "backend"
      BY <2>2 DEF Attributed
    <2>3. QED
      BY <2>1, <2>2
  <1>8. CASE ~ready
    <2>1. c = b
      BY <1>8
    <2> HIDE DEF c
    <2>2. QED
      BY <1>1, <1>4, <1>7, <2>1
  <1>9. CASE ready
    <2>1. c = WarmedUp(b, E, t)
      BY <1>9
    <2> HIDE DEF c
    <2>2. CASE E # {}
      <3> DEFINE m == Max(E)
      <3>1. m \in E /\ \A y \in E : y <= m
        BY ONLY <1>2, <2>2, LatestOf, t \in Nat
      <3>2. PICK x \in B : x <= m
        BY <1>2, <3>1
      <3>3. b.warmBegin \in B /\ b.warmBegin <= x
        BY <1>4, <3>2, <1>21
      <3> DEFINE y == b.warmBegin
      <3>9. y \in B /\ y <= x /\ m \in E
        BY <3>1, <3>3
      <3> HIDE DEF m, y
      <3>4. m \in Nat \ {0} /\ y \in 1 .. m
        BY ONLY <1>2, <3>2, <3>9, x \in B, t \in Nat
      <3>5. c = [b EXCEPT !.warmEnd = m, !.source = "backend"]
        BY <1>4, <2>1, <2>2 DEF WarmedUp, m
      <3>6. /\ c \in Event /\ c.session = b.session /\ c.iter = b.iter /\ c.warmEnd = m
            /\ c.warmBegin = b.warmBegin /\ c.source = "backend"
        BY <1>4, <3>4, <3>5 DEF Event
      <3>7. Attributed(c, h)
        BY <1>4, <1>6, <3>3, <3>6
      <3>8. QED
        BY <1>1, <1>4, <1>9, <3>4, <3>6, <3>7 DEF ready, y
    <2>3. CASE E = {} /\ b.warmBegin # 0
      <3>1. c = [b EXCEPT !.warmEnd = t, !.source = "telemetry_observed"]
        BY <1>4, <2>1, <2>3 DEF WarmedUp
      <3>2. /\ c \in Event /\ c.session = b.session /\ c.iter = b.iter /\ c.warmEnd = t
            /\ c.warmBegin = b.warmBegin /\ c.source = "telemetry_observed"
        BY <1>4, <3>1 DEF Event
      <3>3. Attributed(c, h)
        BY <3>2 DEF Attributed
      <3>4. b.warmBegin \in 1 .. t
        BY <1>4, <2>3
      <3>5. QED
        BY <1>1, <1>4, <1>9, <3>2, <3>3, <3>4 DEF ready
    <2>4. CASE E = {} /\ b.warmBegin = 0
      <3>1. c = [b EXCEPT !.expected = FALSE]
        BY <1>4, <2>1, <2>4 DEF WarmedUp
      <3>2. /\ c \in Event /\ c.session = b.session /\ c.iter = b.iter /\ c.warmEnd = b.warmEnd
            /\ c.warmBegin = b.warmBegin /\ c.source = b.source
        BY <1>4, <3>1 DEF Event
      <3>3. Attributed(c, h)
        BY <1>4, <1>7, <3>2 DEF Attributed, Key
      <3>4. QED
        BY <1>1, <1>4, <1>9, <3>2, <3>3 DEF ready
    <2>5. QED
      BY <2>2, <2>3, <2>4
  <1>10. QED
    BY <1>3, <1>8, <1>9

LEMMA SequenceOf ==
  ASSUME NEW S, NEW s \in Seq(S), NEW f, f = [i \in DOMAIN s |-> f[i]],
         \A i \in DOMAIN s : f[i] \in S
  PROVE  f \in Seq(S) /\ Len(f) = Len(s) /\ DOMAIN f = DOMAIN s
  <1>1. Len(s) \in Nat /\ DOMAIN s = 1 .. Len(s)
    OBVIOUS
  <1>2. f = [i \in 1 .. Len(s) |-> f[i]] /\ \A i \in 1 .. Len(s) : f[i] \in S
    BY <1>1
  <1>3. f \in Seq(S) /\ Len(f) = Len(s)
    BY ONLY <1>1, <1>2
  <1>4. QED
    BY <1>1, <1>3

\* Closing keeps events and targets, and leaves waiting what is not ready.
LEMMA CloseStoreOK ==
  ASSUME NEW st, StoreShape(st), NEW t \in Nat, NEW h, h.updates \subseteq UpdateRecord,
         st.telemetry \in [Link -> LinkStatus],
         \A l \in Link : WarmupKnown(st.telemetry[l], t, h),
         TargetsOK(st.targets, st.session, h),
         EventsOK(st.events, st.session, st.targets, t, h)
  PROVE  LET c == CloseCompletedWarmups(st, t)
         IN  /\ StoreShape(c) /\ c.telemetry = st.telemetry /\ c.seen = st.seen
             /\ c.sionna = st.sionna /\ c.session = st.session
             /\ Len(c.events) = Len(st.events)
             /\ TargetsOK(c.targets, c.session, h)
             /\ EventsOK(c.events, c.session, c.targets, t, h)
  <1> DEFINE f == st.events
             tel == st.telemetry
             g == st.targets
             events == [i \in DOMAIN f |->
                          IF Key(f[i]) \in DOMAIN g
                          THEN CloseEvent(f[i], tel, g[Key(f[i])], t) ELSE f[i]]
             targets == RestrictDomain(g, LAMBDA k : ~AllReady(tel, g[k]))
             c == CloseCompletedWarmups(st, t)
  <1>1. /\ StoreShape(c) /\ c.telemetry = tel /\ c.seen = st.seen /\ c.sionna = st.sionna
        /\ c.session = st.session /\ c.events = events /\ c.targets = targets
    <2>1. c = [st EXCEPT !.events = events, !.targets = targets]
      BY DEF CloseCompletedWarmups
    <2> HIDE DEF c, events, targets
    <2>2. QED
      BY <2>1 DEF StoreShape
  <1>2. /\ DOMAIN targets = {k \in DOMAIN g : ~AllReady(tel, g[k])}
        /\ \A k \in DOMAIN targets : targets[k] = g[k]
    BY DEF RestrictDomain, Restrict
  <1> HIDE DEF c, targets
  <1>3. TargetsOK(targets, st.session, h)
    BY <1>2 DEF TargetsOK
  <1>4. f \in Seq(Event)
    BY DEF EventsOK
  <1>5. ASSUME NEW i \in DOMAIN f
        PROVE  /\ events[i] \in Event /\ Key(events[i]) = Key(f[i])
               /\ events[i].session = st.session /\ EventOK(events[i], targets, t, h)
    <2> DEFINE e == f[i]
               d == events[i]
               key == Key(e)
    <2>1. /\ e \in Event /\ e.warmBegin \in 0 .. t /\ Attributed(e, h) /\ e.session = st.session
          /\ e.warmEnd # 0 => e.warmBegin \in 1 .. e.warmEnd
          /\ key \in DOMAIN g => e.warmEnd = 0
      BY <1>4 DEF EventsOK, EventOK
    <2>2. d = IF key \in DOMAIN g THEN CloseEvent(e, tel, g[key], t) ELSE e
      OBVIOUS
    <2> HIDE DEF e, d, key, events
    <2>3. CASE key \notin DOMAIN g
      <3>1. d = e /\ key \notin DOMAIN targets
        BY <1>2, <2>2, <2>3
      <3>2. EventOK(d, targets, t, h)
        BY <2>1, <3>1 DEF EventOK, key
      <3>3. QED
        BY <2>1, <3>1, <3>2 DEF d, e
    <2>4. CASE key \in DOMAIN g
      <3>1. PICK r \in h.updates : key = Key(r) /\ g[key] = [l \in r.warm |-> r.seqno]
        BY <2>4 DEF TargetsOK
      <3> DEFINE target == g[key]
      <3>2. /\ r \in UpdateRecord /\ Key(r) = Key(e) /\ target = [l \in r.warm |-> r.seqno]
            /\ d = CloseEvent(e, tel, target, t) /\ e.warmEnd = 0
            /\ tel \in [Link -> LinkStatus] /\ \A l \in Link : WarmupKnown(tel[l], t, h)
        BY <2>1, <2>2, <2>4, <3>1 DEF key
      <3> HIDE DEF target, tel
      <3>3. /\ d \in Event /\ d.session = e.session /\ d.iter = e.iter
            /\ d.warmBegin \in 0 .. t /\ Attributed(d, h)
            /\ d.warmEnd # 0 => d.warmBegin \in 1 .. d.warmEnd
            /\ ~AllReady(tel, target) => d.warmEnd = 0
        BY ONLY <2>1, <3>2, CloseEventOK, t \in Nat, r \in h.updates
      <3>4. Key(d) = key
        BY <3>3 DEF Key, key
      <3>5. Key(d) \in DOMAIN targets => d.warmEnd = 0
        BY <1>2, <3>3, <3>4 DEF target
      <3>6. EventOK(d, targets, t, h)
        BY <3>3, <3>5 DEF EventOK
      <3>7. QED
        BY <2>1, <3>3, <3>4, <3>6 DEF d, e, key
    <2>5. QED
      BY <2>3, <2>4
  <1>6. events = [i \in DOMAIN f |-> events[i]]
    OBVIOUS
  <1> HIDE DEF events
  <1>7. events \in Seq(Event) /\ Len(events) = Len(f) /\ DOMAIN events = DOMAIN f
    BY ONLY <1>4, <1>5, <1>6, SequenceOf
  <1>8. \A i, j \in DOMAIN events : Key(events[i]) = Key(events[j]) => i = j
    BY <1>5, <1>7 DEF EventsOK
  <1>9. EventsOK(events, st.session, targets, t, h)
    BY <1>5, <1>7, <1>8 DEF EventsOK
  <1>10. QED
    BY <1>1, <1>3, <1>7, <1>9 DEF c

\* What StoreOK says of a store at time t, but for its telemetry.
RecordsOK(st, t, h) ==
  /\ StoreShape(st) /\ st.session \in Nat
  /\ st.sionna = NoUpdate \/ (st.sionna \in UpdateRecord /\ st.sionna.session = st.session)
  /\ TargetsOK(st.targets, st.session, h)
  /\ EventsOK(st.events, st.session, st.targets, t, h) /\ Len(st.events) <= MaxEvents

LEMMA LastEventsOK ==
  ASSUME NEW t \in Nat, NEW h, NEW s, NEW session, NEW targets,
         EventsOK(s, session, targets, t, h)
  PROVE  /\ EventsOK(LastEvents(s), session, targets, t, h)
         /\ Len(LastEvents(s)) <= MaxEvents
  <1>1. s \in Seq(Event) /\ Len(s) \in Nat /\ DOMAIN s = 1 .. Len(s) /\ MaxEvents \in Nat \ {0}
    BY StoreConstants DEF EventsOK
  <1> DEFINE d == IF Len(s) <= MaxEvents THEN 0 ELSE Len(s) - MaxEvents
             r == SubSeq(s, d + 1, Len(s))
  <1>2. LastEvents(s) = r
    <2>1. Max({0, Len(s) - MaxEvents}) = d
      BY <1>1, LargerOfTwo
    <2>2. QED
      BY <2>1 DEF LastEvents
  <1>3. d \in Nat /\ d <= Len(s) /\ Len(s) - d <= MaxEvents
    BY <1>1
  <1> HIDE DEF d
  <1>4. /\ r \in Seq(Event) /\ Len(r) = Len(s) - d /\ DOMAIN r = 1 .. Len(s) - d
        /\ \A i \in 1 .. Len(s) - d : r[i] = s[i + d]
    <2>1. r = [i \in 1 .. Len(s) - d |-> s[i + d]]
      BY ONLY <1>1, <1>3 DEF r
    <2>2. \A i \in 1 .. Len(s) - d : s[i + d] \in Event
      BY ONLY <1>1, <1>3
    <2>3. Len(s) - d \in Nat
      BY ONLY <1>1, <1>3
    <2> HIDE DEF r
    <2>4. QED
      BY ONLY <2>1, <2>2, <2>3
  <1> HIDE DEF r
  <1>5. \A i \in DOMAIN r : i \in Nat /\ i + d \in DOMAIN s /\ r[i] = s[i + d]
    BY <1>1, <1>3, <1>4
  <1>6. \A i \in DOMAIN r : r[i].session = session /\ EventOK(r[i], targets, t, h)
    BY <1>5 DEF EventsOK
  <1>7. ASSUME NEW i \in DOMAIN r, NEW j \in DOMAIN r, Key(r[i]) = Key(r[j]) PROVE i = j
    <2>1. i + d = j + d
      BY <1>5, <1>7 DEF EventsOK
    <2>2. QED
      BY <1>3, <1>5, <2>1
  <1>8. EventsOK(r, session, targets, t, h)
    BY <1>4, <1>6, <1>7 DEF EventsOK
  <1>9. Len(r) <= MaxEvents
    BY <1>3, <1>4
  <1>10. QED
    BY <1>2, <1>8, <1>9

LEMMA IndexOf ==
  ASSUME NEW st, st.events \in Seq(Event), NEW key
  PROVE  LET i == EventIndex(st, key)
         IN  \/ i \in 1 .. Len(st.events) /\ Key(st.events[i]) = key
             \/ i = Len(st.events) + 1 /\ \A j \in 1 .. Len(st.events) : Key(st.events[j]) # key
  <1> DEFINE s == st.events
             I == {i \in 1 .. Len(s) : Key(s[i]) = key}
             n == IF I # {} THEN Max(I) ELSE 0
  <1>1. EventIndex(st, key) = IF n = 0 THEN Len(s) + 1 ELSE n
    BY DEF EventIndex, SelectLastInSeq
  <1>2. I \in SUBSET (1 .. Len(s)) /\ Len(s) \in Nat
    OBVIOUS
  <1>3. CASE I # {}
    <2>1. Max(I) \in I
      <3> HIDE DEF I, s
      <3>1. QED
        BY <1>2, <1>3, LatestOf
    <2>2. n = Max(I)
      BY <1>3
    <2> HIDE DEF n
    <2>3. n \in 1 .. Len(s) /\ Key(s[n]) = key
      BY <2>1, <2>2
    <2>4. n # 0
      BY <1>2, <2>3
    <2>5. QED
      BY <1>1, <2>3, <2>4
  <1>4. CASE I = {}
    BY <1>1, <1>4
  <1>5. QED
    BY <1>3, <1>4

\* The store for a record of this or of another session.
LEMMA NewSessionOK ==
  ASSUME NEW st, NEW t \in Nat, NEW h, h.updates \subseteq UpdateRecord, RecordsOK(st, t, h),
         NEW session \in Nat \ {0}
  PROVE  LET n == NewSession(st, session)
         IN  /\ RecordsOK(n, t, h) /\ n.session = session
             /\ n.telemetry = st.telemetry /\ n.seen = st.seen
  <1> DEFINE n == NewSession(st, session)
  <1>1. StoreShape(st)
    BY DEF RecordsOK
  <1>2. CASE session = st.session
    BY <1>2 DEF NewSession
  <1>3. CASE session # st.session /\ st.session = 0
    <2>1. n = [st EXCEPT !.session = session]
      BY <1>3 DEF NewSession
    <2> HIDE DEF n
    <2>2. /\ StoreShape(n) /\ n.session = session /\ n.telemetry = st.telemetry
          /\ n.seen = st.seen /\ n.sionna = st.sionna /\ n.events = st.events
          /\ n.targets = st.targets
      BY <1>1, <2>1 DEF StoreShape
    <2>3. st.sionna = NoUpdate
      BY <1>3 DEF RecordsOK, UpdateRecord
    <2>4. DOMAIN st.targets = {}
      <3>1. ASSUME NEW k \in DOMAIN st.targets PROVE FALSE
        <4>1. PICK r \in h.updates : r.session = st.session
          BY DEF RecordsOK, TargetsOK
        <4>2. r.session # 0
          BY DEF UpdateRecord
        <4>3. QED
          BY <1>3, <4>1, <4>2
      <3>2. QED
        BY <3>1
    <2>5. DOMAIN st.events = {} /\ st.events \in Seq(Event)
      <3>1. ASSUME NEW i \in DOMAIN st.events PROVE FALSE
        <4>1. st.events[i] \in Event /\ st.events[i].session = st.session
          BY DEF RecordsOK, EventsOK, EventOK
        <4>2. QED
          BY <1>3, <4>1 DEF Event
      <3>2. QED
        BY <3>1 DEF RecordsOK, EventsOK
    <2>6. TargetsOK(n.targets, n.session, h)
      BY <2>2, <2>4 DEF TargetsOK
    <2>7. EventsOK(n.events, n.session, n.targets, t, h)
      BY <2>2, <2>5 DEF EventsOK
    <2>8. QED
      BY <2>2, <2>3, <2>6, <2>7 DEF RecordsOK, n
  <1>4. CASE session # st.session /\ st.session # 0
    <2>1. n = [st EXCEPT !.session = session, !.events = << >>, !.targets = NoTargets,
                         !.sionna = NoUpdate]
      BY <1>4 DEF NewSession
    <2> HIDE DEF n
    <2>2. /\ StoreShape(n) /\ n.session = session /\ n.telemetry = st.telemetry
          /\ n.seen = st.seen /\ n.sionna = NoUpdate /\ n.events = << >>
          /\ n.targets = NoTargets
      BY <1>1, <2>1 DEF StoreShape
    <2>3. DOMAIN NoTargets = {}
      BY DEF NoTargets
    <2>4. << >> \in Seq(Event) /\ DOMAIN << >> = {} /\ Len(<< >>) = 0
      OBVIOUS
    <2>5. TargetsOK(n.targets, n.session, h)
      BY <2>2, <2>3 DEF TargetsOK
    <2>6. EventsOK(n.events, n.session, n.targets, t, h)
      BY <2>2, <2>4 DEF EventsOK
    <2>7. Len(n.events) <= MaxEvents
      BY <2>2, <2>4, StoreConstants
    <2>8. QED
      BY <2>2, <2>5, <2>6, <2>7 DEF RecordsOK, n
  <1>5. QED
    BY <1>2, <1>3, <1>4

\* An event put in the place of the one of its update, or at the end.
LEMMA EventPlaced ==
  ASSUME NEW t \in Nat, NEW h, NEW st, NEW targets, NEW e \in Event, e.session = st.session,
         EventsOK(st.events, st.session, st.targets, t, h),
         e.warmBegin = 0, e.warmEnd = 0, e.source = "none",
         DOMAIN targets \subseteq DOMAIN st.targets \cup {Key(e)},
         NEW s, s = LET i == EventIndex(st, Key(e))
                    IN  IF i <= Len(st.events) THEN [st.events EXCEPT ![i] = e]
                        ELSE Append(st.events, e)
  PROVE  EventsOK(s, st.session, targets, t, h)
  <1> DEFINE f == st.events
             i == EventIndex(st, Key(e))
  <1>1. f \in Seq(Event) /\ Len(f) \in Nat /\ DOMAIN f = 1 .. Len(f)
    BY DEF EventsOK
  <1>2. \/ i \in 1 .. Len(f) /\ Key(f[i]) = Key(e)
        \/ i = Len(f) + 1 /\ \A j \in 1 .. Len(f) : Key(f[j]) # Key(e)
    BY <1>1, IndexOf
  <1>3. s = IF i <= Len(f) THEN [f EXCEPT ![i] = e] ELSE Append(f, e)
    OBVIOUS
  <1> HIDE DEF i, f
  <1>4. /\ s \in Seq(Event) /\ i \in DOMAIN s /\ s[i] = e
        /\ \A j \in DOMAIN s : j # i => j \in DOMAIN f /\ s[j] = f[j] /\ Key(f[j]) # Key(e)
    <2>1. CASE i \in 1 .. Len(f) /\ Key(f[i]) = Key(e)
      <3>1. s = [f EXCEPT ![i] = e]
        BY ONLY <1>1, <1>3, <2>1
      <3>2. /\ s \in Seq(Event) /\ DOMAIN s = DOMAIN f /\ s[i] = e
            /\ \A j \in DOMAIN s : j # i => s[j] = f[j]
        BY ONLY <1>1, <2>1, <3>1, e \in Event
      <3>3. \A j \in DOMAIN f : j # i => Key(f[j]) # Key(e)
        BY <1>1, <2>1 DEF EventsOK, f
      <3>4. QED
        BY <1>1, <2>1, <3>2, <3>3
    <2>2. CASE i = Len(f) + 1 /\ \A j \in 1 .. Len(f) : Key(f[j]) # Key(e)
      <3>1. s = Append(f, e)
        <4>1. ~(i <= Len(f))
          BY ONLY <1>1, <2>2
        <4>2. QED
          BY ONLY <1>3, <4>1
      <3>2. /\ s \in Seq(Event) /\ Len(s) = Len(f) + 1 /\ DOMAIN s = 1 .. Len(f) + 1
            /\ s[Len(f) + 1] = e /\ \A j \in 1 .. Len(f) : s[j] = f[j]
        BY ONLY <1>1, <3>1, e \in Event
      <3>3. QED
        BY <1>1, <2>2, <3>2
    <2>3. QED
      BY <1>2, <2>1, <2>2
  <1>5. EventOK(e, targets, t, h)
    BY DEF EventOK, Attributed
  <1>6. ASSUME NEW j \in DOMAIN s
        PROVE  s[j].session = st.session /\ EventOK(s[j], targets, t, h)
    <2>1. CASE j = i
      BY <1>4, <1>5, <2>1
    <2>2. CASE j # i
      <3>1. s[j] = f[j] /\ Key(f[j]) # Key(e) /\ j \in DOMAIN f
        BY <1>4, <2>2
      <3>2. f[j].session = st.session /\ EventOK(f[j], st.targets, t, h)
        BY <3>1 DEF EventsOK, f
      <3>3. Key(f[j]) \in DOMAIN targets => Key(f[j]) \in DOMAIN st.targets
        BY <3>1
      <3>4. EventOK(f[j], targets, t, h)
        BY <3>2, <3>3 DEF EventOK
      <3>5. QED
        BY <3>1, <3>2, <3>4
    <2>3. QED
      BY <2>1, <2>2
  <1>7. ASSUME NEW j \in DOMAIN s, NEW k \in DOMAIN s, Key(s[j]) = Key(s[k]) PROVE j = k
    <2>1. CASE j # i /\ k # i
      <3>1. j \in DOMAIN f /\ k \in DOMAIN f /\ s[j] = f[j] /\ s[k] = f[k]
        BY <1>4, <2>1
      <3>2. Key(f[j]) = Key(f[k])
        BY <1>7, <3>1
      <3>3. QED
        BY <3>1, <3>2 DEF EventsOK, f
    <2>2. CASE j = i \/ k = i
      BY <1>4, <1>7, <2>2
    <2>3. QED
      BY <2>1, <2>2
  <1>8. QED
    BY <1>4, <1>6, <1>7 DEF EventsOK

\* The events are cut to the last ones.
LEMMA CutOK ==
  ASSUME NEW t \in Nat, NEW h, NEW c, StoreShape(c), c.session \in Nat,
         c.sionna = NoUpdate \/ (c.sionna \in UpdateRecord /\ c.sionna.session = c.session),
         TargetsOK(c.targets, c.session, h),
         EventsOK(c.events, c.session, c.targets, t, h)
  PROVE  LET n == [c EXCEPT !.events = LastEvents(@)]
         IN  /\ RecordsOK(n, t, h) /\ n.session = c.session
             /\ n.telemetry = c.telemetry /\ n.seen = c.seen
  <1> DEFINE s == LastEvents(c.events)
             n == [c EXCEPT !.events = s]
  <1>1. EventsOK(s, c.session, c.targets, t, h) /\ Len(s) <= MaxEvents
    BY LastEventsOK
  <1> HIDE DEF s
  <1>2. /\ StoreShape(n) /\ n.session = c.session /\ n.telemetry = c.telemetry
        /\ n.seen = c.seen /\ n.sionna = c.sionna /\ n.targets = c.targets /\ n.events = s
    BY DEF StoreShape
  <1> HIDE DEF n
  <1>3. RecordsOK(n, t, h)
    BY <1>1, <1>2 DEF RecordsOK
  <1>4. QED
    BY <1>2, <1>3 DEF n, s

LEMMA NoteUpdateOK ==
  ASSUME NEW st, NEW t \in Nat, NEW h, h.updates \subseteq UpdateRecord, RecordsOK(st, t, h),
         st.telemetry \in [Link -> LinkStatus],
         \A l \in Link : WarmupKnown(st.telemetry[l], t, h),
         NEW rec \in UpdateRecord, rec \in h.updates, rec.session = st.session
  PROVE  LET n == NoteUpdate(st, rec, t)
         IN  /\ RecordsOK(n, t, h) /\ n.session = st.session
             /\ n.telemetry = st.telemetry /\ n.seen = st.seen
  <1> DEFINE key == Key(rec)
             i == EventIndex(st, key)
             e == [session |-> rec.session, iter |-> rec.iter, observed |-> rec.at,
                   expected |-> rec.warm # {}, warmBegin |-> 0, warmEnd |-> 0,
                   source |-> "none"]
             s == IF i <= Len(st.events) THEN [st.events EXCEPT ![i] = e]
                  ELSE Append(st.events, e)
             noted == [st EXCEPT !.sionna = rec,
                         !.events = IF i <= Len(@) THEN [@ EXCEPT ![i] = e] ELSE Append(@, e)]
             rest == RestrictDomain(st.targets, LAMBDA k : k # key)
             more == [k \in DOMAIN st.targets \cup {key} |->
                        IF k = key THEN [l \in rec.warm |-> rec.seqno] ELSE st.targets[k]]
             targets == IF rec.warm = {} THEN rest ELSE more
             w == [noted EXCEPT !.targets = targets]
             closed == IF rec.warm = {} THEN [noted EXCEPT !.targets = rest]
                       ELSE CloseCompletedWarmups([noted EXCEPT !.targets = more], t)
  <1>1. /\ StoreShape(st) /\ st.session \in Nat /\ TargetsOK(st.targets, st.session, h)
        /\ EventsOK(st.events, st.session, st.targets, t, h)
    BY DEF RecordsOK
  <1>2. /\ StoreShape(noted) /\ noted.sionna = rec /\ noted.events = s
        /\ noted.session = st.session /\ noted.telemetry = st.telemetry
        /\ noted.seen = st.seen /\ noted.targets = st.targets
    <2>1. noted = [st EXCEPT !.sionna = rec, !.events = s]
      OBVIOUS
    <2> HIDE DEF s, noted
    <2>2. QED
      BY <1>1, <2>1 DEF StoreShape
  <1>3. NoteUpdate(st, rec, t) = [closed EXCEPT !.events = LastEvents(@)]
    <2> DEFINE A == [noted EXCEPT !.targets = RestrictDomain(@, LAMBDA k : k # key)]
               B == [noted EXCEPT !.targets =
                       [k \in DOMAIN @ \cup {key} |->
                          IF k = key THEN [l \in rec.warm |-> rec.seqno] ELSE @[k]]]
               C == IF rec.warm = {} THEN A ELSE CloseCompletedWarmups(B, t)
    <2>1. NoteUpdate(st, rec, t) = [C EXCEPT !.events = LastEvents(@)]
      BY DEF NoteUpdate
    <2>2. A = [noted EXCEPT !.targets = rest]
      <3> HIDE DEF noted
      <3>1. QED
        BY <1>2
    <2>3. B = [noted EXCEPT !.targets = more]
      <3> HIDE DEF noted
      <3>1. QED
        BY <1>2
    <2> HIDE DEF noted, A, B, rest, more
    <2>4. C = closed
      BY <2>2, <2>3
    <2> HIDE DEF C, closed
    <2>5. QED
      BY <2>1, <2>4
  <1> HIDE DEF noted
  <1>4. /\ StoreShape(w) /\ w.sionna = rec /\ w.events = s /\ w.session = st.session
        /\ w.telemetry = st.telemetry /\ w.seen = st.seen /\ w.targets = targets
    <2> HIDE DEF s, targets
    <2>1. QED
      BY <1>2 DEF StoreShape
  <1>5. e \in Event /\ Key(e) = key /\ e.session = st.session
    BY DEF Event, UpdateRecord, Key
  <1>6. /\ DOMAIN rest = {k \in DOMAIN st.targets : k # key}
        /\ \A k \in DOMAIN rest : rest[k] = st.targets[k]
    BY DEF RestrictDomain, Restrict
  <1>7. /\ DOMAIN more = DOMAIN st.targets \cup {key}
        /\ more[key] = [l \in rec.warm |-> rec.seqno]
        /\ \A k \in DOMAIN more : k # key => more[k] = st.targets[k]
    <2> HIDE DEF key
    <2>1. QED
      OBVIOUS
  <1>8. DOMAIN targets \subseteq DOMAIN st.targets \cup {Key(e)}
    <2> HIDE DEF rest, more, e, key
    <2>1. QED
      BY <1>5, <1>6, <1>7
  <1>9. EventsOK(s, st.session, targets, t, h)
    <2> DEFINE j == EventIndex(st, Key(e))
    <2>1. s = IF j <= Len(st.events) THEN [st.events EXCEPT ![j] = e]
              ELSE Append(st.events, e)
      <3> HIDE DEF e, key
      <3>1. QED
        BY <1>5
    <2>2. e.warmBegin = 0 /\ e.warmEnd = 0 /\ e.source = "none"
      OBVIOUS
    <2> HIDE DEF e, s, targets, key
    <2>3. QED
      BY ONLY <1>1, <1>5, <1>8, <2>1, <2>2, EventPlaced, t \in Nat DEF j
  <1>10. TargetsOK(targets, st.session, h)
    <2>1. CASE rec.warm = {}
      <3>1. targets = rest
        BY <2>1
      <3> HIDE DEF targets, rest, more, key
      <3>2. ASSUME NEW k \in DOMAIN targets
            PROVE  \E r \in h.updates :
                     k = Key(r) /\ r.session = st.session /\ targets[k] = [l \in r.warm |-> r.seqno]
        <4>1. k \in DOMAIN st.targets /\ targets[k] = st.targets[k]
          BY <1>6, <3>1
        <4>2. QED
          BY <1>1, <4>1 DEF TargetsOK
      <3>3. QED
        BY <3>2 DEF TargetsOK
    <2>2. CASE rec.warm # {}
      <3>1. targets = more
        BY <2>2
      <3> HIDE DEF targets, rest, more
      <3>2. ASSUME NEW k \in DOMAIN targets
            PROVE  \E r \in h.updates :
                     k = Key(r) /\ r.session = st.session /\ targets[k] = [l \in r.warm |-> r.seqno]
        <4>1. CASE k = key
          BY <1>7, <3>1, <4>1
        <4>2. CASE k # key
          <5>1. k \in DOMAIN st.targets /\ targets[k] = st.targets[k]
            BY <1>7, <3>1, <4>2
          <5>2. QED
            BY <1>1, <5>1 DEF TargetsOK
        <4>3. QED
          BY <4>1, <4>2
      <3>3. QED
        BY <3>2 DEF TargetsOK
    <2>3. QED
      BY <2>1, <2>2
  <1>20. closed = IF rec.warm = {} THEN w ELSE CloseCompletedWarmups(w, t)
    <2>1. CASE rec.warm = {}
      BY <2>1
    <2>2. CASE rec.warm # {}
      BY <2>2
    <2>3. QED
      BY <2>1, <2>2
  <1> HIDE DEF w, s, targets, e, key, closed
  <1>11. /\ StoreShape(closed) /\ closed.sionna = rec /\ closed.session = st.session
         /\ closed.telemetry = st.telemetry /\ closed.seen = st.seen
         /\ TargetsOK(closed.targets, closed.session, h)
         /\ EventsOK(closed.events, closed.session, closed.targets, t, h)
    <2>1. TargetsOK(w.targets, w.session, h) /\ EventsOK(w.events, w.session, w.targets, t, h)
      BY <1>4, <1>9, <1>10
    <2>2. CASE rec.warm = {}
      <3>1. closed = w
        BY <1>20, <2>2
      <3>2. QED
        BY <1>4, <2>1, <3>1
    <2>3. CASE rec.warm # {}
      <3>1. closed = CloseCompletedWarmups(w, t)
        BY <1>20, <2>3
      <3>2. w.telemetry \in [Link -> LinkStatus] /\ \A l \in Link : WarmupKnown(w.telemetry[l], t, h)
        BY <1>4
      <3>3. /\ StoreShape(closed) /\ closed.sionna = w.sionna /\ closed.session = w.session
            /\ closed.telemetry = w.telemetry /\ closed.seen = w.seen
            /\ TargetsOK(closed.targets, closed.session, h)
            /\ EventsOK(closed.events, closed.session, closed.targets, t, h)
        BY ONLY <1>4, <2>1, <3>1, <3>2, CloseStoreOK, t \in Nat, h.updates \subseteq UpdateRecord
      <3>4. QED
        BY <1>4, <3>3
    <2>4. QED
      BY <2>2, <2>3
  <1> DEFINE n == [closed EXCEPT !.events = LastEvents(@)]
  <1>12. /\ closed.session \in Nat
         /\ closed.sionna \in UpdateRecord /\ closed.sionna.session = closed.session
    BY <1>1, <1>11
  <1>13. /\ RecordsOK(n, t, h) /\ n.session = closed.session
         /\ n.telemetry = closed.telemetry /\ n.seen = closed.seen
    BY ONLY <1>11, <1>12, CutOK, t \in Nat DEF n
  <1>14. QED
    BY <1>3, <1>11, <1>13

LEMMA NoteTracingOK ==
  ASSUME NEW st, NEW t \in Nat, NEW h, RecordsOK(st, t, h),
         NEW rec \in RuntimeRecord, rec.session = st.session
  PROVE  LET n == NoteTracing(st, rec)
         IN  /\ RecordsOK(n, t, h) /\ n.session = st.session
             /\ n.telemetry = st.telemetry /\ n.seen = st.seen
  <1> DEFINE key == Key(rec)
             i == EventIndex(st, key)
             e == [session |-> rec.session, iter |-> rec.iter, observed |-> rec.at,
                   expected |-> FALSE, warmBegin |-> 0, warmEnd |-> 0, source |-> "none"]
             s == Append(st.events, e)
             c == [st EXCEPT !.events = s]
  <1>1. /\ StoreShape(st) /\ st.session \in Nat /\ TargetsOK(st.targets, st.session, h)
        /\ EventsOK(st.events, st.session, st.targets, t, h)
        /\ st.sionna = NoUpdate \/ (st.sionna \in UpdateRecord /\ st.sionna.session = st.session)
    BY DEF RecordsOK
  <1>2. CASE i <= Len(st.events)
    <2>1. NoteTracing(st, rec) = st
      BY <1>2 DEF NoteTracing
    <2>2. QED
      BY <2>1
  <1>3. CASE ~(i <= Len(st.events))
    <2>1. NoteTracing(st, rec) = [st EXCEPT !.events = LastEvents(s)]
      BY <1>3 DEF NoteTracing
    <2>2. e \in Event /\ Key(e) = key /\ e.session = st.session
      BY DEF Event, RuntimeRecord, Key
    <2>3. e.warmBegin = 0 /\ e.warmEnd = 0 /\ e.source = "none"
      OBVIOUS
    <2> HIDE DEF e, key
    <2>4. s = LET j == EventIndex(st, Key(e))
              IN  IF j <= Len(st.events) THEN [st.events EXCEPT ![j] = e]
                  ELSE Append(st.events, e)
      BY <1>3, <2>2
    <2>5. DOMAIN st.targets \subseteq DOMAIN st.targets \cup {Key(e)}
      OBVIOUS
    <2> HIDE DEF s
    <2>6. EventsOK(s, st.session, st.targets, t, h)
      BY ONLY <1>1, <2>2, <2>3, <2>4, <2>5, EventPlaced, t \in Nat
    <2>7. /\ StoreShape(c) /\ c.sionna = st.sionna /\ c.events = s /\ c.session = st.session
          /\ c.telemetry = st.telemetry /\ c.seen = st.seen /\ c.targets = st.targets
      BY <1>1 DEF StoreShape
    <2> DEFINE n == [c EXCEPT !.events = LastEvents(@)]
    <2>8. NoteTracing(st, rec) = n
      <3>1. n = [c EXCEPT !.events = LastEvents(s)]
        <4> HIDE DEF c
        <4>1. QED
          BY <2>7
      <3>2. [c EXCEPT !.events = LastEvents(s)] = [st EXCEPT !.events = LastEvents(s)]
        BY <1>1 DEF StoreShape
      <3>3. QED
        BY <2>1, <3>1, <3>2
    <2> HIDE DEF c
    <2>9. /\ RecordsOK(n, t, h) /\ n.session = c.session
          /\ n.telemetry = c.telemetry /\ n.seen = c.seen
      <3>1. /\ StoreShape(c) /\ c.session \in Nat
            /\ c.sionna = NoUpdate \/ (c.sionna \in UpdateRecord /\ c.sionna.session = c.session)
            /\ TargetsOK(c.targets, c.session, h)
            /\ EventsOK(c.events, c.session, c.targets, t, h)
        BY <1>1, <2>6, <2>7
      <3>2. QED
        BY ONLY <3>1, CutOK, t \in Nat DEF n
    <2> HIDE DEF n
    <2>10. QED
      BY <2>7, <2>8, <2>9
  <1>4. QED
    BY <1>2, <1>3

LEMMA KnownLater ==
  ASSUME NEW p, NEW t \in Nat, NEW u \in Nat, t <= u, NEW h, NEW k,
         h.warmups \subseteq k.warmups, WarmupKnown(p, t, h)
  PROVE  WarmupKnown(p, u, k)
  BY DEF WarmupKnown

LEMMA RecordsLater ==
  ASSUME NEW st, NEW t \in Nat, NEW u \in Nat, t <= u, NEW h, NEW k,
         h.updates \subseteq k.updates, h.warmups \subseteq k.warmups, RecordsOK(st, t, h)
  PROVE  RecordsOK(st, u, k)
  <1>1. TargetsOK(st.targets, st.session, k)
    BY DEF RecordsOK, TargetsOK
  <1>2. EventsOK(st.events, st.session, st.targets, u, k)
    <2> DEFINE s == st.events
    <2>1. ASSUME NEW i \in DOMAIN s PROVE EventOK(s[i], st.targets, u, k)
      <3> DEFINE e == s[i]
      <3>1. EventOK(e, st.targets, t, h)
        BY DEF RecordsOK, EventsOK
      <3> HIDE DEF e
      <3>2. Attributed(e, k)
        BY <3>1 DEF EventOK, Attributed
      <3>3. e.warmBegin \in 0 .. u
        BY <3>1 DEF EventOK
      <3>4. EventOK(e, st.targets, u, k)
        BY <3>1, <3>2, <3>3 DEF EventOK
      <3>5. QED
        BY <3>4 DEF e
    <2>2. QED
      BY <2>1 DEF RecordsOK, EventsOK
  <1>3. QED
    BY <1>1, <1>2 DEF RecordsOK

\* A store of the next state.
LEMMA StorePrimed ==
  ASSUME RecordsOK(store', now', past'), store'.telemetry \in [Link -> LinkStatus],
         store'.seen \in [Link -> Nat], \A l \in Link : TelemetryAt(store, l)'
  PROVE  StoreOK(store)'
  BY DEF StoreOK, RecordsOK

LEMMA StoreParts ==
  ASSUME StoreInv
  PROVE  /\ now \in 1 .. MaxNow /\ now \in Nat /\ now >= 1
         /\ bridge \in Bridge /\ broker \in [Link -> LinkStatus]
         /\ RecordsUnderWay /\ past.updates \subseteq UpdateRecord
         /\ \A l \in Link : /\ BackendAt(l) /\ TelemetryAt(store, l)
                            /\ store.telemetry[l] \in LinkStatus
                            /\ WarmupKnown(store.telemetry[l], now, past)
         /\ RecordsOK(store, now, past) /\ StoreShape(store)
         /\ store.telemetry \in [Link -> LinkStatus] /\ store.seen \in [Link -> Nat]
  <1>1. MaxNow \in Nat
    BY StoreConstants
  <1>2. now \in Nat /\ now >= 1
    BY <1>1 DEF StoreInv
  <1>3. RecordsOK(store, now, past) /\ StoreShape(store)
    BY DEF StoreInv, StoreOK, RecordsOK
  <1>4. \A l \in Link : TelemetryAt(store, l)
    BY DEF StoreInv, StoreOK
  <1>5. \A l \in Link : WarmupKnown(store.telemetry[l], now, past)
    BY <1>4 DEF TelemetryAt
  <1>6. past.updates \subseteq UpdateRecord /\ RecordsUnderWay
    BY DEF StoreInv, RecordsUnderWay
  <1>7. store.telemetry \in [Link -> LinkStatus] /\ store.seen \in [Link -> Nat]
    BY DEF StoreInv, StoreOK
  <1>8. QED
    BY <1>2, <1>3, <1>4, <1>5, <1>6, <1>7 DEF StoreInv

\* Steps that leave telemetry, broker and time alone.
LEMMA LinksKept ==
  ASSUME StoreInv, broker' = broker, now' = now, store'.telemetry = store.telemetry,
         store'.seen = store.seen, bridge'.seqno \in Nat, bridge.seqno <= bridge'.seqno,
         past.warmups \subseteq past'.warmups
  PROVE  /\ \A l \in Link : BackendAt(l)'
         /\ \A l \in Link : TelemetryAt(store, l)'
         /\ store'.telemetry \in [Link -> LinkStatus] /\ store'.seen \in [Link -> Nat]
  <1>1. ASSUME NEW l \in Link PROVE BackendAt(l)'
    <2>1. BackendAt(l) /\ broker[l] \in LinkStatus /\ bridge.seqno \in Nat
      BY StoreParts DEF Bridge
    <2>2. broker'[l] = broker[l] /\ now' = now /\ now \in Nat
      BY StoreParts
    <2> DEFINE b == broker[l]
    <2>3. b.seqno \in 0 .. bridge'.seqno
      BY <2>1, <2>2 DEF BackendAt
    <2>4. WarmupKnown(b, now, past')
      BY <2>1, <2>2, KnownLater DEF BackendAt
    <2>5. QED
      BY <2>1, <2>2, <2>3, <2>4 DEF BackendAt
  <1>2. ASSUME NEW l \in Link PROVE TelemetryAt(store, l)'
    <2>1. TelemetryAt(store, l) /\ now \in Nat
      BY StoreParts
    <2> DEFINE p == store.telemetry[l]
    <2>2. WarmupKnown(p, now, past')
      BY <2>1, KnownLater DEF TelemetryAt
    <2>3. store'.telemetry[l] = p /\ store'.seen[l] = store.seen[l] /\ broker'[l] = broker[l]
      OBVIOUS
    <2>4. QED
      BY <2>1, <2>2, <2>3 DEF TelemetryAt
  <1>3. QED
    BY <1>1, <1>2, StoreParts

LEMMA StoreInitInv == StoreInit => StoreInv
  <1> SUFFICES ASSUME StoreInit PROVE StoreInv
    OBVIOUS
  <1>1. NumLinks \in Nat \ {0} /\ MaxEvents \in Nat \ {0} /\ MaxNow \in Nat \ {0}
    BY StoreConstants
  <1>2. now \in 1 .. MaxNow /\ now = 1
    BY <1>1 DEF StoreInit
  <1>3. bridge \in Bridge /\ bridge.seqno = 0
    BY DEF StoreInit, Bridge
  <1>4. RecordsUnderWay
    <2>1. << >> \in Seq(UpdateRecord \cup RuntimeRecord) /\ DOMAIN << >> = {}
      OBVIOUS
    <2>2. QED
      BY <2>1 DEF StoreInit, RecordsUnderWay
  <1> DEFINE quiet == [NoPayload EXCEPT !.seqno = 0]
  <1>5. /\ NoPayload \in LinkStatus /\ NoPayload.seqno = -1 /\ NoPayload.until = 0
        /\ NoPayload.event = 0 /\ NoPayload.slot = 0
    BY DEF NoPayload, LinkStatus
  <1>6. /\ quiet \in LinkStatus /\ quiet.seqno = 0 /\ quiet.until = 0 /\ quiet.event = 0
        /\ quiet.slot = 0
    BY <1>5 DEF LinkStatus
  <1>7. broker = [l \in Link |-> quiet]
    BY DEF StoreInit
  <1> HIDE DEF quiet
  <1>8. broker \in [Link -> LinkStatus] /\ \A l \in Link : broker[l] = quiet
    BY <1>6, <1>7
  <1>9. \A l \in Link : BackendAt(l)
    BY <1>3, <1>6, <1>8 DEF BackendAt, WarmupKnown
  <1>10. /\ StoreShape(store) /\ store.telemetry = [l \in Link |-> NoPayload]
         /\ store.seen = [l \in Link |-> 0] /\ store.sionna = NoUpdate /\ store.session = 0
         /\ store.events = << >> /\ store.targets = NoTargets
    BY DEF StoreInit, StoreShape
  <1>11. /\ store.telemetry \in [Link -> LinkStatus] /\ store.seen \in [Link -> Nat]
         /\ \A l \in Link : store.telemetry[l] = NoPayload /\ store.seen[l] = 0
    BY <1>5, <1>10
  <1>12. \A l \in Link : TelemetryAt(store, l)
    BY <1>2, <1>5, <1>6, <1>8, <1>11 DEF TelemetryAt, WarmupKnown
  <1>13. TargetsOK(store.targets, store.session, past)
    BY <1>10 DEF TargetsOK, NoTargets
  <1>14. << >> \in Seq(Event) /\ DOMAIN << >> = {} /\ Len(<< >>) = 0
    OBVIOUS
  <1>15. EventsOK(store.events, store.session, store.targets, now, past)
    BY <1>10, <1>14 DEF EventsOK
  <1>16. Len(store.events) <= MaxEvents
    BY <1>1, <1>10, <1>14
  <1>17. StoreOK(store)
    BY <1>10, <1>11, <1>12, <1>13, <1>15, <1>16 DEF StoreOK
  <1>18. QED
    BY <1>2, <1>3, <1>4, <1>8, <1>9, <1>17 DEF StoreInv

LEMMA PollOnceStep == StoreInv /\ PollOnce => StoreInv'
  <1> SUFFICES ASSUME StoreInv, PollOnce PROVE StoreInv'
    OBVIOUS
  <1> DEFINE rec == Head(file)
             fresh == NewSession(store, rec.session)
             n == UpdateSionna(store, rec, now)
  <1>1. /\ file # << >> /\ store' = n /\ file' = Tail(file) /\ now' = now /\ bridge' = bridge
        /\ broker' = broker /\ past' = past
    BY DEF PollOnce
  <1>2. /\ file \in Seq(UpdateRecord \cup RuntimeRecord)
        /\ \A i \in DOMAIN file : file[i].event = "update" => file[i] \in past.updates
        /\ past = [updates |-> past.updates, warmups |-> past.warmups]
        /\ past.updates \subseteq UpdateRecord
    BY StoreParts DEF RecordsUnderWay
  <1>3. /\ rec = file[1] /\ 1 \in DOMAIN file
        /\ file' \in Seq(UpdateRecord \cup RuntimeRecord)
        /\ \A i \in DOMAIN file' : i + 1 \in DOMAIN file /\ file'[i] = file[i + 1]
    BY <1>1, <1>2
  <1>4. /\ rec \in UpdateRecord \cup RuntimeRecord
        /\ rec.event = "update" => rec \in past.updates
    BY <1>2, <1>3
  <1>5. RecordsUnderWay'
    BY <1>1, <1>2, <1>3 DEF RecordsUnderWay
  <1> HIDE DEF rec, n
  <1>6. rec.session \in Nat \ {0}
    BY <1>4 DEF UpdateRecord, RuntimeRecord
  <1>7. /\ now \in Nat /\ RecordsOK(store, now, past)
        /\ store.telemetry \in [Link -> LinkStatus]
        /\ \A l \in Link : WarmupKnown(store.telemetry[l], now, past)
    BY StoreParts
  <1>8. /\ RecordsOK(fresh, now, past) /\ fresh.session = rec.session
        /\ fresh.telemetry = store.telemetry /\ fresh.seen = store.seen
    BY ONLY <1>2, <1>6, <1>7, NewSessionOK
  <1>9. n = IF rec.event = "update" THEN NoteUpdate(fresh, rec, now) ELSE NoteTracing(fresh, rec)
    BY DEF UpdateSionna, n
  <1> HIDE DEF fresh
  <1>10. /\ RecordsOK(n, now, past) /\ n.telemetry = store.telemetry /\ n.seen = store.seen
    <2>1. CASE rec.event = "update"
      <3>1. rec \in UpdateRecord /\ rec \in past.updates
        BY <1>2, <1>4, <2>1
      <3>2. n = NoteUpdate(fresh, rec, now)
        BY <1>9, <2>1
      <3>3. /\ fresh.telemetry \in [Link -> LinkStatus]
            /\ \A l \in Link : WarmupKnown(fresh.telemetry[l], now, past)
        BY <1>7, <1>8
      <3>4. RecordsOK(n, now, past) /\ n.telemetry = fresh.telemetry /\ n.seen = fresh.seen
        BY ONLY <1>2, <1>7, <1>8, <3>1, <3>2, <3>3, NoteUpdateOK
      <3>5. QED
        BY <1>8, <3>4
    <2>2. CASE rec.event # "update"
      <3>1. rec \in RuntimeRecord
        BY <1>4, <2>2 DEF UpdateRecord
      <3>2. n = NoteTracing(fresh, rec)
        BY <1>9, <2>2
      <3>3. RecordsOK(n, now, past) /\ n.telemetry = fresh.telemetry /\ n.seen = fresh.seen
        BY ONLY <1>7, <1>8, <3>1, <3>2, NoteTracingOK
      <3>4. QED
        BY <1>8, <3>3
    <2>3. QED
      BY <2>1, <2>2
  <1>11. /\ \A l \in Link : BackendAt(l)'
         /\ \A l \in Link : TelemetryAt(store, l)'
         /\ store'.telemetry \in [Link -> LinkStatus] /\ store'.seen \in [Link -> Nat]
    <2>1. bridge'.seqno \in Nat /\ bridge.seqno <= bridge'.seqno
      BY <1>1, StoreParts DEF Bridge
    <2>2. QED
      BY <1>1, <1>10, <2>1, LinksKept
  <1>12. StoreOK(store)'
    BY <1>1, <1>10, <1>11, StorePrimed
  <1>13. QED
    BY <1>1, <1>5, <1>11, <1>12, StoreParts DEF StoreInv

LEMMA TelemetryLoopStep ==
  ASSUME StoreInv, NEW l \in Link, TelemetryLoop(l)
  PROVE  StoreInv'
  <1> DEFINE p == Payload(l)
             st == [store EXCEPT !.telemetry[l] = p, !.seen[l] = now]
             n == UpdateTelemetry(store, l, p, now)
             b == broker[l]
  <1>1. /\ store' = n /\ file' = file /\ now' = now /\ bridge' = bridge
        /\ broker' = broker /\ past' = past
    BY DEF TelemetryLoop
  <1>2. /\ b \in LinkStatus /\ BackendAt(l) /\ now \in Nat /\ now >= 1
        /\ past.updates \subseteq UpdateRecord
        /\ RecordsOK(store, now, past) /\ StoreShape(store)
        /\ store.telemetry \in [Link -> LinkStatus] /\ store.seen \in [Link -> Nat]
        /\ \A k \in Link : TelemetryAt(store, k) /\ WarmupKnown(store.telemetry[k], now, past)
    BY StoreParts
  <1>3. /\ p \in LinkStatus /\ p.seqno = b.seqno /\ p.slot = now /\ p.until = b.until
        /\ p.event > 0 => p.event = b.event /\ p.profile = b.profile /\ p.begin = b.begin
                          /\ p.end = b.end
    <2>1. CASE Legacy
      <3>1. p = [b EXCEPT !.slot = now, !.event = -1, !.profile = 0, !.begin = 0, !.end = 0]
        BY <2>1 DEF Payload
      <3>2. b \in LinkStatus /\ now \in Nat
        BY <1>2
      <3> HIDE DEF p, b
      <3>3. /\ p \in LinkStatus /\ p.seqno = b.seqno /\ p.slot = now /\ p.until = b.until
            /\ p.event = -1
        <4> DEFINE c == [b EXCEPT !.slot = now, !.event = -1]
        <4>1. /\ c \in LinkStatus /\ c.seqno = b.seqno /\ c.slot = now /\ c.until = b.until
              /\ c.event = -1
          <5> DEFINE d == [b EXCEPT !.slot = now]
          <5>1. d \in LinkStatus /\ d.seqno = b.seqno /\ d.slot = now /\ d.until = b.until
            BY ONLY <3>2 DEF LinkStatus, d
          <5>2. c = [d EXCEPT !.event = -1] /\ -1 \in Int
            BY ONLY <3>2 DEF LinkStatus, c, d
          <5> HIDE DEF c, d
          <5>3. QED
            BY ONLY <5>1, <5>2 DEF LinkStatus
        <4>2. p = [c EXCEPT !.profile = 0, !.begin = 0, !.end = 0]
          BY ONLY <3>1, <3>2 DEF LinkStatus, c
        <4> HIDE DEF c
        <4>3. QED
          BY ONLY <4>1, <4>2 DEF LinkStatus
      <3>4. QED
        BY <3>3
    <2>2. CASE ~Legacy
      <3>1. p = [b EXCEPT !.slot = now]
        BY <2>2 DEF Payload
      <3> HIDE DEF p, b
      <3>2. QED
        BY <1>2, <3>1 DEF LinkStatus
    <2>3. QED
      BY <2>1, <2>2
  <1> HIDE DEF p
  <1>4. WarmupKnown(p, now, past)
    BY <1>2, <1>3 DEF BackendAt, WarmupKnown
  <1>5. n = CloseCompletedWarmups(st, now)
    BY DEF UpdateTelemetry
  <1>6. /\ StoreShape(st) /\ st.sionna = store.sionna /\ st.session = store.session
        /\ st.events = store.events /\ st.targets = store.targets
        /\ st.telemetry = [store.telemetry EXCEPT ![l] = p]
        /\ st.seen = [store.seen EXCEPT ![l] = now]
    <2> DEFINE x == [store.telemetry EXCEPT ![l] = p]
               y == [store.seen EXCEPT ![l] = now]
    <2>1. st = [store EXCEPT !.telemetry = x, !.seen = y]
      OBVIOUS
    <2>2. StoreShape(store)
      BY <1>2
    <2> HIDE DEF st, x, y
    <2>3. /\ StoreShape(st) /\ st.sionna = store.sionna /\ st.session = store.session
          /\ st.events = store.events /\ st.targets = store.targets
          /\ st.telemetry = x /\ st.seen = y
      BY ONLY <2>1, <2>2 DEF StoreShape
    <2>4. QED
      BY <2>3 DEF x, y
  <1> HIDE DEF st, n
  <1>7. /\ st.telemetry \in [Link -> LinkStatus] /\ st.seen \in [Link -> Nat]
        /\ st.telemetry[l] = p /\ st.seen[l] = now
        /\ \A k \in Link : k # l => st.telemetry[k] = store.telemetry[k] /\ st.seen[k] = store.seen[k]
    BY <1>2, <1>3, <1>6
  <1>8. \A k \in Link : WarmupKnown(st.telemetry[k], now, past)
    BY <1>2, <1>4, <1>7
  <1>9. /\ TargetsOK(st.targets, st.session, past)
        /\ EventsOK(st.events, st.session, st.targets, now, past)
    BY <1>2, <1>6 DEF RecordsOK
  <1>10. /\ StoreShape(n) /\ n.telemetry = st.telemetry /\ n.seen = st.seen
         /\ n.sionna = st.sionna /\ n.session = st.session
         /\ Len(n.events) = Len(st.events)
         /\ TargetsOK(n.targets, n.session, past)
         /\ EventsOK(n.events, n.session, n.targets, now, past)
    <2>1. /\ now \in Nat /\ past.updates \subseteq UpdateRecord /\ StoreShape(st)
          /\ st.telemetry \in [Link -> LinkStatus]
      BY <1>2, <1>6, <1>7
    <2>2. QED
      BY ONLY <1>5, <1>8, <1>9, <2>1, CloseStoreOK
  <1>11. RecordsOK(n, now, past)
    BY <1>2, <1>6, <1>10 DEF RecordsOK
  <1>12. ASSUME NEW k \in Link PROVE TelemetryAt(store, k)'
    <2>1. store'.telemetry[k] = st.telemetry[k] /\ store'.seen[k] = st.seen[k]
      BY <1>1, <1>10
    <2>2. CASE k = l
      <3>1. p.until = 0 \/ p.until > p.slot
        BY <1>2, <1>3 DEF BackendAt
      <3>2. now \in 0 .. now /\ p.slot <= now /\ p.seqno <= b.seqno /\ b.until \in {0, p.until}
        BY <1>2, <1>3 DEF LinkStatus
      <3>3. store'.telemetry[l] = p /\ store'.seen[l] = now
        BY <1>7, <2>1, <2>2
      <3>4. QED
        BY <1>1, <1>4, <2>2, <3>1, <3>2, <3>3 DEF TelemetryAt
    <2>3. CASE k # l
      <3>1. store'.telemetry[k] = store.telemetry[k] /\ store'.seen[k] = store.seen[k]
        BY <1>7, <2>1, <2>3
      <3>2. TelemetryAt(store, k)
        BY <1>2
      <3>3. QED
        BY <1>1, <3>1, <3>2 DEF TelemetryAt
    <2>4. QED
      BY <2>2, <2>3
  <1>13. StoreOK(store)'
    BY <1>1, <1>7, <1>10, <1>11, <1>12, StorePrimed
  <1>14. \A k \in Link : BackendAt(k)'
    BY <1>1, StoreParts DEF BackendAt
  <1>15. RecordsUnderWay'
    BY <1>1, StoreParts DEF RecordsUnderWay
  <1>16. QED
    BY <1>1, <1>13, <1>14, <1>15, StoreParts DEF StoreInv

LEMMA StoreTickStep == StoreInv /\ StoreTick => StoreInv'
  <1> SUFFICES ASSUME StoreInv, StoreTick PROVE StoreInv'
    OBVIOUS
  <1>1. /\ now < MaxNow /\ now' = now + 1 /\ bridge' = bridge /\ file' = file
        /\ store' = store /\ past' = past
        /\ broker' = [l \in Link |-> EndWarmup(broker[l], now + 1)]
    BY DEF StoreTick
  <1>2. now \in Nat /\ now >= 1 /\ MaxNow \in Nat /\ now + 1 \in Nat /\ now <= now + 1
    BY StoreParts, StoreConstants
  <1>3. ASSUME NEW l \in Link
        PROVE  LET b == broker[l]
                   c == broker'[l]
               IN  /\ c \in LinkStatus /\ c.seqno = b.seqno /\ c.event = b.event
                   /\ c.profile = b.profile /\ c.begin = b.begin
                   /\ \/ c.until = b.until /\ c.end = b.end /\ (c.until = 0 \/ c.until > now + 1)
                      \/ c.until = 0 /\ c.end = now + 1
    <2> DEFINE b == broker[l]
               c == broker'[l]
    <2>1. c = EndWarmup(b, now + 1)
      BY <1>1
    <2>2. b \in LinkStatus /\ BackendAt(l)
      BY StoreParts
    <2> HIDE DEF b, c
    <2>3. CASE b.until # 0 /\ now + 1 >= b.until
      <3>1. c = [b EXCEPT !.until = 0, !.end = now + 1]
        BY <2>1, <2>3 DEF EndWarmup
      <3>2. b \in LinkStatus /\ now + 1 \in Nat
        BY <1>2, <2>2
      <3>3. /\ c \in LinkStatus /\ c.seqno = b.seqno /\ c.event = b.event
            /\ c.profile = b.profile /\ c.begin = b.begin /\ c.until = 0 /\ c.end = now + 1
        BY ONLY <3>1, <3>2 DEF LinkStatus
      <3>4. QED
        BY <3>3 DEF b, c
    <2>4. CASE ~(b.until # 0 /\ now + 1 >= b.until)
      <3>1. c = b
        BY <2>1, <2>4 DEF EndWarmup
      <3>2. b.until \in Nat
        BY <2>2 DEF LinkStatus
      <3>3. c.until = 0 \/ c.until > now + 1
        BY <1>2, <2>4, <3>1, <3>2
      <3>4. QED
        BY <2>2, <3>1, <3>3 DEF b, c
    <2>5. QED
      BY <2>3, <2>4
  <1>4. broker' \in [Link -> LinkStatus]
    BY <1>1, <1>3
  <1>5. ASSUME NEW l \in Link PROVE BackendAt(l)' /\ TelemetryAt(store, l)'
    <2> DEFINE b == broker[l]
               c == broker'[l]
               p == store.telemetry[l]
    <2>1. /\ c \in LinkStatus /\ c.seqno = b.seqno /\ c.event = b.event
          /\ c.profile = b.profile /\ c.begin = b.begin
          /\ \/ c.until = b.until /\ c.end = b.end /\ (c.until = 0 \/ c.until > now + 1)
             \/ c.until = 0 /\ c.end = now + 1
      BY <1>3
    <2>2. /\ b \in LinkStatus /\ BackendAt(l) /\ TelemetryAt(store, l) /\ p \in LinkStatus
      BY StoreParts
    <2>3. WarmupKnown(c, now + 1, past)
      <3>1. WarmupKnown(b, now, past)
        BY <2>2 DEF BackendAt
      <3> HIDE DEF b, c
      <3>2. QED
        BY <1>2, <2>1, <3>1 DEF WarmupKnown
    <2>4. BackendAt(l)'
      <3>1. c.until = 0 \/ c.until > now'
        BY <1>1, <2>1
      <3>2. c.seqno \in 0 .. bridge'.seqno /\ c.event >= 0
        BY <1>1, <2>1, <2>2 DEF BackendAt
      <3>3. WarmupKnown(c, now', past')
        BY <1>1, <2>3
      <3>4. QED
        BY <3>1, <3>2, <3>3 DEF BackendAt
    <2>5. TelemetryAt(store, l)'
      <3>1. WarmupKnown(p, now', past')
        BY <1>1, <1>2, <2>2, KnownLater DEF TelemetryAt
      <3>2. /\ p.slot <= now' /\ store.seen[l] \in 0 .. now' /\ p.seqno <= c.seqno
            /\ p.until = 0 \/ p.until > p.slot
        BY <1>1, <1>2, <2>1, <2>2 DEF TelemetryAt, LinkStatus
      <3>3. p.seqno = c.seqno => c.until \in {0, p.until}
        BY <2>1, <2>2 DEF TelemetryAt
      <3>4. QED
        BY <1>1, <3>1, <3>2, <3>3 DEF TelemetryAt
    <2>6. QED
      BY <2>4, <2>5
  <1>6. RecordsOK(store', now', past')
    BY <1>1, <1>2, StoreParts, RecordsLater
  <1>7. StoreOK(store)'
    BY <1>1, <1>5, <1>6, StoreParts, StorePrimed
  <1>8. now' \in 1 .. MaxNow
    BY <1>1, <1>2
  <1>9. RecordsUnderWay'
    BY <1>1, StoreParts DEF RecordsUnderWay
  <1>10. QED
    BY <1>1, <1>4, <1>5, <1>7, <1>8, <1>9, StoreParts DEF StoreInv

LEMMA BrokerApplyStep ==
  ASSUME StoreInv, NEW l \in Link, NEW reset \in BOOLEAN, BrokerApply(l, reset)
  PROVE  StoreInv'
  <1> DEFINE b == broker[l]
             begun == [b EXCEPT !.seqno = bridge.seqno, !.active = TRUE, !.until = now + Warmup,
                                !.event = @ + 1, !.profile = bridge.seqno, !.begin = now, !.end = 0]
             kept == [b EXCEPT !.seqno = bridge.seqno, !.active = TRUE]
             c == IF reset THEN begun ELSE kept
             warmup == [profile |-> bridge.seqno, begin |-> now]
             warmups == IF reset THEN past.warmups \cup {warmup} ELSE past.warmups
  <1>1. /\ b.seqno < bridge.seqno /\ now' = now /\ bridge' = bridge /\ file' = file
        /\ store' = store /\ past' = [past EXCEPT !.warmups = warmups]
        /\ broker' = [broker EXCEPT ![l] = c]
    <2>1. /\ b.seqno < bridge.seqno /\ now' = now /\ bridge' = bridge /\ file' = file
          /\ store' = store
      BY DEF BrokerApply
    <2>2. past' = [past EXCEPT !.warmups = warmups]
      BY DEF BrokerApply
    <2>3. broker' = [broker EXCEPT ![l] = c]
      BY DEF BrokerApply
    <2>4. QED
      BY <2>1, <2>2, <2>3
  <1>2. /\ now \in Nat /\ now >= 1 /\ bridge.seqno \in Nat /\ broker \in [Link -> LinkStatus]
        /\ b \in LinkStatus /\ BackendAt(l) /\ Warmup \in Nat \ {0}
        /\ past = [updates |-> past.updates, warmups |-> past.warmups]
    BY StoreParts, StoreConstants DEF Bridge, RecordsUnderWay
  <1> HIDE DEF warmups
  <1>3. /\ past'.updates = past.updates /\ past'.warmups = warmups
        /\ past' = [updates |-> past'.updates, warmups |-> past'.warmups]
    BY <1>1, <1>2
  <1>4. past.warmups \subseteq past'.warmups
    BY <1>3 DEF warmups
  <1>5. /\ c \in LinkStatus /\ c.seqno = bridge.seqno
        /\ c.until = 0 \/ c.until > now
        /\ c.event >= 0 /\ WarmupKnown(c, now, past')
    <2>1. CASE reset
      <3> DEFINE q == bridge.seqno
                 u == now + Warmup
                 d == [b EXCEPT !.seqno = q, !.active = TRUE, !.until = u]
                 f == [d EXCEPT !.event = b.event + 1, !.profile = q]
      <3>0. q \in Nat /\ q \in Int /\ u \in Nat /\ u > now /\ b \in LinkStatus
        BY <1>2
      <3>1. d \in LinkStatus /\ d.seqno = q /\ d.until = u /\ d.event = b.event
        <4> HIDE DEF q, u, b
        <4>1. QED
          BY ONLY <3>0 DEF LinkStatus, d
      <3>2. c = [f EXCEPT !.begin = now, !.end = 0]
        <4>1. c = begun
          BY <2>1
        <4>2. begun = [f EXCEPT !.begin = now, !.end = 0]
          BY ONLY <1>2 DEF LinkStatus, begun, d, f, q, u
        <4>3. QED
          BY <4>1, <4>2
      <3>3. b.event >= 0 /\ b.event \in Int
        BY <1>2 DEF BackendAt, LinkStatus
      <3>4. /\ f \in LinkStatus /\ f.seqno = bridge.seqno /\ f.until = now + Warmup
            /\ f.event = b.event + 1 /\ f.profile = bridge.seqno
        <4> DEFINE m == b.event + 1
        <4>1. m \in Int
          BY <3>3
        <4> HIDE DEF d, b, q, u, m
        <4>2. /\ f \in LinkStatus /\ f.seqno = q /\ f.until = u /\ f.event = m /\ f.profile = q
          <5>1. f = [d EXCEPT !.event = m, !.profile = q]
            BY DEF f, m
          <5> HIDE DEF f
          <5>2. QED
            BY ONLY <3>0, <3>1, <4>1, <5>1 DEF LinkStatus
        <4>3. QED
          BY <4>2 DEF q, u, m
      <3> HIDE DEF d, f, c
      <3>5. /\ c \in LinkStatus /\ c.seqno = bridge.seqno /\ c.until = now + Warmup
            /\ c.event = b.event + 1 /\ c.profile = bridge.seqno /\ c.begin = now /\ c.end = 0
        BY ONLY <1>2, <3>2, <3>4 DEF LinkStatus
      <3>6. [profile |-> c.profile, begin |-> c.begin] \in past'.warmups
        BY <1>3, <2>1, <3>5 DEF warmups
      <3>7. WarmupKnown(c, now, past')
        BY <1>2, <3>5, <3>6 DEF WarmupKnown
      <3>8. QED
        BY <1>2, <3>3, <3>5, <3>7
    <2>2. CASE ~reset
      <3>1. c = kept
        BY <2>2
      <3>0. b \in LinkStatus /\ bridge.seqno \in Int
        BY <1>2
      <3> HIDE DEF c, b
      <3>2. /\ c \in LinkStatus /\ c.seqno = bridge.seqno /\ c.until = b.until
            /\ c.event = b.event /\ c.profile = b.profile /\ c.begin = b.begin /\ c.end = b.end
        BY ONLY <3>0, <3>1 DEF LinkStatus
      <3>3. WarmupKnown(c, now, past')
        BY <1>2, <1>4, <3>2 DEF BackendAt, WarmupKnown, b
      <3>4. QED
        BY <1>2, <3>2, <3>3 DEF BackendAt, b
    <2>3. QED
      BY <2>1, <2>2
  <1> HIDE DEF c
  <1>6. /\ broker' \in [Link -> LinkStatus] /\ broker'[l] = c
        /\ \A k \in Link : k # l => broker'[k] = broker[k]
    BY <1>1, <1>2, <1>5
  <1>7. ASSUME NEW k \in Link PROVE BackendAt(k)' /\ TelemetryAt(store, k)'
    <2>1. BackendAt(k) /\ TelemetryAt(store, k) /\ store.telemetry[k] \in LinkStatus
      BY StoreParts
    <2>2. WarmupKnown(store.telemetry[k], now', past')
      BY <1>1, <1>2, <1>4, <2>1, KnownLater DEF TelemetryAt
    <2>3. CASE k = l
      <3>1. BackendAt(k)'
        BY <1>1, <1>2, <1>5, <1>6, <2>3 DEF BackendAt
      <3>2. store.telemetry[k].seqno < broker'[k].seqno
        BY <1>1, <1>2, <1>5, <1>6, <2>1, <2>3 DEF TelemetryAt, LinkStatus
      <3>3. TelemetryAt(store, k)'
        <4> DEFINE p == store.telemetry[k]
        <4>1. p.seqno \in Int /\ broker'[k].seqno \in Int /\ p.seqno < broker'[k].seqno
          BY <1>2, <1>5, <1>6, <2>1, <2>3, <3>2 DEF LinkStatus
        <4>2. p.seqno <= broker'[k].seqno /\ p.seqno # broker'[k].seqno
          BY ONLY <4>1
        <4>3. /\ p.slot <= now /\ store.seen[k] \in 0 .. now
              /\ p.until = 0 \/ p.until > p.slot
          BY <2>1 DEF TelemetryAt
        <4>4. store'.telemetry[k] = p /\ store'.seen[k] = store.seen[k] /\ now' = now
          BY <1>1
        <4>5. QED
          BY <2>2, <4>2, <4>3, <4>4 DEF TelemetryAt
      <3>4. QED
        BY <3>1, <3>3
    <2>4. CASE k # l
      <3>1. broker'[k] = broker[k]
        BY <1>6, <2>4
      <3>2. WarmupKnown(broker[k], now', past')
        BY <1>1, <1>2, <1>4, <2>1, KnownLater DEF BackendAt
      <3>3. QED
        BY <1>1, <2>1, <2>2, <3>1, <3>2 DEF BackendAt, TelemetryAt
    <2>5. QED
      BY <2>3, <2>4
  <1>8. RecordsOK(store', now', past')
    BY <1>1, <1>2, <1>3, <1>4, StoreParts, RecordsLater
  <1>9. StoreOK(store)'
    BY <1>1, <1>7, <1>8, StoreParts, StorePrimed
  <1>10. RecordsUnderWay'
    BY <1>1, <1>3, StoreParts DEF RecordsUnderWay
  <1>11. QED
    BY <1>1, <1>6, <1>7, <1>9, <1>10, StoreParts DEF StoreInv

\* What the bridge does: a new record, and perhaps one more seqno.
LEMMA BridgeWrites ==
  ASSUME StoreInv, now' = now, broker' = broker, store' = store, RecordsUnderWay',
         bridge' \in Bridge, bridge.seqno <= bridge'.seqno,
         past.updates \subseteq past'.updates, past'.warmups = past.warmups
  PROVE  StoreInv'
  <1>1. bridge'.seqno \in Nat
    BY DEF Bridge
  <1>2. /\ \A l \in Link : BackendAt(l)'
        /\ \A l \in Link : TelemetryAt(store, l)'
        /\ store'.telemetry \in [Link -> LinkStatus] /\ store'.seen \in [Link -> Nat]
    BY <1>1, LinksKept
  <1>3. RecordsOK(store', now', past')
    BY StoreParts, RecordsLater
  <1>4. StoreOK(store)'
    BY <1>2, <1>3, StorePrimed
  <1>5. QED
    BY <1>2, <1>4, StoreParts DEF StoreInv

LEMMA BridgeTraceStep ==
  ASSUME StoreInv, NEW restart \in BOOLEAN, BridgeTrace(restart)
  PROVE  StoreInv'
  <1> DEFINE b == [bridge EXCEPT !.pc = "traced", !.batches = @ + 1,
                                 !.session = IF restart THEN @ + 1 ELSE @,
                                 !.iter = IF restart THEN 1 ELSE @ + 1]
             rec == [event |-> "runtime", session |-> b.session, iter |-> b.iter, at |-> now]
  <1>1. /\ bridge' = b /\ file' = Append(file, rec) /\ now' = now /\ broker' = broker
        /\ store' = store /\ past' = past
    BY DEF BridgeTrace
  <1>2. bridge \in Bridge /\ now \in Nat /\ RecordsUnderWay
    BY StoreParts
  <1>3. b \in Bridge /\ b.seqno = bridge.seqno
    <2> DEFINE n == IF restart THEN bridge.session + 1 ELSE bridge.session
               m == IF restart THEN 1 ELSE bridge.iter + 1
    <2>1. bridge.session \in Nat \ {0} /\ bridge.iter \in Nat /\ bridge.batches \in Nat
      BY <1>2 DEF Bridge
    <2>2. n \in Nat \ {0} /\ m \in Nat /\ bridge.batches + 1 \in Nat
      BY <2>1
    <2>3. b = [bridge EXCEPT !.pc = "traced", !.batches = bridge.batches + 1,
                             !.session = n, !.iter = m]
      BY <1>2 DEF Bridge
    <2> HIDE DEF b, n, m
    <2>4. QED
      BY ONLY <1>2, <2>2, <2>3 DEF Bridge
  <1> HIDE DEF b
  <1>4. rec \in RuntimeRecord /\ rec.event = "runtime"
    BY <1>2, <1>3 DEF Bridge, RuntimeRecord
  <1> HIDE DEF rec
  <1>5. RecordsUnderWay'
    <2>1. /\ file' \in Seq(UpdateRecord \cup RuntimeRecord)
          /\ \A i \in DOMAIN file' : file'[i] = rec \/ (i \in DOMAIN file /\ file'[i] = file[i])
      BY <1>1, <1>2, <1>4 DEF RecordsUnderWay
    <2>2. QED
      BY <1>1, <1>2, <1>4, <2>1 DEF RecordsUnderWay
  <1>6. bridge' \in Bridge /\ bridge.seqno <= bridge'.seqno
    BY <1>1, <1>2, <1>3 DEF Bridge
  <1>7. QED
    BY <1>1, <1>5, <1>6, BridgeWrites

LEMMA BridgeUpdateStep ==
  ASSUME StoreInv, NEW reply \in Replies, NEW lost \in BOOLEAN, BridgeUpdate(reply, lost)
  PROVE  StoreInv'
  <1> DEFINE seqno == IF reply = "ok" THEN bridge.seqno + 1 ELSE bridge.seqno
             rec == [event |-> "update", session |-> bridge.session, iter |-> bridge.iter,
                     at |-> now, reply |-> reply, seqno |-> seqno,
                     warm |-> IF reply = "ok" THEN Link ELSE {}]
             updates == past.updates \cup {rec}
  <1>1. /\ bridge' = [bridge EXCEPT !.pc = "idle", !.seqno = seqno] /\ now' = now
        /\ broker' = broker /\ store' = store /\ past' = [past EXCEPT !.updates = updates]
        /\ file' = IF lost THEN file ELSE Append(file, rec)
    BY DEF BridgeUpdate
  <1>2. /\ bridge \in Bridge /\ now \in Nat /\ RecordsUnderWay
        /\ past = [updates |-> past.updates, warmups |-> past.warmups]
    BY StoreParts DEF RecordsUnderWay
  <1>3. seqno \in Nat /\ bridge.seqno <= seqno
    BY <1>2 DEF Bridge
  <1> HIDE DEF seqno
  <1>4. rec \in UpdateRecord
    BY <1>2, <1>3 DEF Bridge, UpdateRecord
  <1> HIDE DEF rec, updates
  <1>5. bridge' \in Bridge /\ bridge'.seqno = seqno
    BY <1>1, <1>2, <1>3 DEF Bridge
  <1>6. /\ past'.updates = updates /\ past'.warmups = past.warmups
        /\ past' = [updates |-> past'.updates, warmups |-> past'.warmups]
    BY <1>1, <1>2
  <1>7. RecordsUnderWay'
    <2>1. /\ file' \in Seq(UpdateRecord \cup RuntimeRecord)
          /\ \A i \in DOMAIN file' : file'[i] = rec \/ (i \in DOMAIN file /\ file'[i] = file[i])
      <3>1. CASE lost
        BY <1>1, <1>2, <3>1 DEF RecordsUnderWay
      <3>2. CASE ~lost
        <4>1. file' = Append(file, rec)
          BY <1>1, <3>2
        <4>2. QED
          BY <1>2, <1>4, <4>1 DEF RecordsUnderWay
      <3>3. QED
        BY <3>1, <3>2
    <2>2. updates \subseteq UpdateRecord /\ past.updates \subseteq updates /\ rec \in updates
      BY <1>2, <1>4 DEF RecordsUnderWay, updates
    <2>3. QED
      BY <1>2, <1>6, <2>1, <2>2 DEF RecordsUnderWay
  <1>8. past.updates \subseteq past'.updates
    BY <1>6 DEF updates
  <1>9. QED
    BY <1>1, <1>3, <1>5, <1>6, <1>7, <1>8, BridgeWrites

LEMMA StoreStep == StoreInv /\ [StoreNext]_storeVars => StoreInv'
  <1> SUFFICES ASSUME StoreInv, [StoreNext]_storeVars PROVE StoreInv'
    OBVIOUS
  <1>1. CASE StoreTick
    BY <1>1, StoreTickStep
  <1>2. CASE \E l \in Link : TelemetryLoop(l)
    BY <1>2, TelemetryLoopStep
  <1>3. CASE PollOnce
    BY <1>3, PollOnceStep
  <1>4. CASE \E l \in Link, reset \in BOOLEAN : BrokerApply(l, reset)
    BY <1>4, BrokerApplyStep
  <1>5. CASE \E restart \in BOOLEAN : BridgeTrace(restart)
    BY <1>5, BridgeTraceStep
  <1>6. CASE \E reply \in Replies, lost \in BOOLEAN : BridgeUpdate(reply, lost)
    BY <1>6, BridgeUpdateStep
  <1>7. CASE UNCHANGED storeVars
    <2>1. /\ now' = now /\ bridge' = bridge /\ file' = file /\ broker' = broker
          /\ store' = store /\ past' = past
      BY <1>7 DEF storeVars
    <2>2. RecordsUnderWay'
      BY <2>1, StoreParts DEF RecordsUnderWay
    <2>3. bridge' \in Bridge /\ bridge.seqno <= bridge'.seqno
      BY <2>1, StoreParts DEF Bridge
    <2>4. QED
      BY <2>1, <2>2, <2>3, BridgeWrites
  <1>8. QED
    BY <1>1, <1>2, <1>3, <1>4, <1>5, <1>6, <1>7 DEF StoreNext

\* The status store, its feeds and what it waits for keep their invariant
\* (StatusStore of server.py, under its lock).
THEOREM StoreInvariant == StoreSpec => []StoreInv
  BY StoreInitInv, StoreStep, PTL DEF StoreSpec

\* Telemetry that shows a link usable is of a broker that is not warming up,
\* unless it has moved on.
LEMMA UsableTrue ==
  ASSUME StoreInv, NEW l \in Link, NEW age, NEW seqno \in Nat,
         Usable(store.telemetry[l], seqno, age)
  PROVE  /\ broker[l].seqno >= seqno
         /\ broker[l].seqno = store.telemetry[l].seqno => broker[l].until = 0
  <1> DEFINE p == store.telemetry[l]
  <1>1. p \in LinkStatus /\ broker[l] \in LinkStatus /\ TelemetryAt(store, l)
    BY StoreParts
  <1>2. p.seqno >= seqno /\ ~(p.until > 0 /\ p.slot < p.until)
    BY DEF Usable, Applied
  <1>3. p.until = 0
    BY <1>1, <1>2 DEF TelemetryAt, LinkStatus
  <1>4. broker[l].seqno >= seqno
    BY <1>1, <1>2 DEF TelemetryAt, LinkStatus
  <1>5. QED
    BY <1>1, <1>3, <1>4 DEF TelemetryAt

\* What the dashboard tells of an update is true (StatusStore.snapshot): no
\* delivery before every link has it, no warm-up but the update's own, nothing
\* of an earlier session.
THEOREM DashboardTellsTruth == StoreSpec => []StoreTruthful
  <1>1. StoreInv => StoreTruthful
    <2> SUFFICES ASSUME StoreInv PROVE StoreTruthful
      OBVIOUS
    <2> DEFINE rec == store.sionna
    <2>1. /\ now \in 1 .. MaxNow /\ now \in Nat /\ RecordsOK(store, now, past)
          /\ \A l \in Link : TelemetryAt(store, l) /\ store.telemetry[l] \in LinkStatus
      BY StoreParts
    <2>2. rec = NoUpdate \/ (rec \in UpdateRecord /\ rec.session = store.session)
      BY <2>1 DEF RecordsOK
    <2>3. EventsOK(store.events, store.session, store.targets, now, past)
      BY <2>1 DEF RecordsOK
    <2>4. StoreTypeOK
      BY <2>1 DEF StoreTypeOK, RecordsOK, TelemetryAt, LinkStatus
    <2>5. DeliveryTruthful
      <3> SUFFICES ASSUME NEW t \in 1 .. now
                   PROVE  /\ Snapshot(t) = "backend_applied" =>
                               \A l \in Link : broker[l].seqno >= rec.seqno
                          /\ \A l \in UsableLinks(t) :
                               broker[l].seqno = store.telemetry[l].seqno => broker[l].until = 0
        BY DEF DeliveryTruthful
      <3>1. rec \in UpdateRecord => rec.seqno \in Nat
        BY DEF UpdateRecord
      <3>2. ASSUME Snapshot(t) = "backend_applied", NEW l \in Link
            PROVE  broker[l].seqno >= rec.seqno
        <4> DEFINE age == SnapshotAges(t)
        <4>1. rec # NoUpdate /\ rec \in UpdateRecord
          BY <2>2, <3>2 DEF Snapshot, DeliveryState
        <4>2. \A k \in Link : Usable(store.telemetry[k], rec.seqno, age[k])
          BY <3>2, <4>1 DEF Snapshot, DeliveryState
        <4>3. QED
          BY <3>1, <4>1, <4>2, UsableTrue
      <3>3. ASSUME NEW l \in UsableLinks(t), broker[l].seqno = store.telemetry[l].seqno
            PROVE  broker[l].until = 0
        <4>1. /\ l \in Link /\ rec # NoUpdate
              /\ Usable(store.telemetry[l], rec.seqno, SnapshotAges(t)[l])
          BY DEF UsableLinks
        <4>2. QED
          BY <2>2, <3>1, <3>3, <4>1, UsableTrue
      <3>4. QED
        BY <3>2, <3>3
    <2>6. WarmupOrdered
      BY <2>3 DEF WarmupOrdered, EventsOK, EventOK
    <2>7. WarmupAttributed
      BY <2>3 DEF WarmupAttributed, EventsOK, EventOK, Attributed
    <2>8. SessionClean
      <3>1. ASSUME NEW k \in DOMAIN store.targets PROVE k[1] = store.session
        <4>1. PICK r \in past.updates : k = Key(r) /\ r.session = store.session
          BY <2>1 DEF RecordsOK, TargetsOK
        <4>2. QED
          BY <4>1 DEF Key
      <3>2. rec.session \in {0, store.session}
        BY <2>2 DEF NoUpdate
      <3>3. QED
        BY <2>3, <3>1, <3>2 DEF SessionClean, EventsOK
    <2>9. QED
      BY <2>4, <2>5, <2>6, <2>7, <2>8 DEF StoreTruthful
  <1>2. QED
    BY <1>1, StoreInvariant, PTL
=============================================================================
