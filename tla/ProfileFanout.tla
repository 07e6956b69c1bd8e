---------------------------- MODULE ProfileFanout ----------------------------
(***************************************************************************)
(* How a solved batch of channel profiles reaches the brokers: send_fanout  *)
(* of apps/sionna_bridge/run_bridge.py runs one worker per broker, each    *)
(* with a ZmqControlClient (channel_adapter.py) of its own that opens a    *)
(* batch, stages a profile per link and commits.  Requests time out, are   *)
(* rejected, or are answered after the client gave up; bridges and brokers *)
(* die and are started again.                                              *)
(*                                                                         *)
(* The broker is its control server (src/src/control_server.cpp), reduced  *)
(* to the batches; LinkControl has the rest.  A profile is known by the    *)
(* update that solved it.                                                  *)
(***************************************************************************)
EXTENDS Integers, SequencesExt

CONSTANTS
  Broker,      \* the control endpoints
  BatchLinks,  \* links in a batch
  MaxUpdate, MaxSession, MaxOutage   \* bounds of the model

ASSUME FanoutAssumption ==
  /\ BatchLinks \in Nat \ {0}
  /\ {MaxUpdate, MaxSession, MaxOutage} \subseteq Nat

VARIABLES
  fanout,      \* the bridge process: main() as far as it sends
  client,      \* a worker of the executor with its ZmqControlClient
  wire,        \* requests on their way to a broker, in order
  cellBroker,  \* ControlServer: open_batches_ and what the links were given
  dirty        \* history: brokers that a bridge gave up on, or was killed over

fanVars == << fanout, client, wire, cellBroker, dirty >>

Unseen == << 0, 0 >>

\* The update in hand: (session, iteration).  The batch id is the iteration
\* alone: another bridge process uses the same ids again.
Update == << fanout.session, fanout.iteration >>
BatchId == fanout.iteration

NewControlClient == [pc |-> "idle", staged |-> 0, asked |-> FALSE, usable |-> TRUE, reply |-> "none"]

NoBatches == [id \in {} |-> << >>]

FanInit ==
  /\ fanout = [pc |-> "solve", session |-> 1, iteration |-> 0]
  /\ client = [b \in Broker |-> NewControlClient]
  /\ wire = [b \in Broker |-> << >>]
  /\ cellBroker = [b \in Broker |-> [up |-> TRUE, open |-> NoBatches, shown |-> Unseen,
                 whole |-> TRUE, outages |-> 0]]
  /\ dirty = {}

(***************************************************************************)
(* ZmqControlClient.                                                       *)
(***************************************************************************)

\* Where a worker is after a request was answered well.
AfterOk(c) ==
  CASE c.pc = "begin" -> [c EXCEPT !.pc = "swap"]
    [] c.pc = "swap" -> [c EXCEPT !.staged = @ + 1,
                                  !.pc = IF c.staged + 1 = BatchLinks THEN "commit" ELSE "swap"]
    [] c.pc = "commit" -> [c EXCEPT !.pc = "ok"]
    [] c.pc = "abort" -> [c EXCEPT !.pc = "raised"]

\* ... and after it was not: batch_begin is outside the try of
\* send_matrix_profiles, and an error of batch_abort is swallowed.
AfterError(c) == [c EXCEPT !.pc = IF c.pc \in {"swap", "commit"} THEN "abort" ELSE "raised"]

Request(b) ==
  [type |-> client[b].pc, id |-> BatchId, update |-> Update, session |-> fanout.session]

\* request(): a socket whose last request was not answered cannot send again.
SendRequest(b) ==
  LET c == client[b]
  IN  /\ fanout.pc \in {"send", "closing"}
      /\ c.pc \in {"begin", "swap", "commit", "abort"} /\ ~c.asked
      /\ IF c.usable
         THEN /\ client' = [client EXCEPT ![b].asked = TRUE]
              /\ wire' = [wire EXCEPT ![b] = Append(@, Request(b))]
         ELSE client' = [client EXCEPT ![b] = AfterError(c)] /\ UNCHANGED wire
      /\ UNCHANGED << fanout, cellBroker, dirty >>

\* A reply that does not say ok raises like a timeout does.
ReceiveReply(b) ==
  LET c == [client[b] EXCEPT !.asked = FALSE, !.reply = "none"]
  IN  /\ client[b].asked /\ client[b].reply # "none"
      /\ client' = [client EXCEPT ![b] = IF client[b].reply = "ok" THEN AfterOk(c) ELSE AfterError(c)]
      /\ UNCHANGED << fanout, wire, cellBroker, dirty >>

\* RCVTIMEO: the broker is not there, or has not answered yet.
RequestTimeout(b) ==
  LET c == [client[b] EXCEPT !.asked = FALSE, !.usable = FALSE]
  IN  /\ client[b].asked /\ client[b].reply = "none"
      /\ client' = [client EXCEPT ![b] = AfterError(c)]
      /\ dirty' = dirty \cup {b}
      /\ UNCHANGED << fanout, wire, cellBroker >>

(***************************************************************************)
(* send_fanout and main().                                                 *)
(***************************************************************************)

\* The update is solved: every endpoint gets a worker at once.
Dispatch ==
  /\ fanout.pc = "solve" /\ fanout.iteration < MaxUpdate
  /\ fanout' = [fanout EXCEPT !.pc = "send"]
  /\ client' = [b \in Broker |-> [NewControlClient EXCEPT !.pc = "begin"]]
  /\ UNCHANGED << wire, cellBroker, dirty >>

Workers(pcs) == \A b \in Broker : client[b].pc \in pcs

\* Mutant of Acknowledged: a cell that failed is left behind.
AcknowledgedSome == Workers({"ok", "raised"})

\* Every broker has committed the batch.
Acknowledged == Workers({"ok"})

Joined ==
  /\ fanout.pc = "send" /\ Acknowledged
  /\ fanout' = [fanout EXCEPT !.pc = "solve", !.iteration = @ + 1]
  /\ client' = [b \in Broker |-> NewControlClient]
  /\ UNCHANGED << wire, cellBroker, dirty >>

\* executor.map raises a worker's error; a call not yet begun may be cancelled.
Raised ==
  /\ fanout.pc = "send" /\ \E b \in Broker : client[b].pc = "raised"
  /\ fanout' = [fanout EXCEPT !.pc = "closing"]
  /\ \E cancelled \in SUBSET {b \in Broker : client[b].pc = "begin" /\ ~client[b].asked} :
       client' = [b \in Broker |->
         IF b \in cancelled THEN [client[b] EXCEPT !.pc = "raised"] ELSE client[b]]
  /\ UNCHANGED << wire, cellBroker, dirty >>

\* executor.shutdown(wait=True)
Drained == Workers({"ok", "raised"})

\* The sockets go; what they could not yet send is dropped (LINGER 0).
CloseSockets == wire' = [b \in Broker |-> IF cellBroker[b].up THEN wire[b] ELSE << >>]

CloseClients ==
  /\ fanout.pc = "closing" /\ Drained
  /\ fanout' = [fanout EXCEPT !.pc = "failed"]
  /\ CloseSockets
  /\ UNCHANGED << client, cellBroker, dirty >>

(***************************************************************************)
(* The brokers.                                                            *)
(***************************************************************************)

\* A broker refuses to open a batch twice, and to use one that is not open.
Accepts(s, r) == (r.id \in DOMAIN s.open) = (r.type # "begin")

\* handle_message for a request it accepts: a commit applies what was staged
\* and gives every link of the batch its profile.
Served(s, r) ==
  LET opened == [i \in DOMAIN s.open \cup {r.id} |-> IF i = r.id THEN << >> ELSE s.open[i]]
      closed == [i \in DOMAIN s.open \ {r.id} |-> s.open[i]]
  IN  CASE r.type = "begin" -> [s EXCEPT !.open = opened]
        [] r.type = "swap" -> [s EXCEPT !.open[r.id] = Append(@, r.update)]
        [] r.type = "commit" -> [s EXCEPT !.open = closed, !.shown = Last(s.open[r.id]),
                                          !.whole = s.open[r.id] = [l \in 1 .. BatchLinks |-> r.update]]
        [] r.type = "abort" -> [s EXCEPT !.open = closed]

\* A profile may also be refused for what it holds.
Serve(b) ==
  LET r == Head(wire[b])
  IN  /\ cellBroker[b].up /\ wire[b] # << >>
      /\ wire' = [wire EXCEPT ![b] = Tail(@)]
      /\ \E ok \in IF Accepts(cellBroker[b], r) THEN IF r.type = "swap" THEN BOOLEAN ELSE {TRUE} ELSE {FALSE} :
           /\ cellBroker' = [cellBroker EXCEPT ![b] = IF ok THEN Served(@, r) ELSE @]
           /\ client' = IF r.session = fanout.session /\ client[b].asked
                        THEN [client EXCEPT ![b].reply = IF ok THEN "ok" ELSE "rejected"] ELSE client
      /\ UNCHANGED << fanout, dirty >>

\* A broker dies with its batches and what it was sent, and comes back with
\* the profiles of its configuration.
BrokerDies(b) ==
  /\ cellBroker[b].up /\ \A any \in Broker : cellBroker[any].outages < MaxOutage
  /\ cellBroker' = [cellBroker EXCEPT ![b] = [up |-> FALSE, open |-> NoBatches, shown |-> Unseen,
                  whole |-> TRUE, outages |-> @.outages + 1]]
  /\ wire' = [wire EXCEPT ![b] = << >>]
  /\ UNCHANGED << fanout, client, dirty >>

BrokerStarts(b) ==
  /\ ~cellBroker[b].up
  /\ cellBroker' = [cellBroker EXCEPT ![b].up = TRUE]
  /\ UNCHANGED << fanout, client, wire, dirty >>

\* The bridge is killed, in the middle of anything.
BridgeKilled ==
  /\ fanout.pc \in {"solve", "send", "closing"}
  /\ fanout' = [fanout EXCEPT !.pc = "killed"]
  /\ dirty' = dirty \cup {b \in Broker : client[b].pc \in {"begin", "swap", "commit", "abort"}}
  /\ CloseSockets
  /\ UNCHANGED << client, cellBroker >>

\* It is started again, long after what was on the wire has been served.
BridgeStarts ==
  /\ fanout.pc \in {"failed", "killed"} /\ fanout.session < MaxSession
  /\ \A b \in Broker : wire[b] = << >>
  /\ fanout' = [pc |-> "solve", session |-> fanout.session + 1, iteration |-> 0]
  /\ client' = [b \in Broker |-> NewControlClient]
  /\ UNCHANGED << wire, cellBroker, dirty >>

FanNext ==
  \/ Dispatch \/ Joined \/ Raised \/ CloseClients \/ BridgeKilled \/ BridgeStarts
  \/ \E b \in Broker :
       \/ SendRequest(b) \/ ReceiveReply(b) \/ RequestTimeout(b)
       \/ Serve(b) \/ BrokerDies(b) \/ BrokerStarts(b)

FanSpec == FanInit /\ [][FanNext]_fanVars

\* Every worker is scheduled and every request ends by its timeout; nothing is
\* assumed of the brokers.
FanFairSpec ==
  /\ FanSpec
  /\ WF_fanVars(Joined) /\ WF_fanVars(Raised) /\ WF_fanVars(CloseClients)
  /\ \A b \in Broker :
       WF_fanVars(SendRequest(b)) /\ WF_fanVars(ReceiveReply(b) \/ RequestTimeout(b))

(***************************************************************************)
(* Properties.                                                             *)
(***************************************************************************)

\* Between two updates every broker carries the same update, the last one: no
\* cell is driven by an older channel while the bridge runs.  A broker that was
\* restarted in between carries its configuration until the next update.
CellsTogether ==
  fanout.pc = "solve" /\ fanout.iteration > 0 =>
    \A b \in Broker : cellBroker[b].shown \in {Unseen, << fanout.session, fanout.iteration - 1 >>}

\* A broker never commits a batch that holds anything but one profile per link,
\* all of one update, although batch ids are not unique to a bridge process.
WholeBatch == \A b \in Broker : cellBroker[b].whole

\* A bridge that fails has let every worker finish: none is in the middle of a
\* request when the sockets are closed.
FailsQuietly == fanout.pc = "failed" => Workers({"ok", "raised"})

\* A new batch is refused only by a broker that an earlier bridge gave up on
\* after a timeout or was killed over: a batch that is merely rejected is always
\* aborted.  (Those two leave "sionna-0" open for good; see the README.)
RefusedOnlyDirty ==
  \A b \in Broker : client[b].pc = "begin" /\ client[b].reply = "rejected" => b \in dirty

\* A transaction ends, in an acknowledgement or in a failure, whatever the
\* brokers do.
TransactionEnds == fanout.pc = "send" ~> fanout.pc \in {"solve", "failed", "killed"}

\* An update reaches every cell whole or the bridge ends (send_fanout, the
\* clients' batch), and ending it leaves no request in the middle.
UpdatesWhole == CellsTogether /\ WholeBatch /\ FailsQuietly /\ RefusedOnlyDirty

(***************************************************************************)
(* What makes them inductive, broker by broker: what a client, the wire    *)
(* and the broker's batches look like at each point of a transaction.      *)
(***************************************************************************)
Clients ==
  [pc : {"idle", "begin", "swap", "commit", "abort", "ok", "raised"}, staged : 0 .. BatchLinks,
   asked : BOOLEAN, usable : BOOLEAN, reply : {"none", "ok", "rejected"}]

CellOK(s) ==
  /\ s \in [up : BOOLEAN, open : [DOMAIN s.open -> Seq(Nat \X Nat)], shown : Nat \X Nat,
            whole : BOOLEAN, outages : Nat]
  /\ DOMAIN s.open \subseteq 0 .. MaxUpdate

FanTypeOK ==
  /\ fanout \in [pc : {"solve", "send", "closing", "failed", "killed"}, session : Nat,
                 iteration : 0 .. MaxUpdate]
  /\ fanout.pc = "send" => fanout.iteration < MaxUpdate
  /\ client \in [Broker -> Clients]
  /\ DOMAIN cellBroker = Broker /\ \A b \in Broker : CellOK(cellBroker[b])
  /\ DOMAIN wire = Broker

RequestOf(type) == [type |-> type, id |-> BatchId, update |-> Update, session |-> fanout.session]
Asking == {"begin", "swap", "commit", "abort"}

\* At most one request is on the wire, of the update in hand: the one that the
\* client waits for, unless it has given up.
WireAt(b) ==
  /\ wire[b] = << >> \/ \E type \in Asking : wire[b] = << RequestOf(type) >>
  /\ client[b].usable /\ wire[b] # << >> =>
       /\ client[b].asked /\ client[b].reply = "none"
       /\ wire[b] = << RequestOf(client[b].pc) >>

ClientAt(b) ==
  LET c == client[b]
  IN  /\ c.asked => c.pc \in Asking /\ c.usable
      /\ c.reply # "none" => c.asked
      /\ c.pc = "idle" => c = NewControlClient
      /\ c.pc = "begin" => c.staged = 0
      /\ c.pc = "swap" => c.staged < BatchLinks
      /\ c.pc = "commit" => c.staged = BatchLinks
      /\ c.pc = "ok" => c.usable
      /\ fanout.pc = "solve" => c.pc = "idle"
      /\ fanout.pc \in {"send", "closing", "failed"} => c.pc # "idle"
      /\ fanout.pc = "failed" => c.pc \in {"ok", "raised"}

\* A batch that this update opened, if the broker still has it, holds what the
\* client staged; a commit under way meets a whole one.
Copies(n) == [i \in 1 .. n |-> Update]

StagedAt(b) ==
  LET c == client[b]
      open == cellBroker[b].open
  IN  BatchId \in DOMAIN open =>
        /\ c.usable /\ c.pc = "begin" /\ c.reply = "ok" => open[BatchId] = << >>
        /\ c.usable /\ c.pc = "swap" =>
             open[BatchId] = Copies(IF c.reply = "ok" THEN c.staged + 1 ELSE c.staged)
        /\ (c.usable /\ c.pc = "commit") \/ wire[b] = << RequestOf("commit") >> =>
             open[BatchId] = Copies(BatchLinks)

ShownAt(b) ==
  LET c == client[b]
      s == cellBroker[b]
  IN  /\ s.whole
      /\ c.pc = "ok" \/ (c.pc = "commit" /\ c.reply = "ok") => s.shown \in {Unseen, Update}
      /\ fanout.pc = "solve" /\ fanout.iteration > 0 =>
           s.shown \in {Unseen, << fanout.session, fanout.iteration - 1 >>}

\* The batches of a broker that no bridge has given up on: none but the one of
\* the transaction, and that one only while it lasts.
CleanAt(b) ==
  LET c == client[b]
      over == \/ c.pc \in {"idle", "ok", "raised"}
              \/ c.pc = "begin" /\ c.reply # "ok"
              \/ c.pc \in {"commit", "abort"} /\ c.reply # "none"
  IN  b \notin dirty =>
        /\ c.usable
        /\ ~(c.pc = "begin" /\ c.reply = "rejected")
        /\ fanout.pc = "killed" => c.pc \notin Asking
        /\ DOMAIN cellBroker[b].open \subseteq IF over THEN {} ELSE {BatchId}

BrokerInv(b) == WireAt(b) /\ ClientAt(b) /\ StagedAt(b) /\ ShownAt(b) /\ CleanAt(b)
FanInv == FanTypeOK /\ \A b \in Broker : BrokerInv(b)
=============================================================================
