---------------------------- MODULE MetricsFeed ----------------------------
(***************************************************************************)
(* The dashboard's subscription to the metrics of one gNB: the thread      *)
(* gnb_metrics_loop with its WebSocketClient, and the feed it keeps in the *)
(* StatusStore (apps/dashboard/server.py).  The gNB is reached directly or *)
(* through the byte pump scripts/native/gnb-metrics-relay.py, which closes *)
(* one side when the other has closed; either way the thread sees a        *)
(* connection that is refused, answers, ends, or falls silent.             *)
(*                                                                         *)
(* The clock counts poll periods: a thread that can run does so before     *)
(* time passes.                                                            *)
(***************************************************************************)
EXTENDS Integers, SequencesExt

CONSTANTS
  IdleSeconds, PongSeconds,   \* of monitor_connection
  StaleSeconds,               \* GNB_UE_REPORT_STALE_SECONDS
  MaxBackoff,                 \* the 30 s of gnb_metrics_loop
  MaxClock, MaxMessage, MaxConn   \* bounds of the model

ASSUME FeedAssumption ==
  {IdleSeconds, PongSeconds, StaleSeconds, MaxBackoff, MaxClock, MaxMessage, MaxConn}
    \subseteq Nat \ {0}

VARIABLES
  mclock,    \* monotonic clock
  gnb,       \* does the gNB run, and the messages it has sent
  conn,      \* the connection and the WebSocketClient reading it
  loop,      \* gnb_metrics_loop
  feed,      \* the gNB's entry of StatusStore._gnb_metrics
  stop       \* the stop event

feedVars == << mclock, gnb, conn, loop, feed, stop >>

\* WebSocketClient after the handshake; `peer' is how the other end fares.
NewClient(id) ==
  [id |-> id, peer |-> "alive", wire |-> << >>, partial |-> << >>, last |-> mclock,
   polled |-> FALSE, ping |-> FALSE, deadline |-> 0, unsent |-> FALSE, got |-> << >>]

FeedInit ==
  /\ mclock = 0
  /\ gnb = [up |-> TRUE, sent |-> 0, half |-> FALSE, onConn |-> << >>]
  /\ conn = [NewClient(0) EXCEPT !.peer = "closed"]
  /\ loop = [pc |-> "start", backoff |-> 1, until |-> 0]
  /\ feed = [state |-> "connecting", seen |-> -1, ueSeen |-> -1, current |-> FALSE,
             table |-> 0, conn |-> 0]
  /\ stop = FALSE

(***************************************************************************)
(* The feed.                                                               *)
(***************************************************************************)

\* Mutant of SetState: the table of the previous connection stays current.
SetStateKeeps(state) == [feed EXCEPT !.state = state]

\* set_gnb_metrics_state
SetState(state) ==
  [feed EXCEPT !.state = state,
               !.current = IF state \in {"connecting", "disconnected"} THEN FALSE ELSE @]

\* update_gnb_metrics: every notification is heard, only a scheduler report
\* (is_scheduler_report) replaces the UE table (extract_ue_rows).
UpdateGnbMetrics(m) ==
  LET heard == [feed EXCEPT !.state = "connected", !.seen = mclock]
  IN  IF m.kind = "scheduler"
      THEN [heard EXCEPT !.table = m.id, !.conn = conn.id, !.ueSeen = mclock, !.current = TRUE]
      ELSE heard

\* _gnb_snapshot: is the table shown as stale?
TableStale == feed.ueSeen # -1 /\ (~feed.current \/ mclock - feed.ueSeen > StaleSeconds)

(***************************************************************************)
(* The thread.                                                             *)
(***************************************************************************)

\* The end of a turn: disconnected, then wait with a growing backoff.
Disconnect ==
  /\ feed' = SetState("disconnected")
  /\ loop' = [pc |-> "backoff", until |-> mclock + loop.backoff,
              backoff |-> Min({2 * loop.backoff, MaxBackoff})]

Connecting ==
  /\ loop.pc = "start"
  /\ IF stop THEN loop' = [loop EXCEPT !.pc = "done"] /\ UNCHANGED feed
     ELSE loop' = [loop EXCEPT !.pc = "dial"] /\ feed' = SetState("connecting")
  /\ UNCHANGED << mclock, gnb, conn, stop >>

\* WebSocketClient(), send_text(subscribe), monitor_connection.
Dial ==
  /\ loop.pc = "dial"
  /\ IF gnb.up /\ conn.id < MaxConn
     THEN /\ conn' = NewClient(conn.id + 1)
          /\ gnb' = [gnb EXCEPT !.half = FALSE, !.onConn = << >>]
          /\ loop' = [loop EXCEPT !.pc = "read", !.backoff = 1]
          /\ feed' = SetState("subscribed")
     ELSE Disconnect /\ UNCHANGED << conn, gnb >>
  /\ UNCHANGED << mclock, stop >>

\* Mutant of Liveness: the stop event is not looked at.
LivenessDeaf ==
  IF conn.ping
  THEN IF mclock >= conn.deadline THEN "timed out" ELSE "ok"
  ELSE IF mclock - conn.last >= IdleSeconds THEN "ping" ELSE "ok"

\* _check_liveness
Liveness ==
  IF stop THEN "stopped"
  ELSE IF conn.ping
  THEN IF mclock >= conn.deadline THEN "timed out" ELSE "ok"
  ELSE IF mclock - conn.last >= IdleSeconds THEN "ping" ELSE "ok"

Alarm == Liveness \in {"stopped", "timed out"}

Checked ==
  IF Liveness = "ping"
  THEN [conn EXCEPT !.ping = TRUE, !.unsent = TRUE, !.deadline = mclock + PongSeconds]
  ELSE conn

\* _read_exactly while nothing arrives: poll, or find the connection closed.
PollTimeout ==
  /\ loop.pc = "read" /\ conn.wire = << >>
  /\ \/ /\ Alarm \/ conn.peer = "closed"
        /\ Disconnect
        /\ UNCHANGED conn
     \/ /\ ~Alarm /\ conn.peer # "closed" /\ ~conn.polled
        /\ conn' = [Checked EXCEPT !.polled = TRUE]
        /\ UNCHANGED << feed, loop >>
  /\ UNCHANGED << mclock, gnb, stop >>

\* The fragments of the message being read, after frame f.
Reassembled(c, f) == IF f.op \in {"ping", "pong"} THEN c.partial ELSE Append(c.partial, f.id)

\* recv_message for one frame, and what gnb_metrics_loop does with a message:
\* what is no JSON is skipped.
ReadFrame ==
  LET f == Head(conn.wire)
      c == [Checked EXCEPT !.wire = Tail(@), !.last = mclock]
      parts == Reassembled(c, f)
  IN  /\ loop.pc = "read" /\ conn.wire # << >>
      /\ IF Alarm \/ f.op = "close" THEN Disconnect /\ UNCHANGED conn
         ELSE /\ conn' = [c EXCEPT !.partial = IF f.op = "data" /\ f.fin THEN << >> ELSE parts,
                                   !.ping = @ /\ f.op # "pong",
                                   !.got = IF f.op = "data" /\ f.fin THEN Append(@, parts) ELSE @]
              /\ feed' = IF f.op = "data" /\ f.fin /\ f.kind # "noise"
                         THEN UpdateGnbMetrics(f) ELSE feed
              /\ UNCHANGED loop
      /\ UNCHANGED << mclock, gnb, stop >>

\* stop.wait(backoff)
BackoffOver ==
  /\ loop.pc = "backoff" /\ (stop \/ mclock >= loop.until)
  /\ loop' = [loop EXCEPT !.pc = IF stop THEN "done" ELSE "start"]
  /\ UNCHANGED << mclock, gnb, conn, feed, stop >>

(***************************************************************************)
(* The gNB and the rest of the world.                                      *)
(***************************************************************************)

Frame(op, id, fin, kind) == [op |-> op, id |-> id, fin |-> fin, kind |-> kind]

\* The gNB can send: one frame is under way at a time.
Connected == loop.pc = "read" /\ conn.peer = "alive" /\ conn.wire = << >>

\* A notification, whole or in two fragments; what it reports shows in the last.
GnbSend(kind, fin) ==
  /\ Connected /\ gnb.up /\ (gnb.half => fin) /\ (fin \/ kind = "other")
  /\ gnb.half \/ gnb.sent < MaxMessage
  /\ LET id == IF gnb.half THEN gnb.sent ELSE gnb.sent + 1
     IN  /\ conn' = [conn EXCEPT !.wire = Append(@, Frame("data", id, fin, kind))]
         /\ gnb' = [gnb EXCEPT !.sent = id, !.half = ~fin,
                      !.onConn = IF fin THEN Append(@, IF gnb.half THEN << id, id >> ELSE << id >>)
                                 ELSE @]
  /\ UNCHANGED << mclock, loop, feed, stop >>

\* An answer to a ping, between fragments or not.
GnbPong ==
  /\ Connected /\ conn.unsent
  /\ conn' = [conn EXCEPT !.wire = Append(@, Frame("pong", 0, TRUE, "none")), !.unsent = FALSE]
  /\ UNCHANGED << mclock, gnb, loop, feed, stop >>

\* The connection ends with a close frame or without, or falls silent.
GnbEnds(how) ==
  /\ Connected
  /\ conn' = CASE how = "close" -> [conn EXCEPT !.wire = Append(@, Frame("close", 0, TRUE, "none"))]
               [] OTHER -> [conn EXCEPT !.peer = how]
  /\ gnb' = [gnb EXCEPT !.up = how # "closed"]
  /\ UNCHANGED << mclock, loop, feed, stop >>

GnbStarts ==
  /\ ~gnb.up
  /\ gnb' = [gnb EXCEPT !.up = TRUE]
  /\ UNCHANGED << mclock, conn, loop, feed, stop >>

RequestStop ==
  /\ ~stop
  /\ stop' = TRUE
  /\ UNCHANGED << mclock, gnb, conn, loop, feed >>

FeedTick ==
  /\ mclock < MaxClock
  /\ loop.pc \notin {"start", "dial"}
  /\ loop.pc = "read" => conn.polled /\ conn.wire = << >> /\ ~Alarm /\ conn.peer # "closed"
  /\ loop.pc = "backoff" => ~stop /\ mclock < loop.until
  /\ mclock' = mclock + 1
  /\ conn' = [conn EXCEPT !.polled = FALSE]
  /\ UNCHANGED << gnb, loop, feed, stop >>

FeedThread == Connecting \/ Dial \/ PollTimeout \/ ReadFrame \/ BackoffOver

FeedNext ==
  \/ FeedThread
  \/ \E kind \in {"scheduler", "other", "noise"}, fin \in BOOLEAN : GnbSend(kind, fin)
  \/ GnbPong
  \/ \E how \in {"close", "closed", "silent"} : GnbEnds(how)
  \/ GnbStarts
  \/ RequestStop
  \/ FeedTick

FeedSpec == FeedInit /\ [][FeedNext]_feedVars

\* The thread runs and time passes; nothing is assumed of the gNB.
FeedFairSpec == FeedSpec /\ WF_feedVars(FeedThread) /\ WF_feedVars(FeedTick)

(***************************************************************************)
(* Properties.                                                             *)
(***************************************************************************)

\* Type correctness.
FeedTypeOK ==
  /\ mclock \in 0 .. MaxClock /\ conn.id \in 0 .. MaxConn
  /\ loop.pc \in {"start", "dial", "read", "backoff", "done"}
  /\ loop.backoff \in 1 .. MaxBackoff
  /\ feed.state \in {"connecting", "subscribed", "connected", "disconnected"}
  /\ feed.ueSeen \in -1 .. feed.seen /\ feed.seen \in -1 .. mclock

\* A UE table that is not marked stale was reported over the connection that is
\* open now, at most StaleSeconds ago: a table of a gNB that has gone away, or
\* from before a reconnection, is never shown as current.
TableCurrent ==
  feed.table # 0 /\ ~TableStale =>
    feed.conn = conn.id /\ loop.pc = "read" /\ mclock - feed.ueSeen <= StaleSeconds

\* The messages a client has read are those the gNB sent over its connection,
\* whole and in order, however control frames and poll timeouts fall between
\* the fragments.
MessagesWhole == IsPrefix(conn.got, gnb.onConn)

\* A connection that has fallen silent is given up within the idle time plus
\* the time allowed for a pong.
SilenceBounded ==
  loop.pc = "read" => mclock - conn.last <= IdleSeconds + PongSeconds

\* A stop request ends the thread wherever it waits: for a frame, for a pong or
\* for the backoff.
FeedStops == stop ~> loop.pc = "done"

\* What the dashboard shows of a gNB came over the connection that is open now,
\* whole and recently (gnb_metrics_loop, _gnb_snapshot), and a dead connection
\* is noticed in time.
FeedTruthful == FeedTypeOK /\ TableCurrent /\ MessagesWhole /\ SilenceBounded

(***************************************************************************)
(* What makes them inductive.                                              *)
(***************************************************************************)
Frames == [op : {"data", "pong", "close"}, id : Nat, fin : BOOLEAN,
           kind : {"scheduler", "other", "noise", "none"}]

GnbType == [up : BOOLEAN, sent : Nat, half : BOOLEAN, onConn : Seq(Seq(Nat))]
ConnType ==
  [id : 0 .. MaxConn, peer : {"alive", "closed", "silent"}, wire : Seq(Frames),
   partial : Seq(Nat), last : Nat, polled : BOOLEAN, ping : BOOLEAN, deadline : Nat,
   unsent : BOOLEAN, got : Seq(Seq(Nat))]
LoopType ==
  [pc : {"start", "dial", "read", "backoff", "done"}, backoff : 1 .. MaxBackoff, until : Nat]
FeedType ==
  [state : {"connecting", "subscribed", "connected", "disconnected"}, seen : Int, ueSeen : Int,
   current : BOOLEAN, table : Nat, conn : Nat]

FeedRecords ==
  /\ gnb \in GnbType /\ conn \in ConnType /\ loop \in LoopType /\ feed \in FeedType
  /\ stop \in BOOLEAN /\ conn.last <= mclock /\ FeedTypeOK

\* A table is current only while the connection it came over is being read.
TableHeld ==
  /\ feed.current => loop.pc = "read" /\ feed.conn = conn.id
  /\ feed.table # 0 => feed.ueSeen # -1

\* The first fragment of a message is in hand once it has left the wire; a
\* message that has been sent has been read, or its last frame is on the wire.
InHand == conn.partial = IF gnb.half THEN << gnb.sent >> ELSE << >>

FrameUnderWay(f) ==
  IF f.op = "data" /\ f.fin
  THEN gnb.onConn = Append(conn.got, Append(conn.partial, f.id)) /\ ~gnb.half
  ELSE /\ gnb.onConn = conn.got
       /\ IF f.op = "data" THEN conn.partial = << >> /\ gnb.half /\ f.id = gnb.sent
          ELSE InHand

MessagesUnderWay ==
  \/ conn.wire = << >> /\ gnb.onConn = conn.got /\ InHand
  \/ Len(conn.wire) = 1 /\ FrameUnderWay(conn.wire[1])

\* Silence is noticed by the ping after IdleSeconds, and ends by its deadline.
SilenceWatched ==
  loop.pc = "read" =>
    IF conn.ping
    THEN mclock <= conn.deadline /\ conn.deadline <= conn.last + IdleSeconds + PongSeconds
    ELSE /\ mclock - conn.last <= IdleSeconds
         /\ conn.polled => mclock - conn.last < IdleSeconds

FeedInv == FeedRecords /\ TableHeld /\ MessagesUnderWay /\ SilenceWatched
=============================================================================
