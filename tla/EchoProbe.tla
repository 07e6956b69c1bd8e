------------------------------ MODULE EchoProbe ------------------------------
(***************************************************************************)
(* The UDP echo probe (use_cases/robot_fight/robot-fight-probe.py): a      *)
(* client whose main thread sends numbered requests and expires the        *)
(* unanswered ones, whose receiver thread settles the answered ones, and a *)
(* server that echoes them and floods the client's sink port on request.   *)
(* The network loses, duplicates and reorders datagrams.                   *)
(*                                                                         *)
(* The two client threads share `pending' under a lock, the counters       *)
(* `second' and `totals' without one.                                      *)
(***************************************************************************)
EXTENDS Integers, Sequences, FiniteSets, FiniteSetsExt, Functions, TLC

CONSTANTS
  MaxSeq,     \* bound: requests sent
  Timeout,    \* --reply-timeout-s, in ticks
  Slow,       \* --outage-ms, in ticks
  MinRun,     \* consecutive bad requests that make an outage (3)
  MaxEchoes,     \* bound: datagrams duplicated
  MaxProbeTime      \* bound on the clock

Probes == 1 .. MaxSeq

ASSUME ProbeAssumption == {MaxSeq, Timeout, Slow, MinRun, MaxEchoes, MaxProbeTime} \subseteq Nat

VARIABLES
  probeTime,       \* the host clock both sides share
  client,    \* the main thread: its step, the last request, when the next is due
  pending,   \* request |-> send time
  rcv,       \* the receiver thread: its step and the reply in its hands
  count,     \* `second' and `totals', and the client_second records added up
  log,       \* request |-> the records about it
  net,       \* the datagrams under way, [up, down, dups]
  floods,    \* the server's floods of the client's address
  stopping   \* the stop event

probeVars == << probeTime, client, pending, rcv, count, log, net, floods, stopping >>

ProbeInit ==
  /\ probeTime = 0
  /\ client = [pc |-> "load", seq |-> 0, next |-> 0, summary |-> 0, told |-> 0]
  /\ pending = << >>
  /\ rcv = [pc |-> "select", seq |-> 0, rx |-> 0, sent |-> 0]
  /\ count = [second |-> 0, answered |-> 0, lost |-> 0, told |-> 0]
  /\ log = [s \in Probes |-> [event |-> "none", rtt |-> 0, late |-> FALSE]]
  /\ net = [up |-> {}, down |-> {}, dups |-> 0]
  /\ floods = 0
  /\ stopping = FALSE

Datagram(kind, s) == [kind |-> kind, seq |-> s, sent |-> probeTime]
Without(f, gone) == Restrict(f, DOMAIN f \ gone)

(***************************************************************************)
(* run_client: the main thread.                                            *)
(***************************************************************************)

\* The load request goes out more than once, for it may be lost.
AskForLoad ==
  /\ client.pc = "load"
  /\ net' = [net EXCEPT !.up = @ \cup {Datagram("load", 0), Datagram("load", 1)}]
  /\ client' = [client EXCEPT !.pc = "send", !.next = probeTime]
  /\ UNCHANGED << probeTime, pending, rcv, count, log, floods, stopping >>

\* The request is entered in `pending' before it is sent.
Entered(s, sent) == IF sent THEN pending ELSE pending @@ (s :> probeTime)

SendDue == probeTime >= client.next /\ client.seq < MaxSeq

Enter ==
  /\ client.pc = "send" /\ ~stopping
  /\ IF SendDue
     THEN /\ client' = [client EXCEPT !.pc = "sendto", !.seq = @ + 1, !.next = probeTime + 1]
          /\ pending' = Entered(client.seq + 1, FALSE)
     ELSE /\ client' = [client EXCEPT !.pc = "expire"]
          /\ UNCHANGED pending
  /\ UNCHANGED << probeTime, rcv, count, log, net, floods, stopping >>

\* sendto, which may fail.
SendTo ==
  /\ client.pc = "sendto"
  /\ \/ net' = [net EXCEPT !.up = @ \cup {Datagram("request", client.seq)}]
     \/ UNCHANGED net
  /\ client' = [client EXCEPT !.pc = "sent"]
  /\ UNCHANGED << probeTime, pending, rcv, count, log, floods, stopping >>

\* sendto has let the other thread run.
RecordSent ==
  /\ client.pc = "sent"
  /\ pending' = Entered(client.seq, TRUE)
  /\ client' = [client EXCEPT !.pc = "expire"]
  /\ UNCHANGED << probeTime, rcv, count, log, net, floods, stopping >>

Expired == {s \in DOMAIN pending : pending[s] < probeTime - Timeout}

Expire ==
  /\ client.pc = "expire"
  /\ pending' = Without(pending, Expired)
  /\ count' = [count EXCEPT !.lost = @ + Cardinality(Expired)]
  /\ log' = [s \in Probes |-> IF s \in Expired THEN [log[s] EXCEPT !.event = "lost"] ELSE log[s]]
  /\ client' = [client EXCEPT !.pc = "second"]
  /\ UNCHANGED << probeTime, rcv, net, floods, stopping >>

AgainOrDone == IF stopping THEN "done" ELSE "send"

\* Once a second: the client_second record, written with the answers counted so far ...
WriteSecond ==
  /\ client.pc = "second"
  /\ client' = IF probeTime > client.summary
                THEN [client EXCEPT !.pc = "reset", !.told = count.second, !.summary = probeTime]
                ELSE [client EXCEPT !.pc = AgainOrDone]
  /\ UNCHANGED << probeTime, pending, rcv, count, log, net, floods, stopping >>

Restarted == 0

\* ... which are zeroed after the write, the answers of the meantime with them.
ResetSecond ==
  /\ client.pc = "reset"
  /\ count' = [count EXCEPT !.second = Restarted, !.told = @ + client.told]
  /\ client' = [client EXCEPT !.pc = AgainOrDone, !.told = 0]
  /\ UNCHANGED << probeTime, pending, rcv, log, net, floods, stopping >>

(***************************************************************************)
(* run_client: the receiver thread.                                        *)
(***************************************************************************)

\* recvfrom, and the time of it.
ReceiveReply ==
  /\ rcv.pc = "select"
  /\ \E d \in net.down :
       /\ net' = [net EXCEPT !.down = @ \ {d}]
       /\ rcv' = [pc |-> "pop", seq |-> d.seq, rx |-> probeTime, sent |-> d.sent]
  /\ UNCHANGED << probeTime, client, pending, count, log, floods, stopping >>

\* Mutant of Settled: the answered request stays pending.
SettledNot(s) == pending

Settled(s) == Without(pending, {s})

\* Only a pending request is answered; any other reply is a late one.
PopPending ==
  /\ rcv.pc = "pop"
  /\ IF rcv.seq \in DOMAIN pending
     THEN /\ pending' = Settled(rcv.seq)
          /\ rcv' = [rcv EXCEPT !.pc = "count"]
          /\ UNCHANGED log
     ELSE /\ log' = [log EXCEPT ![rcv.seq].late = TRUE]
          /\ rcv' = [rcv EXCEPT !.pc = "select"]
          /\ UNCHANGED pending
  /\ UNCHANGED << probeTime, client, count, net, floods, stopping >>

CountReply ==
  /\ rcv.pc = "count"
  /\ count' = [count EXCEPT !.second = @ + 1, !.answered = @ + 1]
  /\ log' = [log EXCEPT ![rcv.seq] = [@ EXCEPT
       !.event = IF @ = "none" THEN "reply" ELSE "twice", !.rtt = rcv.rx - rcv.sent]]
  /\ rcv' = [rcv EXCEPT !.pc = "select"]
  /\ UNCHANGED << probeTime, client, pending, net, floods, stopping >>

ReceiverEnds ==
  /\ rcv.pc = "select" /\ stopping
  /\ rcv' = [rcv EXCEPT !.pc = "done"]
  /\ UNCHANGED << probeTime, client, pending, count, log, net, floods, stopping >>

(***************************************************************************)
(* run_server.                                                             *)
(***************************************************************************)

\* One flood for an address, however often it asks.
Floods == Max({floods, 1})

\* A request is echoed with the client's own send time.
ServerReceives ==
  \E d \in net.up :
    /\ floods' = IF d.kind = "load" THEN Floods ELSE floods
    /\ net' = [net EXCEPT !.up = @ \ {d}, !.down = IF d.kind = "load" THEN @ ELSE @ \cup {d}]
    /\ UNCHANGED << probeTime, client, pending, rcv, count, log, stopping >>

(***************************************************************************)
(* The network, the clock and SIGTERM.                                     *)
(***************************************************************************)

LoseDatagram ==
  /\ \/ \E d \in net.up : net' = [net EXCEPT !.up = @ \ {d}]
     \/ \E d \in net.down : net' = [net EXCEPT !.down = @ \ {d}]
  /\ UNCHANGED << probeTime, client, pending, rcv, count, log, floods, stopping >>

\* A datagram in the receiver's hands arrives once more.
Duplicate ==
  /\ net.dups < MaxEchoes /\ rcv.pc # "select"
  /\ net' = [net EXCEPT !.dups = @ + 1,
       !.down = @ \cup {[kind |-> "request", seq |-> rcv.seq, sent |-> rcv.sent]}]
  /\ UNCHANGED << probeTime, client, pending, rcv, count, log, floods, stopping >>

\* The main thread goes round at least once a tick.
ProbeTick ==
  /\ probeTime < MaxProbeTime /\ client.pc = "send" /\ ~SendDue
  /\ probeTime' = probeTime + 1
  /\ UNCHANGED << client, pending, rcv, count, log, net, floods, stopping >>

Terminate ==
  /\ ~stopping
  /\ stopping' = TRUE
  /\ client' = [client EXCEPT !.pc = IF @ = "send" THEN "done" ELSE @]
  /\ UNCHANGED << probeTime, pending, rcv, count, log, net, floods >>

ProbeClient == AskForLoad \/ Enter \/ SendTo \/ RecordSent \/ Expire \/ WriteSecond \/ ResetSecond
ProbeReceiver == ReceiveReply \/ PopPending \/ CountReply \/ ReceiverEnds

ProbeNext ==
  \/ ProbeClient \/ ProbeReceiver \/ ServerReceives \/ LoseDatagram \/ Duplicate \/ ProbeTick \/ Terminate

ProbeSpec == ProbeInit /\ [][ProbeNext]_probeVars

(***************************************************************************)
(* summarise: outages among the requests with an outcome, by send time.    *)
(***************************************************************************)

Outcome(s) == log[s].event \in {"reply", "lost"}
Records == {s \in Probes : Outcome(s)}

Bad(s) == log[s].event = "lost" \/ log[s].rtt > Slow

\* The loop over the records: runs of bad ones, as << first, last, count >>.
Runs ==
  LET Extend(s, r) ==
        IF Bad(s)
        THEN [r EXCEPT !.open = IF @.count = 0 THEN [first |-> s, last |-> s, count |-> 1]
                                ELSE [@ EXCEPT !.last = s, !.count = @ + 1]]
        ELSE [done |-> r.done \cup {r.open}, open |-> [first |-> 0, last |-> 0, count |-> 0]]
      Scan[s \in 0 .. MaxSeq] ==
        IF s = 0 THEN [done |-> {}, open |-> [first |-> 0, last |-> 0, count |-> 0]]
        ELSE IF s \in Records THEN Extend(s, Scan[s - 1]) ELSE Scan[s - 1]
  IN  Scan[MaxSeq].done \cup {Scan[MaxSeq].open}

\* A single slow packet is jitter: an outage takes MinRun in a row.
Outages == {r \in Runs : r.count >= MinRun}

(***************************************************************************)
(* Properties.                                                             *)
(***************************************************************************)

\* Every request sent is exactly one of pending, in the receiver's hands,
\* answered or lost, whatever the network duplicates and whenever the two
\* threads meet (the pop of `pending' by receiver and by expiry).
OneOutcome ==
  client.pc \notin {"sendto", "sent"} =>
    /\ client.seq = Cardinality(DOMAIN pending) + count.answered + count.lost
                    + (IF rcv.pc = "count" THEN 1 ELSE 0)
    /\ \A s \in Probes : log[s].event # "twice"

\* A reply is late only when its request has been settled before: a reply that
\* beats the sender's own bookkeeping is not taken for one (pending before sendto).
LateIsLate ==
  \A s \in Probes : log[s].late =>
    log[s].event # "none" \/ (rcv.pc = "count" /\ rcv.seq = s)

\* The per-second answers never add up to more than the run's total: an answer
\* between the write of a client_second record and the reset of its counters
\* goes missing from the seconds, but is never told twice.
SecondsNeverExceed == count.told <= count.answered

\* However often the load request is repeated or arrives, one flood runs.
OneFlood == floods <= 1

\* The outages reported are the maximal stretches of bad requests, found here
\* without the loop: every bad request whose stretch is long enough is in one.
OutagesExact ==
  \A s \in Records :
    (\E r \in Outages : s \in r.first .. r.last) <=>
    \E a, b \in Records :
      /\ s \in a .. b /\ Cardinality(Records \cap (a .. b)) >= MinRun
      /\ \A q \in Records \cap (a .. b) : log[q].event = "lost" \/ log[q].rtt > Slow
=============================================================================
