----------------------------- MODULE Telemetry -----------------------------
(***************************************************************************)
(* The telemetry snapshot of one link (runtime_control.h): the producer    *)
(* thread publishes it under a seqlock, twice per slot (the control state  *)
(* from snap_physical_link, then the timing of the processing call from    *)
(* the broker), and the telemetry thread copies it out for a PUB frame,    *)
(* giving up after MaxRetries attempts.                                    *)
(*                                                                         *)
(* The snapshot is wide, so it is read and written a word at a time: the   *)
(* word "control" and the word "timing", each holding the slot it is from. *)
(***************************************************************************)
EXTENDS Integers, Sequences

CONSTANTS
  MaxRetries,   \* max_retries of read_telemetry_snapshot
  MaxSlot       \* bound of the model: slots served

ASSUME TelemetryAssumption == MaxRetries \in Nat \ {0} /\ MaxSlot \in Nat

Word == {"control", "timing"}
Default == [w \in Word |-> 0]

VARIABLES
  seq,        \* telemetry_write_seq
  shared,     \* BrokerLinkControl::telemetry
  writer,     \* the producer inside publish_telemetry_snapshot
  reader,     \* the telemetry thread inside read_telemetry_snapshot
  frame,      \* the last copy returned, and whether the seqs agreed
  published   \* history: the snapshots published so far

vars == << seq, shared, writer, reader, frame, published >>
writerVars == << seq, shared, writer, published >>
readerVars == << reader, frame >>

NoRead == [pc |-> "idle", tries |-> 0, pre |-> 0, left |-> {}, copy |-> Default,
           floor |-> 1]

Init ==
  /\ seq = 0
  /\ shared = Default
  /\ writer = [pc |-> "idle", snap |-> Default, left |-> {}]
  /\ reader = NoRead
  /\ frame = [copy |-> Default, agreed |-> TRUE, floor |-> 1]
  /\ published = << Default >>

(***************************************************************************)
(* The producer thread.                                                    *)
(***************************************************************************)

\* The end of a snap: the next slot's control state, the timing kept.
PublishControl ==
  /\ writer.pc = "idle" /\ shared["timing"] = shared["control"]
  /\ shared["control"] < MaxSlot
  /\ writer' = [pc |-> "mark", left |-> Word,
                snap |-> [shared EXCEPT !["control"] = @ + 1]]
  /\ UNCHANGED << seq, shared, published, readerVars >>

\* The processing call has returned: its timing, the control state kept.
PublishTiming ==
  /\ writer.pc = "idle" /\ shared["timing"] < shared["control"]
  /\ writer' = [pc |-> "mark", left |-> Word,
                snap |-> [shared EXCEPT !["timing"] = shared["control"]]]
  /\ UNCHANGED << seq, shared, published, readerVars >>

\* store(pre + 1): odd, a write is in progress.
Mark ==
  /\ writer.pc = "mark"
  /\ seq' = seq + 1
  /\ writer' = [writer EXCEPT !.pc = "write"]
  /\ UNCHANGED << shared, published, readerVars >>

WriteWord(w) ==
  /\ writer.pc = "write" /\ w \in writer.left
  /\ shared' = [shared EXCEPT ![w] = writer.snap[w]]
  /\ writer' = [writer EXCEPT !.left = @ \ {w}]
  /\ UNCHANGED << seq, published, readerVars >>

\* store(pre + 2): even again.
Unmark ==
  /\ writer.pc = "write" /\ writer.left = {}
  /\ seq' = seq + 1
  /\ published' = Append(published, writer.snap)
  /\ writer' = [writer EXCEPT !.pc = "idle"]
  /\ UNCHANGED << shared, readerVars >>

(***************************************************************************)
(* The telemetry thread.                                                   *)
(***************************************************************************)

\* One tick of run_telemetry_loop.
Tick ==
  /\ reader.pc = "idle"
  /\ reader' = [NoRead EXCEPT !.pc = "load", !.floor = Len(published)]
  /\ UNCHANGED << writerVars, frame >>

Return(copy, agreed) ==
  /\ frame' = [copy |-> copy, agreed |-> agreed, floor |-> reader.floor]
  /\ reader' = NoRead

\* The attempt failed: another one, or the copy as it is.
Retry ==
  IF reader.tries + 1 < MaxRetries
  THEN /\ reader' = [reader EXCEPT !.pc = "load", !.tries = @ + 1]
       /\ UNCHANGED frame
  ELSE Return(reader.copy, FALSE)

LoadPre ==
  /\ reader.pc = "load"
  /\ IF seq % 2 = 1 THEN Retry
     ELSE /\ reader' = [reader EXCEPT !.pc = "copy", !.pre = seq, !.left = Word]
          /\ UNCHANGED frame
  /\ UNCHANGED writerVars

CopyWord(w) ==
  /\ reader.pc = "copy" /\ w \in reader.left
  /\ reader' = [reader EXCEPT !.copy[w] = shared[w], !.left = @ \ {w}]
  /\ UNCHANGED << writerVars, frame >>

\* Mutant of LoadPost: the second load left out.
LoadPostSkipped ==
  /\ reader.pc = "copy" /\ reader.left = {}
  /\ Return(reader.copy, TRUE)
  /\ UNCHANGED writerVars

LoadPost ==
  /\ reader.pc = "copy" /\ reader.left = {}
  /\ IF seq = reader.pre THEN Return(reader.copy, TRUE) ELSE Retry
  /\ UNCHANGED writerVars

Next ==
  \/ PublishControl
  \/ PublishTiming
  \/ Mark
  \/ \E w \in Word : WriteWord(w)
  \/ Unmark
  \/ Tick
  \/ LoadPre
  \/ \E w \in Word : CopyWord(w)
  \/ LoadPost

Spec == Init /\ [][Next]_vars

\* The copy is one published snapshot, no older than the newest one that was
\* complete when the read began.
Current(f) ==
  \E i \in f.floor .. Len(published) : f.copy = published[i]

\* A frame whose two seq loads agreed is a snapshot the producer published,
\* whole and not stale (read_telemetry_snapshot against
\* publish_telemetry_snapshot running at any point of it).
AgreedFrameCurrent == frame.agreed => Current(frame)

(***************************************************************************)
(* What makes it inductive: what the write counter tells.  Between two     *)
(* publications it is even, twice their number, and the shared words are   *)
(* the last of them; what a reader has copied is worth something as long   *)
(* as the counter has not moved.                                           *)
(***************************************************************************)
Contents == [Word -> Int]

SeqlockTypeOK ==
  /\ seq \in Nat
  /\ shared \in Contents
  /\ writer \in [pc : {"idle", "mark", "write"}, snap : Contents, left : SUBSET Word]
  /\ reader \in [pc : {"idle", "load", "copy"}, tries : Nat, pre : Nat, left : SUBSET Word,
                 copy : Contents, floor : Nat \ {0}]
  /\ frame \in [copy : Contents, agreed : BOOLEAN, floor : Nat \ {0}]
  /\ published \in Seq(Contents)

\* The publications the counter has counted; one more is begun while it is odd.
Counted ==
  seq = 2 * (Len(published) - 1) + (IF writer.pc = "write" THEN 1 ELSE 0)

\* Outside a write the shared words are the last publication; inside one, those
\* already written are the next.
SharedWords ==
  IF writer.pc = "write"
  THEN \A w \in Word \ writer.left : shared[w] = writer.snap[w]
  ELSE /\ shared = published[Len(published)]
       /\ writer.pc = "mark" => writer.left = Word

\* A reader whose counter still stands holds words of the last publication.
CopiedWords ==
  /\ reader.pc # "idle" => reader.floor <= Len(published)
  /\ reader.pc = "copy" =>
       /\ reader.pre % 2 = 0 /\ reader.pre <= seq
       /\ seq = reader.pre =>
            \A w \in Word \ reader.left : reader.copy[w] = published[Len(published)][w]

SeqlockInv ==
  /\ SeqlockTypeOK /\ Len(published) >= 1
  /\ Counted /\ SharedWords /\ CopiedWords
  /\ AgreedFrameCurrent
=============================================================================
