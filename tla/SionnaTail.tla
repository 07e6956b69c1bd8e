----------------------------- MODULE SionnaTail -----------------------------
(***************************************************************************)
(* SionnaJsonlTail of the dashboard (apps/dashboard/server.py): it polls   *)
(* the file to which the bridge appends a JSON record per event, keeps a   *)
(* byte offset, and starts in the middle of a long file.  A record longer  *)
(* than the writer's buffer reaches the file in two writes, so that a poll *)
(* may fall between them; a launcher may remove the file.                  *)
(*                                                                         *)
(* Positions are counted in writes.  A record is known by its number.      *)
(***************************************************************************)
EXTENDS Integers, SequencesExt

CONSTANTS
  InitialTail,   \* INITIAL_JSONL_TAIL_BYTES
  MaxRecord      \* bound of the model

ASSUME TailAssumption == InitialTail \in Nat \ {0} /\ MaxRecord \in Nat

VARIABLES
  jsonl,      \* the file: its writes so far
  written,    \* the last record begun
  offset,     \* _offset, -1 for None
  delivered,  \* the records given to update_sionna
  torn,       \* history: records a poll has cut in two
  removed     \* history: has the file ever been removed

tailVars == << jsonl, written, offset, delivered, torn, removed >>

Unread == -1

\* Is the last record of the file only half written?
Midway == jsonl # << >> /\ Last(jsonl).part = "head"

TailInit ==
  /\ jsonl = << >> /\ written = 0 /\ offset = Unread
  /\ delivered = << >> /\ torn = {} /\ removed = FALSE

\* append_status of the bridge, in one write or the first of two ...
AppendRecord(part) ==
  /\ ~Midway /\ written < MaxRecord
  /\ written' = written + 1
  /\ jsonl' = Append(jsonl, [part |-> part, n |-> written + 1])
  /\ UNCHANGED << offset, delivered, torn, removed >>

\* ... and the second.
AppendRest ==
  /\ Midway
  /\ jsonl' = Append(jsonl, [part |-> "rest", n |-> written])
  /\ UNCHANGED << written, offset, delivered, torn, removed >>

\* A launcher clears the run's directory.
RemoveFile ==
  /\ jsonl # << >> /\ ~Midway
  /\ jsonl' = << >> /\ removed' = TRUE
  /\ UNCHANGED << written, offset, delivered, torn >>

\* The records of what is read: a half on its own does not parse.
Records(chunk) ==
  LET starts == SelectSeq([i \in DOMAIN chunk |-> i], LAMBDA i :
        chunk[i].part = "whole" \/ (chunk[i].part = "head" /\ i < Len(chunk)))
  IN  [i \in DOMAIN starts |-> chunk[starts[i]].n]

\* The fragment an initial window starts in is dropped up to its end of line.
Lines(chunk, initial) ==
  IF initial
  THEN SubSeq(chunk, SelectInSeq(chunk, LAMBDA w : w.part # "head") + 1, Len(chunk))
  ELSE chunk

\* Mutant of SeekTo: a file that has not grown is read again.
SeekToAgain ==
  IF offset = Unread THEN Max({0, Len(jsonl) - InitialTail})
  ELSE IF Len(jsonl) <= offset THEN 0 ELSE offset

\* Where poll_once seeks to: a file shorter than the offset is a new one.
SeekTo ==
  IF offset = Unread THEN Max({0, Len(jsonl) - InitialTail})
  ELSE IF Len(jsonl) < offset THEN 0 ELSE offset

\* A missing file leaves the offset as it is.
TailPoll ==
  LET chunk == SubSeq(jsonl, SeekTo + 1, Len(jsonl))
  IN  /\ jsonl # << >>
      /\ offset' = Len(jsonl)
      /\ delivered' = delivered \o Records(Lines(chunk, offset = Unread /\ SeekTo > 0))
      /\ torn' = IF chunk # << >> /\ Midway THEN torn \cup {written} ELSE torn
      /\ UNCHANGED << jsonl, written, removed >>

TailNext ==
  \/ \E part \in {"whole", "head"} : AppendRecord(part)
  \/ AppendRest
  \/ RemoveFile
  \/ TailPoll

TailSpec == TailInit /\ [][TailNext]_tailVars

(***************************************************************************)
(* Properties.                                                             *)
(***************************************************************************)

\* No record is delivered twice or after a later one, and none that was torn.
DeliveredInOrder ==
  /\ \A i, j \in DOMAIN delivered : i < j => delivered[i] < delivered[j]
  /\ \A i \in DOMAIN delivered : delivered[i] \notin torn

\* As long as nobody removes the file, the records delivered have no gap but
\* those a poll has torn and those before the initial window.
NothingSkipped ==
  ~removed /\ delivered # << >> =>
    \A n \in delivered[1] .. Last(delivered) :
      n \in torn \/ \E i \in DOMAIN delivered : delivered[i] = n
=============================================================================
