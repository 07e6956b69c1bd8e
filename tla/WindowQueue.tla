---------------------------- MODULE WindowQueue ----------------------------
(***************************************************************************)
(* What an RX port promises to the radio behind it, free of rings, locks   *)
(* and spans: a queue of windows of the processed stream.  The producer    *)
(* appends the next window of the stream, a request is answered with the   *)
(* oldest window, whole and unchanged, and no more than two batches wait   *)
(* (one in the ring and one in the worker's hands).                        *)
(***************************************************************************)
EXTENDS Integers, Sequences, SequencesExt

CONSTANTS RxPort, Batch, Row(_, _)

VARIABLES
  queue,      \* the windows not yet answered
  published,  \* the number of samples published
  reply       \* the last reply

vars == << queue, published, reply >>

Init ==
  /\ queue = [p \in RxPort |-> << >>]
  /\ published = [p \in RxPort |-> 0]
  /\ reply = [p \in RxPort |-> << >>]

Waiting(p) == FoldLeft(LAMBDA n, w : n + Len(w), 0, queue[p])

Publish(p, n) ==
  /\ Waiting(p) + n <= 2 * Batch
  /\ queue' = [queue EXCEPT ![p] =
       Append(@, [i \in 1 .. n |-> Row(p, published[p] + i - 1)])]
  /\ published' = [published EXCEPT ![p] = @ + n]
  /\ UNCHANGED reply

Answer(p) ==
  /\ queue[p] # << >>
  /\ reply' = [reply EXCEPT ![p] = Head(queue[p])]
  /\ queue' = [queue EXCEPT ![p] = Tail(@)]
  /\ UNCHANGED published

Next == \E p \in RxPort : Answer(p) \/ \E n \in 1 .. Batch : Publish(p, n)

Spec == Init /\ [][Next]_vars
=============================================================================
