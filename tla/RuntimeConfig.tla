--------------------------- MODULE RuntimeConfig ---------------------------
(***************************************************************************)
(* The sizes a validated configuration gives the relay: runtime block of   *)
(* the topology, src/src/config.cpp validate_config.  All ports of a relay *)
(* share one batch here, as the ports of one node do in the code.          *)
(***************************************************************************)
EXTENDS Integers

CONSTANTS
  Batch,           \* resolve_batch_samples
  QueueSamples,    \* queue_samples: capacity of a TX ring
  RxRingBatches,   \* rx_ring_batches: capacity of an RX ring, in batches
  FewerCopies,     \* OCG_BROKER_FEWER_COPIES: send and read from the rings
  DirectRows       \* OCG_BROKER_DIRECT_ROWS: write rows into the RX rings

\* What validate_config accepts: a batch is not empty, a TX ring holds two of
\* them and an RX ring two or more.  The two knobs are on unless set to "0".
ASSUME RuntimeAssumption ==
  /\ Batch \in Nat \ {0}
  /\ QueueSamples \in Nat /\ QueueSamples >= 2 * Batch
  /\ RxRingBatches \in Nat /\ RxRingBatches >= 2
  /\ FewerCopies \in BOOLEAN
  /\ DirectRows \in BOOLEAN
=============================================================================
