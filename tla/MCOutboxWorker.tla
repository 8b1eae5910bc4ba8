--------------------------- MODULE MCOutboxWorker ---------------------------
(* Small instances of OutboxWorker for TLC. *)
EXTENDS OutboxWorker, TLC

\* Events and replicas are interchangeable in safety runs.
Interchangeable == Permutations(Jobs) \cup Permutations(Workers)
=============================================================================
