--------------------------- MODULE MCOutboxRelay ---------------------------
(* A small instance of OutboxRelay for TLC (no symmetry: a liveness run). *)
EXTENDS OutboxRelay
=============================================================================
