--------------------------- MODULE MCEventPipeline ---------------------------
(* Small instances of EventPipeline for TLC. *)
EXTENDS EventPipeline, TLC

CONSTANTS e1, s1

\* One event with one group.
OneGroup == [s \in {s1} |-> e1]
=============================================================================
