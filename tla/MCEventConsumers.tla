-------------------------- MODULE MCEventConsumers --------------------------
(* Small instances of EventConsumers for TLC. *)
EXTENDS EventConsumers, TLC

CONSTANTS e1, s1

\* One event with one group.
OneGroup == [s \in {s1} |-> e1]

\* Processes and operators are interchangeable (safety runs only).
Symmetry == Permutations(Nodes) \cup Permutations(Operators)
=============================================================================
