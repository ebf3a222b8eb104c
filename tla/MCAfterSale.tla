---------------------------- MODULE MCAfterSale ----------------------------
(* Small instances of AfterSale for TLC. *)
EXTENDS AfterSale, TLC

CONSTANTS ret, exc, crd

Backs == [r \in Returns |-> CASE r = ret -> 2 [] r = exc -> 1 [] r = crd -> 1]
Extras == [r \in Returns |-> CASE r = ret -> 0 [] r = exc -> 2 [] r = crd -> 0]
Methods == [r \in Returns |-> IF r = crd THEN "credit" ELSE "cash"]

Symmetry == Permutations(Requests) \cup Permutations(Receipts)
=============================================================================
