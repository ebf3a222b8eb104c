------------------------------ MODULE MCFunds ------------------------------
(* A small instance of Funds for TLC. *)
EXTENDS Funds, TLC

CONSTANTS drawer, bank1, bank2, receipt, wire, swap

Openings == [f \in AllFunds |-> IF f = bank1 THEN 2 ELSE 0]
Signs == [v \in Vouchers |-> 1]
MayName == [v \in Vouchers |-> {drawer, bank2}]
Source == [m \in Moves |-> bank1]
Target == [m \in Moves |-> IF m = wire THEN bank2 ELSE drawer]
Sums == [m \in Moves |-> IF m = wire THEN 2 ELSE 1]

Symmetry == Permutations(Requests)
=============================================================================
