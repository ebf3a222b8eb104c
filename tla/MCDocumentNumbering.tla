------------------------ MODULE MCDocumentNumbering ------------------------
(* Small instances of DocumentNumbering for TLC. *)
EXTENDS DocumentNumbering, TLC

CONSTANTS inv, cus, vou

Call(t, m) == [type |-> t, mode |-> m]

\* Invoices by the saga (mint) and checkout v1; customers by an import and a
\* request; a voucher whose caller does not lend its transaction.
AllKinds == {Call(inv, "lent"), Call(inv, "plain"), Call(cus, "lent"), Call(cus, "plain"),
             Call(vou, "nested")}

\* The invoices were numbered before, in a counter the branches shared.
InUse == [t \in Types |-> IF t = inv THEN 1 ELSE 0]

Symmetry == Permutations(Callers)
=============================================================================
