-------------------------- MODULE MCStockVouchers --------------------------
(* Small instances of StockVouchers for TLC. *)
EXTENDS StockVouchers, TLC

CONSTANTS rec, iss, mov, cnt, shelf, store

Put(p, q) == [Nothing EXCEPT ![p] = q]
Shift(p, q, n) == [Nothing EXCEPT ![p] = -n, ![q] = n]

Kinds == [v \in Vouchers |-> CASE v = rec -> "receipt" [] v = iss -> "issue"
                                [] v = mov -> "move" [] v = cnt -> "count"]

Lines == [v \in Vouchers |->
            CASE v = rec -> {Put(shelf, 2), Put(shelf, 1), Put(store, 1)}
              [] v = iss -> {Put(shelf, -1), Put(store, -2)}
              [] v = mov -> {Shift(shelf, store, 1), Shift(store, shelf, 1)}
              [] v = cnt -> {Put(shelf, 1), Put(shelf, -1)}]

Symmetry == Permutations(Requests)
=============================================================================
