--------------------------- MODULE VoucherContract ---------------------------
(***************************************************************************)
(* What the warehouse vouchers promise, with no requests, locks, revisions *)
(* or retries in sight: the stock on hand is what the vouchers in force    *)
(* say.  A voucher enters the books once, with its lines; an edit replaces *)
(* them; once cancelled or deleted it stays out.                           *)
(***************************************************************************)
EXTENDS Integers

CONSTANTS
    Vouchers, Places,
    LinesOf,       \* by voucher: the lines it may have, a quantity by place
    Open, Closed

VARIABLES
    entry,  \* by voucher: Open, Closed, or the lines it is in the books with
    stock   \* by place: the quantity on hand

Nothing == [p \in Places |-> 0]
Plus(a, b) == [p \in Places |-> a[p] + b[p]]
Minus(a, b) == [p \in Places |-> a[p] - b[p]]

Init ==
    /\ entry = [v \in Vouchers |-> Open]
    /\ stock = Nothing

Enter(v, l) ==
    /\ entry[v] = Open
    /\ entry' = [entry EXCEPT ![v] = l]
    /\ stock' = Plus(stock, l)

Amend(v, l) ==
    /\ entry[v] \in LinesOf[v]
    /\ entry' = [entry EXCEPT ![v] = l]
    /\ stock' = Plus(stock, Minus(l, entry[v]))

Leave(v) ==
    /\ entry[v] # Closed
    /\ entry' = [entry EXCEPT ![v] = Closed]
    /\ stock' = IF entry[v] = Open THEN stock ELSE Minus(stock, entry[v])

Next ==
    \E v \in Vouchers :
        \/ Leave(v)
        \/ \E l \in LinesOf[v] : Enter(v, l) \/ Amend(v, l)

Spec == Init /\ [][Next]_<<entry, stock>>
=============================================================================
