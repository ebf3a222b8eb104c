--------------------------- MODULE CheckoutContract ---------------------------
(***************************************************************************)
(* What a checkout promises, with no steps, locks, retries or replays in   *)
(* sight: a sale happens at once or not at all.  It sells an invoice that  *)
(* was not sold, under the next number of its branch and of the journal,   *)
(* with a voucher nobody used and points the customer has, and raises the  *)
(* tills its payments go to.                                               *)
(***************************************************************************)
EXTENDS Naturals, Sequences, FiniteSets

CONSTANTS
    Requests, Counters, Cards, Tills,
    InvoiceOf, VoucherOf, CardOf, Wished, CounterOf, JournalOf, PaymentsOf,
    StartNumber, StartPoints, None

VARIABLES
    sold,      \* requests that sold their invoice
    number,    \* invoice number of each sale, 0 before
    entry,     \* journal number of each sale, 0 before
    counter,   \* last number of each counter
    used,      \* vouchers redeemed
    points,    \* balance of each card
    till       \* balance of each till

vars == <<sold, number, entry, counter, used, points, till>>

Init ==
    /\ sold = {}
    /\ number = [r \in Requests |-> 0]
    /\ entry = [r \in Requests |-> 0]
    /\ counter = StartNumber
    /\ used = {}
    /\ points = [c \in Cards |-> StartPoints]
    /\ till = [t \in Tills |-> 0]

(* Request r sells its invoice i.                                          *)
Sell(r) ==
    LET i == InvoiceOf[r]
        next == [c \in {CounterOf[i], JournalOf[i]} |-> counter[c] + 1]
    IN
    /\ \A q \in sold : InvoiceOf[q] # i
    /\ VoucherOf[r] \notin used
    /\ CardOf[i] \in Cards => Wished[i] <= points[CardOf[i]]
    /\ sold' = sold \cup {r}
    /\ number' = [number EXCEPT ![r] = next[CounterOf[i]]]
    /\ entry' = [entry EXCEPT ![r] = next[JournalOf[i]]]
    /\ counter' = [c \in Counters |-> IF c \in DOMAIN next THEN next[c] ELSE counter[c]]
    /\ used' = used \cup ({VoucherOf[r]} \ {None})
    /\ points' = [c \in Cards |-> IF c = CardOf[i] THEN points[c] - Wished[i] ELSE points[c]]
    /\ till' = [t \in Tills |->
                  till[t] + Cardinality({j \in DOMAIN PaymentsOf[i] : PaymentsOf[i][j] = t})]

Next == \E r \in Requests : Sell(r)

Spec == Init /\ [][Next]_vars
=============================================================================
