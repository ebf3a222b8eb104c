------------------------------ MODULE AfterSale ------------------------------
(***************************************************************************)
(* What happens to a sale after its checkout: returns and exchanges        *)
(* against it, the collection of the debts it and its exchanges leave, the *)
(* reversal of a collection, and the cancellation of a return, an exchange *)
(* or the sale itself.  Each works in one database transaction, after      *)
(* reads taken before it and without a lock.                               *)
(*                                                                         *)
(* Abstracted: one line on the sale, at one unit of money a unit; a        *)
(* document's discounts and promotions, its loyalty points, the fund and   *)
(* accounts a payment goes through.  A transaction that settles a debt     *)
(* holds that debt's row lock from its first read, so it is one step.      *)
(***************************************************************************)
EXTENDS Integers, FiniteSetsExt

CONSTANTS
    Sale, Returns,  \* the sale and the returns and exchanges drafted against it
    Sold,           \* the quantity sold
    Back, Extra,    \* by return: the quantity it takes back and the value it sells
    Method,         \* by return: what a refund is paid in, "cash" or "credit"
    Receipts,       \* the payments that collect a debt
    Requests,
    Careful         \* whether nobody sends two requests about one document at once

ASSUME AfterSaleAssumption ==
    /\ Sale \notin Returns
    /\ IsFiniteSet(Returns) /\ IsFiniteSet(Receipts)
    /\ Sold \in Nat \ {0}
    /\ Back \in [Returns -> Nat \ {0}]
    /\ Extra \in [Returns -> Nat]
    /\ Method \in [Returns -> {"cash", "credit"}]
    /\ Careful \in BOOLEAN

Documents == Returns \cup {Sale}

VARIABLES
    status, totalPaid,  \* of each document: invoices.status, invoices.total_paid
    upfront,            \* by document: its invoice_payments
    offset,             \* by return: the part of its refund that settled the sale's debt
    returned,           \* returned_quantity on the line sold
    debt,               \* by document: its invoice_debts row
    receipt,            \* by receipt: the document it pays, the amount, its state
    spent,              \* the returns whose store credit was drawn on
    taken, given, undone,  \* money taken from the customer, given back, and taken back out by reversals
    request,            \* of each request: what it does and what it read
    overwritten         \* history: the debts the counter's payment wrote an older row over

invoiceVars == <<status, totalPaid, upfront, offset>>
moneyVars == <<taken, given, undone>>
vars == <<invoiceVars, returned, debt, receipt, spent, moneyVars, request, overwritten>>

Settled == {"paid", "partial", "debt"}
NoDebt == [owed |-> 0, paid |-> 0, left |-> 0, open |-> FALSE]
NoReceipt == [of |-> Sale, amount |-> 0, state |-> "none"]
Idle == [does |-> "nothing", on |-> Sale, debt |-> NoDebt, owing |-> FALSE, amount |-> 0]

DebtRows == [owed : Nat, paid : Int, left : Nat, open : BOOLEAN]

AfterSaleTypeOK ==
    /\ status \in [Documents -> Settled \cup {"none", "draft", "cancelled"}]
    /\ totalPaid \in [Documents -> Nat]
    /\ upfront \in [Documents -> Nat]
    /\ offset \in [Returns -> Nat]
    /\ returned \in Nat
    /\ debt \in [Documents -> DebtRows]
    /\ receipt \in [Receipts -> [of : Documents, amount : Nat, state : {"none", "posted", "reversed", "counter"}]]
    /\ spent \subseteq Returns
    /\ taken \in Nat /\ given \in Nat /\ undone \in Nat
    /\ request \in [Requests ->
            [does : {"nothing", "checkout", "cancel", "pay"}, on : Documents,
             debt : DebtRows, owing : BOOLEAN, amount : Nat]]
    /\ overwritten \subseteq Documents

Positive(n) == IF n > 0 THEN n ELSE 0

\* Mutant of Refund: an exchange for more than came back refunds less than nothing.
RefundSigned(r) == Back[r] - Extra[r]

Refund(r) == Positive(Back[r] - Extra[r])
NetAmount(r) == Positive(Extra[r] - Back[r])
AmountDue(d) == IF d = Sale THEN Sold ELSE NetAmount(d)

(* The status a document is issued with, from what was paid of what is due. *)
IssuedAs(due, paid) ==
    IF paid = due THEN "paid" ELSE IF paid > 0 THEN "partial" ELSE "debt"

DebtOf(amount) ==
    IF amount = 0 THEN NoDebt
    ELSE [owed |-> amount, paid |-> 0, left |-> amount, open |-> TRUE]

Init ==
    \E paid \in 0..Sold :
        /\ status = [d \in Documents |-> IF d = Sale THEN IssuedAs(Sold, paid) ELSE "none"]
        /\ upfront = [d \in Documents |-> IF d = Sale THEN paid ELSE 0]
        /\ totalPaid = upfront
        /\ offset = [r \in Returns |-> 0]
        /\ returned = 0
        /\ debt = [d \in Documents |-> IF d = Sale THEN DebtOf(Sold - paid) ELSE NoDebt]
        /\ receipt = [c \in Receipts |-> NoReceipt]
        /\ spent = {}
        /\ taken = paid /\ given = 0 /\ undone = 0
        /\ request = [q \in Requests |-> Idle]
        /\ overwritten = {}

(* What the code leaves to its users, and they may take care of: no request *)
(* about a document comes while another one about it is at work.            *)
Alone(q, d) == Careful => \A p \in Requests \ {q} : request[p].does = "nothing" \/ request[p].on # d

(* A return is drafted while what it takes back is still out, whatever the sale's status. *)
DraftReturn(r) ==
    /\ status[r] = "none"
    /\ Back[r] <= Sold - returned
    /\ status' = [status EXCEPT ![r] = "draft"]
    /\ UNCHANGED <<totalPaid, upfront, offset, returned, debt, receipt, spent, moneyVars, request, overwritten>>

(* A request reads its document, and decides from that to go on. *)
Begin(q, does, d, amount) ==
    /\ request[q] = Idle
    /\ Alone(q, d)
    /\ request' = [request EXCEPT ![q] =
                    [does |-> does, on |-> d, debt |-> debt[d],
                     owing |-> status[d] \in {"partial", "debt"}, amount |-> amount]]
    /\ UNCHANGED <<invoiceVars, returned, debt, receipt, spent, moneyVars, overwritten>>

BeginCheckout(q, r) == status[r] = "draft" /\ Begin(q, "checkout", r, 0)

NoSettledReturns == \A r \in Returns : status[r] \notin Settled

BeginCancel(q, d) ==
    /\ status[d] \in Settled
    /\ d = Sale => NoSettledReturns
    /\ Begin(q, "cancel", d, 0)

BeginPay(q, d, amount) ==
    /\ debt[d].open /\ amount \in 1..debt[d].left
    /\ Begin(q, "pay", d, amount)

End(q) == request' = [request EXCEPT ![q] = Idle]

(* Payments and offsets change a debt's row the same way everywhere. *)
Reduced(row, amount) ==
    LET paid == row.paid + amount
        left == row.owed - paid
    IN [row EXCEPT !.paid = paid, !.left = Positive(left), !.open = @ /\ left > 0]

Restored(row, amount) ==
    LET paid == row.paid - amount
        left == row.owed - paid
    IN [row EXCEPT !.paid = paid, !.left = left, !.open = @ \/ left > 0]

OffsetFor(row, refund) ==
    IF ~row.open THEN 0 ELSE IF refund <= row.left THEN refund ELSE row.left

\* Mutant of CashOut: the whole refund leaves the till, whatever it settled.
CashOutWhole(r, part) == IF Method[r] = "cash" THEN Refund(r) ELSE 0

(* What leaves the till: the refund without the part that settled debt. *)
CashOut(r, part) == IF Method[r] = "cash" THEN Refund(r) - part ELSE 0

\* Mutant of StillOut: the quantity is raised without its guard.
StillOutUnguarded(r) == TRUE

(* The guarded update of returned_quantity finds its row. *)
StillOut(r) == returned + Back[r] <= Sold

CheckOut(q) ==
    LET r == request[q].on
        part == OffsetFor(debt[Sale], Refund(r))
    IN  /\ request[q].does = "checkout" /\ StillOut(r)
        /\ returned' = returned + Back[r]
        /\ offset' = [offset EXCEPT ![r] = part]
        /\ \E paid \in 0..NetAmount(r) :
              /\ status' = [status EXCEPT ![r] = IssuedAs(NetAmount(r), paid)]
              /\ upfront' = [upfront EXCEPT ![r] = paid]
              /\ totalPaid' = [totalPaid EXCEPT ![r] = paid]
              /\ debt' = [debt EXCEPT ![Sale] = IF part = 0 THEN @ ELSE Reduced(@, part),
                                      ![r] = DebtOf(NetAmount(r) - paid)]
              /\ taken' = taken + paid
        /\ given' = given + CashOut(r, part)
        /\ End(q)
        /\ UNCHANGED <<receipt, spent, undone, overwritten>>

(* A sale's cancellation gives back what its payments took; debt is closed, not      *)
(* cleared, and only where the sale, as it was read, was owing.  That the total paid  *)
(* is saved as it was read is left out: nothing looks at it once a sale is cancelled. *)
CancelSale(q) ==
    /\ request[q].does = "cancel" /\ request[q].on = Sale
    /\ status' = [status EXCEPT ![Sale] = "cancelled"]
    /\ debt' = IF request[q].owing THEN [debt EXCEPT ![Sale].open = FALSE] ELSE debt
    /\ given' = given + upfront[Sale]
    /\ End(q)
    /\ UNCHANGED <<totalPaid, upfront, offset, returned, receipt, spent, taken, undone, overwritten>>

(* A return can be cancelled while its credit is untouched and its debt unpaid. *)
Revocable(r) == r \notin spent /\ debt[r].paid = 0 /\ returned >= Back[r]

\* Mutant of PutBack: the whole refund is put back as debt.
PutBackWhole(r) == IF status[r] \in Settled THEN Refund(r) ELSE 0

(* What comes off its ADJUSTMENT row: the part that settled debt, while it stands. *)
PutBack(r) == IF status[r] \in Settled THEN offset[r] ELSE 0

CancelReturn(q) ==
    LET r == request[q].on
    IN  /\ request[q].does = "cancel" /\ r \in Returns /\ Revocable(r)
        /\ status' = [status EXCEPT ![r] = "cancelled"]
        /\ returned' = returned - Back[r]
        /\ debt' = [debt EXCEPT ![Sale] = IF PutBack(r) = 0 THEN @ ELSE Restored(@, PutBack(r)),
                                ![r] = [@ EXCEPT !.left = 0, !.open = FALSE]]
        /\ taken' = taken + CashOut(r, offset[r])
        /\ given' = given + upfront[r]
        /\ End(q)
        /\ UNCHANGED <<totalPaid, upfront, offset, receipt, spent, undone, overwritten>>

Refused(q) ==
    /\ \/ request[q].does = "checkout" /\ ~StillOut(request[q].on)
       \/ request[q].does = "cancel" /\ request[q].on \in Returns /\ ~Revocable(request[q].on)
    /\ End(q)
    /\ UNCHANGED <<invoiceVars, returned, debt, receipt, spent, moneyVars, overwritten>>

(* The counter's payment: the row is written as it was read, without a lock, plus the *)
(* amount; what anybody wrote to it in between is lost.                               *)
Pay(q, c) ==
    LET d == request[q].on
        amount == request[q].amount
    IN  /\ request[q].does = "pay" /\ receipt[c].state = "none"
        /\ debt' = [debt EXCEPT ![d] = Reduced(request[q].debt, amount)]
        /\ receipt' = [receipt EXCEPT ![c] = [of |-> d, amount |-> amount, state |-> "counter"]]
        /\ taken' = taken + amount
        /\ overwritten' = IF debt[d] = request[q].debt THEN overwritten ELSE overwritten \cup {d}
        /\ End(q)
        /\ UNCHANGED <<invoiceVars, returned, spent, given, undone>>

(* The document follows its debt: its status is worked out again from what is paid. *)
Follow(d, amount, row) ==
    LET paid == Positive(totalPaid[d] + amount)
    IN  IF status[d] \notin Settled THEN UNCHANGED <<status, totalPaid>>
        ELSE /\ totalPaid' = [totalPaid EXCEPT ![d] = paid]
             /\ status' = [status EXCEPT ![d] =
                    IF ~row.open /\ paid >= AmountDue(d) THEN "paid"
                    ELSE IF paid > 0 THEN "partial" ELSE "debt"]

(* The debt collection saga: the money, the receipt and the settled debt in one transaction. *)
Collect(c, d, amount) ==
    /\ receipt[c].state = "none"
    /\ debt[d].open /\ amount \in 1..debt[d].left
    /\ debt' = [debt EXCEPT ![d] = Reduced(@, amount)]
    /\ Follow(d, amount, debt'[d])
    /\ receipt' = [receipt EXCEPT ![c] = [of |-> d, amount |-> amount, state |-> "posted"]]
    /\ taken' = taken + amount
    /\ UNCHANGED <<upfront, offset, returned, spent, given, undone, request, overwritten>>

(* Reversing its receipt takes the money back out and opens the debt again. *)
ReverseReceipt(c) ==
    LET d == receipt[c].of
        amount == receipt[c].amount
    IN  /\ receipt[c].state = "posted"
        /\ debt' = [debt EXCEPT ![d] = Restored(@, IF amount <= @.paid THEN amount ELSE @.paid)]
        /\ Follow(d, -amount, debt'[d])
        /\ receipt' = [receipt EXCEPT ![c].state = "reversed"]
        /\ undone' = undone + amount
        /\ UNCHANGED <<upfront, offset, returned, spent, taken, given, request, overwritten>>

StoreCredit(r) == IF Method[r] = "credit" /\ status[r] \in Settled THEN Refund(r) ELSE 0

SpendCredit(r) ==
    /\ StoreCredit(r) > 0 /\ r \notin spent
    /\ spent' = spent \cup {r}
    /\ UNCHANGED <<invoiceVars, returned, debt, receipt, moneyVars, request, overwritten>>

Next ==
    \/ \E r \in Returns : DraftReturn(r) \/ SpendCredit(r)
    \/ \E q \in Requests :
          \/ \E r \in Returns : BeginCheckout(q, r)
          \/ \E d \in Documents : BeginCancel(q, d) \/ \E n \in 1..Sold : BeginPay(q, d, n)
          \/ CheckOut(q) \/ CancelSale(q) \/ CancelReturn(q) \/ Refused(q)
          \/ \E c \in Receipts : Pay(q, c)
    \/ \E c \in Receipts :
          \/ \E d \in Documents, n \in 1..Sold : Collect(c, d, n)
          \/ ReverseReceipt(c)

Spec == Init /\ [][Next]_vars
-----------------------------------------------------------------------------
Live == {r \in Returns : status[r] \in Settled}

(* Every unit counted as returned is on a return that stands, and no more   *)
(* come back than were sold, whatever the order in which returns are        *)
(* checked out and cancelled.                                               *)
ReturnsAddUp ==
    /\ returned = MapThenSumSet(LAMBDA r : Back[r], Live)
    /\ returned <= Sold

Paid(d) == MapThenSumSet(LAMBDA c : receipt[c].amount,
               {c \in Receipts : receipt[c].of = d /\ receipt[c].state \in {"posted", "counter"}})

(* A debt's row says what its receipts and the returns that settled it say, *)
(* though collections, reversals, returns and their cancellations all write *)
(* it: nothing is paid twice, and nothing is forgotten, unless the          *)
(* counter's payment has written an older row over a newer one.             *)
DebtsAddUp ==
    \A d \in Documents \ overwritten :
        /\ debt[d].paid = Paid(d) + IF d = Sale THEN MapThenSumSet(LAMBDA r : offset[r], Live) ELSE 0
        /\ debt[d].paid <= debt[d].owed
        /\ status[d] # "cancelled" => debt[d].left = debt[d].owed - debt[d].paid

(* The store credit a return gave, less the part that settled debt as well: *)
(* the code gives that part twice, and here it counts once.                 *)
CreditOnce(r) ==
    IF Method[r] = "credit" /\ status[r] \in Settled THEN Refund(r) - offset[r] ELSE 0

(* While the sale stands, the money kept and the money still owed are worth *)
(* exactly the goods the customer kept, unless a debt was overwritten: no   *)
(* sequence of returns, exchanges, payments, reversals and cancellations    *)
(* gives or takes more, but for store credit given on top of a settled debt.*)
MoneyAddsUp ==
    status[Sale] # "cancelled" /\ overwritten = {} =>
        taken - given - undone - MapThenSumSet(CreditOnce, Returns)
            + MapThenSumSet(LAMBDA d : debt[d].left, Documents)
        = Sold - returned + MapThenSumSet(LAMBDA r : Extra[r], Live)

(* What is given back for a sale stays within what was taken for it: the    *)
(* comments of the return's checkout give this as the reason why a refund   *)
(* needs no cap and the sale's status need not be looked at.                *)
PayoutWithinCollected == given <= taken
=============================================================================
