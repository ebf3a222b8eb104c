-------------------------------- MODULE Funds --------------------------------
(***************************************************************************)
(* Cash and deposit funds, the vouchers against them, and the transfers    *)
(* and swaps that write a payment and a receipt of their own against the   *)
(* in-transit account.  Each operation is one transaction: it locks and    *)
(* checks the rows it changes, reads the balance of each fund it moves     *)
(* money in, and commits.  A deposit fund's balance is read with a row     *)
(* lock, a cash fund's without one.                                        *)
(*                                                                         *)
(* Abstracted: journal entries other than the in-transit account's balance, *)
(* parties, lines, media, numbers, period locks and value dates; a reversal *)
(* voucher is a row of its own in the code, here a part of the one it      *)
(* reverses.                                                               *)
(***************************************************************************)
EXTENDS Integers, Sequences, FiniteSetsExt

CONSTANTS
    CashFunds, DepositFunds,
    MayOverdraw,       \* the funds with allow_negative set
    Opening,           \* by fund: its balance at the start
    Vouchers, Sign,    \* written by hand; Sign: 1 for a receipt, -1 for a payment
    FundsOf, Amounts,  \* FundsOf by voucher: the funds it may name
    MayClear,          \* the vouchers that may name the in-transit account
    Transfers, Swaps,  \* between branches, and between the two funds of one
    From, To, Amount,  \* by transfer or swap
    Requests, None,
    MaxMoved,          \* bound: an edit starts while the sums it adds to are within it
    MaxBack            \* bound: a voucher is reversed while it gave back less

AllFunds == CashFunds \cup DepositFunds
Moves == Transfers \cup Swaps

\* The payment and the receipt of a transfer or swap, and all vouchers.
Out(m) == <<m, "out">>
In(m) == <<m, "in">>
Legs == Moves \X {"out", "in"}
Papers == Vouchers \cup Legs

ASSUME FundsAssumption ==
    /\ CashFunds \cap DepositFunds = {} /\ Transfers \cap Swaps = {}
    /\ Vouchers \cap (Moves \cup Legs) = {}
    /\ IsFiniteSet(Moves) /\ IsFiniteSet(Vouchers)
    /\ MayOverdraw \subseteq AllFunds
    /\ Opening \in [AllFunds -> Nat]
    /\ Sign \in [Vouchers -> {1, -1}]
    /\ FundsOf \in [Vouchers -> SUBSET AllFunds]
    /\ Amounts \subseteq Nat \ {0}
    /\ MayClear \subseteq Vouchers
    /\ From \in [Moves -> AllFunds] /\ To \in [Moves -> AllFunds]
    /\ \A m \in Moves : From[m] # To[m]
    /\ Amount \in [Moves -> Nat \ {0}]
    /\ None \notin Requests \cup Vouchers \cup Moves
    /\ MaxMoved \in Nat /\ MaxBack \in Nat

VARIABLES
    balance,     \* of each fund, as its row says
    moved,       \* of each fund: the sum of its movements
    overwritten, \* funds written back from a read another commit overtook (history)
    inTransit,   \* the balance of the in-transit account
    voucher,     \* of each voucher: its row
    posted,      \* by voucher: the sum of the movements posted in its name
    cleared,     \* by voucher written by hand: those against the in-transit account
    move,        \* of each transfer or swap: its status
    lock,        \* by deposit fund: the transaction that holds its row
    request      \* of each request: its transaction

books == <<balance, moved, overwritten, inTransit, posted, cleared>>
vars == <<books, voucher, move, lock, request>>

\* A voucher's row: its fund and total, the money its reversals gave back, and
\* whether its contra account is the in-transit account.
VoucherRows ==
    [state : {"none", "posted", "reversed", "deleted"}, fund : AllFunds \cup {None},
     total : Nat, back : Nat, clears : BOOLEAN]
Absent == [state |-> "none", fund |-> None, total |-> 0, back |-> 0, clears |-> FALSE]
Row(fund, total, clears) ==
    [state |-> "posted", fund |-> fund, total |-> total, back |-> 0, clears |-> clears]

\* A transaction on a voucher, transfer or swap: the voucher rows it will write,
\* the status a transfer or swap becomes, the movements to do and those done.
Idle == [on |-> None, rows |-> <<>>, becomes |-> "none", legs |-> <<>>, wrote |-> <<>>]

MoveStates == {"none", "moving", "done", "cancelled", "oneLegged"}
Movements == [paper : Papers, fund : AllFunds, delta : Int]
Writes == [paper : Papers, fund : AllFunds, delta : Int, read : Int]

FundsTypeOK ==
    /\ balance \in [AllFunds -> Int]
    /\ moved \in [AllFunds -> Int]
    /\ overwritten \subseteq AllFunds
    /\ inTransit \in Int
    /\ voucher \in [Papers -> VoucherRows]
    /\ posted \in [Papers -> Int]
    /\ cleared \in [Vouchers -> Int]
    /\ move \in [Moves -> MoveStates]
    /\ lock \in [DepositFunds -> Requests \cup {None}]
    /\ \A q \in Requests :
          /\ request[q].on \in Vouchers \cup Moves \cup {None}
          /\ \A p \in DOMAIN request[q].rows : p \in Papers /\ request[q].rows[p] \in VoucherRows
          /\ request[q].becomes \in MoveStates
          /\ \A i \in DOMAIN request[q].legs : request[q].legs[i] \in Movements
          /\ \A i \in DOMAIN request[q].wrote : request[q].wrote[i] \in Writes

Init ==
    /\ balance = Opening
    /\ moved = [f \in AllFunds |-> 0]
    /\ overwritten = {}
    /\ inTransit = 0
    /\ voucher = [p \in Papers |-> Absent]
    /\ posted = [p \in Papers |-> 0]
    /\ cleared = [v \in Vouchers |-> 0]
    /\ move = [m \in Moves |-> "none"]
    /\ lock = [f \in DepositFunds |-> None]
    /\ request = [q \in Requests |-> Idle]

-----------------------------------------------------------------------------
\* What a movement of a voucher's total does to its fund.
SignOf(p) == IF p \in Vouchers THEN Sign[p] ELSE IF p[2] = "out" THEN -1 ELSE 1

Movement(p, fund, delta) == [paper |-> p, fund |-> fund, delta |-> delta]

\* A voucher is posted with the movement of its total; a row that is reversed
\* gives the total back, and so does, once more, the reversal of a reversal.
Post(p, row) == Movement(p, row.fund, SignOf(p) * row.total)
GiveBack(p) == Movement(p, voucher[p].fund, -(SignOf(p) * voucher[p].total))
GivenBack(p) == [voucher[p] EXCEPT !.state = "reversed", !.back = @ + voucher[p].total]

\* One compensating movement for a difference, none for a zero one.
Adjustment(p, fund, delta) == IF delta = 0 THEN <<>> ELSE <<Movement(p, fund, delta)>>

\* The rows q's transaction has locked: its vouchers, and its transfer.
Held(q) ==
    DOMAIN request[q].rows \cup (IF request[q].becomes = "none" THEN {} ELSE {request[q].on})

\* Mutant of Unlocked: a transaction does not wait for the row's lock.
UnlockedAlways(x) == TRUE

(* Nobody else's transaction holds the row of this voucher or transfer. *)
Unlocked(x) == \A q \in Requests : x \notin Held(q)

(* A transaction begins: it holds its rows, and knows what it will write. *)
Begin(q, x, rows, becomes, legs) ==
    /\ request[q] = Idle
    /\ \A p \in DOMAIN rows : Unlocked(p)
    /\ becomes # "none" => Unlocked(x)
    /\ request' = [request EXCEPT ![q] =
            [on |-> x, rows |-> rows, becomes |-> becomes, legs |-> legs, wrote |-> <<>>]]
    /\ UNCHANGED <<books, voucher, move, lock>>

\* The contra accounts a voucher may be written against.
Contras(v) == IF v \in MayClear THEN BOOLEAN ELSE {FALSE}

BeginCreate(q, v, fund, total) ==
    /\ voucher[v].state = "none" /\ fund \in FundsOf[v]
    /\ \E clears \in Contras(v) :
          LET row == Row(fund, total, clears)
          IN  Begin(q, v, [p \in {v} |-> row], "none", <<Post(v, row)>>)

\* Mutant of Difference: the new total is posted again, not what it adds.
DifferenceWhole(v, total) == Sign[v] * total

(* What an edit posts: the new total less the total the locked row still says. *)
Difference(v, total) == Sign[v] * (total - voucher[v].total)

(* An edit may name another fund or contra account; only the difference is *)
(* posted, to the new ones.                                                *)
BeginUpdate(q, v, fund, total) ==
    /\ voucher[v].state = "posted" /\ fund \in FundsOf[v]
    /\ {moved[fund], cleared[v]} \subseteq -MaxMoved..MaxMoved
    /\ \E clears \in Contras(v) :
          Begin(q, v, [p \in {v} |-> Row(fund, total, clears)], "none",
                Adjustment(v, fund, Difference(v, total)))

(* A deletion posts the whole amount back.                                 *)
BeginDelete(q, v) ==
    /\ voucher[v].state = "posted"
    /\ Begin(q, v, [p \in {v} |-> [voucher[v] EXCEPT !.state = "deleted"]], "none", <<GiveBack(v)>>)

\* Mutant of Reversible: the status is not looked at.
ReversibleAlways(p) == voucher[p].back < MaxBack

\* A voucher that is posted, or its reversal, which is posted just as well.
Reversible(p) == voucher[p].state \in {"posted", "reversed"} /\ voucher[p].back < MaxBack

(* A reversal asks neither what a voucher was written for nor whether it is *)
(* itself a reversal: one leg of a transfer or swap can be reversed alone. *)
BeginReverse(q, p) ==
    /\ Reversible(p)
    /\ Begin(q, IF p \in Vouchers THEN p ELSE p[1], [x \in {p} |-> GivenBack(p)], "none", <<GiveBack(p)>>)

\* The rows of a transfer's or swap's payment and receipt.
OutRow(m) == Row(From[m], Amount[m], TRUE)
InRow(m) == Row(To[m], Amount[m], TRUE)
PostOut(m) == Post(Out(m), OutRow(m))
PostIn(m) == Post(In(m), InRow(m))

BeginSend(q, t) ==
    /\ t \in Transfers /\ move[t] = "none"
    /\ Begin(q, t, [p \in {Out(t)} |-> OutRow(t)], "moving", <<PostOut(t)>>)

BeginConfirm(q, t) ==
    /\ t \in Transfers /\ move[t] = "moving"
    /\ Begin(q, t, [p \in {In(t)} |-> InRow(t)], "done", <<PostIn(t)>>)

(* The payment is reversed with the transfer, unless it was before.        *)
BeginCancel(q, t) ==
    /\ t \in Transfers /\ move[t] = "moving"
    /\ voucher[Out(t)].state = "posted"
    /\ Begin(q, t, [p \in {Out(t)} |-> GivenBack(Out(t))], "cancelled", <<GiveBack(Out(t))>>)

(* A swap moves the money in one transaction, or leaves the second leg to  *)
(* the cashier, who writes a voucher by hand.  Its fee has the reference of *)
(* the first leg, which is found in its place: nothing is posted for it.   *)
BeginSwap(q, s) ==
    /\ s \in Swaps /\ move[s] = "none"
    /\ \/ Begin(q, s, [p \in {Out(s), In(s)} |-> IF p = Out(s) THEN OutRow(s) ELSE InRow(s)],
                "done", <<PostOut(s), PostIn(s)>>)
       \/ Begin(q, s, [p \in {Out(s)} |-> OutRow(s)], "oneLegged", <<PostOut(s)>>)

-----------------------------------------------------------------------------
\* Mutant of FundFree: a deposit fund is read without its lock.
FundFreeAlways(f, q) == TRUE

FundFree(f, q) == f \in DepositFunds => lock[f] \in {None, q}

Covered(leg) ==
    leg.fund \in MayOverdraw \/ balance[leg.fund] + leg.delta >= 0

(* The next leg: the fund's balance is read and the new one worked out. *)
ReadFund(q) ==
    LET leg == Head(request[q].legs)
    IN  /\ request[q].legs # <<>>
        /\ FundFree(leg.fund, q) /\ Covered(leg)
        /\ lock' = IF leg.fund \in DepositFunds THEN [lock EXCEPT ![leg.fund] = q] ELSE lock
        /\ request' = [request EXCEPT
                ![q].legs = Tail(@),
                ![q].wrote = Append(@, [paper |-> leg.paper, fund |-> leg.fund,
                                        delta |-> leg.delta, read |-> balance[leg.fund]])]
        /\ UNCHANGED <<books, voucher, move>>

Release(q) ==
    /\ lock' = [f \in DepositFunds |-> IF lock[f] = q THEN None ELSE lock[f]]
    /\ request' = [request EXCEPT ![q] = Idle]

(* A fund that cannot cover the leg: the whole transaction rolls back. *)
Refused(q) ==
    LET leg == Head(request[q].legs)
    IN  /\ request[q].legs # <<>>
        /\ FundFree(leg.fund, q) /\ ~Covered(leg)
        /\ Release(q)
        /\ UNCHANGED <<books, voucher, move>>

\* What q wrote: to a fund, in a voucher's name, in all.
Written(q, f) == {i \in DOMAIN request[q].wrote : request[q].wrote[i].fund = f}
InName(q, p) == {i \in DOMAIN request[q].wrote : request[q].wrote[i].paper = p}
Worked(q, S) == MapThenSumSet(LAMBDA i : request[q].wrote[i].delta, S)
Total(q) == Worked(q, DOMAIN request[q].wrote)

\* The balance q read of a fund it wrote to.
ReadOf(q, f) == request[q].wrote[CHOOSE i \in Written(q, f) : TRUE].read

\* Is a movement of q's posted against the in-transit account?
Clears(q) == request[q].on \in Moves \/ request[q].rows[request[q].on].clears

(* Balances are written as they were read plus the movement; the rows      *)
(* follow.                                                                 *)
Commit(q) ==
    LET x == request[q].on
        rows == request[q].rows
    IN  /\ x # None /\ request[q].legs = <<>>
        /\ balance' = [f \in AllFunds |->
                IF Written(q, f) = {} THEN balance[f] ELSE ReadOf(q, f) + Worked(q, Written(q, f))]
        /\ moved' = [f \in AllFunds |-> moved[f] + Worked(q, Written(q, f))]
        /\ overwritten' = overwritten \cup
                {f \in AllFunds : Written(q, f) # {} /\ balance[f] # ReadOf(q, f)}
        /\ posted' = [p \in Papers |-> posted[p] + Worked(q, InName(q, p))]
        /\ inTransit' = IF Clears(q) THEN inTransit - Total(q) ELSE inTransit
        /\ cleared' = IF x \in Vouchers /\ Clears(q) THEN [cleared EXCEPT ![x] = @ + Total(q)] ELSE cleared
        /\ voucher' = [p \in Papers |-> IF p \in DOMAIN rows THEN rows[p] ELSE voucher[p]]
        /\ move' = IF request[q].becomes = "none" THEN move
                   ELSE [move EXCEPT ![x] = request[q].becomes]
        /\ Release(q)

Next ==
    \E q \in Requests :
        \/ \E v \in Vouchers :
              \/ \E f \in FundsOf[v], n \in Amounts : BeginCreate(q, v, f, n) \/ BeginUpdate(q, v, f, n)
              \/ BeginDelete(q, v)
        \/ \E p \in Papers : BeginReverse(q, p)
        \/ \E m \in Moves :
              BeginSend(q, m) \/ BeginConfirm(q, m) \/ BeginCancel(q, m) \/ BeginSwap(q, m)
        \/ ReadFund(q) \/ Refused(q) \/ Commit(q)

Spec == Init /\ [][Next]_vars
-----------------------------------------------------------------------------
(* A fund's balance is what its movements say, though every transaction    *)
(* writes back a balance it read before: always that of a deposit fund,    *)
(* and of a cash fund until a movement is written over another that        *)
(* committed since its read.  No fund goes below zero that may not.        *)
BalancesAddUp ==
    /\ overwritten \subseteq CashFunds
    /\ \A f \in AllFunds \ overwritten : balance[f] = Opening[f] + moved[f]
    /\ \A f \in AllFunds \ MayOverdraw : balance[f] >= 0

\* What a voucher's row is worth: each reversal in turn gives its total back.
Worth(p, row) ==
    IF row.state \in {"posted", "reversed"} THEN SignOf(p) * (row.total - row.back) ELSE 0

(* What was posted in a voucher's name, over its creation, its edits and    *)
(* its deletion or reversals, is what the voucher is now worth.             *)
VouchersAddUp == \A p \in Papers : posted[p] = Worth(p, voucher[p])

\* The money a transfer or swap has on its way: what its payment sent and its
\* receipt has not taken, less what reversals of the payment gave back to its
\* fund, plus what reversals of the receipt took back from its.
OnTheWay ==
    [m \in Moves |->
        (IF move[m] \in {"moving", "oneLegged", "cancelled"} THEN Amount[m] ELSE 0)
            - voucher[Out(m)].back + voucher[In(m)].back]

(* The in-transit account holds the money on its way, of transfers and of  *)
(* swaps whose second leg was left out, less what was posted against it by *)
(* hand: no transfer is confirmed twice, or both confirmed and cancelled.  *)
(* A leg reversed alone takes its money off it (a payment) or puts it back *)
(* (a receipt), and nothing else does.                                     *)
TransitAddsUp ==
    inTransit = MapThenSumSet(LAMBDA m : OnTheWay[m], Moves)
                    - MapThenSumSet(LAMBDA v : cleared[v], Vouchers)
=============================================================================
