--------------------------- MODULE AfterSaleProofs ---------------------------
(***************************************************************************)
(* Proofs about AfterSale, for any returns, receipts and requests, when    *)
(* no two requests about one document are at work at once (Careful).       *)
(***************************************************************************)
EXTENDS AfterSale, SumTheorems

-----------------------------------------------------------------------------
Busy(q) == request[q].does # "nothing"
Standing == {"posted", "counter"}

\* A document with a debt to pay: it stands, or it is a return that was cancelled
\* though its debt, written over by an older row, had been paid on.
Payable(d) == d \in Returns => status[d] \in Settled \/ (status[d] = "cancelled" /\ d \in overwritten)

\* What a request decided on still holds, but for what the debt it read says is paid.
RequestsFresh ==
    /\ \A p, q \in Requests : p # q /\ Busy(p) /\ Busy(q) => request[p].on # request[q].on
    /\ \A q \in Requests :
          /\ request[q].does = "checkout" => request[q].on \in Returns /\ status[request[q].on] = "draft"
          /\ request[q].does = "cancel" => status[request[q].on] \in Settled
          /\ request[q].does = "pay" =>
                /\ request[q].amount \in 1..request[q].debt.left
                /\ request[q].debt.left + request[q].debt.paid <= request[q].debt.owed
                /\ request[q].debt.owed = debt[request[q].on].owed
                /\ Payable(request[q].on)

\* A return and the debt of its own, from its draft to its cancellation.
ReturnRows ==
    \A r \in Returns :
        /\ offset[r] <= Refund(r)
        /\ status[r] \in {"none", "draft"} => debt[r] = NoDebt /\ r \notin overwritten
        /\ status[r] \in Settled => debt[r].owed + upfront[r] = NetAmount(r)
        /\ status[r] = "cancelled" /\ r \notin overwritten => debt[r].left = 0 /\ debt[r].paid = 0

Rows ==
    /\ status[Sale] \in Settled \cup {"cancelled"}
    /\ \A d \in Documents : debt[d].left + debt[d].paid <= debt[d].owed
    /\ \A c \in Receipts : receipt[c].state \in Standing => receipt[c].amount > 0

AfterSaleInv ==
    /\ AfterSaleTypeOK
    /\ RequestsFresh
    /\ ReturnRows
    /\ Rows
    /\ ReturnsAddUp
    /\ DebtsAddUp
    /\ MoneyAddsUp

-----------------------------------------------------------------------------
(* The sums of the invariants, each over the whole of a finite set with     *)
(* zeros where there is nothing to count, so that a step changes one        *)
(* summand.  They are functions of the rows they count.                    *)
LiveIn(st) == {r \in Returns : st[r] \in Settled}
ReceiptsOf(rec, d) == {c \in Receipts : rec[c].of = d /\ rec[c].state \in Standing}

Counted(st, f) == [r \in Returns |-> IF st[r] \in Settled THEN f[r] ELSE 0]
CreditIn(st, off) ==
    [r \in Returns |-> IF Method[r] = "credit" /\ st[r] \in Settled THEN Refund(r) - off[r] ELSE 0]
PaidIn(rec, d) ==
    [c \in Receipts |-> IF rec[c].of = d /\ rec[c].state \in Standing THEN rec[c].amount ELSE 0]
LeftIn(rows) == [d \in Documents |-> rows[d].left]

TotalBack(st) == Sum(Counted(st, Back), Returns)
TotalExtra(st) == Sum(Counted(st, Extra), Returns)
TotalOffset(st, off) == Sum(Counted(st, off), Returns)
TotalCredit(st, off) == Sum(CreditIn(st, off), Returns)
TotalPaid(rec, d) == Sum(PaidIn(rec, d), Receipts)
TotalLeft(rows) == Sum(LeftIn(rows), Documents)

Numbers == [Returns -> Nat]
ReceiptRows == [of : Documents, amount : Nat, state : {"none", "posted", "reversed", "counter"}]

\* What a return gives back is a natural number, and so is what it sells.
LEMMA Amounts ==
    /\ Back \in Numbers /\ Extra \in Numbers
    /\ \A r \in Returns : Back[r] > 0
    /\ \A r \in Returns : Refund(r) \in Nat /\ NetAmount(r) \in Nat
    /\ \A r \in Returns : Refund(r) - NetAmount(r) = Back[r] - Extra[r]
    /\ Sold \in Nat /\ Sale \notin Returns
    /\ IsFiniteSet(Returns) /\ IsFiniteSet(Receipts) /\ IsFiniteSet(Documents)
<1>1. Back \in Numbers /\ Extra \in Numbers /\ \A r \in Returns : Back[r] > 0
  BY AfterSaleAssumption DEF Numbers
<1>2. ASSUME NEW r \in Returns
      PROVE  Refund(r) \in Nat /\ NetAmount(r) \in Nat /\ Refund(r) - NetAmount(r) = Back[r] - Extra[r]
  <2>1. Back[r] \in Nat /\ Extra[r] \in Nat
    BY <1>1 DEF Numbers
  <2> QED
    BY <2>1 DEF Refund, NetAmount, Positive
<1>3. IsFiniteSet(Documents)
  BY AfterSaleAssumption, FS_AddElement DEF Documents
<1> QED
  BY <1>1, <1>2, <1>3, AfterSaleAssumption

(* The returns that count add up to all returns with the others at 0.      *)
LEMMA CountedSum ==
    ASSUME NEW st, NEW f \in Numbers
    PROVE  Sum(f, LiveIn(st)) = Sum(Counted(st, f), Returns)
<1>1. \A r \in LiveIn(st) : f[r] \in Int
  BY DEF LiveIn, Numbers
<1>2. \A r \in Returns : Counted(st, f)[r] = IF r \in LiveIn(st) THEN f[r] ELSE 0
  BY DEF Counted, LiveIn
<1>3. LiveIn(st) \subseteq Returns
  BY DEF LiveIn
<1> QED
  BY <1>1, <1>2, <1>3, Amounts, SumFiltered

(* The sums of AfterSale as MapThenSumSet writes them.                     *)
PaidSum(rec, d) == MapThenSumSet(LAMBDA c : rec[c].amount, ReceiptsOf(rec, d))
CreditSum(st, off) ==
    MapThenSumSet(LAMBDA r : IF Method[r] = "credit" /\ st[r] \in Settled THEN Refund(r) - off[r] ELSE 0,
                  Returns)
LeftSum(rows) == MapThenSumSet(LAMBDA d : rows[d].left, Documents)

(* What the receipts paid on a debt is the sum of their counted amounts.   *)
LEMMA PaidSumIs ==
    ASSUME NEW rec \in [Receipts -> ReceiptRows], NEW d
    PROVE  PaidSum(rec, d) = TotalPaid(rec, d)
<1> DEFINE S == ReceiptsOf(rec, d)
           F == [c \in S |-> rec[c].amount]
           P(k) == k = [s \in SUBSET S |->
                            IF s = {} THEN 0
                            ELSE LET x == CHOOSE x \in s : TRUE IN rec[x].amount + k[s \ {x}]]
<1>0. S \subseteq Receipts /\ IsFiniteSet(S)
  BY Amounts, FS_Subset DEF ReceiptsOf
<1>1. ASSUME NEW k PROVE P(k) <=> Folds(k, S, F)
  <2>1. \A s \in SUBSET S : s # {} => Pick(s) \in s /\ F[Pick(s)] = rec[Pick(s)].amount
    BY DEF Pick
  <2> HIDE DEF S
  <2> QED
    BY <2>1 DEF Folds, Pick
<1>2. PaidSum(rec, d) = (CHOOSE k : P(k))[S]
  BY DEF PaidSum, MapThenSumSet, MapThenFoldSet
<1>3. Sum(F, S) = TotalPaid(rec, d)
  <2>1. \A c \in S : F[c] \in Int
    BY <1>0 DEF ReceiptRows
  <2>2. \A c \in Receipts : PaidIn(rec, d)[c] = IF c \in S THEN F[c] ELSE 0
    BY DEF PaidIn, ReceiptsOf
  <2> HIDE DEF S, F
  <2> QED
    BY <1>0, <2>1, <2>2, Amounts, SumFiltered DEF TotalPaid
<1> HIDE DEF S, F, P
<1>4. \E k : P(k)
  BY <1>0, <1>1, FoldExists
<1>5. Folds(CHOOSE k : P(k), S, F)
  BY <1>1, <1>4
<1> QED
  BY <1>0, <1>2, <1>3, <1>5, SumIsFold

(* The store credit given is a sum over all returns.                       *)
LEMMA CreditSumIs ==
    ASSUME NEW st, NEW off \in Numbers
    PROVE  CreditSum(st, off) = TotalCredit(st, off)
<1> DEFINE S == Returns
           F == CreditIn(st, off)
           P(k) == k = [s \in SUBSET S |->
                            IF s = {} THEN 0
                            ELSE LET x == CHOOSE x \in s : TRUE
                                 IN  (IF Method[x] = "credit" /\ st[x] \in Settled THEN Refund(x) - off[x] ELSE 0)
                                         + k[s \ {x}]]
<1>1. ASSUME NEW k PROVE P(k) <=> Folds(k, S, F)
  <2>1. \A s \in SUBSET S : s # {} =>
            /\ Pick(s) \in s
            /\ F[Pick(s)] = IF Method[Pick(s)] = "credit" /\ st[Pick(s)] \in Settled
                            THEN Refund(Pick(s)) - off[Pick(s)] ELSE 0
    BY DEF Pick, CreditIn
  <2> QED
    BY <2>1 DEF Folds, Pick
<1>2. CreditSum(st, off) = (CHOOSE k : P(k))[S]
  BY DEF CreditSum, MapThenSumSet, MapThenFoldSet
<1> HIDE DEF F, P
<1>4. \E k : P(k)
  BY <1>1, Amounts, FoldExists
<1>5. Folds(CHOOSE k : P(k), S, F)
  BY <1>1, <1>4
<1>6. Sum(F, S) = (CHOOSE k : P(k))[S]
  BY <1>5, Amounts, SumIsFold
<1> QED
  BY <1>2, <1>6 DEF TotalCredit, F

(* What is left of the debts is a sum over all documents.                  *)
LEMMA LeftSumIs ==
    ASSUME NEW rows
    PROVE  LeftSum(rows) = TotalLeft(rows)
<1> DEFINE S == Documents
           F == LeftIn(rows)
           P(k) == k = [s \in SUBSET S |->
                            IF s = {} THEN 0
                            ELSE LET x == CHOOSE x \in s : TRUE IN rows[x].left + k[s \ {x}]]
<1>1. ASSUME NEW k PROVE P(k) <=> Folds(k, S, F)
  <2>1. \A s \in SUBSET S : s # {} => Pick(s) \in s /\ F[Pick(s)] = rows[Pick(s)].left
    BY DEF Pick, LeftIn
  <2> QED
    BY <2>1 DEF Folds, Pick
<1>2. LeftSum(rows) = (CHOOSE k : P(k))[S]
  BY DEF LeftSum, MapThenSumSet, MapThenFoldSet
<1> HIDE DEF F, P
<1>4. \E k : P(k)
  BY <1>1, Amounts, FoldExists
<1>5. Folds(CHOOSE k : P(k), S, F)
  BY <1>1, <1>4
<1>6. Sum(F, S) = (CHOOSE k : P(k))[S]
  BY <1>5, Amounts, SumIsFold
<1> QED
  BY <1>2, <1>6 DEF TotalLeft, F

-----------------------------------------------------------------------------
(* The invariants in terms of those sums, before and after a step.         *)
ReturnsHold(st, back) == back = TotalBack(st) /\ back <= Sold

DebtHolds(st, off, rec, rows, d) ==
    /\ rows[d].paid = TotalPaid(rec, d) + IF d = Sale THEN TotalOffset(st, off) ELSE 0
    /\ rows[d].paid <= rows[d].owed
    /\ st[d] # "cancelled" => rows[d].left = rows[d].owed - rows[d].paid

DebtsHold(st, off, rec, rows, over) ==
    \A d \in Documents \ over : DebtHolds(st, off, rec, rows, d)

MoneyHolds(st, off, rows, over, back, kept) ==
    st[Sale] # "cancelled" /\ over = {} =>
        kept - TotalCredit(st, off) + TotalLeft(rows) = Sold - back + TotalExtra(st)

(* The three invariants in terms of sums over sets that never change.      *)
LEMMA InvariantsNow ==
    ASSUME AfterSaleTypeOK
    PROVE  /\ ReturnsAddUp <=> ReturnsHold(status, returned)
           /\ DebtsAddUp <=> DebtsHold(status, offset, receipt, debt, overwritten)
           /\ MoneyAddsUp <=> MoneyHolds(status, offset, debt, overwritten, returned, taken - given - undone)
<1>1. offset \in Numbers /\ receipt \in [Receipts -> ReceiptRows]
  BY DEF AfterSaleTypeOK, Numbers, ReceiptRows
<1>2. ReturnsAddUp <=> returned = Sum(Back, LiveIn(status)) /\ returned <= Sold
  BY DEF ReturnsAddUp, Live, LiveIn, Sum, MapThenSumSet, MapThenFoldSet
<1>3. DebtsAddUp <=>
        \A d \in Documents \ overwritten :
            /\ debt[d].paid = PaidSum(receipt, d) + IF d = Sale THEN Sum(offset, LiveIn(status)) ELSE 0
            /\ debt[d].paid <= debt[d].owed
            /\ status[d] # "cancelled" => debt[d].left = debt[d].owed - debt[d].paid
  BY DEF DebtsAddUp, Paid, PaidSum, ReceiptsOf, Standing, Live, LiveIn, Sum, MapThenSumSet, MapThenFoldSet
<1>4. MoneyAddsUp <=>
        (status[Sale] # "cancelled" /\ overwritten = {} =>
            taken - given - undone - CreditSum(status, offset) + LeftSum(debt)
            = Sold - returned + Sum(Extra, LiveIn(status)))
  BY DEF MoneyAddsUp, CreditOnce, CreditSum, LeftSum, Live, LiveIn, Sum, MapThenSumSet, MapThenFoldSet
<1>5. ReturnsAddUp <=> ReturnsHold(status, returned)
  BY <1>2, Amounts, CountedSum DEF ReturnsHold, TotalBack
<1>6. DebtsAddUp <=> DebtsHold(status, offset, receipt, debt, overwritten)
  BY <1>1, <1>3, CountedSum, PaidSumIs DEF DebtsHold, DebtHolds, TotalOffset
<1>7. MoneyAddsUp <=> MoneyHolds(status, offset, debt, overwritten, returned, taken - given - undone)
  BY <1>1, <1>4, Amounts, CountedSum, CreditSumIs, LeftSumIs DEF MoneyHolds, TotalExtra
<1> QED
  BY <1>5, <1>6, <1>7

(* The same after a step.                                                  *)
LEMMA InvariantsNext ==
    ASSUME AfterSaleTypeOK'
    PROVE  /\ ReturnsAddUp' <=> ReturnsHold(status', returned')
           /\ DebtsAddUp' <=> DebtsHold(status', offset', receipt', debt', overwritten')
           /\ MoneyAddsUp' <=> MoneyHolds(status', offset', debt', overwritten', returned', taken' - given' - undone')
<1>1. offset' \in Numbers /\ receipt' \in [Receipts -> ReceiptRows]
  BY DEF AfterSaleTypeOK, Numbers, ReceiptRows
<1>2. ReturnsAddUp' <=> returned' = Sum(Back, LiveIn(status')) /\ returned' <= Sold
  BY DEF ReturnsAddUp, Live, LiveIn, Sum, MapThenSumSet, MapThenFoldSet
<1>3. DebtsAddUp' <=>
        \A d \in Documents \ overwritten' :
            /\ debt'[d].paid = PaidSum(receipt', d) + IF d = Sale THEN Sum(offset', LiveIn(status')) ELSE 0
            /\ debt'[d].paid <= debt'[d].owed
            /\ status'[d] # "cancelled" => debt'[d].left = debt'[d].owed - debt'[d].paid
  BY DEF DebtsAddUp, Paid, PaidSum, ReceiptsOf, Standing, Live, LiveIn, Sum, MapThenSumSet, MapThenFoldSet
<1>4. MoneyAddsUp' <=>
        (status'[Sale] # "cancelled" /\ overwritten' = {} =>
            taken' - given' - undone' - CreditSum(status', offset') + LeftSum(debt')
            = Sold - returned' + Sum(Extra, LiveIn(status')))
  BY DEF MoneyAddsUp, CreditOnce, CreditSum, LeftSum, Live, LiveIn, Sum, MapThenSumSet, MapThenFoldSet
<1>5. ReturnsAddUp' <=> ReturnsHold(status', returned')
  BY <1>2, Amounts, CountedSum DEF ReturnsHold, TotalBack
<1>6. DebtsAddUp' <=> DebtsHold(status', offset', receipt', debt', overwritten')
  BY <1>1, <1>3, CountedSum, PaidSumIs DEF DebtsHold, DebtHolds, TotalOffset
<1>7. MoneyAddsUp' <=> MoneyHolds(status', offset', debt', overwritten', returned', taken' - given' - undone')
  BY <1>1, <1>4, Amounts, CountedSum, CreditSumIs, LeftSumIs DEF MoneyHolds, TotalExtra
<1> QED
  BY <1>5, <1>6, <1>7

-----------------------------------------------------------------------------
(* The totals are natural numbers, none below a summand of it.             *)
LEMMA TotalsAreNat ==
    /\ \A st : TotalBack(st) \in Nat /\ TotalExtra(st) \in Nat
    /\ \A st, off : off \in Numbers =>
          /\ TotalOffset(st, off) \in Nat /\ TotalCredit(st, off) \in Int
          /\ \A r \in Returns : st[r] \in Settled => off[r] <= TotalOffset(st, off)
    /\ \A rec, d : rec \in [Receipts -> ReceiptRows] =>
          /\ TotalPaid(rec, d) \in Nat
          /\ \A c \in Receipts : rec[c].of = d /\ rec[c].state \in Standing
                                     => rec[c].amount <= TotalPaid(rec, d)
    /\ \A rows : rows \in [Documents -> DebtRows] => TotalLeft(rows) \in Nat
<1>1. ASSUME NEW st, NEW f \in Numbers
      PROVE  /\ Sum(Counted(st, f), Returns) \in Nat
             /\ \A r \in Returns : st[r] \in Settled => f[r] <= Sum(Counted(st, f), Returns)
  <2>1. \A r \in Returns : Counted(st, f)[r] \in Nat
    BY DEF Counted, Numbers
  <2>2. \A r \in Returns : st[r] \in Settled => Counted(st, f)[r] = f[r]
    BY DEF Counted
  <2> QED
    BY <2>1, <2>2, Amounts, SumNat
<1>2. ASSUME NEW st, NEW off \in Numbers PROVE TotalCredit(st, off) \in Int
  <2>1. \A r \in Returns : CreditIn(st, off)[r] \in Int
    BY Amounts DEF CreditIn, Numbers
  <2> QED
    BY <2>1, Amounts, SumInt DEF TotalCredit
<1>3. ASSUME NEW rec \in [Receipts -> ReceiptRows], NEW d
      PROVE  /\ TotalPaid(rec, d) \in Nat
             /\ \A c \in Receipts : rec[c].of = d /\ rec[c].state \in Standing
                                        => rec[c].amount <= TotalPaid(rec, d)
  <2>1. \A c \in Receipts : PaidIn(rec, d)[c] \in Nat
    BY DEF PaidIn, ReceiptRows
  <2>2. \A c \in Receipts : rec[c].of = d /\ rec[c].state \in Standing => PaidIn(rec, d)[c] = rec[c].amount
    BY DEF PaidIn
  <2> QED
    BY <2>1, <2>2, Amounts, SumNat DEF TotalPaid
<1>4. ASSUME NEW rows \in [Documents -> DebtRows] PROVE TotalLeft(rows) \in Nat
  <2>1. \A d \in Documents : LeftIn(rows)[d] \in Nat
    BY DEF LeftIn, DebtRows
  <2> QED
    BY <2>1, Amounts, SumNat DEF TotalLeft
<1> QED
  BY <1>1, <1>2, <1>3, <1>4, Amounts DEF TotalBack, TotalExtra, TotalOffset

(* As long as the same returns stand, the totals over them do.             *)
LEMMA SameReturns ==
    ASSUME NEW st, NEW st2, \A r \in Returns : st2[r] \in Settled <=> st[r] \in Settled
    PROVE  /\ TotalBack(st2) = TotalBack(st) /\ TotalExtra(st2) = TotalExtra(st)
           /\ \A off : TotalOffset(st2, off) = TotalOffset(st, off)
           /\ \A off : TotalCredit(st2, off) = TotalCredit(st, off)
<1>1. \A f : Counted(st2, f) = Counted(st, f)
  BY DEF Counted
<1>2. \A off : CreditIn(st2, off) = CreditIn(st, off)
  BY DEF CreditIn
<1> QED
  BY <1>1, <1>2 DEF TotalBack, TotalExtra, TotalCredit, TotalOffset

(* A return joins those that stand: from st to st2.                        *)
LEMMA ReturnJoins ==
    ASSUME NEW st, NEW st2, NEW r \in Returns, st[r] \notin Settled, st2[r] \in Settled,
           \A s \in Returns \ {r} : st2[s] \in Settled <=> st[s] \in Settled,
           NEW off \in Numbers, NEW off2 \in Numbers, \A s \in Returns \ {r} : off2[s] = off[s]
    PROVE  /\ TotalBack(st2) = TotalBack(st) + Back[r]
           /\ TotalExtra(st2) = TotalExtra(st) + Extra[r]
           /\ TotalOffset(st2, off2) = TotalOffset(st, off) + off2[r]
           /\ TotalCredit(st2, off2) =
                  TotalCredit(st, off) + IF Method[r] = "credit" THEN Refund(r) - off2[r] ELSE 0
<1>1. ASSUME NEW f \in Numbers, NEW g \in Numbers, \A s \in Returns \ {r} : g[s] = f[s]
      PROVE  Sum(Counted(st2, g), Returns) = Sum(Counted(st, f), Returns) + g[r]
  <2> DEFINE a == Counted(st, f)
             b == Counted(st2, g)
  <2>1. \A s \in Returns : a[s] \in Int
    BY DEF Counted, Numbers
  <2>2. \A s \in Returns \ {r} : b[s] = a[s]
    BY <1>1 DEF Counted
  <2>3. a[r] = 0 /\ b[r] = g[r] /\ g[r] \in Int
    BY DEF Counted, Numbers
  <2> HIDE DEF a, b
  <2>4. Sum(b, Returns) = Sum(a, Returns) - a[r] + b[r]
    BY <2>1, <2>2, <2>3, Amounts, SumChange
  <2>5. Sum(a, Returns) \in Int
    BY <2>1, Amounts, SumInt
  <2>6. Sum(b, Returns) = Sum(a, Returns) + g[r]
    BY <2>3, <2>4, <2>5
  <2> QED
    BY <2>6 DEF a, b
<1>2. TotalCredit(st2, off2) =
          TotalCredit(st, off) + IF Method[r] = "credit" THEN Refund(r) - off2[r] ELSE 0
  <2> DEFINE a == CreditIn(st, off)
             b == CreditIn(st2, off2)
             more == IF Method[r] = "credit" THEN Refund(r) - off2[r] ELSE 0
  <2>1. \A s \in Returns : a[s] \in Int
    BY Amounts DEF CreditIn, Numbers
  <2>2. \A s \in Returns \ {r} : b[s] = a[s]
    BY DEF CreditIn
  <2>3. a[r] = 0 /\ b[r] = more /\ more \in Int
    BY Amounts DEF CreditIn, Numbers
  <2> HIDE DEF a, b, more
  <2>4. Sum(b, Returns) = Sum(a, Returns) - a[r] + b[r]
    BY <2>1, <2>2, <2>3, Amounts, SumChange
  <2>5. Sum(a, Returns) \in Int
    BY <2>1, Amounts, SumInt
  <2>6. Sum(b, Returns) = Sum(a, Returns) + more
    BY <2>3, <2>4, <2>5
  <2> QED
    BY <2>6 DEF a, b, more, TotalCredit
<1> QED
  BY <1>1, <1>2, Amounts DEF TotalBack, TotalExtra, TotalOffset

(* The same of the quantities alone, which do not ask what settled debt.   *)
LEMMA BackJoins ==
    ASSUME NEW st, NEW st2, NEW r \in Returns, st[r] \notin Settled, st2[r] \in Settled,
           \A s \in Returns \ {r} : st2[s] \in Settled <=> st[s] \in Settled
    PROVE  /\ TotalBack(st2) = TotalBack(st) + Back[r]
           /\ TotalExtra(st2) = TotalExtra(st) + Extra[r]
<1> DEFINE zero == [s \in Returns |-> 0]
<1>1. zero \in Numbers /\ \A s \in Returns \ {r} : zero[s] = zero[s]
  BY DEF Numbers
<1> HIDE DEF zero
<1> QED
  BY <1>1, ReturnJoins

(* A receipt comes to stand: from rec to rec2.                             *)
LEMMA ReceiptJoins ==
    ASSUME NEW rec \in [Receipts -> ReceiptRows], NEW rec2 \in [Receipts -> ReceiptRows],
           NEW c \in Receipts, rec[c].state \notin Standing, rec2[c].state \in Standing,
           \A b \in Receipts \ {c} : rec2[b] = rec[b],
           NEW d
    PROVE  TotalPaid(rec2, d) = TotalPaid(rec, d) + IF rec2[c].of = d THEN rec2[c].amount ELSE 0
<1> DEFINE f == PaidIn(rec, d)
           g == PaidIn(rec2, d)
           more == IF rec2[c].of = d THEN rec2[c].amount ELSE 0
<1>1. \A b \in Receipts : f[b] \in Int
  BY DEF PaidIn, ReceiptRows
<1>2. \A b \in Receipts \ {c} : g[b] = f[b]
  BY DEF PaidIn
<1>3. f[c] = 0 /\ g[c] = more /\ more \in Int
  BY DEF PaidIn, ReceiptRows
<1> HIDE DEF f, g, more
<1>4. Sum(g, Receipts) = Sum(f, Receipts) - f[c] + g[c]
  BY <1>1, <1>2, <1>3, Amounts, SumChange
<1>5. Sum(f, Receipts) \in Int
  BY <1>1, Amounts, SumInt
<1>6. Sum(g, Receipts) = Sum(f, Receipts) + more
  BY <1>3, <1>4, <1>5
<1> QED
  BY <1>6 DEF f, g, more, TotalPaid

(* One debt's row changes. *)
LEMMA DebtChanges ==
    ASSUME NEW rows \in [Documents -> DebtRows], NEW rows2 \in [Documents -> DebtRows],
           NEW d \in Documents, \A e \in Documents \ {d} : rows2[e].left = rows[e].left
    PROVE  TotalLeft(rows2) = TotalLeft(rows) - rows[d].left + rows2[d].left
<1>1. \A e \in Documents : LeftIn(rows)[e] \in Int /\ LeftIn(rows2)[e] \in Int
  BY DEF LeftIn, DebtRows
<1>2. \A e \in Documents \ {d} : LeftIn(rows2)[e] = LeftIn(rows)[e]
  BY DEF LeftIn
<1>3. LeftIn(rows)[d] = rows[d].left /\ LeftIn(rows2)[d] = rows2[d].left
  BY DEF LeftIn
<1> QED
  BY <1>1, <1>2, <1>3, Amounts, SumChange DEF TotalLeft

(* The sale's row and a return's change.                                   *)
LEMMA TwoDebtsChange ==
    ASSUME NEW rows \in [Documents -> DebtRows], NEW rows2 \in [Documents -> DebtRows],
           NEW r \in Returns, \A e \in Documents \ {r, Sale} : rows2[e].left = rows[e].left
    PROVE  TotalLeft(rows2) =
               TotalLeft(rows) - rows[Sale].left + rows2[Sale].left - rows[r].left + rows2[r].left
<1> DEFINE mid == [rows EXCEPT ![Sale] = rows2[Sale]]
<1>1. Sale \in Documents /\ r \in Documents /\ r # Sale
  BY Amounts DEF Documents
<1>2. mid \in [Documents -> DebtRows] /\ mid[Sale] = rows2[Sale] /\ mid[r] = rows[r]
  BY <1>1
<1>3. \A e \in Documents \ {Sale} : mid[e].left = rows[e].left
  BY <1>1
<1>4. \A e \in Documents \ {r} : rows2[e].left = mid[e].left
  BY <1>1
<1> HIDE DEF mid
<1>5. TotalLeft(mid) = TotalLeft(rows) - rows[Sale].left + mid[Sale].left
  BY <1>1, <1>2, <1>3, DebtChanges
<1>6. TotalLeft(rows2) = TotalLeft(mid) - mid[r].left + rows2[r].left
  BY <1>1, <1>2, <1>4, DebtChanges
<1>7. mid[Sale].left = rows2[Sale].left /\ mid[r].left = rows[r].left
  BY <1>2
<1>8. TotalLeft(rows) \in Int /\ \A d \in Documents : rows[d].left \in Int /\ rows2[d].left \in Int
  BY TotalsAreNat DEF DebtRows
<1> QED
  BY <1>1, <1>5, <1>6, <1>7, <1>8

-----------------------------------------------------------------------------
(* What a payment or an offset makes of a debt's row, and what taking one  *)
(* back makes of it.                                                       *)
LEMMA ReducedRow ==
    ASSUME NEW row \in DebtRows, row.left + row.paid <= row.owed,
           NEW n \in Nat, n <= row.left
    PROVE  /\ Reduced(row, n) \in DebtRows
           /\ Reduced(row, n).owed = row.owed
           /\ Reduced(row, n).paid = row.paid + n
           /\ Reduced(row, n).left = row.owed - (row.paid + n)
<1>1. row.owed \in Nat /\ row.paid \in Int /\ row.left \in Nat /\ row.open \in BOOLEAN
  BY DEF DebtRows
<1>2. Positive(row.owed - (row.paid + n)) = row.owed - (row.paid + n)
      /\ row.owed - (row.paid + n) \in Nat /\ row.paid + n \in Int
  BY <1>1 DEF Positive
<1> QED
  BY <1>1, <1>2 DEF Reduced, DebtRows

(* Taking a receipt back gives a debt row what the receipt had paid.       *)
LEMMA RestoredRow ==
    ASSUME NEW row \in DebtRows, row.left + row.paid <= row.owed,
           NEW n \in Int, row.paid - n <= row.owed
    PROVE  /\ Restored(row, n) \in DebtRows
           /\ Restored(row, n).owed = row.owed
           /\ Restored(row, n).paid = row.paid - n
           /\ Restored(row, n).left = row.owed - (row.paid - n)
<1>1. row.owed \in Nat /\ row.paid \in Int /\ row.left \in Nat /\ row.open \in BOOLEAN
  BY DEF DebtRows
<1>2. row.owed - (row.paid - n) \in Nat /\ row.paid - n \in Int
  BY <1>1
<1> QED
  BY <1>1, <1>2 DEF Restored, DebtRows

-----------------------------------------------------------------------------
(* What the invariant says, with the sums as totals.                       *)
LEMMA InvFacts ==
    ASSUME AfterSaleInv
    PROVE  /\ ReturnsHold(status, returned)
           /\ DebtsHold(status, offset, receipt, debt, overwritten)
           /\ MoneyHolds(status, offset, debt, overwritten, returned, taken - given - undone)
           /\ debt \in [Documents -> DebtRows] /\ offset \in Numbers
           /\ receipt \in [Receipts -> ReceiptRows]
           /\ Sale \in Documents /\ Returns \subseteq Documents
           /\ \A d \in Documents :
                 /\ debt[d].owed \in Nat /\ debt[d].paid \in Int /\ debt[d].left \in Nat
                 /\ debt[d].left + debt[d].paid <= debt[d].owed
                 /\ TotalPaid(receipt, d) \in Nat
           /\ TotalOffset(status, offset) \in Nat /\ TotalLeft(debt) \in Nat
           /\ TotalBack(status) \in Nat /\ TotalExtra(status) \in Nat
           /\ TotalCredit(status, offset) \in Int
<1>1. debt \in [Documents -> DebtRows] /\ offset \in Numbers /\ receipt \in [Receipts -> ReceiptRows]
  BY DEF AfterSaleInv, AfterSaleTypeOK, Numbers, ReceiptRows
<1>2. \A d \in Documents : /\ debt[d].owed \in Nat /\ debt[d].paid \in Int /\ debt[d].left \in Nat
                           /\ debt[d].left + debt[d].paid <= debt[d].owed
  BY <1>1 DEF DebtRows, AfterSaleInv, Rows
<1> QED
  BY <1>1, <1>2, InvariantsNow, TotalsAreNat DEF AfterSaleInv, Documents

(* The invariant after a step, with the sums as totals.                    *)
LEMMA InvNext ==
    ASSUME AfterSaleTypeOK', RequestsFresh', ReturnRows', Rows',
           ReturnsHold(status', returned'),
           DebtsHold(status', offset', receipt', debt', overwritten'),
           MoneyHolds(status', offset', debt', overwritten', returned', taken' - given' - undone')
    PROVE  AfterSaleInv'
  BY InvariantsNext DEF AfterSaleInv

\* What the decisions of the other requests rest on survives a step.
DocumentKept(d) ==
    /\ status[d] = "draft" => status'[d] = "draft"
    /\ status[d] = "cancelled" => status'[d] = "cancelled"
    /\ status[d] \in Settled => status'[d] \in Settled

RowKept(d) == debt'[d].owed = debt[d].owed

RequestRecords ==
    [does : {"nothing", "checkout", "cancel", "pay"}, on : Documents,
     debt : DebtRows, owing : BOOLEAN, amount : Nat]

(* A request ends: the others are as fresh as they were.                   *)
LEMMA EndKeeps ==
    ASSUME AfterSaleInv, NEW q \in Requests, Busy(q), End(q), overwritten \subseteq overwritten',
           \A d \in Documents : d # request[q].on => DocumentKept(d) /\ RowKept(d)
    PROVE  RequestsFresh' /\ request' \in [Requests -> RequestRecords]
<1>1. request' = [request EXCEPT ![q] = Idle]
  BY DEF End
<1>2. request'[q] = Idle /\ \A p \in Requests \ {q} : request'[p] = request[p]
  BY <1>1 DEF AfterSaleInv, AfterSaleTypeOK
<1>3. Idle \in RequestRecords
  BY DEF Idle, NoDebt, DebtRows, Documents, RequestRecords
<1>4. \A p \in Requests : request[p].on \in Documents
  BY DEF AfterSaleInv, AfterSaleTypeOK
<1>5. \A p \in Requests \ {q} : Busy(p) => request[p].on # request[q].on
  BY DEF AfterSaleInv, RequestsFresh
<1>6. ASSUME NEW p \in Requests
      PROVE  /\ request'[p].does = "checkout" =>
                    request'[p].on \in Returns /\ status'[request'[p].on] = "draft"
             /\ request'[p].does = "cancel" => status'[request'[p].on] \in Settled
             /\ request'[p].does = "pay" =>
                    /\ request'[p].amount \in 1..request'[p].debt.left
                    /\ request'[p].debt.left + request'[p].debt.paid <= request'[p].debt.owed
                    /\ request'[p].debt.owed = debt'[request'[p].on].owed
                    /\ Payable(request[p].on)'
  <2>1. CASE p = q
    BY <1>2, <2>1 DEF Idle
  <2>2. CASE p # q
    <3>1. Busy(p) => DocumentKept(request[p].on) /\ RowKept(request[p].on)
      BY <1>4, <1>5, <2>2
    <3>2. request'[p] = request[p]
      BY <1>2, <2>2
    <3> QED
      BY <3>1, <3>2 DEF AfterSaleInv, RequestsFresh, DocumentKept, RowKept, Busy, Payable
  <2> QED
    BY <2>1, <2>2
<1>7. \A p1, p2 \in Requests : p1 # p2 /\ Busy(p1)' /\ Busy(p2)' => request'[p1].on # request'[p2].on
  BY <1>2 DEF AfterSaleInv, RequestsFresh, Busy, Idle
<1>8. request' \in [Requests -> RequestRecords]
  BY <1>1, <1>3 DEF AfterSaleInv, AfterSaleTypeOK, RequestRecords
<1> QED
  BY <1>6, <1>7, <1>8 DEF RequestsFresh

(* Steps that count nothing: the rows and the money are as they were, and   *)
(* no return comes to stand or ceases to.                                  *)
LEMMA NothingCounted ==
    ASSUME AfterSaleInv, UNCHANGED <<upfront, offset, returned, debt, receipt, moneyVars, overwritten>>,
           \A r \in Returns : status'[r] \in Settled <=> status[r] \in Settled,
           \A d \in Documents : status'[d] = "cancelled" <=> status[d] = "cancelled"
    PROVE  /\ ReturnsHold(status', returned')
           /\ DebtsHold(status', offset', receipt', debt', overwritten')
           /\ MoneyHolds(status', offset', debt', overwritten', returned', taken' - given' - undone')
<1>1. ReturnsHold(status, returned) /\ DebtsHold(status, offset, receipt, debt, overwritten)
      /\ MoneyHolds(status, offset, debt, overwritten, returned, taken - given - undone) /\ Sale \in Documents
  BY InvFacts
<1>2. /\ TotalBack(status') = TotalBack(status) /\ TotalExtra(status') = TotalExtra(status)
      /\ TotalCredit(status', offset) = TotalCredit(status, offset)
      /\ TotalOffset(status', offset) = TotalOffset(status, offset)
  BY SameReturns
<1> QED
  BY <1>1, <1>2 DEF ReturnsHold, DebtsHold, DebtHolds, MoneyHolds, moneyVars

(* A draft of a return counts for nothing yet.                             *)
LEMMA DraftReturnKeeps ==
    ASSUME AfterSaleInv, NEW r \in Returns, DraftReturn(r)
    PROVE  AfterSaleInv'
<1>1. /\ status[r] = "none" /\ status' = [status EXCEPT ![r] = "draft"]
      /\ UNCHANGED <<totalPaid, upfront, offset, returned, debt, receipt, spent, moneyVars, request, overwritten>>
  BY DEF DraftReturn
<1>2. r \in Documents /\ r # Sale
  BY Amounts DEF Documents
<1>3. status \in [Documents -> Settled \cup {"none", "draft", "cancelled"}]
  BY DEF AfterSaleInv, AfterSaleTypeOK
<1>4. status'[r] = "draft" /\ \A d \in Documents \ {r} : status'[d] = status[d]
  BY <1>1, <1>2, <1>3
<1>5. AfterSaleTypeOK'
  BY <1>1, <1>3 DEF AfterSaleInv, AfterSaleTypeOK, moneyVars
<1>6. RequestsFresh'
  <2>1. \A q \in Requests : request[q].on \in Documents
    BY DEF AfterSaleInv, AfterSaleTypeOK
  <2> QED
    BY <1>1, <1>4, <2>1 DEF AfterSaleInv, RequestsFresh, Settled, Busy, Payable
<1>7. ReturnRows' /\ Rows'
  BY <1>1, <1>2, <1>4 DEF AfterSaleInv, ReturnRows, Rows, Settled, Documents
<1>8. \A d \in Documents : /\ status'[d] \in Settled <=> status[d] \in Settled
                           /\ status'[d] = "cancelled" <=> status[d] = "cancelled"
  BY <1>1, <1>4 DEF Settled
<1> QED
  BY <1>1, <1>5, <1>6, <1>7, <1>8, NothingCounted, InvNext DEF Documents

(* Spending a store credit moves no money between the books.               *)
LEMMA SpendCreditKeeps ==
    ASSUME AfterSaleInv, NEW r \in Returns, SpendCredit(r)
    PROVE  AfterSaleInv'
<1>1. /\ spent' = spent \cup {r}
      /\ UNCHANGED <<invoiceVars, returned, debt, receipt, moneyVars, request, overwritten>>
  BY DEF SpendCredit
<1>2. AfterSaleTypeOK' /\ RequestsFresh' /\ ReturnRows' /\ Rows'
  BY <1>1 DEF AfterSaleInv, AfterSaleTypeOK, RequestsFresh, ReturnRows, Rows, Busy,
              Payable, invoiceVars, moneyVars
<1> QED
  BY <1>1, <1>2, NothingCounted, InvNext DEF invoiceVars, moneyVars

(* A request begins, alone on its document.                                *)
LEMMA BeginKeeps ==
    ASSUME Careful, AfterSaleInv, NEW q \in Requests, NEW d \in Documents,
           NEW does \in {"checkout", "cancel", "pay"}, NEW amount \in Nat,
           Begin(q, does, d, amount),
           does = "checkout" => d \in Returns /\ status[d] = "draft",
           does = "cancel" => status[d] \in Settled,
           does = "pay" => amount \in 1..debt[d].left
    PROVE  AfterSaleInv'
<1> DEFINE t == [does |-> does, on |-> d, debt |-> debt[d],
                 owing |-> status[d] \in {"partial", "debt"}, amount |-> amount]
<1>1. /\ request' = [request EXCEPT ![q] = t]
      /\ UNCHANGED <<invoiceVars, returned, debt, receipt, spent, moneyVars, overwritten>>
      /\ \A p \in Requests \ {q} : Busy(p) => request[p].on # d
  BY DEF Begin, Alone, Busy
<1>2. t \in RequestRecords
  BY InvFacts DEF RequestRecords
<1>3. request'[q] = t /\ \A p \in Requests \ {q} : request'[p] = request[p]
  BY <1>1 DEF AfterSaleInv, AfterSaleTypeOK
<1>4. AfterSaleTypeOK'
  BY <1>1, <1>2 DEF AfterSaleInv, AfterSaleTypeOK, RequestRecords, invoiceVars, moneyVars
<1>5. RequestsFresh'
  <2>1. status' = status /\ debt' = debt /\ overwritten' = overwritten
    BY <1>1 DEF invoiceVars
  <2>2. ASSUME does = "pay"
        PROVE  /\ amount \in 1..debt[d].left
               /\ debt[d].left + debt[d].paid <= debt[d].owed
               /\ Payable(d)
    <3>1. debt[d].left > 0 /\ debt[d].left + debt[d].paid <= debt[d].owed
      BY <2>2, InvFacts
    <3>2. status[d] \in Settled \cup {"none", "draft", "cancelled"}
      BY DEF AfterSaleInv, AfterSaleTypeOK
    <3>3. d \in Returns => status[d] \notin {"none", "draft"}
                            /\ (status[d] = "cancelled" => d \in overwritten)
      BY <3>1 DEF AfterSaleInv, ReturnRows, NoDebt
    <3> QED
      BY <2>2, <3>1, <3>2, <3>3 DEF Payable
  <2>3. \A p \in Requests :
          /\ request'[p].does = "checkout" => request'[p].on \in Returns /\ status[request'[p].on] = "draft"
          /\ request'[p].does = "cancel" => status[request'[p].on] \in Settled
          /\ request'[p].does = "pay" =>
                /\ request'[p].amount \in 1..request'[p].debt.left
                /\ request'[p].debt.left + request'[p].debt.paid <= request'[p].debt.owed
                /\ request'[p].debt.owed = debt[request'[p].on].owed
                /\ Payable(request'[p].on)
    BY <1>3, <2>2 DEF AfterSaleInv, RequestsFresh
  <2>4. \A p1, p2 \in Requests : p1 # p2 /\ Busy(p1)' /\ Busy(p2)' => request'[p1].on # request'[p2].on
    BY <1>1, <1>3 DEF AfterSaleInv, RequestsFresh, Busy
  <2> QED
    BY <2>1, <2>3, <2>4 DEF RequestsFresh, Payable
<1>6. ReturnRows' /\ Rows'
  BY <1>1 DEF AfterSaleInv, ReturnRows, Rows, invoiceVars
<1> QED
  BY <1>1, <1>4, <1>5, <1>6, NothingCounted, InvNext DEF invoiceVars, moneyVars

(* A request that is refused changes none of the books.                    *)
LEMMA RefusedKeeps ==
    ASSUME AfterSaleInv, NEW q \in Requests, Refused(q)
    PROVE  AfterSaleInv'
<1>1. /\ Busy(q) /\ End(q)
      /\ UNCHANGED <<invoiceVars, returned, debt, receipt, spent, moneyVars, overwritten>>
  BY DEF Refused, Busy
<1>2. \A d \in Documents : DocumentKept(d) /\ RowKept(d)
  BY <1>1 DEF DocumentKept, RowKept, invoiceVars
<1>3. RequestsFresh' /\ AfterSaleTypeOK'
  BY <1>1, <1>2, EndKeeps DEF AfterSaleInv, AfterSaleTypeOK, RequestRecords, invoiceVars, moneyVars
<1>4. ReturnRows' /\ Rows'
  BY <1>1 DEF AfterSaleInv, ReturnRows, Rows, invoiceVars
<1> QED
  BY <1>1, <1>3, <1>4, NothingCounted, InvNext DEF invoiceVars, moneyVars

-----------------------------------------------------------------------------
(* Nothing to count sums to zero.                                          *)
LEMMA SumZero ==
    ASSUME NEW S, IsFiniteSet(S), NEW f, \A x \in S : f[x] = 0
    PROVE  Sum(f, S) = 0
<1>1. \A x \in S : f[x] = IF x \in {} THEN f[x] ELSE 0
  OBVIOUS
<1>2. Sum(f, {}) = Sum(f, S)
  BY <1>1, SumFiltered
<1> QED
  BY <1>2, SumEmpty

(* The sale has just been checked out, and what was not paid of it is owed. *)
LEMMA AfterSaleInit == Init => AfterSaleInv
<1> SUFFICES ASSUME Init PROVE AfterSaleInv
  OBVIOUS
<1>1. PICK paid \in 0..Sold :
        /\ status = [d \in Documents |-> IF d = Sale THEN IssuedAs(Sold, paid) ELSE "none"]
        /\ upfront = [d \in Documents |-> IF d = Sale THEN paid ELSE 0]
        /\ totalPaid = upfront
        /\ offset = [r \in Returns |-> 0]
        /\ returned = 0
        /\ debt = [d \in Documents |-> IF d = Sale THEN DebtOf(Sold - paid) ELSE NoDebt]
        /\ receipt = [c \in Receipts |-> NoReceipt]
        /\ spent = {}
        /\ taken = paid /\ given = 0 /\ undone = 0
        /\ request = [q \in Requests |-> Idle]
        /\ overwritten = {}
  BY DEF Init
<1>2. Sold \in Nat /\ paid \in Nat /\ Sold - paid \in Nat /\ Sale \notin Returns
      /\ Sale \in Documents /\ Returns \subseteq Documents
  BY Amounts DEF Documents
<1>3. NoDebt \in DebtRows /\ NoDebt.left = 0 /\ NoDebt.paid = 0 /\ NoDebt.owed = 0
  BY DEF NoDebt, DebtRows
<1>4. /\ DebtOf(Sold - paid) \in DebtRows
      /\ DebtOf(Sold - paid).owed = Sold - paid /\ DebtOf(Sold - paid).left = Sold - paid
      /\ DebtOf(Sold - paid).paid = 0
  BY <1>2 DEF DebtOf, DebtRows, NoDebt
<1>5. IssuedAs(Sold, paid) \in Settled
  BY DEF IssuedAs, Settled
<1>6. AfterSaleTypeOK
  <2>1. Idle \in RequestRecords
    BY <1>2, <1>3 DEF Idle, RequestRecords
  <2>2. NoReceipt \in [of : Documents, amount : Nat, state : {"none", "posted", "reversed", "counter"}]
    BY <1>2 DEF NoReceipt
  <2> HIDE DEF DebtRows
  <2>3. status \in [Documents -> Settled \cup {"none", "draft", "cancelled"}]
    BY <1>1, <1>5
  <2>4. debt \in [Documents -> DebtRows]
    BY <1>1, <1>3, <1>4
  <2> QED
    BY <1>1, <1>2, <2>1, <2>2, <2>3, <2>4 DEF AfterSaleTypeOK, RequestRecords
<1>7. RequestsFresh
  BY <1>1 DEF RequestsFresh, Busy, Idle
<1>8. \A r \in Returns : status[r] = "none" /\ debt[r] = NoDebt /\ offset[r] = 0
  BY <1>1, <1>2
<1>9. status[Sale] \in Settled /\ debt[Sale] = DebtOf(Sold - paid)
  BY <1>1, <1>2, <1>5
<1>10. ReturnRows
  <2>1. overwritten = {} /\ \A r \in Returns : Refund(r) \in Nat
    BY <1>1, Amounts
  <2> QED
    BY <1>8, <2>1 DEF ReturnRows, Settled
<1>11. Rows
  <2>1. \A d \in Documents : debt[d].left + debt[d].paid <= debt[d].owed
    BY <1>2, <1>3, <1>4, <1>8, <1>9 DEF Documents
  <2>2. \A c \in Receipts : receipt[c].state \notin Standing
    BY <1>1 DEF NoReceipt, Standing
  <2> QED
    BY <1>9, <2>1, <2>2 DEF Rows
<1>12. /\ TotalBack(status) = 0 /\ TotalExtra(status) = 0 /\ TotalCredit(status, offset) = 0
       /\ TotalOffset(status, offset) = 0
  <2>1. \A f : \A r \in Returns : Counted(status, f)[r] = 0
    BY <1>8 DEF Counted, Settled
  <2>2. \A r \in Returns : CreditIn(status, offset)[r] = 0
    BY <1>8 DEF CreditIn, Settled
  <2>3. \A f : Sum(Counted(status, f), Returns) = 0
    BY <2>1, Amounts, SumZero
  <2>4. Sum(CreditIn(status, offset), Returns) = 0
    BY <2>2, Amounts, SumZero
  <2> QED
    BY <2>3, <2>4 DEF TotalBack, TotalExtra, TotalCredit, TotalOffset
<1>13. \A d : TotalPaid(receipt, d) = 0
  <2>1. \A d : \A c \in Receipts : PaidIn(receipt, d)[c] = 0
    BY <1>1 DEF PaidIn, NoReceipt, Standing
  <2> QED
    BY <2>1, Amounts, SumZero DEF TotalPaid
<1>14. TotalLeft(debt) = Sold - paid
  <2>1. \A d \in Documents : LeftIn(debt)[d] = IF d \in {Sale} THEN Sold - paid ELSE 0
    BY <1>2, <1>3, <1>4, <1>8, <1>9 DEF LeftIn, Documents
  <2>2. \A d \in {Sale} : LeftIn(debt)[d] \in Int
    BY <1>2, <2>1
  <2>3. \A d \in Documents : LeftIn(debt)[d] = IF d \in {Sale} THEN LeftIn(debt)[d] ELSE 0
    BY <2>1
  <2>4. Sum(LeftIn(debt), {Sale}) = Sum(LeftIn(debt), Documents)
    BY <1>2, <2>2, <2>3, Amounts, SumFiltered
  <2>5. Sum(LeftIn(debt), {Sale}) = LeftIn(debt)[Sale]
    BY <2>2, SumOne
  <2> QED
    BY <1>2, <2>1, <2>4, <2>5 DEF TotalLeft
<1>15. ReturnsHold(status, returned)
  BY <1>1, <1>2, <1>12 DEF ReturnsHold
<1>16. DebtsHold(status, offset, receipt, debt, overwritten)
  BY <1>2, <1>3, <1>4, <1>8, <1>9, <1>12, <1>13 DEF DebtsHold, DebtHolds, Documents
<1>17. MoneyHolds(status, offset, debt, overwritten, returned, taken - given - undone)
  BY <1>1, <1>2, <1>12, <1>14 DEF MoneyHolds
<1> QED
  BY <1>6, <1>7, <1>10, <1>11, <1>15, <1>16, <1>17, InvariantsNow DEF AfterSaleInv

-----------------------------------------------------------------------------
(* A return or an exchange is checked out: it comes to stand, what it takes *)
(* back is counted, part of its refund settles the sale's debt and what is  *)
(* not paid of an exchange is owed.                                        *)
LEMMA CheckOutKeeps ==
    ASSUME AfterSaleInv, NEW q \in Requests, CheckOut(q)
    PROVE  AfterSaleInv'
<1> DEFINE r == request[q].on
           row == debt[Sale]
           part == OffsetFor(row, Refund(r))
           net == NetAmount(r)
<1>1. /\ request[q].does = "checkout" /\ StillOut(r)
      /\ returned' = returned + Back[r]
      /\ offset' = [offset EXCEPT ![r] = part]
      /\ given' = given + CashOut(r, part)
      /\ End(q)
      /\ UNCHANGED <<receipt, spent, undone, overwritten>>
  BY DEF CheckOut
<1>2. PICK paid \in 0..net :
        /\ status' = [status EXCEPT ![r] = IssuedAs(net, paid)]
        /\ upfront' = [upfront EXCEPT ![r] = paid]
        /\ totalPaid' = [totalPaid EXCEPT ![r] = paid]
        /\ debt' = [debt EXCEPT ![Sale] = IF part = 0 THEN @ ELSE Reduced(@, part),
                                ![r] = DebtOf(net - paid)]
        /\ taken' = taken + paid
  BY DEF CheckOut
<1>3. r \in Returns /\ status[r] = "draft" /\ debt[r] = NoDebt
  BY <1>1 DEF AfterSaleInv, RequestsFresh, ReturnRows
<1>4. Sale \in Documents /\ r \in Documents /\ r # Sale /\ Returns \subseteq Documents
  BY <1>3, Amounts DEF Documents
<1>5. Refund(r) \in Nat /\ net \in Nat /\ Refund(r) - net = Back[r] - Extra[r]
      /\ Back[r] \in Nat /\ Extra[r] \in Nat /\ Sold \in Nat
  BY <1>3, Amounts DEF Numbers
<1>6. row \in DebtRows /\ row.owed \in Nat /\ row.paid \in Int /\ row.left \in Nat
      /\ row.left + row.paid <= row.owed
  BY <1>4, InvFacts
<1>7. part \in Nat /\ part <= Refund(r) /\ part <= row.left
  BY <1>5, <1>6 DEF OffsetFor
<1>8. paid \in Nat /\ net - paid \in Nat
  BY <1>5
<1> DEFINE sale2 == IF part = 0 THEN row ELSE Reduced(row, part)
           own2 == DebtOf(net - paid)
<1>9. /\ sale2 \in DebtRows /\ sale2.owed = row.owed /\ sale2.paid = row.paid + part
      /\ sale2.left \in Nat /\ sale2.left + sale2.paid <= sale2.owed
      /\ row.left = row.owed - row.paid => sale2.left = row.left - part
  <2> HIDE DEF part, row, r
  <2>1. CASE part = 0
    BY <1>6, <2>1
  <2>2. CASE part # 0
    <3>1. /\ sale2 \in DebtRows /\ sale2.owed = row.owed /\ sale2.paid = row.paid + part
          /\ sale2.left = row.owed - (row.paid + part)
      BY <1>6, <1>7, <2>2, ReducedRow
    <3> HIDE DEF sale2
    <3> QED
      BY <1>6, <1>7, <3>1
  <2> QED
    BY <2>1, <2>2
<1>10. own2 \in DebtRows /\ own2.owed = net - paid /\ own2.paid = 0 /\ own2.left = net - paid
  BY <1>8 DEF DebtOf, NoDebt, DebtRows
<1>11. IssuedAs(net, paid) \in Settled
  BY DEF IssuedAs, Settled
<1>12. CashOut(r, part) \in Nat /\
       CashOut(r, part) = IF Method[r] = "credit" THEN 0 ELSE Refund(r) - part
  <2>1. Method[r] \in {"cash", "credit"}
    BY <1>3, AfterSaleAssumption
  <2> QED
    BY <1>5, <1>7, <2>1 DEF CashOut
<1> HIDE DEF part, net
<1>13. /\ status \in [Documents -> Settled \cup {"none", "draft", "cancelled"}]
       /\ debt \in [Documents -> DebtRows] /\ offset \in Numbers
       /\ totalPaid \in [Documents -> Nat] /\ upfront \in [Documents -> Nat]
       /\ returned \in Nat /\ taken \in Nat /\ given \in Nat /\ undone \in Nat
       /\ receipt \in [Receipts -> ReceiptRows]
  BY InvFacts DEF AfterSaleInv, AfterSaleTypeOK
<1>14. /\ status'[r] \in Settled /\ debt'[r] = own2 /\ offset'[r] = part /\ upfront'[r] = paid
       /\ debt'[Sale] = sale2
       /\ \A d \in Documents \ {r} : status'[d] = status[d] /\ upfront'[d] = upfront[d]
       /\ \A d \in Documents \ {r, Sale} : debt'[d] = debt[d]
       /\ \A s \in Returns \ {r} : offset'[s] = offset[s]
  <2> HIDE DEF r
  <2>1. debt'[r] = own2 /\ debt'[Sale] = sale2 /\ \A d \in Documents \ {r, Sale} : debt'[d] = debt[d]
    BY <1>2, <1>4, <1>13
  <2>2. offset'[r] = part /\ \A s \in Returns \ {r} : offset'[s] = offset[s]
    BY <1>1, <1>3, <1>13 DEF Numbers
  <2>3. status'[r] \in Settled /\ upfront'[r] = paid
        /\ \A d \in Documents \ {r} : status'[d] = status[d] /\ upfront'[d] = upfront[d]
    BY <1>2, <1>4, <1>11, <1>13
  <2> QED
    BY <2>1, <2>2, <2>3
<1>15. debt' \in [Documents -> DebtRows] /\ offset' \in Numbers
  <2> HIDE DEF r
  <2> QED
    BY <1>1, <1>2, <1>7, <1>9, <1>10, <1>13 DEF Numbers
<1> HIDE DEF sale2, own2
<1>16. RequestsFresh' /\ request' \in [Requests -> RequestRecords]
  <2>1. Busy(q) /\ \A d \in Documents : d # r => DocumentKept(d) /\ RowKept(d)
    BY <1>1, <1>9, <1>14 DEF Busy, DocumentKept, RowKept
  <2> QED
    BY <1>1, <2>1, EndKeeps
<1>17. AfterSaleTypeOK'
  <2>1. status' \in [Documents -> Settled \cup {"none", "draft", "cancelled"}]
        /\ totalPaid' \in [Documents -> Nat] /\ upfront' \in [Documents -> Nat]
    BY <1>2, <1>8, <1>11, <1>13
  <2>2. returned' \in Nat /\ taken' \in Nat /\ given' \in Nat /\ undone' \in Nat
    BY <1>1, <1>2, <1>5, <1>8, <1>12, <1>13
  <2>3. receipt' = receipt /\ spent' = spent
    BY <1>1
  <2> QED
    BY <1>1, <1>15, <1>16, <2>1, <2>2, <2>3 DEF AfterSaleInv, AfterSaleTypeOK, RequestRecords, Numbers
<1>18. ReturnRows'
  <2>1. ASSUME NEW s \in Returns
        PROVE /\ offset'[s] <= Refund(s)
              /\ status'[s] \in {"none", "draft"} => debt'[s] = NoDebt /\ s \notin overwritten
              /\ status'[s] \in Settled => debt'[s].owed + upfront'[s] = NetAmount(s)
              /\ status'[s] = "cancelled" /\ s \notin overwritten => debt'[s].left = 0 /\ debt'[s].paid = 0
    <3>1. CASE s = r
      BY <1>5, <1>7, <1>8, <1>10, <1>14, <3>1 DEF Settled, net
    <3>2. CASE s # r
      <4>1. s \in Documents \ {r, Sale}
        BY <1>4, <3>2, Amounts
      <4> QED
        BY <1>14, <3>2, <4>1 DEF AfterSaleInv, ReturnRows
    <3> QED
      BY <3>1, <3>2
  <2> QED
    BY <1>1, <2>1 DEF ReturnRows
<1>19. Rows'
  <2>1. ASSUME NEW d \in Documents PROVE debt'[d].left + debt'[d].paid <= debt'[d].owed
    <3>1. CASE d = r
      BY <1>8, <1>10, <1>14, <3>1
    <3>2. CASE d # r
      BY <1>9, <1>14, <3>2, InvFacts
    <3> QED
      BY <3>1, <3>2
  <2>2. status'[Sale] = status[Sale] /\ receipt' = receipt
    BY <1>1, <1>4, <1>14
  <2> QED
    BY <2>1, <2>2 DEF AfterSaleInv, Rows
<1>20. /\ TotalBack(status') = TotalBack(status) + Back[r]
       /\ TotalExtra(status') = TotalExtra(status) + Extra[r]
       /\ TotalOffset(status', offset') = TotalOffset(status, offset) + part
       /\ TotalCredit(status', offset') =
              TotalCredit(status, offset) + IF Method[r] = "credit" THEN Refund(r) - part ELSE 0
  <2>1. status[r] \notin Settled /\ \A s \in Returns \ {r} : status'[s] \in Settled <=> status[s] \in Settled
    BY <1>3, <1>4, <1>14 DEF Settled
  <2>2. status'[r] \in Settled /\ offset'[r] = part /\ \A s \in Returns \ {r} : offset'[s] = offset[s]
    BY <1>14
  <2>3. offset \in Numbers /\ offset' \in Numbers /\ r \in Returns
    BY <1>3, <1>13, <1>15
  <2> HIDE DEF r, part
  <2>4. ASSUME NEW st2, NEW off2, st2 = status', off2 = offset'
        PROVE  /\ TotalOffset(st2, off2) = TotalOffset(status, offset) + off2[r]
               /\ TotalCredit(st2, off2) =
                      TotalCredit(status, offset) + IF Method[r] = "credit" THEN Refund(r) - off2[r] ELSE 0
    <3>1. st2[r] \in Settled /\ off2 \in Numbers /\ \A s \in Returns \ {r} : off2[s] = offset[s]
      BY <2>2, <2>3, <2>4
    <3>2. status[r] \notin Settled /\ \A s \in Returns \ {r} : st2[s] \in Settled <=> status[s] \in Settled
      BY <2>1, <2>4
    <3> QED
      BY <2>3, <3>1, <3>2, ReturnJoins
  <2>5. /\ TotalOffset(status', offset') = TotalOffset(status, offset) + offset'[r]
        /\ TotalCredit(status', offset') =
               TotalCredit(status, offset) + IF Method[r] = "credit" THEN Refund(r) - offset'[r] ELSE 0
    BY <2>4
  <2> QED
    BY <2>1, <2>2, <2>3, <2>5, ReturnJoins
<1>21. TotalLeft(debt') = TotalLeft(debt) - row.left + sale2.left + (net - paid)
  <2>1. debt[r].left = 0 /\ debt'[r].left = net - paid
    BY <1>3, <1>10, <1>14 DEF NoDebt
  <2>2. \A e \in Documents \ {r, Sale} : debt'[e].left = debt[e].left
    BY <1>14
  <2> HIDE DEF r
  <2>3. TotalLeft(debt') =
               TotalLeft(debt) - debt[Sale].left + debt'[Sale].left - debt[r].left + debt'[r].left
    BY <1>3, <1>13, <1>15, <2>2, TwoDebtsChange
  <2>4. TotalLeft(debt) \in Nat
    BY InvFacts
  <2> QED
    BY <1>6, <1>8, <1>9, <1>14, <2>1, <2>3, <2>4
<1>22. ReturnsHold(status', returned')
  BY <1>1, <1>5, <1>20, InvFacts DEF ReturnsHold, StillOut
<1>23. DebtsHold(status', offset', receipt', debt', overwritten')
  <2>1. ASSUME NEW d \in Documents \ overwritten
        PROVE  /\ debt'[d].paid = TotalPaid(receipt, d)
                                    + IF d = Sale THEN TotalOffset(status', offset') ELSE 0
               /\ debt'[d].paid <= debt'[d].owed
               /\ status'[d] # "cancelled" => debt'[d].left = debt'[d].owed - debt'[d].paid
    <3>0. /\ debt[d].paid = TotalPaid(receipt, d) + IF d = Sale THEN TotalOffset(status, offset) ELSE 0
          /\ debt[d].paid <= debt[d].owed
          /\ status[d] # "cancelled" => debt[d].left = debt[d].owed - debt[d].paid
          /\ TotalPaid(receipt, d) \in Nat /\ TotalOffset(status, offset) \in Nat
      BY InvFacts DEF DebtsHold, DebtHolds
    <3>1. CASE d = Sale
      BY <1>4, <1>6, <1>7, <1>9, <1>14, <1>20, <3>0, <3>1
    <3>2. CASE d = r
      <4>1. TotalPaid(receipt, r) = 0
        BY <1>3, <1>4, <3>0, <3>2 DEF NoDebt
      <4> QED
        BY <1>4, <1>8, <1>10, <1>14, <3>2, <4>1
    <3>3. CASE d # r /\ d # Sale
      BY <1>14, <3>0, <3>3
    <3> QED
      BY <3>1, <3>2, <3>3
  <2> QED
    BY <1>1, <2>1 DEF DebtsHold, DebtHolds
<1>24. MoneyHolds(status', offset', debt', overwritten', returned', taken' - given' - undone')
  <2> SUFFICES ASSUME overwritten = {}, status[Sale] # "cancelled"
               PROVE  taken' - given' - undone' - TotalCredit(status', offset') + TotalLeft(debt')
                      = Sold - returned' + TotalExtra(status')
    BY <1>1, <1>4, <1>14 DEF MoneyHolds
  <2>1. row.left = row.owed - row.paid
    BY <1>4, InvFacts DEF DebtsHold, DebtHolds
  <2>2. sale2.left = row.left - part
    BY <1>9, <2>1
  <2>3. taken - given - undone - TotalCredit(status, offset) + TotalLeft(debt)
          = Sold - returned + TotalExtra(status)
    BY InvFacts DEF MoneyHolds
  <2>4. TotalLeft(debt) \in Nat /\ TotalExtra(status) \in Nat /\ TotalCredit(status, offset) \in Int
    BY InvFacts
  <2>5. TotalLeft(debt') = TotalLeft(debt) - part + (net - paid)
    BY <1>6, <1>7, <1>8, <1>21, <2>2, <2>4
  <2>6. taken' = taken + paid /\ given' = given + CashOut(r, part) /\ undone' = undone
        /\ returned' = returned + Back[r]
    BY <1>1, <1>2
  <2> HIDE DEF r, row
  <2>7. CASE Method[r] = "credit"
    BY <1>5, <1>7, <1>8, <1>12, <1>13, <1>20, <2>3, <2>4, <2>5, <2>6, <2>7
  <2>8. CASE Method[r] # "credit"
    BY <1>5, <1>7, <1>8, <1>12, <1>13, <1>20, <2>3, <2>4, <2>5, <2>6, <2>8
  <2> QED
    BY <2>7, <2>8
<1> QED
  BY <1>16, <1>17, <1>18, <1>19, <1>22, <1>23, <1>24, InvNext

(* A return or an exchange is cancelled: it stands no longer, and what it   *)
(* counted, settled, paid and owed is taken back.                          *)
LEMMA CancelReturnKeeps ==
    ASSUME AfterSaleInv, NEW q \in Requests, CancelReturn(q)
    PROVE  AfterSaleInv'
<1> DEFINE r == request[q].on
           row == debt[Sale]
           put == offset[r]
           sale2 == IF put = 0 THEN row ELSE Restored(row, put)
           own2 == [debt[r] EXCEPT !.left = 0, !.open = FALSE]
<1>1. /\ request[q].does = "cancel" /\ r \in Returns /\ Revocable(r)
      /\ status' = [status EXCEPT ![r] = "cancelled"]
      /\ returned' = returned - Back[r]
      /\ taken' = taken + CashOut(r, put)
      /\ given' = given + upfront[r]
      /\ End(q)
      /\ UNCHANGED <<totalPaid, upfront, offset, receipt, spent, undone, overwritten>>
  BY DEF CancelReturn
<1>2. status[r] \in Settled
  BY <1>1 DEF AfterSaleInv, RequestsFresh
<1>3. debt' = [debt EXCEPT ![Sale] = IF put = 0 THEN @ ELSE Restored(@, put),
                           ![r] = [@ EXCEPT !.left = 0, !.open = FALSE]]
  BY <1>2 DEF CancelReturn, PutBack
<1>4. Sale \in Documents /\ r \in Documents /\ r # Sale /\ Returns \subseteq Documents
  BY <1>1, Amounts DEF Documents
<1>5. Refund(r) \in Nat /\ NetAmount(r) \in Nat /\ Refund(r) - NetAmount(r) = Back[r] - Extra[r]
      /\ Back[r] \in Nat /\ Extra[r] \in Nat /\ Sold \in Nat
  BY <1>1, Amounts DEF Numbers
<1>6. /\ status \in [Documents -> Settled \cup {"none", "draft", "cancelled"}]
      /\ debt \in [Documents -> DebtRows] /\ offset \in Numbers
      /\ totalPaid \in [Documents -> Nat] /\ upfront \in [Documents -> Nat]
      /\ returned \in Nat /\ taken \in Nat /\ given \in Nat /\ undone \in Nat
      /\ receipt \in [Receipts -> ReceiptRows]
  BY InvFacts DEF AfterSaleInv, AfterSaleTypeOK
<1>7. row \in DebtRows /\ row.owed \in Nat /\ row.paid \in Int /\ row.left \in Nat
      /\ row.left + row.paid <= row.owed
      /\ TotalPaid(receipt, Sale) \in Nat /\ TotalOffset(status, offset) \in Nat
  BY <1>4, InvFacts
<1>8. put \in Nat /\ put <= Refund(r)
  BY <1>1, <1>6 DEF AfterSaleInv, ReturnRows, Numbers
<1>9. upfront[r] \in Nat /\ debt[r] \in DebtRows /\ debt[r].paid = 0
      /\ debt[r].owed \in Nat /\ debt[r].left \in Nat
      /\ (r \notin overwritten =>
            debt[r].left = NetAmount(r) - upfront[r] /\ TotalPaid(receipt, r) = 0)
  <2>1. debt[r].paid = 0
    BY <1>1 DEF Revocable
  <2>2. debt[r].owed + upfront[r] = NetAmount(r)
    BY <1>1, <1>2 DEF AfterSaleInv, ReturnRows
  <2>3. r \notin overwritten =>
           debt[r].left = debt[r].owed - debt[r].paid /\ debt[r].paid = TotalPaid(receipt, r) + 0
    BY <1>2, <1>4, InvFacts DEF DebtsHold, DebtHolds, Settled
  <2>4. upfront[r] \in Nat /\ debt[r] \in DebtRows /\ debt[r].owed \in Nat /\ debt[r].left \in Nat
        /\ TotalPaid(receipt, r) \in Nat
    BY <1>4, <1>6, InvFacts DEF DebtRows
  <2> HIDE DEF r
  <2> QED
    BY <2>1, <2>2, <2>3, <2>4
<1>10. /\ sale2 \in DebtRows /\ sale2.owed = row.owed /\ sale2.paid = row.paid - put
       /\ sale2.left \in Nat /\ sale2.left + sale2.paid <= sale2.owed
       /\ row.left = row.owed - row.paid => sale2.left = row.left + put
  <2> HIDE DEF put, row
  <2>1. CASE put = 0
    BY <1>7, <2>1
  <2>2. CASE put # 0
    <3>1. /\ sale2 \in DebtRows /\ sale2.owed = row.owed /\ sale2.paid = row.paid - put
          /\ sale2.left = row.owed - (row.paid - put)
      BY <1>7, <1>8, <2>2, RestoredRow
    <3> HIDE DEF sale2
    <3> QED
      BY <1>7, <1>8, <3>1
  <2> QED
    BY <2>1, <2>2
<1>11. own2 \in DebtRows /\ own2.owed = debt[r].owed /\ own2.paid = 0 /\ own2.left = 0 /\ own2.open = FALSE
  BY <1>9 DEF DebtRows
<1>12. CashOut(r, put) \in Nat /\
       CashOut(r, put) = IF Method[r] = "credit" THEN 0 ELSE Refund(r) - put
  <2>1. Method[r] \in {"cash", "credit"}
    BY <1>1, AfterSaleAssumption
  <2> QED
    BY <1>5, <1>8, <2>1 DEF CashOut
<1>13. /\ status'[r] = "cancelled" /\ \A d \in Documents \ {r} : status'[d] = status[d]
       /\ debt'[r] = own2 /\ debt'[Sale] = sale2
       /\ \A d \in Documents \ {r, Sale} : debt'[d] = debt[d]
       /\ debt' \in [Documents -> DebtRows]
  <2> HIDE DEF r, put
  <2>1. debt'[r] = own2 /\ debt'[Sale] = sale2 /\ \A d \in Documents \ {r, Sale} : debt'[d] = debt[d]
    BY <1>3, <1>4, <1>6
  <2>2. status'[r] = "cancelled" /\ \A d \in Documents \ {r} : status'[d] = status[d]
    BY <1>1, <1>4, <1>6
  <2> HIDE DEF DebtRows
  <2>3. debt' \in [Documents -> DebtRows]
    BY <1>3, <1>6, <1>10, <1>11
  <2> QED
    BY <2>1, <2>2, <2>3
<1> HIDE DEF sale2, own2
<1>14. RequestsFresh' /\ request' \in [Requests -> RequestRecords]
  <2>1. Busy(q) /\ \A d \in Documents : d # r => DocumentKept(d) /\ RowKept(d)
    BY <1>1, <1>10, <1>13 DEF Busy, DocumentKept, RowKept
  <2> QED
    BY <1>1, <2>1, EndKeeps
<1>15. AfterSaleTypeOK'
  <2>1. status' \in [Documents -> Settled \cup {"none", "draft", "cancelled"}]
    BY <1>1, <1>6
  <2>2. returned' \in Nat /\ taken' \in Nat /\ given' \in Nat /\ undone' \in Nat
    BY <1>1, <1>5, <1>6, <1>9, <1>12 DEF Revocable
  <2>3. UNCHANGED <<totalPaid, upfront, offset, receipt, spent, overwritten>>
    BY <1>1
  <2> QED
    BY <1>13, <1>14, <2>1, <2>2, <2>3 DEF AfterSaleInv, AfterSaleTypeOK, RequestRecords
<1>16. ReturnRows'
  <2>1. ASSUME NEW s \in Returns
        PROVE /\ offset[s] <= Refund(s)
              /\ status'[s] \in {"none", "draft"} => debt'[s] = NoDebt /\ s \notin overwritten
              /\ status'[s] \in Settled => debt'[s].owed + upfront[s] = NetAmount(s)
              /\ status'[s] = "cancelled" /\ s \notin overwritten => debt'[s].left = 0 /\ debt'[s].paid = 0
    <3>1. CASE s = r
      BY <1>8, <1>11, <1>13, <3>1 DEF Settled
    <3>2. CASE s # r
      <4>1. s \in Documents \ {r, Sale}
        BY <1>4, <3>2, Amounts
      <4> QED
        BY <1>13, <3>2, <4>1 DEF AfterSaleInv, ReturnRows
    <3> QED
      BY <3>1, <3>2
  <2> QED
    BY <1>1, <2>1 DEF ReturnRows
<1>17. Rows'
  <2>1. ASSUME NEW d \in Documents PROVE debt'[d].left + debt'[d].paid <= debt'[d].owed
    <3>1. CASE d = r
      BY <1>9, <1>11, <1>13, <3>1
    <3>2. CASE d # r
      BY <1>10, <1>13, <3>2, InvFacts
    <3> QED
      BY <3>1, <3>2
  <2>2. status'[Sale] = status[Sale] /\ receipt' = receipt
    BY <1>1, <1>4, <1>13
  <2> QED
    BY <2>1, <2>2 DEF AfterSaleInv, Rows
<1>18. /\ TotalBack(status) = TotalBack(status') + Back[r]
       /\ TotalExtra(status) = TotalExtra(status') + Extra[r]
       /\ TotalOffset(status, offset) = TotalOffset(status', offset) + put
       /\ TotalCredit(status, offset) =
              TotalCredit(status', offset) + IF Method[r] = "credit" THEN Refund(r) - put ELSE 0
       /\ TotalBack(status') \in Nat /\ TotalExtra(status') \in Nat /\ TotalCredit(status', offset) \in Int
       /\ TotalOffset(status', offset) \in Nat
  <2>1. status'[r] \notin Settled /\ \A s \in Returns \ {r} : status[s] \in Settled <=> status'[s] \in Settled
    BY <1>4, <1>13 DEF Settled
  <2> HIDE DEF r
  <2>2. TotalBack(status') \in Nat /\ TotalExtra(status') \in Nat /\ TotalCredit(status', offset) \in Int
        /\ TotalOffset(status', offset) \in Nat
    BY <1>6, TotalsAreNat
  <2>3. ASSUME NEW st, NEW off \in Numbers, st = status', off = offset
        PROVE  /\ TotalOffset(status, off) = TotalOffset(st, off) + off[r]
               /\ TotalCredit(status, off) =
                      TotalCredit(st, off) + IF Method[r] = "credit" THEN Refund(r) - off[r] ELSE 0
    <3>1. st[r] \notin Settled /\ \A s \in Returns \ {r} : status[s] \in Settled <=> st[s] \in Settled
      BY <2>1, <2>3
    <3>2. \A s \in Returns \ {r} : off[s] = off[s]
      OBVIOUS
    <3>3. r \in Returns /\ status[r] \in Settled
      BY <1>1, <1>2
    <3> QED
      BY <3>1, <3>2, <3>3, ReturnJoins
  <2>4. offset \in Numbers
    BY <1>6
  <2>5. /\ TotalOffset(status, offset) = TotalOffset(status', offset) + offset[r]
        /\ TotalCredit(status, offset) =
               TotalCredit(status', offset) + IF Method[r] = "credit" THEN Refund(r) - offset[r] ELSE 0
    BY <2>3, <2>4
  <2>6. ASSUME NEW st, st = status'
        PROVE  /\ TotalBack(status) = TotalBack(st) + Back[r]
               /\ TotalExtra(status) = TotalExtra(st) + Extra[r]
    <3>1. st[r] \notin Settled /\ \A s \in Returns \ {r} : status[s] \in Settled <=> st[s] \in Settled
      BY <2>1, <2>6
    <3>2. r \in Returns /\ status[r] \in Settled
      BY <1>1, <1>2
    <3> QED
      BY <3>1, <3>2, BackJoins
  <2>7. /\ TotalBack(status) = TotalBack(status') + Back[r]
        /\ TotalExtra(status) = TotalExtra(status') + Extra[r]
    BY <2>6
  <2> QED
    BY <2>2, <2>5, <2>7
<1>19. TotalLeft(debt') = TotalLeft(debt) - row.left + sale2.left - debt[r].left
  <2>1. debt'[r].left = 0
    BY <1>11, <1>13
  <2>2. \A e \in Documents \ {r, Sale} : debt'[e].left = debt[e].left
    BY <1>13
  <2> HIDE DEF r
  <2>3. TotalLeft(debt') =
               TotalLeft(debt) - debt[Sale].left + debt'[Sale].left - debt[r].left + debt'[r].left
    BY <1>1, <1>6, <1>13, <2>2, TwoDebtsChange
  <2>4. TotalLeft(debt) \in Nat
    BY InvFacts
  <2> QED
    BY <1>7, <1>9, <1>10, <1>13, <2>1, <2>3, <2>4
<1>20. ReturnsHold(status', returned')
  <2>1. returned = TotalBack(status) /\ returned <= Sold
    BY InvFacts DEF ReturnsHold
  <2> HIDE DEF r
  <2> QED
    BY <1>1, <1>5, <1>6, <1>18, <2>1 DEF ReturnsHold
<1>21. DebtsHold(status', offset', receipt', debt', overwritten')
  <2>1. ASSUME NEW d \in Documents \ overwritten
        PROVE  /\ debt'[d].paid = TotalPaid(receipt, d)
                                    + IF d = Sale THEN TotalOffset(status', offset) ELSE 0
               /\ debt'[d].paid <= debt'[d].owed
               /\ status'[d] # "cancelled" => debt'[d].left = debt'[d].owed - debt'[d].paid
    <3>0. /\ debt[d].paid = TotalPaid(receipt, d) + IF d = Sale THEN TotalOffset(status, offset) ELSE 0
          /\ debt[d].paid <= debt[d].owed
          /\ status[d] # "cancelled" => debt[d].left = debt[d].owed - debt[d].paid
      BY InvFacts DEF DebtsHold, DebtHolds
    <3>1. CASE d = Sale
      <4>0. row.paid = TotalPaid(receipt, Sale) + TotalOffset(status, offset) /\ row.paid <= row.owed
        BY <3>0, <3>1
      <4>4. debt'[d] = sale2 /\ status'[d] = status[Sale]
        BY <1>4, <1>13, <3>1
      <4>5. status[Sale] # "cancelled" => row.left = row.owed - row.paid
        BY <3>0, <3>1
      <4> HIDE DEF r, put, row
      <4>1. sale2.paid = TotalPaid(receipt, Sale) + TotalOffset(status', offset)
        BY <1>7, <1>8, <1>10, <1>18, <4>0
      <4>2. sale2.paid <= sale2.owed
        BY <1>7, <1>8, <1>10, <4>0
      <4>3. status[Sale] # "cancelled" => sale2.left = sale2.owed - sale2.paid
        BY <1>7, <1>8, <1>10, <4>5
      <4> QED
        BY <3>1, <4>1, <4>2, <4>3, <4>4
    <3>2. CASE d = r
      BY <1>4, <1>9, <1>11, <1>13, <3>2
    <3>3. CASE d # r /\ d # Sale
      BY <1>13, <3>0, <3>3
    <3> QED
      BY <3>1, <3>2, <3>3
  <2> QED
    BY <1>1, <2>1 DEF DebtsHold, DebtHolds
<1>22. MoneyHolds(status', offset', debt', overwritten', returned', taken' - given' - undone')
  <2> SUFFICES ASSUME overwritten = {}, status[Sale] # "cancelled"
               PROVE  taken' - given' - undone' - TotalCredit(status', offset') + TotalLeft(debt')
                      = Sold - returned' + TotalExtra(status')
    BY <1>1, <1>4, <1>13 DEF MoneyHolds
  <2>1. row.left = row.owed - row.paid
    BY <1>4, InvFacts DEF DebtsHold, DebtHolds
  <2>2. sale2.left = row.left + put
    BY <1>10, <2>1
  <2>3. taken - given - undone - TotalCredit(status, offset) + TotalLeft(debt)
          = Sold - returned + TotalExtra(status)
    BY InvFacts DEF MoneyHolds
  <2>4. TotalLeft(debt) \in Nat /\ TotalExtra(status') \in Nat /\ TotalCredit(status', offset) \in Int
    BY <1>18, InvFacts
  <2>0. /\ Refund(r) \in Nat /\ NetAmount(r) \in Nat /\ Refund(r) - NetAmount(r) = Back[r] - Extra[r]
        /\ Back[r] \in Nat /\ Extra[r] \in Nat /\ Sold \in Nat /\ upfront[r] \in Nat
        /\ returned \in Nat /\ taken \in Nat /\ given \in Nat /\ undone \in Nat /\ put \in Nat
    BY <1>5, <1>6, <1>8, <1>9
  <2>6. taken' = taken + CashOut(r, put) /\ given' = given + upfront[r] /\ undone' = undone
        /\ returned' = returned - Back[r] /\ offset' = offset
    BY <1>1
  <2>7. debt[r].left = NetAmount(r) - upfront[r]
    BY <1>9
  <2>8. TotalExtra(status) = TotalExtra(status') + Extra[r]
    BY <1>18
  <2> DEFINE credit == TotalCredit(status, offset) - TotalCredit(status', offset)
             kept == taken - given - undone
             kept2 == taken' - given' - undone'
             worth == Sold - returned + TotalExtra(status') + Back[r]
  <2>9. credit \in Int /\ TotalCredit(status, offset) = TotalCredit(status', offset) + credit
    BY <2>4, InvFacts
  <2>10. CashOut(r, put) \in Int /\ CashOut(r, put) + credit = Refund(r) - put
    <3>1. CASE Method[r] = "credit"
      BY <1>12, <1>18, <2>0, <2>4, <3>1
    <3>2. CASE Method[r] # "credit"
      BY <1>12, <1>18, <2>0, <2>4, <3>2
    <3> QED
      BY <3>1, <3>2
  <2> HIDE DEF r, row, put, credit
  <2>5. TotalLeft(debt') = TotalLeft(debt) + put - (NetAmount(r) - upfront[r])
    BY <1>5, <1>7, <1>8, <1>9, <1>19, <2>2, <2>4, <2>7
  <2>11. kept \in Int /\ kept2 = kept + CashOut(r, put) - upfront[r]
    BY <2>0, <2>6, <2>10
  <2>12. worth \in Int /\ worth = Sold - (returned - Back[r]) + TotalExtra(status')
    BY <2>0, <2>4
  <2>13. kept - (TotalCredit(status', offset) + credit) + TotalLeft(debt) = worth - Back[r] + Extra[r]
    BY <2>0, <2>3, <2>4, <2>8, <2>9
  <2> HIDE DEF kept, kept2, worth
  <2>14. kept2 + TotalLeft(debt') = kept + TotalLeft(debt) + (CashOut(r, put) + put - NetAmount(r))
    BY <2>0, <2>4, <2>5, <2>10, <2>11
  <2>15. CashOut(r, put) + put - NetAmount(r) = Back[r] - Extra[r] - credit
    BY <2>0, <2>9, <2>10
  <2>16. kept + TotalLeft(debt) = worth - Back[r] + Extra[r] + credit + TotalCredit(status', offset)
    BY <2>0, <2>4, <2>9, <2>11, <2>12, <2>13
  <2>17. kept2 + TotalLeft(debt') = worth + TotalCredit(status', offset)
    BY <2>0, <2>4, <2>9, <2>12, <2>14, <2>15, <2>16
  <2>18. kept2 \in Int /\ TotalLeft(debt') \in Int
    BY <2>0, <2>4, <2>5, <2>10, <2>11
  <2>19. kept2 - TotalCredit(status', offset) + TotalLeft(debt') = worth
    BY <2>4, <2>12, <2>17, <2>18
  <2> QED
    BY <2>6, <2>12, <2>19 DEF kept2
<1> QED
  BY <1>14, <1>15, <1>16, <1>17, <1>20, <1>21, <1>22, InvNext

(* The sale is cancelled: its debt is closed as it stands, and no return is *)
(* disturbed.                                                              *)
LEMMA CancelSaleKeeps ==
    ASSUME AfterSaleInv, NEW q \in Requests, CancelSale(q)
    PROVE  AfterSaleInv'
<1>1. /\ request[q].does = "cancel" /\ request[q].on = Sale
      /\ status' = [status EXCEPT ![Sale] = "cancelled"]
      /\ debt' = IF request[q].owing THEN [debt EXCEPT ![Sale].open = FALSE] ELSE debt
      /\ given' = given + upfront[Sale]
      /\ End(q)
      /\ UNCHANGED <<totalPaid, upfront, offset, returned, receipt, spent, taken, undone, overwritten>>
  BY DEF CancelSale
<1>2. Sale \in Documents /\ Returns = Documents \ {Sale}
  BY Amounts DEF Documents
<1>3. /\ status \in [Documents -> Settled \cup {"none", "draft", "cancelled"}]
      /\ debt \in [Documents -> DebtRows] /\ upfront \in [Documents -> Nat] /\ given \in Nat
  BY DEF AfterSaleInv, AfterSaleTypeOK
<1>4. status'[Sale] = "cancelled" /\ \A r \in Returns : status'[r] = status[r]
  BY <1>1, <1>2, <1>3
<1>5. /\ debt' \in [Documents -> DebtRows]
      /\ \A r \in Returns : debt'[r] = debt[r]
      /\ \A d \in Documents : debt'[d].owed = debt[d].owed /\ debt'[d].paid = debt[d].paid
                              /\ debt'[d].left = debt[d].left
  BY <1>1, <1>2, <1>3 DEF DebtRows
<1>6. RequestsFresh' /\ request' \in [Requests -> RequestRecords]
  <2>1. Busy(q) /\ \A d \in Documents : d # request[q].on => DocumentKept(d) /\ RowKept(d)
    BY <1>1, <1>2, <1>4, <1>5 DEF Busy, DocumentKept, RowKept
  <2> QED
    BY <1>1, <2>1, EndKeeps
<1>7. AfterSaleTypeOK'
  <2>1. given' \in Nat
    BY <1>1, <1>2, <1>3
  <2>2. status' \in [Documents -> Settled \cup {"none", "draft", "cancelled"}]
    BY <1>1, <1>3
  <2> QED
    BY <1>1, <1>5, <1>6, <2>1, <2>2 DEF AfterSaleInv, AfterSaleTypeOK, RequestRecords
<1>8. ReturnRows'
  BY <1>1, <1>4, <1>5 DEF AfterSaleInv, ReturnRows
<1>9. Rows'
  BY <1>1, <1>4, <1>5 DEF AfterSaleInv, Rows
<1>10. TotalBack(status') = TotalBack(status) /\ TotalOffset(status', offset) = TotalOffset(status, offset)
  BY <1>4, SameReturns
<1>11. ReturnsHold(status', returned')
  BY <1>1, <1>10, InvFacts DEF ReturnsHold
<1>12. DebtsHold(status', offset', receipt', debt', overwritten')
  BY <1>1, <1>2, <1>4, <1>5, <1>10, InvFacts DEF DebtsHold, DebtHolds
<1>13. MoneyHolds(status', offset', debt', overwritten', returned', taken' - given' - undone')
  BY <1>4 DEF MoneyHolds
<1> QED
  BY <1>6, <1>7, <1>8, <1>9, <1>11, <1>12, <1>13, InvNext

-----------------------------------------------------------------------------
(* A document whose debt is paid, or paid back, follows it and stays issued. *)
LEMMA FollowKeeps ==
    ASSUME AfterSaleInv, NEW d \in Documents, NEW n \in Int, NEW row, Follow(d, n, row)
    PROVE  /\ totalPaid' \in [Documents -> Nat]
           /\ status' \in [Documents -> Settled \cup {"none", "draft", "cancelled"}]
           /\ \A e \in Documents : /\ status'[e] \in Settled <=> status[e] \in Settled
                                   /\ status[e] \notin Settled => status'[e] = status[e]
<1>1. /\ totalPaid \in [Documents -> Nat]
      /\ status \in [Documents -> Settled \cup {"none", "draft", "cancelled"}]
  BY DEF AfterSaleInv, AfterSaleTypeOK
<1>2. CASE status[d] \notin Settled
  BY <1>1, <1>2 DEF Follow
<1>3. CASE status[d] \in Settled
  <2> DEFINE paid == Positive(totalPaid[d] + n)
  <2>1. paid \in Nat
    BY <1>1 DEF Positive
  <2>2. PICK s \in Settled : status' = [status EXCEPT ![d] = s]
    BY <1>3 DEF Follow, Settled
  <2>3. totalPaid' = [totalPaid EXCEPT ![d] = paid]
    BY <1>3 DEF Follow
  <2> HIDE DEF paid
  <2>4. status'[d] = s /\ \A e \in Documents \ {d} : status'[e] = status[e]
    BY <1>1, <2>2
  <2>5. status' \in [Documents -> Settled \cup {"none", "draft", "cancelled"}]
    BY <1>1, <2>2
  <2>6. totalPaid' \in [Documents -> Nat]
    BY <1>1, <2>1, <2>3
  <2> QED
    BY <1>3, <2>4, <2>5, <2>6
<1> QED
  BY <1>2, <1>3

(* A debt's row is written anew, for as much as was owed: nothing else is   *)
(* disturbed.                                                              *)
LEMMA DebtWritten ==
    ASSUME AfterSaleInv, NEW d \in Documents, NEW row \in DebtRows,
           debt' = [debt EXCEPT ![d] = row], row.owed = debt[d].owed,
           row.left + row.paid <= row.owed, Payable(d),
           \A e \in Documents \ {d} : TotalPaid(receipt', e) = TotalPaid(receipt, e),
           \A c \in Receipts : receipt'[c].state \in Standing => receipt'[c].amount > 0,
           \A e \in Documents : /\ status'[e] \in Settled <=> status[e] \in Settled
                                /\ status[e] \notin Settled => status'[e] = status[e],
           overwritten \subseteq overwritten', overwritten' \subseteq overwritten \cup {d},
           UNCHANGED <<upfront, offset, returned>>
    PROVE  /\ debt' \in [Documents -> DebtRows] /\ ReturnRows' /\ Rows'
           /\ ReturnsHold(status', returned')
           /\ \A e \in Documents \ (overwritten' \cup {d}) : DebtHolds(status', offset', receipt', debt', e)
           /\ TotalExtra(status') = TotalExtra(status)
           /\ TotalCredit(status', offset) = TotalCredit(status, offset)
           /\ TotalOffset(status', offset) = TotalOffset(status, offset)
           /\ TotalLeft(debt') = TotalLeft(debt) - debt[d].left + row.left
<1>1. debt \in [Documents -> DebtRows] /\ Sale \in Documents /\ Returns \subseteq Documents
  BY InvFacts
<1>3. debt'[d] = row /\ \A e \in Documents \ {d} : debt'[e] = debt[e]
  BY <1>1
<1>4. debt' \in [Documents -> DebtRows]
  <2> HIDE DEF DebtRows
  <2> QED
    BY <1>1
<1>5. \A e \in Documents : status'[e] = "cancelled" <=> status[e] = "cancelled"
  BY DEF Settled
<1>6. ReturnRows'
  <2>1. ASSUME NEW r \in Returns
        PROVE /\ offset[r] <= Refund(r)
              /\ status'[r] \in {"none", "draft"} => debt'[r] = NoDebt /\ r \notin overwritten'
              /\ status'[r] \in Settled => debt'[r].owed + upfront[r] = NetAmount(r)
              /\ status'[r] = "cancelled" /\ r \notin overwritten' => debt'[r].left = 0 /\ debt'[r].paid = 0
    <3>1. CASE r = d
      BY <1>3, <3>1 DEF AfterSaleInv, ReturnRows, Settled, Payable
    <3>2. CASE r # d
      <4>1. debt'[r] = debt[r] /\ r \in Documents
        BY <1>1, <1>3, <3>2
      <4> QED
        BY <3>2, <4>1 DEF AfterSaleInv, ReturnRows, Settled
    <3> QED
      BY <3>1, <3>2
  <2> QED
    BY <2>1 DEF ReturnRows
<1>7. Rows'
  <2>1. \A e \in Documents : debt'[e].left + debt'[e].paid <= debt'[e].owed
    BY <1>3, InvFacts
  <2>2. status'[Sale] \in Settled \cup {"cancelled"}
    BY <1>1 DEF AfterSaleInv, Rows
  <2> QED
    BY <2>1, <2>2 DEF Rows
<1>8. /\ TotalBack(status') = TotalBack(status) /\ TotalExtra(status') = TotalExtra(status)
      /\ TotalCredit(status', offset) = TotalCredit(status, offset)
      /\ TotalOffset(status', offset) = TotalOffset(status, offset)
  BY <1>1, SameReturns
<1>9. ReturnsHold(status', returned')
  BY <1>8, InvFacts DEF ReturnsHold
<1>10. ASSUME NEW e \in Documents \ (overwritten' \cup {d}) PROVE DebtHolds(status', offset', receipt', debt', e)
  <2>1. DebtHolds(status, offset, receipt, debt, e)
    BY InvFacts DEF DebtsHold
  <2> QED
    BY <1>3, <1>5, <1>8, <2>1 DEF DebtHolds
<1>11. TotalLeft(debt') = TotalLeft(debt) - debt[d].left + row.left
  BY <1>1, <1>3, <1>4, DebtChanges
<1> QED
  BY <1>4, <1>6, <1>7, <1>8, <1>9, <1>10, <1>11

(* Money moves on one debt: its row, the receipts of its document and the   *)
(* money kept change by the same amount, up or down.                       *)
LEMMA MoneyOnDebt ==
    ASSUME AfterSaleInv, NEW d \in Documents, NEW n \in Int, NEW row \in DebtRows,
           debt' = [debt EXCEPT ![d] = row],
           row.owed = debt[d].owed, row.paid = debt[d].paid + n, row.left = row.owed - row.paid,
           Payable(d),
           \A e \in Documents : TotalPaid(receipt', e) = TotalPaid(receipt, e) + IF e = d THEN n ELSE 0,
           \A c \in Receipts : receipt'[c].state \in Standing => receipt'[c].amount > 0,
           \A e \in Documents : /\ status'[e] \in Settled <=> status[e] \in Settled
                                /\ status[e] \notin Settled => status'[e] = status[e],
           taken' - given' - undone' = taken - given - undone + n,
           UNCHANGED <<upfront, offset, returned, overwritten>>
    PROVE  /\ debt' \in [Documents -> DebtRows] /\ ReturnRows' /\ Rows'
           /\ ReturnsHold(status', returned')
           /\ DebtsHold(status', offset', receipt', debt', overwritten')
           /\ MoneyHolds(status', offset', debt', overwritten', returned', taken' - given' - undone')
<1>1. debt \in [Documents -> DebtRows] /\ Sale \in Documents /\ Returns \subseteq Documents
  BY InvFacts
<1>2. /\ debt[d].owed \in Nat /\ debt[d].paid \in Int /\ debt[d].left \in Nat
      /\ row.owed \in Nat /\ row.paid \in Int /\ row.left \in Nat
  BY <1>1 DEF DebtRows
<1>3. debt'[d] = row
  BY <1>1
<1>4. /\ debt' \in [Documents -> DebtRows] /\ ReturnRows' /\ Rows'
      /\ ReturnsHold(status', returned')
      /\ \A e \in Documents \ (overwritten' \cup {d}) : DebtHolds(status', offset', receipt', debt', e)
      /\ TotalExtra(status') = TotalExtra(status)
      /\ TotalCredit(status', offset) = TotalCredit(status, offset)
      /\ TotalOffset(status', offset) = TotalOffset(status, offset)
      /\ TotalLeft(debt') = TotalLeft(debt) - debt[d].left + row.left
  <2>1. \A e \in Documents \ {d} : TotalPaid(receipt', e) = TotalPaid(receipt, e)
    <3> SUFFICES ASSUME NEW e \in Documents \ {d} PROVE TotalPaid(receipt', e) = TotalPaid(receipt, e)
      OBVIOUS
    <3>1. TotalPaid(receipt', e) = TotalPaid(receipt, e) + 0 /\ TotalPaid(receipt, e) \in Nat
      BY InvFacts
    <3> QED
      BY <3>1
  <2>2. row.left + row.paid <= row.owed
    BY <1>2
  <2>3. overwritten \subseteq overwritten' /\ overwritten' \subseteq overwritten \cup {d}
        /\ UNCHANGED <<upfront, offset, returned>>
    OBVIOUS
  <2> QED
    BY <2>1, <2>2, <2>3, DebtWritten
<1>5. \A e \in Documents : status'[e] = "cancelled" <=> status[e] = "cancelled"
  BY DEF Settled
<1>10. DebtsHold(status', offset', receipt', debt', overwritten')
  <2>1. ASSUME d \notin overwritten PROVE DebtHolds(status', offset', receipt', debt', d)
    <3>0. /\ debt[d].paid = TotalPaid(receipt, d) + IF d = Sale THEN TotalOffset(status, offset) ELSE 0
          /\ debt[d].paid <= debt[d].owed
          /\ TotalPaid(receipt, d) \in Nat /\ TotalOffset(status, offset) \in Nat
      BY <2>1, InvFacts DEF DebtsHold, DebtHolds
    <3>1. TotalPaid(receipt', d) = TotalPaid(receipt, d) + n
      OBVIOUS
    <3>2. row.paid = TotalPaid(receipt', d) + IF d = Sale THEN TotalOffset(status, offset) ELSE 0
      BY <1>2, <3>0, <3>1
    <3>3. row.paid <= row.owed
      BY <1>2
    <3> QED
      BY <1>3, <1>4, <3>2, <3>3 DEF DebtHolds
  <2> QED
    BY <1>4, <2>1 DEF DebtsHold
<1>11. MoneyHolds(status', offset', debt', overwritten', returned', taken' - given' - undone')
  <2> SUFFICES ASSUME overwritten = {}, status[Sale] # "cancelled"
               PROVE  taken' - given' - undone' - TotalCredit(status', offset) + TotalLeft(debt')
                      = Sold - returned' + TotalExtra(status')
    BY <1>1, <1>5 DEF MoneyHolds
  <2>1. status[d] # "cancelled"
    BY DEF Documents, Settled, Payable
  <2>2. debt[d].left = debt[d].owed - debt[d].paid
    BY <2>1, InvFacts DEF DebtsHold, DebtHolds
  <2>4. taken - given - undone - TotalCredit(status, offset) + TotalLeft(debt)
          = Sold - returned + TotalExtra(status)
    BY InvFacts DEF MoneyHolds
  <2>5. TotalLeft(debt) \in Nat /\ TotalExtra(status) \in Nat /\ TotalCredit(status, offset) \in Int
    BY InvFacts
  <2>6. taken \in Nat /\ given \in Nat /\ undone \in Nat /\ returned \in Nat /\ Sold \in Nat
    BY Amounts DEF AfterSaleInv, AfterSaleTypeOK
  <2>7. TotalLeft(debt') = TotalLeft(debt) - n
    BY <1>2, <1>4, <2>2, <2>5
  <2> QED
    BY <1>4, <2>4, <2>5, <2>6, <2>7
<1> QED
  BY <1>4, <1>10, <1>11

(* A debt that is, or is now, overwritten is nobody's claim any more.      *)
LEMMA LostRow ==
    ASSUME AfterSaleInv, NEW d \in Documents, NEW row \in DebtRows,
           debt' = [debt EXCEPT ![d] = row], row.owed = debt[d].owed,
           row.left + row.paid <= row.owed, Payable(d),
           \A e \in Documents \ {d} : TotalPaid(receipt', e) = TotalPaid(receipt, e),
           \A c \in Receipts : receipt'[c].state \in Standing => receipt'[c].amount > 0,
           \A e \in Documents : /\ status'[e] \in Settled <=> status[e] \in Settled
                                /\ status[e] \notin Settled => status'[e] = status[e],
           overwritten' = overwritten \cup {d}, UNCHANGED <<upfront, offset, returned>>
    PROVE  /\ debt' \in [Documents -> DebtRows] /\ ReturnRows' /\ Rows'
           /\ ReturnsHold(status', returned')
           /\ DebtsHold(status', offset', receipt', debt', overwritten')
           /\ MoneyHolds(status', offset', debt', overwritten', returned', taken' - given' - undone')
<1>1. overwritten \subseteq overwritten' /\ overwritten' \subseteq overwritten \cup {d} /\ d \in overwritten'
  OBVIOUS
<1>2. /\ debt' \in [Documents -> DebtRows] /\ ReturnRows' /\ Rows'
      /\ ReturnsHold(status', returned')
      /\ \A e \in Documents \ (overwritten' \cup {d}) : DebtHolds(status', offset', receipt', debt', e)
  BY <1>1, DebtWritten
<1> QED
  BY <1>1, <1>2 DEF DebtsHold, MoneyHolds

(* A receipt is written for a payment.                                     *)
LEMMA ReceiptWritten ==
    ASSUME AfterSaleInv, NEW d \in Documents, NEW c \in Receipts, NEW n \in Nat, n > 0,
           NEW kind \in Standing, receipt[c].state = "none",
           receipt' = [receipt EXCEPT ![c] = [of |-> d, amount |-> n, state |-> kind]]
    PROVE  /\ receipt' \in [Receipts -> ReceiptRows]
           /\ \A e \in Documents :
                 TotalPaid(receipt', e) = TotalPaid(receipt, e) + IF e = d THEN n ELSE 0
           /\ \A e \in Documents \ {d} : TotalPaid(receipt', e) = TotalPaid(receipt, e)
           /\ \A b \in Receipts : receipt'[b].state \in Standing => receipt'[b].amount > 0
<1>1. receipt \in [Receipts -> ReceiptRows]
  BY InvFacts
<1>4. receipt' \in [Receipts -> ReceiptRows] /\ receipt'[c].of = d /\ receipt'[c].amount = n
      /\ receipt'[c].state \in Standing /\ \A b \in Receipts \ {c} : receipt'[b] = receipt[b]
  BY <1>1 DEF ReceiptRows, Standing
<1>5. \A e \in Documents : TotalPaid(receipt', e) = TotalPaid(receipt, e) + IF e = d THEN n ELSE 0
  <2> SUFFICES ASSUME NEW e \in Documents
               PROVE  TotalPaid(receipt', e) = TotalPaid(receipt, e) + IF e = d THEN n ELSE 0
    OBVIOUS
  <2>1. receipt[c].state \notin Standing
    BY DEF Standing
  <2>2. ASSUME NEW rec2 \in [Receipts -> ReceiptRows], rec2 = receipt'
        PROVE  TotalPaid(rec2, e) = TotalPaid(receipt, e) + IF rec2[c].of = e THEN rec2[c].amount ELSE 0
    <3>1. rec2[c].state \in Standing /\ \A b \in Receipts \ {c} : rec2[b] = receipt[b]
      BY <1>4, <2>2
    <3> QED
      BY <1>1, <2>1, <3>1, ReceiptJoins
  <2> QED
    BY <1>4, <2>2
<1>6. ASSUME NEW e \in Documents \ {d} PROVE TotalPaid(receipt', e) = TotalPaid(receipt, e)
  <2>1. TotalPaid(receipt', e) = TotalPaid(receipt, e) + 0 /\ TotalPaid(receipt, e) \in Nat
    BY <1>5, InvFacts
  <2> QED
    BY <2>1
<1>7. \A b \in Receipts : receipt'[b].state \in Standing => receipt'[b].amount > 0
  <2>1. \A b \in Receipts : receipt[b].state \in Standing => receipt[b].amount > 0
    BY DEF AfterSaleInv, Rows
  <2> QED
    BY <1>4, <2>1
<1> QED
  BY <1>4, <1>5, <1>6, <1>7

(* A payment, by the counter or the collection saga, of no more than is left. *)
LEMMA PaymentMade ==
    ASSUME AfterSaleInv, NEW d \in Documents, NEW c \in Receipts, NEW n \in Nat,
           NEW kind \in Standing, n \in 1..debt[d].left, receipt[c].state = "none",
           debt' = [debt EXCEPT ![d] = Reduced(@, n)],
           receipt' = [receipt EXCEPT ![c] = [of |-> d, amount |-> n, state |-> kind]],
           taken' = taken + n,
           \A e \in Documents : /\ status'[e] \in Settled <=> status[e] \in Settled
                                /\ status[e] \notin Settled => status'[e] = status[e],
           UNCHANGED <<upfront, offset, returned, given, undone, overwritten>>
    PROVE  /\ debt' \in [Documents -> DebtRows] /\ ReturnRows' /\ Rows' /\ RowKept(d)
           /\ receipt' \in [Receipts -> ReceiptRows]
           /\ ReturnsHold(status', returned')
           /\ DebtsHold(status', offset', receipt', debt', overwritten')
           /\ MoneyHolds(status', offset', debt', overwritten', returned', taken' - given' - undone')
<1> DEFINE row == Reduced(debt[d], n)
<1>1. /\ debt \in [Documents -> DebtRows] /\ receipt \in [Receipts -> ReceiptRows]
      /\ debt[d] \in DebtRows /\ debt[d].left \in Nat /\ debt[d].left + debt[d].paid <= debt[d].owed
      /\ n > 0 /\ n <= debt[d].left
  BY InvFacts
<1>2. row \in DebtRows /\ row.owed = debt[d].owed /\ row.paid = debt[d].paid + n
      /\ row.left = row.owed - row.paid
  BY <1>1, ReducedRow
<1>3. debt' = [debt EXCEPT ![d] = row]
  BY <1>1
<1> HIDE DEF row
<1>4. /\ receipt' \in [Receipts -> ReceiptRows]
      /\ \A e \in Documents : TotalPaid(receipt', e) = TotalPaid(receipt, e) + IF e = d THEN n ELSE 0
      /\ \A b \in Receipts : receipt'[b].state \in Standing => receipt'[b].amount > 0
  BY <1>1, ReceiptWritten
<1>7. Payable(d)
  <2>1. status[d] \in Settled \cup {"none", "draft", "cancelled"}
    BY DEF AfterSaleInv, AfterSaleTypeOK
  <2> QED
    BY <1>1, <2>1 DEF AfterSaleInv, ReturnRows, NoDebt, Payable
<1>8. taken' - given' - undone' = taken - given - undone + n
  BY DEF AfterSaleInv, AfterSaleTypeOK
<1>9. n \in Int /\ UNCHANGED <<upfront, offset, returned, overwritten>>
  OBVIOUS
<1>10. /\ debt' \in [Documents -> DebtRows] /\ ReturnRows' /\ Rows'
       /\ ReturnsHold(status', returned')
       /\ DebtsHold(status', offset', receipt', debt', overwritten')
       /\ MoneyHolds(status', offset', debt', overwritten', returned', taken' - given' - undone')
  BY <1>2, <1>3, <1>4, <1>7, <1>8, <1>9, MoneyOnDebt
<1>11. RowKept(d)
  BY <1>1, <1>2, <1>3 DEF RowKept
<1> QED
  BY <1>4, <1>10, <1>11

(* The counter's payment: the row it read is still the row there is, or its *)
(* document's debt is overwritten.                                         *)
LEMMA PayKeeps ==
    ASSUME AfterSaleInv, NEW q \in Requests, NEW c \in Receipts, Pay(q, c)
    PROVE  AfterSaleInv'
<1> DEFINE d == request[q].on
           n == request[q].amount
           read == request[q].debt
<1>1. /\ request[q].does = "pay" /\ receipt[c].state = "none"
      /\ debt' = [debt EXCEPT ![d] = Reduced(read, n)]
      /\ receipt' = [receipt EXCEPT ![c] = [of |-> d, amount |-> n, state |-> "counter"]]
      /\ taken' = taken + n
      /\ overwritten' = IF debt[d] = read THEN overwritten ELSE overwritten \cup {d}
      /\ End(q)
      /\ UNCHANGED <<invoiceVars, returned, spent, given, undone>>
  BY DEF Pay
<1>2. d \in Documents /\ n \in Nat /\ debt \in [Documents -> DebtRows] /\ read \in DebtRows
  BY DEF AfterSaleInv, AfterSaleTypeOK
<1>3. /\ n \in 1..read.left /\ read.left + read.paid <= read.owed
      /\ read.owed = debt[d].owed /\ Payable(d)
  BY <1>1 DEF AfterSaleInv, RequestsFresh
<1>5. status' = status /\ UNCHANGED <<totalPaid, upfront, offset, returned, spent, given, undone>>
  BY <1>1 DEF invoiceVars
<1> DEFINE row == Reduced(read, n)
<1>4. row \in DebtRows /\ row.owed = debt[d].owed /\ row.left + row.paid <= row.owed
  <2> HIDE DEF d, n, read
  <2>1. read.left \in Nat /\ read.owed \in Nat /\ read.paid \in Int /\ n <= read.left
    BY <1>2, <1>3 DEF DebtRows
  <2>2. row \in DebtRows /\ row.owed = read.owed /\ row.paid = read.paid + n
        /\ row.left = read.owed - (read.paid + n)
    BY <1>2, <1>3, <2>1, ReducedRow
  <2> HIDE DEF row
  <2> QED
    BY <1>2, <1>3, <2>1, <2>2
<1>11. "counter" \in Standing
  BY DEF Standing
<1>12. /\ receipt' \in [Receipts -> ReceiptRows]
       /\ \A e \in Documents \ {d} : TotalPaid(receipt', e) = TotalPaid(receipt, e)
       /\ \A b \in Receipts : receipt'[b].state \in Standing => receipt'[b].amount > 0
  <2> HIDE DEF d, n, read
  <2>1. n > 0
    BY <1>2, <1>3
  <2> QED
    BY <1>1, <1>2, <1>11, <2>1, ReceiptWritten
<1>6. /\ debt' \in [Documents -> DebtRows] /\ ReturnRows' /\ Rows'
      /\ ReturnsHold(status', returned')
      /\ DebtsHold(status', offset', receipt', debt', overwritten')
      /\ MoneyHolds(status', offset', debt', overwritten', returned', taken' - given' - undone')
  <2> HIDE DEF d, n
  <2>1. CASE debt[d] = read
    <3>1. debt' = [debt EXCEPT ![d] = Reduced(@, n)] /\ n \in 1..debt[d].left /\ overwritten' = overwritten
      BY <1>1, <1>2, <1>3, <2>1
    <3> HIDE DEF read
    <3> QED
      BY <1>1, <1>2, <1>5, <1>11, <3>1, PaymentMade
  <2>2. CASE debt[d] # read
    <3>1. overwritten' = overwritten \cup {d} /\ debt' = [debt EXCEPT ![d] = row]
      BY <1>1, <2>2
    <3> HIDE DEF read, row
    <3> QED
      BY <1>2, <1>3, <1>4, <1>5, <1>12, <3>1, LostRow
  <2> QED
    BY <2>1, <2>2
<1>7. RequestsFresh' /\ request' \in [Requests -> RequestRecords]
  <2>1. Busy(q) /\ \A e \in Documents : e # d => DocumentKept(e) /\ RowKept(e)
    BY <1>1, <1>2, <1>5 DEF Busy, DocumentKept, RowKept
  <2>2. overwritten \subseteq overwritten'
    BY <1>1
  <2> QED
    BY <1>1, <2>1, <2>2, EndKeeps
<1>8. taken' \in Nat
  BY <1>1, <1>2 DEF AfterSaleInv, AfterSaleTypeOK
<1>13. overwritten' \subseteq Documents
  BY <1>1, <1>2 DEF AfterSaleInv, AfterSaleTypeOK
<1>9. AfterSaleTypeOK'
  BY <1>5, <1>6, <1>7, <1>8, <1>12, <1>13 DEF AfterSaleInv, AfterSaleTypeOK, ReceiptRows, RequestRecords
<1> QED
  BY <1>6, <1>7, <1>9, InvNext

(* No request is under way in a step of the collection saga, and those that *)
(* wait stay fresh: no document leaves its draft, or is cancelled, by it,  *)
(* and as much is owed as before.                                          *)
LEMMA OthersFresh ==
    ASSUME AfterSaleInv, UNCHANGED <<request, overwritten>>,
           \A e \in Documents : RowKept(e),
           \A e \in Documents : /\ status'[e] \in Settled <=> status[e] \in Settled
                                /\ status[e] \notin Settled => status'[e] = status[e]
    PROVE  RequestsFresh'
<1>1. \A q \in Requests : request[q].on \in Documents
  BY DEF AfterSaleInv, AfterSaleTypeOK
<1> QED
  BY <1>1 DEF AfterSaleInv, RequestsFresh, Busy, Settled, RowKept, Payable

(* A debt is collected. *)
LEMMA CollectKeeps ==
    ASSUME AfterSaleInv, NEW c \in Receipts, NEW d \in Documents, NEW n \in 1..Sold, Collect(c, d, n)
    PROVE  AfterSaleInv'
<1>0. n \in Nat /\ n \in Int
  BY Amounts
<1>1. /\ receipt[c].state = "none" /\ n \in 1..debt[d].left
      /\ debt' = [debt EXCEPT ![d] = Reduced(@, n)]
      /\ Follow(d, n, debt'[d])
      /\ receipt' = [receipt EXCEPT ![c] = [of |-> d, amount |-> n, state |-> "posted"]]
      /\ taken' = taken + n
      /\ UNCHANGED <<upfront, offset, returned, spent, given, undone, request, overwritten>>
  BY DEF Collect
<1>2. /\ totalPaid' \in [Documents -> Nat]
      /\ status' \in [Documents -> Settled \cup {"none", "draft", "cancelled"}]
      /\ \A e \in Documents : /\ status'[e] \in Settled <=> status[e] \in Settled
                              /\ status[e] \notin Settled => status'[e] = status[e]
  BY <1>0, <1>1, FollowKeeps
<1>3. /\ debt' \in [Documents -> DebtRows] /\ ReturnRows' /\ Rows' /\ RowKept(d)
      /\ receipt' \in [Receipts -> ReceiptRows]
      /\ ReturnsHold(status', returned')
      /\ DebtsHold(status', offset', receipt', debt', overwritten')
      /\ MoneyHolds(status', offset', debt', overwritten', returned', taken' - given' - undone')
  <2>1. "posted" \in Standing
    BY DEF Standing
  <2> QED
    BY <1>0, <1>1, <1>2, <2>1, PaymentMade
<1>4. RequestsFresh'
  <2>1. \A e \in Documents : RowKept(e)
    BY <1>1, <1>3, InvFacts DEF RowKept
  <2> QED
    BY <1>1, <1>2, <2>1, OthersFresh
<1>5. taken' \in Nat
  BY <1>0, <1>1 DEF AfterSaleInv, AfterSaleTypeOK
<1>6. AfterSaleTypeOK'
  BY <1>1, <1>2, <1>3, <1>5 DEF AfterSaleInv, AfterSaleTypeOK, ReceiptRows
<1> QED
  BY <1>3, <1>4, <1>6, InvNext

(* A receipt is reversed: what it paid was counted, so there is as much to   *)
(* take back, unless its debt was overwritten; then what there is is taken. *)
LEMMA ReverseReceiptKeeps ==
    ASSUME AfterSaleInv, NEW c \in Receipts, ReverseReceipt(c)
    PROVE  AfterSaleInv'
<1> DEFINE d == receipt[c].of
           n == receipt[c].amount
           m == IF n <= debt[d].paid THEN n ELSE debt[d].paid
           row == Restored(debt[d], m)
<1>1. /\ receipt[c].state = "posted"
      /\ debt' = [debt EXCEPT ![d] = Restored(@, IF n <= @.paid THEN n ELSE @.paid)]
      /\ Follow(d, -n, debt'[d])
      /\ receipt' = [receipt EXCEPT ![c].state = "reversed"]
      /\ undone' = undone + n
      /\ UNCHANGED <<upfront, offset, returned, spent, taken, given, request, overwritten>>
  BY DEF ReverseReceipt
<1>2. /\ debt \in [Documents -> DebtRows] /\ receipt \in [Receipts -> ReceiptRows]
      /\ d \in Documents /\ n \in Nat
  BY InvFacts DEF ReceiptRows
<1>3. n > 0 /\ n <= TotalPaid(receipt, d)
  <2>1. receipt[c].state \in Standing
    BY <1>1 DEF Standing
  <2> QED
    BY <1>2, <2>1, TotalsAreNat DEF AfterSaleInv, Rows
<1>4. /\ debt[d] \in DebtRows /\ debt[d].owed \in Nat /\ debt[d].paid \in Int /\ debt[d].left \in Nat
      /\ debt[d].left + debt[d].paid <= debt[d].owed
      /\ TotalPaid(receipt, d) \in Nat /\ TotalOffset(status, offset) \in Nat
  BY <1>2, InvFacts
<1>5. d \notin overwritten => n <= debt[d].paid
  <2>1. ASSUME d \notin overwritten
        PROVE  debt[d].paid = TotalPaid(receipt, d) + (IF d = Sale THEN TotalOffset(status, offset) ELSE 0)
    BY <1>2, <2>1, InvFacts DEF DebtsHold, DebtHolds
  <2> HIDE DEF d, n
  <2> QED
    BY <1>2, <1>3, <1>4, <2>1
<1>7. debt' = [debt EXCEPT ![d] = row]
  <2> HIDE DEF d, n
  <2> QED
    BY <1>1, <1>2
<1> HIDE DEF d, n
<1>6. /\ row \in DebtRows /\ row.owed = debt[d].owed /\ row.paid = debt[d].paid - m
      /\ row.left = row.owed - row.paid /\ row.left + row.paid <= row.owed /\ m \in Int
  <2>1. m \in Int /\ debt[d].paid - m <= debt[d].owed
    BY <1>2, <1>4
  <2> HIDE DEF m
  <2>2. row \in DebtRows /\ row.owed = debt[d].owed /\ row.paid = debt[d].paid - m
        /\ row.left = debt[d].owed - (debt[d].paid - m)
    BY <1>4, <2>1, RestoredRow
  <2> HIDE DEF row
  <2> QED
    BY <1>4, <2>1, <2>2
<1> HIDE DEF row
<1>8. /\ totalPaid' \in [Documents -> Nat]
      /\ status' \in [Documents -> Settled \cup {"none", "draft", "cancelled"}]
      /\ \A e \in Documents : /\ status'[e] \in Settled <=> status[e] \in Settled
                              /\ status[e] \notin Settled => status'[e] = status[e]
  <2>1. -n \in Int
    BY <1>2
  <2> QED
    BY <1>1, <1>2, <2>1, FollowKeeps
<1>9. receipt' \in [Receipts -> ReceiptRows] /\ receipt'[c].state = "reversed"
      /\ \A b \in Receipts \ {c} : receipt'[b] = receipt[b]
  BY <1>1, <1>2 DEF ReceiptRows
<1>10. \A e \in Documents : /\ TotalPaid(receipt', e) = TotalPaid(receipt, e) + IF e = d THEN -n ELSE 0
                            /\ e # d => TotalPaid(receipt', e) = TotalPaid(receipt, e)
  <2> SUFFICES ASSUME NEW e \in Documents
               PROVE  /\ TotalPaid(receipt', e) = TotalPaid(receipt, e) + IF e = d THEN -n ELSE 0
                      /\ e # d => TotalPaid(receipt', e) = TotalPaid(receipt, e)
    OBVIOUS
  <2>1. receipt'[c].state \notin Standing /\ receipt[c].state \in Standing
        /\ \A b \in Receipts \ {c} : receipt[b] = receipt'[b]
    BY <1>1, <1>9 DEF Standing
  <2>2. TotalPaid(receipt, e) = TotalPaid(receipt', e) + IF d = e THEN n ELSE 0
    BY <1>2, <1>9, <2>1, ReceiptJoins DEF d, n
  <2>3. TotalPaid(receipt', e) \in Nat
    BY <1>9, TotalsAreNat
  <2> QED
    BY <1>2, <2>2, <2>3
<1>11. \A b \in Receipts : receipt'[b].state \in Standing => receipt'[b].amount > 0
  <2>1. \A b \in Receipts : receipt[b].state \in Standing => receipt[b].amount > 0
    BY DEF AfterSaleInv, Rows
  <2> QED
    BY <1>9, <2>1 DEF Standing
<1>12. Payable(d)
  <2>1. status[d] \in Settled \cup {"none", "draft", "cancelled"}
    BY <1>2 DEF AfterSaleInv, AfterSaleTypeOK
  <2>2. d \notin overwritten => debt[d].paid > 0
    BY <1>2, <1>3, <1>4, <1>5
  <2> QED
    BY <1>2, <2>1, <2>2 DEF AfterSaleInv, ReturnRows, NoDebt, Payable
<1>13. undone' \in Nat /\ taken' - given' - undone' = taken - given - undone + (-n)
  BY <1>1, <1>2 DEF AfterSaleInv, AfterSaleTypeOK
<1>14. /\ debt' \in [Documents -> DebtRows] /\ ReturnRows' /\ Rows'
       /\ ReturnsHold(status', returned')
       /\ DebtsHold(status', offset', receipt', debt', overwritten')
       /\ MoneyHolds(status', offset', debt', overwritten', returned', taken' - given' - undone')
  <2>1. -n \in Int /\ UNCHANGED <<upfront, offset, returned, overwritten>>
    BY <1>1, <1>2
  <2>2. CASE d \notin overwritten
    <3>1. m = n
      BY <1>5, <2>2
    <3> HIDE DEF m
    <3>2. row.paid = debt[d].paid + (-n)
      BY <1>2, <1>4, <1>6, <3>1
    <3>3. \A e \in Documents : TotalPaid(receipt', e) = TotalPaid(receipt, e) + IF e = d THEN -n ELSE 0
      BY <1>10
    <3> QED
      BY <1>2, <1>6, <1>7, <1>8, <1>11, <1>12, <1>13, <2>1, <3>2, <3>3, MoneyOnDebt
  <2>3. CASE d \in overwritten
    <3>1. overwritten' = overwritten \cup {d}
      BY <2>1, <2>3
    <3>2. \A e \in Documents \ {d} : TotalPaid(receipt', e) = TotalPaid(receipt, e)
      BY <1>10
    <3> HIDE DEF m
    <3> QED
      BY <1>2, <1>6, <1>7, <1>8, <1>11, <1>12, <2>1, <3>1, <3>2, LostRow
  <2> QED
    BY <2>2, <2>3
<1>15. RequestsFresh'
  <2>1. \A e \in Documents : RowKept(e)
    BY <1>2, <1>6, <1>7 DEF RowKept
  <2> QED
    BY <1>1, <1>8, <2>1, OthersFresh
<1>16. AfterSaleTypeOK'
  BY <1>1, <1>8, <1>9, <1>13, <1>14 DEF AfterSaleInv, AfterSaleTypeOK, ReceiptRows
<1> QED
  BY <1>14, <1>15, <1>16, InvNext

-----------------------------------------------------------------------------
(* Every step keeps the invariant. *)
LEMMA AfterSaleStep ==
    ASSUME Careful, AfterSaleInv, [Next]_vars
    PROVE  AfterSaleInv'
<1>1. CASE UNCHANGED vars
  <2>1. AfterSaleTypeOK' /\ RequestsFresh' /\ ReturnRows' /\ Rows'
    BY <1>1 DEF AfterSaleInv, AfterSaleTypeOK, RequestsFresh, ReturnRows, Rows, Busy,
                Payable, vars, invoiceVars, moneyVars
  <2> QED
    BY <1>1, <2>1, NothingCounted, InvNext DEF vars, invoiceVars, moneyVars
<1>2. ASSUME NEW r \in Returns, DraftReturn(r) PROVE AfterSaleInv'
  BY <1>2, DraftReturnKeeps
<1>3. ASSUME NEW r \in Returns, SpendCredit(r) PROVE AfterSaleInv'
  BY <1>3, SpendCreditKeeps
<1>4. ASSUME NEW q \in Requests, NEW r \in Returns, BeginCheckout(q, r) PROVE AfterSaleInv'
  <2>1. Begin(q, "checkout", r, 0) /\ status[r] = "draft" /\ r \in Documents
    BY <1>4 DEF BeginCheckout, Documents
  <2> QED
    BY <2>1, BeginKeeps
<1>5. ASSUME NEW q \in Requests, NEW d \in Documents, BeginCancel(q, d) PROVE AfterSaleInv'
  <2>1. Begin(q, "cancel", d, 0) /\ status[d] \in Settled
    BY <1>5 DEF BeginCancel
  <2> QED
    BY <2>1, BeginKeeps
<1>6. ASSUME NEW q \in Requests, NEW d \in Documents, NEW n \in 1..Sold, BeginPay(q, d, n)
      PROVE  AfterSaleInv'
  <2>1. Begin(q, "pay", d, n) /\ n \in 1..debt[d].left /\ n \in Nat
    BY <1>6, Amounts DEF BeginPay
  <2> QED
    BY <2>1, BeginKeeps
<1>7. ASSUME NEW q \in Requests, CheckOut(q) PROVE AfterSaleInv'
  BY <1>7, CheckOutKeeps
<1>8. ASSUME NEW q \in Requests, CancelSale(q) PROVE AfterSaleInv'
  BY <1>8, CancelSaleKeeps
<1>9. ASSUME NEW q \in Requests, CancelReturn(q) PROVE AfterSaleInv'
  BY <1>9, CancelReturnKeeps
<1>10. ASSUME NEW q \in Requests, Refused(q) PROVE AfterSaleInv'
  BY <1>10, RefusedKeeps
<1>11. ASSUME NEW q \in Requests, NEW c \in Receipts, Pay(q, c) PROVE AfterSaleInv'
  BY <1>11, PayKeeps
<1>12. ASSUME NEW c \in Receipts, NEW d \in Documents, NEW n \in 1..Sold, Collect(c, d, n)
       PROVE  AfterSaleInv'
  BY <1>12, CollectKeeps
<1>13. ASSUME NEW c \in Receipts, ReverseReceipt(c) PROVE AfterSaleInv'
  BY <1>13, ReverseReceiptKeeps
<1> QED
  BY <1>1, <1>2, <1>3, <1>4, <1>5, <1>6, <1>7, <1>8, <1>9, <1>10, <1>11, <1>12, <1>13 DEF Next

(* The inductive invariant holds while no two requests meet on a document. *)
LEMMA AfterSaleAlwaysInv ==
    ASSUME Careful
    PROVE  Spec => []AfterSaleInv
<1>1. AfterSaleInv /\ [Next]_vars => AfterSaleInv'
  BY AfterSaleStep
<1> QED
  BY <1>1, AfterSaleInit, PTL DEF Spec

(* Every amount but what a debt's row counts as paid stays a natural number: *)
(* no more is left or given back than there was, and no quantity comes back *)
(* more often than it went.                                                *)
THEOREM AfterSaleTyped ==
    ASSUME Careful
    PROVE  Spec => []AfterSaleTypeOK
<1>1. AfterSaleInv => AfterSaleTypeOK
  BY DEF AfterSaleInv
<1> QED
  BY <1>1, AfterSaleAlwaysInv, PTL

(* A debt's row says what its receipts and the returns that settled it say, *)
(* after any number of payments, reversals, returns and cancellations,     *)
(* unless the counter's payment wrote an older row over it.                *)
THEOREM DebtsAlwaysAddUp ==
    ASSUME Careful
    PROVE  Spec => []DebtsAddUp
<1>1. AfterSaleInv => DebtsAddUp
  BY DEF AfterSaleInv
<1> QED
  BY <1>1, AfterSaleAlwaysInv, PTL

(* While the sale stands and no debt was overwritten, the money kept and    *)
(* the money still owed are worth the goods the customer kept.             *)
THEOREM MoneyAlwaysAddsUp ==
    ASSUME Careful
    PROVE  Spec => []MoneyAddsUp
<1>1. AfterSaleInv => MoneyAddsUp
  BY DEF AfterSaleInv
<1> QED
  BY <1>1, AfterSaleAlwaysInv, PTL

-----------------------------------------------------------------------------
\* The quantities by themselves: they need no promise but that nobody works
\* on a document somebody else is working on, and nothing of debts and money.
RequestsApart ==
    /\ \A p, q \in Requests : p # q /\ Busy(p) /\ Busy(q) => request[p].on # request[q].on
    /\ \A q \in Requests :
          /\ request[q].on \in Documents
          /\ request[q].does = "checkout" => request[q].on \in Returns /\ status[request[q].on] = "draft"
          /\ request[q].does = "cancel" => status[request[q].on] \in Settled

QuantityInv ==
    /\ DOMAIN status = Documents /\ status = [d \in Documents |-> status[d]]
    /\ request = [q \in Requests |-> request[q]]
    /\ returned \in Nat
    /\ RequestsApart
    /\ ReturnsHold(status, returned)

(* The invariant in terms of a sum over all returns, now and after a step. *)
LEMMA ReturnsAreHeld ==
    /\ ReturnsAddUp <=> ReturnsHold(status, returned)
    /\ TotalBack(status) \in Nat
<1>1. ReturnsAddUp <=> returned = Sum(Back, LiveIn(status)) /\ returned <= Sold
  BY DEF ReturnsAddUp, Live, LiveIn, Sum, MapThenSumSet, MapThenFoldSet
<1>2. Counted(status, Back) \in Numbers
  BY Amounts DEF Counted, Numbers
<1> QED
  BY <1>1, <1>2, Amounts, CountedSum, SumNat DEF ReturnsHold, TotalBack, Numbers

(* A step that ends no other request's hopes keeps the requests apart.     *)
LEMMA StaysApart ==
    ASSUME QuantityInv, NEW q \in Requests, End(q), Busy(q),
           \A d \in Documents : d # request[q].on => DocumentKept(d)
    PROVE  RequestsApart' /\ request' = [p \in Requests |-> request'[p]]
<1>1. request' = [request EXCEPT ![q] = Idle]
  BY DEF End
<1>2. request'[q] = Idle /\ \A p \in Requests \ {q} : request'[p] = request[p]
  BY <1>1 DEF QuantityInv
<1>3. \A p \in Requests \ {q} : Busy(p) => request[p].on # request[q].on
  BY DEF QuantityInv, RequestsApart
<1>4. ASSUME NEW p \in Requests
      PROVE  /\ request'[p].on \in Documents
             /\ request'[p].does = "checkout" =>
                    request'[p].on \in Returns /\ status'[request'[p].on] = "draft"
             /\ request'[p].does = "cancel" => status'[request'[p].on] \in Settled
  <2>1. CASE p = q
    BY <1>2, <2>1 DEF Idle, Documents
  <2>2. CASE p # q
    BY <1>2, <1>3, <2>2 DEF QuantityInv, RequestsApart, DocumentKept, Busy
  <2> QED
    BY <2>1, <2>2
<1>5. \A p1, p2 \in Requests : p1 # p2 /\ Busy(p1)' /\ Busy(p2)' => request'[p1].on # request'[p2].on
  BY <1>2 DEF QuantityInv, RequestsApart, Busy, Idle
<1> QED
  BY <1>1, <1>4, <1>5 DEF RequestsApart, QuantityInv

(* Steps that let every return stand that stood, and no other.             *)
LEMMA SameQuantity ==
    ASSUME QuantityInv, returned' = returned, status' = [d \in Documents |-> status'[d]],
           RequestsApart', request' = [p \in Requests |-> request'[p]],
           \A r \in Returns : status'[r] \in Settled <=> status[r] \in Settled
    PROVE  QuantityInv'
<1>1. TotalBack(status') = TotalBack(status)
  BY SameReturns
<1>2. DOMAIN status' = Documents
  OBVIOUS
<1>3. ReturnsHold(status', returned')
  BY <1>1 DEF QuantityInv, ReturnsHold
<1> QED
  BY <1>2, <1>3 DEF QuantityInv

(* So do the steps on debts: a document follows its debt between the       *)
(* statuses it can be settled with.                                        *)
LEMMA FollowsSettled ==
    ASSUME QuantityInv, NEW d, NEW n, NEW row, Follow(d, n, row), UNCHANGED <<returned, request>>
    PROVE  QuantityInv'
<1>1. status' = [e \in Documents |-> status'[e]]
      /\ \A e \in Documents : /\ status'[e] \in Settled <=> status[e] \in Settled
                              /\ status[e] \notin Settled => status'[e] = status[e]
  <2>0. CASE d \notin Documents
    BY <2>0 DEF Follow, QuantityInv
  <2>1. CASE status[d] \notin Settled
    BY <2>1 DEF Follow, QuantityInv
  <2>2. CASE d \in Documents /\ status[d] \in Settled
    <3>1. PICK new : status' = [status EXCEPT ![d] = new] /\ new \in Settled
      BY <2>2 DEF Follow, Settled
    <3> QED
      BY <2>2, <3>1 DEF QuantityInv
  <2> QED
    BY <2>0, <2>1, <2>2
<1>2. RequestsApart'
  <2>1. "draft" \notin Settled
    BY DEF Settled
  <2>2. Returns \subseteq Documents
    BY DEF Documents
  <2> QED
    BY <1>1, <2>1, <2>2 DEF QuantityInv, RequestsApart, Busy
<1>3. request' = [p \in Requests |-> request'[p]]
  BY DEF QuantityInv
<1> QED
  BY <1>1, <1>2, <1>3, SameQuantity DEF Documents

(* A request begins, alone on its document.                                *)
LEMMA BeginsApart ==
    ASSUME Careful, QuantityInv, NEW q \in Requests, NEW d \in Documents,
           NEW does, NEW amount, Begin(q, does, d, amount),
           does = "checkout" => d \in Returns /\ status[d] = "draft",
           does = "cancel" => status[d] \in Settled
    PROVE  QuantityInv'
<1> DEFINE t == [does |-> does, on |-> d, debt |-> debt[d],
                 owing |-> status[d] \in {"partial", "debt"}, amount |-> amount]
<1>1. /\ request' = [request EXCEPT ![q] = t]
      /\ status' = status /\ returned' = returned
      /\ \A p \in Requests \ {q} : Busy(p) => request[p].on # d
  BY DEF Begin, Alone, Busy, invoiceVars
<1>2. request'[q] = t /\ \A p \in Requests \ {q} : request'[p] = request[p]
  BY <1>1 DEF QuantityInv
<1>3. t.does = does /\ t.on = d
  OBVIOUS
<1> HIDE DEF t
<1>4. RequestsApart'
  BY <1>1, <1>2, <1>3 DEF QuantityInv, RequestsApart, Busy
<1>5. request' = [p \in Requests |-> request'[p]]
  BY <1>1 DEF QuantityInv
<1> QED
  BY <1>1, <1>4, <1>5, SameQuantity DEF QuantityInv

(* A return is checked out or cancelled: it stands, or no more.            *)
LEMMA ReturnStands ==
    ASSUME QuantityInv, NEW q \in Requests, CheckOut(q) \/ CancelReturn(q)
    PROVE  QuantityInv'
<1> DEFINE r == request[q].on
<1>0. "draft" \notin Settled /\ "cancelled" \notin Settled
  BY DEF Settled
<1>1. Busy(q) /\ End(q)
  BY DEF CheckOut, CancelReturn, Busy
<1>2. r \in Returns /\ r \in Documents /\ Returns \subseteq Documents
  BY DEF CheckOut, CancelReturn, QuantityInv, RequestsApart, Documents
<1>3. PICK new : status' = [status EXCEPT ![r] = new]
                 /\ (CheckOut(q) => new \in Settled) /\ (CancelReturn(q) => new = "cancelled")
  <2>1. CASE CheckOut(q)
    <3>1. PICK paid \in 0..NetAmount(r) : status' = [status EXCEPT ![r] = IssuedAs(NetAmount(r), paid)]
      BY <2>1 DEF CheckOut
    <3>2. IssuedAs(NetAmount(r), paid) \in Settled
      BY DEF IssuedAs, Settled
    <3>3. ~CancelReturn(q)
      BY <2>1 DEF CheckOut, CancelReturn
    <3> QED
      BY <3>1, <3>2, <3>3
  <2>2. CASE CancelReturn(q)
    BY <2>2 DEF CheckOut, CancelReturn
  <2> QED
    BY <2>1, <2>2
<1>4. status' = [e \in Documents |-> status'[e]] /\ status'[r] = new
      /\ \A e \in Documents \ {r} : status'[e] = status[e]
  BY <1>2, <1>3 DEF QuantityInv
<1>5. RequestsApart' /\ request' = [p \in Requests |-> request'[p]]
  BY <1>1, <1>4, StaysApart DEF DocumentKept
<1>6. Back[r] \in Nat /\ Sold \in Nat /\ returned \in Nat /\ TotalBack(status) \in Nat
  BY <1>2, Amounts, ReturnsAreHeld DEF QuantityInv, Numbers
<1>7. returned = TotalBack(status) /\ returned <= Sold
  BY DEF QuantityInv, ReturnsHold
<1>8. [s \in Returns |-> 0] \in Numbers
  BY DEF Numbers
<1>9. returned' \in Nat /\ ReturnsHold(status', returned')
  <2>1. CASE CheckOut(q)
    <3>1. status[r] \notin Settled /\ status'[r] \in Settled
      BY <1>0, <1>3, <1>4, <2>1 DEF CheckOut, QuantityInv, RequestsApart
    <3>2. TotalBack(status') = TotalBack(status) + Back[r]
      <4> HIDE DEF r
      <4>1. \A s \in Returns \ {r} : status'[s] \in Settled <=> status[s] \in Settled
        BY <1>2, <1>4
      <4>2. ASSUME NEW st, st = status'
            PROVE  TotalBack(st) = TotalBack(status) + Back[r]
        BY <1>2, <3>1, <4>1, <4>2, BackJoins
      <4> QED
        BY <4>2
    <3>3. returned' = returned + Back[r] /\ returned + Back[r] <= Sold
      BY <2>1 DEF CheckOut, StillOut
    <3> HIDE DEF r
    <3> QED
      BY <1>6, <1>7, <3>2, <3>3 DEF ReturnsHold
  <2>2. CASE CancelReturn(q)
    <3>1. status[r] \in Settled /\ status'[r] \notin Settled
      BY <1>0, <1>3, <1>4, <2>2 DEF CancelReturn, QuantityInv, RequestsApart
    <3>2. TotalBack(status) = TotalBack(status') + Back[r]
      <4> HIDE DEF r
      <4>1. \A s \in Returns \ {r} : status'[s] \in Settled <=> status[s] \in Settled
        BY <1>2, <1>4
      <4>2. ASSUME NEW st, st = status'
            PROVE  TotalBack(status) = TotalBack(st) + Back[r]
        BY <1>2, <3>1, <4>1, <4>2, BackJoins
      <4> QED
        BY <4>2
    <3>3. returned' = returned - Back[r] /\ returned >= Back[r]
      BY <2>2 DEF CancelReturn, Revocable
    <3>4. TotalBack(status') \in Nat
      BY TotalsAreNat
    <3> HIDE DEF r
    <3> QED
      BY <1>6, <1>7, <3>2, <3>3, <3>4 DEF ReturnsHold
  <2> QED
    BY <2>1, <2>2
<1> QED
  BY <1>4, <1>5, <1>9 DEF QuantityInv

(* Every step keeps the quantities.                                        *)
LEMMA QuantityStep ==
    ASSUME Careful, QuantityInv, [Next]_vars
    PROVE  QuantityInv'
<1>0. "draft" \notin Settled /\ "cancelled" \notin Settled /\ "none" \notin Settled
      /\ Returns \subseteq Documents /\ Sale \in Documents /\ Sale \notin Returns
  BY Amounts DEF Settled, Documents
<1>1. CASE UNCHANGED <<status, returned, request>>
  BY <1>1, SameQuantity DEF QuantityInv, RequestsApart, Busy
<1>2. ASSUME NEW r \in Returns, DraftReturn(r) PROVE QuantityInv'
  <2>1. status[r] = "none" /\ status' = [status EXCEPT ![r] = "draft"] /\ UNCHANGED <<returned, request>>
    BY <1>2 DEF DraftReturn
  <2>2. status'[r] = "draft" /\ \A d \in Documents \ {r} : status'[d] = status[d]
    BY <1>0, <2>1 DEF QuantityInv
  <2>3. RequestsApart' /\ request' = [p \in Requests |-> request'[p]]
    BY <1>0, <2>1, <2>2 DEF QuantityInv, RequestsApart, Busy
  <2>4. status' = [d \in Documents |-> status'[d]]
    BY <2>1 DEF QuantityInv
  <2> QED
    BY <1>0, <2>1, <2>2, <2>3, <2>4, SameQuantity
<1>3. ASSUME NEW q \in Requests, NEW r \in Returns, BeginCheckout(q, r) PROVE QuantityInv'
  BY <1>0, <1>3, BeginsApart DEF BeginCheckout
<1>4. ASSUME NEW q \in Requests, NEW d \in Documents, BeginCancel(q, d) PROVE QuantityInv'
  BY <1>4, BeginsApart DEF BeginCancel
<1>5. ASSUME NEW q \in Requests, NEW d \in Documents, NEW n \in 1..Sold, BeginPay(q, d, n)
      PROVE  QuantityInv'
  BY <1>5, BeginsApart DEF BeginPay
<1>6. ASSUME NEW q \in Requests, CheckOut(q) \/ CancelReturn(q) PROVE QuantityInv'
  BY <1>6, ReturnStands
<1>7. ASSUME NEW q \in Requests, CancelSale(q) PROVE QuantityInv'
  <2>1. /\ Busy(q) /\ End(q) /\ request[q].on = Sale
        /\ status' = [status EXCEPT ![Sale] = "cancelled"] /\ returned' = returned
    BY <1>7 DEF CancelSale, Busy
  <2>2. \A d \in Documents \ {Sale} : status'[d] = status[d]
    BY <2>1 DEF QuantityInv
  <2>3. RequestsApart' /\ request' = [p \in Requests |-> request'[p]]
    BY <2>1, <2>2, StaysApart DEF DocumentKept
  <2>4. status' = [d \in Documents |-> status'[d]]
    BY <2>1 DEF QuantityInv
  <2> QED
    BY <1>0, <2>1, <2>2, <2>3, <2>4, SameQuantity
<1>8. ASSUME NEW q \in Requests, Busy(q), End(q), UNCHANGED <<status, returned>> PROVE QuantityInv'
  <2>1. RequestsApart' /\ request' = [p \in Requests |-> request'[p]]
    BY <1>8, StaysApart DEF DocumentKept
  <2> QED
    BY <1>8, <2>1, SameQuantity DEF QuantityInv
<1>9. ASSUME NEW q \in Requests, Refused(q) PROVE QuantityInv'
  BY <1>8, <1>9 DEF Refused, Busy, invoiceVars
<1>10. ASSUME NEW q \in Requests, NEW c \in Receipts, Pay(q, c) PROVE QuantityInv'
  BY <1>8, <1>10 DEF Pay, Busy, invoiceVars
<1>11. ASSUME NEW c \in Receipts, NEW d \in Documents, NEW n \in 1..Sold, Collect(c, d, n)
       PROVE  QuantityInv'
  BY <1>11, FollowsSettled DEF Collect
<1>12. ASSUME NEW c \in Receipts, ReverseReceipt(c) PROVE QuantityInv'
  BY <1>12, FollowsSettled DEF ReverseReceipt
<1>13. ASSUME NEW r \in Returns, SpendCredit(r) PROVE QuantityInv'
  BY <1>1, <1>13 DEF SpendCredit, invoiceVars
<1>14. CASE UNCHANGED vars
  BY <1>1, <1>14 DEF vars, invoiceVars
<1> QED
  BY <1>2, <1>3, <1>4, <1>5, <1>6, <1>7, <1>9, <1>10, <1>11, <1>12, <1>13, <1>14 DEF Next

(* At first nothing has come back.                                         *)
LEMMA QuantityInit == Init => QuantityInv
<1> SUFFICES ASSUME Init PROVE QuantityInv
  OBVIOUS
<1>1. AfterSaleInv
  BY AfterSaleInit
<1>2. RequestsApart
  BY DEF Init, RequestsApart, Busy, Idle, Documents
<1>3. status = [d \in Documents |-> status[d]] /\ DOMAIN status = Documents
  BY DEF Init
<1>4. request = [q \in Requests |-> request[q]] /\ returned \in Nat
  BY DEF Init
<1> QED
  BY <1>1, <1>2, <1>3, <1>4, InvFacts DEF QuantityInv

(* What counts as returned is what the returns that stand took back, and    *)
(* never more than was sold, for any returns and any order of them.        *)
THEOREM ReturnsAlwaysAddUp ==
    ASSUME Careful
    PROVE  Spec => []ReturnsAddUp
<1>1. QuantityInv /\ [Next]_vars => QuantityInv'
  BY QuantityStep
<1>2. QuantityInv => ReturnsAddUp
  BY ReturnsAreHeld DEF QuantityInv
<1> QED
  BY <1>1, <1>2, QuantityInit, PTL DEF Spec
=============================================================================
