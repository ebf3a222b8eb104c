----------------------------- MODULE FundsProofs -----------------------------
(***************************************************************************)
(* Proofs about Funds, for any funds, vouchers, transfers and requests, and *)
(* with nothing asked of the users.  The invariant follows each transaction *)
(* from its locks to its commit: what it will write makes up, voucher by    *)
(* voucher, the difference between the rows it holds as they are and as     *)
(* they become.                                                            *)
(***************************************************************************)
EXTENDS Funds, SumTheorems

-----------------------------------------------------------------------------
RowsOf == UNION {[S -> VoucherRows] : S \in SUBSET Papers}

Transactions ==
    [on : Vouchers \cup Moves \cup {None}, rows : RowsOf, becomes : MoveStates,
     legs : Seq(Movements), wrote : Seq(Writes)]

\* A row with movements of its own names a fund; only a reversed one gave back.
Live(row) == row.state \in {"posted", "reversed"}
RowSound(row) ==
    /\ Live(row) => row.fund \in AllFunds
    /\ row.state = "posted" => row.back = 0

Typed ==
    /\ balance \in [AllFunds -> Int]
    /\ moved \in [AllFunds -> Int]
    /\ inTransit \in Int
    /\ voucher \in [Papers -> VoucherRows]
    /\ \A p \in Papers : RowSound(voucher[p])
    /\ posted \in [Papers -> Int]
    /\ cleared \in [Vouchers -> Int]
    /\ move \in [Moves -> MoveStates]
    /\ lock \in [DepositFunds -> Requests \cup {None}]
    /\ request \in [Requests -> Transactions]

\* A transaction moves money at most twice: in two funds, for two vouchers.
Apart(a, b) == a.fund # b.fund /\ a.paper # b.paper
Shaped(t) ==
    /\ Len(t.legs) + Len(t.wrote) <= 2
    /\ \A i, j \in DOMAIN t.legs : i # j => Apart(t.legs[i], t.legs[j])
    /\ \A i, j \in DOMAIN t.wrote : i # j => Apart(t.wrote[i], t.wrote[j])
    /\ \A i \in DOMAIN t.legs, j \in DOMAIN t.wrote : Apart(t.legs[i], t.wrote[j])

\* What the movements of a voucher must come to for its row to become t's.
Due(t, p) == Worth(p, t.rows[p]) - Worth(p, voucher[p])
Pays(t, a) == a.paper \in DOMAIN t.rows /\ a.delta = Due(t, a.paper)
Named(s, p) == \E i \in DOMAIN s : s[i].paper = p

\* Each movement is what its voucher is due, and none that is due is missing.
Balanced(t) ==
    /\ \A i \in DOMAIN t.legs : Pays(t, t.legs[i])
    /\ \A i \in DOMAIN t.wrote : Pays(t, t.wrote[i])
    /\ \A p \in DOMAIN t.rows :
          /\ RowSound(t.rows[p])
          /\ Named(t.legs, p) \/ Named(t.wrote, p) \/ Due(t, p) = 0

\* The row of a transfer's or swap's payment or receipt, once it is made.
Made(m, row) == Live(row) /\ row.total = Amount[m]

\* Which rows a transfer or swap in each status has.
MovesSound ==
    \A m \in Moves :
        /\ move[m] = "none" => voucher[Out(m)] = Absent
        /\ move[m] # "none" => Made(m, voucher[Out(m)])
        /\ move[m] # "done" => voucher[In(m)] = Absent
        /\ move[m] = "done" => Made(m, voucher[In(m)])

\* Which rows a transaction holds, and what it makes of the status.
Planned(t) ==
    /\ t.on \in Vouchers => DOMAIN t.rows = {t.on} /\ t.becomes = "none"
    /\ t.on \in Moves =>
          /\ DOMAIN t.rows \subseteq {Out(t.on), In(t.on)}
          /\ \A p \in DOMAIN t.rows : Made(t.on, t.rows[p])
          /\ t.becomes = "none" => \A p \in DOMAIN t.rows : Made(t.on, voucher[p])
          /\ t.becomes # "none" =>
                /\ move[t.on] \in {"none", "moving"}
                /\ move[t.on] = "none" => Out(t.on) \in DOMAIN t.rows
                /\ t.becomes = "done" <=> In(t.on) \in DOMAIN t.rows

\* What was read of a deposit fund is still so, and its row is locked; what
\* was read of a fund that may not be overdrawn covers what is written.
ReadHolds(q, w) ==
    /\ w.fund \in DepositFunds => lock[w.fund] = q /\ balance[w.fund] = w.read
    /\ w.fund \notin MayOverdraw => w.read + w.delta >= 0

HeldApart ==
    \A p, q \in Requests : p # q => Held(p) \cap Held(q) = {}

TransactionSound(q) ==
    /\ request[q].on = None => request[q] = Idle
    /\ Shaped(request[q])
    /\ Balanced(request[q])
    /\ Planned(request[q])
    /\ \A i \in DOMAIN request[q].wrote : ReadHolds(q, request[q].wrote[i])

FundsInv ==
    /\ Typed
    /\ HeldApart
    /\ \A q \in Requests : TransactionSound(q)
    /\ MovesSound
    /\ BalancesAddUp
    /\ VouchersAddUp
    /\ TransitAddsUp

-----------------------------------------------------------------------------
(* The functions with rows for their values are typed by their domain.     *)
LEMMA RowsTyped ==
    /\ \A S \in SUBSET Papers : \A r \in [S -> VoucherRows] : r \in RowsOf
    /\ \A r \in RowsOf : DOMAIN r \subseteq Papers /\ \A p \in DOMAIN r : r[p] \in VoucherRows
  BY DEF RowsOf

(* The vouchers of different transfers are different, and none is one       *)
(* written by hand.                                                        *)
LEMMA PapersApart ==
    /\ \A m \in Moves : /\ Out(m) \in Papers \ Vouchers /\ In(m) \in Papers \ Vouchers
                         /\ Out(m) # In(m)
                         /\ SignOf(Out(m)) = -1 /\ SignOf(In(m)) = 1
    /\ \A m, n \in Moves : m # n => {Out(m), In(m)} \cap {Out(n), In(n)} = {}
    /\ \A p \in Papers : p \notin Vouchers => p[1] \in Moves /\ p \in {Out(p[1]), In(p[1])}
    /\ \A v \in Vouchers : v \in Papers /\ SignOf(v) \in {1, -1}
  BY FundsAssumption DEF Papers, Legs, Out, In, SignOf

(* The sums Funds works out are sums of a function over a finite set.      *)
LEMMA DeltaIsSum ==
    ASSUME NEW q \in Requests, NEW S, IsFiniteSet(S)
    PROVE  MapThenSumSet(LAMBDA i : request[q].wrote[i].delta, S)
               = Sum([i \in S |-> request[q].wrote[i].delta], S)
<1> DEFINE F == [i \in S |-> request[q].wrote[i].delta]
           P(k) == k = [s \in SUBSET S |->
                            IF s = {} THEN 0
                            ELSE LET x == CHOOSE x \in s : TRUE
                                 IN  request[q].wrote[x].delta + k[s \ {x}]]
<1>1. ASSUME NEW k PROVE P(k) <=> Folds(k, S, F)
  <2>1. \A s \in SUBSET S : s # {} => Pick(s) \in s /\ F[Pick(s)] = request[q].wrote[Pick(s)].delta
    BY DEF Pick
  <2> QED
    BY <2>1 DEF Folds, Pick
<1>5. MapThenSumSet(LAMBDA i : request[q].wrote[i].delta, S) = (CHOOSE k : P(k))[S]
  BY DEF MapThenSumSet, MapThenFoldSet
<1> HIDE DEF F, P
<1>2. \E k : P(k)
  BY <1>1, FoldExists
<1>3. P(CHOOSE k : P(k))
  BY <1>2
<1>4. Folds(CHOOSE k : P(k), S, F)
  BY <1>1, <1>3
<1>6. Sum(F, S) = (CHOOSE k : P(k))[S]
  BY <1>4, SumIsFold
<1> QED
  BY <1>5, <1>6 DEF F

(* The in-transit account as sums of functions.                            *)
LEMMA TransitNow ==
    TransitAddsUp <=> inTransit = Sum(OnTheWay, Moves) - Sum(cleared, Vouchers)
  BY DEF TransitAddsUp, Sum

(* The same after a step.                                                  *)
LEMMA TransitNext ==
    TransitAddsUp' <=> inTransit' = Sum(OnTheWay', Moves) - Sum(cleared', Vouchers)
  BY DEF TransitAddsUp, OnTheWay, Sum, MapThenSumSet, MapThenFoldSet

(* What a voucher's row is worth, and what is due for one, are integers.   *)
LEMMA WorthInt ==
    ASSUME NEW p \in Papers, NEW row \in VoucherRows
    PROVE  /\ Worth(p, row) \in Int
           /\ Live(row) => /\ SignOf(p) = 1 => Worth(p, row) = row.total - row.back
                           /\ SignOf(p) = -1 => Worth(p, row) = row.back - row.total
           /\ ~Live(row) => Worth(p, row) = 0
<1>1. row.total \in Int /\ row.back \in Int
  BY DEF VoucherRows
<1>2. SignOf(p) \in {1, -1}
  BY PapersApart
<1> DEFINE a == row.total
           b == row.back
           s == SignOf(p)
<1>3. Worth(p, row) = IF Live(row) THEN s * (a - b) ELSE 0
  BY DEF Worth, Live
<1> HIDE DEF a, b, s
<1>4. s = 1 => s * (a - b) = a - b
  BY <1>1 DEF a, b
<1>5. s = -1 => s * (a - b) = b - a
  BY <1>1 DEF a, b
<1>6. a - b \in Int /\ b - a \in Int
  BY <1>1 DEF a, b
<1> QED
  BY <1>2, <1>3, <1>4, <1>5, <1>6 DEF a, b, s

(* The elements of a transaction's sequences.                              *)
LEMMA Elements ==
    ASSUME NEW t \in Transactions
    PROVE  /\ DOMAIN t.legs = 1..Len(t.legs) /\ Len(t.legs) \in Nat
           /\ DOMAIN t.wrote = 1..Len(t.wrote) /\ Len(t.wrote) \in Nat
           /\ \A i \in DOMAIN t.legs : t.legs[i] \in Movements
           /\ \A i \in DOMAIN t.wrote : t.wrote[i] \in Writes
<1>1. t.legs \in Seq(Movements) /\ t.wrote \in Seq(Writes)
  BY DEF Transactions
<1> DEFINE l == t.legs
           w == t.wrote
<1>2. l \in Seq(Movements) /\ w \in Seq(Writes)
  BY <1>1
<1> HIDE DEF l, w
<1>3. /\ DOMAIN l = 1..Len(l) /\ Len(l) \in Nat /\ \A i \in DOMAIN l : l[i] \in Movements
      /\ DOMAIN w = 1..Len(w) /\ Len(w) \in Nat /\ \A i \in DOMAIN w : w[i] \in Writes
  BY <1>2
<1> QED
  BY <1>3 DEF l, w

(* What a transaction writes, by fund, by voucher and altogether.          *)
LEMMA WrittenOnce ==
    ASSUME NEW q \in Requests, request[q] \in Transactions, Shaped(request[q])
    PROVE  /\ Worked(q, {}) = 0
           /\ Total(q) \in Int
           /\ \A i \in DOMAIN request[q].wrote :
                 /\ Worked(q, {i}) = request[q].wrote[i].delta
                 /\ Written(q, request[q].wrote[i].fund) = {i}
                 /\ InName(q, request[q].wrote[i].paper) = {i}
           /\ Len(request[q].wrote) \in {0, 1, 2}
           /\ Len(request[q].wrote) = 2 =>
                 Total(q) = Worked(q, {1}) + Worked(q, {2})
<1> DEFINE wrote == request[q].wrote
           D(S) == [i \in S |-> wrote[i].delta]
<1>1. /\ DOMAIN wrote = 1..Len(wrote) /\ Len(wrote) \in {0, 1, 2}
      /\ \A i \in DOMAIN wrote : wrote[i].delta \in Int
  <2>1. Len(request[q].legs) \in Nat /\ Len(wrote) \in Nat /\ DOMAIN wrote = 1..Len(wrote)
        /\ \A i \in DOMAIN wrote : wrote[i] \in Writes
    BY Elements
  <2>2. Len(request[q].legs) + Len(wrote) <= 2
    BY DEF Shaped
  <2>3. \A m, n \in Nat : m + n <= 2 => n \in {0, 1, 2}
    OBVIOUS
  <2>4. Len(wrote) \in {0, 1, 2}
    BY <2>1, <2>2, <2>3
  <2>5. \A w \in Writes : w.delta \in Int
    BY DEF Writes
  <2> QED
    BY <2>1, <2>4, <2>5
<1>2. IsFiniteSet({}) /\ \A i : IsFiniteSet({i})
  BY FS_EmptySet, FS_Singleton
<1>3. Worked(q, {}) = 0
  <2>1. Worked(q, {}) = Sum(D({}), {})
    BY <1>2, DeltaIsSum DEF Worked
  <2> QED
    BY <2>1, SumEmpty
<1>4. ASSUME NEW i \in DOMAIN wrote PROVE Worked(q, {i}) = wrote[i].delta
  <2> DEFINE d == D({i})
  <2>1. Worked(q, {i}) = Sum(d, {i})
    BY <1>2, DeltaIsSum DEF Worked
  <2>2. d[i] = wrote[i].delta /\ d[i] \in Int
    BY <1>1
  <2> HIDE DEF d
  <2>3. Sum(d, {i}) = d[i]
    BY <2>2, SumOne
  <2> QED
    BY <2>1, <2>2, <2>3
<1>5. ASSUME NEW i \in DOMAIN wrote
      PROVE  Written(q, wrote[i].fund) = {i} /\ InName(q, wrote[i].paper) = {i}
  <2>1. \A j \in DOMAIN wrote : j # i => wrote[j].fund # wrote[i].fund /\ wrote[j].paper # wrote[i].paper
    BY DEF Shaped, Apart
  <2> QED
    BY <2>1 DEF Written, InName
<1>6. Len(wrote) = 2 => Total(q) = Worked(q, {1}) + Worked(q, {2})
  <2> SUFFICES ASSUME Len(wrote) = 2 PROVE Total(q) = Worked(q, {1}) + Worked(q, {2})
    OBVIOUS
  <2>1. DOMAIN wrote = {1} \cup {2} /\ 2 \notin {1} /\ 1 \in DOMAIN wrote /\ 2 \in DOMAIN wrote
    BY <1>1
  <2> DEFINE d == D({1} \cup {2})
  <2>2. IsFiniteSet({1} \cup {2})
    BY <1>2, FS_AddElement
  <2>3. Total(q) = Sum(d, {1} \cup {2})
    BY <2>1, <2>2, DeltaIsSum DEF Total, Worked
  <2>4. d[1] = wrote[1].delta /\ d[2] = wrote[2].delta /\ d[1] \in Int /\ d[2] \in Int
    BY <1>1, <2>1
  <2> HIDE DEF d
  <2>5. Sum(d, {1} \cup {2}) = Sum(d, {1}) + d[2]
    <3>1. \A y \in {1} : d[y] \in Int
      BY <2>4
    <3>2. IsFiniteSet({1})
      BY <1>2
    <3> QED
      BY <2>1, <2>4, <3>1, <3>2, SumAdd
  <2>6. Sum(d, {1}) = d[1]
    BY <2>4, SumOne
  <2>7. Worked(q, {1}) = d[1] /\ Worked(q, {2}) = d[2]
    BY <1>4, <2>1, <2>4
  <2> QED
    BY <2>3, <2>5, <2>6, <2>7
<1>7. Total(q) \in Int
  <2>1. CASE Len(wrote) = 0
    <3>1. DOMAIN wrote = {}
      BY <1>1, <2>1
    <3> QED
      BY <1>3, <3>1 DEF Total
  <2>2. CASE Len(wrote) = 1
    <3>1. DOMAIN wrote = {1}
      BY <1>1, <2>2
    <3> QED
      BY <1>1, <1>4, <3>1 DEF Total
  <2>3. CASE Len(wrote) = 2
    <3>1. 1 \in DOMAIN wrote /\ 2 \in DOMAIN wrote
      BY <1>1, <2>3
    <3>2. Worked(q, {1}) \in Int /\ Worked(q, {2}) \in Int
      BY <1>1, <1>4, <3>1
    <3> QED
      BY <1>6, <2>3, <3>2
  <2> QED
    BY <1>1, <2>1, <2>2, <2>3
<1> QED
  BY <1>1, <1>3, <1>4, <1>5, <1>6, <1>7

-----------------------------------------------------------------------------
(* A step that changes no row and no balance keeps what the books say, and  *)
(* what is said of a transaction's rows.                                   *)
LEMMA BooksKept ==
    ASSUME FundsInv, UNCHANGED <<books, voucher, move>>
    PROVE  /\ MovesSound' /\ BalancesAddUp' /\ VouchersAddUp' /\ TransitAddsUp'
           /\ \A t : (Balanced(t) => Balanced(t)') /\ (Planned(t) => Planned(t)')
<1>1. MovesSound' /\ BalancesAddUp' /\ VouchersAddUp'
  BY DEF FundsInv, books, MovesSound, BalancesAddUp, VouchersAddUp
<1>2. TransitAddsUp'
  <2>1. OnTheWay' = OnTheWay /\ cleared' = cleared /\ inTransit' = inTransit
    BY DEF OnTheWay, books
  <2> QED
    BY <2>1, TransitNow, TransitNext DEF FundsInv
<1>3. \A t : (Balanced(t) => Balanced(t)') /\ (Planned(t) => Planned(t)')
  BY DEF Balanced, Planned, Pays, Due
<1> QED
  BY <1>1, <1>2, <1>3

(* The books add up in the initial states.                                 *)
LEMMA FundsInit == Init => FundsInv
<1> SUFFICES ASSUME Init PROVE FundsInv
  OBVIOUS
<1> USE DEF Init
<1>1. Absent \in VoucherRows /\ RowSound(Absent) /\ ~Live(Absent)
  BY DEF Absent, VoucherRows, RowSound, Live
<1>2. Idle \in Transactions
  <2>1. Idle.rows \in [{} -> VoucherRows]
    BY DEF Idle
  <2>2. Idle.rows \in RowsOf
    BY <2>1, RowsTyped
  <2> QED
    BY <2>2 DEF Idle, Transactions, MoveStates
<1>3. Typed
  BY <1>1, <1>2, FundsAssumption DEF Typed, MoveStates
<1>4. HeldApart
  <2>1. \A q \in Requests : Held(q) = {}
    BY DEF Held, Idle
  <2> QED
    BY <2>1 DEF HeldApart
<1>5. ASSUME NEW q \in Requests PROVE TransactionSound(q)
  <2>1. request[q] = Idle
    OBVIOUS
  <2>2. Shaped(Idle) /\ DOMAIN Idle.rows = {} /\ DOMAIN Idle.legs = {} /\ DOMAIN Idle.wrote = {}
    BY DEF Shaped, Idle
  <2>3. Balanced(Idle)
    BY <2>2 DEF Balanced
  <2>4. Planned(Idle)
    BY <2>2, FundsAssumption DEF Planned, Idle
  <2> QED
    BY <2>1, <2>2, <2>3, <2>4 DEF TransactionSound
<1>6. MovesSound
  BY PapersApart DEF MovesSound
<1>7. BalancesAddUp
  BY FundsAssumption DEF BalancesAddUp
<1>8. VouchersAddUp
  BY <1>1, WorthInt DEF VouchersAddUp
<1>9. TransitAddsUp
  <2>1. /\ \A m \in Moves : OnTheWay[m] = 0
        /\ \A v \in Vouchers : cleared[v] = 0
    BY PapersApart DEF OnTheWay, Absent
  <2>2. ASSUME NEW S, IsFiniteSet(S), NEW f, \A x \in S : f[x] = 0
        PROVE  Sum(f, S) = 0
    <3>1. {} \subseteq S /\ \A x \in {} : f[x] \in Int
      OBVIOUS
    <3>2. \A x \in S : f[x] = IF x \in {} THEN f[x] ELSE 0
      BY <2>2
    <3>3. Sum(f, {}) = Sum(f, S)
      BY <2>2, <3>1, <3>2, SumFiltered
    <3> QED
      BY <3>3, SumEmpty
  <2>3. Sum(OnTheWay, Moves) = 0 /\ Sum(cleared, Vouchers) = 0
    BY <2>1, <2>2, FundsAssumption
  <2> QED
    BY <2>3, TransitNow
<1> QED
  BY <1>3, <1>4, <1>5, <1>6, <1>7, <1>8, <1>9 DEF FundsInv

-----------------------------------------------------------------------------
(* A transaction begins: it alone holds its rows, and what it will write    *)
(* makes up the differences.                                               *)
LEMMA BeginKeeps ==
    ASSUME FundsInv, NEW q \in Requests, NEW x \in Vouchers \cup Moves, NEW rows \in RowsOf,
           NEW becomes \in MoveStates, NEW legs \in Seq(Movements),
           NEW t, t = [on |-> x, rows |-> rows, becomes |-> becomes, legs |-> legs, wrote |-> <<>>],
           Len(legs) <= 2,
           \A i, j \in DOMAIN legs : i # j => Apart(legs[i], legs[j]),
           Balanced(t), Planned(t),
           Begin(q, x, rows, becomes, legs)
    PROVE  FundsInv'
<1>1. /\ request[q] = Idle
      /\ request' = [request EXCEPT ![q] = t]
      /\ UNCHANGED <<books, voucher, move, lock>>
      /\ \A p \in DOMAIN rows : Unlocked(p)
      /\ becomes # "none" => Unlocked(x)
  BY DEF Begin
<1>2. t \in Transactions
  BY DEF Transactions
<1>3. request \in [Requests -> Transactions]
  BY DEF FundsInv, Typed
<1>4. Typed'
  <2>1. request' \in [Requests -> Transactions]
    BY <1>1, <1>2, <1>3
  <2> QED
    BY <1>1, <2>1 DEF FundsInv, Typed, books
<1>5. request'[q] = t /\ \A p \in Requests : p # q => request'[p] = request[p]
  BY <1>1, <1>3
<1>6. HeldApart'
  <2>1. \A p \in Requests : p # q => Held(p)' = Held(p)
    BY <1>5 DEF Held
  <2>2. Held(q)' = DOMAIN rows \cup (IF becomes = "none" THEN {} ELSE {x})
    BY <1>5 DEF Held
  <2>3. \A p \in Requests : Held(p) \cap Held(q)' = {}
    BY <1>1, <2>2 DEF Unlocked
  <2>4. \A a, b \in Requests : a # b => Held(a) \cap Held(b) = {}
    BY DEF FundsInv, HeldApart
  <2> QED
    BY <2>1, <2>3, <2>4 DEF HeldApart
<1>7. UNCHANGED <<books, voucher, move>>
  BY <1>1
<1>8. ASSUME NEW p \in Requests PROVE TransactionSound(p)'
  <2>1. CASE p = q
    <3>1. t.on # None /\ DOMAIN t.wrote = {}
      BY FundsAssumption
    <3>2. Shaped(t)
      BY DEF Shaped
    <3>3. Balanced(t)' /\ Planned(t)'
      BY <1>7, BooksKept
    <3> QED
      BY <1>5, <2>1, <3>1, <3>2, <3>3 DEF TransactionSound, Shaped, Balanced, Planned, Pays, Due
  <2>2. CASE p # q
    <3>1. request'[p] = request[p]
      BY <1>5, <2>2
    <3>2. TransactionSound(p)
      BY DEF FundsInv
    <3>3. Balanced(request[p])' /\ Planned(request[p])'
      BY <1>1, <3>1, <3>2 DEF TransactionSound, Balanced, Planned, Pays, Due
    <3>4. \A i \in DOMAIN request[p].wrote : ReadHolds(p, request[p].wrote[i])'
      BY <1>1, <3>1, <3>2 DEF TransactionSound, ReadHolds, books
    <3> QED
      BY <3>1, <3>2, <3>3, <3>4 DEF TransactionSound, Shaped
  <2> QED
    BY <2>1, <2>2
<1>9. MovesSound' /\ BalancesAddUp' /\ VouchersAddUp' /\ TransitAddsUp'
  BY <1>7, BooksKept
<1> QED
  BY <1>4, <1>6, <1>8, <1>9 DEF FundsInv

(* A transaction on one voucher, with one movement of what the voucher is   *)
(* due, or with none when that is nothing.                                 *)
LEMMA BeginOne ==
    ASSUME FundsInv, NEW q \in Requests, NEW x \in Vouchers \cup Moves, NEW p \in Papers,
           NEW row \in VoucherRows, RowSound(row), NEW becomes \in MoveStates,
           NEW f \in AllFunds, NEW d \in Int,
           d = Worth(p, row) - Worth(p, voucher[p]),
           NEW legs, legs = <<Movement(p, f, d)>> \/ (d = 0 /\ legs = <<>>),
           NEW rows, DOMAIN rows = {p}, rows = [y \in {p} |-> rows[y]], rows[p] = row,
           Planned([on |-> x, rows |-> rows, becomes |-> becomes, legs |-> legs, wrote |-> <<>>]),
           Begin(q, x, rows, becomes, legs)
    PROVE  FundsInv'
<1> DEFINE t == [on |-> x, rows |-> rows, becomes |-> becomes, legs |-> legs, wrote |-> <<>>]
<1>1. rows \in RowsOf
  <2>1. rows \in [{p} -> VoucherRows] /\ {p} \in SUBSET Papers
    OBVIOUS
  <2> QED
    BY <2>1, RowsTyped
<1>2. /\ t.on = x /\ t.rows = rows /\ t.becomes = becomes /\ t.legs = legs /\ t.wrote = <<>>
      /\ Planned(t)
      /\ t = [on |-> x, rows |-> rows, becomes |-> becomes, legs |-> legs, wrote |-> <<>>]
  OBVIOUS
<1> HIDE DEF t
<1>3. Due(t, p) = d
  BY <1>2 DEF Due
<1>4. CASE legs = <<Movement(p, f, d)>>
  <2>1. Movement(p, f, d) \in Movements
    BY DEF Movement, Movements
  <2>2. /\ legs \in Seq(Movements) /\ Len(legs) <= 2 /\ DOMAIN legs = {1}
        /\ legs[1].paper = p /\ legs[1].delta = d
    BY <1>4, <2>1 DEF Movement
  <2>3. Balanced(t)
    <3>1. Named(t.legs, p)
      BY <1>2, <2>2 DEF Named
    <3>2. DOMAIN t.wrote = {}
      BY <1>2
    <3> QED
      BY <1>2, <1>3, <2>2, <3>1, <3>2 DEF Balanced, Pays
  <2> QED
    BY <1>1, <1>2, <2>2, <2>3, BeginKeeps
<1>5. CASE d = 0 /\ legs = <<>>
  <2>1. legs \in Seq(Movements) /\ Len(legs) <= 2 /\ DOMAIN legs = {}
    BY <1>5
  <2>2. Balanced(t)
    <3>1. DOMAIN t.wrote = {} /\ DOMAIN t.legs = {}
      BY <1>2, <2>1
    <3> QED
      BY <1>2, <1>3, <1>5, <3>1 DEF Balanced
  <2> QED
    BY <1>1, <1>2, <2>1, <2>2, BeginKeeps
<1> QED
  BY <1>4, <1>5

(* A voucher written by hand: a transaction on it is planned if it holds    *)
(* its row alone.                                                          *)
LEMMA HandPlanned ==
    ASSUME NEW v \in Vouchers, NEW rows, DOMAIN rows = {v}, NEW legs
    PROVE  Planned([on |-> v, rows |-> rows, becomes |-> "none", legs |-> legs, wrote |-> <<>>])
  BY FundsAssumption DEF Planned

(* What the movements of each operation on one voucher are due.            *)
LEMMA GiveBackDue ==
    ASSUME Typed, NEW p \in Papers, Live(voucher[p])
    PROVE  /\ GivenBack(p) \in VoucherRows /\ RowSound(GivenBack(p)) /\ Live(GivenBack(p))
           /\ GivenBack(p).total = voucher[p].total
           /\ voucher[p].fund \in AllFunds
           /\ GiveBack(p).delta \in Int
           /\ GiveBack(p) = Movement(p, voucher[p].fund, GiveBack(p).delta)
           /\ GiveBack(p).delta = Worth(p, GivenBack(p)) - Worth(p, voucher[p])
<1>1. voucher[p] \in VoucherRows /\ voucher[p].fund \in AllFunds
  BY DEF Typed, RowSound
<1> DEFINE a == voucher[p].total
           b == voucher[p].back
           s == SignOf(p)
           g == GivenBack(p)
<1>2. a \in Nat /\ b \in Nat
  BY <1>1 DEF VoucherRows
<1>3. /\ g \in VoucherRows /\ g.state = "reversed" /\ g.total = a /\ g.back = b + a
      /\ g.fund = voucher[p].fund
  <2> DEFINE r == voucher[p]
  <2>1. r \in VoucherRows /\ r.back + r.total \in Nat
    BY <1>1, <1>2
  <2>2. g = [r EXCEPT !.state = "reversed", !.back = r.back + r.total]
    BY DEF GivenBack
  <2> HIDE DEF r, g
  <2>3. /\ g \in VoucherRows /\ g.state = "reversed" /\ g.total = r.total
        /\ g.back = r.back + r.total /\ g.fund = r.fund
    BY <2>1, <2>2 DEF VoucherRows
  <2> QED
    BY <2>3 DEF r
<1>4. RowSound(g) /\ Live(g)
  BY <1>1, <1>3 DEF RowSound, Live
<1>5. GiveBack(p) = Movement(p, voucher[p].fund, GiveBack(p).delta) /\ GiveBack(p).delta = -(s * a)
  BY DEF GiveBack, Movement
<1>6. s \in {1, -1}
  BY PapersApart
<1> HIDE DEF s, g
<1>7. /\ s = 1 => Worth(p, g) = g.total - g.back /\ Worth(p, voucher[p]) = a - b
      /\ s = -1 => Worth(p, g) = g.back - g.total /\ Worth(p, voucher[p]) = b - a
  BY <1>1, <1>3, <1>4, WorthInt DEF s
<1> HIDE DEF a, b
<1>8. CASE s = 1
  <2>1. -(s * a) = -a
    BY <1>2, <1>8
  <2> QED
    BY <1>1, <1>2, <1>3, <1>4, <1>5, <1>7, <1>8, <2>1 DEF a, g
<1>9. CASE s = -1
  <2>1. -(s * a) = a
    BY <1>2, <1>9
  <2> QED
    BY <1>1, <1>2, <1>3, <1>4, <1>5, <1>7, <1>9, <2>1 DEF a, g
<1> QED
  BY <1>6, <1>8, <1>9

(* A posted row is sound, and posting it moves what it is worth.           *)
LEMMA PostDue ==
    ASSUME NEW p \in Papers, NEW f \in AllFunds, NEW n \in Nat, NEW clears \in BOOLEAN
    PROVE  LET row == Row(f, n, clears)
           IN  /\ row \in VoucherRows /\ RowSound(row) /\ Live(row) /\ row.total = n
               /\ row.fund = f
               /\ SignOf(p) * n \in Int
               /\ Worth(p, row) = SignOf(p) * n
               /\ Post(p, row) = Movement(p, f, SignOf(p) * n)
<1> DEFINE row == Row(f, n, clears)
<1>1. /\ row \in VoucherRows /\ RowSound(row) /\ Live(row) /\ row.total = n /\ row.back = 0
      /\ row.fund = f
  BY DEF Row, VoucherRows, RowSound, Live
<1> HIDE DEF row
<1>2. SignOf(p) \in {1, -1}
  BY PapersApart
<1>3. SignOf(p) * n \in Int /\ n - 0 = n
  BY <1>2
<1>4. Worth(p, row) = SignOf(p) * n
  BY <1>1, <1>3 DEF Worth, Live
<1> QED
  BY <1>1, <1>3, <1>4 DEF Post, row

(* Beginning work on a voucher written by hand.                            *)
LEMMA VoucherKept ==
    ASSUME FundsInv, NEW q \in Requests, NEW v \in Vouchers,
           \/ \E f \in FundsOf[v], n \in Amounts : BeginCreate(q, v, f, n) \/ BeginUpdate(q, v, f, n)
           \/ BeginDelete(q, v)
    PROVE  FundsInv'
<1>1. /\ v \in Papers /\ v \in Vouchers \cup Moves /\ "none" \in MoveStates
      /\ voucher[v] \in VoucherRows /\ RowSound(voucher[v])
      /\ SignOf(v) = Sign[v] /\ Sign[v] \in {1, -1}
      /\ Typed
  BY PapersApart, FundsAssumption DEF FundsInv, Typed, MoveStates, SignOf
<1>2. ASSUME NEW f \in FundsOf[v], NEW n \in Amounts, BeginCreate(q, v, f, n)
      PROVE  FundsInv'
  <2>1. PICK clears \in Contras(v) :
           Begin(q, v, [p \in {v} |-> Row(f, n, clears)], "none", <<Post(v, Row(f, n, clears))>>)
    BY <1>2 DEF BeginCreate
  <2> DEFINE row == Row(f, n, clears)
             d == SignOf(v) * n
             rows == [p \in {v} |-> row]
             legs == <<Movement(v, f, d)>>
  <2>2. f \in AllFunds /\ n \in Nat /\ clears \in BOOLEAN
    BY FundsAssumption DEF Contras
  <2>3. /\ row \in VoucherRows /\ RowSound(row) /\ Worth(v, row) = d /\ d \in Int
        /\ Post(v, row) = Movement(v, f, d)
    BY <1>1, <2>2, PostDue
  <2>4. Worth(v, voucher[v]) = 0
    BY <1>1, <1>2, WorthInt DEF BeginCreate, Live
  <2>5. d = Worth(v, row) - Worth(v, voucher[v])
    BY <2>3, <2>4
  <2>6. DOMAIN rows = {v} /\ rows[v] = row /\ rows = [p \in {v} |-> rows[p]]
    OBVIOUS
  <2>7. Begin(q, v, rows, "none", legs)
    BY <2>1, <2>3
  <2> HIDE DEF row, d, rows
  <2>8. Planned([on |-> v, rows |-> rows, becomes |-> "none", legs |-> legs, wrote |-> <<>>])
    BY <2>6, HandPlanned
  <2>9. legs = <<Movement(v, f, d)>>
    OBVIOUS
  <2> HIDE DEF legs
  <2> QED
    BY <1>1, <2>2, <2>3, <2>5, <2>6, <2>7, <2>8, <2>9, BeginOne
<1>3. ASSUME NEW f \in FundsOf[v], NEW n \in Amounts, BeginUpdate(q, v, f, n)
      PROVE  FundsInv'
  <2>1. PICK clears \in Contras(v) :
           Begin(q, v, [p \in {v} |-> Row(f, n, clears)], "none", Adjustment(v, f, Difference(v, n)))
    BY <1>3 DEF BeginUpdate
  <2> DEFINE row == Row(f, n, clears)
             d == Difference(v, n)
             rows == [p \in {v} |-> row]
             legs == Adjustment(v, f, d)
  <2>2. f \in AllFunds /\ n \in Nat /\ clears \in BOOLEAN
    BY FundsAssumption DEF Contras
  <2>3. row \in VoucherRows /\ RowSound(row) /\ Worth(v, row) = SignOf(v) * n
    BY <1>1, <2>2, PostDue
  <2>4. d \in Int /\ d = Worth(v, row) - Worth(v, voucher[v])
    <3> DEFINE a == voucher[v].total
               s == SignOf(v)
    <3>1. a \in Nat /\ voucher[v].back = 0 /\ Live(voucher[v])
      BY <1>1, <1>3 DEF BeginUpdate, RowSound, VoucherRows, Live
    <3>2. d = s * (n - a) /\ s \in {1, -1}
      BY <1>1 DEF Difference
    <3>3. (s = 1 => Worth(v, voucher[v]) = a - 0) /\ (s = -1 => Worth(v, voucher[v]) = 0 - a)
      BY <1>1, <3>1, WorthInt
    <3>4. Worth(v, row) = s * n
      BY <2>3
    <3> HIDE DEF s, a, d, row
    <3>5. CASE s = 1
      BY <2>2, <3>1, <3>2, <3>3, <3>4, <3>5
    <3>6. CASE s = -1
      BY <2>2, <3>1, <3>2, <3>3, <3>4, <3>6
    <3> QED
      BY <3>2, <3>5, <3>6
  <2>5. DOMAIN rows = {v} /\ rows[v] = row /\ rows = [p \in {v} |-> rows[p]]
    OBVIOUS
  <2>6. Begin(q, v, rows, "none", legs)
    BY <2>1
  <2>7. legs = <<Movement(v, f, d)>> \/ (d = 0 /\ legs = <<>>)
    BY DEF Adjustment
  <2> HIDE DEF row, d, rows, legs
  <2>8. Planned([on |-> v, rows |-> rows, becomes |-> "none", legs |-> legs, wrote |-> <<>>])
    BY <2>5, HandPlanned
  <2> QED
    BY <1>1, <2>2, <2>3, <2>4, <2>5, <2>6, <2>7, <2>8, BeginOne
<1>4. ASSUME BeginDelete(q, v) PROVE FundsInv'
  <2> DEFINE row == [voucher[v] EXCEPT !.state = "deleted"]
             f == voucher[v].fund
             d == GiveBack(v).delta
             rows == [p \in {v} |-> row]
             legs == <<GiveBack(v)>>
  <2>1. Live(voucher[v]) /\ voucher[v].back = 0
    BY <1>1, <1>4 DEF BeginDelete, Live, RowSound
  <2>2. /\ f \in AllFunds /\ d \in Int /\ GiveBack(v) = Movement(v, f, d)
        /\ d = -(SignOf(v) * voucher[v].total)
    BY <1>1, <2>1, GiveBackDue DEF GiveBack, Movement
  <2>3. row \in VoucherRows /\ RowSound(row) /\ ~Live(row)
    BY <1>1 DEF VoucherRows, RowSound, Live
  <2>4. d = Worth(v, row) - Worth(v, voucher[v])
    <3> DEFINE a == voucher[v].total
               s == SignOf(v)
    <3>1. a \in Nat /\ s \in {1, -1} /\ d = -(s * a)
      BY <1>1, <2>2 DEF VoucherRows
    <3>2. (s = 1 => Worth(v, voucher[v]) = a - 0) /\ (s = -1 => Worth(v, voucher[v]) = 0 - a)
      BY <1>1, <2>1, WorthInt
    <3>3. Worth(v, row) = 0
      BY <1>1, <2>3, WorthInt
    <3> HIDE DEF s, a, d, row
    <3>4. CASE s = 1
      BY <3>1, <3>2, <3>3, <3>4
    <3>5. CASE s = -1
      BY <3>1, <3>2, <3>3, <3>5
    <3> QED
      BY <3>1, <3>4, <3>5
  <2>5. DOMAIN rows = {v} /\ rows[v] = row /\ rows = [p \in {v} |-> rows[p]]
    OBVIOUS
  <2>6. Begin(q, v, rows, "none", legs)
    BY <1>4 DEF BeginDelete
  <2>7. legs = <<Movement(v, f, d)>>
    BY <2>2
  <2> HIDE DEF row, d, f, rows, legs
  <2>8. Planned([on |-> v, rows |-> rows, becomes |-> "none", legs |-> legs, wrote |-> <<>>])
    BY <2>5, HandPlanned
  <2> QED
    BY <1>1, <2>2, <2>3, <2>4, <2>5, <2>6, <2>7, <2>8, BeginOne
<1> QED
  BY <1>2, <1>3, <1>4

(* A reversal gives a voucher's money back, whatever the voucher is for.    *)
LEMMA ReverseKept ==
    ASSUME FundsInv, NEW q \in Requests, NEW p \in Papers, BeginReverse(q, p)
    PROVE  FundsInv'
<1> DEFINE x == IF p \in Vouchers THEN p ELSE p[1]
           rows == [y \in {p} |-> GivenBack(p)]
           legs == <<GiveBack(p)>>
           row == GivenBack(p)
           f == voucher[p].fund
           d == GiveBack(p).delta
<1>1. Live(voucher[p]) /\ Begin(q, x, rows, "none", legs)
  BY DEF BeginReverse, Reversible, Live
<1>2. /\ row \in VoucherRows /\ RowSound(row) /\ Live(row)
      /\ row.total = voucher[p].total
      /\ f \in AllFunds /\ d \in Int /\ d = Worth(p, row) - Worth(p, voucher[p])
      /\ GiveBack(p) = Movement(p, f, d)
  BY <1>1, GiveBackDue DEF FundsInv
<1>3. x \in Vouchers \cup Moves /\ "none" \in MoveStates
  BY PapersApart DEF MoveStates
<1>4. DOMAIN rows = {p} /\ rows[p] = row /\ rows = [y \in {p} |-> rows[y]]
  OBVIOUS
<1>5. legs = <<Movement(p, f, d)>>
  BY <1>2
<1>6. Planned([on |-> x, rows |-> rows, becomes |-> "none", legs |-> legs, wrote |-> <<>>])
  <2>1. CASE p \in Vouchers
    <3> HIDE DEF rows, legs
    <3> QED
      BY <1>4, <2>1, HandPlanned
  <2>2. CASE p \notin Vouchers
    <3>1. x \in Moves /\ x \notin Vouchers /\ p \in {Out(x), In(x)}
      BY <2>2, PapersApart, FundsAssumption
    <3>2. Made(x, voucher[p])
      <4>1. ~Live(Absent)
        BY DEF Absent, Live
      <4>2. MovesSound /\ x \in Moves
        BY <3>1 DEF FundsInv
      <4> HIDE DEF x
      <4> QED
        BY <1>1, <3>1, <4>1, <4>2 DEF MovesSound
    <3>3. Made(x, row)
      BY <1>2, <3>2 DEF Made
    <3> HIDE DEF x, rows, legs, row
    <3> QED
      BY <1>4, <3>1, <3>2, <3>3 DEF Planned
  <2> QED
    BY <2>1, <2>2
<1> HIDE DEF x, rows, legs, row, f, d
<1> QED
  BY <1>1, <1>2, <1>3, <1>4, <1>5, <1>6, BeginOne

(* The rows of a transfer's or swap's payment and receipt, and what they    *)
(* move.                                                                   *)
LEMMA LegRows ==
    ASSUME NEW m \in Moves
    PROVE  /\ OutRow(m) \in VoucherRows /\ RowSound(OutRow(m)) /\ Made(m, OutRow(m))
           /\ InRow(m) \in VoucherRows /\ RowSound(InRow(m)) /\ Made(m, InRow(m))
           /\ From[m] \in AllFunds /\ To[m] \in AllFunds /\ From[m] # To[m]
           /\ -Amount[m] \in Int /\ Amount[m] \in Int
           /\ Worth(Out(m), OutRow(m)) = -Amount[m] /\ Worth(In(m), InRow(m)) = Amount[m]
           /\ PostOut(m) = Movement(Out(m), From[m], -Amount[m])
           /\ PostIn(m) = Movement(In(m), To[m], Amount[m])
           /\ Worth(Out(m), Absent) = 0 /\ Worth(In(m), Absent) = 0
<1>1. /\ From[m] \in AllFunds /\ To[m] \in AllFunds /\ From[m] # To[m] /\ Amount[m] \in Nat
      /\ TRUE \in BOOLEAN
  BY FundsAssumption
<1>2. Out(m) \in Papers /\ In(m) \in Papers /\ SignOf(Out(m)) = -1 /\ SignOf(In(m)) = 1
  BY PapersApart
<1>3. /\ OutRow(m) \in VoucherRows /\ RowSound(OutRow(m)) /\ Live(OutRow(m))
      /\ OutRow(m).total = Amount[m]
      /\ Worth(Out(m), OutRow(m)) = (-1) * Amount[m]
      /\ PostOut(m) = Movement(Out(m), From[m], (-1) * Amount[m])
  <2> DEFINE p == Out(m)
             row == Row(From[m], Amount[m], TRUE)
  <2>1. /\ row \in VoucherRows /\ RowSound(row) /\ Live(row) /\ row.total = Amount[m]
        /\ Worth(p, row) = SignOf(p) * Amount[m]
        /\ Post(p, row) = Movement(p, From[m], SignOf(p) * Amount[m])
    <3> HIDE DEF p
    <3>1. p \in Papers
      BY <1>2 DEF p
    <3> QED
      BY <1>1, <3>1, PostDue
  <2>2. SignOf(p) = -1
    BY <1>2
  <2> HIDE DEF p
  <2> QED
    BY <2>1, <2>2 DEF p, OutRow, PostOut
<1>4. /\ InRow(m) \in VoucherRows /\ RowSound(InRow(m)) /\ Live(InRow(m))
      /\ InRow(m).total = Amount[m]
      /\ Worth(In(m), InRow(m)) = 1 * Amount[m]
      /\ PostIn(m) = Movement(In(m), To[m], 1 * Amount[m])
  <2> DEFINE p == In(m)
             row == Row(To[m], Amount[m], TRUE)
  <2>1. /\ row \in VoucherRows /\ RowSound(row) /\ Live(row) /\ row.total = Amount[m]
        /\ Worth(p, row) = SignOf(p) * Amount[m]
        /\ Post(p, row) = Movement(p, To[m], SignOf(p) * Amount[m])
    <3> HIDE DEF p
    <3>1. p \in Papers
      BY <1>2 DEF p
    <3> QED
      BY <1>1, <3>1, PostDue
  <2>2. SignOf(p) = 1
    BY <1>2
  <2> HIDE DEF p
  <2> QED
    BY <2>1, <2>2 DEF p, InRow, PostIn
<1>5. (-1) * Amount[m] = -Amount[m] /\ 1 * Amount[m] = Amount[m] /\ -Amount[m] \in Int
  BY <1>1
<1>6. Worth(Out(m), Absent) = 0 /\ Worth(In(m), Absent) = 0
  BY DEF Worth, Absent
<1> QED
  BY <1>1, <1>3, <1>4, <1>5, <1>6 DEF Made

(* Beginning a step of a transfer or swap.                                 *)
LEMMA MoveKept ==
    ASSUME FundsInv, NEW q \in Requests, NEW m \in Moves,
           BeginSend(q, m) \/ BeginConfirm(q, m) \/ BeginCancel(q, m) \/ BeginSwap(q, m)
    PROVE  FundsInv'
<1>1. /\ m \in Vouchers \cup Moves /\ m \notin Vouchers
      /\ Out(m) \in Papers /\ In(m) \in Papers /\ Out(m) # In(m)
      /\ {"moving", "done", "cancelled", "oneLegged"} \subseteq MoveStates
  BY PapersApart, FundsAssumption DEF MoveStates
<1>2. /\ move[m] = "none" => voucher[Out(m)] = Absent
      /\ move[m] # "none" => Made(m, voucher[Out(m)])
      /\ move[m] # "done" => voucher[In(m)] = Absent
  BY DEF FundsInv, MovesSound
<1> DEFINE A == Amount[m]
<1>3. /\ -A \in Int /\ A \in Int /\ -A = -A - 0 /\ A = A - 0
  BY LegRows
<1> HIDE DEF A
<1>4. ASSUME NEW becomes \in MoveStates, becomes \in {"moving", "oneLegged"}, move[m] = "none",
             NEW rows, rows = [p \in {Out(m)} |-> OutRow(m)],
             Begin(q, m, rows, becomes, <<PostOut(m)>>)
      PROVE  FundsInv'
  <2> DEFINE legs == <<PostOut(m)>>
  <2>1. legs = <<Movement(Out(m), From[m], -A)>>
    BY LegRows DEF A
  <2>2. -A = Worth(Out(m), OutRow(m)) - Worth(Out(m), voucher[Out(m)])
    BY <1>2, <1>3, <1>4, LegRows DEF A
  <2>3. DOMAIN rows = {Out(m)} /\ rows[Out(m)] = OutRow(m) /\ rows = [y \in {Out(m)} |-> rows[y]]
    BY <1>4
  <2> HIDE DEF legs
  <2>4. Planned([on |-> m, rows |-> rows, becomes |-> becomes, legs |-> legs, wrote |-> <<>>])
    BY <1>1, <1>4, <2>3, LegRows DEF Planned
  <2>5. Begin(q, m, rows, becomes, legs)
    BY <1>4 DEF legs
  <2> QED
    BY <1>1, <1>3, <2>1, <2>2, <2>3, <2>4, <2>5, LegRows, BeginOne
<1>5. ASSUME BeginConfirm(q, m) PROVE FundsInv'
  <2> DEFINE legs == <<PostIn(m)>>
             rows == [p \in {In(m)} |-> InRow(m)]
  <2>1. legs = <<Movement(In(m), To[m], A)>>
    BY LegRows DEF A
  <2>2. move[m] = "moving" /\ Begin(q, m, rows, "done", legs)
    BY <1>5 DEF BeginConfirm
  <2>3. A = Worth(In(m), InRow(m)) - Worth(In(m), voucher[In(m)])
    BY <1>2, <1>3, <2>2, LegRows DEF A
  <2>4. DOMAIN rows = {In(m)} /\ rows[In(m)] = InRow(m) /\ rows = [y \in {In(m)} |-> rows[y]]
    OBVIOUS
  <2> HIDE DEF legs, rows
  <2>5. Planned([on |-> m, rows |-> rows, becomes |-> "done", legs |-> legs, wrote |-> <<>>])
    BY <1>1, <2>2, <2>4, LegRows DEF Planned
  <2> QED
    BY <1>1, <1>3, <2>1, <2>2, <2>3, <2>4, <2>5, LegRows, BeginOne
<1>6. ASSUME BeginCancel(q, m) PROVE FundsInv'
  <2> DEFINE p == Out(m)
             rows == [y \in {p} |-> GivenBack(p)]
             legs == <<GiveBack(p)>>
             row == GivenBack(p)
             f == voucher[p].fund
             d == GiveBack(p).delta
  <2>1. move[m] = "moving" /\ Live(voucher[p]) /\ Begin(q, m, rows, "cancelled", legs)
    BY <1>6 DEF BeginCancel, Live
  <2>2. /\ row \in VoucherRows /\ RowSound(row) /\ Live(row)
        /\ row.total = voucher[p].total
        /\ f \in AllFunds /\ d \in Int /\ d = Worth(p, row) - Worth(p, voucher[p])
        /\ GiveBack(p) = Movement(p, f, d)
    BY <1>1, <2>1, GiveBackDue DEF FundsInv
  <2>3. Made(m, row)
    BY <1>2, <2>1, <2>2 DEF Made
  <2>4. DOMAIN rows = {p} /\ rows[p] = row /\ rows = [y \in {p} |-> rows[y]]
    OBVIOUS
  <2>5. legs = <<Movement(p, f, d)>>
    BY <2>2
  <2> HIDE DEF rows, legs, row, f, d
  <2>6. Planned([on |-> m, rows |-> rows, becomes |-> "cancelled", legs |-> legs, wrote |-> <<>>])
    BY <1>1, <2>1, <2>3, <2>4 DEF Planned
  <2> HIDE DEF p
  <2>7. p \in Papers
    BY <1>1 DEF p
  <2> QED
    BY <1>1, <2>1, <2>2, <2>4, <2>5, <2>6, <2>7, BeginOne
<1>7. ASSUME NEW rows, rows = [p \in {Out(m), In(m)} |-> IF p = Out(m) THEN OutRow(m) ELSE InRow(m)],
             move[m] = "none", Begin(q, m, rows, "done", <<PostOut(m), PostIn(m)>>)
      PROVE  FundsInv'
  <2> DEFINE legs == <<PostOut(m), PostIn(m)>>
             t == [on |-> m, rows |-> rows, becomes |-> "done", legs |-> legs, wrote |-> <<>>]
             a == PostOut(m)
             b == PostIn(m)
  <2>1. /\ a \in Movements /\ a.paper = Out(m) /\ a.fund = From[m] /\ a.delta = -A
        /\ b \in Movements /\ b.paper = In(m) /\ b.fund = To[m] /\ b.delta = A
    BY <1>1, <1>3, LegRows DEF Movement, Movements, A
  <2>2. legs = <<a, b>>
    OBVIOUS
  <2>3. DOMAIN rows = {Out(m), In(m)} /\ rows[Out(m)] = OutRow(m) /\ rows[In(m)] = InRow(m)
    BY <1>1, <1>7
  <2>4. /\ t.on = m /\ t.rows = rows /\ t.becomes = "done" /\ t.legs = legs /\ t.wrote = <<>>
        /\ t = [on |-> m, rows |-> rows, becomes |-> "done", legs |-> legs, wrote |-> <<>>]
    OBVIOUS
  <2>5. Begin(q, m, rows, "done", legs)
    BY <1>7
  <2> HIDE DEF a, b, legs, t
  <2>6. /\ legs \in Seq(Movements) /\ Len(legs) <= 2 /\ DOMAIN legs = {1, 2}
        /\ legs[1] = a /\ legs[2] = b
    BY <2>1, <2>2
  <2>7. \A i, j \in DOMAIN legs : i # j => Apart(legs[i], legs[j])
    BY <1>1, <2>1, <2>6, LegRows DEF Apart
  <2>8. rows \in RowsOf
    <3>1. rows \in [{Out(m), In(m)} -> VoucherRows]
      BY <1>7, LegRows
    <3> QED
      BY <1>1, <3>1, RowsTyped
  <2>9. Due(t, Out(m)) = -A /\ Due(t, In(m)) = A
    BY <1>2, <1>3, <1>7, <2>3, <2>4, LegRows DEF Due, A
  <2>10. Balanced(t)
    <3>1. Pays(t, legs[1]) /\ Pays(t, legs[2])
      BY <2>1, <2>3, <2>4, <2>6, <2>9 DEF Pays
    <3>2. Named(legs, Out(m)) /\ Named(legs, In(m))
      BY <2>1, <2>6 DEF Named
    <3>3. DOMAIN t.wrote = {}
      BY <2>4
    <3> QED
      BY <2>3, <2>4, <2>6, <3>1, <3>2, <3>3, LegRows DEF Balanced
  <2>11. Planned(t)
    BY <1>1, <1>7, <2>3, <2>4, LegRows DEF Planned
  <2> QED
    BY <1>1, <2>4, <2>5, <2>6, <2>7, <2>8, <2>10, <2>11, BeginKeeps
<1>8. ASSUME BeginSend(q, m) PROVE FundsInv'
  BY <1>1, <1>4, <1>8 DEF BeginSend
<1>9. ASSUME BeginSwap(q, m) PROVE FundsInv'
  BY <1>1, <1>4, <1>7, <1>9 DEF BeginSwap
<1> QED
  BY <1>5, <1>6, <1>8, <1>9

-----------------------------------------------------------------------------
\* What ReadFund makes of a leg, and of its transaction, with the balance read.
WriteOf(leg, read) ==
    [paper |-> leg.paper, fund |-> leg.fund, delta |-> leg.delta, read |-> read]
AfterRead(t, read) ==
    [t EXCEPT !.legs = Tail(@), !.wrote = Append(@, WriteOf(Head(t.legs), read))]

(* A leg becomes a write: the transaction still owes its vouchers the same. *)
LEMMA LegRead ==
    ASSUME NEW t \in Transactions, Shaped(t), Balanced(t), t.legs # <<>>, NEW read \in Int
    PROVE  LET u == AfterRead(t, read)
               w == WriteOf(Head(t.legs), read)
           IN  /\ Head(t.legs) \in Movements
               /\ u \in Transactions
               /\ Shaped(u)
               /\ Balanced(u)
               /\ \A i \in DOMAIN u.wrote :
                     u.wrote[i] = w \/ (i \in DOMAIN t.wrote /\ u.wrote[i] = t.wrote[i])
               /\ u.on = t.on /\ u.rows = t.rows /\ u.becomes = t.becomes
<1> SUFFICES ASSUME NEW w, w = [paper |-> Head(t.legs).paper, fund |-> Head(t.legs).fund,
                                delta |-> Head(t.legs).delta, read |-> read],
                    NEW u, u = [t EXCEPT !.legs = Tail(@), !.wrote = Append(@, w)]
             PROVE  /\ Head(t.legs) \in Movements
                    /\ u \in Transactions
                    /\ Shaped(u)
                    /\ Balanced(u)
                    /\ \A i \in DOMAIN u.wrote :
                          u.wrote[i] = w \/ (i \in DOMAIN t.wrote /\ u.wrote[i] = t.wrote[i])
                    /\ u.on = t.on /\ u.rows = t.rows /\ u.becomes = t.becomes
  BY DEF AfterRead, WriteOf
<1> DEFINE l == t.legs
           v == t.wrote
           m == Len(l)
           n == Len(v)
           a == Tail(l)
           b == Append(v, w)
<1>1. l \in Seq(Movements) /\ v \in Seq(Writes) /\ l # <<>>
  BY DEF Transactions
<1>2. m \in Nat /\ n \in Nat /\ m # 0 /\ DOMAIN l = 1..m /\ DOMAIN v = 1..n
  BY <1>1
<1>3. m + n <= 2
  BY DEF Shaped
<1>4. /\ u.legs = a /\ u.wrote = b
      /\ u.on = t.on /\ u.rows = t.rows /\ u.becomes = t.becomes
      /\ u = [on |-> t.on, rows |-> t.rows, becomes |-> t.becomes, legs |-> a, wrote |-> b]
  BY DEF Transactions
<1>5. Head(l) = l[1] /\ l[1] \in Movements
  BY <1>1, <1>2
<1>6. w \in Writes /\ w.fund = l[1].fund /\ w.delta = l[1].delta /\ w.paper = l[1].paper
  BY <1>5 DEF Movements, Writes
<1>7. /\ a \in Seq(Movements) /\ Len(a) = m - 1 /\ DOMAIN a = 1..(m - 1)
      /\ \A i \in 1..(m - 1) : a[i] = l[i + 1]
  <2> HIDE DEF l
  <2> QED
    BY <1>1, <1>2
<1>8. /\ b \in Seq(Writes) /\ Len(b) = n + 1 /\ DOMAIN b = 1..(n + 1)
      /\ \A i \in 1..n : b[i] = v[i]
      /\ b[n + 1] = w
  <2> HIDE DEF v
  <2> QED
    BY <1>1, <1>2, <1>6
<1>9. /\ \A i, j \in 1..m : i # j => Apart(l[i], l[j])
      /\ \A i, j \in 1..n : i # j => Apart(v[i], v[j])
      /\ \A i \in 1..m, j \in 1..n : Apart(l[i], v[j])
  BY <1>2 DEF Shaped
<1>10. u \in Transactions
  <2> HIDE DEF a, b
  <2> QED
    BY <1>4, <1>7, <1>8 DEF Transactions
<1>11. /\ \A i \in 1..m : Pays(t, l[i])
       /\ \A i \in 1..n : Pays(t, v[i])
       /\ \A p \in DOMAIN t.rows :
             /\ RowSound(t.rows[p])
             /\ (\E i \in 1..m : l[i].paper = p) \/ (\E i \in 1..n : v[i].paper = p) \/ Due(t, p) = 0
  BY <1>2 DEF Balanced, Named
<1>12. \A p : Due(u, p) = Due(t, p)
  BY <1>4 DEF Due
<1> HIDE DEF l, v, m, n, a, b
<1>13. (m = 1 /\ n = 0) \/ (m = 1 /\ n = 1) \/ (m = 2 /\ n = 0)
  BY <1>2, <1>3
<1>14. Shaped(u)
  <2>1. Len(a) + Len(b) <= 2
    BY <1>2, <1>3, <1>7, <1>8
  <2>2. \A i, j \in DOMAIN a : i # j => Apart(a[i], a[j])
    BY <1>7, <1>13
  <2>3. \A i, j \in DOMAIN b : i # j => Apart(b[i], b[j])
    BY <1>6, <1>8, <1>9, <1>13 DEF Apart
  <2>4. \A i \in DOMAIN a, j \in DOMAIN b : Apart(a[i], b[j])
    BY <1>6, <1>7, <1>8, <1>9, <1>13 DEF Apart
  <2> QED
    BY <1>4, <2>1, <2>2, <2>3, <2>4 DEF Shaped
<1>15. Balanced(u)
  <2>1. \A c : Pays(u, c) <=> Pays(t, c)
    BY <1>4, <1>12 DEF Pays
  <2>2. \A i \in DOMAIN a : Pays(u, a[i])
    BY <1>7, <1>11, <1>13, <2>1
  <2>3. Pays(u, w)
    BY <1>2, <1>6, <1>11, <1>13, <2>1 DEF Pays
  <2>4. \A i \in DOMAIN b : Pays(u, b[i])
    BY <1>8, <1>11, <1>13, <2>1, <2>3
  <2>5. ASSUME NEW p \in DOMAIN t.rows PROVE Named(a, p) \/ Named(b, p) \/ Due(u, p) = 0
    <3>1. CASE Due(t, p) = 0
      BY <1>12, <3>1
    <3>2. ASSUME NEW i \in 1..m, l[i].paper = p PROVE Named(a, p) \/ Named(b, p)
      <4>1. CASE i = 1
        <5>1. n + 1 \in DOMAIN b /\ b[n + 1].paper = p
          BY <1>2, <1>6, <1>8, <3>2, <4>1
        <5> QED
          BY <5>1 DEF Named
      <4>2. CASE i # 1
        <5>1. 1 \in DOMAIN a /\ a[1].paper = p
          BY <1>7, <1>13, <3>2, <4>2
        <5> QED
          BY <5>1 DEF Named
      <4> QED
        BY <4>1, <4>2
    <3>3. ASSUME NEW i \in 1..n, v[i].paper = p PROVE Named(b, p)
      <4>1. i \in DOMAIN b /\ b[i].paper = p
        BY <1>2, <1>8, <3>3
      <4> QED
        BY <4>1 DEF Named
    <3> QED
      BY <1>11, <3>1, <3>2, <3>3
  <2>6. \A p \in DOMAIN u.rows : RowSound(u.rows[p])
    BY <1>4, <1>11
  <2> QED
    BY <1>4, <2>2, <2>4, <2>5, <2>6 DEF Balanced
<1>16. \A i \in DOMAIN b : b[i] = w \/ (i \in DOMAIN v /\ b[i] = v[i])
  <2> SUFFICES ASSUME NEW i \in 1..(n + 1) PROVE b[i] = w \/ (i \in 1..n /\ b[i] = v[i])
    BY <1>2, <1>8
  <2>1. CASE i = n + 1
    BY <1>8, <2>1
  <2>2. CASE i # n + 1
    <3>1. i \in 1..n
      BY <1>2, <2>2
    <3> QED
      BY <1>8, <3>1
  <2> QED
    BY <2>1, <2>2
<1> QED
  BY <1>4, <1>5, <1>10, <1>14, <1>15, <1>16 DEF l, v

(* Reading a fund's balance plans a write and changes no balance.          *)
LEMMA ReadFundKeeps ==
    ASSUME FundsInv, NEW q \in Requests, ReadFund(q)
    PROVE  FundsInv'
<1> DEFINE t == request[q]
           leg == Head(t.legs)
           w == WriteOf(leg, balance[leg.fund])
           u == AfterRead(t, balance[leg.fund])
<1>1. /\ t.legs # <<>> /\ FundFree(leg.fund, q) /\ Covered(leg)
      /\ lock' = IF leg.fund \in DepositFunds THEN [lock EXCEPT ![leg.fund] = q] ELSE lock
      /\ request' = [request EXCEPT ![q] = u]
      /\ UNCHANGED <<books, voucher, move>>
  BY DEF ReadFund, AfterRead, WriteOf
<1>2. t \in Transactions /\ Shaped(t) /\ Balanced(t) /\ Planned(t) /\ TransactionSound(q)
  BY DEF FundsInv, Typed, TransactionSound
<1>3. leg.fund \in AllFunds /\ leg.delta \in Int /\ balance[leg.fund] \in Int
  <2>1. t.legs \in Seq(Movements)
    BY <1>2 DEF Transactions
  <2>2. leg \in Movements
    BY <1>1, <2>1
  <2> QED
    BY <2>2 DEF Movements, FundsInv, Typed
<1>4. /\ u \in Transactions /\ Shaped(u) /\ Balanced(u)
      /\ \A i \in DOMAIN u.wrote : u.wrote[i] = w \/ (i \in DOMAIN t.wrote /\ u.wrote[i] = t.wrote[i])
      /\ u.on = t.on /\ u.rows = t.rows /\ u.becomes = t.becomes
  BY <1>1, <1>2, <1>3, LegRead
<1>5. w.fund = leg.fund /\ w.delta = leg.delta /\ w.read = balance[leg.fund]
  BY DEF WriteOf
<1> HIDE DEF w, u
<1>6. request \in [Requests -> Transactions] /\ lock \in [DepositFunds -> Requests \cup {None}]
      /\ None \notin Requests
  BY FundsAssumption DEF FundsInv, Typed
<1>7. /\ request'[q] = u
      /\ \A p \in Requests : p # q => request'[p] = request[p]
  BY <1>1, <1>6
<1>8. Typed'
  <2>1. request' \in [Requests -> Transactions] /\ lock' \in [DepositFunds -> Requests \cup {None}]
    BY <1>1, <1>4, <1>6
  <2> QED
    BY <1>1, <2>1 DEF FundsInv, Typed, books
<1>9. HeldApart'
  <2>1. \A p \in Requests : Held(p)' = Held(p)
    BY <1>4, <1>7 DEF Held
  <2> QED
    BY <2>1 DEF FundsInv, HeldApart
<1>10. balance' = balance
  BY <1>1 DEF books
<1>11. ASSUME NEW p \in Requests, NEW x, ReadHolds(p, x) PROVE ReadHolds(p, x)'
  <2> SUFFICES ASSUME NEW d, d = x.fund, d \in DepositFunds PROVE lock'[d] = p
    BY <1>10, <1>11 DEF ReadHolds
  <2>1. lock[d] = p /\ p # None
    BY <1>6, <1>11 DEF ReadHolds
  <2>2. CASE d = leg.fund
    BY <1>1, <1>6, <2>1, <2>2 DEF FundFree
  <2>3. CASE d # leg.fund
    BY <1>1, <1>6, <2>1, <2>3
  <2> QED
    BY <2>2, <2>3
<1> PICK n : n = u
  OBVIOUS
<1> PICK c : c = w
  OBVIOUS
<1>12. ReadHolds(q, c)'
  <2>1. leg.fund \in DepositFunds => lock'[leg.fund] = q
    BY <1>1, <1>6
  <2>2. leg.fund \notin MayOverdraw => balance[leg.fund] + leg.delta >= 0
    BY <1>1 DEF Covered
  <2> HIDE DEF leg
  <2>3. c.fund = leg.fund /\ c.delta = leg.delta /\ c.read = balance[leg.fund]
    BY <1>5
  <2> QED
    BY <1>10, <2>1, <2>2, <2>3 DEF ReadHolds
<1>13. ASSUME NEW p \in Requests PROVE TransactionSound(p)'
  <2>1. CASE p = q
    <3>1. t.on # None
      BY <1>1, <1>2 DEF TransactionSound, Idle
    <3>2. Planned(n)
      BY <1>2, <1>4 DEF Planned
    <3>3. Balanced(n)' /\ Planned(n)'
      BY <1>1, <1>4, <3>2 DEF Balanced, Planned, Pays, Due
    <3>4. request'[p] = n
      BY <1>7, <2>1
    <3>5. Balanced(request[p])' /\ Planned(request[p])'
      BY <3>3, <3>4 DEF Balanced, Planned, Pays, Due
    <3>6. \A i \in DOMAIN request'[p].wrote : ReadHolds(p, request[p].wrote[i])'
      <4>1. ASSUME NEW i \in DOMAIN n.wrote, NEW x, x = n.wrote[i] PROVE ReadHolds(q, x)'
        <5>1. CASE x = c
          BY <1>12, <5>1
        <5>2. CASE i \in DOMAIN t.wrote /\ x = t.wrote[i]
          <6>1. ReadHolds(q, x)
            BY <1>2, <5>2 DEF TransactionSound
          <6> QED
            BY <1>11, <6>1
        <5> QED
          BY <1>4, <4>1, <5>1, <5>2
      <4> QED
        BY <2>1, <3>4, <4>1 DEF ReadHolds
    <3>7. Shaped(request'[p]) /\ request'[p].on # None
      BY <1>4, <3>1, <3>4
    <3> QED
      BY <3>5, <3>6, <3>7 DEF TransactionSound, Shaped
  <2>2. CASE p # q
    <3>1. request'[p] = request[p] /\ TransactionSound(p)
      BY <1>7, <2>2 DEF FundsInv
    <3>2. Balanced(request[p])' /\ Planned(request[p])'
      BY <1>1, <3>1 DEF TransactionSound, Balanced, Planned, Pays, Due
    <3>3. \A i \in DOMAIN request[p].wrote : ReadHolds(p, request[p].wrote[i])'
      <4>1. ASSUME NEW i \in DOMAIN request[p].wrote, NEW x, x = request[p].wrote[i]
            PROVE  ReadHolds(p, x)'
        BY <1>11, <3>1, <4>1 DEF TransactionSound
      <4> QED
        BY <3>1, <4>1 DEF ReadHolds
    <3> QED
      BY <3>1, <3>2, <3>3 DEF TransactionSound, Shaped
  <2> QED
    BY <2>1, <2>2
<1>14. MovesSound' /\ BalancesAddUp' /\ VouchersAddUp' /\ TransitAddsUp'
  BY <1>1, BooksKept
<1> QED
  BY <1>8, <1>9, <1>13, <1>14 DEF FundsInv

-----------------------------------------------------------------------------
(* A transaction ends, by its commit or its rollback: its locks are free,   *)
(* and the others are sound as long as no balance they have locked and no   *)
(* row they hold changes.                                                  *)
LEMMA ReleaseKeeps ==
    ASSUME FundsInv, NEW q \in Requests, Release(q),
           \A f \in DepositFunds : lock[f] # q => balance'[f] = balance[f],
           \A p \in Papers : p \notin Held(q) => voucher'[p] = voucher[p],
           \A m \in Moves : m \notin Held(q) => move'[m] = move[m]
    PROVE  /\ HeldApart' /\ \A p \in Requests : TransactionSound(p)'
           /\ request' \in [Requests -> Transactions]
           /\ lock' \in [DepositFunds -> Requests \cup {None}]
<1>1. /\ lock' = [f \in DepositFunds |-> IF lock[f] = q THEN None ELSE lock[f]]
      /\ request' = [request EXCEPT ![q] = Idle]
  BY DEF Release
<1>2. /\ request'[q] = Idle
      /\ \A p \in Requests : p # q => request'[p] = request[p]
  BY <1>1 DEF FundsInv, Typed
<1>3. DOMAIN Idle.rows = {} /\ Idle.becomes = "none" /\ DOMAIN Idle.legs = {} /\ DOMAIN Idle.wrote = {}
      /\ Idle.on = None /\ Shaped(Idle)
  BY DEF Idle, Shaped
<1>4. Idle \in Transactions
  <2>1. Idle.rows \in [{} -> VoucherRows]
    BY DEF Idle
  <2>2. Idle.rows \in RowsOf
    BY <2>1, RowsTyped
  <2> QED
    BY <2>2 DEF Idle, Transactions, MoveStates
<1>5. HeldApart'
  <2>1. \A p \in Requests : p # q => Held(p)' = Held(p)
    BY <1>2 DEF Held
  <2>2. Held(q)' = {}
    BY <1>2, <1>3 DEF Held
  <2> QED
    BY <2>1, <2>2 DEF FundsInv, HeldApart
<1>6. ASSUME NEW p \in Requests PROVE TransactionSound(p)'
  <2>1. CASE p = q
    <3>1. Balanced(Idle)' /\ Planned(Idle)'
      BY <1>3, FundsAssumption DEF Balanced, Planned
    <3> QED
      BY <1>2, <1>3, <2>1, <3>1 DEF TransactionSound, Shaped, Balanced, Planned, Pays, Due
  <2>2. CASE p # q
    <3>1. request'[p] = request[p] /\ TransactionSound(p)
      BY <1>2, <2>2 DEF FundsInv
    <3>2. PICK t : t = request[p]
      OBVIOUS
    <3>3. t \in Transactions /\ Shaped(t) /\ Balanced(t) /\ Planned(t)
      BY <3>1, <3>2 DEF FundsInv, Typed, TransactionSound
    <3>4. DOMAIN t.rows \subseteq Papers
      BY <3>3, RowsTyped DEF Transactions
    <3>5. Held(p) \cap Held(q) = {}
      BY <2>2 DEF FundsInv, HeldApart
    <3>6. \A y \in DOMAIN t.rows : voucher'[y] = voucher[y]
      BY <3>2, <3>4, <3>5 DEF Held
    <3>7. t.on \in Moves /\ t.becomes # "none" => move'[t.on] = move[t.on]
      BY <3>2, <3>5 DEF Held
    <3>8. \A y \in DOMAIN t.rows : Due(t, y)' = Due(t, y)
      BY <3>6 DEF Due, Worth, SignOf
    <3>9. Balanced(t)'
      BY <3>3, <3>8 DEF Balanced, Pays, Named
    <3>10. Planned(t)'
      BY <3>3, <3>6, <3>7 DEF Planned
    <3>11. ASSUME NEW i \in DOMAIN request[p].wrote PROVE ReadHolds(p, request[p].wrote[i])'
      <4>1. ReadHolds(p, request[p].wrote[i])
        BY <3>1 DEF TransactionSound
      <4>2. p # None
        BY FundsAssumption
      <4> QED
        BY <1>1, <2>2, <3>1, <4>1, <4>2 DEF ReadHolds
    <3>12. Balanced(request[p])' /\ Planned(request[p])'
      BY <3>1, <3>2, <3>9, <3>10 DEF Balanced, Planned, Pays, Due
    <3> QED
      BY <3>1, <3>11, <3>12 DEF TransactionSound, Shaped
  <2> QED
    BY <2>1, <2>2
<1>7. request' \in [Requests -> Transactions] /\ lock' \in [DepositFunds -> Requests \cup {None}]
  BY <1>1, <1>4 DEF FundsInv, Typed
<1> QED
  BY <1>5, <1>6, <1>7

(* A request that is refused leaves the books as they were.                *)
LEMMA RefusedKeeps ==
    ASSUME FundsInv, NEW q \in Requests, Refused(q)
    PROVE  FundsInv'
<1>1. Release(q) /\ UNCHANGED <<books, voucher, move>>
  BY DEF Refused
<1>2. balance' = balance /\ voucher' = voucher /\ move' = move
  BY <1>1 DEF books
<1>3. HeldApart' /\ (\A p \in Requests : TransactionSound(p)')
      /\ request' \in [Requests -> Transactions]
      /\ lock' \in [DepositFunds -> Requests \cup {None}]
  BY <1>1, <1>2, ReleaseKeeps
<1>4. Typed'
  BY <1>1, <1>3 DEF FundsInv, Typed, books
<1>5. MovesSound' /\ BalancesAddUp' /\ VouchersAddUp' /\ TransitAddsUp'
  BY <1>1, BooksKept
<1> QED
  BY <1>3, <1>4, <1>5 DEF FundsInv

-----------------------------------------------------------------------------
(* What a commit does to one fund: nothing, or the one movement it has in   *)
(* it, from the balance the transaction read.                              *)
LEMMA CommitOneFund ==
    ASSUME FundsInv, NEW q \in Requests, Commit(q), NEW f \in AllFunds
    PROVE  \/ /\ balance'[f] = balance[f] /\ moved'[f] = moved[f]
              /\ f \in overwritten' <=> f \in overwritten
           \/ \E w \in Writes :
                 /\ ReadHolds(q, w) /\ w.fund = f
                 /\ balance'[f] = w.read + w.delta
                 /\ moved'[f] = moved[f] + w.delta
                 /\ f \in overwritten' <=> f \in overwritten \/ balance[f] # w.read
<1> DEFINE wrote == request[q].wrote
<1>1. /\ balance'[f] = IF Written(q, f) = {} THEN balance[f]
                       ELSE ReadOf(q, f) + Worked(q, Written(q, f))
      /\ moved'[f] = moved[f] + Worked(q, Written(q, f))
      /\ f \in overwritten' <=> f \in overwritten \/ (Written(q, f) # {} /\ balance[f] # ReadOf(q, f))
  BY DEF Commit
<1>2. Shaped(request[q]) /\ request[q] \in Transactions /\ moved[f] \in Int
  BY DEF FundsInv, TransactionSound, Typed
<1>3. CASE Written(q, f) = {}
  BY <1>1, <1>2, <1>3, WrittenOnce
<1>4. CASE Written(q, f) # {}
  <2>1. PICK i \in DOMAIN wrote : wrote[i].fund = f
    BY <1>4 DEF Written
  <2>2. Written(q, f) = {i} /\ Worked(q, {i}) = wrote[i].delta
    BY <1>2, <2>1, WrittenOnce
  <2>3. ReadOf(q, f) = wrote[i].read
    BY <2>2 DEF ReadOf
  <2>4. wrote[i] \in Writes
    BY <1>2, <2>1, Elements
  <2>5. ReadHolds(q, wrote[i])
    BY <2>1 DEF FundsInv, TransactionSound
  <2> DEFINE w == wrote[i]
  <2>6. /\ balance'[f] = w.read + w.delta /\ moved'[f] = moved[f] + w.delta
        /\ f \in overwritten' <=> f \in overwritten \/ balance[f] # w.read
    BY <1>1, <1>4, <2>2, <2>3
  <2> HIDE DEF w
  <2> QED
    BY <2>1, <2>4, <2>5, <2>6 DEF w
<1> QED
  BY <1>3, <1>4

(* What a commit does to one voucher: its movements make up the difference  *)
(* between the row as it was and as it becomes.                            *)
LEMMA CommitOnePaper ==
    ASSUME FundsInv, NEW q \in Requests, Commit(q), NEW p \in Papers
    PROVE  /\ Worked(q, InName(q, p)) \in Int
           /\ posted'[p] = posted[p] + Worked(q, InName(q, p))
           /\ voucher'[p] \in VoucherRows /\ RowSound(voucher'[p])
           /\ posted'[p] \in Int
           /\ posted'[p] = Worth(p, voucher'[p])
           /\ p \notin DOMAIN request[q].rows => InName(q, p) = {} /\ voucher'[p] = voucher[p]
           /\ p \in DOMAIN request[q].rows => voucher'[p] = request[q].rows[p]
<1> DEFINE t == request[q]
           n == Worked(q, InName(q, p))
<1>1. /\ t.legs = <<>>
      /\ posted'[p] = posted[p] + n
      /\ voucher'[p] = IF p \in DOMAIN t.rows THEN t.rows[p] ELSE voucher[p]
  BY DEF Commit
<1>2. t \in Transactions /\ Shaped(t) /\ Balanced(t)
  BY DEF FundsInv, Typed, TransactionSound
<1>3. /\ posted[p] \in Int /\ posted[p] = Worth(p, voucher[p])
      /\ voucher[p] \in VoucherRows /\ RowSound(voucher[p])
  BY DEF FundsInv, Typed, VouchersAddUp
<1>4. \A y \in DOMAIN t.rows : t.rows[y] \in VoucherRows /\ RowSound(t.rows[y])
  BY <1>2, RowsTyped DEF Transactions, Balanced
<1>5. \A i \in DOMAIN t.wrote : Pays(t, t.wrote[i])
  BY <1>2 DEF Balanced
<1>6. CASE p \notin DOMAIN t.rows
  <2>1. InName(q, p) = {}
    BY <1>5, <1>6 DEF InName, Pays
  <2>2. n = 0
    BY <1>2, <2>1, WrittenOnce
  <2> HIDE DEF n
  <2> QED
    BY <1>1, <1>3, <1>6, <2>1, <2>2 DEF n
<1>7. CASE p \in DOMAIN t.rows
  <2>1. n = Due(t, p)
    <3>1. CASE Named(t.wrote, p)
      <4>1. PICK i \in DOMAIN t.wrote : t.wrote[i].paper = p
        BY <3>1 DEF Named
      <4>2. InName(q, p) = {i} /\ Worked(q, {i}) = t.wrote[i].delta
        BY <1>2, <4>1, WrittenOnce
      <4> QED
        BY <1>5, <4>1, <4>2 DEF Pays
    <3>2. CASE ~Named(t.wrote, p)
      <4>1. InName(q, p) = {}
        BY <3>2 DEF Named, InName
      <4>2. n = 0
        BY <1>2, <4>1, WrittenOnce
      <4>3. ~Named(t.legs, p)
        BY <1>1 DEF Named
      <4> QED
        BY <1>2, <1>7, <3>2, <4>2, <4>3 DEF Balanced
    <3> QED
      BY <3>1, <3>2
  <2>2. Worth(p, t.rows[p]) \in Int /\ Worth(p, voucher[p]) \in Int
    BY <1>3, <1>4, <1>7, WorthInt
  <2>3. Due(t, p) = Worth(p, t.rows[p]) - Worth(p, voucher[p])
    BY DEF Due
  <2>4. voucher'[p] = t.rows[p]
    BY <1>1, <1>7
  <2> HIDE DEF n
  <2>5. n \in Int /\ posted'[p] = Worth(p, t.rows[p])
    BY <1>1, <1>3, <2>1, <2>2, <2>3
  <2>6. posted'[p] = Worth(p, voucher'[p])
    BY <2>4, <2>5
  <2> QED
    BY <1>1, <1>4, <1>7, <2>2, <2>4, <2>5, <2>6 DEF n
<1> QED
  BY <1>6, <1>7

(* What a transfer or swap has on its way is what its two vouchers are not  *)
(* worth, in a state whose rows are sound.                                 *)
LEMMA WayIsWorth ==
    ASSUME Typed, MovesSound, VouchersAddUp, NEW m \in Moves
    PROVE  OnTheWay[m] = -(posted[Out(m)] + posted[In(m)]) /\ OnTheWay[m] \in Int
<1> DEFINE A == Amount[m]
           o == voucher[Out(m)]
           i == voucher[In(m)]
<1>1. /\ Out(m) \in Papers /\ In(m) \in Papers /\ SignOf(Out(m)) = -1 /\ SignOf(In(m)) = 1
  BY PapersApart
<1>2. o \in VoucherRows /\ i \in VoucherRows /\ A \in Nat
  BY <1>1, FundsAssumption DEF Typed
<1>3. /\ posted[Out(m)] = Worth(Out(m), o) /\ posted[In(m)] = Worth(In(m), i)
  BY <1>1 DEF VouchersAddUp
<1>4. /\ Live(o) => Worth(Out(m), o) = o.back - o.total
      /\ ~Live(o) => Worth(Out(m), o) = 0
      /\ Live(i) => Worth(In(m), i) = i.total - i.back
      /\ ~Live(i) => Worth(In(m), i) = 0
  BY <1>1, <1>2, WorthInt
<1>5. o.back \in Nat /\ i.back \in Nat
  BY <1>2 DEF VoucherRows
<1>6. Absent.back = 0 /\ ~Live(Absent)
  BY DEF Absent, Live
<1>7. OnTheWay[m] = (IF move[m] \in {"moving", "oneLegged", "cancelled"} THEN A ELSE 0)
                        - o.back + i.back
  BY DEF OnTheWay
<1>8. move[m] \in MoveStates
  BY DEF Typed
<1>9. /\ move[m] = "none" => o = Absent
      /\ move[m] # "none" => Live(o) /\ o.total = A
      /\ move[m] # "done" => i = Absent
      /\ move[m] = "done" => Live(i) /\ i.total = A
  BY DEF MovesSound, Made
<1> HIDE DEF A, o, i
<1>10. CASE move[m] = "none"
  BY <1>3, <1>4, <1>6, <1>7, <1>9, <1>10
<1>11. CASE move[m] \in {"moving", "oneLegged", "cancelled"}
  <2>1. OnTheWay[m] = A - o.back + 0 /\ posted[Out(m)] = o.back - A /\ posted[In(m)] = 0
    BY <1>3, <1>4, <1>6, <1>7, <1>9, <1>11
  <2> QED
    BY <1>2, <1>5, <2>1
<1>12. CASE move[m] = "done"
  <2>1. OnTheWay[m] = 0 - o.back + i.back /\ posted[Out(m)] = o.back - A /\ posted[In(m)] = A - i.back
    BY <1>3, <1>4, <1>7, <1>9, <1>12
  <2> QED
    BY <1>2, <1>5, <2>1
<1> QED
  BY <1>8, <1>10, <1>11, <1>12 DEF MoveStates

(* The same of every transfer and swap, in the next state. *)
LEMMA WaysNext ==
    Typed' /\ MovesSound' /\ VouchersAddUp' =>
        \A m \in Moves : OnTheWay'[m] = -(posted'[Out(m)] + posted'[In(m)]) /\ OnTheWay'[m] \in Int
<1> DEFINE Ways == \A m \in Moves : OnTheWay[m] = -(posted[Out(m)] + posted[In(m)]) /\ OnTheWay[m] \in Int
<1>1. Typed /\ MovesSound /\ VouchersAddUp => Ways
  BY WayIsWorth
<1>2. (Typed /\ MovesSound /\ VouchersAddUp)' => Ways'
  <2> HIDE DEF Ways
  <2> QED
    BY <1>1, PTL
<1> QED
  BY <1>2

(* After a commit the rows of every transfer and swap fit its status.      *)
LEMMA CommitMoves ==
    ASSUME FundsInv, NEW q \in Requests, Commit(q)
    PROVE  /\ MovesSound' /\ move' \in [Moves -> MoveStates]
           /\ \A m \in Moves : m \notin Held(q) => move'[m] = move[m]
<1>1. PICK t : t = request[q]
  OBVIOUS
<1>2. /\ t.on # None
      /\ voucher' = [p \in Papers |-> IF p \in DOMAIN t.rows THEN t.rows[p] ELSE voucher[p]]
      /\ move' = IF t.becomes = "none" THEN move ELSE [move EXCEPT ![t.on] = t.becomes]
  BY <1>1 DEF Commit
<1>3. t \in Transactions /\ Planned(t) /\ move \in [Moves -> MoveStates] /\ MovesSound
  BY <1>1 DEF FundsInv, Typed, TransactionSound
<1>4. t.on \in Vouchers \cup Moves /\ t.becomes \in MoveStates
  BY <1>2, <1>3 DEF Transactions
<1>5. move' \in [Moves -> MoveStates]
  BY <1>2, <1>3, <1>4
<1>6. \A m \in Moves : m \notin Held(q) => move'[m] = move[m]
  BY <1>1, <1>2, <1>3 DEF Held
<1>7. ASSUME NEW m \in Moves, m # t.on
      PROVE  move'[m] = move[m] /\ voucher'[Out(m)] = voucher[Out(m)] /\ voucher'[In(m)] = voucher[In(m)]
  <2>1. Out(m) \notin DOMAIN t.rows /\ In(m) \notin DOMAIN t.rows
    <3>1. CASE t.on \in Vouchers
      BY <1>3, <3>1, PapersApart DEF Planned
    <3>2. CASE t.on \in Moves
      BY <1>3, <1>7, <3>2, PapersApart DEF Planned
    <3> QED
      BY <1>4, <3>1, <3>2
  <2>2. Out(m) \in Papers /\ In(m) \in Papers
    BY PapersApart
  <2> QED
    BY <1>2, <1>3, <1>7, <2>1, <2>2
<1>8. ASSUME NEW m \in Moves
      PROVE  /\ move'[m] = "none" => voucher'[Out(m)] = Absent
             /\ move'[m] # "none" => Made(m, voucher'[Out(m)])
             /\ move'[m] # "done" => voucher'[In(m)] = Absent
             /\ move'[m] = "done" => Made(m, voucher'[In(m)])
  <2>1. CASE m # t.on
    BY <1>3, <1>7, <2>1 DEF MovesSound
  <2>2. CASE m = t.on
    <3>1. Out(m) \in Papers /\ In(m) \in Papers /\ Out(m) # In(m)
      BY PapersApart
    <3>2. /\ voucher'[Out(m)] = IF Out(m) \in DOMAIN t.rows THEN t.rows[Out(m)] ELSE voucher[Out(m)]
          /\ voucher'[In(m)] = IF In(m) \in DOMAIN t.rows THEN t.rows[In(m)] ELSE voucher[In(m)]
      BY <1>2, <3>1
    <3>3. /\ \A p \in DOMAIN t.rows : Made(m, t.rows[p])
          /\ t.becomes = "none" => \A p \in DOMAIN t.rows : Made(m, voucher[p])
          /\ t.becomes # "none" =>
                /\ move[m] \in {"none", "moving"}
                /\ move[m] = "none" => Out(m) \in DOMAIN t.rows
                /\ t.becomes = "done" <=> In(m) \in DOMAIN t.rows
      BY <1>3, <2>2 DEF Planned
    <3>4. /\ move[m] = "none" => voucher[Out(m)] = Absent
          /\ move[m] # "none" => Made(m, voucher[Out(m)])
          /\ move[m] # "done" => voucher[In(m)] = Absent
          /\ move[m] = "done" => Made(m, voucher[In(m)])
      BY <1>3 DEF MovesSound
    <3>5. ~Made(m, Absent)
      BY DEF Made, Live, Absent
    <3>6. CASE t.becomes = "none"
      <4>1. move'[m] = move[m]
        BY <1>2, <3>6
      <4> QED
        BY <3>2, <3>3, <3>4, <3>5, <3>6, <4>1
    <3>7. CASE t.becomes # "none"
      <4>1. move'[m] = t.becomes
        BY <1>2, <1>3, <2>2, <3>7
      <4> QED
        BY <3>2, <3>3, <3>4, <3>7, <4>1
    <3> QED
      BY <3>6, <3>7
  <2> QED
    BY <2>1, <2>2
<1>9. MovesSound'
  BY <1>8 DEF MovesSound, Made
<1> QED
  BY <1>5, <1>6, <1>9

(* A transaction on a transfer or swap moves money for its two vouchers     *)
(* only.                                                                   *)
LEMMA TotalByPaper ==
    ASSUME FundsInv, NEW q \in Requests, request[q].on \in Moves
    PROVE  Total(q) = Worked(q, InName(q, Out(request[q].on))) + Worked(q, InName(q, In(request[q].on)))
<1> DEFINE t == request[q]
           wrote == t.wrote
           o == Out(t.on)
           i == In(t.on)
<1>1. t \in Transactions /\ Shaped(t) /\ Balanced(t) /\ Planned(t)
  BY DEF FundsInv, Typed, TransactionSound
<1>2. DOMAIN t.rows \subseteq {o, i} /\ o # i
  BY <1>1, PapersApart DEF Planned
<1>3. \A k \in DOMAIN wrote : wrote[k].paper \in {o, i}
  BY <1>1, <1>2 DEF Balanced, Pays
<1>4. /\ Worked(q, {}) = 0 /\ Total(q) = Worked(q, DOMAIN wrote)
      /\ DOMAIN wrote = 1..Len(wrote) /\ Len(wrote) \in {0, 1, 2}
      /\ \A k \in DOMAIN wrote : InName(q, wrote[k].paper) = {k} /\ Worked(q, {k}) = wrote[k].delta
      /\ \A k \in DOMAIN wrote : wrote[k].delta \in Int
      /\ Len(wrote) = 2 => Total(q) = Worked(q, {1}) + Worked(q, {2})
  <2>1. \A w \in Writes : w.delta \in Int
    BY DEF Writes
  <2> QED
    BY <1>1, <2>1, WrittenOnce, Elements DEF Total
<1>5. \A p : (\A k \in DOMAIN wrote : wrote[k].paper # p) => InName(q, p) = {}
  BY DEF InName
<1> HIDE DEF wrote, o, i
<1>6. CASE Len(wrote) = 0
  <2>1. DOMAIN wrote = {}
    BY <1>4, <1>6
  <2>2. InName(q, o) = {} /\ InName(q, i) = {} /\ Total(q) = Worked(q, {})
    BY <1>4, <1>5, <2>1
  <2>3. Worked(q, InName(q, o)) = 0 /\ Worked(q, InName(q, i)) = 0 /\ Total(q) = 0
    BY <1>4, <2>2
  <2> QED
    BY <2>3 DEF o, i
<1>7. CASE Len(wrote) = 1
  <2>1. DOMAIN wrote = {1}
    BY <1>4, <1>7
  <2>2. Total(q) = Worked(q, {1}) /\ Worked(q, {1}) \in Int
    BY <1>4, <2>1
  <2>3. CASE wrote[1].paper = o
    <3>1. InName(q, o) = {1} /\ InName(q, i) = {}
      BY <1>2, <1>4, <1>5, <2>1, <2>3
    <3> QED
      BY <1>4, <2>2, <3>1 DEF o, i
  <2>4. CASE wrote[1].paper = i
    <3>1. InName(q, i) = {1} /\ InName(q, o) = {}
      BY <1>2, <1>4, <1>5, <2>1, <2>4
    <3> QED
      BY <1>4, <2>2, <3>1 DEF o, i
  <2> QED
    BY <1>3, <2>1, <2>3, <2>4
<1>8. CASE Len(wrote) = 2
  <2>1. 1 \in DOMAIN wrote /\ 2 \in DOMAIN wrote /\ 1 # 2
    BY <1>4, <1>8
  <2>2. InName(q, wrote[1].paper) = {1} /\ InName(q, wrote[2].paper) = {2}
    BY <1>4, <2>1
  <2>3. wrote[1].paper # wrote[2].paper
    <3>1. {1} # {2}
      OBVIOUS
    <3> QED
      BY <2>2, <3>1
  <2>4. Worked(q, {1}) \in Int /\ Worked(q, {2}) \in Int
    BY <1>4, <2>1
  <2>5. CASE wrote[1].paper = o
    <3>1. wrote[2].paper = i
      BY <1>3, <2>1, <2>3, <2>5
    <3> QED
      BY <1>4, <1>8, <2>2, <2>5, <3>1 DEF o, i
  <2>6. CASE wrote[1].paper = i
    <3>1. wrote[2].paper = o
      BY <1>3, <2>1, <2>3, <2>6
    <3>2. Total(q) = Worked(q, {2}) + Worked(q, {1})
      BY <1>4, <1>8, <2>4
    <3> QED
      BY <2>2, <2>6, <3>1, <3>2 DEF o, i
  <2> QED
    BY <1>3, <2>1, <2>5, <2>6
<1> QED
  BY <1>4, <1>6, <1>7, <1>8

(* After a commit the in-transit account still adds up: a transfer or swap  *)
(* takes off its own way what it posts, a voucher written by hand records   *)
(* what it clears.                                                         *)
LEMMA CommitTransit ==
    ASSUME FundsInv, NEW q \in Requests, Commit(q), Typed', MovesSound', VouchersAddUp'
    PROVE  TransitAddsUp'
<1> DEFINE x == request[q].on
           f == OnTheWay
           g == OnTheWay'
           total == Total(q)
<1>1. /\ x \in Vouchers \cup Moves
      /\ inTransit' = IF Clears(q) THEN inTransit - total ELSE inTransit
      /\ cleared' = IF x \in Vouchers /\ Clears(q) THEN [cleared EXCEPT ![x] = @ + total] ELSE cleared
  BY DEF Commit, FundsInv, Typed, Transactions
<1>2. total \in Int
  BY WrittenOnce DEF FundsInv, Typed, TransactionSound
<1>3. /\ inTransit = Sum(f, Moves) - Sum(cleared, Vouchers)
      /\ TransitAddsUp' <=> inTransit' = Sum(g, Moves) - Sum(cleared', Vouchers)
  BY TransitNow, TransitNext DEF FundsInv
<1>4. IsFiniteSet(Moves) /\ IsFiniteSet(Vouchers)
  BY FundsAssumption
<1>5. \A m \in Moves : f[m] = -(posted[Out(m)] + posted[In(m)]) /\ f[m] \in Int
  BY WayIsWorth DEF FundsInv
<1>6. \A m \in Moves : g[m] = -(posted'[Out(m)] + posted'[In(m)]) /\ g[m] \in Int
  BY WaysNext
<1>7. \A p \in Papers : /\ posted[p] \in Int
                        /\ Worked(q, InName(q, p)) \in Int
                        /\ posted'[p] = posted[p] + Worked(q, InName(q, p))
                        /\ p \notin DOMAIN request[q].rows => InName(q, p) = {}
  BY CommitOnePaper DEF FundsInv, Typed
<1>8. Worked(q, {}) = 0
  BY WrittenOnce DEF FundsInv, Typed, TransactionSound
<1>9. Planned(request[q])
  BY DEF FundsInv, TransactionSound
<1>10. ASSUME NEW m \in Moves, m # x PROVE g[m] = f[m]
  <2>1. Out(m) \notin DOMAIN request[q].rows /\ In(m) \notin DOMAIN request[q].rows
        /\ Out(m) \in Papers /\ In(m) \in Papers
    <3>1. CASE x \in Vouchers
      BY <1>9, <3>1, PapersApart DEF Planned
    <3>2. CASE x \in Moves
      BY <1>9, <1>10, <3>2, PapersApart DEF Planned
    <3> QED
      BY <1>1, <3>1, <3>2
  <2>2. ASSUME NEW p \in Papers, p \notin DOMAIN request[q].rows PROVE posted'[p] = posted[p]
    <3>1. InName(q, p) = {} /\ posted'[p] = posted[p] + Worked(q, InName(q, p)) /\ posted[p] \in Int
      BY <1>7, <2>2
    <3>2. posted'[p] = posted[p] + 0
      BY <1>8, <3>1
    <3> QED
      BY <3>1, <3>2
  <2>3. posted'[Out(m)] = posted[Out(m)] /\ posted'[In(m)] = posted[In(m)]
    BY <2>1, <2>2
  <2> QED
    BY <1>5, <1>6, <2>3
<1>11. Sum(f, Moves) \in Int /\ Sum(cleared, Vouchers) \in Int
  <2>1. \A v \in Vouchers : cleared[v] \in Int
    BY DEF FundsInv, Typed
  <2> HIDE DEF f
  <2> QED
    BY <1>4, <1>5, <2>1, SumInt
<1>12. CASE x \in Vouchers
  <2>1. Sum(g, Moves) = Sum(f, Moves)
    <3>1. \A m \in Moves : f[m] = g[m]
      BY <1>10, <1>12, FundsAssumption
    <3> HIDE DEF f, g
    <3> QED
      BY <1>4, <3>1, SumAgrees
  <2>2. CASE Clears(q)
    <3>1. /\ inTransit' = inTransit - total
          /\ cleared' = [cleared EXCEPT ![x] = cleared[x] + total]
      BY <1>1, <1>12, <2>2
    <3> HIDE DEF total, x
    <3>2. /\ \A v \in Vouchers : cleared[v] \in Int
          /\ DOMAIN cleared = Vouchers
      BY DEF FundsInv, Typed
    <3>3. /\ \A v \in Vouchers \ {x} : cleared'[v] = cleared[v]
          /\ cleared'[x] = cleared[x] + total /\ cleared'[x] \in Int
      BY <1>2, <1>12, <3>1, <3>2
    <3>4. Sum(cleared', Vouchers) = Sum(cleared, Vouchers) - cleared[x] + cleared'[x]
      BY <1>4, <1>12, <3>2, <3>3, SumChange
    <3>5. cleared[x] \in Int
      BY <1>12, <3>2
    <3>6. Sum(cleared', Vouchers) = Sum(cleared, Vouchers) + total
      BY <1>2, <1>11, <3>3, <3>4, <3>5
    <3> HIDE DEF f, g
    <3>7. inTransit' = Sum(g, Moves) - Sum(cleared', Vouchers)
      BY <1>2, <1>3, <1>11, <2>1, <3>1, <3>6
    <3> QED
      BY <1>3, <3>7
  <2>3. CASE ~Clears(q)
    <3>1. inTransit' = inTransit /\ cleared' = cleared
      BY <1>1, <2>3
    <3> HIDE DEF f, g
    <3> QED
      BY <1>3, <2>1, <3>1
  <2> QED
    BY <2>2, <2>3
<1>13. CASE x \in Moves
  <2>1. /\ inTransit' = inTransit - total /\ cleared' = cleared
    BY <1>1, <1>13, FundsAssumption DEF Clears
  <2> DEFINE a == Worked(q, InName(q, Out(x)))
             b == Worked(q, InName(q, In(x)))
  <2>2. total = a + b
    BY <1>13, TotalByPaper
  <2>3. Out(x) \in Papers /\ In(x) \in Papers
    BY <1>13, PapersApart
  <2>4. /\ a \in Int /\ b \in Int
        /\ posted[Out(x)] \in Int /\ posted[In(x)] \in Int
        /\ posted'[Out(x)] = posted[Out(x)] + a /\ posted'[In(x)] = posted[In(x)] + b
    BY <1>7, <2>3
  <2>5. /\ f[x] = -(posted[Out(x)] + posted[In(x)]) /\ g[x] = -(posted'[Out(x)] + posted'[In(x)])
        /\ f[x] \in Int /\ g[x] \in Int
    BY <1>5, <1>6, <1>13
  <2> HIDE DEF a, b, total, x, f, g
  <2>6. g[x] = f[x] - total
    BY <2>2, <2>4, <2>5
  <2>7. Sum(g, Moves) = Sum(f, Moves) - f[x] + g[x]
    <3>1. (\A m \in Moves : f[m] \in Int) /\ \A m \in Moves \ {x} : g[m] = f[m]
      BY <1>5, <1>10
    <3> QED
      BY <1>4, <1>13, <2>5, <3>1, SumChange
  <2>8. Sum(g, Moves) = Sum(f, Moves) - total
    BY <1>2, <1>11, <2>5, <2>6, <2>7
  <2>9. inTransit' = Sum(g, Moves) - Sum(cleared', Vouchers)
    BY <1>2, <1>3, <1>11, <2>1, <2>8
  <2> QED
    BY <1>3, <2>9
<1> QED
  BY <1>1, <1>12, <1>13

(* A commit installs its balances, vouchers and transfers together.        *)
LEMMA CommitKeeps ==
    ASSUME FundsInv, NEW q \in Requests, Commit(q)
    PROVE  FundsInv'
<1>1. /\ Release(q) /\ request[q].on \in Vouchers \cup Moves
      /\ DOMAIN balance' = AllFunds /\ balance' = [f \in AllFunds |-> balance'[f]]
      /\ DOMAIN moved' = AllFunds /\ moved' = [f \in AllFunds |-> moved'[f]]
      /\ DOMAIN posted' = Papers /\ posted' = [p \in Papers |-> posted'[p]]
      /\ DOMAIN voucher' = Papers /\ voucher' = [p \in Papers |-> voucher'[p]]
      /\ overwritten' \subseteq overwritten \cup AllFunds
  BY DEF Commit, FundsInv, Typed, Transactions
<1>2. /\ \A f \in AllFunds : balance[f] \in Int /\ moved[f] \in Int /\ Opening[f] \in Int
      /\ \A w \in Writes : w.read \in Int /\ w.delta \in Int
      /\ overwritten \subseteq CashFunds
  BY FundsAssumption DEF FundsInv, Typed, Writes, BalancesAddUp
<1>3. \A f \in AllFunds : balance'[f] \in Int /\ moved'[f] \in Int
  BY <1>2, CommitOneFund
<1>4. ASSUME NEW f \in DepositFunds
      PROVE  /\ lock[f] # q => balance'[f] = balance[f]
             /\ f \in overwritten' <=> f \in overwritten
  <2>1. f \in AllFunds
    BY DEF AllFunds
  <2> QED
    BY <2>1, CommitOneFund DEF ReadHolds
<1>5. \A p \in Papers : /\ voucher'[p] \in VoucherRows /\ RowSound(voucher'[p])
                        /\ posted'[p] \in Int /\ posted'[p] = Worth(p, voucher'[p])
                        /\ p \notin Held(q) => voucher'[p] = voucher[p]
  BY CommitOnePaper DEF Held
<1>6. MovesSound' /\ move' \in [Moves -> MoveStates] /\ \A m \in Moves : m \notin Held(q) => move'[m] = move[m]
  BY CommitMoves
<1>7. HeldApart' /\ (\A p \in Requests : TransactionSound(p)')
      /\ request' \in [Requests -> Transactions]
      /\ lock' \in [DepositFunds -> Requests \cup {None}]
  BY <1>1, <1>4, <1>5, <1>6, ReleaseKeeps
<1>8. inTransit' \in Int /\ cleared' \in [Vouchers -> Int]
  <2>1. Total(q) \in Int /\ inTransit \in Int /\ cleared \in [Vouchers -> Int]
    BY WrittenOnce DEF FundsInv, Typed, TransactionSound
  <2>2. /\ inTransit' = IF Clears(q) THEN inTransit - Total(q) ELSE inTransit
        /\ cleared' = IF request[q].on \in Vouchers /\ Clears(q)
                      THEN [cleared EXCEPT ![request[q].on] = @ + Total(q)] ELSE cleared
    BY DEF Commit
  <2> QED
    BY <2>1, <2>2
<1>9. Typed'
  <2>1. /\ balance' \in [AllFunds -> Int] /\ moved' \in [AllFunds -> Int]
        /\ voucher' \in [Papers -> VoucherRows] /\ posted' \in [Papers -> Int]
    BY <1>1, <1>3, <1>5
  <2>2. \A p \in Papers : RowSound(voucher'[p])
    BY <1>5
  <2> QED
    BY <1>6, <1>7, <1>8, <2>1, <2>2 DEF Typed, RowSound, Live
<1>10. VouchersAddUp'
  BY <1>5 DEF VouchersAddUp, Worth, SignOf
<1>11. BalancesAddUp'
  <2>1. overwritten' \subseteq CashFunds
    <3>1. DepositFunds \cap CashFunds = {} /\ AllFunds = CashFunds \cup DepositFunds
      BY FundsAssumption DEF AllFunds
    <3> QED
      BY <1>1, <1>2, <1>4, <3>1
  <2>2. ASSUME NEW f \in AllFunds \ overwritten' PROVE balance'[f] = Opening[f] + moved'[f]
    <3>1. CASE /\ balance'[f] = balance[f] /\ moved'[f] = moved[f]
               /\ f \in overwritten' <=> f \in overwritten
      BY <2>2, <3>1 DEF FundsInv, BalancesAddUp
    <3>2. ASSUME NEW w \in Writes, balance'[f] = w.read + w.delta, moved'[f] = moved[f] + w.delta,
                 f \in overwritten' <=> f \in overwritten \/ balance[f] # w.read
          PROVE  balance'[f] = Opening[f] + moved'[f]
      <4>1. balance[f] = w.read /\ balance[f] = Opening[f] + moved[f]
        BY <2>2, <3>2 DEF FundsInv, BalancesAddUp
      <4> QED
        BY <1>2, <3>2, <4>1
    <3> QED
      BY <3>1, <3>2, CommitOneFund
  <2>3. ASSUME NEW f \in AllFunds \ MayOverdraw PROVE balance'[f] >= 0
    <3>1. balance[f] >= 0
      BY DEF FundsInv, BalancesAddUp
    <3> QED
      BY <3>1, CommitOneFund DEF ReadHolds
  <2> QED
    BY <2>1, <2>2, <2>3 DEF BalancesAddUp
<1>12. TransitAddsUp'
  BY <1>6, <1>9, <1>10, CommitTransit
<1> QED
  BY <1>6, <1>7, <1>9, <1>10, <1>11, <1>12 DEF FundsInv

-----------------------------------------------------------------------------
(* Every step keeps the books.                                             *)
LEMMA FundsStep == FundsInv /\ [Next]_vars => FundsInv'
<1> SUFFICES ASSUME FundsInv, [Next]_vars PROVE FundsInv'
  OBVIOUS
<1>1. ASSUME NEW q \in Requests, NEW v \in Vouchers,
             \/ \E f \in FundsOf[v], n \in Amounts : BeginCreate(q, v, f, n) \/ BeginUpdate(q, v, f, n)
             \/ BeginDelete(q, v)
      PROVE  FundsInv'
  BY <1>1, VoucherKept
<1>2. ASSUME NEW q \in Requests, NEW p \in Papers, BeginReverse(q, p) PROVE FundsInv'
  BY <1>2, ReverseKept
<1>3. ASSUME NEW q \in Requests, NEW m \in Moves,
             BeginSend(q, m) \/ BeginConfirm(q, m) \/ BeginCancel(q, m) \/ BeginSwap(q, m)
      PROVE  FundsInv'
  BY <1>3, MoveKept
<1>4. ASSUME NEW q \in Requests, ReadFund(q) PROVE FundsInv'
  BY <1>4, ReadFundKeeps
<1>5. ASSUME NEW q \in Requests, Refused(q) PROVE FundsInv'
  BY <1>5, RefusedKeeps
<1>6. ASSUME NEW q \in Requests, Commit(q) PROVE FundsInv'
  BY <1>6, CommitKeeps
<1>7. ASSUME UNCHANGED vars PROVE FundsInv'
  <2>1. UNCHANGED <<books, voucher, move>> /\ lock' = lock /\ request' = request
    BY <1>7 DEF vars
  <2>2. Typed' /\ HeldApart'
    BY <2>1 DEF FundsInv, Typed, HeldApart, Held, books
  <2>3. ASSUME NEW p \in Requests PROVE TransactionSound(p)'
    <3>1. TransactionSound(p) /\ request'[p] = request[p]
      BY <2>1 DEF FundsInv
    <3>2. Balanced(request[p])' /\ Planned(request[p])'
      BY <2>1, <3>1 DEF TransactionSound, Balanced, Planned, Pays, Due
    <3>3. \A i \in DOMAIN request[p].wrote : ReadHolds(p, request[p].wrote[i])'
      BY <2>1, <3>1 DEF TransactionSound, ReadHolds, books
    <3> QED
      BY <3>1, <3>2, <3>3 DEF TransactionSound, Shaped
  <2>4. MovesSound' /\ BalancesAddUp' /\ VouchersAddUp' /\ TransitAddsUp'
    BY <2>1, BooksKept
  <2> QED
    BY <2>2, <2>3, <2>4 DEF FundsInv
<1> QED
  BY <1>1, <1>2, <1>3, <1>4, <1>5, <1>6, <1>7 DEF Next

(* The invariant the theorems below are read off.                          *)
LEMMA FundsAlways == Spec => []FundsInv
  BY FundsInit, FundsStep, PTL DEF Spec

(* Every row, transaction and balance keeps its type, whatever is reversed. *)
THEOREM FundsTyped == Spec => []FundsTypeOK
<1>1. FundsInv => FundsTypeOK
  <2> SUFFICES ASSUME FundsInv PROVE FundsTypeOK
    OBVIOUS
  <2>1. ASSUME NEW q \in Requests
        PROVE  /\ request[q].on \in Vouchers \cup Moves \cup {None}
               /\ \A p \in DOMAIN request[q].rows : p \in Papers /\ request[q].rows[p] \in VoucherRows
               /\ request[q].becomes \in MoveStates
               /\ \A i \in DOMAIN request[q].legs : request[q].legs[i] \in Movements
               /\ \A i \in DOMAIN request[q].wrote : request[q].wrote[i] \in Writes
    <3>1. request[q] \in Transactions
      BY DEF FundsInv, Typed
    <3>2. request[q].rows \in RowsOf /\ request[q].on \in Vouchers \cup Moves \cup {None}
          /\ request[q].becomes \in MoveStates
      BY <3>1 DEF Transactions
    <3> QED
      BY <3>1, <3>2, RowsTyped, Elements
  <2>2. overwritten \subseteq AllFunds
    BY DEF FundsInv, BalancesAddUp, AllFunds
  <2> QED
    BY <2>1, <2>2 DEF FundsInv, Typed, FundsTypeOK
<1> QED
  BY <1>1, FundsAlways, PTL

(* What was posted in a voucher's name, by its creation, its edits and its  *)
(* deletion or reversals, is what it is worth, be it written by hand or the *)
(* payment or receipt of a transfer or swap: update and the undoing         *)
(* operations read the row they hold locked.                               *)
THEOREM VouchersAlwaysAddUp == Spec => []VouchersAddUp
<1>1. FundsInv => VouchersAddUp
  BY DEF FundsInv
<1> QED
  BY <1>1, FundsAlways, PTL

(* The in-transit account holds the money on its way, less what was cleared *)
(* by hand and what reversals of single legs moved, though a transfer whose *)
(* payment was reversed can still be confirmed: no transfer is confirmed    *)
(* twice, nor confirmed and cancelled.                                     *)
THEOREM TransitAlwaysAddsUp == Spec => []TransitAddsUp
<1>1. FundsInv => TransitAddsUp
  BY DEF FundsInv
<1> QED
  BY <1>1, FundsAlways, PTL

(* A deposit fund's balance is what its movements say, for its row is       *)
(* locked from the read to the commit; a cash fund's is, until a movement   *)
(* is written over another; none is overdrawn that may not be.             *)
THEOREM BalancesAlwaysAddUp == Spec => []BalancesAddUp
<1>1. FundsInv => BalancesAddUp
  BY DEF FundsInv
<1> QED
  BY <1>1, FundsAlways, PTL
=============================================================================
