------------------------- MODULE CheckoutSagaProofs -------------------------
(***************************************************************************)
(* Proofs about CheckoutSaga, for any requests, invoices, counters,        *)
(* vouchers, cards, stock rows, tills, faults and edits.                   *)
(***************************************************************************)
EXTENDS CheckoutSaga, SumTheorems, TLAPS

-----------------------------------------------------------------------------
\* The steps of a transaction past its first locks.
AfterLock == {"mint", "first", "voucher", "persist", "stock", "journal", "pay", "commit"}
AfterMint == {"voucher", "persist", "stock", "journal", "pay", "commit"}
AfterVoucher == {"persist", "stock", "journal", "pay", "commit"}
AfterPersist == {"stock", "journal", "pay", "commit"}
AfterJournal == {"pay", "commit"}

\* What r's transaction has checked still holds, under locks it still has;
\* and a request that sold is past its transaction.
Secured(r) ==
    LET i == InvoiceOf[r] IN
    /\ at[r] \in AfterLock => holder[i] = r /\ i \in draft
    /\ at[r] \in AfterMint =>
          holder[CounterOf[i]] = r /\ number[r] = counter[CounterOf[i]] + 1
    /\ at[r] \in AfterVoucher /\ VoucherOf[r] # None =>
          holder[VoucherOf[r]] = r /\ VoucherOf[r] \notin used
    /\ at[r] \in AfterPersist /\ CardOf[i] # None =>
          holder[CardOf[i]] = r /\ Wished[i] <= points[CardOf[i]]
    /\ at[r] \in AfterJournal =>
          holder[JournalOf[i]] = r /\ entry[r] = counter[JournalOf[i]] + 1
    /\ r \in sold => at[r] \in {"failing", "done"}

AllSecured == \A r \in Requests : Secured(r)

\* A replay has found the saga row of some request.
ReplaysKnown == \A r \in Requests : at[r] = "replayed" => sagaOf[r] \in Requests

SagaInv == SagaTypeOK /\ AllSecured /\ ReplaysKnown

(* The rows a request may lock are rows.                                   *)
LEMMA RowsOfRequest ==
    ASSUME NEW r \in Requests
    PROVE  /\ InvoiceOf[r] \in Invoices
           /\ KeyOf[r] \in Keys
           /\ CounterOf[InvoiceOf[r]] \in Counters
           /\ JournalOf[InvoiceOf[r]] \in Counters
           /\ CounterOf[InvoiceOf[r]] # JournalOf[InvoiceOf[r]]
           /\ VoucherOf[r] \in Vouchers \cup {None}
           /\ CardOf[InvoiceOf[r]] \in Cards \cup {None}
           /\ Wished[InvoiceOf[r]] \in Nat
           /\ LinesOf[InvoiceOf[r]] \in Seq(Items)
           /\ PaymentsOf[InvoiceOf[r]] \in Seq(Tills)
           /\ None \notin Requests \cup Vouchers \cup Cards
  BY SagaAssumption DEF SagaAssumption

(* Taking a row sets its lock and the step, and no other row's lock.       *)
LEMMA TakeEffect ==
    ASSUME SagaTypeOK, NEW r \in Requests, NEW x \in Rows, NEW step \in Steps,
           Take(r, x, step)
    PROVE  /\ holder' \in [Rows -> Requests \cup {None}]
           /\ at' \in [Requests -> Steps]
           /\ at'[r] = step
           /\ holder'[x] = r
           /\ \A y \in Rows : holder[y] # None => holder'[y] = holder[y]
  BY DEF SagaTypeOK, Take, Goto

(* Neither taking a row nor ending a transaction frees another's lock.     *)
LEMMA LocksOfOthers ==
    ASSUME SagaTypeOK, NEW r \in Requests, NEW q \in Requests \ {r}, NEW y \in Rows, holder[y] = q,
           UNCHANGED holder \/ Unlock(r) \/ \E x, step : Take(r, x, step)
    PROVE  holder'[y] = q
<1>0. q # None
  BY SagaAssumption DEF SagaAssumption
<1>1. CASE UNCHANGED holder
  BY <1>1
<1>2. CASE Unlock(r)
  BY <1>2 DEF Unlock
<1>3. CASE \E x, step : Take(r, x, step)
  BY <1>0, <1>3 DEF Take, SagaTypeOK
<1>4. QED
  BY <1>1, <1>2, <1>3

(* A step of r that commits nothing leaves what another request has        *)
(* secured as it was.                                                      *)
LEMMA OthersSecured ==
    ASSUME AllSecured, SagaTypeOK,
           NEW r \in Requests, NEW q \in Requests \ {r},
           at'[q] = at[q], number'[q] = number[q], entry'[q] = entry[q],
           \A x \in Rows : holder[x] = q => holder'[x] = q,
           draft \subseteq draft',
           UNCHANGED <<counter, used, points, sold>>
    PROVE  Secured(q)'
<1>1. Secured(q)
  BY DEF AllSecured
<1>2. QED
  BY <1>1, RowsOfRequest DEF Secured, Rows, AfterVoucher, AfterPersist

(* Nor does a commit of r, because their rows are locked apart.            *)
LEMMA OthersSecuredByInstall ==
    ASSUME AllSecured, SagaTypeOK,
           NEW r \in Requests, NEW q \in Requests \ {r}, at[r] = "commit",
           NEW step \in {"failing", "done"}, Install(r), Goto(r, step),
           UNCHANGED <<number, entry>>
    PROVE  Secured(q)'
<1> DEFINE i == InvoiceOf[q]
<1>0. Secured(q) /\ Secured(r) /\ at'[q] = at[q]
  BY DEF AllSecured, Goto, SagaTypeOK
<1>1. \A x \in Rows : holder[x] = q => holder'[x] = q
  BY DEF Install, Unlock, SagaTypeOK
<1>2. at[q] \in AfterLock => holder'[i] = q /\ i \in draft'
  BY <1>0, <1>1, RowsOfRequest DEF Secured, Install, Rows, AfterLock
<1>3. ASSUME NEW c \in Counters, holder[c] = q
      PROVE  counter'[c] = counter[c]
  BY <1>0, <1>3, RowsOfRequest DEF Secured, Install, SagaTypeOK, AfterMint, AfterJournal
<1>4. at[q] \in AfterMint =>
         holder'[CounterOf[i]] = q /\ number'[q] = counter'[CounterOf[i]] + 1
  BY <1>0, <1>1, <1>3, RowsOfRequest DEF Secured, Rows
<1>5. at[q] \in AfterJournal =>
         holder'[JournalOf[i]] = q /\ entry'[q] = counter'[JournalOf[i]] + 1
  BY <1>0, <1>1, <1>3, RowsOfRequest DEF Secured, Rows
<1>6. at[q] \in AfterVoucher /\ VoucherOf[q] # None =>
         holder'[VoucherOf[q]] = q /\ VoucherOf[q] \notin used'
  BY <1>0, <1>1, RowsOfRequest DEF Secured, Install, Rows, AfterVoucher
<1>7. at[q] \in AfterPersist /\ CardOf[i] # None =>
         holder'[CardOf[i]] = q /\ Wished[i] <= points'[CardOf[i]]
  BY <1>0, <1>1, RowsOfRequest DEF Secured, Install, Rows, AfterPersist
<1>8. q \in sold' => at[q] \in {"failing", "done"}
  BY <1>0 DEF Secured, Install
<1>9. QED
  BY <1>0, <1>2, <1>4, <1>5, <1>6, <1>7, <1>8 DEF Secured

(* A step after which r holds nothing it relies on.                        *)
LEMMA LeaveSecured ==
    ASSUME AllSecured, SagaTypeOK,
           NEW r \in Requests, NEW step \in Steps \ AfterLock, Goto(r, step),
           step \in {"failing", "done"} \/ r \notin sold,
           UNCHANGED holder \/ Unlock(r) \/ \E x \in Rows : Take(r, x, step),
           UNCHANGED <<draft, counter, used, points, sold, number, entry>>
    PROVE  AllSecured'
<1>1. \A q \in Requests \ {r} : \A x \in Rows : holder[x] = q => holder'[x] = q
  BY LocksOfOthers
<1>2. \A q \in Requests \ {r} : at'[q] = at[q]
  BY DEF Goto, SagaTypeOK
<1>3. \A q \in Requests \ {r} : Secured(q)'
  BY <1>1, <1>2, OthersSecured
<1>4. at'[r] = step
  BY DEF Goto, SagaTypeOK
<1>5. Secured(r)'
  BY <1>4 DEF Secured, AfterLock, AfterMint, AfterVoucher, AfterPersist, AfterJournal
<1>6. QED
  BY <1>3, <1>5 DEF AllSecured

(* An aborted transaction is such a step.                                  *)
LEMMA AbortSecured ==
    ASSUME AllSecured, SagaTypeOK, NEW r \in Requests, NEW kind, Abort(r, kind)
    PROVE  AllSecured'
<1>1. "failing" \in Steps \ AfterLock
  BY DEF Steps, AfterLock
<1>2. QED
  BY <1>1, LeaveSecured DEF Abort, committed, context

(* A step inside r's transaction is left to show what r secures with it.   *)
LEMMA StepSecured ==
    ASSUME AllSecured, SagaTypeOK,
           NEW r \in Requests, NEW step \in Steps, Goto(r, step),
           UNCHANGED holder \/ \E x \in Rows : Take(r, x, step),
           \A q \in Requests \ {r} : number'[q] = number[q] /\ entry'[q] = entry[q],
           UNCHANGED <<draft, counter, used, points, sold>>,
           Secured(r)'
    PROVE  AllSecured'
<1>1. \A q \in Requests \ {r} : \A x \in Rows : holder[x] = q => holder'[x] = q
  BY LocksOfOthers
<1>2. \A q \in Requests \ {r} : at'[q] = at[q]
  BY DEF Goto, SagaTypeOK
<1>3. \A q \in Requests \ {r} : Secured(q)'
  BY <1>1, <1>2, OthersSecured
<1>4. QED
  BY <1>3 DEF AllSecured

(* No step of a request, and no failure, takes away what any request has   *)
(* secured.                                                                *)
LEMMA RequestSecured ==
    ASSUME AllSecured, SagaTypeOK, NEW r \in Requests, RequestStep(r)
    PROVE  AllSecured'
<1> DEFINE i == InvoiceOf[r]
<1>0. Secured(r) /\ at[r] \in Steps
  BY DEF AllSecured, SagaTypeOK
<1>1. CASE LoadDraft(r) \/ ResolveFunds(r) \/ OpenSaga(r)
  <2>1. PICK step \in {"funds", "open", "insert", "replayed", "done"} : Goto(r, step)
    BY <1>1 DEF LoadDraft, ResolveFunds, OpenSaga, Reject
  <2>2. step \in Steps \ AfterLock
    BY DEF Steps, Preflight, InTransaction, AfterLock
  <2>3. r \notin sold
    BY <1>0, <1>1 DEF Secured, LoadDraft, ResolveFunds, OpenSaga
  <2>4. UNCHANGED <<holder, draft, counter, used, points, sold, number, entry>>
    BY <1>1 DEF LoadDraft, ResolveFunds, OpenSaga, committed, context
  <2>5. QED
    BY <2>1, <2>2, <2>3, <2>4, LeaveSecured
<1>2. CASE InsertSaga(r)
  <2>1. CASE Take(r, KeyOf[r], "lock") /\ UNCHANGED <<committed, number, entry>>
    <3>1. r \notin sold /\ KeyOf[r] \in Rows /\ "lock" \in Steps \ AfterLock
      BY <1>0, <1>2, RowsOfRequest DEF Secured, InsertSaga, Rows, Steps, InTransaction, AfterLock
    <3>2. QED
      BY <2>1, <3>1, LeaveSecured DEF Take, committed
  <2>2. CASE Abort(r, "conflict")
    BY <2>2, AbortSecured
  <2>3. QED
    BY <1>2, <2>1, <2>2 DEF InsertSaga
<1>3. CASE LockInvoice(r)
  <2>1. CASE Abort(r, "failed")
    BY <2>1, AbortSecured
  <2>2. CASE i \in draft /\ Take(r, i, "mint") /\ UNCHANGED <<committed, context>>
    <3>1. i \in Rows /\ "mint" \in Steps
      BY RowsOfRequest DEF Rows, Steps, InTransaction
    <3>2. at'[r] = "mint" /\ holder'[i] = r
      BY <2>2, <3>1, TakeEffect
    <3>3. r \notin sold
      BY <1>0, <1>3 DEF Secured, LockInvoice
    <3>4. Secured(r)'
      BY <2>2, <3>2, <3>3 DEF Secured, committed, AfterMint, AfterVoucher, AfterPersist, AfterJournal
    <3>5. QED
      BY <2>2, <3>1, <3>4, StepSecured DEF Take, committed, context
  <2>3. QED
    BY <1>3, <2>1, <2>2 DEF LockInvoice
<1>4. CASE MintNumber(r)
  <2>0. r \notin sold /\ CounterOf[i] \in Rows /\ {"voucher", "first"} \subseteq Steps
    BY <1>0, <1>4, RowsOfRequest DEF Secured, MintNumber, Rows, Steps, InTransaction
  <2>1. holder[i] = r /\ i \in draft
    BY <1>0, <1>4 DEF Secured, MintNumber, AfterLock
  <2>2. CASE /\ Take(r, CounterOf[i], "voucher")
             /\ number' = [number EXCEPT ![r] = counter[CounterOf[i]] + 1]
             /\ UNCHANGED <<committed, entry>>
    <3>1. at'[r] = "voucher" /\ holder'[CounterOf[i]] = r /\ holder'[i] = r
      BY <2>0, <2>1, <2>2, RowsOfRequest DEF Take, Goto, SagaTypeOK, Rows
    <3>2. number'[r] = counter[CounterOf[i]] + 1
      BY <2>2 DEF SagaTypeOK
    <3>3. Secured(r)'
      BY <2>0, <2>1, <2>2, <3>1, <3>2
      DEF Secured, committed, AfterVoucher, AfterPersist, AfterJournal
    <3>4. QED
      BY <2>0, <2>2, <3>3, StepSecured DEF Take, committed, SagaTypeOK
  <2>3. CASE Goto(r, "first") /\ UNCHANGED <<committed, holder, number, entry>>
    <3>1. at'[r] = "first"
      BY <2>3 DEF Goto, SagaTypeOK
    <3>2. Secured(r)'
      BY <2>0, <2>1, <2>3, <3>1
      DEF Secured, committed, AfterMint, AfterVoucher, AfterPersist, AfterJournal
    <3>3. QED
      BY <2>0, <2>3, <3>2, StepSecured DEF committed
  <2>4. QED
    BY <1>4, <2>2, <2>3 DEF MintNumber
<1>5. CASE MintFirst(r)
  <2>1. CASE Abort(r, "failed")
    BY <2>1, AbortSecured
  <2>2. CASE /\ counter[CounterOf[i]] = 0
             /\ Take(r, CounterOf[i], "voucher")
             /\ number' = [number EXCEPT ![r] = 1]
             /\ UNCHANGED <<committed, entry>>
    <3>0. r \notin sold /\ CounterOf[i] \in Rows /\ "voucher" \in Steps
      BY <1>0, <1>5, RowsOfRequest DEF Secured, MintFirst, Rows, Steps, InTransaction
    <3>1. holder[i] = r /\ i \in draft
      BY <1>0, <1>5 DEF Secured, MintFirst, AfterLock
    <3>2. at'[r] = "voucher" /\ holder'[CounterOf[i]] = r /\ holder'[i] = r
      BY <2>2, <3>0, <3>1, RowsOfRequest DEF Take, Goto, SagaTypeOK, Rows
    <3>3. number'[r] = counter[CounterOf[i]] + 1
      BY <2>2 DEF SagaTypeOK
    <3>4. Secured(r)'
      BY <2>2, <3>0, <3>1, <3>2, <3>3
      DEF Secured, committed, AfterVoucher, AfterPersist, AfterJournal
    <3>5. QED
      BY <2>2, <3>0, <3>4, StepSecured DEF Take, committed, SagaTypeOK
  <2>3. QED
    BY <1>5, <2>1, <2>2 DEF MintFirst
<1>6. CASE RedeemVoucher(r)
  <2>1. CASE Abort(r, "failed")
    BY <2>1, AbortSecured
  <2>2. CASE /\ \/ VoucherOf[r] = None /\ Goto(r, "persist") /\ UNCHANGED holder
                \/ VoucherOf[r] \in Vouchers \ used /\ Take(r, VoucherOf[r], "persist")
             /\ UNCHANGED <<committed, context>>
    <3>0. r \notin sold /\ "persist" \in Steps /\ Vouchers \subseteq Rows
      BY <1>0, <1>6 DEF Secured, RedeemVoucher, Rows, Steps, InTransaction
    <3>1. /\ holder[i] = r /\ i \in draft
          /\ holder[CounterOf[i]] = r /\ number[r] = counter[CounterOf[i]] + 1
      BY <1>0, <1>6 DEF Secured, RedeemVoucher, AfterLock, AfterMint
    <3>2. /\ at'[r] = "persist" /\ holder'[i] = r /\ holder'[CounterOf[i]] = r
          /\ VoucherOf[r] # None => holder'[VoucherOf[r]] = r /\ VoucherOf[r] \notin used
      BY <2>2, <3>0, <3>1, RowsOfRequest DEF Take, Rows, Goto, SagaTypeOK
    <3>3. Secured(r)'
      BY <2>2, <3>0, <3>1, <3>2 DEF Secured, committed, context, AfterPersist, AfterJournal
    <3>4. QED
      BY <2>2, <3>0, <3>3, StepSecured DEF Take, committed, context
  <2>3. QED
    BY <1>6, <2>1, <2>2 DEF RedeemVoucher, committed, context
<1>7. CASE PersistInvoice(r)
  <2> DEFINE c == CardOf[i]
  <2>1. CASE Abort(r, "failed")
    BY <2>1, AbortSecured
  <2>2. CASE /\ \/ c = None /\ Goto(r, "stock") /\ UNCHANGED holder
                \/ c \in Cards /\ Wished[i] <= points[c] /\ Take(r, c, "stock")
             /\ UNCHANGED <<committed, number, entry>>
    <3>0. r \notin sold /\ "stock" \in Steps /\ Cards \subseteq Rows
      BY <1>0, <1>7 DEF Secured, PersistInvoice, Rows, Steps, InTransaction
    <3>1. /\ holder[i] = r /\ i \in draft
          /\ holder[CounterOf[i]] = r /\ number[r] = counter[CounterOf[i]] + 1
          /\ VoucherOf[r] # None => holder[VoucherOf[r]] = r /\ VoucherOf[r] \notin used
      BY <1>0, <1>7 DEF Secured, PersistInvoice, AfterLock, AfterMint, AfterVoucher
    <3>2. /\ at'[r] = "stock" /\ holder'[i] = r /\ holder'[CounterOf[i]] = r
          /\ VoucherOf[r] # None => holder'[VoucherOf[r]] = r
          /\ c # None => holder'[c] = r /\ Wished[i] <= points[c]
      BY <2>2, <3>0, <3>1, RowsOfRequest DEF Take, Rows, Goto, SagaTypeOK
    <3>3. Secured(r)'
      BY <2>2, <3>0, <3>1, <3>2 DEF Secured, committed, AfterJournal
    <3>4. QED
      BY <2>2, <3>0, <3>3, StepSecured DEF Take, committed
  <2>3. QED
    BY <1>7, <2>1, <2>2 DEF PersistInvoice
<1>8. CASE DeductStock(r) \/ PostJournal(r) \/ PostPayments(r)
  <2>0. /\ r \notin sold
        /\ {"stock", "journal", "pay", "commit"} \subseteq Steps
        /\ at[r] \in {"stock", "journal", "pay"}
    BY <1>0, <1>8 DEF Secured, DeductStock, PostJournal, PostPayments, Steps, InTransaction
  <2>1. /\ holder[i] = r /\ i \in draft
        /\ holder[CounterOf[i]] = r /\ number[r] = counter[CounterOf[i]] + 1
        /\ VoucherOf[r] # None => holder[VoucherOf[r]] = r /\ VoucherOf[r] \notin used
        /\ CardOf[i] # None => holder[CardOf[i]] = r /\ Wished[i] <= points[CardOf[i]]
    BY <1>0, <2>0 DEF Secured, AfterLock, AfterMint, AfterVoucher, AfterPersist
  <2>2. UNCHANGED <<draft, counter, used, points, sold, number>>
    BY <1>8 DEF DeductStock, PostJournal, PostPayments, committed
  <2>3. PICK step \in {"stock", "journal", "pay", "commit"} :
           /\ Goto(r, step)
           /\ UNCHANGED holder \/ \E x \in Rows : Take(r, x, step)
           /\ step \in {"pay", "commit"} =>
                 holder'[JournalOf[i]] = r /\ entry'[r] = counter[JournalOf[i]] + 1
           /\ \A q \in Requests \ {r} : entry'[q] = entry[q]
    <3>1. CASE DeductStock(r)
      <4>1. CASE todo[r] = <<>>
        BY <3>1, <4>1 DEF DeductStock
      <4>2. CASE todo[r] # <<>>
        <5>1. Head(todo[r]) \in Rows
          BY <4>2 DEF SagaTypeOK, Rows
        <5>2. QED
          BY <3>1, <4>2, <5>1 DEF DeductStock, Take
      <4>3. QED
        BY <4>1, <4>2
    <3>2. CASE PostJournal(r)
      <4>1. JournalOf[i] \in Rows /\ Take(r, JournalOf[i], "pay")
        BY <3>2, RowsOfRequest DEF PostJournal, Rows
      <4>2. holder'[JournalOf[i]] = r
        BY <4>1, <2>0, TakeEffect
      <4>3. QED
        BY <3>2, <4>1, <4>2 DEF PostJournal, Take, SagaTypeOK
    <3>3. CASE PostPayments(r)
      <4>0. holder[JournalOf[i]] = r /\ entry[r] = counter[JournalOf[i]] + 1
        BY <1>0, <3>3 DEF Secured, PostPayments, AfterJournal
      <4>1. CASE todo[r] = <<>>
        BY <3>3, <4>0, <4>1 DEF PostPayments
      <4>2. CASE todo[r] # <<>>
        <5>1. Head(todo[r]) \in Rows
          BY <4>2 DEF SagaTypeOK, Rows
        <5>2. Take(r, Head(todo[r]), "pay") /\ Goto(r, "pay") /\ UNCHANGED entry
          BY <3>3, <4>2 DEF PostPayments, Take
        <5>3. holder'[JournalOf[i]] = r
          BY <4>0, <5>1, <5>2, <2>0, TakeEffect, RowsOfRequest DEF Rows
        <5>4. QED
          BY <4>0, <5>1, <5>2, <5>3
      <4>3. QED
        BY <4>1, <4>2
    <3>4. QED
      BY <1>8, <3>1, <3>2, <3>3
  <2>4. /\ at'[r] = step /\ holder'[i] = r /\ holder'[CounterOf[i]] = r
        /\ VoucherOf[r] # None => holder'[VoucherOf[r]] = r
        /\ CardOf[i] # None => holder'[CardOf[i]] = r
    BY <2>1, <2>3, RowsOfRequest DEF Goto, Take, SagaTypeOK, Rows
  <2>5. Secured(r)'
    BY <2>0, <2>1, <2>2, <2>3, <2>4 DEF Secured, AfterJournal
  <2>6. QED
    BY <2>0, <2>2, <2>3, <2>5, StepSecured
<1>9. CASE Commit(r)
  <2>1. at[r] = "commit" /\ Install(r) /\ Goto(r, "done") /\ UNCHANGED <<number, entry>>
    BY <1>9 DEF Commit, context
  <2>2. \A q \in Requests \ {r} : Secured(q)'
    BY <2>1, OthersSecuredByInstall
  <2>3. Secured(r)'
    BY <2>1 DEF Goto, SagaTypeOK, Secured, AfterLock, AfterMint, AfterVoucher, AfterPersist, AfterJournal
  <2>4. QED
    BY <2>2, <2>3 DEF AllSecured
<1>10. CASE FinishReplay(r) \/ RecordFailure(r)
  <2>1. "done" \in Steps \ AfterLock
    BY DEF Steps, AfterLock
  <2>2. QED
    BY <1>10, <2>1, LeaveSecured DEF FinishReplay, RecordFailure, committed, context
<1>11. QED
  BY <1>1, <1>2, <1>3, <1>4, <1>5, <1>6, <1>7, <1>8, <1>9, <1>10 DEF RequestStep

(* A step that fails, a lost commit or a crash leaves the others secured.  *)
LEMMA FailureSecured ==
    ASSUME AllSecured, SagaTypeOK, NEW r \in Requests, Failure(r)
    PROVE  AllSecured'
<1>0. {"failing", "done"} \subseteq Steps \ AfterLock
  BY DEF Steps, AfterLock
<1>1. CASE StepFails(r)
  BY <1>1, AbortSecured DEF StepFails
<1>2. CASE CommitLost(r)
  <2>1. at[r] = "commit" /\ Install(r) /\ Goto(r, "failing") /\ UNCHANGED <<number, entry>>
    BY <1>2 DEF CommitLost, context
  <2>2. \A q \in Requests \ {r} : Secured(q)'
    BY <2>1, OthersSecuredByInstall
  <2>3. Secured(r)'
    BY <2>1 DEF Goto, SagaTypeOK, Secured, AfterLock, AfterMint, AfterVoucher, AfterPersist, AfterJournal
  <2>4. QED
    BY <2>2, <2>3 DEF AllSecured
<1>3. CASE ReplayFails(r)
  BY <1>0, <1>3, LeaveSecured DEF ReplayFails, committed, context
<1>4. CASE RecorderFails(r) \/ Crash(r)
  BY <1>0, <1>4, LeaveSecured DEF RecorderFails, Crash, committed, context
<1>5. QED
  BY <1>1, <1>2, <1>3, <1>4 DEF Failure

(* Neither does an edit: a draft that is locked stays a draft.             *)
LEMMA EditSecured ==
    ASSUME AllSecured, NEW i \in Invoices, EditStep(i)
    PROVE  AllSecured'
<1>1. draft \subseteq draft' /\ UNCHANGED <<counter, used, points, sold, at, holder, number, entry>>
  BY DEF EditStep, BeginEdit, DiffForSave, SaveEdit, committed, context
<1>2. QED
  BY <1>1 DEF AllSecured, Secured

-----------------------------------------------------------------------------
(* What a step writes has its type: of a sale's writes, the points that    *)
(* are left because Secured has them checked.                              *)
LEMMA InstallType ==
    ASSUME SagaTypeOK, AllSecured, NEW r \in Requests, at[r] = "commit", Install(r)
    PROVE  /\ draft' \subseteq Invoices
           /\ counter' \in [Counters -> Nat]
           /\ used' \subseteq Vouchers
           /\ points' \in [Cards -> Nat]
           /\ till' \in [Tills -> Nat]
           /\ saga' \in [Requests -> {"none", "COMPLETED", "FAILED"}]
           /\ sold' \subseteq Requests
           /\ overtaken' \subseteq Requests
           /\ holder' \in [Rows -> Requests \cup {None}]
<1> DEFINE i == InvoiceOf[r]
<1>1. CardOf[i] \in Cards => Wished[i] <= points[CardOf[i]]
  BY RowsOfRequest DEF AllSecured, Secured, AfterPersist
<1>2. points' \in [Cards -> Nat]
  BY <1>1, RowsOfRequest DEF Install, SagaTypeOK
<1>3. counter' \in [Counters -> Nat]
  BY RowsOfRequest DEF Install, SagaTypeOK
<1>4. used' \subseteq Vouchers /\ draft' \subseteq Invoices
  BY RowsOfRequest DEF Install, SagaTypeOK
<1>5. till' \in [Tills -> Nat]
  BY DEF Install, SagaTypeOK
<1>6. holder' \in [Rows -> Requests \cup {None}]
  BY DEF Install, Unlock, SagaTypeOK
<1>7. QED
  BY <1>2, <1>3, <1>4, <1>5, <1>6 DEF Install, SagaTypeOK

(* An abort keeps every type.                                              *)
LEMMA AbortType ==
    ASSUME SagaTypeOK, NEW r \in Requests, NEW kind \in {"rejected", "conflict", "failed", "lost"},
           Abort(r, kind)
    PROVE  SagaTypeOK'
  BY DEF SagaTypeOK, Abort, Unlock, Goto, Steps, committed, context, others

(* The steps before the numbers are minted keep the types.                 *)
LEMMA PreflightType ==
    ASSUME SagaTypeOK, NEW r \in Requests,
           LoadDraft(r) \/ ResolveFunds(r) \/ OpenSaga(r) \/ InsertSaga(r) \/ LockInvoice(r)
    PROVE  SagaTypeOK'
<1>1. CASE LoadDraft(r)
  <2>1. /\ \E step \in {"funds", "done"} : Goto(r, step)
        /\ UNCHANGED answer \/ answer' = [answer EXCEPT ![r] = "rejected"]
        /\ late' \in {late, late \cup {r}}
        /\ UNCHANGED <<committed, holder, context, told, others>>
    BY <1>1 DEF LoadDraft, Reject
  <2>2. {"funds", "done"} \subseteq Steps
    BY DEF Steps, Preflight
  <2>3. QED
    BY <2>1, <2>2 DEF Goto, SagaTypeOK, committed, context, others
<1>2. CASE ResolveFunds(r)
  <2>1. /\ \E step \in {"open", "done"} : Goto(r, step)
        /\ UNCHANGED answer \/ answer' = [answer EXCEPT ![r] = "rejected"]
        /\ UNCHANGED <<committed, holder, context, told, late, others>>
    BY <1>2 DEF ResolveFunds, Reject
  <2>2. {"open", "done"} \subseteq Steps
    BY DEF Steps, Preflight
  <2>3. QED
    BY <2>1, <2>2 DEF Goto, SagaTypeOK, committed, context, others
<1>3. CASE OpenSaga(r)
  <2>1. /\ \E step \in {"insert", "replayed"} : Goto(r, step)
        /\ UNCHANGED sagaOf \/ \E q \in Requests : sagaOf' = [sagaOf EXCEPT ![r] = q]
        /\ UNCHANGED <<committed, holder, number, entry, todo, wrote, reply, others>>
    BY <1>3 DEF OpenSaga, Completed
  <2>2. {"insert", "replayed"} \subseteq Steps
    BY DEF Steps, InTransaction
  <2>3. at' \in [Requests -> Steps]
    BY <2>1, <2>2 DEF Goto, SagaTypeOK
  <2>4. sagaOf' \in [Requests -> Requests \cup {None}]
    BY <2>1 DEF SagaTypeOK
  <2>5. QED
    BY <2>1, <2>3, <2>4 DEF SagaTypeOK, committed, reply, others
<1>4. CASE InsertSaga(r)
  <2>1. CASE Abort(r, "conflict")
    BY <2>1, AbortType
  <2>2. CASE ~Abort(r, "conflict")
    <3>1. KeyOf[r] \in Rows /\ "lock" \in Steps
      BY RowsOfRequest DEF Rows, Steps, InTransaction
    <3>2. Take(r, KeyOf[r], "lock")
      BY <1>4, <2>2 DEF InsertSaga
    <3>3. /\ sagaOf' = [sagaOf EXCEPT ![r] = r]
          /\ UNCHANGED <<committed, number, entry, todo, wrote, reply, others>>
      BY <1>4, <2>2 DEF InsertSaga
    <3>4. at' \in [Requests -> Steps] /\ holder' \in [Rows -> Requests \cup {None}]
      BY <3>1, <3>2, TakeEffect
    <3>5. QED
      BY <3>3, <3>4 DEF SagaTypeOK, committed, reply, others
  <2>3. QED
    BY <2>1, <2>2
<1>5. CASE LockInvoice(r)
  <2>1. CASE Abort(r, "failed")
    BY <2>1, AbortType
  <2>2. CASE ~Abort(r, "failed")
    <3>1. InvoiceOf[r] \in Rows /\ "mint" \in Steps
      BY RowsOfRequest DEF Rows, Steps, InTransaction
    <3>2. Take(r, InvoiceOf[r], "mint")
      BY <1>5, <2>2 DEF LockInvoice
    <3>3. UNCHANGED <<committed, context, reply, others>>
      BY <1>5, <2>2 DEF LockInvoice
    <3>4. at' \in [Requests -> Steps] /\ holder' \in [Rows -> Requests \cup {None}]
      BY <3>1, <3>2, TakeEffect
    <3>5. QED
      BY <3>3, <3>4 DEF SagaTypeOK, committed, context, reply, others
  <2>3. QED
    BY <2>1, <2>2
<1>6. QED
  BY <1>1, <1>2, <1>3, <1>4, <1>5

(* The steps inside the transaction keep the types.                        *)
LEMMA TransactionType ==
    ASSUME SagaTypeOK, NEW r \in Requests,
           \/ MintNumber(r) \/ MintFirst(r) \/ RedeemVoucher(r) \/ PersistInvoice(r)
           \/ DeductStock(r) \/ PostJournal(r) \/ PostPayments(r)
    PROVE  SagaTypeOK'
<1> DEFINE i == InvoiceOf[r]
           next == {"first", "voucher", "persist", "stock", "journal", "pay", "commit"}
<1>0. CASE Abort(r, "failed")
  BY <1>0, AbortType
<1> SUFFICES ASSUME ~Abort(r, "failed")
             PROVE  SagaTypeOK'
  BY <1>0
<1>1. next \subseteq Steps
  BY DEF Steps, InTransaction
<1>2. UNCHANGED <<committed, sagaOf, reply, others>>
  BY DEF MintNumber, MintFirst, RedeemVoucher, PersistInvoice, DeductStock, PostJournal,
         PostPayments, context
<1>3. /\ at' \in [Requests -> Steps]
      /\ holder' \in [Rows -> Requests \cup {None}]
  <2>1. \E step \in next : /\ Goto(r, step)
                           /\ UNCHANGED holder \/ \E x \in Rows \cup {None} : Take(r, x, step)
    <3>1. CASE MintNumber(r) \/ MintFirst(r) \/ RedeemVoucher(r) \/ PersistInvoice(r) \/ PostJournal(r)
      BY <3>1, RowsOfRequest
      DEF MintNumber, MintFirst, RedeemVoucher, PersistInvoice, PostJournal, Take, Rows
    <3>2. CASE DeductStock(r) \/ PostPayments(r)
      <4>1. CASE todo[r] = <<>>
        BY <3>2, <4>1 DEF DeductStock, PostPayments
      <4>2. CASE todo[r] # <<>>
        <5>1. Head(todo[r]) \in Rows
          BY <4>2 DEF SagaTypeOK, Rows
        <5>2. QED
          BY <3>2, <4>2, <5>1 DEF DeductStock, PostPayments, Take
      <4>3. QED
        BY <4>1, <4>2
    <3>3. QED
      BY <3>1, <3>2
  <2>2. QED
    BY <1>1, <2>1 DEF Goto, Take, SagaTypeOK
<1>4. number' \in [Requests -> Nat] /\ entry' \in [Requests -> Nat]
  <2>1. counter[CounterOf[i]] + 1 \in Nat /\ counter[JournalOf[i]] + 1 \in Nat
    BY RowsOfRequest DEF SagaTypeOK
  <2>2. CASE MintNumber(r) \/ MintFirst(r)
    <3>1. /\ UNCHANGED entry
          /\ UNCHANGED number \/ \E n \in Nat : number' = [number EXCEPT ![r] = n]
      <4>1. CASE MintNumber(r)
        BY <2>1, <4>1 DEF MintNumber
      <4>2. CASE MintFirst(r)
        BY <4>2 DEF MintFirst
      <4>3. QED
        BY <2>2, <4>1, <4>2
    <3>2. QED
      BY <3>1 DEF SagaTypeOK
  <2>3. CASE PostJournal(r)
    BY <2>1, <2>3 DEF PostJournal, SagaTypeOK
  <2>4. CASE RedeemVoucher(r) \/ PersistInvoice(r) \/ DeductStock(r) \/ PostPayments(r)
    BY <2>4 DEF RedeemVoucher, PersistInvoice, DeductStock, PostPayments, SagaTypeOK, context
  <2>5. QED
    BY <2>2, <2>3, <2>4
<1>5. todo' \in [Requests -> Seq(Items \cup Tills)]
  <2>1. LinesOf[i] \in Seq(Items \cup Tills) /\ PaymentsOf[i] \in Seq(Items \cup Tills)
    BY RowsOfRequest
  <2>2. todo[r] # <<>> => Tail(todo[r]) \in Seq(Items \cup Tills)
    BY DEF SagaTypeOK
  <2>3. QED
    BY <2>1, <2>2
    DEF MintNumber, MintFirst, RedeemVoucher, PersistInvoice, DeductStock, PostJournal,
        PostPayments, SagaTypeOK, context
<1>6. wrote' \in [Requests -> [Tills -> Nat]]
  <2>1. CASE UNCHANGED wrote
    BY <2>1 DEF SagaTypeOK
  <2>2. CASE PostPayments(r) /\ todo[r] # <<>>
    <3> DEFINE t == Head(todo[r])
               raised == (IF wrote[r][t] = 0 THEN till[t] ELSE wrote[r][t]) + 1
    <3>1. t \in Items \cup Tills
      BY <2>2 DEF SagaTypeOK
    <3>2. wrote' = [wrote EXCEPT ![r] = [wrote[r] EXCEPT ![t] = raised]]
      BY <2>2 DEF PostPayments, SagaTypeOK
    <3>3. t \in Tills => raised \in Nat
      BY DEF SagaTypeOK
    <3>4. [wrote[r] EXCEPT ![t] = raised] \in [Tills -> Nat]
      <4>1. wrote[r] \in [Tills -> Nat]
        BY DEF SagaTypeOK
      <4>2. CASE t \in Tills
        BY <3>3, <4>1, <4>2
      <4>3. CASE t \notin Tills
        BY <4>1, <4>3
      <4>4. QED
        BY <4>2, <4>3
    <3>5. QED
      BY <3>2, <3>4 DEF SagaTypeOK
  <2>3. QED
    BY <2>1, <2>2
    DEF MintNumber, MintFirst, RedeemVoucher, PersistInvoice, DeductStock, PostJournal,
        PostPayments, context
<1>7. QED
  BY <1>2, <1>3, <1>4, <1>5, <1>6 DEF SagaTypeOK, committed, reply, others

(* So do commit, replay, the failure recorder and every failure.           *)
LEMMA EndingType ==
    ASSUME SagaTypeOK, AllSecured, ReplaysKnown, NEW r \in Requests,
           Commit(r) \/ FinishReplay(r) \/ RecordFailure(r) \/ Failure(r)
    PROVE  SagaTypeOK'
<1>0. {"failing", "done"} \subseteq Steps
  BY DEF Steps
<1>1. CASE Commit(r) \/ CommitLost(r)
  <2>1. at[r] = "commit" /\ Install(r)
    BY <1>1 DEF Commit, CommitLost
  <2>2. /\ UNCHANGED <<context, late, edit>>
        /\ at' \in [Requests -> Steps]
        /\ faults' \in Nat
        /\ told' \in [Requests -> Nat]
        /\ answer' \in [Requests -> {"none", "ok", "rejected", "conflict", "failed", "lost"}]
    <3>1. CASE Commit(r)
      BY <1>0, <3>1 DEF Commit, Goto, SagaTypeOK, others
    <3>2. CASE CommitLost(r)
      BY <1>0, <3>2 DEF CommitLost, Goto, Fault, SagaTypeOK
    <3>3. QED
      BY <1>1, <3>1, <3>2
  <2>3. QED
    BY <2>1, <2>2, InstallType DEF SagaTypeOK, context
<1>2. CASE FinishReplay(r)
  <2>1. number[sagaOf[r]] \in Nat
    BY <1>2 DEF SagaTypeOK, ReplaysKnown, FinishReplay
  <2>2. told' \in [Requests -> Nat]
    BY <1>2, <2>1 DEF FinishReplay, SagaTypeOK
  <2>3. QED
    BY <1>0, <1>2, <2>2 DEF FinishReplay, Goto, SagaTypeOK, committed, context, others
<1>3. CASE RecordFailure(r)
  <2>1. PICK target \in Requests :
           /\ saga' = [saga EXCEPT ![target] = "FAILED"]
           /\ overtaken' \subseteq overtaken \cup Begun(KeyOf[r])
    BY <1>3 DEF RecordFailure, SagaTypeOK
  <2>2. /\ Goto(r, "done")
        /\ UNCHANGED <<draft, counter, used, points, till, sold, holder, context, reply, others>>
    BY <1>3 DEF RecordFailure
  <2>3. Begun(KeyOf[r]) \subseteq Requests
    BY DEF Begun
  <2>4. QED
    BY <1>0, <2>1, <2>2, <2>3 DEF Goto, SagaTypeOK, context, reply, others
<1>4. CASE StepFails(r)
  BY <1>4, AbortType DEF StepFails
<1>5. CASE ReplayFails(r) \/ RecorderFails(r)
  <2>1. CASE ReplayFails(r)
    BY <1>0, <2>1 DEF ReplayFails, Fault, Goto, SagaTypeOK, committed, context
  <2>2. CASE RecorderFails(r)
    BY <1>0, <2>2 DEF RecorderFails, Fault, Goto, SagaTypeOK, committed, context, reply
  <2>3. QED
    BY <1>5, <2>1, <2>2
<1>6. CASE Crash(r)
  BY <1>0, <1>6 DEF Crash, Fault, Unlock, Goto, SagaTypeOK, committed, context
<1>7. QED
  BY <1>1, <1>2, <1>3, <1>4, <1>5, <1>6 DEF Failure

(* A request that replays an answer has one to replay.                     *)
LEMMA ReplayStep ==
    ASSUME SagaTypeOK, ReplaysKnown, NEW r \in Requests, RequestStep(r) \/ Failure(r)
    PROVE  ReplaysKnown'
<1>1. CASE OpenSaga(r)
  <2>1. /\ \/ Goto(r, "insert") /\ UNCHANGED sagaOf
           \/ Goto(r, "replayed") /\ \E q \in Requests : sagaOf' = [sagaOf EXCEPT ![r] = q]
    BY <1>1 DEF OpenSaga, Completed
  <2>2. QED
    BY <2>1 DEF Goto, SagaTypeOK, ReplaysKnown
<1>2. CASE ~OpenSaga(r)
  <2>1. \E step \in Steps \ {"replayed"} : Goto(r, step)
    <3>1. CASE \/ LoadDraft(r) \/ ResolveFunds(r) \/ InsertSaga(r) \/ LockInvoice(r)
              \/ MintNumber(r) \/ MintFirst(r) \/ RedeemVoucher(r)
      BY <3>1 DEF LoadDraft, ResolveFunds, Reject, InsertSaga, LockInvoice, MintNumber, MintFirst,
                  RedeemVoucher, Take, Abort, Steps, Preflight, InTransaction
    <3>2. CASE \/ PersistInvoice(r) \/ DeductStock(r) \/ PostJournal(r) \/ PostPayments(r)
              \/ Commit(r) \/ FinishReplay(r) \/ RecordFailure(r) \/ Failure(r)
      BY <3>2 DEF PersistInvoice, DeductStock, PostJournal, PostPayments, Commit, FinishReplay,
                  RecordFailure, Failure, StepFails, CommitLost, ReplayFails, RecorderFails,
                  Crash, Take, Abort, Steps, Preflight, InTransaction
    <3>3. QED
      BY <1>2, <3>1, <3>2 DEF RequestStep
  <2>2. \A q \in Requests \ {r} : sagaOf'[q] = sagaOf[q]
    <3>1. CASE InsertSaga(r)
      BY <3>1 DEF InsertSaga, Abort, context, SagaTypeOK
    <3>2. CASE ~InsertSaga(r)
      BY <1>2, <3>2
      DEF RequestStep, LoadDraft, ResolveFunds, LockInvoice, MintNumber, MintFirst, RedeemVoucher,
          PersistInvoice, DeductStock, PostJournal, PostPayments, Commit, FinishReplay,
          RecordFailure, Failure, StepFails, CommitLost, ReplayFails, RecorderFails, Crash,
          Abort, context
    <3>3. QED
      BY <3>1, <3>2
  <2>3. QED
    BY <2>1, <2>2 DEF Goto, SagaTypeOK, ReplaysKnown
<1>3. QED
  BY <1>1, <1>2

(* An edit of an invoice keeps the types.                                  *)
LEMMA EditType ==
    ASSUME SagaTypeOK, NEW i \in Invoices, EditStep(i)
    PROVE  SagaTypeOK'
<1>1. CASE BeginEdit(i)
  BY <1>1 DEF BeginEdit, SagaTypeOK, committed, context, reply
<1>2. CASE DiffForSave(i)
  BY <1>2 DEF DiffForSave, SagaTypeOK, committed, context, reply
<1>3. CASE SaveEdit(i)
  BY <1>3 DEF SaveEdit, SagaTypeOK, context, reply
<1>4. QED
  BY <1>1, <1>2, <1>3 DEF EditStep

-----------------------------------------------------------------------------
(* The invariant holds at the start, and every step keeps it.              *)
LEMMA SagaInvInit == Init => SagaInv
<1> SUFFICES ASSUME Init
             PROVE  SagaInv
  OBVIOUS
<1>1. SagaTypeOK
  BY SagaAssumption DEF SagaAssumption, Init, SagaTypeOK, Steps, Preflight
<1>2. AllSecured
  BY DEF Init, AllSecured, Secured, AfterLock, AfterMint, AfterVoucher, AfterPersist, AfterJournal
<1>3. ReplaysKnown
  BY DEF Init, ReplaysKnown
<1>4. QED
  BY <1>1, <1>2, <1>3 DEF SagaInv

(* The basic invariant is inductive, with edits and failures.              *)
LEMMA SagaInvStep == SagaInv /\ [Next]_vars => SagaInv'
<1> SUFFICES ASSUME SagaInv, [Next]_vars
             PROVE  SagaInv'
  OBVIOUS
<1> USE DEF SagaInv
<1>1. ASSUME NEW r \in Requests, RequestStep(r)
      PROVE  SagaInv'
  <2>1. SagaTypeOK'
    BY <1>1, PreflightType, TransactionType, EndingType DEF RequestStep
  <2>2. QED
    BY <1>1, <2>1, RequestSecured, ReplayStep
<1>2. ASSUME NEW r \in Requests, Failure(r)
      PROVE  SagaInv'
  BY <1>2, EndingType, FailureSecured, ReplayStep
<1>3. ASSUME NEW i \in Invoices, EditStep(i)
      PROVE  SagaInv'
  <2>1. UNCHANGED <<at, sagaOf>>
    BY <1>3 DEF EditStep, BeginEdit, DiffForSave, SaveEdit, context
  <2>2. QED
    BY <1>3, <2>1, EditType, EditSecured DEF ReplaysKnown
<1>4. CASE UNCHANGED vars
  <2>1. SagaTypeOK'
    BY <1>4 DEF vars, committed, context, reply, others, SagaTypeOK
  <2>2. QED
    BY <1>4, <2>1 DEF vars, committed, context, AllSecured, Secured, ReplaysKnown
<1>5. QED
  BY <1>1, <1>2, <1>3, <1>4 DEF Next

(* It holds in every state.                                                *)
LEMMA SagaInvariant == Spec => []SagaInv
<1>1. QED
  BY SagaInvInit, SagaInvStep, PTL DEF Spec

(* The saga's state keeps its types; of a card's balance that is a promise *)
(* of the lock: no sale, however it races, takes more than there is.       *)
THEOREM SagaTypeCorrect == Spec => []SagaTypeOK
<1>1. SagaInv => SagaTypeOK
  BY DEF SagaInv
<1>2. QED
  BY <1>1, SagaInvariant, PTL

-----------------------------------------------------------------------------
\* Nothing about the sales changes.
SalesUnchanged ==
    /\ UNCHANGED <<sold, used, counter, points, till>>
    /\ \A q \in sold : number'[q] = number[q] /\ entry'[q] = entry[q]

(* The sales change only when a transaction commits.                       *)
LEMMA SalesChange ==
    ASSUME SagaInv, [Next]_vars
    PROVE  \/ SalesUnchanged
           \/ \E r \in Requests : at[r] = "commit" /\ Install(r) /\ UNCHANGED <<number, entry>>
<1> USE DEF SagaInv
<1>1. ASSUME NEW r \in Requests, RequestStep(r), ~Commit(r)
      PROVE  SalesUnchanged
  <2>1. CASE LoadDraft(r) \/ ResolveFunds(r) \/ OpenSaga(r) \/ InsertSaga(r) \/ LockInvoice(r)
    BY <2>1 DEF LoadDraft, ResolveFunds, OpenSaga, InsertSaga, LockInvoice, Abort, SalesUnchanged,
                committed, context
  <2>2. CASE MintNumber(r) \/ MintFirst(r) \/ PostJournal(r)
    <3>1. r \notin sold
      BY <2>2 DEF MintNumber, MintFirst, PostJournal, AllSecured, Secured
    <3>2. QED
      BY <2>2, <3>1
      DEF MintNumber, MintFirst, PostJournal, Abort, SalesUnchanged, committed, context, SagaTypeOK
  <2>3. CASE RedeemVoucher(r) \/ PersistInvoice(r) \/ DeductStock(r) \/ PostPayments(r)
    BY <2>3 DEF RedeemVoucher, PersistInvoice, DeductStock, PostPayments, Abort, SalesUnchanged,
                committed, context
  <2>4. CASE FinishReplay(r) \/ RecordFailure(r)
    BY <2>4 DEF FinishReplay, RecordFailure, SalesUnchanged, committed, context
  <2>5. QED
    BY <1>1, <2>1, <2>2, <2>3, <2>4 DEF RequestStep
<1>2. ASSUME NEW r \in Requests, Failure(r), ~CommitLost(r)
      PROVE  SalesUnchanged
  BY <1>2 DEF Failure, StepFails, ReplayFails, RecorderFails, Crash, Abort, SalesUnchanged,
              committed, context
<1>3. ASSUME NEW i \in Invoices, EditStep(i)
      PROVE  SalesUnchanged
  BY <1>3 DEF EditStep, BeginEdit, DiffForSave, SaveEdit, SalesUnchanged, committed, context
<1>4. CASE UNCHANGED vars
  BY <1>4 DEF vars, committed, context, SalesUnchanged
<1>5. ASSUME NEW r \in Requests, Commit(r) \/ CommitLost(r)
      PROVE  at[r] = "commit" /\ Install(r) /\ UNCHANGED <<number, entry>>
  BY <1>5 DEF Commit, CommitLost, context
<1>6. QED
  BY <1>1, <1>2, <1>3, <1>4, <1>5 DEF Next

-----------------------------------------------------------------------------
(* A voucher that is redeemed under its lock, unused until then, pays for  *)
(* one sale, whatever drafts race for it, fail after it or crash.          *)
THEOREM VouchersRedeemedOnce == Spec => []VoucherRedeemedOnce
<1>1. Init => VoucherRedeemedOnce
  BY DEF Init, VoucherRedeemedOnce
<1>2. SagaInv /\ VoucherRedeemedOnce /\ [Next]_vars => VoucherRedeemedOnce'
  <2> SUFFICES ASSUME SagaInv, VoucherRedeemedOnce, [Next]_vars
               PROVE  VoucherRedeemedOnce'
    OBVIOUS
  <2>1. CASE SalesUnchanged
    BY <2>1 DEF SalesUnchanged, VoucherRedeemedOnce
  <2>2. ASSUME NEW r \in Requests, at[r] = "commit", Install(r)
        PROVE  VoucherRedeemedOnce'
    <3>1. VoucherOf[r] # None => VoucherOf[r] \notin used
      BY <2>2 DEF SagaInv, AllSecured, Secured, AfterVoucher
    <3>2. \A q \in sold : VoucherOf[q] = VoucherOf[r] => VoucherOf[r] = None
      BY <3>1 DEF VoucherRedeemedOnce
    <3>3. sold' = sold \cup {r} /\ used' = used \cup ({VoucherOf[r]} \ {None})
      BY <2>2 DEF Install
    <3>4. QED
      BY <3>2, <3>3 DEF VoucherRedeemedOnce
  <2>3. QED
    BY <2>1, <2>2, SalesChange
<1>3. QED
  BY <1>1, <1>2, SagaInvariant, PTL DEF Spec

-----------------------------------------------------------------------------
\* The numbers of counter c that committed sales carry.
Given(c) ==
    {number[r] : r \in {q \in sold : CounterOf[InvoiceOf[q]] = c}}
       \cup {entry[r] : r \in {q \in sold : JournalOf[InvoiceOf[q]] = c}}

\* A counter does not fall below where it began.
CountersRise == \A c \in Counters : counter[c] >= StartNumber[c]

\* NumbersGapFree, in terms of Given.
GapFree == \A c \in Counters : Given(c) = StartNumber[c] + 1 .. counter[c]

GivenOnce ==
    \A q, r \in sold : q # r =>
       /\ CounterOf[InvoiceOf[q]] = CounterOf[InvoiceOf[r]] => number[q] # number[r]
       /\ JournalOf[InvoiceOf[q]] = JournalOf[InvoiceOf[r]] => entry[q] # entry[r]

(* A commit gives out the number its counter then has.                     *)
LEMMA GapFreeStep ==
    ASSUME SagaInv, CountersRise, GapFree,
           NEW r \in Requests, at[r] = "commit", Install(r), UNCHANGED <<number, entry>>
    PROVE  CountersRise' /\ GapFree'
<1> DEFINE i == InvoiceOf[r]
<1>1. /\ number[r] = counter[CounterOf[i]] + 1
      /\ entry[r] = counter[JournalOf[i]] + 1
  BY DEF SagaInv, AllSecured, Secured, AfterMint, AfterJournal
<1>2. sold' = sold \cup {r}
  BY DEF Install
<1>3. /\ counter'[CounterOf[i]] = number[r]
      /\ counter'[JournalOf[i]] = entry[r]
      /\ \A c \in Counters \ {CounterOf[i], JournalOf[i]} : counter'[c] = counter[c]
  BY RowsOfRequest DEF Install, SagaInv, SagaTypeOK
<1>4. ASSUME NEW c \in Counters
      PROVE  /\ counter'[c] >= StartNumber[c]
             /\ Given(c)' = StartNumber[c] + 1 .. counter'[c]
  <2>0. /\ StartNumber[c] \in Nat /\ counter[c] \in Nat /\ counter[c] >= StartNumber[c]
        /\ Given(c) = StartNumber[c] + 1 .. counter[c]
    BY SagaAssumption DEF SagaAssumption, SagaInv, SagaTypeOK, CountersRise, GapFree
  <2>1. CASE c = CounterOf[i]
    <3>1. Given(c)' = Given(c) \cup {number[r]}
      BY <1>2, <2>1, RowsOfRequest DEF Given
    <3>2. QED
      BY <1>1, <1>3, <2>0, <2>1, <3>1
  <2>2. CASE c = JournalOf[i]
    <3>1. Given(c)' = Given(c) \cup {entry[r]}
      BY <1>2, <2>2, RowsOfRequest DEF Given
    <3>2. QED
      BY <1>1, <1>3, <2>0, <2>2, <3>1
  <2>3. CASE c \notin {CounterOf[i], JournalOf[i]}
    <3>1. Given(c)' = Given(c)
      BY <1>2, <2>3 DEF Given
    <3>2. QED
      BY <1>3, <2>0, <2>3, <3>1
  <2>4. QED
    BY <2>1, <2>2, <2>3
<1>5. QED
  BY <1>4 DEF CountersRise, GapFree

(* The number a commit gives out was not given out before.                 *)
LEMMA GivenOnceStep ==
    ASSUME SagaInv, CountersRise, GapFree, GivenOnce,
           NEW r \in Requests, at[r] = "commit", Install(r), UNCHANGED <<number, entry>>
    PROVE  GivenOnce'
<1> DEFINE i == InvoiceOf[r]
<1>1. /\ number[r] = counter[CounterOf[i]] + 1
      /\ entry[r] = counter[JournalOf[i]] + 1
  BY DEF SagaInv, AllSecured, Secured, AfterMint, AfterJournal
<1>2. ASSUME NEW c \in Counters
      PROVE  counter[c] + 1 \notin Given(c)
  <2>1. StartNumber[c] \in Nat /\ counter[c] \in Nat
    BY SagaAssumption DEF SagaAssumption, SagaInv, SagaTypeOK
  <2>2. QED
    BY <2>1 DEF GapFree
<1>3. \A q \in sold :
         /\ CounterOf[InvoiceOf[q]] = CounterOf[i] => number[q] # number[r]
         /\ JournalOf[InvoiceOf[q]] = JournalOf[i] => entry[q] # entry[r]
  BY <1>1, <1>2, RowsOfRequest DEF Given
<1>4. sold' = sold \cup {r}
  BY DEF Install
<1>5. QED
  BY <1>3, <1>4 DEF GivenOnce

(* The numbers of a counter are gap-free and given once: a number belongs  *)
(* to the lock of its counter until the sale commits or goes back.         *)
THEOREM NumbersAreGapFree == Spec => []NumbersGapFree
<1> DEFINE Inv == CountersRise /\ GapFree /\ GivenOnce
<1>1. Init => Inv
  <2> SUFFICES ASSUME Init
               PROVE  Inv
    OBVIOUS
  <2>1. ASSUME NEW c \in Counters
        PROVE  /\ counter[c] >= StartNumber[c]
               /\ Given(c) = StartNumber[c] + 1 .. counter[c]
    <3>1. StartNumber[c] \in Nat /\ counter[c] = StartNumber[c]
      BY SagaAssumption DEF SagaAssumption, Init
    <3>2. Given(c) = {}
      BY DEF Init, Given
    <3>3. QED
      BY <3>1, <3>2
  <2>2. CountersRise /\ GapFree
    BY <2>1 DEF CountersRise, GapFree
  <2>3. GivenOnce
    BY DEF Init, GivenOnce
  <2>4. QED
    BY <2>2, <2>3
<1>2. SagaInv /\ Inv /\ [Next]_vars => Inv'
  <2> SUFFICES ASSUME SagaInv, Inv, [Next]_vars
               PROVE  Inv'
    OBVIOUS
  <2>1. CASE SalesUnchanged
    <3>1. \A c \in Counters : Given(c)' = Given(c)
      BY <2>1 DEF SalesUnchanged, Given
    <3>2. QED
      BY <2>1, <3>1 DEF SalesUnchanged, CountersRise, GapFree, GivenOnce
  <2>2. QED
    BY <2>1, GapFreeStep, GivenOnceStep, SalesChange
<1>3. Inv => NumbersGapFree
  BY DEF NumbersGapFree, GapFree, GivenOnce, Given
<1>4. QED
  BY <1>1, <1>2, <1>3, SagaInvariant, PTL DEF Spec

-----------------------------------------------------------------------------
\* Without edits, an invoice that is sold is no draft.
SoldIsIssued ==
    /\ \A i \in Invoices : edit[i] = "none"
    /\ \A r \in sold : InvoiceOf[r] \notin draft

(* Without edits a sold invoice never becomes a draft again.               *)
LEMMA SoldIsIssuedStep ==
    ASSUME Edited = {}, SagaInv, SoldIsIssued, OneSalePerInvoice, [Next]_vars
    PROVE  SoldIsIssued' /\ OneSalePerInvoice'
<1>1. UNCHANGED edit
  <2>1. ASSUME NEW r \in Requests, RequestStep(r) \/ Failure(r)
        PROVE  UNCHANGED edit
    <3>1. CASE RequestStep(r)
      BY <3>1
      DEF RequestStep, LoadDraft, ResolveFunds, OpenSaga, InsertSaga, LockInvoice, MintNumber,
          MintFirst, RedeemVoucher, PersistInvoice, DeductStock, PostJournal, PostPayments,
          Commit, FinishReplay, RecordFailure, Abort, others
    <3>2. CASE Failure(r)
      BY <3>2 DEF Failure, StepFails, CommitLost, ReplayFails, RecorderFails, Crash, Abort,
                  Fault, others
    <3>3. QED
      BY <2>1, <3>1, <3>2
  <2>2. \A i \in Invoices : ~EditStep(i)
    BY DEF EditStep, BeginEdit, DiffForSave, SaveEdit, SoldIsIssued
  <2>3. QED
    BY <2>1, <2>2 DEF Next, vars, others
<1>2. CASE \E r \in Requests : at[r] = "commit" /\ Install(r)
  <2>1. PICK r \in Requests : at[r] = "commit" /\ Install(r)
    BY <1>2
  <2>2. InvoiceOf[r] \in draft
    BY <2>1 DEF SagaInv, AllSecured, Secured, AfterLock
  <2>3. sold' = sold \cup {r} /\ draft' = draft \ {InvoiceOf[r]}
    BY <2>1 DEF Install
  <2>4. QED
    BY <1>1, <2>2, <2>3 DEF SoldIsIssued, OneSalePerInvoice
<1>3. CASE ~\E r \in Requests : at[r] = "commit" /\ Install(r)
  <2>1. UNCHANGED sold
    BY <1>3, SalesChange DEF SalesUnchanged
  <2>2. draft' \subseteq draft
    <3>1. ASSUME NEW r \in Requests, RequestStep(r)
          PROVE  draft' \subseteq draft
      BY <3>1
      DEF RequestStep, LoadDraft, ResolveFunds, OpenSaga, InsertSaga, LockInvoice, MintNumber,
          MintFirst, RedeemVoucher, PersistInvoice, DeductStock, PostJournal, PostPayments,
          Commit, Install, FinishReplay, RecordFailure, Abort, committed
    <3>2. ASSUME NEW r \in Requests, Failure(r)
          PROVE  draft' \subseteq draft
      BY <3>2 DEF Failure, StepFails, CommitLost, Install, ReplayFails, RecorderFails, Crash,
                  Abort, committed
    <3>3. \A i \in Invoices : ~EditStep(i)
      BY DEF EditStep, BeginEdit, DiffForSave, SaveEdit, SoldIsIssued
    <3>4. QED
      BY <3>1, <3>2, <3>3 DEF Next, vars, committed
  <2>3. QED
    BY <1>1, <2>1, <2>2 DEF SoldIsIssued, OneSalePerInvoice
<1>4. QED
  BY <1>2, <1>3

(* As long as nobody edits a draft, an invoice is sold once, whatever keys *)
(* its requests carry: the draft is looked at again under its lock, and    *)
(* the lock is kept until the sale has made it an issued invoice.          *)
THEOREM InvoicesSoldOnce ==
    ASSUME Edited = {}
    PROVE  Spec => []OneSalePerInvoice
<1>1. Init => SoldIsIssued /\ OneSalePerInvoice
  BY DEF Init, SoldIsIssued, OneSalePerInvoice
<1>2. SagaInv /\ (SoldIsIssued /\ OneSalePerInvoice) /\ [Next]_vars
         => (SoldIsIssued /\ OneSalePerInvoice)'
  BY SoldIsIssuedStep
<1>3. QED
  BY <1>1, <1>2, SagaInvariant, PTL DEF Spec

-----------------------------------------------------------------------------
\* The points each request redeems, those of them that pay with card c, and
\* what is left of the cards.
WishOf == [r \in Requests |-> Wished[InvoiceOf[r]]]
SalesWith(sales, c) == {r \in sales : CardOf[InvoiceOf[r]] = c}
PointsLeft(balance, sales) ==
    \A c \in Cards : balance[c] + Sum(WishOf, SalesWith(sales, c)) = StartPoints

\* How often each request pays into till t.
PaidInto(t) == [r \in Requests |-> Paid(InvoiceOf[r], t)]
TillsHold(balance, sales) == \A t \in Tills : balance[t] = Sum(PaidInto(t), sales)

(* The sums of the model as Sum writes them.                               *)
LEMMA WishSumIs ==
    ASSUME NEW S, IsFiniteSet(S), S \subseteq Requests
    PROVE  MapThenSumSet(LAMBDA r : Wished[InvoiceOf[r]], S) = Sum(WishOf, S)
<1> DEFINE P(k) == k = [s \in SUBSET S |->
                            IF s = {} THEN 0
                            ELSE LET x == CHOOSE x \in s : TRUE
                                 IN  Wished[InvoiceOf[x]] + k[s \ {x}]]
<1>1. ASSUME NEW k PROVE P(k) <=> Folds(k, S, WishOf)
  <2>1. \A s \in SUBSET S : s # {} => Pick(s) \in s /\ WishOf[Pick(s)] = Wished[InvoiceOf[Pick(s)]]
    BY DEF Pick, WishOf
  <2> QED
    BY <2>1 DEF Folds, Pick
<1>2. MapThenSumSet(LAMBDA r : Wished[InvoiceOf[r]], S) = (CHOOSE k : P(k))[S]
  BY DEF MapThenSumSet, MapThenFoldSet
<1> HIDE DEF P
<1>3. \E k : P(k)
  BY <1>1, FoldExists
<1>4. Folds(CHOOSE k : P(k), S, WishOf)
  BY <1>1, <1>3
<1> QED
  BY <1>2, <1>4, SumIsFold

(* The payments into a till, as TillsAddUp adds them, are a sum.           *)
LEMMA PaidSumIs ==
    ASSUME NEW S, IsFiniteSet(S), S \subseteq Requests, NEW t
    PROVE  MapThenSumSet(LAMBDA r : Paid(InvoiceOf[r], t), S) = Sum(PaidInto(t), S)
<1> DEFINE P(k) == k = [s \in SUBSET S |->
                            IF s = {} THEN 0
                            ELSE LET x == CHOOSE x \in s : TRUE
                                 IN  Paid(InvoiceOf[x], t) + k[s \ {x}]]
<1>1. ASSUME NEW k PROVE P(k) <=> Folds(k, S, PaidInto(t))
  <2>1. \A s \in SUBSET S : s # {} => Pick(s) \in s /\ PaidInto(t)[Pick(s)] = Paid(InvoiceOf[Pick(s)], t)
    BY DEF Pick, PaidInto
  <2> QED
    BY <2>1 DEF Folds, Pick
<1>2. MapThenSumSet(LAMBDA r : Paid(InvoiceOf[r], t), S) = (CHOOSE k : P(k))[S]
  BY DEF MapThenSumSet, MapThenFoldSet
<1> HIDE DEF P
<1>3. \E k : P(k)
  BY <1>1, FoldExists
<1>4. Folds(CHOOSE k : P(k), S, PaidInto(t))
  BY <1>1, <1>3
<1> QED
  BY <1>2, <1>4, SumIsFold

(* The two invariants in terms of these sums.                              *)
LEMMA PointsAre ==
    ASSUME IsFiniteSet(sold), SagaTypeOK
    PROVE  PointsAddUp <=> PointsLeft(points, sold)
<1>1. ASSUME NEW c \in Cards
      PROVE  MapThenSumSet(LAMBDA r : Wished[InvoiceOf[r]], SalesWith(sold, c))
                = Sum(WishOf, SalesWith(sold, c))
  <2>1. SalesWith(sold, c) \subseteq sold /\ SalesWith(sold, c) \subseteq Requests
    BY DEF SalesWith, SagaTypeOK
  <2> QED
    BY <2>1, FS_Subset, WishSumIs
<1>2. \A c \in Cards : points[c] >= 0
  BY DEF SagaTypeOK
<1> QED
  BY <1>1, <1>2 DEF PointsAddUp, PointsLeft, SalesWith

(* TillsAddUp says that the tills hold what the sales paid into them.      *)
LEMMA TillsAre ==
    ASSUME IsFiniteSet(sold), SagaTypeOK
    PROVE  TillsAddUp <=> TillsHold(till, sold)
<1>1. sold \subseteq Requests
  BY DEF SagaTypeOK
<1>2. ASSUME NEW t \in Tills
      PROVE  MapThenSumSet(LAMBDA r : Paid(InvoiceOf[r], t), sold) = Sum(PaidInto(t), sold)
  BY <1>1, PaidSumIs
<1> QED
  BY <1>2 DEF TillsAddUp, TillsHold

-----------------------------------------------------------------------------
(* A sale adds its points to those redeemed with its card and takes as     *)
(* many off the card's balance.                                            *)
LEMMA PointsStep ==
    ASSUME SagaInv, IsFiniteSet(sold), PointsLeft(points, sold),
           NEW r \in Requests, at[r] = "commit", Install(r)
    PROVE  PointsLeft(points', sold')
<1> DEFINE i == InvoiceOf[r]
<1>1. r \notin sold /\ sold' = sold \cup {r} /\ sold \subseteq Requests
  BY DEF SagaInv, AllSecured, Secured, SagaTypeOK, Install
<1>2. ASSUME NEW c \in Cards
      PROVE  points'[c] + Sum(WishOf, SalesWith(sold', c)) = StartPoints
  <2> DEFINE S == SalesWith(sold, c)
  <2>1. S \subseteq Requests /\ IsFiniteSet(S) /\ r \notin S
    BY <1>1, FS_Subset DEF SalesWith
  <2>2. \A q \in Requests : WishOf[q] \in Int /\ WishOf[q] = Wished[InvoiceOf[q]]
    BY RowsOfRequest DEF WishOf
  <2>3. points[c] \in Nat /\ points[c] + Sum(WishOf, S) = StartPoints
    BY DEF SagaInv, SagaTypeOK, PointsLeft
  <2>4. Sum(WishOf, S) \in Int
    BY <2>1, <2>2, SumInt
  <2>5. CASE CardOf[i] = c
    <3>1. SalesWith(sold', c) = S \cup {r}
      BY <1>1, <2>5 DEF SalesWith
    <3>2. Sum(WishOf, S \cup {r}) = Sum(WishOf, S) + WishOf[r]
      <4> HIDE DEF S
      <4> QED
        BY <2>1, <2>2, SumAdd
    <3>3. points'[c] = points[c] - WishOf[r]
      BY <2>2, <2>5 DEF Install
    <3>4. WishOf[r] \in Int
      BY <2>2
    <3> HIDE DEF S
    <3> QED
      BY <2>3, <2>4, <3>1, <3>2, <3>3, <3>4
  <2>6. CASE CardOf[i] # c
    <3>1. SalesWith(sold', c) = S
      BY <1>1, <2>6 DEF SalesWith
    <3>2. points'[c] = points[c]
      BY <2>6 DEF Install
    <3> QED
      BY <2>3, <3>1, <3>2
  <2> QED
    BY <2>5, <2>6
<1> QED
  BY <1>2 DEF PointsLeft

(* The sales are finitely many: each is a commit.                          *)
LEMMA SalesFinite ==
    ASSUME SagaInv, IsFiniteSet(sold), [Next]_vars
    PROVE  IsFiniteSet(sold')
<1>1. CASE SalesUnchanged
  BY <1>1 DEF SalesUnchanged
<1>2. ASSUME NEW r \in Requests, Install(r)
      PROVE  IsFiniteSet(sold')
  BY <1>2, FS_AddElement DEF Install
<1> QED
  BY <1>1, <1>2, SalesChange

(* No card is overdrawn by concurrent sales, and its balance is what the   *)
(* committed ones left of it.                                              *)
THEOREM PointsAlwaysAddUp == Spec => []PointsAddUp
<1> DEFINE Inv == IsFiniteSet(sold) /\ PointsLeft(points, sold)
<1>1. Init => Inv
  <2> SUFFICES ASSUME Init PROVE Inv
    OBVIOUS
  <2>1. IsFiniteSet(sold)
    BY FS_EmptySet DEF Init
  <2>2. \A c \in Cards : SalesWith(sold, c) = {} /\ points[c] = StartPoints
    BY DEF Init, SalesWith
  <2>3. StartPoints \in Nat
    BY SagaAssumption DEF SagaAssumption
  <2> QED
    BY <2>1, <2>2, <2>3, SumEmpty DEF PointsLeft
<1>2. SagaInv /\ Inv /\ [Next]_vars => Inv'
  <2> SUFFICES ASSUME SagaInv, Inv, [Next]_vars PROVE Inv'
    OBVIOUS
  <2>1. CASE SalesUnchanged
    <3>1. points' = points /\ sold' = sold
      BY <2>1 DEF SalesUnchanged
    <3> QED
      BY <3>1 DEF PointsLeft
  <2>2. ASSUME NEW r \in Requests, at[r] = "commit", Install(r)
        PROVE  PointsLeft(points', sold')
    BY <2>2, PointsStep
  <2>3. PointsLeft(points', sold') => PointsLeft(points, sold)'
    BY DEF PointsLeft
  <2> QED
    BY <2>1, <2>2, <2>3, SalesChange, SalesFinite
<1>3. SagaInv /\ Inv => PointsAddUp
  BY PointsAre DEF SagaInv
<1> QED
  BY <1>1, <1>2, <1>3, SagaInvariant, PTL DEF Spec

-----------------------------------------------------------------------------
\* How many of the first k payments of invoice i go to till t.
PaidOf(i, k, t) == Cardinality({j \in 1 .. k : PaymentsOf[i][j] = t})

\* r's transaction has made the payments that are no longer in todo, has the
\* tills it raised locked, and raised them from what they hold.
Paying(r) ==
    LET i == InvoiceOf[r]
        made == Len(PaymentsOf[i]) - Len(todo[r])
    IN
    /\ made >= 0
    /\ \A j \in 1 .. Len(todo[r]) : todo[r][j] = PaymentsOf[i][made + j]
    /\ \A t \in Tills :
          /\ wrote[r][t] = IF PaidOf(i, made, t) = 0 THEN 0 ELSE till[t] + PaidOf(i, made, t)
          /\ PaidOf(i, made, t) > 0 => holder[t] = r

BeforePay == {"load", "funds", "open", "insert", "lock", "mint", "first", "voucher", "persist",
              "stock", "journal"}

TillsSecured(r) ==
    /\ at[r] \in AfterJournal => Paying(r)
    /\ at[r] = "commit" => todo[r] = <<>>
    /\ at[r] \in BeforePay => \A t \in Tills : wrote[r][t] = 0

AllTillsSecured == \A r \in Requests : TillsSecured(r)

(* Counting payments: none at first, then one by one, all of them in the   *)
(* end.                                                                    *)
LEMMA PaidCount ==
    ASSUME NEW r \in Requests, NEW t \in Tills
    PROVE  LET i == InvoiceOf[r] IN
           /\ PaidOf(i, 0, t) = 0
           /\ \A k \in 0 .. Len(PaymentsOf[i]) : PaidOf(i, k, t) \in Nat
           /\ \A k \in 0 .. Len(PaymentsOf[i]) : k < Len(PaymentsOf[i]) =>
                 PaidOf(i, k + 1, t) = PaidOf(i, k, t) + (IF PaymentsOf[i][k + 1] = t THEN 1 ELSE 0)
           /\ PaidOf(i, Len(PaymentsOf[i]), t) = Paid(i, t)
<1> DEFINE i == InvoiceOf[r]
           p == PaymentsOf[i]
           S(k) == {j \in 1 .. k : p[j] = t}
<1>0. Len(p) \in Nat /\ DOMAIN p = 1 .. Len(p)
  BY RowsOfRequest
<1>1. S(0) = {}
  OBVIOUS
<1>2. ASSUME NEW k \in 0 .. Len(p)
      PROVE  IsFiniteSet(S(k)) /\ PaidOf(i, k, t) = Cardinality(S(k)) /\ PaidOf(i, k, t) \in Nat
  <2>1. IsFiniteSet(1 .. k)
    BY <1>0, FS_Interval
  <2>2. S(k) \subseteq 1 .. k
    OBVIOUS
  <2>3. IsFiniteSet(S(k))
    BY <2>1, <2>2, FS_Subset
  <2>4. PaidOf(i, k, t) = Cardinality(S(k))
    BY DEF PaidOf
  <2> QED
    BY <2>3, <2>4, FS_CardinalityType
<1>3. ASSUME NEW k \in 0 .. Len(p), k < Len(p)
      PROVE  PaidOf(i, k + 1, t) = PaidOf(i, k, t) + (IF p[k + 1] = t THEN 1 ELSE 0)
  <2>1. k + 1 \in 0 .. Len(p)
    BY <1>0, <1>3
  <2>2. CASE p[k + 1] = t
    <3>1. S(k + 1) = S(k) \cup {k + 1} /\ k + 1 \notin S(k)
      BY <1>0, <2>2
    <3>2. Cardinality(S(k) \cup {k + 1}) = Cardinality(S(k)) + 1
      <4>1. IsFiniteSet(S(k))
        BY <1>2
      <4> HIDE DEF S
      <4> QED
        BY <3>1, <4>1, FS_AddElement
    <3>3. PaidOf(i, k + 1, t) = Cardinality(S(k + 1)) /\ PaidOf(i, k, t) = Cardinality(S(k))
      BY <1>2, <2>1
    <3> HIDE DEF S, p
    <3> QED
      BY <2>2, <3>1, <3>2, <3>3
  <2>3. CASE p[k + 1] # t
    <3>1. S(k + 1) = S(k)
      BY <1>0, <2>3
    <3>2. PaidOf(i, k + 1, t) = Cardinality(S(k + 1)) /\ PaidOf(i, k, t) = Cardinality(S(k))
      BY <1>2, <2>1
    <3>3. PaidOf(i, k, t) \in Nat
      BY <1>2
    <3> HIDE DEF S, p
    <3> QED
      BY <2>3, <3>1, <3>2, <3>3
  <2> QED
    BY <2>2, <2>3
<1>4. PaidOf(i, 0, t) = 0
  BY <1>1, FS_EmptySet DEF PaidOf
<1>5. PaidOf(i, Len(p), t) = Paid(i, t)
  BY <1>0 DEF PaidOf, Paid
<1> QED
  BY <1>2, <1>3, <1>4, <1>5

(* A step of r that lowers none of another's tills leaves what the other   *)
(* has secured.                                                            *)
LEMMA OthersTills ==
    ASSUME SagaTypeOK, AllTillsSecured,
           NEW q \in Requests, at'[q] = at[q], todo'[q] = todo[q], wrote'[q] = wrote[q],
           \A x \in Rows : holder[x] = q => holder'[x] = q,
           \A t \in Tills : holder[t] = q => till'[t] = till[t]
    PROVE  TillsSecured(q)'
<1>1. TillsSecured(q)
  BY DEF AllTillsSecured
<1>2. Paying(q) => Paying(q)'
  <2> SUFFICES ASSUME Paying(q) PROVE Paying(q)'
    OBVIOUS
  <2> DEFINE i == InvoiceOf[q]
             made == Len(PaymentsOf[i]) - Len(todo[q])
  <2>0. made \in 0 .. Len(PaymentsOf[i])
    BY RowsOfRequest DEF Paying, SagaTypeOK
  <2>1. ASSUME NEW t \in Tills
        PROVE  /\ wrote'[q][t] = IF PaidOf(i, made, t) = 0 THEN 0 ELSE till'[t] + PaidOf(i, made, t)
               /\ PaidOf(i, made, t) > 0 => holder'[t] = q
    <3>1. PaidOf(i, made, t) \in Nat
      BY <2>0, PaidCount
    <3>2. /\ wrote[q][t] = IF PaidOf(i, made, t) = 0 THEN 0 ELSE till[t] + PaidOf(i, made, t)
          /\ PaidOf(i, made, t) > 0 => holder[t] = q
      BY DEF Paying
    <3>3. t \in Rows
      BY DEF Rows
    <3> HIDE DEF made
    <3> QED
      BY <3>1, <3>2, <3>3
  <2> QED
    BY <2>1 DEF Paying
<1> QED
  BY <1>1, <1>2 DEF TillsSecured

(* A step of r is left to show what r secures with it.                     *)
LEMMA TillsKept ==
    ASSUME SagaTypeOK, AllTillsSecured,
           NEW r \in Requests, NEW step, Goto(r, step),
           UNCHANGED holder \/ Unlock(r) \/ \E x : Take(r, x, step),
           \A q \in Requests \ {r} : todo'[q] = todo[q] /\ wrote'[q] = wrote[q],
           \A t \in Tills : holder[t] # r => till'[t] = till[t],
           TillsSecured(r)'
    PROVE  AllTillsSecured'
<1>1. ASSUME NEW q \in Requests \ {r}
      PROVE  TillsSecured(q)'
  <2>1. at'[q] = at[q]
    BY DEF Goto, SagaTypeOK
  <2>2. \A x \in Rows : holder[x] = q => holder'[x] = q
    BY LocksOfOthers
  <2>3. \A t \in Tills : holder[t] = q => till'[t] = till[t]
    OBVIOUS
  <2> QED
    BY <2>1, <2>2, <2>3, OthersTills
<1> QED
  BY <1>1 DEF AllTillsSecured

(* r's step ends or does not reach the payments.                           *)
LEMMA NoPayment ==
    ASSUME SagaTypeOK, AllTillsSecured,
           NEW r \in Requests, NEW step \in {"failing", "done", "replayed"} \cup BeforePay,
           Goto(r, step),
           step \in BeforePay => at[r] \in BeforePay,
           UNCHANGED holder \/ Unlock(r) \/ \E x : Take(r, x, step),
           \A q \in Requests \ {r} : todo'[q] = todo[q],
           UNCHANGED <<till, wrote>>
    PROVE  AllTillsSecured'
<1>1. at'[r] = step
  BY DEF Goto, SagaTypeOK
<1>2. TillsSecured(r)'
  BY <1>1 DEF TillsSecured, AllTillsSecured, BeforePay, AfterJournal
<1> QED
  BY <1>2, TillsKept

(* A transaction that aborts takes its pending payments with it.           *)
LEMMA AbortTills ==
    ASSUME SagaTypeOK, AllTillsSecured, NEW r \in Requests, NEW kind, Abort(r, kind)
    PROVE  AllTillsSecured'
<1>1. /\ Goto(r, "failing") /\ Unlock(r) /\ UNCHANGED <<till, wrote, todo>>
  BY DEF Abort, committed, context
<1> QED
  BY <1>1, NoPayment DEF BeforePay

(* A commit raises the tills its transaction has locked.                   *)
LEMMA InstallTills ==
    ASSUME SagaTypeOK, AllTillsSecured,
           NEW r \in Requests, at[r] = "commit", NEW step \in {"failing", "done"},
           Install(r), Goto(r, step), UNCHANGED <<todo, wrote>>
    PROVE  AllTillsSecured'
<1>1. Paying(r)
  BY DEF AllTillsSecured, TillsSecured, AfterJournal
<1>2. ASSUME NEW t \in Tills, holder[t] # r
      PROVE  till'[t] = till[t]
  <2> DEFINE made == Len(PaymentsOf[InvoiceOf[r]]) - Len(todo[r])
  <2>0. made \in 0 .. Len(PaymentsOf[InvoiceOf[r]])
    BY <1>1, RowsOfRequest DEF Paying, SagaTypeOK
  <2>1. PaidOf(InvoiceOf[r], made, t) \in Nat
    BY <2>0, PaidCount
  <2>2. /\ wrote[r][t] = IF PaidOf(InvoiceOf[r], made, t) = 0 THEN 0
                         ELSE till[t] + PaidOf(InvoiceOf[r], made, t)
        /\ PaidOf(InvoiceOf[r], made, t) > 0 => holder[t] = r
    BY <1>1 DEF Paying
  <2>3. wrote[r][t] = 0
    <3> HIDE DEF made
    <3> QED
      BY <1>2, <2>1, <2>2
  <2> QED
    BY <2>3 DEF Install
<1>3. at'[r] = step
  BY DEF Goto, SagaTypeOK
<1>4. TillsSecured(r)'
  BY <1>3 DEF TillsSecured, BeforePay, AfterJournal
<1>5. Unlock(r)
  BY DEF Install
<1> QED
  BY <1>2, <1>4, <1>5, TillsKept

(* The journal is posted: the payments are all still to be made.           *)
LEMMA JournalTills ==
    ASSUME SagaTypeOK, AllTillsSecured, NEW r \in Requests, PostJournal(r)
    PROVE  AllTillsSecured'
<1> DEFINE i == InvoiceOf[r]
<1>1. /\ Take(r, JournalOf[i], "pay") /\ Goto(r, "pay") /\ at'[r] = "pay"
      /\ todo' = [todo EXCEPT ![r] = PaymentsOf[i]]
      /\ UNCHANGED <<till, wrote>>
      /\ at[r] = "journal"
  BY DEF PostJournal, Take, Goto, SagaTypeOK, committed
<1>2. todo'[r] = PaymentsOf[i] /\ \A q \in Requests \ {r} : todo'[q] = todo[q]
  BY <1>1 DEF SagaTypeOK
<1>3. Len(PaymentsOf[i]) \in Nat /\ Len(PaymentsOf[i]) - Len(todo'[r]) = 0
  BY <1>2, RowsOfRequest
<1>4. \A t \in Tills : wrote[r][t] = 0
  BY <1>1 DEF AllTillsSecured, TillsSecured, BeforePay
<1>5. Paying(r)'
  <2>1. \A j \in 1 .. Len(todo'[r]) : todo'[r][j] = PaymentsOf[i][0 + j]
    BY <1>2
  <2>2. \A t \in Tills : PaidOf(i, 0, t) = 0 /\ wrote'[r][t] = 0
    BY <1>1, <1>4, PaidCount
  <2> DEFINE made == Len(PaymentsOf[i]) - Len(todo'[r])
  <2>3. made = 0
    BY <1>3
  <2>4. \A t \in Tills :
           /\ wrote'[r][t] = IF PaidOf(i, made, t) = 0 THEN 0 ELSE till'[t] + PaidOf(i, made, t)
           /\ PaidOf(i, made, t) > 0 => holder'[t] = r
    <3> HIDE DEF made
    <3> QED
      BY <2>2, <2>3
  <2>5. made >= 0 /\ \A j \in 1 .. Len(todo'[r]) : todo'[r][j] = PaymentsOf[i][made + j]
    <3> HIDE DEF made
    <3> QED
      BY <2>1, <2>3
  <2> QED
    BY <2>4, <2>5 DEF Paying
<1>6. TillsSecured(r)'
  BY <1>1, <1>5 DEF TillsSecured, BeforePay
<1> QED
  BY <1>1, <1>2, <1>6, TillsKept

(* A payment is made: its till is locked, read and raised.                 *)
LEMMA PaymentTills ==
    ASSUME SagaTypeOK, AllTillsSecured, NEW r \in Requests, PostPayments(r)
    PROVE  AllTillsSecured'
<1> DEFINE i == InvoiceOf[r]
           p == PaymentsOf[i]
           made == Len(p) - Len(todo[r])
<1>0. Paying(r) /\ at[r] = "pay" /\ todo[r] \in Seq(Items \cup Tills) /\ p \in Seq(Tills)
  BY RowsOfRequest DEF AllTillsSecured, TillsSecured, AfterJournal, PostPayments, SagaTypeOK
<1>a. made \in 0 .. Len(p) /\ Len(todo[r]) \in Nat /\ Len(p) \in Nat
  <2>1. Len(todo[r]) \in Nat /\ Len(p) \in Nat
    BY <1>0
  <2>2. made >= 0
    BY <1>0 DEF Paying
  <2> DEFINE n == Len(p)
             m == Len(todo[r])
  <2>3. n \in Nat /\ m \in Nat /\ n - m >= 0
    BY <2>1, <2>2
  <2> HIDE DEF n, m
  <2>4. n - m \in 0 .. n
    BY <2>3
  <2> QED
    BY <2>1, <2>4 DEF n, m
<1>1. CASE todo[r] = <<>>
  <2>1. Goto(r, "commit") /\ at'[r] = "commit" /\ UNCHANGED <<holder, todo, wrote, till>>
    BY <1>1 DEF PostPayments, Goto, SagaTypeOK, committed
  <2>2. Paying(r)'
    BY <1>0, <2>1 DEF Paying
  <2>3. TillsSecured(r)'
    BY <1>1, <2>1, <2>2 DEF TillsSecured, BeforePay
  <2> QED
    BY <2>1, <2>3, TillsKept
<1>2. CASE todo[r] # <<>>
  <2> DEFINE u == Head(todo[r])
  <2>1. /\ Take(r, u, "pay") /\ Goto(r, "pay") /\ at'[r] = "pay"
        /\ wrote' = [wrote EXCEPT ![r][u] = (IF @ = 0 THEN till[u] ELSE @) + 1]
        /\ todo' = [todo EXCEPT ![r] = Tail(@)]
        /\ UNCHANGED till
    BY <1>2 DEF PostPayments, Take, Goto, SagaTypeOK, committed
  <2>2. /\ todo'[r] = Tail(todo[r])
        /\ \A q \in Requests \ {r} : todo'[q] = todo[q] /\ wrote'[q] = wrote[q]
    BY <2>1 DEF SagaTypeOK
  <2>3. Len(todo[r]) >= 1 /\ Len(todo'[r]) = Len(todo[r]) - 1
    BY <1>0, <1>2, <2>2
  <2>4. made + 1 \in 1 .. Len(p) /\ Len(p) - Len(todo'[r]) = made + 1 /\ made < Len(p)
    <3> DEFINE n == Len(p)
               m == Len(todo[r])
    <3>1. n \in Nat /\ m \in Nat /\ n - m \in 0 .. n /\ m >= 1 /\ Len(todo'[r]) = m - 1
      BY <1>a, <2>3
    <3> HIDE DEF n, m
    <3>2. (n - m) + 1 \in 1 .. n /\ n - Len(todo'[r]) = (n - m) + 1 /\ n - m < n
      BY <3>1
    <3> QED
      BY <3>2 DEF n, m
  <2>5. u = p[made + 1] /\ u \in Tills
    <3>1. u = todo[r][1] /\ 1 \in 1 .. Len(todo[r])
      BY <1>0, <1>2, <2>3
    <3>2. todo[r][1] = p[made + 1]
      BY <1>0, <3>1 DEF Paying
    <3>3. \A k \in 1 .. Len(p) : p[k] \in Tills
      BY <1>0
    <3> QED
      BY <2>4, <3>1, <3>2, <3>3
  <2>6. ASSUME NEW j \in 1 .. Len(todo'[r])
        PROVE  todo'[r][j] = p[(made + 1) + j]
    <3>1. todo'[r][j] = todo[r][j + 1] /\ j + 1 \in 1 .. Len(todo[r])
      BY <1>0, <1>2, <1>a, <2>2, <2>3
    <3>2. todo[r][j + 1] = p[made + (j + 1)]
      BY <1>0, <3>1 DEF Paying
    <3>3. made + (j + 1) = (made + 1) + j
      <4>1. made \in Int /\ j \in Int
        BY <1>a
      <4> HIDE DEF made
      <4> QED
        BY <4>1
    <3> QED
      BY <3>1, <3>2, <3>3
  <2>7. ASSUME NEW t \in Tills
        PROVE  /\ wrote'[r][t] = IF PaidOf(i, made + 1, t) = 0 THEN 0 ELSE till[t] + PaidOf(i, made + 1, t)
               /\ PaidOf(i, made + 1, t) > 0 => holder'[t] = r
    <3>1. /\ PaidOf(i, made + 1, t) = PaidOf(i, made, t) + (IF p[made + 1] = t THEN 1 ELSE 0)
          /\ PaidOf(i, made, t) \in Nat
      BY <1>a, <2>4, PaidCount
    <3>2. /\ wrote[r][t] = IF PaidOf(i, made, t) = 0 THEN 0 ELSE till[t] + PaidOf(i, made, t)
          /\ PaidOf(i, made, t) > 0 => holder[t] = r
      BY <1>0 DEF Paying
    <3>3. till[t] \in Nat /\ t \in Rows /\ u \in Rows
      BY <2>5 DEF SagaTypeOK, Rows
    <3>4. holder'[u] = r /\ (holder[t] = r => holder'[t] = r)
      BY <2>1, <3>3 DEF Take, SagaTypeOK
    <3>5. wrote'[r][t] = IF t = u THEN (IF wrote[r][u] = 0 THEN till[u] ELSE wrote[r][u]) + 1
                         ELSE wrote[r][t]
      BY <2>1, <2>5 DEF SagaTypeOK
    <3> HIDE DEF made, u, i, p
    <3>6. CASE t = u
      BY <2>5, <3>1, <3>2, <3>3, <3>4, <3>5, <3>6
    <3>7. CASE t # u
      BY <2>5, <3>1, <3>2, <3>3, <3>4, <3>5, <3>7
    <3> QED
      BY <3>6, <3>7
  <2>8. Paying(r)'
    <3>1. made + 1 >= 0
      BY <1>a
    <3> QED
      BY <2>1, <2>4, <2>6, <2>7, <3>1 DEF Paying
  <2>9. TillsSecured(r)'
    BY <2>1, <2>8 DEF TillsSecured, BeforePay
  <2> QED
    BY <2>1, <2>2, <2>9, TillsKept
<1> QED
  BY <1>1, <1>2

(* Every step keeps the tills a payment has raised for its sale.           *)
LEMMA TillsSecuredStep ==
    ASSUME SagaTypeOK, AllTillsSecured, [Next]_vars
    PROVE  AllTillsSecured'
<1>1. ASSUME NEW r \in Requests, RequestStep(r)
      PROVE  AllTillsSecured'
  <2>1. CASE \E kind : Abort(r, kind)
    BY <2>1, AbortTills
  <2>2. CASE PostJournal(r)
    BY <2>2, JournalTills
  <2>3. CASE PostPayments(r)
    BY <2>3, PaymentTills
  <2>4. CASE Commit(r)
    <3>1. at[r] = "commit" /\ Install(r) /\ Goto(r, "done") /\ UNCHANGED <<todo, wrote>>
      BY <2>4 DEF Commit, context
    <3> QED
      BY <3>1, InstallTills
  <2>5. CASE /\ ~ \E kind : Abort(r, kind)
             /\ \/ LoadDraft(r) \/ ResolveFunds(r) \/ OpenSaga(r) \/ InsertSaga(r) \/ LockInvoice(r)
                \/ MintNumber(r) \/ MintFirst(r) \/ RedeemVoucher(r) \/ PersistInvoice(r)
                \/ DeductStock(r) \/ FinishReplay(r) \/ RecordFailure(r)
    <3>1. /\ \A q \in Requests \ {r} : todo'[q] = todo[q]
          /\ UNCHANGED <<till, wrote>>
      BY <2>5
      DEF LoadDraft, ResolveFunds, OpenSaga, InsertSaga, LockInvoice, MintNumber, MintFirst,
          RedeemVoucher, PersistInvoice, DeductStock, FinishReplay, RecordFailure, committed,
          context, SagaTypeOK
    <3>2. PICK step \in {"failing", "done", "replayed"} \cup BeforePay :
             /\ Goto(r, step)
             /\ step \in BeforePay => at[r] \in BeforePay
             /\ UNCHANGED holder \/ \E x : Take(r, x, step)
      <4>1. CASE LoadDraft(r) \/ ResolveFunds(r) \/ OpenSaga(r)
        BY <4>1 DEF LoadDraft, ResolveFunds, OpenSaga, Reject, BeforePay
      <4>2. CASE InsertSaga(r) \/ LockInvoice(r) \/ MintNumber(r) \/ MintFirst(r)
        BY <2>5, <4>2 DEF InsertSaga, LockInvoice, MintNumber, MintFirst, Take, BeforePay
      <4>3. CASE RedeemVoucher(r) \/ PersistInvoice(r) \/ DeductStock(r)
        BY <2>5, <4>3 DEF RedeemVoucher, PersistInvoice, DeductStock, Take, BeforePay, committed
      <4>4. CASE FinishReplay(r) \/ RecordFailure(r)
        <5>1. Goto(r, "done") /\ UNCHANGED holder /\ "done" \notin BeforePay
          BY <4>4 DEF FinishReplay, RecordFailure, BeforePay
        <5> QED
          BY <5>1
      <4> QED
        BY <2>5, <4>1, <4>2, <4>3, <4>4
    <3> QED
      BY <3>1, <3>2, NoPayment
  <2> QED
    BY <1>1, <2>1, <2>2, <2>3, <2>4, <2>5 DEF RequestStep
<1>2. ASSUME NEW r \in Requests, Failure(r)
      PROVE  AllTillsSecured'
  <2>1. CASE StepFails(r)
    BY <2>1, AbortTills DEF StepFails
  <2>2. CASE CommitLost(r)
    <3>1. at[r] = "commit" /\ Install(r) /\ Goto(r, "failing") /\ UNCHANGED <<todo, wrote>>
      BY <2>2 DEF CommitLost, context
    <3> QED
      BY <3>1, InstallTills
  <2>3. CASE ReplayFails(r) \/ RecorderFails(r) \/ Crash(r)
    <3>1. /\ UNCHANGED <<todo, till, wrote>>
          /\ \E step \in {"failing", "done"} : Goto(r, step)
          /\ UNCHANGED holder \/ Unlock(r)
      BY <2>3 DEF ReplayFails, RecorderFails, Crash, committed, context
    <3> QED
      BY <3>1, NoPayment DEF BeforePay
  <2> QED
    BY <1>2, <2>1, <2>2, <2>3 DEF Failure
<1>3. CASE (\E i \in Invoices : EditStep(i)) \/ UNCHANGED vars
  <2>1. UNCHANGED <<at, todo, wrote, holder, till>>
    BY <1>3 DEF EditStep, BeginEdit, DiffForSave, SaveEdit, vars, committed, context
  <2> QED
    BY <2>1, OthersTills DEF AllTillsSecured
<1> QED
  BY <1>1, <1>2, <1>3 DEF Next

(* A sale raises every till by the payments it makes into it.              *)
LEMMA TillsRaised ==
    ASSUME SagaInv, AllTillsSecured, NEW r \in Requests, at[r] = "commit", Install(r),
           NEW t \in Tills
    PROVE  till'[t] = till[t] + Paid(InvoiceOf[r], t) /\ Paid(InvoiceOf[r], t) \in Nat
<1> DEFINE i == InvoiceOf[r]
<1>1. Paying(r) /\ todo[r] = <<>>
  BY DEF AllTillsSecured, TillsSecured, AfterJournal
<1>2. Len(PaymentsOf[i]) \in Nat /\ Len(todo[r]) = 0
  BY <1>1, RowsOfRequest
<1>3. Len(PaymentsOf[i]) - Len(todo[r]) = Len(PaymentsOf[i])
  BY <1>2
<1>4. Paid(i, t) = PaidOf(i, Len(PaymentsOf[i]), t) /\ Paid(i, t) \in Nat
  BY <1>2, PaidCount
<1>5. wrote[r][t] = IF Paid(i, t) = 0 THEN 0 ELSE till[t] + Paid(i, t)
  BY <1>1, <1>3, <1>4 DEF Paying
<1>6. till[t] \in Nat
  BY DEF SagaInv, SagaTypeOK
<1>7. till'[t] = IF wrote[r][t] = 0 THEN till[t] ELSE wrote[r][t]
  BY DEF Install
<1>8. CASE Paid(i, t) = 0
  BY <1>5, <1>6, <1>7, <1>8
<1>9. CASE Paid(i, t) # 0
  <2>1. wrote[r][t] = till[t] + Paid(i, t)
    BY <1>5, <1>9
  <2>2. till[t] + Paid(i, t) # 0
    BY <1>4, <1>6, <1>9
  <2> QED
    BY <1>4, <1>7, <2>1, <2>2
<1> QED
  BY <1>8, <1>9

(* A commit adds to each till what its invoice pays into it.               *)
LEMMA TillsStep ==
    ASSUME SagaInv, AllTillsSecured, IsFiniteSet(sold), TillsHold(till, sold),
           NEW r \in Requests, at[r] = "commit", Install(r)
    PROVE  TillsHold(till', sold')
<1>1. r \notin sold /\ sold' = sold \cup {r} /\ sold \subseteq Requests
  BY DEF SagaInv, AllSecured, Secured, SagaTypeOK, Install
<1>2. ASSUME NEW t \in Tills
      PROVE  till'[t] = Sum(PaidInto(t), sold')
  <2>1. till'[t] = till[t] + PaidInto(t)[r]
    BY TillsRaised DEF PaidInto
  <2>2. \A q \in Requests : PaidInto(t)[q] \in Int
    <3>1. ASSUME NEW q \in Requests PROVE Paid(InvoiceOf[q], t) \in Nat
      <4>1. Len(PaymentsOf[InvoiceOf[q]]) \in Nat
        BY RowsOfRequest
      <4> QED
        BY <4>1, PaidCount
    <3> QED
      BY <3>1 DEF PaidInto
  <2>3. Sum(PaidInto(t), sold \cup {r}) = Sum(PaidInto(t), sold) + PaidInto(t)[r]
    BY <1>1, <2>2, SumAdd
  <2>4. till[t] = Sum(PaidInto(t), sold)
    BY DEF TillsHold
  <2> QED
    BY <1>1, <2>1, <2>3, <2>4
<1> QED
  BY <1>2 DEF TillsHold

(* Concurrent sales do not overwrite each other's money, whatever tills    *)
(* they share and in whatever order they take them: a till is read under   *)
(* the lock that is kept until the sale commits or rolls back.             *)
THEOREM TillsAlwaysAddUp == Spec => []TillsAddUp
<1> DEFINE Inv == IsFiniteSet(sold) /\ AllTillsSecured /\ TillsHold(till, sold)
<1>1. Init => Inv
  <2> SUFFICES ASSUME Init PROVE Inv
    OBVIOUS
  <2>1. IsFiniteSet(sold) /\ sold = {} /\ \A t \in Tills : till[t] = 0
    BY FS_EmptySet DEF Init
  <2>2. TillsHold(till, sold)
    BY <2>1, SumEmpty DEF TillsHold
  <2>3. AllTillsSecured
    BY DEF Init, AllTillsSecured, TillsSecured, AfterJournal
  <2> QED
    BY <2>1, <2>2, <2>3
<1>2. SagaInv /\ Inv /\ [Next]_vars => Inv'
  <2> SUFFICES ASSUME SagaInv, Inv, [Next]_vars PROVE Inv'
    OBVIOUS
  <2>0. AllTillsSecured'
    BY TillsSecuredStep DEF SagaInv
  <2>1. CASE SalesUnchanged
    <3>1. till' = till /\ sold' = sold
      BY <2>1 DEF SalesUnchanged
    <3> QED
      BY <2>0, <3>1 DEF TillsHold
  <2>2. ASSUME NEW r \in Requests, at[r] = "commit", Install(r)
        PROVE  TillsHold(till', sold')
    BY <2>2, TillsStep
  <2>3. TillsHold(till', sold') => TillsHold(till, sold)'
    BY DEF TillsHold
  <2> QED
    BY <2>0, <2>1, <2>2, <2>3, SalesChange, SalesFinite
<1>3. SagaInv /\ Inv => TillsAddUp
  BY TillsAre DEF SagaInv
<1> QED
  BY <1>1, <1>2, <1>3, SagaInvariant, PTL DEF Spec

-----------------------------------------------------------------------------
(* The contract counts payments as the saga does.                          *)
LEMMA SameCount ==
    \A i \in Invoices, t \in Tills :
        Paid(i, t) = Contract!Cardinality({j \in DOMAIN PaymentsOf[i] : PaymentsOf[i][j] = t})
<1>1. \A S : Contract!Cardinality(S) = Cardinality(S)
  BY DEF Contract!Cardinality, Cardinality
<1> QED
  BY <1>1 DEF Paid

(* A commit is the sale of the contract, and all other steps stutter.      *)
LEMMA SaleRefines ==
    ASSUME SagaInv, AllTillsSecured, SoldIsIssued,
           NEW r \in Requests, at[r] = "commit", Install(r), UNCHANGED <<number, entry>>
    PROVE  Contract!Sell(r)
<1> DEFINE i == InvoiceOf[r]
           next == [c \in {CounterOf[i], JournalOf[i]} |-> counter[c] + 1]
           numbers == [q \in Requests |-> IF q \in sold THEN number[q] ELSE 0]
           entries == [q \in Requests |-> IF q \in sold THEN entry[q] ELSE 0]
<1>0. Secured(r) /\ SagaTypeOK
  BY DEF SagaInv, AllSecured
<1>1. \A q \in sold : InvoiceOf[q] # i
  BY <1>0 DEF Secured, AfterLock, SoldIsIssued
<1>2. VoucherOf[r] \notin used
  BY <1>0, RowsOfRequest DEF Secured, AfterVoucher, SagaTypeOK
<1>3. CardOf[i] \in Cards => Wished[i] <= points[CardOf[i]]
  BY <1>0, RowsOfRequest DEF Secured, AfterPersist
<1>4. sold' = sold \cup {r} /\ r \notin sold
  BY <1>0 DEF Install, Secured
<1>5. /\ number[r] = counter[CounterOf[i]] + 1 /\ next[CounterOf[i]] = number[r]
      /\ entry[r] = counter[JournalOf[i]] + 1 /\ next[JournalOf[i]] = entry[r]
  BY <1>0 DEF Secured, AfterMint, AfterJournal
<1>6. numbers' = [numbers EXCEPT ![r] = next[CounterOf[i]]]
  BY <1>4, <1>5
<1>7. entries' = [entries EXCEPT ![r] = next[JournalOf[i]]]
  BY <1>4, <1>5
<1>8. counter' = [c \in Counters |-> IF c \in DOMAIN next THEN next[c] ELSE counter[c]]
  BY <1>0, <1>5, RowsOfRequest DEF Install, SagaTypeOK
<1>9. till' = [t \in Tills |-> till[t] + Paid(i, t)]
  <2>1. till' = [t \in Tills |-> till'[t]]
    BY DEF Install
  <2>2. \A t \in Tills : till'[t] = till[t] + Paid(i, t)
    BY TillsRaised
  <2> QED
    BY <2>1, <2>2
<1>10. /\ used' = used \cup ({VoucherOf[r]} \ {None})
       /\ points' = [c \in Cards |-> IF c = CardOf[i] THEN points[c] - Wished[i] ELSE points[c]]
  BY DEF Install
<1>11. till' = [t \in Tills |-> till[t] + Contract!Cardinality({j \in DOMAIN PaymentsOf[i] : PaymentsOf[i][j] = t})]
  <2>1. i \in Invoices
    BY RowsOfRequest
  <2> QED
    BY <1>9, <2>1, SameCount
<1> QED
  BY <1>1, <1>2, <1>3, <1>4, <1>6, <1>7, <1>8, <1>10, <1>11 DEF Contract!Sell

(* Locks, waits, failures and replays are not seen by the contract.        *)
LEMMA OtherStepsRefine ==
    ASSUME SalesUnchanged
    PROVE  UNCHANGED Contract!vars
<1>1. UNCHANGED [r \in Requests |-> IF r \in sold THEN number[r] ELSE 0]
  BY DEF SalesUnchanged
<1>2. UNCHANGED [r \in Requests |-> IF r \in sold THEN entry[r] ELSE 0]
  BY DEF SalesUnchanged
<1> QED
  BY <1>1, <1>2 DEF Contract!vars, SalesUnchanged

(* As long as nobody edits a draft, the steps, locks, waits, crashes and   *)
(* replays of concurrent checkouts implement the contract: every sale is   *)
(* atomic and takes the next number, its voucher, its points, its tills.   *)
THEOREM CheckoutImplementsContract ==
    ASSUME Edited = {}
    PROVE  Spec => ImplementsContract
<1> DEFINE Inv == AllTillsSecured /\ SoldIsIssued /\ OneSalePerInvoice
<1>1. Init => Inv /\ Contract!Init
  <2> SUFFICES ASSUME Init PROVE Inv /\ Contract!Init
    OBVIOUS
  <2>1. AllTillsSecured
    BY DEF Init, AllTillsSecured, TillsSecured, AfterJournal
  <2>2. SoldIsIssued /\ OneSalePerInvoice
    BY DEF Init, SoldIsIssued, OneSalePerInvoice
  <2>3. Contract!Init
    BY DEF Init, Contract!Init
  <2> QED
    BY <2>1, <2>2, <2>3
<1>2. SagaInv /\ Inv /\ [Next]_vars => Inv'
  BY TillsSecuredStep, SoldIsIssuedStep DEF SagaInv
<1>3. SagaInv /\ Inv /\ [Next]_vars => [Contract!Next]_(Contract!vars)
  <2> SUFFICES ASSUME SagaInv, Inv, [Next]_vars PROVE [Contract!Next]_(Contract!vars)
    OBVIOUS
  <2>1. CASE SalesUnchanged
    BY <2>1, OtherStepsRefine
  <2>2. ASSUME NEW r \in Requests, at[r] = "commit", Install(r), UNCHANGED <<number, entry>>
        PROVE  Contract!Next
    BY <2>2, SaleRefines DEF Contract!Next
  <2> QED
    BY <2>1, <2>2, SalesChange
<1> QED
  BY <1>1, <1>2, <1>3, SagaInvariant, PTL DEF Spec, ImplementsContract, Contract!Spec

-----------------------------------------------------------------------------
\* A FAILED row of key k has been recorded.
FailedFor(k) == \E q \in Requests : KeyOf[q] = k /\ saga[q] = "FAILED"

\* What the saga rows say: a COMPLETED one is a sale's, a FAILED one is no
\* longer in a transaction, a row a request works on is of its key and is its
\* own or a sale's, and only a FAILED row overtakes.
RowTrue(q) ==
    /\ saga[q] = "COMPLETED" => q \in sold
    /\ saga[q] = "FAILED" => at[q] \in {"failing", "done"}
    /\ sagaOf[q] \in Requests =>
          /\ KeyOf[sagaOf[q]] = KeyOf[q]
          /\ sagaOf[q] = q \/ sagaOf[q] \in sold
    /\ at[q] = "replayed" => sagaOf[q] \in sold
    /\ q \in overtaken => FailedFor(KeyOf[q])

\* What the client of r was told, and what it will be told if it was late.
AnswerTrue(r) ==
    /\ answer[r] = "ok" => \E q \in sold : InvoiceOf[q] = InvoiceOf[r] /\ told[r] = number[q]
    /\ answer[r] \in {"rejected", "conflict"} => r \notin sold /\ at[r] \in {"failing", "done"}
    /\ r \in late =>
          /\ at[r] # "load"
          /\ at[r] \in {"funds", "open"} => Completed(KeyOf[r]) # {} \/ FailedFor(KeyOf[r])
          /\ at[r] \in InTransaction => FailedFor(KeyOf[r])
          /\ answer[r] = "rejected" => VoucherOf[r] \in used
          /\ answer[r] = "conflict" => FailedFor(KeyOf[r])

RowsTrue == \A q \in Requests : RowTrue(q)
AnswersTrue == \A r \in Requests : AnswerTrue(r)

\* A step takes back no sale and no row.
RowsStay ==
    /\ sold \subseteq sold' /\ used \subseteq used'
    /\ \A q \in sold : number'[q] = number[q]
    /\ \A q \in Requests : /\ saga[q] = "FAILED" => saga'[q] = "FAILED"
                           /\ saga[q] = "COMPLETED" => saga'[q] \in {"COMPLETED", "FAILED"}

(* Saga rows change at a commit and when a failure is recorded only.       *)
LEMMA SagaRowsChange ==
    ASSUME [Next]_vars
    PROVE  \/ UNCHANGED <<saga, overtaken>>
           \/ \E r \in Requests : at[r] = "commit" /\ Install(r) /\ \E step \in {"failing", "done"} : Goto(r, step)
           \/ \E r \in Requests : RecordFailure(r)
<1>1. ASSUME NEW r \in Requests, RequestStep(r), ~Commit(r), ~RecordFailure(r)
      PROVE  UNCHANGED <<saga, overtaken>>
  BY <1>1
  DEF RequestStep, LoadDraft, ResolveFunds, OpenSaga, InsertSaga, LockInvoice, MintNumber,
      MintFirst, RedeemVoucher, PersistInvoice, DeductStock, PostJournal, PostPayments,
      FinishReplay, Abort, committed
<1>2. ASSUME NEW r \in Requests, Failure(r), ~CommitLost(r)
      PROVE  UNCHANGED <<saga, overtaken>>
  BY <1>2 DEF Failure, StepFails, ReplayFails, RecorderFails, Crash, Abort, committed
<1>3. ASSUME NEW i \in Invoices, EditStep(i)
      PROVE  UNCHANGED <<saga, overtaken>>
  BY <1>3 DEF EditStep, BeginEdit, DiffForSave, SaveEdit, committed
<1>4. CASE UNCHANGED vars
  BY <1>4 DEF vars, committed
<1>5. ASSUME NEW r \in Requests, Commit(r) \/ CommitLost(r)
      PROVE  at[r] = "commit" /\ Install(r) /\ \E step \in {"failing", "done"} : Goto(r, step)
  BY <1>5 DEF Commit, CommitLost
<1> QED
  BY <1>1, <1>2, <1>3, <1>4, <1>5 DEF Next

(* No step takes back what a finished saga row says.                       *)
LEMMA RowsStayStep ==
    ASSUME SagaInv, RowsTrue, [Next]_vars
    PROVE  RowsStay
<1>1. sold \subseteq sold' /\ used \subseteq used' /\ \A q \in sold : number'[q] = number[q]
  BY SalesChange DEF SalesUnchanged, Install
<1>2. ASSUME NEW q \in Requests
      PROVE  /\ saga[q] = "FAILED" => saga'[q] = "FAILED"
             /\ saga[q] = "COMPLETED" => saga'[q] \in {"COMPLETED", "FAILED"}
  <2>0. saga \in [Requests -> {"none", "COMPLETED", "FAILED"}]
    BY DEF SagaInv, SagaTypeOK
  <2>1. CASE UNCHANGED <<saga, overtaken>>
    BY <2>1
  <2>2. ASSUME NEW r \in Requests, at[r] = "commit", Install(r)
        PROVE  /\ saga[q] = "FAILED" => saga'[q] = "FAILED"
               /\ saga[q] = "COMPLETED" => saga'[q] \in {"COMPLETED", "FAILED"}
    <3>1. saga' = [saga EXCEPT ![r] = "COMPLETED"]
      BY <2>2 DEF Install
    <3>2. saga[r] # "FAILED"
      BY <2>2 DEF RowsTrue, RowTrue
    <3> QED
      BY <2>0, <3>1, <3>2
  <2>3. ASSUME NEW r \in Requests, RecordFailure(r)
        PROVE  /\ saga[q] = "FAILED" => saga'[q] = "FAILED"
               /\ saga[q] = "COMPLETED" => saga'[q] \in {"COMPLETED", "FAILED"}
    <3>1. \E target : saga' = [saga EXCEPT ![target] = "FAILED"]
      BY <2>3 DEF RecordFailure
    <3> QED
      BY <2>0, <3>1
  <2> QED
    BY <2>1, <2>2, <2>3, SagaRowsChange
<1> QED
  BY <1>1, <1>2 DEF RowsStay

(* What stays: a recorded failure, and that a key has completed or failed. *)
LEMMA FailuresStay ==
    ASSUME RowsStay, NEW k
    PROVE  /\ FailedFor(k) => FailedFor(k)'
           /\ Completed(k) # {} \/ FailedFor(k) => (Completed(k) # {})' \/ FailedFor(k)'
  BY DEF RowsStay, FailedFor, Completed

(* Whose row a request works on is settled when it opens or inserts it.    *)
LEMMA SagaOfChanges ==
    ASSUME SagaTypeOK, [Next]_vars, NEW q \in Requests
    PROVE  \/ sagaOf'[q] = sagaOf[q] /\ (at'[q] = "replayed" => at[q] = "replayed")
           \/ sagaOf'[q] = q /\ at'[q] # "replayed"
           \/ sagaOf'[q] \in Completed(KeyOf[q])
<1> DEFINE P == \/ sagaOf'[q] = sagaOf[q] /\ (at'[q] = "replayed" => at[q] = "replayed")
                \/ sagaOf'[q] = q /\ at'[q] # "replayed"
                \/ sagaOf'[q] \in Completed(KeyOf[q])
<1>0. at \in [Requests -> Steps] /\ sagaOf \in [Requests -> Requests \cup {None}]
  BY DEF SagaTypeOK
<1>a. ASSUME NEW r \in Requests, NEW step, step # "replayed", Goto(r, step), UNCHANGED sagaOf
      PROVE  P
  BY <1>0, <1>a DEF Goto
<1>1. ASSUME NEW r \in Requests, RequestStep(r)
      PROVE  P
  <2>1. CASE OpenSaga(r)
    <3>1. CASE UNCHANGED sagaOf /\ Goto(r, "insert")
      BY <1>a, <3>1
    <3>2. CASE /\ \E p \in Completed(KeyOf[r]) : sagaOf' = [sagaOf EXCEPT ![r] = p]
               /\ Goto(r, "replayed")
      BY <1>0, <3>2 DEF Goto
    <3> QED
      BY <2>1, <3>1, <3>2 DEF OpenSaga
  <2>2. CASE InsertSaga(r)
    <3>1. CASE Abort(r, "conflict")
      BY <1>a, <3>1 DEF Abort, context
    <3>2. CASE sagaOf' = [sagaOf EXCEPT ![r] = r] /\ Goto(r, "lock")
      BY <1>0, <3>2 DEF Goto
    <3> QED
      BY <2>2, <3>1, <3>2 DEF InsertSaga, Take
  <2>3. CASE LoadDraft(r) \/ ResolveFunds(r) \/ LockInvoice(r) \/ MintNumber(r) \/ MintFirst(r)
    <3>1. UNCHANGED sagaOf
      BY <2>3 DEF LoadDraft, ResolveFunds, LockInvoice, MintNumber, MintFirst, Abort, context
    <3>2. \E step \in {"funds", "done", "open", "mint", "voucher", "first", "failing"} : Goto(r, step)
      BY <2>3 DEF LoadDraft, ResolveFunds, LockInvoice, MintNumber, MintFirst, Abort, Take, Reject
    <3> QED
      BY <1>a, <3>1, <3>2
  <2>4. CASE RedeemVoucher(r) \/ PersistInvoice(r) \/ DeductStock(r) \/ PostJournal(r) \/ PostPayments(r)
    <3>1. UNCHANGED sagaOf
      BY <2>4 DEF RedeemVoucher, PersistInvoice, DeductStock, PostJournal, PostPayments, Abort, context
    <3>2. \E step \in {"persist", "stock", "journal", "pay", "commit", "failing"} : Goto(r, step)
      BY <2>4 DEF RedeemVoucher, PersistInvoice, DeductStock, PostJournal, PostPayments, Abort, Take
    <3> QED
      BY <1>a, <3>1, <3>2
  <2>5. CASE Commit(r) \/ FinishReplay(r) \/ RecordFailure(r)
    <3>1. UNCHANGED sagaOf /\ Goto(r, "done")
      BY <2>5 DEF Commit, FinishReplay, RecordFailure, context
    <3> QED
      BY <1>a, <3>1
  <2> QED
    BY <1>1, <2>1, <2>2, <2>3, <2>4, <2>5 DEF RequestStep
<1>2. ASSUME NEW r \in Requests, Failure(r)
      PROVE  P
  <2>1. UNCHANGED sagaOf /\ \E step \in {"failing", "done"} : Goto(r, step)
    BY <1>2 DEF Failure, StepFails, CommitLost, ReplayFails, RecorderFails, Crash, Abort, context
  <2> QED
    BY <1>a, <2>1
<1>3. CASE (\E i \in Invoices : EditStep(i)) \/ UNCHANGED vars
  <2>1. UNCHANGED <<at, sagaOf>>
    BY <1>3 DEF EditStep, BeginEdit, DiffForSave, SaveEdit, vars, committed, context
  <2> QED
    BY <2>1
<1> QED
  BY <1>1, <1>2, <1>3 DEF Next

(* A request whose transaction is over stays so.                           *)
LEMMA EndsStay ==
    ASSUME SagaTypeOK, [Next]_vars, NEW q \in Requests, at[q] \in {"failing", "done"}
    PROVE  at'[q] \in {"failing", "done"}
<1> DEFINE P == at'[q] \in {"failing", "done"}
<1>0. at \in [Requests -> Steps]
  BY DEF SagaTypeOK
<1>1. ASSUME NEW r \in Requests, RequestStep(r)
      PROVE  P
  <2>1. \E step : Goto(r, step) /\ (r = q => step \in {"failing", "done"})
    <3>1. CASE LoadDraft(r) \/ ResolveFunds(r) \/ OpenSaga(r) \/ InsertSaga(r) \/ LockInvoice(r)
      BY <3>1 DEF LoadDraft, ResolveFunds, OpenSaga, InsertSaga, LockInvoice, Abort, Take, Reject
    <3>2. CASE MintNumber(r) \/ MintFirst(r) \/ RedeemVoucher(r) \/ PersistInvoice(r)
      BY <3>2 DEF MintNumber, MintFirst, RedeemVoucher, PersistInvoice, Abort, Take
    <3>3. CASE DeductStock(r) \/ PostJournal(r) \/ PostPayments(r) \/ Commit(r)
      BY <3>3 DEF DeductStock, PostJournal, PostPayments, Commit, Take
    <3>4. CASE FinishReplay(r) \/ RecordFailure(r)
      BY <3>4 DEF FinishReplay, RecordFailure
    <3> QED
      BY <1>1, <3>1, <3>2, <3>3, <3>4 DEF RequestStep
  <2> QED
    BY <1>0, <2>1 DEF Goto
<1>2. ASSUME NEW r \in Requests, Failure(r)
      PROVE  P
  <2>1. \E step \in {"failing", "done"} : Goto(r, step)
    BY <1>2 DEF Failure, StepFails, CommitLost, ReplayFails, RecorderFails, Crash, Abort
  <2> QED
    BY <1>0, <2>1 DEF Goto
<1>3. CASE (\E i \in Invoices : EditStep(i)) \/ UNCHANGED vars
  BY <1>3 DEF EditStep, BeginEdit, DiffForSave, SaveEdit, vars
<1> QED
  BY <1>1, <1>2, <1>3 DEF Next

(* What the saga rows say stays true.                                      *)
LEMMA RowsTrueStep ==
    ASSUME SagaInv, RowsTrue, [Next]_vars
    PROVE  RowsTrue'
<1>0. SagaTypeOK /\ RowsStay /\ saga \in [Requests -> {"none", "COMPLETED", "FAILED"}]
  BY RowsStayStep DEF SagaInv, SagaTypeOK
<1>1. ASSUME NEW q \in Requests
      PROVE  RowTrue(q)'
  <2>0. RowTrue(q)
    BY DEF RowsTrue
  <2>1. saga'[q] = "COMPLETED" => q \in sold'
    <3>1. CASE UNCHANGED <<saga, overtaken>>
      BY <1>0, <2>0, <3>1 DEF RowTrue, RowsStay
    <3>2. ASSUME NEW r \in Requests, Install(r)
          PROVE  saga'[q] = "COMPLETED" => q \in sold'
      BY <1>0, <2>0, <3>2 DEF RowTrue, Install
    <3>3. ASSUME NEW r \in Requests, RecordFailure(r)
          PROVE  saga'[q] = "COMPLETED" => q \in sold'
      <4>1. \E target : saga' = [saga EXCEPT ![target] = "FAILED"]
        BY <3>3 DEF RecordFailure
      <4> QED
        BY <1>0, <2>0, <4>1 DEF RowTrue, RowsStay
    <3> QED
      BY <3>1, <3>2, <3>3, SagaRowsChange
  <2>2. saga'[q] = "FAILED" => at'[q] \in {"failing", "done"}
    <3>1. CASE saga[q] = "FAILED"
      BY <1>0, <2>0, <3>1, EndsStay DEF RowTrue
    <3>2. ASSUME saga[q] # "FAILED", NEW r \in Requests, RecordFailure(r), saga'[q] = "FAILED"
          PROVE  at'[q] \in {"failing", "done"}
      <4>1. q = (IF sagaOf[r] = None THEN r ELSE sagaOf[r])
        BY <1>0, <3>2 DEF RecordFailure
      <4>2. CASE q = r
        BY <1>0, <3>2, <4>2 DEF RecordFailure, Goto, SagaTypeOK
      <4>3. CASE q # r
        <5>1. q \in sold
          BY <4>1, <4>3 DEF RowsTrue, RowTrue
        <5>2. at[q] \in {"failing", "done"}
          BY <5>1 DEF SagaInv, AllSecured, Secured
        <5> QED
          BY <1>0, <5>2, EndsStay
      <4> QED
        BY <4>2, <4>3
    <3>3. ASSUME saga[q] # "FAILED", NEW r \in Requests, Install(r)
          PROVE  saga'[q] # "FAILED"
      BY <1>0, <3>3 DEF Install
    <3> QED
      BY <3>1, <3>2, <3>3, SagaRowsChange
  <2>3. \A p \in Completed(KeyOf[q]) : p \in Requests /\ KeyOf[p] = KeyOf[q] /\ p \in sold /\ p \in sold'
    BY <1>0 DEF Completed, RowsTrue, RowTrue, RowsStay
  <2>4. sagaOf'[q] \in Requests =>
           /\ KeyOf[sagaOf'[q]] = KeyOf[q]
           /\ sagaOf'[q] = q \/ sagaOf'[q] \in sold'
    BY <1>0, <2>0, <2>3, SagaOfChanges DEF RowTrue, RowsStay
  <2>5. at'[q] = "replayed" => sagaOf'[q] \in sold'
    BY <1>0, <2>0, <2>3, SagaOfChanges DEF RowTrue, RowsStay
  <2>6. q \in overtaken' => FailedFor(KeyOf[q])'
    <3>1. CASE q \in overtaken
      BY <1>0, <2>0, <3>1, FailuresStay DEF RowTrue
    <3>2. ASSUME q \notin overtaken, NEW r \in Requests, RecordFailure(r), q \in overtaken'
          PROVE  FailedFor(KeyOf[q])'
      <4> DEFINE target == IF sagaOf[r] = None THEN r ELSE sagaOf[r]
      <4>1. q \in Begun(KeyOf[r]) /\ saga' = [saga EXCEPT ![target] = "FAILED"]
        BY <3>2 DEF RecordFailure
      <4>2. KeyOf[q] = KeyOf[r]
        BY <4>1 DEF Begun
      <4>3. target \in Requests /\ KeyOf[target] = KeyOf[r]
        BY <1>0 DEF RowsTrue, RowTrue, SagaTypeOK
      <4>4. saga'[target] = "FAILED"
        BY <1>0, <4>1, <4>3
      <4> QED
        BY <4>2, <4>3, <4>4 DEF FailedFor
    <3>3. ASSUME q \notin overtaken, NEW r \in Requests, Install(r)
          PROVE  q \notin overtaken'
      BY <3>3 DEF Install
    <3> QED
      BY <3>1, <3>2, <3>3, SagaRowsChange
  <2> QED
    BY <2>1, <2>2, <2>4, <2>5, <2>6 DEF RowTrue
<1> QED
  BY <1>1 DEF RowsTrue

-----------------------------------------------------------------------------
(* What was true of an answer is true after a step of somebody else.       *)
LEMMA AnswerKept ==
    ASSUME SagaTypeOK, AnswersTrue, RowsStay, NEW q \in Requests,
           answer'[q] = answer[q], told'[q] = told[q], at'[q] = at[q],
           q \in late' <=> q \in late, q \in sold' => q \in sold
    PROVE  AnswerTrue(q)'
<1>0. AnswerTrue(q)
  BY DEF AnswersTrue
<1>1. /\ FailedFor(KeyOf[q]) => FailedFor(KeyOf[q])'
      /\ Completed(KeyOf[q]) # {} \/ FailedFor(KeyOf[q]) => (Completed(KeyOf[q]) # {})' \/ FailedFor(KeyOf[q])'
  BY FailuresStay
<1>2. answer'[q] = "ok" => \E p \in sold' : InvoiceOf[p] = InvoiceOf[q] /\ told'[q] = number'[p]
  BY <1>0 DEF AnswerTrue, RowsStay
<1>3. answer'[q] \in {"rejected", "conflict"} => q \notin sold' /\ at'[q] \in {"failing", "done"}
  BY <1>0 DEF AnswerTrue
<1>4. q \in late' =>
          /\ at'[q] # "load"
          /\ at'[q] \in {"funds", "open"} => (Completed(KeyOf[q]) # {})' \/ FailedFor(KeyOf[q])'
          /\ at'[q] \in InTransaction => FailedFor(KeyOf[q])'
          /\ answer'[q] = "rejected" => VoucherOf[q] \in used'
          /\ answer'[q] = "conflict" => FailedFor(KeyOf[q])'
  BY <1>0, <1>1 DEF AnswerTrue, RowsStay
<1> QED
  BY <1>2, <1>3, <1>4 DEF AnswerTrue

(* So is what r itself was told, by a step that goes on with its           *)
(* transaction or ends without a new answer or with one that promises      *)
(* nothing.                                                                *)
LEMMA OwnAnswerKept ==
    ASSUME SagaTypeOK, AnswersTrue, RowsStay,
           NEW r \in Requests, NEW step, Goto(r, step),
           \/ step \in InTransaction /\ at[r] \in InTransaction
           \/ step \in {"failing", "done"},
           \/ UNCHANGED <<answer, told>>
           \/ \E kind \in {"failed", "lost"} : answer' = [answer EXCEPT ![r] = kind],
           UNCHANGED late, r \in sold' => r \in sold \/ answer'[r] \in {"failed", "lost"}
    PROVE  AnswerTrue(r)'
<1>0. AnswerTrue(r) /\ at'[r] = step
  BY DEF AnswersTrue, Goto, SagaTypeOK
<1>1. /\ FailedFor(KeyOf[r]) => FailedFor(KeyOf[r])'
      /\ InTransaction \cap {"failing", "done", "load", "funds", "open"} = {}
  BY FailuresStay DEF InTransaction
<1>a. answer'[r] \in {"failed", "lost"} \/ (answer'[r] = answer[r] /\ told'[r] = told[r])
  BY DEF SagaTypeOK
<1>2. answer'[r] = "ok" => \E p \in sold' : InvoiceOf[p] = InvoiceOf[r] /\ told'[r] = number'[p]
  BY <1>0, <1>a DEF AnswerTrue, RowsStay
<1>3. answer'[r] \in {"rejected", "conflict"} => r \notin sold' /\ at'[r] \in {"failing", "done"}
  BY <1>0, <1>1, <1>a DEF AnswerTrue
<1>4. r \in late' =>
          /\ at'[r] # "load"
          /\ at'[r] \in {"funds", "open"} => (Completed(KeyOf[r]) # {})' \/ FailedFor(KeyOf[r])'
          /\ at'[r] \in InTransaction => FailedFor(KeyOf[r])'
          /\ answer'[r] = "rejected" => VoucherOf[r] \in used'
          /\ answer'[r] = "conflict" => FailedFor(KeyOf[r])'
  BY <1>0, <1>1, <1>a DEF AnswerTrue, RowsStay
<1> QED
  BY <1>2, <1>3, <1>4 DEF AnswerTrue

(* In preflight.                                                           *)
LEMMA LoadAnswer ==
    ASSUME SagaInv, AnswersTrue, RowsStay, NEW r \in Requests, LoadDraft(r)
    PROVE  AnswerTrue(r)'
<1> DEFINE k == KeyOf[r]
<1>0. /\ AnswerTrue(r) /\ at[r] = "load" /\ r \notin late /\ r \notin sold /\ r \notin sold'
      /\ answer[r] \notin {"rejected", "conflict"} /\ answer \in [Requests -> {"none", "ok", "rejected", "conflict", "failed", "lost"}]
  BY DEF AnswersTrue, AnswerTrue, LoadDraft, SagaInv, SagaTypeOK, AllSecured, Secured, committed
<1>1. UNCHANGED <<saga, sold, told, number>>
  BY DEF LoadDraft, committed, context
<1>2. Completed(k)' = Completed(k)
  BY <1>1 DEF Completed
<1>3. r \in late' => Completed(k) # {}
  BY <1>0 DEF LoadDraft
<1>4. CASE Goto(r, "funds") /\ UNCHANGED answer
  <2>1. at'[r] = "funds" /\ "funds" \notin InTransaction
    BY <1>4 DEF Goto, SagaInv, SagaTypeOK, InTransaction
  <2> QED
    BY <1>0, <1>1, <1>2, <1>3, <1>4, <2>1 DEF AnswerTrue
<1>5. CASE Completed(k) = {} /\ Reject(r)
  <2>1. at'[r] = "done" /\ answer'[r] = "rejected"
    BY <1>0, <1>5 DEF Reject, Goto, SagaInv, SagaTypeOK
  <2> QED
    BY <1>0, <1>3, <1>5, <2>1 DEF AnswerTrue
<1> QED
  BY <1>4, <1>5 DEF LoadDraft

(* resolve-funds rejects only a request whose voucher is used.             *)
LEMMA FundsAnswer ==
    ASSUME SagaInv, AnswersTrue, RowsStay, NEW r \in Requests, ResolveFunds(r)
    PROVE  AnswerTrue(r)'
<1> DEFINE k == KeyOf[r]
<1>0. /\ AnswerTrue(r) /\ at[r] = "funds" /\ r \notin sold'
      /\ answer[r] \notin {"rejected", "conflict"} /\ answer \in [Requests -> {"none", "ok", "rejected", "conflict", "failed", "lost"}]
  BY DEF AnswersTrue, AnswerTrue, ResolveFunds, SagaInv, SagaTypeOK, AllSecured, Secured, committed
<1>1. UNCHANGED <<saga, used, sold, told, number, late>>
  BY DEF ResolveFunds, committed, context
<1>2. Completed(k)' = Completed(k) /\ FailedFor(k)' = FailedFor(k)
  BY <1>1 DEF Completed, FailedFor
<1>3. r \in late => Completed(k) # {} \/ FailedFor(k)
  BY <1>0 DEF AnswerTrue
<1>4. CASE Goto(r, "open") /\ UNCHANGED answer
  <2>1. at'[r] = "open" /\ "open" \notin InTransaction
    BY <1>4 DEF Goto, SagaInv, SagaTypeOK, InTransaction
  <2> QED
    BY <1>0, <1>1, <1>2, <1>3, <1>4, <2>1 DEF AnswerTrue
<1>5. CASE VoucherOf[r] \in used /\ Reject(r)
  <2>1. at'[r] = "done" /\ answer'[r] = "rejected" /\ "done" \notin InTransaction
    BY <1>0, <1>5 DEF Reject, Goto, SagaInv, SagaTypeOK, InTransaction
  <2> QED
    BY <1>0, <1>1, <1>5, <2>1 DEF AnswerTrue
<1> QED
  BY <1>4, <1>5 DEF ResolveFunds

(* Opening answers nobody: it replays a completed row or goes on.          *)
LEMMA OpenAnswer ==
    ASSUME SagaInv, RowsTrue, AnswersTrue, RowsStay, NEW r \in Requests, OpenSaga(r)
    PROVE  AnswerTrue(r)'
<1> DEFINE k == KeyOf[r]
<1>0. /\ AnswerTrue(r) /\ at[r] = "open" /\ r \notin sold'
      /\ answer[r] \notin {"rejected", "conflict"}
  BY DEF AnswersTrue, AnswerTrue, OpenSaga, SagaInv, SagaTypeOK, AllSecured, Secured, committed
<1>1. UNCHANGED <<saga, used, sold, answer, told, number, late>>
  BY DEF OpenSaga, committed, reply
<1>2. FailedFor(k)' = FailedFor(k)
  BY <1>1 DEF FailedFor
<1>3. r \in late => Completed(k) # {} \/ FailedFor(k)
  BY <1>0 DEF AnswerTrue
<1>4. CASE Goto(r, "replayed")
  <2>1. at'[r] = "replayed" /\ "replayed" \notin InTransaction
    BY <1>4 DEF Goto, SagaInv, SagaTypeOK, InTransaction
  <2> QED
    BY <1>0, <1>1, <1>2, <2>1 DEF AnswerTrue
<1>5. CASE Completed(k) \ overtaken = {} /\ Goto(r, "insert")
  <2>1. at'[r] = "insert"
    BY <1>5 DEF Goto, SagaInv, SagaTypeOK
  <2>2. ASSUME Completed(k) # {} PROVE FailedFor(k)
    <3>1. PICK q \in Completed(k) : q \in overtaken
      BY <1>5, <2>2
    <3>2. q \in Requests /\ KeyOf[q] = k
      BY DEF Completed
    <3> QED
      BY <3>1, <3>2 DEF RowsTrue, RowTrue
  <2> QED
    BY <1>0, <1>1, <1>2, <1>3, <2>1, <2>2 DEF AnswerTrue
<1> QED
  BY <1>4, <1>5 DEF OpenSaga

(* The unique index refuses only a request that has sold nothing.          *)
LEMMA InsertAnswer ==
    ASSUME SagaInv, AnswersTrue, RowsStay, NEW r \in Requests, InsertSaga(r)
    PROVE  AnswerTrue(r)'
<1> DEFINE k == KeyOf[r]
<1>0. /\ AnswerTrue(r) /\ at[r] = "insert" /\ r \notin sold /\ "insert" \in InTransaction /\ "lock" \in InTransaction
      /\ answer[r] \notin {"rejected", "conflict"} /\ answer \in [Requests -> {"none", "ok", "rejected", "conflict", "failed", "lost"}]
  BY DEF AnswersTrue, AnswerTrue, InsertSaga, SagaInv, SagaTypeOK, AllSecured, Secured, InTransaction
<1>1. CASE Goto(r, "lock") /\ UNCHANGED <<committed, reply>>
  BY <1>0, <1>1, OwnAnswerKept DEF SagaInv, committed, reply
<1>2. CASE Abort(r, "conflict")
  <2>1. at'[r] = "failing" /\ answer'[r] = "conflict" /\ "failing" \notin InTransaction
    BY <1>0, <1>2 DEF Abort, Goto, SagaInv, SagaTypeOK, InTransaction
  <2>2. UNCHANGED <<saga, sold, late>>
    BY <1>2 DEF Abort, committed
  <2>3. FailedFor(k)' = FailedFor(k)
    BY <2>2 DEF FailedFor
  <2> QED
    BY <1>0, <2>1, <2>2, <2>3 DEF AnswerTrue
<1> QED
  BY <1>1, <1>2 DEF InsertSaga, Take

(* In the transaction.                                                     *)
LEMMA TransactionAnswer ==
    ASSUME SagaInv, AnswersTrue, RowsStay, NEW r \in Requests,
           \/ LockInvoice(r) \/ MintNumber(r) \/ MintFirst(r) \/ RedeemVoucher(r)
           \/ PersistInvoice(r) \/ DeductStock(r) \/ PostJournal(r) \/ PostPayments(r)
    PROVE  AnswerTrue(r)'
<1>0. SagaTypeOK /\ UNCHANGED <<sold, late>>
  BY DEF SagaInv, LockInvoice, MintNumber, MintFirst, RedeemVoucher, PersistInvoice, DeductStock,
         PostJournal, PostPayments, Abort, committed, reply
<1>1. CASE Abort(r, "failed")
  <2>1. Goto(r, "failing") /\ answer' = [answer EXCEPT ![r] = "failed"]
    BY <1>1 DEF Abort
  <2> QED
    BY <1>0, <2>1, OwnAnswerKept
<1>2. CASE ~Abort(r, "failed")
  <2>1. UNCHANGED <<answer, told>>
    BY <1>2 DEF LockInvoice, MintNumber, MintFirst, RedeemVoucher, PersistInvoice, DeductStock,
                PostJournal, PostPayments, reply
  <2>2. at[r] \in InTransaction
    BY DEF LockInvoice, MintNumber, MintFirst, RedeemVoucher, PersistInvoice, DeductStock,
           PostJournal, PostPayments, InTransaction
  <2>3. \E step \in InTransaction : Goto(r, step)
    BY <1>2 DEF LockInvoice, MintNumber, MintFirst, RedeemVoucher, PersistInvoice, DeductStock,
                PostJournal, PostPayments, InTransaction, Take
  <2> QED
    BY <1>0, <2>1, <2>2, <2>3, OwnAnswerKept
<1> QED
  BY <1>1, <1>2

(* At the end of it.                                                       *)
LEMMA CommitAnswer ==
    ASSUME SagaInv, AnswersTrue, RowsStay, NEW r \in Requests, Commit(r)
    PROVE  AnswerTrue(r)'
<1>0. SagaTypeOK /\ AnswerTrue(r) /\ at[r] = "commit" /\ "commit" \in InTransaction
  BY DEF SagaInv, AnswersTrue, Commit, InTransaction
<1>1. at'[r] = "done" /\ answer'[r] = "ok" /\ told'[r] = number'[r] /\ r \in sold' /\ UNCHANGED late
  BY <1>0 DEF Commit, Goto, SagaTypeOK, Install, context
<1>2. "done" \notin InTransaction
  BY DEF InTransaction
<1> QED
  BY <1>0, <1>1, <1>2, FailuresStay DEF AnswerTrue

(* A replayed answer names the sale of the key, hence of the invoice.      *)
LEMMA ReplayAnswer ==
    ASSUME \A p, q \in Requests : KeyOf[p] = KeyOf[q] => InvoiceOf[p] = InvoiceOf[q],
           SagaInv, RowsTrue, AnswersTrue, RowsStay, NEW r \in Requests, FinishReplay(r)
    PROVE  AnswerTrue(r)'
<1>0. SagaTypeOK /\ AnswerTrue(r) /\ at[r] = "replayed" /\ RowTrue(r)
  BY DEF SagaInv, AnswersTrue, RowsTrue, FinishReplay
<1>1. /\ at'[r] = "done" /\ answer'[r] = "ok" /\ told'[r] = number[sagaOf[r]]
      /\ UNCHANGED <<late, number, sold>>
  BY <1>0 DEF FinishReplay, Goto, SagaTypeOK, committed, context
<1>2. sagaOf[r] \in sold /\ sagaOf[r] \in Requests /\ InvoiceOf[sagaOf[r]] = InvoiceOf[r]
  BY <1>0 DEF RowTrue, SagaTypeOK
<1>3. "done" \notin InTransaction
  BY DEF InTransaction
<1> QED
  BY <1>0, <1>1, <1>2, <1>3 DEF AnswerTrue

(* A failure is answered as one, or its answer is lost.                    *)
LEMMA EndAnswer ==
    ASSUME SagaInv, AnswersTrue, RowsStay, NEW r \in Requests, RecordFailure(r) \/ Failure(r)
    PROVE  AnswerTrue(r)'
<1>0. SagaTypeOK /\ UNCHANGED late
  BY DEF SagaInv, RecordFailure, Failure, StepFails, CommitLost, ReplayFails, RecorderFails, Crash,
         Abort, reply
<1>1. \E step \in {"failing", "done"} : Goto(r, step)
  BY DEF RecordFailure, Failure, StepFails, CommitLost, ReplayFails, RecorderFails, Crash, Abort
<1>2. CASE RecordFailure(r) \/ RecorderFails(r)
  <2>1. UNCHANGED <<answer, told, sold>>
    BY <1>2 DEF RecordFailure, RecorderFails, reply, committed
  <2> QED
    BY <1>0, <1>1, <2>1, OwnAnswerKept
<1>3. CASE StepFails(r) \/ CommitLost(r) \/ ReplayFails(r) \/ Crash(r)
  <2>1. \E kind \in {"failed", "lost"} : answer' = [answer EXCEPT ![r] = kind]
    BY <1>3 DEF StepFails, CommitLost, ReplayFails, Crash, Abort
  <2>2. answer'[r] \in {"failed", "lost"}
    BY <1>0, <2>1 DEF SagaTypeOK
  <2> QED
    BY <1>0, <1>1, <2>1, <2>2, OwnAnswerKept
<1> QED
  BY <1>2, <1>3 DEF Failure

(* A step of r tells nobody else anything.                                 *)
LEMMA OthersAnswers ==
    ASSUME SagaInv, AnswersTrue, RowsStay, NEW r \in Requests, RequestStep(r) \/ Failure(r),
           NEW q \in Requests \ {r}
    PROVE  AnswerTrue(q)'
<1>0. SagaTypeOK
  BY DEF SagaInv
<1>1. (q \in sold' => q \in sold) /\ (q \in late' <=> q \in late)
  <2>1. CASE RequestStep(r) /\ ~Commit(r)
    BY <2>1
    DEF RequestStep, LoadDraft, ResolveFunds, OpenSaga, InsertSaga, LockInvoice, MintNumber,
        MintFirst, RedeemVoucher, PersistInvoice, DeductStock, PostJournal, PostPayments,
        FinishReplay, RecordFailure, Abort, committed, reply
  <2>2. CASE Failure(r) /\ ~CommitLost(r)
    BY <2>2 DEF Failure, StepFails, ReplayFails, RecorderFails, Crash, Abort, committed, reply
  <2>3. CASE Commit(r) \/ CommitLost(r)
    BY <2>3 DEF Commit, CommitLost, Install
  <2> QED
    BY <2>1, <2>2, <2>3
<1>2. \E step : Goto(r, step)
  <2>1. CASE RequestStep(r)
    BY <2>1
    DEF RequestStep, LoadDraft, ResolveFunds, OpenSaga, InsertSaga, LockInvoice, MintNumber,
        MintFirst, RedeemVoucher, PersistInvoice, DeductStock, PostJournal, PostPayments, Commit,
        FinishReplay, RecordFailure, Abort, Take, Reject
  <2>2. CASE Failure(r)
    BY <2>2 DEF Failure, StepFails, CommitLost, ReplayFails, RecorderFails, Crash, Abort
  <2> QED
    BY <2>1, <2>2
<1>3. answer'[q] = answer[q] /\ told'[q] = told[q]
  <2>1. CASE RequestStep(r)
    BY <1>0, <2>1
    DEF RequestStep, LoadDraft, ResolveFunds, OpenSaga, InsertSaga, LockInvoice, MintNumber,
        MintFirst, RedeemVoucher, PersistInvoice, DeductStock, PostJournal, PostPayments, Commit,
        FinishReplay, RecordFailure, Abort, Reject, SagaTypeOK, reply
  <2>2. CASE Failure(r)
    BY <1>0, <2>2 DEF Failure, StepFails, CommitLost, ReplayFails, RecorderFails, Crash, Abort,
                      SagaTypeOK, reply
  <2> QED
    BY <2>1, <2>2
<1>4. at'[q] = at[q]
  BY <1>0, <1>2 DEF Goto, SagaTypeOK
<1> QED
  BY <1>0, <1>1, <1>3, <1>4, AnswerKept

(* Every step keeps all answers true.                                      *)
LEMMA AnswersTrueStep ==
    ASSUME \A p, q \in Requests : KeyOf[p] = KeyOf[q] => InvoiceOf[p] = InvoiceOf[q],
           SagaInv, RowsTrue, AnswersTrue, [Next]_vars
    PROVE  AnswersTrue'
<1>0. RowsStay
  BY RowsStayStep
<1>1. ASSUME NEW r \in Requests, RequestStep(r) \/ Failure(r)
      PROVE  AnswersTrue'
  <2>1. AnswerTrue(r)'
    BY <1>0, <1>1, LoadAnswer, FundsAnswer, OpenAnswer, InsertAnswer, TransactionAnswer, CommitAnswer,
       ReplayAnswer, EndAnswer DEF RequestStep
  <2> QED
    BY <1>0, <1>1, <2>1, OthersAnswers DEF AnswersTrue
<1>2. CASE (\E i \in Invoices : EditStep(i)) \/ UNCHANGED vars
  <2>1. UNCHANGED <<answer, told, at, late, sold>>
    BY <1>2 DEF EditStep, BeginEdit, DiffForSave, SaveEdit, vars, reply, committed
  <2> QED
    BY <1>0, <2>1, AnswerKept DEF AnswersTrue, SagaInv
<1> QED
  BY <1>1, <1>2 DEF Next

(* Where a key names one invoice, a client told "ok" was told the number   *)
(* under which its invoice is sold, one refused did not sell it, and a key *)
(* that had completed is refused in the two cases the property names only, *)
(* whatever is resent, lost, recorded or edited in between.                *)
THEOREM AnswersAreTrue ==
    ASSUME \A p, q \in Requests : KeyOf[p] = KeyOf[q] => InvoiceOf[p] = InvoiceOf[q]
    PROVE  Spec => []AnswerIsTrue
<1> DEFINE Inv == RowsTrue /\ AnswersTrue
<1>1. Init => Inv
  BY SagaAssumption DEF SagaAssumption, Init, RowsTrue, RowTrue, AnswersTrue, AnswerTrue
<1>2. SagaInv /\ Inv /\ [Next]_vars => Inv'
  BY RowsTrueStep, AnswersTrueStep
<1>3. SagaInv /\ Inv => AnswerIsTrue
  BY DEF AnswerIsTrue, AnswersTrue, AnswerTrue, FailedFor
<1> QED
  BY <1>1, <1>2, <1>3, SagaInvariant, PTL DEF Spec

-----------------------------------------------------------------------------
\* What the database's tables give: rows of different kinds are different rows,
\* and invoices that share stock are of one branch.  Of tills nothing is assumed.
RowsApart ==
    /\ None \notin Rows
    /\ Keys \cap (Invoices \cup Counters \cup Vouchers \cup Cards \cup Items \cup Tills) = {}
    /\ Invoices \cap (Counters \cup Vouchers \cup Cards \cup Items \cup Tills) = {}
    /\ Counters \cap (Vouchers \cup Cards \cup Items \cup Tills) = {}
    /\ Vouchers \cap (Cards \cup Items \cup Tills) = {}
    /\ Cards \cap (Items \cup Tills) = {}
    /\ Items \cap Tills = {}
    /\ \A i, j \in Invoices : \A k \in DOMAIN LinesOf[i], l \in DOMAIN LinesOf[j] :
          LinesOf[i][k] = LinesOf[j][l] => CounterOf[i] = CounterOf[j]

AfterInsert == {"lock"} \cup AfterLock

\* A stock row of r's invoice; a till r's payments so far have gone to.
LineOf(r, x) == \E k \in DOMAIN LinesOf[InvoiceOf[r]] : LinesOf[InvoiceOf[r]][k] = x
Raised(r, x) ==
    \E k \in 1 .. Len(PaymentsOf[InvoiceOf[r]]) - Len(todo[r]) : PaymentsOf[InvoiceOf[r]][k] = x

\* The rows a request can have locked at its step.
MayHold(r, x) ==
    LET i == InvoiceOf[r] IN
    \/ x = KeyOf[r] /\ at[r] \in AfterInsert
    \/ x = i /\ at[r] \in AfterLock
    \/ x = CounterOf[i] /\ at[r] \in AfterMint
    \/ x = VoucherOf[r] /\ at[r] \in AfterVoucher
    \/ x = CardOf[i] /\ at[r] \in AfterPersist
    \/ LineOf(r, x) /\ at[r] \in AfterPersist
    \/ x = JournalOf[i] /\ at[r] \in AfterJournal
    \/ Raised(r, x) /\ at[r] \in AfterJournal

\* Its locks are of these rows, and in deduct-stock it has lines left to do.
LocksKnown(r) ==
    /\ \A x \in Rows : holder[x] = r => MayHold(r, x)
    /\ at[r] = "stock" => \A j \in 1 .. Len(todo[r]) : LineOf(r, todo[r][j])

AllLocksKnown == \A r \in Requests : LocksKnown(r)

(* A step of r locks nothing for others.                                   *)
LEMMA OthersLocks ==
    ASSUME SagaTypeOK, AllLocksKnown, NEW r \in Requests, NEW q \in Requests \ {r},
           NEW step, Goto(r, step),
           UNCHANGED holder \/ Unlock(r) \/ \E x : Take(r, x, step),
           todo'[q] = todo[q]
    PROVE  LocksKnown(q)'
<1>0. LocksKnown(q) /\ at'[q] = at[q] /\ q # None
  BY SagaAssumption DEF SagaAssumption, AllLocksKnown, Goto, SagaTypeOK
<1>1. \A x \in Rows : holder'[x] = q => holder[x] = q
  <2>1. CASE UNCHANGED holder
    BY <2>1
  <2>2. CASE Unlock(r)
    BY <1>0, <2>2 DEF Unlock
  <2>3. CASE \E x : Take(r, x, step)
    BY <2>3 DEF Take, SagaTypeOK
  <2> QED
    BY <2>1, <2>2, <2>3
<1>2. ASSUME NEW x \in Rows PROVE MayHold(q, x) => MayHold(q, x)'
  BY <1>0 DEF MayHold, Raised
<1> QED
  BY <1>0, <1>1, <1>2 DEF LocksKnown

(* r itself goes on, with one more row or none.                            *)
LEMMA OwnLocks ==
    ASSUME SagaTypeOK, AllLocksKnown, NEW r \in Requests, NEW step, Goto(r, step),
           UNCHANGED holder \/ \E x : Take(r, x, step) /\ MayHold(r, x)',
           \A x \in Rows : MayHold(r, x) => MayHold(r, x)',
           step = "stock" => \A j \in 1 .. Len(todo'[r]) : LineOf(r, todo'[r][j]),
           \A q \in Requests \ {r} : todo'[q] = todo[q]
    PROVE  AllLocksKnown'
<1>0. at'[r] = step /\ LocksKnown(r)
  BY DEF Goto, SagaTypeOK, AllLocksKnown
<1>1. \A x \in Rows : holder'[x] = r => holder[x] = r \/ MayHold(r, x)'
  <2>1. CASE UNCHANGED holder
    BY <2>1
  <2>2. CASE \E x : Take(r, x, step) /\ MayHold(r, x)'
    BY <2>2 DEF Take, SagaTypeOK
  <2> QED
    BY <2>1, <2>2
<1>2. LocksKnown(r)'
  BY <1>0, <1>1 DEF LocksKnown
<1>3. \A q \in Requests \ {r} : LocksKnown(q)'
  BY OthersLocks
<1> QED
  BY <1>2, <1>3 DEF AllLocksKnown

(* r's transaction is over, or has not begun.                              *)
LEMMA NoLocks ==
    ASSUME SagaTypeOK, AllLocksKnown, NEW r \in Requests, NEW step, Goto(r, step),
           step \notin AfterInsert,
           Unlock(r) \/ (UNCHANGED holder /\ at[r] \notin AfterInsert),
           UNCHANGED todo
    PROVE  AllLocksKnown'
<1>0. at'[r] = step /\ LocksKnown(r) /\ r # None
  BY SagaAssumption DEF SagaAssumption, Goto, SagaTypeOK, AllLocksKnown
<1>1. \A x \in Rows : holder'[x] # r
  <2>1. CASE Unlock(r)
    BY <1>0, <2>1 DEF Unlock
  <2>2. CASE UNCHANGED holder /\ at[r] \notin AfterInsert
    BY <1>0, <2>2
    DEF LocksKnown, MayHold, AfterInsert, AfterLock, AfterMint, AfterVoucher, AfterPersist, AfterJournal
  <2> QED
    BY <2>1, <2>2
<1>2. LocksKnown(r)'
  BY <1>0, <1>1 DEF LocksKnown, AfterInsert, AfterLock
<1>3. \A q \in Requests \ {r} : LocksKnown(q)'
  BY OthersLocks
<1> QED
  BY <1>2, <1>3 DEF AllLocksKnown

(* The rows a request may have locked by now it may have locked later.     *)
LEMMA MayHoldStays ==
    ASSUME SagaTypeOK, NEW r \in Requests, NEW step, Goto(r, step), at[r] \notin AfterJournal,
           NEW before \in {"insert", "lock", "mint", "first", "voucher", "persist", "stock", "journal"},
           at[r] = before,
           <<before, step>> \in {<<"insert", "lock">>, <<"lock", "mint">>, <<"mint", "first">>,
                                 <<"mint", "voucher">>, <<"first", "voucher">>, <<"voucher", "persist">>,
                                 <<"persist", "stock">>, <<"stock", "stock">>, <<"stock", "journal">>,
                                 <<"journal", "pay">>},
           NEW x
    PROVE  at'[r] = step /\ (MayHold(r, x) => MayHold(r, x)')
<1>1. at'[r] = step
  BY DEF Goto, SagaTypeOK
<1>2. /\ at[r] \in AfterInsert => step \in AfterInsert
      /\ at[r] \in AfterLock => step \in AfterLock
      /\ at[r] \in AfterMint => step \in AfterMint
      /\ at[r] \in AfterVoucher => step \in AfterVoucher
      /\ at[r] \in AfterPersist => step \in AfterPersist
  BY DEF AfterInsert, AfterLock, AfterMint, AfterVoucher, AfterPersist
<1> QED
  BY <1>1, <1>2 DEF MayHold

(* The steps up to the journal, one lock each.                             *)
LEMMA LockingSteps ==
    ASSUME SagaTypeOK, AllLocksKnown, NEW r \in Requests,
           \/ InsertSaga(r) \/ LockInvoice(r) \/ MintNumber(r) \/ MintFirst(r) \/ RedeemVoucher(r),
           ~ \E kind : Abort(r, kind)
    PROVE  AllLocksKnown'
<1> DEFINE i == InvoiceOf[r]
<1>0. UNCHANGED todo /\ at[r] \notin AfterJournal
  BY DEF InsertSaga, LockInvoice, MintNumber, MintFirst, RedeemVoucher, AfterJournal, context
<1>a. ASSUME NEW before \in {"insert", "lock", "mint", "first", "voucher"}, at[r] = before,
             NEW step, Goto(r, step),
             <<before, step>> \in {<<"insert", "lock">>, <<"lock", "mint">>, <<"mint", "first">>,
                                   <<"mint", "voucher">>, <<"first", "voucher">>, <<"voucher", "persist">>},
             UNCHANGED holder \/ \E x : Take(r, x, step) /\ MayHold(r, x)'
      PROVE  AllLocksKnown'
  <2>1. \A x : MayHold(r, x) => MayHold(r, x)'
    BY <1>0, <1>a, MayHoldStays
  <2>2. step # "stock"
    BY <1>a
  <2> QED
    BY <1>0, <1>a, <2>1, <2>2, OwnLocks
<1>1. CASE InsertSaga(r)
  <2>1. Take(r, KeyOf[r], "lock") /\ Goto(r, "lock") /\ at[r] = "insert"
    BY <1>1 DEF InsertSaga, Take
  <2>2. at'[r] = "lock"
    BY <2>1 DEF Goto, SagaTypeOK
  <2>3. MayHold(r, KeyOf[r])'
    BY <2>2 DEF MayHold, AfterInsert
  <2> QED
    BY <1>a, <2>1, <2>3
<1>2. CASE LockInvoice(r)
  <2>1. Take(r, i, "mint") /\ Goto(r, "mint") /\ at[r] = "lock"
    BY <1>2 DEF LockInvoice, Take
  <2>2. at'[r] = "mint"
    BY <2>1 DEF Goto, SagaTypeOK
  <2>3. MayHold(r, i)'
    BY <2>2 DEF MayHold, AfterLock
  <2> QED
    BY <1>a, <2>1, <2>3
<1>3. CASE MintNumber(r) \/ MintFirst(r)
  <2>0. at[r] \in {"mint", "first"}
    BY <1>3 DEF MintNumber, MintFirst
  <2>1. CASE Goto(r, "first") /\ UNCHANGED holder /\ at[r] = "mint"
    BY <1>a, <2>1
  <2>2. CASE Take(r, CounterOf[i], "voucher")
    <3>1. at'[r] = "voucher" /\ Goto(r, "voucher")
      BY <2>2 DEF Take, Goto, SagaTypeOK
    <3>2. MayHold(r, CounterOf[i])'
      BY <3>1 DEF MayHold, AfterMint
    <3> QED
      BY <1>a, <2>0, <2>2, <3>1, <3>2
  <2> QED
    BY <1>3, <2>1, <2>2 DEF MintNumber, MintFirst
<1>4. CASE RedeemVoucher(r)
  <2>1. CASE Goto(r, "persist") /\ UNCHANGED holder
    BY <1>a, <1>4, <2>1 DEF RedeemVoucher
  <2>2. CASE Take(r, VoucherOf[r], "persist")
    <3>1. at'[r] = "persist" /\ Goto(r, "persist") /\ at[r] = "voucher"
      BY <1>4, <2>2 DEF RedeemVoucher, Take, Goto, SagaTypeOK
    <3>2. MayHold(r, VoucherOf[r])'
      BY <3>1 DEF MayHold, AfterVoucher
    <3> QED
      BY <1>a, <2>2, <3>1, <3>2
  <2> QED
    BY <1>4, <2>1, <2>2 DEF RedeemVoucher
<1> QED
  BY <1>1, <1>2, <1>3, <1>4

(* Persisting the invoice locks its card and lists its stock rows.         *)
LEMMA PersistLocks ==
    ASSUME SagaTypeOK, AllLocksKnown, NEW r \in Requests, PersistInvoice(r),
           ~ \E kind : Abort(r, kind)
    PROVE  AllLocksKnown'
<1> DEFINE i == InvoiceOf[r]
<1>0. /\ Goto(r, "stock") /\ at'[r] = "stock" /\ at[r] = "persist" /\ todo' = [todo EXCEPT ![r] = LinesOf[i]]
      /\ UNCHANGED holder \/ Take(r, CardOf[i], "stock")
  BY DEF PersistInvoice, Take, Goto, SagaTypeOK
<1>1. todo'[r] = LinesOf[i] /\ \A q \in Requests \ {r} : todo'[q] = todo[q]
  BY <1>0 DEF SagaTypeOK
<1>2. \A x : MayHold(r, x) => MayHold(r, x)'
  BY <1>0, MayHoldStays DEF AfterJournal
<1>3. MayHold(r, CardOf[i])'
  BY <1>0 DEF MayHold, AfterPersist
<1>4. DOMAIN LinesOf[i] = 1 .. Len(LinesOf[i])
  BY RowsOfRequest
<1>5. \A j \in 1 .. Len(todo'[r]) : LineOf(r, todo'[r][j])
  BY <1>1, <1>4 DEF LineOf
<1> QED
  BY <1>0, <1>1, <1>2, <1>3, <1>5, OwnLocks

(* Each round of deduct-stock locks a stock row of the invoice.            *)
LEMMA StockLocks ==
    ASSUME SagaTypeOK, AllLocksKnown, NEW r \in Requests, DeductStock(r)
    PROVE  AllLocksKnown'
<1> DEFINE i == InvoiceOf[r]
<1>0. /\ at[r] = "stock" /\ todo[r] \in Seq(Items \cup Tills)
      /\ \A j \in 1 .. Len(todo[r]) : LineOf(r, todo[r][j])
  BY DEF DeductStock, AllLocksKnown, LocksKnown, SagaTypeOK
<1>1. CASE todo[r] = <<>>
  <2>1. Goto(r, "journal") /\ UNCHANGED <<holder, todo>>
    BY <1>1 DEF DeductStock
  <2>2. \A x : MayHold(r, x) => MayHold(r, x)'
    BY <1>0, <2>1, MayHoldStays DEF AfterJournal
  <2> QED
    BY <2>1, <2>2, OwnLocks
<1>2. CASE todo[r] # <<>>
  <2>1. /\ Take(r, Head(todo[r]), "stock") /\ Goto(r, "stock") /\ at'[r] = "stock"
        /\ todo' = [todo EXCEPT ![r] = Tail(@)]
    BY <1>2 DEF DeductStock, Take, Goto, SagaTypeOK
  <2>2. todo'[r] = Tail(todo[r]) /\ \A q \in Requests \ {r} : todo'[q] = todo[q]
    BY <2>1 DEF SagaTypeOK
  <2>3. \A x : MayHold(r, x) => MayHold(r, x)'
    BY <1>0, <2>1, MayHoldStays DEF AfterJournal
  <2>4. /\ Head(todo[r]) = todo[r][1] /\ 1 \in 1 .. Len(todo[r])
        /\ \A j \in 1 .. Len(todo'[r]) : j + 1 \in 1 .. Len(todo[r]) /\ todo'[r][j] = todo[r][j + 1]
    BY <1>0, <1>2, <2>2
  <2>a. PICK x : x = Head(todo[r])
    OBVIOUS
  <2>5. MayHold(r, x)'
    <3>1. LineOf(r, x)
      BY <1>0, <2>4, <2>a
    <3>2. at'[r] \in AfterPersist
      BY <2>1 DEF AfterPersist
    <3> QED
      BY <3>1, <3>2 DEF MayHold
  <2>6. ASSUME NEW j \in 1 .. Len(todo'[r])
        PROVE  LineOf(r, todo'[r][j])
    <3>1. j + 1 \in 1 .. Len(todo[r]) /\ todo'[r][j] = todo[r][j + 1]
      BY <2>4
    <3>2. LineOf(r, todo[r][j + 1])
      BY <1>0, <3>1
    <3> QED
      BY <3>1, <3>2
  <2> QED
    BY <2>1, <2>2, <2>3, <2>a, <2>5, <2>6, OwnLocks
<1> QED
  BY <1>1, <1>2

(* The journal entry locks its counter and lists the payments.             *)
LEMMA JournalLocks ==
    ASSUME SagaTypeOK, AllLocksKnown, NEW r \in Requests, PostJournal(r)
    PROVE  AllLocksKnown'
<1> DEFINE i == InvoiceOf[r]
<1>0. /\ Take(r, JournalOf[i], "pay") /\ Goto(r, "pay") /\ at'[r] = "pay" /\ at[r] = "journal"
      /\ \A q \in Requests \ {r} : todo'[q] = todo[q]
  BY DEF PostJournal, Take, Goto, SagaTypeOK
<1>1. \A x : MayHold(r, x) => MayHold(r, x)'
  BY <1>0, MayHoldStays DEF AfterJournal
<1>2. MayHold(r, JournalOf[i])'
  BY <1>0 DEF MayHold, AfterJournal
<1> QED
  BY <1>0, <1>1, <1>2, OwnLocks

(* Each payment locks the till it is raised in.                            *)
LEMMA PaymentLocks ==
    ASSUME SagaTypeOK, AllLocksKnown, AllTillsSecured, NEW r \in Requests, PostPayments(r)
    PROVE  AllLocksKnown'
<1> DEFINE i == InvoiceOf[r]
           n == Len(PaymentsOf[i])
<1>0. Paying(r) /\ at[r] = "pay" /\ todo[r] \in Seq(Items \cup Tills) /\ n \in Nat
  BY RowsOfRequest DEF AllTillsSecured, TillsSecured, AfterJournal, PostPayments, SagaTypeOK
<1>1. CASE todo[r] = <<>>
  <2>1. Goto(r, "commit") /\ at'[r] = "commit" /\ UNCHANGED <<holder, todo>>
    BY <1>1 DEF PostPayments, Goto, SagaTypeOK
  <2>2. \A x : MayHold(r, x) => MayHold(r, x)'
    BY <1>0, <2>1
    DEF MayHold, Raised, AfterInsert, AfterLock, AfterMint, AfterVoucher, AfterPersist, AfterJournal
  <2> QED
    BY <2>1, <2>2, OwnLocks
<1>2. CASE todo[r] # <<>>
  <2> DEFINE m == Len(todo[r])
  <2>1. /\ Take(r, Head(todo[r]), "pay") /\ Goto(r, "pay") /\ at'[r] = "pay"
        /\ todo' = [todo EXCEPT ![r] = Tail(@)]
    BY <1>2 DEF PostPayments, Take, Goto, SagaTypeOK
  <2>2. todo'[r] = Tail(todo[r]) /\ \A q \in Requests \ {r} : todo'[q] = todo[q]
    BY <2>1 DEF SagaTypeOK
  <2>3. m \in Nat /\ m >= 1 /\ Len(todo'[r]) = m - 1 /\ Head(todo[r]) = todo[r][1]
    BY <1>0, <1>2, <2>2
  <2>4. n - m >= 0 /\ todo[r][1] = PaymentsOf[i][(n - m) + 1]
    <3>1. n - m >= 0 /\ 1 \in 1 .. m
      BY <1>0, <2>3 DEF Paying
    <3> QED
      BY <1>0, <3>1 DEF Paying
  <2>5. n - Len(todo'[r]) = (n - m) + 1 /\ (n - m) + 1 \in 1 .. (n - m) + 1 /\ 1 .. n - m \subseteq 1 .. (n - m) + 1
    <3>1. n - m >= 0
      BY <2>4
    <3> HIDE DEF n, m
    <3> QED
      BY <1>0, <2>3, <3>1
  <2>a. PICK y : y = Head(todo[r])
    OBVIOUS
  <2>6. MayHold(r, y)'
    <3>1. y = PaymentsOf[i][(n - m) + 1]
      BY <2>3, <2>4, <2>a
    <3>2. \E k \in 1 .. n - Len(todo'[r]) : PaymentsOf[i][k] = y
      <4> HIDE DEF n, m
      <4> QED
        BY <2>5, <3>1
    <3>3. Raised(r, y)'
      BY <3>2 DEF Raised
    <3>4. at'[r] \in AfterJournal
      BY <2>1 DEF AfterJournal
    <3> QED
      BY <3>3, <3>4 DEF MayHold
  <2>7. ASSUME NEW x PROVE MayHold(r, x) => MayHold(r, x)'
    <3>1. (\E k \in 1 .. n - m : PaymentsOf[i][k] = x)
             => \E k \in 1 .. n - Len(todo'[r]) : PaymentsOf[i][k] = x
      <4> HIDE DEF n, m
      <4> QED
        BY <2>5
    <3>2. Raised(r, x) => Raised(r, x)'
      BY <3>1 DEF Raised
    <3>3. at'[r] = at[r]
      BY <1>0, <2>1
    <3> QED
      BY <3>2, <3>3 DEF MayHold
  <2>8. \E x : Take(r, x, "pay") /\ MayHold(r, x)'
    BY <2>1, <2>a, <2>6
  <2> QED
    BY <2>1, <2>2, <2>7, <2>8, OwnLocks
<1> QED
  BY <1>1, <1>2

-----------------------------------------------------------------------------
(* A request has only rows locked that it was to lock by its step.         *)
LEMMA AllLocksKnownStep ==
    ASSUME SagaTypeOK, AllLocksKnown, AllTillsSecured, [Next]_vars
    PROVE  AllLocksKnown'
<1>0. {"load", "funds", "open", "insert", "replayed", "failing", "done"} \cap AfterInsert = {}
  BY DEF AfterInsert, AfterLock
<1>a. ASSUME NEW r \in Requests, \E kind : Abort(r, kind)
      PROVE  AllLocksKnown'
  <2>1. Goto(r, "failing") /\ Unlock(r) /\ UNCHANGED todo
    BY <1>a DEF Abort, context
  <2> QED
    BY <1>0, <2>1, NoLocks
<1>1. ASSUME NEW r \in Requests, RequestStep(r)
      PROVE  AllLocksKnown'
  <2>1. CASE LoadDraft(r) \/ ResolveFunds(r) \/ OpenSaga(r)
    <3>1. /\ at[r] \in {"load", "funds", "open"} /\ UNCHANGED <<holder, todo>>
          /\ \E step \in {"funds", "open", "insert", "replayed", "done"} : Goto(r, step)
      BY <2>1 DEF LoadDraft, ResolveFunds, OpenSaga, Reject, context
    <3> QED
      BY <1>0, <3>1, NoLocks
  <2>2. CASE \E kind : Abort(r, kind)
    BY <1>a, <2>2
  <2>3. CASE FinishReplay(r) \/ RecordFailure(r)
    <3>1. at[r] \in {"replayed", "failing"} /\ UNCHANGED <<holder, todo>> /\ Goto(r, "done")
      BY <2>3 DEF FinishReplay, RecordFailure, context
    <3> QED
      BY <1>0, <3>1, NoLocks
  <2>4. CASE Commit(r)
    <3>1. Goto(r, "done") /\ Unlock(r) /\ UNCHANGED todo
      BY <2>4 DEF Commit, Install, context
    <3> QED
      BY <1>0, <3>1, NoLocks
  <2> QED
    BY <1>1, <2>1, <2>2, <2>3, <2>4, LockingSteps, PersistLocks, StockLocks, JournalLocks, PaymentLocks
    DEF RequestStep
<1>2. ASSUME NEW r \in Requests, Failure(r)
      PROVE  AllLocksKnown'
  <2>1. CASE StepFails(r)
    BY <1>a, <2>1 DEF StepFails
  <2>2. CASE CommitLost(r) \/ Crash(r)
    <3>1. UNCHANGED todo /\ Unlock(r) /\ \E step \in {"failing", "done"} : Goto(r, step)
      BY <2>2 DEF CommitLost, Crash, Install, context
    <3> QED
      BY <1>0, <3>1, NoLocks
  <2>3. CASE ReplayFails(r) \/ RecorderFails(r)
    <3>1. /\ at[r] \in {"replayed", "failing"} /\ UNCHANGED <<holder, todo>>
          /\ \E step \in {"failing", "done"} : Goto(r, step)
      BY <2>3 DEF ReplayFails, RecorderFails, context
    <3> QED
      BY <1>0, <3>1, NoLocks
  <2> QED
    BY <1>2, <2>1, <2>2, <2>3 DEF Failure
<1>3. CASE (\E i \in Invoices : EditStep(i)) \/ UNCHANGED vars
  <2>1. UNCHANGED <<at, todo, holder>>
    BY <1>3 DEF EditStep, BeginEdit, DiffForSave, SaveEdit, vars, committed, context
  <2> QED
    BY <2>1 DEF AllLocksKnown, LocksKnown, MayHold, Raised
<1> QED
  BY <1>1, <1>2, <1>3 DEF Next

-----------------------------------------------------------------------------
\* r waits for q.
WaitsFor(r, q) == Wants(r) \in Rows /\ holder[Wants(r)] = q /\ q # r

(* The next till to be raised is the first that is not.                    *)
LEMMA NextTill ==
    ASSUME SagaTypeOK, NEW r \in Requests, Paying(r), todo[r] # <<>>
    PROVE  LET p == PaymentsOf[InvoiceOf[r]] IN
           /\ Len(p) - Len(todo[r]) \in Nat
           /\ Len(p) - Len(todo[r]) + 1 \in DOMAIN p
           /\ Head(todo[r]) = p[Len(p) - Len(todo[r]) + 1]
           /\ Head(todo[r]) \in Tills
<1> DEFINE p == PaymentsOf[InvoiceOf[r]]
           n == Len(p)
           m == Len(todo[r])
<1>1. p \in Seq(Tills) /\ todo[r] \in Seq(Items \cup Tills)
  BY RowsOfRequest DEF SagaTypeOK
<1>2. n \in Nat /\ m \in Nat /\ m >= 1 /\ DOMAIN p = 1 .. n /\ Head(todo[r]) = todo[r][1]
  BY <1>1
<1>3. n - m >= 0 /\ \A j \in 1 .. m : todo[r][j] = p[(n - m) + j]
  BY DEF Paying
<1>4. 1 \in 1 .. m /\ n - m \in Nat /\ (n - m) + 1 \in 1 .. n
  <2>1. n - m >= 0
    BY <1>3
  <2> HIDE DEF n, m
  <2> QED
    BY <1>2, <2>1
<1>5. Head(todo[r]) = p[(n - m) + 1]
  BY <1>2, <1>3, <1>4
<1>6. p[(n - m) + 1] \in Tills
  <2>1. \A k \in 1 .. n : p[k] \in Tills
    BY <1>1
  <2> HIDE DEF n, m
  <2> QED
    BY <1>4, <2>1
<1> QED
  BY <1>2, <1>4, <1>5, <1>6

(* Who waits at a step waits for one that is past it.                      *)
LEMMA WaitsForLater ==
    ASSUME RowsApart, SagaInv, AllLocksKnown, AllTillsSecured,
           NEW r \in Requests, NEW q \in Requests, WaitsFor(r, q)
    PROVE  /\ at[r] \in {"insert", "lock", "mint", "first", "voucher", "persist", "journal", "pay"}
           /\ at[r] = "insert" => at[q] \in AfterInsert
           /\ at[r] = "lock" => at[q] \in AfterLock
           /\ at[r] \in {"mint", "first"} => at[q] \in AfterMint
           /\ at[r] = "voucher" => at[q] \in AfterVoucher
           /\ at[r] = "persist" => at[q] \in AfterPersist
           /\ at[r] \in {"journal", "pay"} => at[q] \in AfterJournal
           /\ at[r] = "pay" => Raised(q, Wants(r))
<1> DEFINE x == Wants(r)
           i == InvoiceOf[q]
<1>0. MayHold(q, x) /\ SagaTypeOK /\ x # None
  BY DEF WaitsFor, AllLocksKnown, LocksKnown, SagaInv, RowsApart
<1>1. /\ KeyOf[q] \in Keys /\ i \in Invoices /\ CounterOf[i] \in Counters /\ JournalOf[i] \in Counters
      /\ VoucherOf[q] \in Vouchers \cup {None} /\ CardOf[i] \in Cards \cup {None}
      /\ LineOf(q, x) => x \in Items
      /\ Raised(q, x) => x \in Tills
  <2>1. LineOf(q, x) => x \in Items
    BY RowsOfRequest DEF LineOf
  <2>2. ASSUME Raised(q, x) PROVE x \in Tills
    <3>1. PICK k \in 1 .. Len(PaymentsOf[i]) - Len(todo[q]) : PaymentsOf[i][k] = x
      BY <2>2 DEF Raised
    <3>2. PaymentsOf[i] \in Seq(Tills) /\ todo[q] \in Seq(Items \cup Tills)
      BY <1>0, RowsOfRequest DEF SagaTypeOK
    <3>3. Len(PaymentsOf[i]) \in Nat /\ Len(todo[q]) \in Nat
      BY <3>2
    <3>4. k \in 1 .. Len(PaymentsOf[i])
      <4> DEFINE n == Len(PaymentsOf[i])
                 m == Len(todo[q])
      <4>1. n \in Nat /\ m \in Nat /\ k \in 1 .. n - m
        BY <3>3
      <4> HIDE DEF n, m
      <4>2. k \in 1 .. n
        BY <4>1
      <4> QED
        BY <4>2 DEF n
    <3> QED
      BY <3>1, <3>2, <3>4
  <2> QED
    BY <2>1, <2>2, RowsOfRequest
<1>2. at[r] = "insert" => x \in Keys
  BY RowsOfRequest DEF Wants
<1>3. at[r] = "lock" => x \in Invoices
  BY RowsOfRequest DEF Wants
<1>4. at[r] \in {"mint", "first"} => x = CounterOf[InvoiceOf[r]] /\ x \in Counters /\ x # JournalOf[i]
  BY <1>1, RowsOfRequest, SagaAssumption DEF Wants, SagaAssumption
<1>5. at[r] = "voucher" => x \in Vouchers
  BY <1>0, RowsOfRequest DEF Wants
<1>6. at[r] = "persist" => x \in Cards
  BY <1>0, RowsOfRequest DEF Wants
<1>7. at[r] = "journal" => x = JournalOf[InvoiceOf[r]] /\ x \in Counters /\ x # CounterOf[i]
  BY <1>1, RowsOfRequest, SagaAssumption DEF Wants, SagaAssumption
<1>8. at[r] \in {"stock", "pay"} => todo[r] # <<>> /\ x = Head(todo[r])
  BY <1>0 DEF Wants
<1>9. at[r] # "stock"
  <2> SUFFICES ASSUME at[r] = "stock" PROVE FALSE
    OBVIOUS
  <2>1. LineOf(r, x)
    <3>1. todo[r] \in Seq(Items \cup Tills) /\ todo[r] # <<>> /\ x = Head(todo[r])
      BY <1>0, <1>8 DEF SagaTypeOK
    <3>2. x = todo[r][1] /\ 1 \in 1 .. Len(todo[r])
      BY <3>1
    <3> QED
      BY <3>2 DEF AllLocksKnown, LocksKnown
  <2>2. x \in Items
    BY <2>1, RowsOfRequest DEF LineOf
  <2>a. x \notin Keys /\ x \notin Invoices /\ x \notin Counters /\ x \notin Vouchers
        /\ x \notin Cards /\ x \notin Tills
    BY <2>2 DEF RowsApart
  <2>3. LineOf(q, x) /\ at[q] \in AfterPersist
    <3> HIDE DEF x, i
    <3>1. MayHold(q, x) /\ i = InvoiceOf[q] /\ KeyOf[q] \in Keys /\ i \in Invoices
          /\ CounterOf[i] \in Counters /\ JournalOf[i] \in Counters
          /\ VoucherOf[q] \in Vouchers \cup {None} /\ CardOf[i] \in Cards \cup {None}
          /\ (Raised(q, x) => x \in Tills) /\ x # None
      BY <1>0, <1>1 DEF i
    <3> QED
      BY <2>a, <3>1 DEF MayHold
  <2>4. CounterOf[InvoiceOf[r]] = CounterOf[i]
    <3>1. PICK k \in DOMAIN LinesOf[InvoiceOf[r]] : LinesOf[InvoiceOf[r]][k] = x
      BY <2>1 DEF LineOf
    <3>2. PICK l \in DOMAIN LinesOf[i] : LinesOf[i][l] = x
      BY <2>3 DEF LineOf
    <3>3. LinesOf[InvoiceOf[r]][k] = LinesOf[i][l] /\ InvoiceOf[r] \in Invoices /\ i \in Invoices
      BY <3>1, <3>2, RowsOfRequest
    <3> QED
      BY <3>3 DEF RowsApart
  <2>5. at[r] \in AfterMint /\ at[q] \in AfterMint
    BY <2>3 DEF AfterMint, AfterPersist
  <2>6. holder[CounterOf[InvoiceOf[r]]] = r /\ holder[CounterOf[i]] = q
    BY <2>5 DEF SagaInv, AllSecured, Secured
  <2> QED
    BY <2>4, <2>6 DEF WaitsFor
<1>10. at[r] = "pay" => x \in Tills
  BY <1>0, <1>8, NextTill DEF AllTillsSecured, TillsSecured, AfterJournal
<1>11. at[r] \in {"insert", "lock", "mint", "first", "voucher", "persist", "journal", "pay"}
  BY <1>0, <1>9 DEF Wants
<1>12. at[r] = "insert" => at[q] \in AfterInsert
  BY <1>0, <1>1, <1>2 DEF MayHold, RowsApart
<1>13. at[r] = "lock" => at[q] \in AfterLock
  BY <1>0, <1>1, <1>3 DEF MayHold, RowsApart
<1>14. at[r] \in {"mint", "first"} => at[q] \in AfterMint
  BY <1>0, <1>1, <1>4 DEF MayHold, RowsApart
<1>15. at[r] = "voucher" => at[q] \in AfterVoucher
  BY <1>0, <1>1, <1>5 DEF MayHold, RowsApart
<1>16. at[r] = "persist" => at[q] \in AfterPersist
  BY <1>0, <1>1, <1>6 DEF MayHold, RowsApart
<1>17. at[r] = "journal" => at[q] \in AfterJournal
  BY <1>0, <1>1, <1>7 DEF MayHold, RowsApart
<1>18. at[r] = "pay" => at[q] \in AfterJournal /\ Raised(q, x)
  BY <1>0, <1>1, <1>10 DEF MayHold, RowsApart
<1> QED
  BY <1>11, <1>12, <1>13, <1>14, <1>15, <1>16, <1>17, <1>18

(* Hence in a circle everybody is past every step but the payments: nobody *)
(* at an earlier step is waited for by one at a step still earlier.        *)
LEMMA CircleIsAtTills ==
    ASSUME RowsApart, SagaInv, AllLocksKnown, AllTillsSecured
    PROVE  CirclesOnlyAtTills
<1> SUFFICES ASSUME NEW S \in SUBSET Requests, Circle(S), NEW r \in S
             PROVE  /\ at[r] = "pay"
                    /\ \A q \in S : JournalOf[InvoiceOf[q]] = JournalOf[InvoiceOf[r]] => q = r
  BY DEF CirclesOnlyAtTills
<1>1. \A q \in S : \E p \in S : WaitsFor(q, p)
  BY DEF Circle, WaitsFor
<1>2. \A q \in S : \E p \in S : WaitsFor(p, q)
  BY DEF Circle, WaitsFor
<1>3. \A q \in S : at[q] \in {"insert", "lock", "mint", "first", "voucher", "persist", "journal", "pay"}
  BY <1>1, WaitsForLater
<1>4. \A q \in S : at[q] # "insert"
  BY <1>2, <1>3, WaitsForLater DEF AfterInsert, AfterLock, AfterMint, AfterVoucher, AfterPersist, AfterJournal
<1>5. \A q \in S : at[q] # "lock"
  BY <1>2, <1>3, <1>4, WaitsForLater DEF AfterLock, AfterMint, AfterVoucher, AfterPersist, AfterJournal
<1>6. \A q \in S : at[q] \notin {"mint", "first"}
  BY <1>2, <1>3, <1>4, <1>5, WaitsForLater DEF AfterMint, AfterVoucher, AfterPersist, AfterJournal
<1>7. \A q \in S : at[q] # "voucher"
  BY <1>2, <1>3, <1>4, <1>5, <1>6, WaitsForLater DEF AfterVoucher, AfterPersist, AfterJournal
<1>8. \A q \in S : at[q] # "persist"
  BY <1>2, <1>3, <1>4, <1>5, <1>6, <1>7, WaitsForLater DEF AfterPersist, AfterJournal
<1>9. \A q \in S : at[q] # "journal"
  BY <1>2, <1>3, <1>4, <1>5, <1>6, <1>7, <1>8, WaitsForLater DEF AfterJournal
<1>10. \A q \in S : at[q] = "pay"
  BY <1>3, <1>4, <1>5, <1>6, <1>7, <1>8, <1>9
<1>11. \A q \in S : holder[JournalOf[InvoiceOf[q]]] = q
  BY <1>10 DEF SagaInv, AllSecured, Secured, AfterJournal
<1> QED
  BY <1>10, <1>11

(* Whatever tills the payments take, and in whatever order: checkouts wait *)
(* for each other in a circle only while they pay, and only with journal   *)
(* counters of their own.  All rows before that are taken in one order,    *)
(* and stock, in line order, under the counter of its branch.              *)
THEOREM CheckoutsWaitInCirclesOnlyAtTills ==
    ASSUME RowsApart
    PROVE  Spec => []CirclesOnlyAtTills
<1> DEFINE Inv == AllTillsSecured /\ AllLocksKnown
<1>1. Init => Inv
  <2> SUFFICES ASSUME Init PROVE Inv
    OBVIOUS
  <2>1. AllTillsSecured
    BY DEF Init, AllTillsSecured, TillsSecured, AfterJournal
  <2>2. \A x \in Rows : holder[x] = None
    BY DEF Init
  <2>3. \A r \in Requests : r # None /\ at[r] = "load"
    BY SagaAssumption DEF SagaAssumption, Init
  <2>4. AllLocksKnown
    BY <2>2, <2>3 DEF AllLocksKnown, LocksKnown
  <2> QED
    BY <2>1, <2>4
<1>2. SagaInv /\ Inv /\ [Next]_vars => Inv'
  BY TillsSecuredStep, AllLocksKnownStep DEF SagaInv
<1>3. SagaInv /\ Inv => CirclesOnlyAtTills
  BY CircleIsAtTills
<1> QED
  BY <1>1, <1>2, <1>3, SagaInvariant, PTL DEF Spec

=============================================================================
