---------------------------- MODULE CheckoutSaga ----------------------------
(***************************************************************************)
(* POST /v2/pos/checkout (apps/api/src/modules/pos/checkout-saga): the     *)
(* preflight reads, then one database transaction of fourteen steps that   *)
(* takes row locks on its way, its commit or rollback, the FAILED trail    *)
(* written by a second transaction, and the answer to the client.  Next to *)
(* it the edit of a draft (invoice.service.ts), which may run at the same  *)
(* time.                                                                   *)
(*                                                                         *)
(* The database is READ COMMITTED: what a transaction wrote is kept with   *)
(* its request until Commit installs it; a lock is a row's entry in holder *)
(* (for a key, the unique-index entry of an uncommitted saga row).         *)
(*                                                                         *)
(* A request here is one that reaches the handler: it carries no           *)
(* x-idempotency-key (its key is then the invoice's id), or the HTTP       *)
(* interceptor's store holds no answer for its key.                        *)
(*                                                                         *)
(* Abstracted: amounts, accounts and prices; the rows that the payment,    *)
(* debt, outbox and voucher-document steps only insert, which exist        *)
(* exactly when the sale does; the lines of an invoice, read once in       *)
(* preflight, and quantities of stock, whose rows are locked in the order  *)
(* of those lines.  A till is a row the money steps lock, read and raise:  *)
(* a cash or deposit account, and after it the counter of its receipts.    *)
(***************************************************************************)
EXTENDS Naturals, Sequences, FiniteSets, FiniteSetsExt

CONSTANTS
    Requests, Invoices, Keys, Counters, Vouchers, Cards, Items, Tills,
    InvoiceOf,        \* the invoice a request checks out
    KeyOf,            \* its idempotency key
    VoucherOf,        \* the voucher it carries, or None
    CardOf,           \* the membership card of an invoice's customer, or None
    Wished,           \* the points an invoice redeems
    LinesOf,          \* the stock rows of an invoice, in order of its lines
    CounterOf,        \* the invoice number counter of an invoice's branch
    JournalOf,        \* the counter of its journal entries
    PaymentsOf,       \* the tills its payments raise, in their order: each
                      \* account, and after it the counter of its receipts
    StartNumber,      \* last number of a counter (0: no row in this period)
    StartPoints,      \* the balance of every card
    Edited,           \* bound: the invoices somebody edits
    FaultKinds,       \* which faults may happen (see AllFaults)
    MaxFaults,        \* bound: faults in a behaviour
    None

\* How often the payments of invoice i raise till t.
Paid(i, t) == Cardinality({j \in DOMAIN PaymentsOf[i] : PaymentsOf[i][j] = t})

AllFaults == {"crash", "ack", "recorder"}

Rows == Invoices \cup Keys \cup Counters \cup Vouchers \cup Cards \cup Items \cup Tills

ASSUME SagaAssumption ==
    /\ InvoiceOf \in [Requests -> Invoices]
    /\ KeyOf \in [Requests -> Keys]
    /\ VoucherOf \in [Requests -> Vouchers \cup {None}]
    /\ CardOf \in [Invoices -> Cards \cup {None}]
    /\ Wished \in [Invoices -> Nat]
    /\ LinesOf \in [Invoices -> Seq(Items)]
    /\ PaymentsOf \in [Invoices -> Seq(Tills)]
    /\ CounterOf \in [Invoices -> Counters]
    /\ JournalOf \in [Invoices -> Counters]
    /\ \A i, j \in Invoices : CounterOf[i] # JournalOf[j]
    /\ StartNumber \in [Counters -> Nat]
    /\ \A i \in Invoices : StartNumber[JournalOf[i]] > 0
    /\ StartPoints \in Nat
    /\ Edited \subseteq Invoices
    /\ MaxFaults \in Nat
    /\ FaultKinds \subseteq AllFaults
    /\ None \notin Requests \cup Vouchers \cup Cards

VARIABLES
    draft,       \* invoices that are drafts
    counter,     \* last number issued by a counter (0: no row yet)
    used,        \* vouchers redeemed
    points,      \* balance of a card
    till,        \* balance of a till
    saga,        \* status of the saga row of a request
    sold,        \* requests whose transaction committed a sale
    overtaken,   \* requests whose row is older than a FAILED row of their key
    at,          \* the step a request is at
    holder,      \* who has a row locked
    number,      \* invoice number a request minted
    entry,       \* journal number it minted
    todo,        \* stock rows, then tills, it has yet to update
    wrote,       \* what it wrote to a till (0: nothing)
    sagaOf,      \* ctx.sagaId: whose saga row it works on
    answer,      \* what its client was told
    told,        \* the document number in that answer
    late,        \* requests received after their key had completed
    edit,        \* the edit of each draft
    faults       \* faults so far

committed == <<draft, counter, used, points, till, saga, sold, overtaken>>
context == <<number, entry, todo, wrote, sagaOf>>
reply == <<answer, told, late>>
others == <<edit, faults>>
vars == <<committed, at, holder, context, reply, others>>

Preflight == {"load", "funds", "open"}
InTransaction == {"insert", "lock", "mint", "first", "voucher", "persist", "stock", "journal", "pay", "commit"}
Steps == Preflight \cup InTransaction \cup {"replayed", "failing", "done"}

SagaTypeOK ==
    /\ draft \subseteq Invoices
    /\ counter \in [Counters -> Nat]
    /\ used \subseteq Vouchers
    /\ points \in [Cards -> Nat]
    /\ till \in [Tills -> Nat]
    /\ saga \in [Requests -> {"none", "COMPLETED", "FAILED"}]
    /\ sold \subseteq Requests
    /\ overtaken \subseteq Requests
    /\ at \in [Requests -> Steps]
    /\ holder \in [Rows -> Requests \cup {None}]
    /\ number \in [Requests -> Nat]
    /\ entry \in [Requests -> Nat]
    /\ todo \in [Requests -> Seq(Items \cup Tills)]
    /\ wrote \in [Requests -> [Tills -> Nat]]
    /\ sagaOf \in [Requests -> Requests \cup {None}]
    /\ answer \in [Requests -> {"none", "ok", "rejected", "conflict", "failed", "lost"}]
    /\ told \in [Requests -> Nat]
    /\ late \subseteq Requests
    /\ edit \in [Invoices -> {"none", "opened", "same", "reverts"}]
    /\ faults \in Nat

Init ==
    /\ draft = Invoices
    /\ counter = StartNumber
    /\ used = {}
    /\ points = [c \in Cards |-> StartPoints]
    /\ till = [t \in Tills |-> 0]
    /\ saga = [r \in Requests |-> "none"]
    /\ sold = {}
    /\ overtaken = {}
    /\ at = [r \in Requests |-> "load"]
    /\ holder = [x \in Rows |-> None]
    /\ number = [r \in Requests |-> 0]
    /\ entry = [r \in Requests |-> 0]
    /\ todo = [r \in Requests |-> <<>>]
    /\ wrote = [r \in Requests |-> [t \in Tills |-> 0]]
    /\ sagaOf = [r \in Requests |-> None]
    /\ answer = [r \in Requests |-> "none"]
    /\ told = [r \in Requests |-> 0]
    /\ late = {}
    /\ edit = [i \in Invoices |-> "none"]
    /\ faults = 0

-----------------------------------------------------------------------------
Free(x) == holder[x] = None

Fault(kind) ==
    /\ kind \in FaultKinds
    /\ faults < MaxFaults
    /\ faults' = faults + 1
    /\ UNCHANGED edit

Goto(r, step) == at' = [at EXCEPT ![r] = step]

\* r's step locks row x, or has it locked already, and goes on.
Take(r, x, step) ==
    /\ holder[x] \in {None, r}
    /\ holder' = [holder EXCEPT ![x] = r]
    /\ Goto(r, step)

\* r's transaction is over, and its locks with it.
Unlock(r) == holder' = [x \in Rows |-> IF holder[x] = r THEN None ELSE holder[x]]

\* A step of r throws: rollback, then the failure is recorded.
Abort(r, kind) ==
    /\ Unlock(r)
    /\ Goto(r, "failing")
    /\ answer' = [answer EXCEPT ![r] = kind]
    /\ UNCHANGED <<committed, context, told, late, others>>

\* The request of key k that holds the COMPLETED saga row, if there is one.
Completed(k) == {q \in Requests : KeyOf[q] = k /\ saga[q] = "COMPLETED"}

-----------------------------------------------------------------------------
(* Preflight: no transaction, nothing recorded when it fails.              *)

Reject(r) ==
    /\ Goto(r, "done")
    /\ answer' = [answer EXCEPT ![r] = "rejected"]

(* load-draft: the invoice is a draft, or its key has completed.           *)
LoadDraft(r) ==
    LET ready == InvoiceOf[r] \in draft \/ Completed(KeyOf[r]) # {} IN
    /\ at[r] = "load"
    /\ late' = IF Completed(KeyOf[r]) # {} THEN late \cup {r} ELSE late
    /\ \/ ready /\ Goto(r, "funds") /\ UNCHANGED answer
       \/ ~ready /\ Reject(r)
    /\ UNCHANGED <<committed, holder, context, told, others>>

(* resolve-funds: the voucher has not been used.                           *)
ResolveFunds(r) ==
    /\ at[r] = "funds"
    /\ \/ VoucherOf[r] \notin used /\ Goto(r, "open") /\ UNCHANGED answer
       \/ VoucherOf[r] \in used /\ Reject(r)
    /\ UNCHANGED <<committed, holder, context, told, late, others>>

-----------------------------------------------------------------------------
(* The transaction.                                                        *)

\* Mutant of OpenSaga: any saga row of the key is replayed.
OpenReplaysAny(r) ==
    LET newest == {q \in Requests : KeyOf[q] = KeyOf[r] /\ saga[q] # "none"} IN
    /\ at[r] = "open"
    /\ IF newest # {}
       THEN /\ \E q \in newest : sagaOf' = [sagaOf EXCEPT ![r] = q]
            /\ Goto(r, "replayed")
       ELSE /\ Goto(r, "insert")
            /\ UNCHANGED sagaOf
    /\ UNCHANGED <<committed, holder, number, entry, todo, wrote, reply, others>>

(* open-saga reads the newest saga row of the key: a COMPLETED one is      *)
(* replayed, a FAILED one or none lets it go on.  (PENDING is never seen:  *)
(* no transaction commits it.)                                             *)
OpenSaga(r) ==
    LET newest == Completed(KeyOf[r]) \ overtaken IN
    /\ at[r] = "open"
    /\ IF newest # {}
       THEN /\ \E q \in newest : sagaOf' = [sagaOf EXCEPT ![r] = q]
            /\ Goto(r, "replayed")
       ELSE /\ Goto(r, "insert")
            /\ UNCHANGED sagaOf
    /\ UNCHANGED <<committed, holder, number, entry, todo, wrote, reply, others>>

(* It inserts its PENDING row; the partial unique index makes it wait for  *)
(* the uncommitted row of another, and refuses it next to a COMPLETED one. *)
InsertSaga(r) ==
    /\ at[r] = "insert"
    /\ \/ /\ Completed(KeyOf[r]) = {}
          /\ Take(r, KeyOf[r], "lock")
          /\ sagaOf' = [sagaOf EXCEPT ![r] = r]
          /\ UNCHANGED <<committed, number, entry, todo, wrote, reply, others>>
       \/ /\ Completed(KeyOf[r]) # {}
          /\ Abort(r, "conflict")

\* Mutant of LockInvoice: the locked row is not looked at again.
LockUnchecked(r) ==
    /\ at[r] = "lock"
    /\ Take(r, InvoiceOf[r], "mint")
    /\ UNCHANGED <<committed, context, reply, others>>

(* lock-invoice: FOR UPDATE, and still a draft.                            *)
LockInvoice(r) ==
    /\ at[r] = "lock"
    /\ Free(InvoiceOf[r])
    /\ \/ /\ InvoiceOf[r] \in draft
          /\ Take(r, InvoiceOf[r], "mint")
          /\ UNCHANGED <<committed, context, reply, others>>
       \/ InvoiceOf[r] \notin draft /\ Abort(r, "failed")

\* Mutant of MintNumber: a plain SELECT of the counter.
MintUnlocked(r) ==
    /\ at[r] = "mint"
    /\ number' = [number EXCEPT ![r] = counter[CounterOf[InvoiceOf[r]]] + 1]
    /\ Goto(r, "voucher")
    /\ UNCHANGED <<committed, holder, entry, todo, wrote, sagaOf, reply, others>>

(* next-document-number: the counter's row is locked and incremented; when *)
(* the period has none, it is to be inserted.                              *)
MintNumber(r) ==
    LET c == CounterOf[InvoiceOf[r]] IN
    /\ at[r] = "mint"
    /\ \/ /\ counter[c] > 0
          /\ Take(r, c, "voucher")
          /\ number' = [number EXCEPT ![r] = counter[c] + 1]
       \/ /\ counter[c] = 0
          /\ Goto(r, "first")
          /\ UNCHANGED <<holder, number>>
    /\ UNCHANGED <<committed, entry, todo, wrote, sagaOf, reply, others>>

(* The insert waits for that of another transaction, and is refused when   *)
(* it committed: DOC_NUMBER_COUNTER_CONFLICT.                              *)
MintFirst(r) ==
    LET c == CounterOf[InvoiceOf[r]] IN
    /\ at[r] = "first"
    /\ Free(c)
    /\ \/ /\ counter[c] = 0
          /\ Take(r, c, "voucher")
          /\ number' = [number EXCEPT ![r] = 1]
          /\ UNCHANGED <<committed, entry, todo, wrote, sagaOf, reply, others>>
       \/ counter[c] > 0 /\ Abort(r, "failed")

\* Mutant of RedeemVoucher: UPDATE without "is_used = false".
RedeemUnchecked(r) ==
    LET v == VoucherOf[r] IN
    /\ at[r] = "voucher"
    /\ \/ v = None /\ Goto(r, "persist") /\ UNCHANGED holder
       \/ v # None /\ Take(r, v, "persist")
    /\ UNCHANGED <<committed, context, reply, others>>

(* redeem-voucher: the conditional UPDATE of markUsed.                     *)
RedeemVoucher(r) ==
    LET v == VoucherOf[r] IN
    /\ at[r] = "voucher"
    /\ \/ /\ v = None /\ Goto(r, "persist") /\ UNCHANGED holder
          /\ UNCHANGED <<committed, context, reply, others>>
       \/ /\ v \in Vouchers \ used /\ Take(r, v, "persist")
          /\ UNCHANGED <<committed, context, reply, others>>
       \/ v \in used /\ Free(v) /\ Abort(r, "failed")

\* Mutant of PersistInvoice: the card is locked, its balance not looked at.
PersistUnvalidated(r) ==
    LET c == CardOf[InvoiceOf[r]] IN
    /\ at[r] = "persist"
    /\ \/ c = None /\ Goto(r, "stock") /\ UNCHANGED holder
       \/ c # None /\ Take(r, c, "stock")
    /\ todo' = [todo EXCEPT ![r] = LinesOf[InvoiceOf[r]]]
    /\ UNCHANGED <<committed, number, entry, wrote, sagaOf, reply, others>>

\* Mutant of PersistInvoice: the balance is validated without a lock.
PersistUnlocked(r) ==
    LET c == CardOf[InvoiceOf[r]] IN
    /\ at[r] = "persist"
    /\ c \in Cards => points[c] >= Wished[InvoiceOf[r]]
    /\ Goto(r, "stock")
    /\ todo' = [todo EXCEPT ![r] = LinesOf[InvoiceOf[r]]]
    /\ UNCHANGED <<committed, holder, number, entry, wrote, sagaOf, reply, others>>

(* persist-invoice locks the customer's card for the balance it prints,    *)
(* and redeem-points, under the same lock, validates and takes the points. *)
PersistInvoice(r) ==
    LET i == InvoiceOf[r]
        c == CardOf[i]
    IN
    /\ at[r] = "persist"
    /\ \/ /\ c = None /\ Goto(r, "stock") /\ UNCHANGED <<holder, committed, reply, others>>
          /\ todo' = [todo EXCEPT ![r] = LinesOf[i]]
          /\ UNCHANGED <<number, entry, wrote, sagaOf>>
       \/ /\ c \in Cards /\ Wished[i] <= points[c]
          /\ Take(r, c, "stock")
          /\ todo' = [todo EXCEPT ![r] = LinesOf[i]]
          /\ UNCHANGED <<committed, number, entry, wrote, sagaOf, reply, others>>
       \/ c \in Cards /\ Wished[i] > points[c] /\ Free(c) /\ Abort(r, "failed")

(* deduct-stock: one upsert locks the balance rows in line order.          *)
DeductStock(r) ==
    /\ at[r] = "stock"
    /\ \/ /\ todo[r] = <<>>
          /\ Goto(r, "journal")
          /\ UNCHANGED <<holder, todo>>
       \/ /\ todo[r] # <<>>
          /\ Take(r, Head(todo[r]), "stock")
          /\ todo' = [todo EXCEPT ![r] = Tail(@)]
    /\ UNCHANGED <<committed, number, entry, wrote, sagaOf, reply, others>>

(* post-journal mints the number of its entry from a second counter.       *)
PostJournal(r) ==
    LET i == InvoiceOf[r] IN
    /\ at[r] = "journal"
    /\ Take(r, JournalOf[i], "pay")
    /\ entry' = [entry EXCEPT ![r] = counter[JournalOf[i]] + 1]
    /\ todo' = [todo EXCEPT ![r] = PaymentsOf[i]]
    /\ UNCHANGED <<committed, number, wrote, sagaOf, reply, others>>

\* Mutant of PostPayments: the balance is read without a lock.
PayUnlocked(r) ==
    LET t == Head(todo[r]) IN
    /\ at[r] = "pay"
    /\ \/ todo[r] = <<>> /\ Goto(r, "commit") /\ UNCHANGED <<todo, wrote>>
       \/ /\ todo[r] # <<>>
          /\ wrote' = [wrote EXCEPT ![r][t] = (IF @ = 0 THEN till[t] ELSE @) + 1]
          /\ todo' = [todo EXCEPT ![r] = Tail(@)]
          /\ UNCHANGED at
    /\ UNCHANGED <<committed, holder, number, entry, sagaOf, reply, others>>

(* post-cash and post-deposit, one till after the other, an account and    *)
(* then the counter of its receipts: it is locked, read, and written back  *)
(* raised.                                                                 *)
PostPayments(r) ==
    LET t == Head(todo[r]) IN
    /\ at[r] = "pay"
    /\ \/ todo[r] = <<>> /\ Goto(r, "commit") /\ UNCHANGED <<holder, todo, wrote>>
       \/ /\ todo[r] # <<>>
          /\ Take(r, t, "pay")
          /\ wrote' = [wrote EXCEPT ![r][t] = (IF @ = 0 THEN till[t] ELSE @) + 1]
          /\ todo' = [todo EXCEPT ![r] = Tail(@)]
    /\ UNCHANGED <<committed, number, entry, sagaOf, reply, others>>

\* What the transaction of r wrote becomes visible: close-saga and COMMIT.
Install(r) ==
    LET i == InvoiceOf[r] IN
    /\ draft' = draft \ {i}
    /\ counter' = [counter EXCEPT ![CounterOf[i]] = number[r], ![JournalOf[i]] = entry[r]]
    /\ used' = used \cup ({VoucherOf[r]} \ {None})
    /\ points' = [c \in Cards |-> IF c = CardOf[i] THEN points[c] - Wished[i] ELSE points[c]]
    /\ till' = [t \in Tills |-> IF wrote[r][t] = 0 THEN till[t] ELSE wrote[r][t]]
    /\ saga' = [saga EXCEPT ![r] = "COMPLETED"]
    /\ sold' = sold \cup {r}
    /\ Unlock(r)
    /\ UNCHANGED overtaken

(* The sale commits and the client is told its number.                     *)
Commit(r) ==
    /\ at[r] = "commit"
    /\ Install(r)
    /\ Goto(r, "done")
    /\ answer' = [answer EXCEPT ![r] = "ok"]
    /\ told' = [told EXCEPT ![r] = number[r]]
    /\ UNCHANGED <<context, late, others>>

(* The sale commits, but the connection is lost before COMMIT answers.     *)
CommitLost(r) ==
    /\ at[r] = "commit"
    /\ Fault("ack")
    /\ Install(r)
    /\ Goto(r, "failing")
    /\ answer' = [answer EXCEPT ![r] = "failed"]
    /\ UNCHANGED <<context, told, late>>

(* A replay commits nothing, and tells the number of the saga it found.    *)
FinishReplay(r) ==
    /\ at[r] = "replayed"
    /\ Goto(r, "done")
    /\ answer' = [answer EXCEPT ![r] = "ok"]
    /\ told' = [told EXCEPT ![r] = number[sagaOf[r]]]
    /\ UNCHANGED <<committed, holder, context, late, others>>

(* Reading the invoice of a replay, or its COMMIT, throws.                 *)
ReplayFails(r) ==
    /\ at[r] = "replayed"
    /\ Fault("ack")
    /\ Goto(r, "failing")
    /\ answer' = [answer EXCEPT ![r] = "failed"]
    /\ UNCHANGED <<committed, holder, context, told, late>>

\* Mutant of StepFails: the transaction is left open.
StepLeaks(r) ==
    /\ at[r] \in InTransaction
    /\ Goto(r, "failing")
    /\ answer' = [answer EXCEPT ![r] = "failed"]
    /\ UNCHANGED <<committed, holder, context, told, late, others>>

(* Any step throws: the accounting period is locked, a rule is missing.    *)
StepFails(r) == at[r] \in InTransaction /\ Abort(r, "failed")

-----------------------------------------------------------------------------
(* After the transaction.                                                  *)

\* The transactions of key k that began before now.
Begun(k) == {q \in Requests : KeyOf[q] = k /\ (at[q] \in InTransaction \/ saga[q] = "COMPLETED")}

(* The recorder's own transaction: the row of ctx.sagaId, or a new one     *)
(* (created now, after every transaction begun), is saved as FAILED.       *)
RecordFailure(r) ==
    LET target == IF sagaOf[r] = None THEN r ELSE sagaOf[r] IN
    /\ at[r] = "failing"
    /\ saga' = [saga EXCEPT ![target] = "FAILED"]
    /\ overtaken' = IF saga[target] = "none" THEN overtaken \cup Begun(KeyOf[r]) ELSE overtaken
    /\ Goto(r, "done")
    /\ UNCHANGED <<draft, counter, used, points, till, sold, holder, context, reply, others>>

(* Recording is best effort.                                               *)
RecorderFails(r) ==
    /\ at[r] = "failing"
    /\ Fault("recorder")
    /\ Goto(r, "done")
    /\ UNCHANGED <<committed, holder, context, reply>>

(* The process serving r dies: its transaction is rolled back.             *)
Crash(r) ==
    /\ at[r] # "done"
    /\ Fault("crash")
    /\ Unlock(r)
    /\ Goto(r, "done")
    /\ answer' = [answer EXCEPT ![r] = "lost"]
    /\ UNCHANGED <<committed, context, told, late>>

-----------------------------------------------------------------------------
(* PATCH of a draft: invoice.service.ts update.                            *)

(* It reads the invoice and refuses one that is no draft.                  *)
BeginEdit(i) ==
    /\ i \in Edited
    /\ edit[i] = "none"
    /\ i \in draft
    /\ edit' = [edit EXCEPT ![i] = "opened"]
    /\ UNCHANGED <<committed, at, holder, context, reply, faults>>

(* It replaces the lines; save loads the row again, and will write every   *)
(* column of the entity it has that differs: those of a draft, when the    *)
(* invoice has been issued since.                                          *)
DiffForSave(i) ==
    /\ edit[i] = "opened"
    /\ edit' = [edit EXCEPT ![i] = IF i \in draft THEN "same" ELSE "reverts"]
    /\ UNCHANGED <<committed, at, holder, context, reply, faults>>

(* The UPDATE, once the row is not locked, and its COMMIT.                 *)
SaveEdit(i) ==
    /\ edit[i] \in {"same", "reverts"}
    /\ Free(i)
    /\ draft' = IF edit[i] = "reverts" THEN draft \cup {i} ELSE draft
    /\ edit' = [edit EXCEPT ![i] = "none"]
    /\ UNCHANGED <<counter, used, points, till, saga, sold, overtaken, at, holder, context, reply, faults>>

-----------------------------------------------------------------------------
RequestStep(r) ==
    \/ LoadDraft(r)
    \/ ResolveFunds(r)
    \/ OpenSaga(r)
    \/ InsertSaga(r)
    \/ LockInvoice(r)
    \/ MintNumber(r)
    \/ MintFirst(r)
    \/ RedeemVoucher(r)
    \/ PersistInvoice(r)
    \/ DeductStock(r)
    \/ PostJournal(r)
    \/ PostPayments(r)
    \/ Commit(r)
    \/ FinishReplay(r)
    \/ RecordFailure(r)

Failure(r) ==
    \/ StepFails(r)
    \/ CommitLost(r)
    \/ ReplayFails(r)
    \/ RecorderFails(r)
    \/ Crash(r)

EditStep(i) == BeginEdit(i) \/ DiffForSave(i) \/ SaveEdit(i)

Next ==
    \/ \E r \in Requests : RequestStep(r) \/ Failure(r)
    \/ \E i \in Invoices : EditStep(i)

Spec == Init /\ [][Next]_vars

(* An await returns, and the database grants a lock that stays free.       *)
FairSpec == Spec /\ \A r \in Requests : WF_vars(RequestStep(r))

-----------------------------------------------------------------------------
(* The numbers of a counter are gap-free and given once: rollbacks return  *)
(* theirs, and the first document of a period is no exception.             *)
NumbersGapFree ==
    /\ \A c \in Counters :
          {number[r] : r \in {q \in sold : CounterOf[InvoiceOf[q]] = c}}
             \cup {entry[r] : r \in {q \in sold : JournalOf[InvoiceOf[q]] = c}}
             = StartNumber[c] + 1 .. counter[c]
    /\ \A q, r \in sold : q # r =>
          /\ CounterOf[InvoiceOf[q]] = CounterOf[InvoiceOf[r]] => number[q] # number[r]
          /\ JournalOf[InvoiceOf[q]] = JournalOf[InvoiceOf[r]] => entry[q] # entry[r]

(* A voucher pays for one sale, however many drafts race for it, and only  *)
(* a committed sale uses it up.                                            *)
VoucherRedeemedOnce ==
    /\ used = {VoucherOf[r] : r \in sold} \ {None}
    /\ \A q, r \in sold : VoucherOf[q] = VoucherOf[r] /\ VoucherOf[q] # None => q = r

(* No card is overdrawn by concurrent sales, and its balance is what the   *)
(* committed ones left of it.                                              *)
PointsAddUp ==
    \A c \in Cards :
        LET sales == {r \in sold : CardOf[InvoiceOf[r]] = c} IN
        /\ points[c] >= 0
        /\ points[c] + MapThenSumSet(LAMBDA r : Wished[InvoiceOf[r]], sales) = StartPoints

(* Concurrent sales do not overwrite each other's money: a till holds the  *)
(* payments of the committed sales (a counter, their receipts), all of     *)
(* them, and nothing of the rest.                                          *)
TillsAddUp ==
    \A t \in Tills :
        till[t] = MapThenSumSet(LAMBDA r : Paid(InvoiceOf[r], t), sold)

(* An invoice is sold once, whatever keys its requests carry.              *)
OneSalePerInvoice ==
    \A q, r \in sold : InvoiceOf[q] = InvoiceOf[r] => q = r

(* A client told "ok" was told the number under which its invoice is sold; *)
(* one refused in preflight or as in progress did not sell it.  A key that *)
(* had completed is replayed, but for two cases the code refuses: the      *)
(* sale's own voucher counts as used, or a FAILED row, being newer, hides  *)
(* the completed one.                                                      *)
AnswerIsTrue ==
    \A r \in Requests :
        /\ answer[r] = "ok" => \E q \in sold : /\ InvoiceOf[q] = InvoiceOf[r]
                                               /\ told[r] = number[q]
        /\ answer[r] \in {"rejected", "conflict"} =>
              /\ r \notin sold
              /\ r \in late => \/ VoucherOf[r] \in used
                               \/ \E q \in Requests : /\ KeyOf[q] = KeyOf[r]
                                                      /\ saga[q] = "FAILED"

\* The row r's next step locks.
Wants(r) ==
    CASE at[r] = "insert"  -> KeyOf[r]
      [] at[r] = "lock"    -> InvoiceOf[r]
      [] at[r] \in {"mint", "first"} -> CounterOf[InvoiceOf[r]]
      [] at[r] = "voucher" -> VoucherOf[r]
      [] at[r] = "persist" -> CardOf[InvoiceOf[r]]
      [] at[r] \in {"stock", "pay"} -> IF todo[r] = <<>> THEN None ELSE Head(todo[r])
      [] at[r] = "journal" -> JournalOf[InvoiceOf[r]]
      [] OTHER -> None

\* Each of S waits for another of S, and is waited for.
Circle(S) ==
    /\ \A r \in S : Wants(r) \in Rows /\ holder[Wants(r)] # r
    /\ S = {holder[Wants(r)] : r \in S}

(* "Taking them in a different order across two concurrent checkouts is    *)
(* how this flow would deadlock": of the rows a checkout locks, only tills *)
(* are.  Checkouts wait for each other in a circle only in post-cash and   *)
(* post-deposit, and only if each numbers its journal entries by a counter *)
(* of its own.  (Saga rows, invoices, counters, vouchers, cards and stock, *)
(* in line order under the branch's counter, are taken in one order.)      *)
CirclesOnlyAtTills ==
    \A S \in SUBSET Requests :
        Circle(S) => \A r \in S :
            /\ at[r] = "pay"
            /\ \A q \in S : JournalOf[InvoiceOf[q]] = JournalOf[InvoiceOf[r]] => q = r

(* Every request is answered, unless its process died.                     *)
EveryRequestAnswered == \A r \in Requests : <>(at[r] = "done")

\* What of the saga the contract speaks about: the committed sales.
Contract == INSTANCE CheckoutContract WITH
                number <- [r \in Requests |-> IF r \in sold THEN number[r] ELSE 0],
                entry <- [r \in Requests |-> IF r \in sold THEN entry[r] ELSE 0]

(* The steps, locks, waits, crashes and replays of concurrent checkouts    *)
(* implement the contract: every sale is atomic and takes the next number. *)
ImplementsContract == Contract!Spec
=============================================================================
