# Formal models of jack-erp

TLA+ models of the parts of this ERP whose correctness depends on the order in
which several processes, transactions or messages get their turn, the TLC runs
that check them on small instances, and the TLAPS proofs that carry the main
invariants over to instances of every size.

Paths below are relative to `src/`; `modules/` is `apps/api/src/modules/`.

- [The system](#the-system) - [The modules](#the-modules) -
  [The runs](#the-runs) - [Fairness](#fairness) - [The proofs](#the-proofs) -
  [What the runs found](#what-the-runs-found) -
  [What is not modelled](#what-is-not-modelled) - [The plan](#the-plan)

## The system

One NestJS API (`apps/api`), run as several identical processes in front of one
PostgreSQL database (READ COMMITTED unless a service asks for more), one Kafka
cluster and one Redis; two web clients. Processes share no memory: they meet in
rows, unique indexes, row locks, topics and consumer groups.

| part | state it keeps | operations | what is hard | what makes it correct |
|---|---|---|---|---|
| **Outbox and relay** `modules/events/outbox` | `outbox_messages` rows | enqueue in the business transaction; poll, publish, mark, back off, clean up | every process polls; publishing and marking are not atomic; crash in between | no row with two relays; never marked unless sent; sent in the end; duplicates only through faults |
| **Consumers, idempotency, dead letters** `modules/events`, `packages/shared-kafka-client` | `processed_events` claims, committed offsets, `.dlq` topics, `dead_letter_events` | claim, handle, release, retry, park; record, replay, ignore | redelivery, rebalance, crash with a claim, failing release or `.dlq`; two operators | one handler at a time, one effect, nothing lost silently, decisions final |
| **Checkout saga (v2)** `modules/pos/checkout-saga` | `checkout_sagas`, `invoices`, numbering counters, vouchers, cards, stock balances, cash and deposit accounts | preflight, fourteen steps in one transaction, failure trail, replay by idempotency key | resends and competitors, locks in many tables, the first number of a period, lost COMMIT answers | one sale per invoice; gap-free numbers; voucher once; no overdrawn card; tills add up; true answers; circles of waits at the tills only |
| **Draft invoices** `modules/pos/services/invoice.service.ts` | `invoices`, `invoice_items` | create, edit, delete a draft | the draft check is outside the transaction | the sales of issued invoices survive it |
| **After the sale** `modules/pos/services/checkout-return`, `invoice-debt`, `invoice-cancel`, `pos/debt-collection-saga` | `invoices`, `invoice_debts`, `returned_quantity`, store credit | return, exchange, cancel, collect a debt, reverse a collection | debts written by the counter, the saga and returns; drafts that outlive what they return | no unit comes back twice, no debt is paid twice, the money kept is worth the goods kept |
| **Document numbering** `modules/document-numbering`, `customer-code.service.ts` | rules of organisation and branch, counters | `generate` (SERIALIZABLE with retry, or in a lent transaction), the saga's half, cutover to a branch counter, fast-forward over codes that exist | first number, serialization failures, pool of connections, imported codes | unique numbers; gaps only where a number was burned |
| **Stock ledger and documents** `modules/inventory/ledger`, `goods-receipt`, `goods-issue`, `transfer`, `stock-take`, `adjustment` | document status, lines, revision; append-only ledger, balance rows | draft, post, edit, cancel, process a count | lines read outside the transaction that writes their difference; nested transactions; publish after commit | ledger = lines in force, balance = ledger, moves do not oversell |
| **Transfer orders** `modules/inventory/transfer-order` | order status, requested lines, two legs | confirm export, import, complete, edit and cancel an order or a leg | cascades between order and legs | the legs mirror each other |
| **Temp warehouse** `modules/inventory/temp-warehouse` | borrow sessions, invoice lines to fulfil | fulfil before or after the invoice, return | order of invoice and fulfilment events | no line fulfilled twice |
| **Funds, vouchers, transfers** `modules/accounting/cash*`, `deposit*`, `fund-swaps` | fund balances, movements, vouchers, money in transit | receive, pay, edit, delete, reverse, send, confirm, cancel, swap | balances written back from reads; edits post a difference | balance = opening + movements, no overdraft, a voucher is posted for what it is worth, the in-transit account holds what is on its way |
| **Receivables, payables; journal** `modules/accounting` | open items; entries | settle; post, reverse | two settlements, two reversals | nothing settled or reversed twice |
| **POS sessions** `modules/pos/services/pos-session.service.ts` | one open session per register | open, close, reconcile | two opens; a sale while closing | one open session |
| **Customers, loyalty, store credit** `modules/customer` | card balances, histories | award, redeem, adjust, return points | check before an atomic increment | balance never negative, equal to its history |
| **Promotion engine, vouchers** `modules/promotion` | programs, vouchers | price a cart, redeem a voucher | (pricing is pure) conditional update | a voucher pays once |
| **HTTP idempotency** `apps/api/src/common/interceptors`, `modules/redis` | stored answers by key | look up, run, store | three steps and no lock | one run per key |
| **Auth, roles, API keys; sales orders; notifications, media, websocket; reporting, search; clients** | - | - | - | see "What is not modelled" |

How they meet: a business transaction writes its document and an outbox row; the
relay turns the row into a message; every consumer group subscribed to the topic
claims the event and runs its handler, which writes in a transaction of its own
(stock deduction, loyalty points, cash vouchers, the link back of a voucher).
Checkout v2 does all of its own work in one transaction and uses the outbox only
for what may follow later.

`PROJECT.json` lists every hazard at its line, with the properties aimed at it.

## The modules

| module | what it is |
|---|---|
| `OutboxRelay` | outbox rows, any number of relays, the broker's log as a count of copies |
| `EventConsumers` | consumer groups, claims, retries, dead letters, operators |
| `EventContract` | what the two together promise: an effect at most once, for committed documents |
| `EventPipeline` | `EventConsumers` with `OutboxRelay` as its producer, over one log; a process runs one relay and a member of every group, and dies with both; refines `EventContract` |
| `CheckoutSaga` | concurrent checkouts, their locks and failures, and the edit of a draft |
| `CheckoutContract` | a sale that happens at once or not at all; refined by `CheckoutSaga` |
| `DocumentNumbering` | callers of `generate` and `mintDocumentNumber`, rules, counters, the connection pool |
| `StockVouchers` | receipts, issues, moves and counts on the ledger, by concurrent requests |
| `VoucherContract` | the stock on hand is what the vouchers in force say; refined by `StockVouchers` |
| `TransferOrders` | an order between branches and its two legs |
| `AfterSale` | returns, exchanges, cancellations, debts and their collection |
| `Funds` | fund balances, vouchers written by hand, transfers and swaps with their payments and receipts, and reversals of any of them |
| `OutboxRelayProofs`, `EventPipelineProofs`, `CheckoutSagaProofs`, `StockVouchersProofs`, `DocumentNumberingProofs`, `AfterSaleProofs`, `FundsProofs` | the theorems; those about `EventConsumers` are in `EventPipelineProofs`, with the composition they carry over to |
| `SumTheorems` | what adding, removing or changing a summand does to a sum over a finite set |
| `MC*` | the small instances for TLC |

An operator named "Mutant of ..." is a plausible wrong version of the definition
after it. It is used by no specification; `PROJECT.json` pairs each property
with a mutant that violates it.

### OutboxRelay

`outbox[e]` is the committed state of the row of event `e`; rows are named by
their event, because event ids are derived from the source document. A poll is
one database transaction (`pollOnce`): `Poll` locks due rows with SKIP LOCKED,
`Send` / `SendFails` handle one row after the other, `Commit` installs the marks
and backoffs. What the open transaction has written sits in `batch`, `sent` and
`failed` of its relay, and `Rollback` forgets it - but not the copies the broker
already has. `SendFails` covers both a refused message and a lost
acknowledgement. `created_at` order is abstracted (any due rows may be taken),
and time is: a backoff ends whenever `BackoffElapses`.

### EventConsumers

A *subscription* is one group's interest in one event; a *worker* is one
process's handling of one copy of it. `pc` walks through
`wrapWithIdempotency`: claim, the handler (look for an earlier effect, apply in
its own transaction, publish what follows), and in the catch the release, then
`withRetry` and the dead-letter handler. `Rebalance` takes a delivery away from
a member that goes on unaware; the broker then refuses its offset. An operator's
replay is read, publish, save - three steps, because they are three awaits - and
ignore is read, save.

The claim's INSERT with `orIgnore` is taken to return no identifiers on a
conflict, as `tryClaim` assumes. A claim is a row of (consumer, event); the
consumer is the handler's name, so replaying a letter reaches every group of its
topic and the claims protect those that had handled it. The handlers of the code
differ in what they write; what they share is modelled: a look for an earlier
effect, one transaction, and possibly a publish after it.

### CheckoutSaga

`at[r]` is the step request `r` is at. Row locks are `holder`; what a
transaction wrote but has not committed (`number`, `entry`, `wrote`, ...) is kept
with its request until `Install` makes all of it visible at once. The steps that
only insert rows (payments, debt, outbox rows, voucher documents) are part of
`Install`: they exist exactly when the sale does. `post-cash` and `post-deposit`
are one action that visits the *tills* in the order of the payments: a till is a
row they lock, read and write back raised - an account, or the counter of its
receipts, which `mintDocumentNumber` locks after each account and before the next (the
creation of a missing numbering rule by `ensureDefault` is abstracted).

Facts about libraries the model rests on: the partial unique index of
`checkout_sagas` makes an insert wait for another's uncommitted row of the same
key, and fail next to a COMPLETED one; `created_at` is the start of the
transaction, so the FAILED row the recorder inserts is newer than the row of
every transaction begun before it (`overtaken`); TypeORM's `save` loads the row
again and writes the columns of the entity that differ (`DiffForSave`,
`SaveEdit`). PENDING and COMPENSATED rows are never committed by the v2
flow - the row is inserted PENDING and completed in the same transaction - so
open-saga's PENDING branch is not reachable and not in the model.

The requests modelled reach the handler: either they carry no
`x-idempotency-key`, in which case the saga's key is the invoice's id, or the
HTTP interceptor's store has no answer for their key (the first request is still
running, or its answer was not stored).

### DocumentNumbering

A caller is one request that wants one number. Its `mode` is how it calls: `"lent"`
passes the transaction it is in (the saga's `mintDocumentNumber`, imports of customers),
`"plain"` has none (checkout v1, a new customer), `"nested"` has one and does not pass
it, as `cash-receipts.service.ts` does: it then holds one connection of the pool and
waits for another. `pc` walks through `ensureBranchRule` (types `Branched`),
`resolveActiveRule` / `ensureDefaultActiveRule`, the increment and, for types `Coded`,
`CustomerCodeService.issue`. A counter is an integer with `NoRow` before its first
number; the increment of a lent transaction stays in `got` and `lock` until the document
is saved, that of the callee's own SERIALIZABLE transaction is compared with its
snapshot `snap` and retried `MaxAttempts` times. `skipped` is history: the numbers a
counter went past without handing them out. Rules are created, activated and deactivated
by hand in between.

### StockVouchers

One request runs one operation on one voucher. `Read` is the read and the status check
of `post`, `update` and `cancel`, before their transaction; `CommitPost`, `CommitEdit`
and `CommitCancel` are their transactions, in which `update` and `cancel` of receipts
and issues compare status and revision again under the row lock (`Unchanged`). What they
write to ledger and balances is computed from what was read (`Change`, the code's
`computeVoucherDelta`). A move locks the balances it takes from and looks whether they
suffice (`LockOnHand`); counts, and moves that do not look, write the ledger in a nested
transaction that commits first (`WriteInner`, `CommitOuter`). The outer one may then
fail (`OuterFails`) or its process die (`Crash` at `"inner"`): the ledger rows stay
without their document. `torn` is history: the vouchers this happened to, and the
receipts that `createAndPost`, which deletes its draft when posting threw (`CleanUp`),
deleted although they were posted. `LockOnHand` locks the balances in one step where the
code locks them row by row: two moves that drain two places in opposite orders can wait
for each other there. `CommitPost` does not look at the status again, because the code
does not; that this is harmless is the bound `MayAct`, below.

### TransferOrders

A leg is its quantity in the books, or not there yet, or cancelled; each handler
of `transfer-order.service.ts` is one action, with the cascade it triggers:
`EditIssue` changes the order's requested quantity by the same difference,
`EditReceipt` changes the other leg, `CancelReceipt` reopens the order. An order's
requests come one at a time: the run asks what sequences of them do.

### AfterSale

A sale paid in part or in full, the documents drafted against it, one debt row for each.
`Begin*` is a request's reads before its transaction, the action named after the
operation its transaction. Quantities and money share a unit. `taken`, `given` and
`undone` count money; `offset` is the part of a refund that settled the sale's debt (an
ADJUSTMENT row of the code). The debt collection saga locks the debt row first and is
one action (`Collect`), as is the reversal of its receipt; the counter's payment (`Pay`)
reads before and writes after, without a lock; `overwritten` is history: the debts it
wrote an older row over. `DraftReturn` does not look at the sale's status, as `create`
does not. A cancelled sale's debt is closed on what was read of the sale (`owing`).

### Funds

A *paper* is a voucher row: one written by hand, or a leg - the payment (`Out`) or the
receipt (`In`) a transfer or swap writes against the in-transit account. A request is one
transaction: `Begin*` locks the rows of its papers and its transfer, checks them and says
what it will write (`rows`, `becomes`) and which movements it makes (`legs`); `ReadFund`
reads the balance of the next fund, with a row lock for a deposit fund and without for a
cash fund, and refuses what is not covered; `Commit` writes each balance as it was read
plus the movement. `moved` and `posted` are sums of movement rows. `overwritten` is
history: the funds written back from a read that another commit had overtaken.

Edits and deletions are for hand-written vouchers (`assertEditable`). A reversal is for
any paper: `reverseInTx`, and its like for the other three kinds of voucher, asks for
the status and an earlier reversal, not for what the voucher was written for. So a leg
may be reversed alone, its transfer staying under way, and so may a reversal, which is a
posted voucher itself; a reversal is no row of its own here, but counted in `back` of
the paper it reverses. A voucher in `MayClear` may be written against the in-transit
account, as the cashier does for the second leg of a swap that left it out.

### Refinements

`ImplementsContract` of `EventPipeline` maps `committed` to the events whose row exists;
`ImplementsContract` of `CheckoutSaga` maps a request's numbers to what it committed.
Steps, locks, waits, retries, failures and replays are stutters; `Apply` is
`TakeEffect`, and `Commit` and `CommitLost` are `Sell`. `ImplementsContract` of
`StockVouchers` maps a voucher to `Open`, `Closed` or the lines it is in the books with
(`Entry`; between two nested transactions it is in, torn it is out), and the balances
without what torn vouchers put in them (`Astray`) to the stock: `CommitPost` and
`WriteInner` are `Enter`, `CommitEdit` of a posted voucher is `Amend`; `CommitCancel`,
and what tears a voucher (`OuterFails`, `Crash`, `CleanUp`), are `Leave`.

## The runs

| run | question | instance and bounds |
|---|---|---|
| `OutboxRelay` | locks, marks, duplicates, eventual publication | 2 relays, 3 rows, batches of 2, 2 faults |
| `EventConsumers` | exclusion and at-most-once under every fault; a letter is closed only after its replay; nothing is lost but in the named ways | 2 processes, 2 copies, 1 retry, 1 operator, 2 faults of 6 kinds |
| `EventPipeline` | the contract, marks only after delivery, and every event to its end, with crashes of relay and consumers together | 2 processes, 1 event, 1 operator, 1 relay fault, 1 consumer fault |
| `CheckoutSaga` | numbers, voucher, points, tills, circles of waits | 4 checkouts, 2 branches, 1 voucher, 1 card, 2 items in opposite order, 2 bank accounts and the counter of their receipts shared by the branches, any step may throw, 1 draft edited again and again |
| `CheckoutSagaResend` | one sale, true answers, the contract, everyone answered | a request, its resend and a competitor with a key of its own for one invoice, 2 faults |
| `DocumentNumbering` | unique numbers, a cutover that repeats none, gaps accounted for, what stops the pool | 3 callers of 5 kinds, 2 connections, 2 changes of rules, 1 imported code |
| `StockVouchers` | ledger, balances and moves agree with the vouchers; the contract | 4 requests on a receipt, an issue, a move and a count in 2 places, failing or dying at any step |
| `AfterSale` | quantities, debts and money agree with the documents that stand | a sale of 3 paid in any part, a return of 2, an exchange, a return for store credit, 2 collections, 2 requests |
| `Funds` | balances, vouchers and the in-transit account agree with the movements | 2 transactions at once on a cash and 2 deposit funds: a hand-written receipt, a transfer, a swap, any of their papers reversed up to twice |
| `FailedReceipt` | violates `FailedCreateLeftNothing` | 2 requests, one publish that fails |
| `TransferOrders` | violates `LegsMirror` | 1 order, quantities up to 2, 3 vouchers |
| `ReturnAfterCancel` | violates `PayoutWithinCollected` | 1 request at a time, a sale and a return |

The longest takes about two minutes (`EventPipeline`, 551,602 distinct states;
`Funds`, 2.9 million).

Why these are enough to be interesting: exclusion needs two actors and one row; a
duplicate needs a second copy; a fault during the recovery from a fault needs two
faults. Two copies of an event let a replay, a resend by the relay or a rebalance race
the original delivery. In the checkout run pairs of requests contend for one thing each,
so that no lock stands in for another: two of one branch for its numbers (and for stock,
in opposite order); of requests in different branches, whose counters do not keep them
apart, one pair for a voucher, one for a card that pays for one of the two, one for two
bank accounts. Counters start at 0 for invoice numbers (no row: the first document of a
period) and at 1 for journal entries. The copies of the relay run exceed what its two
faults can produce, so that bound never stops a relay. The numbering run has types whose
rule exists, is to be cloned, or is to be created, and three callers because the third
is who finds what two left behind. Four requests let two edits and a cancellation of a
receipt race while a move is checked. In `AfterSale` the returns together take back more
than was sold, and any one may meet the debt partly collected. In `Funds` voucher,
transfer and swap name the same funds; payments, whose movements are negative, are there
as legs only, and written by hand in the proofs (`Sign`). In the numbering run there are
as many callers that do not lend as connections, so that the standstill of the pool is
one of its states.

Bounds by name. Of events: `MaxCopies` (copies of an event in the log), `MaxPublished`
(those of a producer, replays apart), `MaxRetries` (the code's setting, at most 1 here),
`MaxRelayFaults`, `MaxFaults` with `FaultKinds`. Of the checkout: `Edited` (the drafts
somebody edits), `MaxFaults`. Of numbering: `MaxNested`, `MaxGen` (rules of a scope),
`MaxRuleChanges`, `Edited` (types whose rules are changed by hand), `MaxImports`,
`MaxAttempts` (the code's constant, smaller here). Of transfer orders: `MaxQty`. Of
funds: `MaxMoved` (an edit starts while the sum of its fund's movements is within it),
`MaxBack` (a paper is reversed while it gave back less).

Two bounds are promises that the code does not check and that a user, or luck,
has to keep; without them properties do not hold:

- `MayAct` (`StockVouchers`): no two requests at once on a draft, a move or a count.
  `post` looks at the draft's status before its transaction only, and moves and counts
  have no revision, so two of them put one document in the books twice. Posted receipts
  and issues may be worked on by any number.
- `Careful` (`AfterSale`, "alone"): no two requests at once about one document, because
  a return's status is read before the transaction of its checkout and not again. Two
  requests about documents of one sale may be at work at once. The run
  `ReturnAfterCancel`, whose property is about one request after the other, has not even
  this.

What else the code gets wrong is in the specifications, and where a property would be
false for it, the property names the case and rules out every other:

- `BooksAgree`, and the contract of `StockVouchers`, leave out the vouchers torn between
  two nested transactions or deleted after they were posted (`torn`).
- `DebtsAddUp` leaves out the debts the counter's payment wrote an older row over
  (`overwritten`), `MoneyAddsUp` is about the time before the first of them, and counts
  the store credit given on top of a settled debt once (`CreditOnce`).
- `BalancesAddUp` leaves out the cash funds a movement was written over (`overwritten`),
  and says that no deposit fund ever is one.
- `TransitAddsUp` counts what reversals of single legs took off the in-transit account
  or put back. The account can go below zero that way; no transfer is confirmed twice
  all the same.
- `CirclesOnlyAtTills` says which circles of waits there are, and
  `PoolStuckOnlyByNested` what stops the pool; the runs reach both.

Deadlock checking is off in every run: all of these systems stop, when every
event is handled, every request answered and every bound used. That they stop
only then is what the liveness properties say (`EventuallyPublished`,
`EndToEnd`, `EveryRequestAnswered`), and circles of waits are the invariants
`CirclesOnlyAtTills` and `PoolStuckOnlyByNested`.

`NothingLost` and `EndToEnd` name the ways the code has to lose an event and rule out
every other. They are: a claim that a dead process left behind (`Orphaned`), from which
the code has no way back; a dead letter whose insert failed in the recorder (`Dropped`);
and a worker that fails busy with a message that a rebalance has given to another member
(`stranded`, a history variable: that member may have skipped the message over the first
one's claim and committed its offset). `OneSalePerInvoice` is checked without edits
(`Edited = {}`), because an edit can revert an issued invoice to a draft, which allows a
second sale. `AnswerIsTrue`: a client told "ok" was told the number its invoice is sold
under, one that was refused did not sell it, and a key that had completed before its
request began is replayed - but for two cases that the code refuses and the property
names: the sale's own voucher, and a newer FAILED row. `CirclesOnlyAtTills`: a checkout
that pays into an account goes on to lock the counter of its receipts, which is the
organisation's, and then the next account. So two branches wait for each other although
both take the accounts in one order: one holds the first account and the counter, and
wants the second account; the other holds that and wants the counter. For this each has
to have a journal counter of its own (rules of the branch made by hand:
`ensureBranchRule` clones INVOICE and RETURN only). By default all branches share the
journal's counter, which is locked before any till, and there is no circle: that is the
second half of the property.

## Fairness

- A relay's poll timer fires in every process (`OUTBOX_POLL_MS`), the awaits of
  a poll return and backoffs (at most five minutes) end: weak fairness of
  `RelayStep` and `BackoffElapses`. Faults are bounded and never relied on.
- A consumer group always has a member that polls each partition, and an await
  in a handler returns or throws: weak fairness of `Receive` per delivery and of
  `WorkerStep` per worker. Operators, the recorder and faults are not fair.
- A checkout's await returns, and PostgreSQL grants a lock that stays free: weak
  fairness of `RequestStep`. Crashes and throws are not fair, and
  `EveryRequestAnswered` needs none of them.

## The proofs

Each proof module holds for every value of the constants that satisfies the named
assumption of its component (`RelayAssumption`, `ConsumerAssumption`, `SagaAssumption`,
and so on). The assumptions say what type a constant has, that a bound is a natural
number, that the value for "nobody" is not somebody, and of vouchers that there are
finitely many, that no lines are all zero and that `Open` and `Closed` are no lines.

**OutboxRelayProofs.** `LocksExclusive` is not inductive: it does not say that
`batch`, `sent` and `failed` of one relay are disjoint. `LockInv` adds that, and
is preserved because `Due` excludes held rows. `CopiesAccounted` adds to
`PublishedIsInLog` and `DuplicatesNeedFaults` where the faults went: a row that
is pending and held by nobody has at most `relayFaults` copies, and so on for
every state of a row. Proved: `RelayTypeCorrect`, `RelayLocksExclusive`,
`RelayLosesNothing`, `RelayDuplicatesNeedFaults`.

**EventPipelineProofs**, first part, the consumers alone. `EffectInv` strengthens
`EffectAtMostOnce` by why it holds: a worker between claim and outcome is the only
one of its subscription (`OneHandlerAtATime`) because the claim is there for as long
(`ClaimHeld`), and a worker about to apply has seen no effect and nobody can have
made one since (`GuardStillTrue`). `NothingLost` says nothing until a group is done;
what is inductive is `AllAccounted`: at every moment each event in the log has, for
each subscription, an effect, a dead letter that no operator is about to resolve, a
worker busy with it, or a copy that is neither acknowledged nor about to be - or is
lost in one of the three ways. A replay is what makes this delicate: a letter stops
counting once its event has been published again, because the new copy counts from
then on. `CopiesForReplays` counts those letters for `ResolvedWasReplayed`. Proved:
`ConsumerTypeCorrect`, `HandlersExclusive`, `EffectsHappenOnce`, `EventsAreNotLost`,
`ReplaysPrecedeResolution`, for any producer.

Second part, the composition. `ConsumersInPipeline`: a step of a relay is for the
consumers a producer's publishing (or nothing), so the pipeline is one of the
behaviours the first part is about. `PipelineInv` is what the halves know of each
other: an event in the log or in a relay's hands has a row, a marked one is in the log,
and a handler took effect only for what is in the log. Proved:
`MarkedOnlyAfterDelivery`, and `PipelineImplementsContract`, the refinement of
`EventContract`, step by step.

**CheckoutSagaProofs.** `SagaInv` is the type invariant together with `Secured`: for
every step of the transaction, what an earlier step checked under a lock still holds and
the lock is still there - the invoice is a draft, `number` is the counter's next, the
voucher is unused, the card has the points, `entry` is the journal's next. The type
invariant is not inductive without it: that a balance stays a natural number is what the
card's lock is for. A step of one request cannot touch another's rows (`OthersSecured`),
and a commit writes rows it has locked only (`OthersSecuredByInstall`). From there:
`SagaTypeCorrect`; `VouchersRedeemedOnce`; `NumbersAreGapFree`, with "a counter does not
fall below its start"; and `InvoicesSoldOnce` under `Edited = {}`, the case in which it
is true. `PointsAlwaysAddUp` and `TillsAlwaysAddUp` are sums over the committed sales
(`SumTheorems`); for the tills `TillsSecured` adds that what a transaction has raised in
memory is the committed value, still locked, plus its own payments so far.
`CheckoutImplementsContract` maps a commit to a sale, under `Edited = {}` as the sale is
of a draft. `AnswersAreTrue` rests on what a saga row says of its key (`RowTrue`) and
assumes that a key names one invoice: the default key is the invoice's id, but a client
that sends one key for two invoices is replayed the first one's answer.
`CheckoutsWaitInCirclesOnlyAtTills` shows that whoever waits at a step waits for one
that is past it (`WaitsForLater`), so that a circle can close only where all its members
are: in `pay`, where rows are taken in an order the code does not fix. Stock rows have
no order among themselves either, and need none, because only the holder of the branch's
counter locks them; and of two that pay with one journal counter one does not hold it
yet. Nothing is assumed of the tills, only that rows of different tables differ and that
invoices that share stock are of one branch (`RowsApart`).

**StockVouchersProofs.** `BooksAgree` is not inductive: it says nothing of what a
request computed and has not written yet. `VoucherInv` adds `Exclusive` (two requests
meet only on a receipt or an issue that is no draft) and `Fresh`: a request that posts
has read the draft as it still is, and one that edits or cancels has read the voucher's
lines, or a revision that is no longer the voucher's. The heart of it is
`OvertakenStaysFresh`: an edit or cancellation leaves every other request on the voucher
with a revision that will be refused. From there `ChangedInBooks` and `PostedInBooks`
say what a write makes of the ledger, by the sums of `Sums`. Proved:
`VouchersTypeCorrect`, `VouchersBooksAgree`; `MovesCovered`, from `CheckedHeld` (a
checked move holds the balances it takes from); and `VouchersImplementContract`, the
refinement of `VoucherContract`, one action at a time: a failure or a crash between two
nested transactions takes the voucher out of the contract's books and puts what it wrote
into `Astray`, a sum over the torn vouchers (`SumTheorems`). `MayAct` is part of the
specification proved about: the theorems say nothing of two requests on one draft, move
or count.

**DocumentNumberingProofs.** `NumberingInv` says of every number where it is: given
to one committed document, held by one open transaction under the counter's lock,
burned, or skipped, and that a counter is past all of them; of the rules, that a scope
has at most one that numbers a type; and of a first number, that its uncommitted row
keeps others waiting. Proved: `NumberingTyped`, `NumbersAlwaysUnique`,
`GapsAlwaysBurned`, `CutoverAlwaysKeepsNumbers` (while no rule is changed by hand: so
says the property), and `PoolIsStuckOnlyByNested`, for any number of callers that do not
lend: who waits for a row waits for a lent transaction, which holds its one connection and
needs neither another row nor another connection.

**FundsProofs.** `FundsInv` adds to the four properties that what a transaction computed
from is still so: the row of every paper and transfer it will write is locked from its
check to its commit, and so is a deposit fund from the read of its balance. The
movements done and to do of a transaction are, by paper, what its commit makes of the
paper's worth, and in sum what the in-transit account loses. Whence `FundsTyped`,
`VouchersAlwaysAddUp`, `TransitAlwaysAddsUp` and `BalancesAlwaysAddUp`, with any papers
reversed in any order and with no promise of the users.

**AfterSaleProofs.** `AfterSaleInv` is the four invariants at once, since each needs the
others' subtractions to stay in the natural numbers, with what a request has read and
the shape of the rows. A document's counted quantity, money and credit are sums with
zeros for what does not count, so that a step changes one summand of each.
`AfterSaleTyped`, `DebtsAlwaysAddUp` and `MoneyAlwaysAddsUp` assume `Careful` and
nothing else. `ReturnsAlwaysAddUp` does too; it has an inductive invariant of its own,
`QuantityInv`, in which debts and money do not occur, and those may be anything.

**SumTheorems.** The invariants add up over sets with `MapThenSumSet`, a recursive
function on subsets. That it is one, and that adding, removing or changing a
summand does what it should, is proved without induction over an operator: among the
finite subsets for which a lemma failed there would be a smallest one.

TLC only: the liveness properties (`EventuallyPublished`, `EndToEnd`,
`EveryRequestAnswered`; fairness and ENABLED are out of the prover's reach), and the
three properties the code violates.

## What the runs found

Three statements of the repository that the code does not keep; the quotes are
under "findings" in `PROJECT.json`.

1. `post` of a goods receipt publishes after its commit, and when that throws,
   `createAndPost` takes it for a failed posting and deletes the receipt, whose ledger
   rows stay (`FailedReceipt`).
2. An export confirmed with other quantities than the order's leaves the order as it
   was, and the import is derived from the order (`TransferOrders`).
3. A return drafted before its sale was cancelled is checked out afterwards and its
   refund is paid. In the trace the sale was wholly on debt, so that money that was
   never collected is paid out; of a paid sale it goes back twice (`ReturnAfterCancel`).

Met on the way, without a run of their own:

- *Events.* A process that dies between claim and commit leaves a claim that makes every
  later delivery skip (`Orphaned`). A member busy with a message when a rebalance takes
  it away goes on; the new member finds its claim, skips the message and commits. If the
  first one then fails, releases the claim and dies before its retry, or cannot write
  the dead letter, nobody handles the event and no claim is left to show it. Two faults
  are needed, which the proof of `NothingLost` pointed out and a run with one had not.
  Two operators that both passed the PENDING check of a dead letter overwrite each
  other's decision.
- *Checkout.* An edit that passed the draft check before a checkout committed writes the
  draft's columns over the issued invoice. A FAILED row recorded after a COMPLETED one
  hides it from later resends. When COMMIT took effect and its answer was lost, the
  recorder turns the COMPLETED row into a FAILED one. Branches with journal counters of
  their own that pay into shared deposit accounts wait for each other, in opposite order
  of the accounts and in one order too, because of the receipts' counter between two
  accounts. The documented lock order (`checkout-step.ts:11-19`) puts counters before
  cards and does not mention accounts; the code locks the receipts' counter after both.
  The resend of a sale that used a voucher is refused in `resolve-funds`, although
  `load-draft.step.ts:107-113` lets a completed key pass. An invoice's lines are read in
  preflight and not again under its lock.
- *Numbering.* As many callers that do not lend their transaction as the pool has
  connections wait for each other.
- *Stock.* Processing a count, posting an adjustment and a move that does not look write
  the ledger in a transaction of its own, which stays when the outer one fails
  (`OuterFails`), although `stock-take.service.ts:644` and `:736-737` speak of one
  transaction. Two requests post one draft twice.
- *Money.* Cash fund balances and, at the counter, debts are read without a lock and
  written back. A refund in store credit is issued in full though part of it settled a
  debt. A leg of a transfer or swap can be reversed alone, and the transfer confirmed
  nevertheless: the in-transit account then owes. An edit of a voucher that changes its
  fund posts only the difference of the totals, to the new fund. The fee leg of a swap
  carries the reference of the first leg and is found in its place. `confirmImport` of a
  transfer order has no compensation for its last update.

## What is not modelled

Amounts, prices, taxes, ledger accounts and the promotion engine (pure
computation over amounts); who may do what; queries, exports and clients; the
handlers' own tables (the effect of a handler is one transaction). Of the
checkout: lines and quantities, and the insertions. Of the events:
partition order (copies of an event are independent) and the payloads.
Of numbering: the text of a number, editing a rule's format, reset periods other than one.
Of stock: the single-row path of the ledger (imports, the item page), purchase orders'
lines, merging of counts, the documents a processed count generates. Of transfer
orders: two requests at once. Of what comes after a sale: loyalty points, discounts,
journal entries. Of funds: their set-up, drafts posted later, fees, reconciliation counts,
period locks, parties.

Not modelled at all: checkout v1 (superseded by the saga), POS sessions, temp
warehouse, receivables and payables, the journal's reversals, HTTP idempotency,
sales orders, notifications, media, websocket, auth and sessions, reporting and
search, the web clients. The reason for each is in `PROJECT.json`.

Most of the repository's lines are forms, tables, queries, generated clients and
DTOs, which change no state this project could say anything about; the models
cover the handlers that do, and these are a small share of all lines.

## The plan

Done, in this order: the event pipeline (everything else hands its side effects
to it), checkout v2 (the one transaction that touches every table), document
numbering, stock documents with their ledger and contract, transfer orders, what
comes after a sale, funds.

Every invariant of the passing runs is proved, and every refinement. Proofs next:

1. *StockVouchers*: what holds of a second request on a draft, a move or a count without
   `MayAct` (the ledger agrees with the last writer).
2. *Pipeline*: the safety half of `EndToEnd` (an effect, a letter or a loss is final but
   for a replay's resolution).

Models after that: temp warehouse (fulfilment before and after the invoice), POS
sessions, loyalty points (award on the event, redeem, adjust, return), HTTP
idempotency composed with the saga.
