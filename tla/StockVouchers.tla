---------------------------- MODULE StockVouchers ----------------------------
(***************************************************************************)
(* Warehouse vouchers on the stock ledger: goods receipts, goods issues,   *)
(* stock transfers inside a branch ("move") and stock takes with their     *)
(* adjustments ("count").  A request reads its voucher, computes what the  *)
(* books have to change by, and writes that in a transaction of its own,   *)
(* which for receipts and issues looks again at status and revision under  *)
(* a row lock and for moves locks the balances it takes from.              *)
(*                                                                         *)
(* Abstracted: one item; a voucher's lines are the quantities they add at  *)
(* each place, negative where they take; prices, media, numbers.  The      *)
(* receipt and the issue that a processed count generates are left alone.  *)
(***************************************************************************)
EXTENDS Integers, FiniteSetsExt

CONSTANTS
    Vouchers, Places, Requests,
    KindOf,      \* by voucher: "receipt", "issue", "move" or "count"
    LinesOf,     \* by voucher: the lines it may be given
    Open, Closed, None  \* Open and Closed: a voucher not yet in the books, or out of them

Nothing == [p \in Places |-> 0]

ASSUME VoucherAssumption ==
    /\ KindOf \in [Vouchers -> {"receipt", "issue", "move", "count"}]
    /\ \A v \in Vouchers :
          /\ LinesOf[v] \subseteq [Places -> Int]
          /\ Nothing \notin LinesOf[v]
    /\ IsFiniteSet(Vouchers)
    /\ None \notin Requests \cup Vouchers
    /\ Open # Closed
    /\ \A v \in Vouchers : {Open, Closed} \cap LinesOf[v] = {}

VARIABLES
    status, lines, revision,  \* the rows of the vouchers
    ledger,                   \* by voucher: the sum of its ledger rows, by place
    balance,                  \* by place: stock_balances
    held,                     \* by place: the transaction that locks its balance
    pc, op, target,           \* of each request: where it is, what it does
    seen,                     \* the voucher as it read it
    next,                     \* the lines an edit asks for
    torn                      \* history: the vouchers whose books were committed for a request
                              \* whose voucher was not, or was deleted as not posted

rowVars == <<status, lines, revision>>
bookVars == <<ledger, balance>>
requestVars == <<pc, op, target, seen, next>>
vars == <<rowVars, bookVars, held, requestVars, torn>>

Plus(a, b) == [p \in Places |-> a[p] + b[p]]
Minus(a, b) == [p \in Places |-> a[p] - b[p]]

Statuses == {"none", "draft", "posted", "cancelled", "deleted"}
Operations == {"create", "post", "edit", "cancel"}
Unread == [status |-> "none", revision |-> 0, lines |-> Nothing]

VoucherTypeOK ==
    /\ status \in [Vouchers -> Statuses]
    /\ lines \in [Vouchers -> [Places -> Int]]
    /\ revision \in [Vouchers -> Nat]
    /\ ledger \in [Vouchers -> [Places -> Int]]
    /\ \A v \in Vouchers : status[v] # "none" => lines[v] \in LinesOf[v]
    /\ balance \in [Places -> Int]
    /\ held \in [Places -> Requests \cup {None}]
    /\ pc \in [Requests -> {"idle", "drafted", "read", "checked", "inner", "written",
                            "failed", "done"}]
    /\ op \in [Requests -> Operations \cup {None}]
    /\ target \in [Requests -> Vouchers \cup {None}]
    /\ seen \in [Requests -> [status : Statuses, revision : Nat, lines : [Places -> Int]]]
    /\ next \in [Requests -> [Places -> Int]]
    /\ torn \subseteq Vouchers
    /\ \A r \in Requests : pc[r] \notin {"idle", "done"} => op[r] \in Operations /\ target[r] \in Vouchers

Init ==
    /\ status = [v \in Vouchers |-> "none"]
    /\ lines = [v \in Vouchers |-> Nothing]
    /\ revision = [v \in Vouchers |-> 0]
    /\ ledger = [v \in Vouchers |-> Nothing]
    /\ balance = Nothing
    /\ held = [p \in Places |-> None]
    /\ pc = [r \in Requests |-> "idle"]
    /\ op = [r \in Requests |-> None]
    /\ target = [r \in Requests |-> None]
    /\ seen = [r \in Requests |-> Unread]
    /\ next = [r \in Requests |-> Nothing]
    /\ torn = {}

-----------------------------------------------------------------------------
Goto(r, l) ==
    /\ pc' = [pc EXCEPT ![r] = l]
    /\ UNCHANGED <<op, target, seen, next>>

(* The request is over, and what it knew is gone.                          *)
End(r) ==
    /\ pc' = [pc EXCEPT ![r] = "done"]
    /\ op' = [op EXCEPT ![r] = None]
    /\ target' = [target EXCEPT ![r] = None]
    /\ seen' = [seen EXCEPT ![r] = Unread]
    /\ next' = [next EXCEPT ![r] = Nothing]

AtWork(r) == pc[r] \notin {"idle", "done"}

Locked(v) == KindOf[v] \in {"receipt", "issue"}

(* A posted receipt or issue may be worked on by any number of requests.   *)
(* Nothing protects a draft, a move or a count from a second request       *)
(* between read and write: the bound is that there is none.                *)
MayAct(r, v) ==
    \/ Locked(v) /\ status[v] # "draft"
    \/ \A q \in Requests \ {r} : AtWork(q) => target[q] # v

(* create: the voucher is saved as a draft, to be posted by the same       *)
(* request.                                                                *)
CreateDraft(r, v, l) ==
    /\ pc[r] = "idle"
    /\ status[v] = "none" /\ KindOf[v] # "count"
    /\ status' = [status EXCEPT ![v] = "draft"]
    /\ lines' = [lines EXCEPT ![v] = l]
    /\ op' = [op EXCEPT ![r] = "create"]
    /\ target' = [target EXCEPT ![r] = v]
    /\ pc' = [pc EXCEPT ![r] = "drafted"]
    /\ UNCHANGED <<revision, bookVars, held, seen, next, torn>>

(* create of a count: a draft, to be processed by a later request.         *)
CreateCount(r, v, l) ==
    /\ pc[r] = "idle"
    /\ status[v] = "none" /\ KindOf[v] = "count"
    /\ status' = [status EXCEPT ![v] = "draft"]
    /\ lines' = [lines EXCEPT ![v] = l]
    /\ End(r)
    /\ UNCHANGED <<revision, bookVars, held, torn>>

ReadRow(r, v) ==
    seen' = [seen EXCEPT ![r] =
                [status |-> status[v], revision |-> revision[v], lines |-> lines[v]]]

(* post, called by createAndPost.  A draft that another request posted or  *)
(* cancelled since is a conflict.                                          *)
ReadOwnDraft(r) ==
    LET v == target[r]
    IN  /\ pc[r] = "drafted"
        /\ ReadRow(r, v)
        /\ pc' = [pc EXCEPT ![r] = IF status[v] = "draft" THEN "read" ELSE "failed"]
        /\ UNCHANGED <<rowVars, bookVars, held, op, target, next, torn>>

(* post, update and cancel (process of a count) read the voucher and check *)
(* its status.  A posted count cannot be edited or cancelled.              *)
Read(r, v, o, l) ==
    /\ pc[r] = "idle"
    /\ MayAct(r, v)
    /\ status[v] \in {"draft", "posted"}
    /\ o = "post" => status[v] = "draft" /\ l = Nothing
    /\ o = "edit" => l \in LinesOf[v]
    /\ o = "cancel" => l = Nothing
    /\ KindOf[v] = "count" => status[v] = "draft"
    /\ ReadRow(r, v)
    /\ op' = [op EXCEPT ![r] = o]
    /\ target' = [target EXCEPT ![r] = v]
    /\ next' = [next EXCEPT ![r] = l]
    /\ pc' = [pc EXCEPT ![r] = "read"]
    /\ UNCHANGED <<rowVars, bookVars, held, torn>>

-----------------------------------------------------------------------------
Posts(r) == op[r] \in {"create", "post"}

\* Mutant of Change: an edit writes its lines, not the difference.
ChangeWhole(r) ==
    IF Posts(r) THEN seen[r].lines
    ELSE IF seen[r].status # "posted" THEN Nothing
    ELSE IF op[r] = "edit" THEN next[r] ELSE Minus(Nothing, seen[r].lines)

(* computeVoucherDelta: what the books change by, from what was read.      *)
Change(r) ==
    IF Posts(r) THEN seen[r].lines
    ELSE IF seen[r].status # "posted" THEN Nothing
    ELSE Minus(next[r], seen[r].lines)

\* Mutant of Unheld: a writer does not wait for a locked balance.
UnheldIgnored(r) == TRUE

\* The balances a request writes are not locked by another transaction.
Unheld(r) == \A p \in Places : Change(r)[p] # 0 => held[p] \in {None, r}

(* writeBatchMovements: rows are appended to the ledger, and the balances  *)
(* changed by the same quantities.                                         *)
Write(r) ==
    /\ Unheld(r)
    /\ ledger' = [ledger EXCEPT ![target[r]] = Plus(@, Change(r))]
    /\ balance' = Plus(balance, Change(r))

Release(r) == held' = [p \in Places |-> IF held[p] = r THEN None ELSE held[p]]

\* Where a move takes from.
Drained(r) == {p \in Places : Change(r)[p] < 0}

(* A move locks the balances it takes from, one transaction at a time, and *)
(* is refused when one of them is short.  A cancellation does not look, nor *)
(* does POST /:id/post, nor a request whose user has confirmed an overdraft. *)
LockOnHand(r) ==
    /\ pc[r] = "read"
    /\ KindOf[target[r]] = "move"
    /\ op[r] \in {"create", "edit"}
    /\ \A p \in Drained(r) : held[p] = None
    /\ IF \A p \in Drained(r) : balance[p] + Change(r)[p] >= 0
       THEN /\ held' = [p \in Places |-> IF p \in Drained(r) THEN r ELSE held[p]]
            /\ Goto(r, "checked")
       ELSE Goto(r, "failed") /\ UNCHANGED held
    /\ UNCHANGED <<rowVars, bookVars, torn>>

\* A posting whose ledger rows get a transaction of their own: that of a
\* count, and of a move that does not look.
Nested(r) == Posts(r) /\ KindOf[target[r]] \in {"count", "move"}

Ready(r) ==
    \/ pc[r] = "read" /\ ~Nested(r)
    \/ pc[r] = "checked"

\* Mutant of Unchanged: the revision is not compared.
UnchangedStatusOnly(r) == status[target[r]] \notin {"cancelled", "deleted"}

(* update and cancel of receipts and issues: the row, locked, must not be  *)
(* cancelled, and must have the revision that was read.                    *)
Unchanged(r) ==
    LET v == target[r]
    IN  Locked(v) => /\ status[v] \notin {"cancelled", "deleted"}
                     /\ revision[v] = seen[r].revision

(* post: one transaction, that looks at the status no more.                *)
CommitPost(r) ==
    LET v == target[r]
    IN  /\ Ready(r)
        /\ Posts(r)
        /\ Write(r)
        /\ Release(r)
        /\ status' = [status EXCEPT ![v] = IF @ = "deleted" THEN @ ELSE "posted"]
        /\ Goto(r, "written")
        /\ UNCHANGED <<lines, revision, torn>>

(* update: the difference to the books, the new lines in place of the old  *)
(* ones, and, for a receipt or issue that was posted, the next revision.   *)
CommitEdit(r) ==
    LET v == target[r]
    IN  /\ Ready(r)
        /\ op[r] = "edit"
        /\ Unchanged(r)
        /\ Write(r)
        /\ Release(r)
        /\ lines' = [lines EXCEPT ![v] = next[r]]
        /\ revision' = [revision EXCEPT ![v] =
                           IF Locked(v) /\ seen[r].status = "posted"
                           THEN seen[r].revision + 1 ELSE @]
        /\ End(r)
        /\ UNCHANGED <<status, torn>>

\* Mutant of CommitCancel: the voucher is edited down to nothing.
CommitCancelEmpties(r) ==
    LET v == target[r]
    IN  /\ Ready(r)
        /\ op[r] = "cancel"
        /\ Unchanged(r)
        /\ Write(r)
        /\ status' = [status EXCEPT ![v] = "cancelled"]
        /\ lines' = [lines EXCEPT ![v] = Nothing]
        /\ End(r)
        /\ UNCHANGED <<revision, held, torn>>

(* cancel: what the voucher had put in the books is taken out.             *)
CommitCancel(r) ==
    LET v == target[r]
    IN  /\ Ready(r)
        /\ op[r] = "cancel"
        /\ Unchanged(r)
        /\ Write(r)
        /\ status' = [status EXCEPT ![v] = "cancelled"]
        /\ revision' = [revision EXCEPT ![v] =
                           IF Locked(v) /\ seen[r].status = "posted"
                           THEN seen[r].revision + 1 ELSE @]
        /\ End(r)
        /\ UNCHANGED <<lines, held, torn>>

(* An edit or a cancellation finds the row changed.                        *)
Refused(r) ==
    /\ Ready(r)
    /\ ~Posts(r)
    /\ ~Unchanged(r)
    /\ End(r)
    /\ UNCHANGED <<rowVars, bookVars, held, torn>>

-----------------------------------------------------------------------------
(* The ledger is written in a transaction of its own, because              *)
(* recordBatchMovements is not given the outer one ...                     *)
WriteInner(r) ==
    /\ pc[r] = "read"
    /\ Nested(r)
    /\ Write(r)
    /\ Goto(r, "inner")
    /\ UNCHANGED <<rowVars, held, torn>>

(* ... which then commits the status,                                      *)
CommitOuter(r) ==
    /\ pc[r] = "inner"
    /\ status' = [status EXCEPT ![target[r]] = "posted"]
    /\ End(r)
    /\ UNCHANGED <<lines, revision, bookVars, held, torn>>

(* or fails, and rolls back the status alone.                              *)
OuterFails(r) ==
    /\ pc[r] = "inner"
    /\ Goto(r, "failed")
    /\ torn' = torn \cup {target[r]}
    /\ UNCHANGED <<rowVars, bookVars, held>>

-----------------------------------------------------------------------------
(* The events of a post are published after its commit, and an error is    *)
(* logged only.                                                            *)
Publish(r) ==
    /\ pc[r] = "written"
    /\ End(r)
    /\ UNCHANGED <<rowVars, bookVars, held, torn>>

(* GOODS_RECEIPT_POSTED cannot be published, and post throws.              *)
PublishFails(r) ==
    /\ pc[r] = "written"
    /\ KindOf[target[r]] = "receipt"
    /\ Goto(r, "failed")
    /\ UNCHANGED <<rowVars, bookVars, held, torn>>

(* A transaction is rolled back.                                           *)
Abort(r) ==
    /\ pc[r] \in {"drafted", "read", "checked"}
    /\ Release(r)
    /\ Goto(r, "failed")
    /\ UNCHANGED <<rowVars, bookVars, torn>>

(* createAndPost deletes its draft, whatever its status by now; another    *)
(* operation leaves everything as it is.                                   *)
CleanUp(r) ==
    /\ pc[r] = "failed"
    /\ status' = IF op[r] = "create"
                 THEN [status EXCEPT ![target[r]] = "deleted"] ELSE status
    /\ torn' = IF op[r] = "create" /\ status[target[r]] = "posted"
               THEN torn \cup {target[r]} ELSE torn
    /\ End(r)
    /\ UNCHANGED <<lines, revision, bookVars, held>>

(* The process dies: an open transaction is rolled back, a draft stays,    *)
(* and so do ledger rows that have been committed.                         *)
Crash(r) ==
    /\ AtWork(r)
    /\ Release(r)
    /\ torn' = IF pc[r] = "inner" THEN torn \cup {target[r]} ELSE torn
    /\ End(r)
    /\ UNCHANGED <<rowVars, bookVars>>

RequestStep(r) ==
    \/ ReadOwnDraft(r)
    \/ LockOnHand(r)
    \/ CommitPost(r)
    \/ CommitEdit(r)
    \/ CommitCancel(r)
    \/ Refused(r)
    \/ WriteInner(r)
    \/ CommitOuter(r)
    \/ OuterFails(r)
    \/ Publish(r)
    \/ PublishFails(r)
    \/ CleanUp(r)

Next ==
    \E r \in Requests :
        \/ RequestStep(r)
        \/ Abort(r) \/ Crash(r)
        \/ \E v \in Vouchers :
              \/ \E l \in LinesOf[v] :
                    CreateDraft(r, v, l) \/ CreateCount(r, v, l) \/ Read(r, v, "edit", l)
              \/ \E o \in {"post", "cancel"} : Read(r, v, o, Nothing)

Spec == Init /\ [][Next]_vars

-----------------------------------------------------------------------------
\* A voucher between its two transactions.
Halfway(v) == \E r \in Requests : target[r] = v /\ pc[r] = "inner"

(* A voucher's ledger rows add up to its lines while it is posted and to   *)
(* nothing before and after, whatever edits and cancellations were         *)
(* computed from a row that somebody changed since, and whatever crashes   *)
(* and fails: INV-2 of the comment in GoodsIssueService.update.  Only the  *)
(* torn vouchers are left out.                                             *)
BooksAgree ==
    \A v \in Vouchers \ torn :
        ~Halfway(v) => ledger[v] = IF status[v] = "posted" THEN lines[v] ELSE Nothing

(* What a move was found able to take stays there until it takes it: moves *)
(* that run at once with anything else cannot oversell.                    *)
CheckedMovesCovered ==
    \A r \in Requests :
        pc[r] = "checked" => \A p \in Drained(r) : balance[p] + Change(r)[p] >= 0

(* A goods receipt that createAndPost failed to create left nothing        *)
(* behind: "Atomic from the user's point of view" (goods-receipt.service). *)
FailedCreateLeftNothing ==
    \A v \in Vouchers :
        KindOf[v] = "receipt" /\ status[v] = "deleted" => ledger[v] = Nothing

RowsAt(p) == [v \in Vouchers |-> ledger[v][p]]

\* What the torn vouchers have put in the books.
Astray == [p \in Places |-> MapThenSumSet(LAMBDA v : RowsAt(p)[v], torn)]

\* What of a voucher is in the books.
Entry ==
    [v \in Vouchers |->
        IF v \in torn \/ status[v] \in {"cancelled", "deleted"} THEN Closed
        ELSE IF status[v] = "posted" \/ Halfway(v) THEN lines[v]
        ELSE Open]

Contract == INSTANCE VoucherContract WITH entry <- Entry, stock <- Minus(balance, Astray)

(* The vouchers implement their contract: the stock on hand moves exactly  *)
(* by what a voucher's entering, changing and leaving the books makes of   *)
(* it, once each; a voucher that is torn leaves, and its rows are nobody's. *)
ImplementsContract == Contract!Spec
=============================================================================
