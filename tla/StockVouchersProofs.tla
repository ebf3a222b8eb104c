------------------------- MODULE StockVouchersProofs -------------------------
(***************************************************************************)
(* Proofs about StockVouchers, for any vouchers, places, lines and         *)
(* requests.                                                               *)
(***************************************************************************)
EXTENDS StockVouchers, SumTheorems, TLAPS

-----------------------------------------------------------------------------
(* Who may be at work on what.  A request works on a voucher that exists;  *)
(* two requests meet only on a receipt or an issue that is no draft.       *)
Exclusive ==
    /\ \A r \in Requests : AtWork(r) => status[target[r]] # "none"
    /\ \A q, r \in Requests :
          q # r /\ AtWork(q) /\ AtWork(r) /\ target[q] = target[r]
          => Locked(target[r]) /\ status[target[r]] # "draft"

\* What a request that posts relies on: its voucher is the draft it read.
PostFresh(r) ==
    LET v == target[r]
    IN  /\ pc[r] = "drafted" => op[r] = "create" /\ status[v] = "draft"
        /\ pc[r] \in {"read", "checked", "inner"} /\ Posts(r) =>
              /\ status[v] = "draft"
              /\ seen[r].status = "draft"
              /\ seen[r].lines = lines[v]
        /\ pc[r] = "inner" => Posts(r) /\ (v \notin torn => ledger[v] = lines[v])

\* What an edit or a cancellation relies on: the lines it read are those of
\* the voucher for as long as the revision it read is.
ChangeFresh(r) ==
    LET v == target[r]
    IN  pc[r] \in {"read", "checked"} /\ ~Posts(r) =>
          /\ op[r] = "edit" => next[r] \in LinesOf[v]
          /\ op[r] = "cancel" => next[r] = Nothing
          /\ seen[r].status = "draft" => status[v] = "draft" /\ seen[r].lines = lines[v]
          /\ seen[r].status # "draft" =>
                /\ seen[r].status = "posted"
                /\ status[v] \in {"posted", "cancelled", "deleted"}
                /\ seen[r].revision <= revision[v]
                /\ ~Locked(v) => status[v] = "posted" /\ seen[r].lines = lines[v]
                /\ seen[r].revision = revision[v] /\ status[v] = "posted"
                      => seen[r].lines = lines[v]

Fresh == \A r \in Requests : AtWork(r) => PostFresh(r) /\ ChangeFresh(r)

VoucherInv == VoucherTypeOK /\ Exclusive /\ Fresh /\ BooksAgree

\* What a move was checked against is locked by it.
CheckedHeld ==
    \A r \in Requests : pc[r] = "checked" => \A p \in Drained(r) : held[p] = r

-----------------------------------------------------------------------------
\* Quantities by place.
Quantities == [Places -> Int]

(* The sums and differences the books are kept with.                       *)
LEMMA Sums ==
    ASSUME NEW a \in Quantities, NEW b \in Quantities
    PROVE  /\ Plus(a, b) \in Quantities
           /\ Minus(a, b) \in Quantities
           /\ Nothing \in Quantities
           /\ Plus(a, Nothing) = a
           /\ Plus(Nothing, a) = a
           /\ Plus(a, Minus(b, a)) = b
           /\ Minus(Nothing, a) \in Quantities
  BY DEF Plus, Minus, Nothing, Quantities

(* The lines a voucher may be given are quantities.                        *)
LEMMA LinesAreQuantities ==
    ASSUME NEW v \in Vouchers, NEW l \in LinesOf[v]
    PROVE  l \in Quantities /\ l # Nothing
  BY VoucherAssumption DEF Quantities

(* What a request changes the books by is a quantity at each place.        *)
LEMMA ChangeType ==
    ASSUME VoucherTypeOK, NEW r \in Requests
    PROVE  Change(r) \in Quantities
<1>1. seen[r].lines \in Quantities /\ next[r] \in Quantities /\ Nothing \in Quantities
  BY DEF VoucherTypeOK, Quantities, Nothing
<1>2. QED
  BY <1>1, Sums DEF Change

(* Writing to the books leaves quantities in them.                         *)
LEMMA WriteType ==
    ASSUME VoucherTypeOK, NEW r \in Requests, target[r] \in Vouchers, Write(r)
    PROVE  /\ ledger' \in [Vouchers -> Quantities]
           /\ balance' \in Quantities
           /\ ledger' = [ledger EXCEPT ![target[r]] = Plus(@, Change(r))]
           /\ balance' = Plus(balance, Change(r))
<1>1. Change(r) \in Quantities
  BY ChangeType
<1>2. ledger \in [Vouchers -> Quantities] /\ balance \in Quantities
  BY DEF VoucherTypeOK, Quantities
<1>3. Plus(ledger[target[r]], Change(r)) \in Quantities /\ Plus(balance, Change(r)) \in Quantities
  BY <1>1, <1>2, Sums
<1>4. QED
  BY <1>2, <1>3 DEF Write

-----------------------------------------------------------------------------
(* A request at work has a voucher, and one that is done knows nothing.    *)
LEMMA EndType ==
    ASSUME VoucherTypeOK, NEW r \in Requests, End(r)
    PROVE  /\ pc' \in [Requests -> {"idle", "drafted", "read", "checked", "inner",
                                     "written", "failed", "done"}]
           /\ op' \in [Requests -> Operations \cup {None}]
           /\ target' \in [Requests -> Vouchers \cup {None}]
           /\ seen' \in [Requests -> [status : Statuses, revision : Nat, lines : Quantities]]
           /\ next' \in [Requests -> Quantities]
           /\ \A q \in Requests : pc'[q] \notin {"idle", "done"}
                 => op'[q] \in Operations /\ target'[q] \in Vouchers
<1>1. Unread \in [status : Statuses, revision : Nat, lines : Quantities]
  BY DEF Unread, Statuses, Quantities, Nothing
<1>2. Nothing \in Quantities
  BY DEF Nothing, Quantities
<1>3. QED
  BY <1>1, <1>2 DEF End, VoucherTypeOK, Quantities

(* A step within an operation leaves what the request knows as it is.      *)
LEMMA GotoType ==
    ASSUME VoucherTypeOK, NEW r \in Requests, NEW l \in {"checked", "inner", "written", "failed"},
           Goto(r, l), AtWork(r)
    PROVE  /\ pc' \in [Requests -> {"idle", "drafted", "read", "checked", "inner",
                                     "written", "failed", "done"}]
           /\ op' \in [Requests -> Operations \cup {None}]
           /\ target' \in [Requests -> Vouchers \cup {None}]
           /\ seen' \in [Requests -> [status : Statuses, revision : Nat, lines : Quantities]]
           /\ next' \in [Requests -> Quantities]
           /\ \A q \in Requests : pc'[q] \notin {"idle", "done"}
                 => op'[q] \in Operations /\ target'[q] \in Vouchers
  BY DEF Goto, AtWork, VoucherTypeOK, Quantities

(* Reading a voucher's row gives one of its kind.                          *)
LEMMA ReadRowType ==
    ASSUME VoucherTypeOK, NEW r \in Requests, NEW v \in Vouchers, ReadRow(r, v)
    PROVE  seen' \in [Requests -> [status : Statuses, revision : Nat, lines : Quantities]]
<1>1. [status |-> status[v], revision |-> revision[v], lines |-> lines[v]]
        \in [status : Statuses, revision : Nat, lines : Quantities]
  BY DEF VoucherTypeOK, Quantities
<1>2. QED
  BY <1>1 DEF ReadRow, VoucherTypeOK, Quantities

(* The revision an edit or a cancellation writes is a number.              *)
LEMMA RevisionType ==
    ASSUME VoucherTypeOK, NEW r \in Requests, target[r] \in Vouchers,
           revision' = [revision EXCEPT ![target[r]] =
                           IF Locked(target[r]) /\ seen[r].status = "posted"
                           THEN seen[r].revision + 1 ELSE @]
    PROVE  revision' \in [Vouchers -> Nat]
<1>1. revision[target[r]] \in Nat /\ seen[r].revision \in Nat
  BY DEF VoucherTypeOK
<1>2. QED
  BY <1>1 DEF VoucherTypeOK

(* A place's lock is a request or nobody.                                  *)
LEMMA ReleaseType ==
    ASSUME VoucherTypeOK, NEW r \in Requests, Release(r)
    PROVE  held' \in [Places -> Requests \cup {None}]
  BY DEF Release, VoucherTypeOK

(* Every action keeps the types, given that a request at work relies on    *)
(* what it read.                                                           *)
LEMMA TypeStep ==
    ASSUME VoucherInv, [Next]_vars
    PROVE  VoucherTypeOK'
<1> USE DEF VoucherInv
<1> DEFINE Rows == [status : Statuses, revision : Nat, lines : Quantities]
<1>0. VoucherTypeOK /\ \A r \in Requests : AtWork(r) => target[r] \in Vouchers
  BY DEF VoucherTypeOK, AtWork
<1>1. ASSUME NEW r \in Requests, NEW v \in Vouchers, NEW l \in LinesOf[v], CreateDraft(r, v, l)
      PROVE  VoucherTypeOK'
  <2>1. l \in Quantities
    BY LinesAreQuantities
  <2>2. QED
    BY <1>1, <2>1 DEF CreateDraft, VoucherTypeOK, Quantities, Statuses, Operations, bookVars
<1>2. ASSUME NEW r \in Requests, NEW v \in Vouchers, NEW l \in LinesOf[v], CreateCount(r, v, l)
      PROVE  VoucherTypeOK'
  <2>1. l \in Quantities
    BY LinesAreQuantities
  <2>2. End(r)
    BY <1>2 DEF CreateCount
  <2>3. QED
    BY <1>2, <2>1, <2>2, EndType DEF CreateCount, VoucherTypeOK, Quantities, Statuses, bookVars
<1>3. ASSUME NEW r \in Requests, NEW v \in Vouchers, NEW o \in {"edit", "post", "cancel"}, NEW l,
             o = "edit" => l \in LinesOf[v], o # "edit" => l = Nothing, Read(r, v, o, l)
      PROVE  VoucherTypeOK'
  <2>1. l \in Quantities
    BY <1>3, LinesAreQuantities DEF Nothing, Quantities
  <2>2. seen' \in [Requests -> Rows]
    BY <1>3, ReadRowType DEF Read
  <2>3. QED
    BY <1>3, <2>1, <2>2 DEF Read, VoucherTypeOK, Quantities, Operations, rowVars, bookVars
<1>4. ASSUME NEW r \in Requests, ReadOwnDraft(r)
      PROVE  VoucherTypeOK'
  <2>1. AtWork(r) /\ ReadRow(r, target[r])
    BY <1>4 DEF ReadOwnDraft, AtWork
  <2>2. seen' \in [Requests -> Rows]
    BY <1>0, <2>1, ReadRowType
  <2>3. QED
    BY <1>0, <1>4, <2>1, <2>2 DEF ReadOwnDraft, VoucherTypeOK, Quantities, rowVars, bookVars, AtWork
<1>5. ASSUME NEW r \in Requests, LockOnHand(r)
      PROVE  VoucherTypeOK'
  <2>1. AtWork(r) /\ (Goto(r, "checked") \/ Goto(r, "failed"))
    BY <1>5 DEF LockOnHand, AtWork
  <2>2. held' \in [Places -> Requests \cup {None}]
    BY <1>5 DEF LockOnHand, VoucherTypeOK
  <2>3. QED
    BY <1>5, <2>1, <2>2, GotoType DEF LockOnHand, VoucherTypeOK, Quantities, rowVars, bookVars
<1>6. ASSUME NEW r \in Requests, CommitPost(r)
      PROVE  VoucherTypeOK'
  <2>1. AtWork(r) /\ Goto(r, "written") /\ Write(r) /\ Release(r) /\ target[r] \in Vouchers
    BY <1>0, <1>6 DEF CommitPost, Ready, AtWork
  <2>2. status[target[r]] # "none"
    BY <2>1 DEF Exclusive
  <2>3. QED
    BY <1>6, <2>1, <2>2, GotoType, WriteType, ReleaseType
    DEF CommitPost, VoucherTypeOK, Quantities, Statuses
<1>7. ASSUME NEW r \in Requests, CommitEdit(r)
      PROVE  VoucherTypeOK'
  <2>1. AtWork(r) /\ End(r) /\ Write(r) /\ Release(r) /\ target[r] \in Vouchers
    BY <1>0, <1>7 DEF CommitEdit, Ready, AtWork
  <2>2. next[r] \in LinesOf[target[r]]
    BY <1>7, <2>1 DEF CommitEdit, Ready, Fresh, ChangeFresh, Posts
  <2>3. next[r] \in Quantities
    BY <2>1, <2>2, LinesAreQuantities
  <2>4. revision' \in [Vouchers -> Nat]
    BY <1>7, <2>1, RevisionType DEF CommitEdit
  <2>5. QED
    BY <1>7, <2>1, <2>2, <2>3, <2>4, EndType, WriteType, ReleaseType
    DEF CommitEdit, VoucherTypeOK, Quantities
<1>8. ASSUME NEW r \in Requests, CommitCancel(r)
      PROVE  VoucherTypeOK'
  <2>1. AtWork(r) /\ End(r) /\ Write(r) /\ target[r] \in Vouchers
    BY <1>0, <1>8 DEF CommitCancel, Ready, AtWork
  <2>2. status[target[r]] # "none"
    BY <2>1 DEF Exclusive
  <2>3. revision' \in [Vouchers -> Nat]
    BY <1>8, <2>1, RevisionType DEF CommitCancel
  <2>4. QED
    BY <1>8, <2>1, <2>2, <2>3, EndType, WriteType
    DEF CommitCancel, VoucherTypeOK, Quantities, Statuses
<1>9. ASSUME NEW r \in Requests, Refused(r)
      PROVE  VoucherTypeOK'
  BY <1>9, EndType DEF Refused, VoucherTypeOK, Quantities, rowVars, bookVars
<1>10. ASSUME NEW r \in Requests, WriteInner(r)
       PROVE  VoucherTypeOK'
  <2>1. AtWork(r) /\ Goto(r, "inner") /\ Write(r) /\ target[r] \in Vouchers
    BY <1>0, <1>10 DEF WriteInner, AtWork
  <2>2. QED
    BY <1>10, <2>1, GotoType, WriteType DEF WriteInner, VoucherTypeOK, Quantities, rowVars
<1>11. ASSUME NEW r \in Requests, CommitOuter(r)
       PROVE  VoucherTypeOK'
  <2>1. AtWork(r) /\ End(r) /\ target[r] \in Vouchers
    BY <1>0, <1>11 DEF CommitOuter, AtWork
  <2>2. status[target[r]] # "none"
    BY <2>1 DEF Exclusive
  <2>3. QED
    BY <1>11, <2>1, <2>2, EndType DEF CommitOuter, VoucherTypeOK, Quantities, Statuses, bookVars
<1>12. ASSUME NEW r \in Requests, Publish(r)
       PROVE  VoucherTypeOK'
  BY <1>12, EndType DEF Publish, VoucherTypeOK, Quantities, rowVars, bookVars
<1>13. ASSUME NEW r \in Requests, CleanUp(r)
       PROVE  VoucherTypeOK'
  <2>1. AtWork(r) /\ End(r) /\ target[r] \in Vouchers
    BY <1>0, <1>13 DEF CleanUp, AtWork
  <2>2. status[target[r]] # "none"
    BY <2>1 DEF Exclusive
  <2>3. QED
    BY <1>13, <2>1, <2>2, EndType DEF CleanUp, VoucherTypeOK, Quantities, Statuses, bookVars
<1>14. ASSUME NEW r \in Requests, Abort(r)
       PROVE  VoucherTypeOK'
  <2>1. AtWork(r) /\ Goto(r, "failed") /\ Release(r)
    BY <1>14 DEF Abort, AtWork
  <2>2. QED
    BY <1>14, <2>1, GotoType, ReleaseType DEF Abort, VoucherTypeOK, Quantities, rowVars, bookVars
<1>15. ASSUME NEW r \in Requests, Crash(r)
       PROVE  VoucherTypeOK'
  <2>1. AtWork(r) /\ target[r] \in Vouchers
    BY <1>0, <1>15 DEF Crash
  <2>2. QED
    BY <1>15, <2>1, EndType, ReleaseType DEF Crash, VoucherTypeOK, Quantities, rowVars, bookVars
<1>16. ASSUME NEW r \in Requests, OuterFails(r) \/ PublishFails(r)
       PROVE  VoucherTypeOK'
  <2>1. AtWork(r) /\ Goto(r, "failed") /\ target[r] \in Vouchers
    BY <1>0, <1>16 DEF OuterFails, PublishFails, AtWork
  <2>2. QED
    BY <1>16, <2>1, GotoType DEF OuterFails, PublishFails, VoucherTypeOK, Quantities, rowVars, bookVars
<1>17. CASE UNCHANGED vars
  BY <1>17 DEF vars, rowVars, bookVars, requestVars, VoucherTypeOK
<1>18. QED
  BY <1>1, <1>2, <1>3, <1>4, <1>5, <1>6, <1>7, <1>8, <1>9, <1>10, <1>11, <1>12, <1>13, <1>14,
     <1>15, <1>16, <1>17 DEF Next, RequestStep

(* Every action keeps requests apart.                                      *)
LEMMA ExclusiveStep ==
    ASSUME VoucherInv, [Next]_vars
    PROVE  Exclusive'
<1> USE DEF VoucherInv
<1>0. VoucherTypeOK /\ \A r \in Requests : AtWork(r) => target[r] \in Vouchers
  BY DEF VoucherTypeOK, AtWork
<1>1. ASSUME NEW r \in Requests, NEW v \in Vouchers, NEW l \in LinesOf[v], CreateDraft(r, v, l)
      PROVE  Exclusive'
  BY <1>0, <1>1 DEF CreateDraft, Exclusive, AtWork, Locked, VoucherTypeOK
<1>2. ASSUME NEW r \in Requests, NEW v \in Vouchers, NEW l \in LinesOf[v], CreateCount(r, v, l)
      PROVE  Exclusive'
  BY <1>0, <1>2 DEF CreateCount, End, Exclusive, AtWork, Locked, VoucherTypeOK
<1>3. ASSUME NEW r \in Requests, NEW v \in Vouchers, NEW o \in {"edit", "post", "cancel"}, NEW l,
             o = "edit" => l \in LinesOf[v], o # "edit" => l = Nothing, Read(r, v, o, l)
      PROVE  Exclusive'
  BY <1>0, <1>3 DEF Read, MayAct, rowVars, Operations, Exclusive, AtWork, Locked, VoucherTypeOK
<1>4. ASSUME NEW r \in Requests, ReadOwnDraft(r)
      PROVE  Exclusive'
  BY <1>0, <1>4 DEF ReadOwnDraft, rowVars, Exclusive, AtWork, Locked, VoucherTypeOK
<1>5. ASSUME NEW r \in Requests, LockOnHand(r)
      PROVE  Exclusive'
  <2>1. Goto(r, "checked") \/ Goto(r, "failed")
    BY <1>5 DEF LockOnHand
  <2>2. AtWork(r) /\ UNCHANGED <<rowVars, target>> /\ \A q \in Requests : AtWork(q)' => AtWork(q)
    BY <1>5, <2>1 DEF LockOnHand, Goto, AtWork, VoucherTypeOK
  <2>3. QED
    BY <2>2 DEF rowVars, Exclusive, Locked
<1>6. ASSUME NEW r \in Requests, CommitPost(r)
      PROVE  Exclusive'
  BY <1>0, <1>6 DEF CommitPost, Ready, Goto, Exclusive, AtWork, Locked, VoucherTypeOK
<1>7. ASSUME NEW r \in Requests, CommitEdit(r)
      PROVE  Exclusive'
  BY <1>0, <1>7 DEF CommitEdit, Ready, End, Exclusive, AtWork, Locked, VoucherTypeOK
<1>8. ASSUME NEW r \in Requests, CommitCancel(r)
      PROVE  Exclusive'
  BY <1>0, <1>8 DEF CommitCancel, Ready, End, Exclusive, AtWork, Locked, VoucherTypeOK
<1>9. ASSUME NEW r \in Requests, Refused(r)
      PROVE  Exclusive'
  BY <1>0, <1>9 DEF Refused, End, rowVars, Exclusive, AtWork, Locked, VoucherTypeOK
<1>10. ASSUME NEW r \in Requests, WriteInner(r)
      PROVE  Exclusive'
  BY <1>0, <1>10 DEF WriteInner, Goto, rowVars, Exclusive, AtWork, Locked, VoucherTypeOK
<1>11. ASSUME NEW r \in Requests, CommitOuter(r)
      PROVE  Exclusive'
  BY <1>0, <1>11 DEF CommitOuter, End, Exclusive, AtWork, Locked, VoucherTypeOK
<1>12. ASSUME NEW r \in Requests, Publish(r)
      PROVE  Exclusive'
  BY <1>0, <1>12 DEF Publish, End, rowVars, Exclusive, AtWork, Locked, VoucherTypeOK
<1>13. ASSUME NEW r \in Requests, CleanUp(r)
      PROVE  Exclusive'
  BY <1>0, <1>13 DEF CleanUp, End, Exclusive, AtWork, Locked, VoucherTypeOK
<1>14. ASSUME NEW r \in Requests, Abort(r)
      PROVE  Exclusive'
  BY <1>0, <1>14 DEF Abort, Goto, rowVars, Exclusive, AtWork, Locked, VoucherTypeOK
<1>15. ASSUME NEW r \in Requests, Crash(r)
      PROVE  Exclusive'
  BY <1>0, <1>15 DEF Crash, End, rowVars, Exclusive, AtWork, Locked, VoucherTypeOK
<1>16. ASSUME NEW r \in Requests, OuterFails(r) \/ PublishFails(r)
       PROVE  Exclusive'
  BY <1>0, <1>16 DEF OuterFails, PublishFails, Goto, rowVars, Exclusive, AtWork, Locked, VoucherTypeOK
<1>17. CASE UNCHANGED vars
  BY <1>17 DEF vars, rowVars, bookVars, requestVars, Exclusive, AtWork, Locked
<1>18. QED
  BY <1>1, <1>2, <1>3, <1>4, <1>5, <1>6, <1>7, <1>8, <1>9, <1>10, <1>11, <1>12, <1>13, <1>14, <1>15, <1>16,
     <1>17 DEF Next, RequestStep

-----------------------------------------------------------------------------
(* A request relies on what it read for as long as nobody touches its      *)
(* voucher.                                                                *)
LEMMA UntouchedStaysFresh ==
    ASSUME VoucherInv, NEW q \in Requests, AtWork(q),
           pc'[q] = pc[q], op'[q] = op[q], target'[q] = target[q], seen'[q] = seen[q],
           next'[q] = next[q],
           status'[target[q]] = status[target[q]], lines'[target[q]] = lines[target[q]],
           revision'[target[q]] = revision[target[q]], ledger'[target[q]] = ledger[target[q]],
           torn \subseteq torn'
    PROVE  PostFresh(q)' /\ ChangeFresh(q)'
<1>1. PostFresh(q) /\ ChangeFresh(q)
  BY DEF VoucherInv, Fresh
<1>2. PostFresh(q)'
  BY <1>1 DEF PostFresh, Posts
<1>3. ChangeFresh(q)'
  BY <1>1 DEF ChangeFresh, Posts, Locked
<1>4. QED
  BY <1>2, <1>3

(* A request that posts, or cleans its draft up, is alone with its voucher. *)
LEMMA PostsAlone ==
    ASSUME VoucherInv, NEW r \in Requests, AtWork(r), status[target[r]] = "draft",
           NEW q \in Requests, q # r, AtWork(q)
    PROVE  target[q] # target[r]
  BY DEF VoucherInv, Exclusive

(* What the edit or cancellation of a receipt or issue leaves to another   *)
(* one of the same voucher: a revision that is not the one it read, or a   *)
(* voucher out of the books.                                               *)
LEMMA OvertakenStaysFresh ==
    ASSUME VoucherInv, NEW q \in Requests, NEW r \in Requests, q # r,
           AtWork(q), AtWork(r), target[q] = target[r], target[r] \in Vouchers,
           pc[r] \in {"read", "checked"}, ~Posts(r), Unchanged(r),
           pc'[q] = pc[q], op'[q] = op[q], target'[q] = target[q], seen'[q] = seen[q],
           next'[q] = next[q],
           status'[target[r]] \in {"posted", "cancelled", "deleted"},
           revision'[target[r]] = IF Locked(target[r]) /\ seen[r].status = "posted"
                                  THEN seen[r].revision + 1 ELSE revision[target[r]]
    PROVE  PostFresh(q)' /\ ChangeFresh(q)'
<1> DEFINE v == target[r]
<1>1. Locked(v) /\ status[v] # "draft"
  BY DEF VoucherInv, Exclusive
<1>2. PostFresh(q) /\ ChangeFresh(q) /\ ChangeFresh(r)
  BY DEF VoucherInv, Fresh
<1>3. seen[r].status = "posted" /\ revision[v] = seen[r].revision /\ revision[v] \in Nat
      /\ seen[q].revision \in Nat
  BY <1>1, <1>2 DEF ChangeFresh, Unchanged, VoucherInv, VoucherTypeOK
<1>4. revision'[v] = revision[v] + 1
  BY <1>1, <1>3
<1>5. PostFresh(q)'
  BY <1>1, <1>2 DEF PostFresh, Posts
<1>6. ChangeFresh(q)'
  BY <1>1, <1>2, <1>3, <1>4 DEF ChangeFresh, Posts, Locked
<1>7. QED
  BY <1>5, <1>6

(* An action of one request, that touches no voucher another one is at     *)
(* work on, and leaves what it does itself rely on in order.               *)
LEMMA FreshFrom ==
    ASSUME VoucherInv, NEW r \in Requests,
           \A q \in Requests \ {r} :
              /\ pc'[q] = pc[q] /\ op'[q] = op[q] /\ target'[q] = target[q]
              /\ seen'[q] = seen[q] /\ next'[q] = next[q],
           \A q \in Requests \ {r} : AtWork(q) =>
              /\ status'[target[q]] = status[target[q]] /\ lines'[target[q]] = lines[target[q]]
              /\ revision'[target[q]] = revision[target[q]]
              /\ ledger'[target[q]] = ledger[target[q]],
           torn \subseteq torn',
           AtWork(r)' => PostFresh(r)' /\ ChangeFresh(r)'
    PROVE  Fresh'
<1>1. ASSUME NEW q \in Requests, q # r, AtWork(q)'
      PROVE  PostFresh(q)' /\ ChangeFresh(q)'
  <2>1. AtWork(q)
    BY <1>1 DEF AtWork
  <2>2. QED
    BY <1>1, <2>1, UntouchedStaysFresh
<1>2. QED
  BY <1>1 DEF Fresh

(* Every action keeps what the others, and its own request, rely on.       *)
LEMMA FreshStep ==
    ASSUME VoucherInv, [Next]_vars
    PROVE  Fresh'
<1>0. VoucherTypeOK /\ Exclusive /\ Fresh /\ BooksAgree
      /\ \A r \in Requests : AtWork(r) => target[r] \in Vouchers
  BY DEF VoucherInv, VoucherTypeOK, AtWork
<1>1. ASSUME NEW r \in Requests, NEW v \in Vouchers, NEW l \in LinesOf[v], CreateDraft(r, v, l)
      PROVE  Fresh'
  <2>1. \A q \in Requests : AtWork(q) => target[q] # v
    BY <1>0, <1>1 DEF CreateDraft, Exclusive
  <2>2. PostFresh(r)' /\ ChangeFresh(r)'
    BY <1>0, <1>1 DEF CreateDraft, PostFresh, ChangeFresh, Posts, VoucherTypeOK
  <2>3. QED
    BY <1>0, <1>1, <2>1, <2>2, FreshFrom DEF CreateDraft, bookVars, VoucherTypeOK
<1>2. ASSUME NEW r \in Requests, NEW v \in Vouchers, NEW l \in LinesOf[v], CreateCount(r, v, l)
      PROVE  Fresh'
  <2>1. \A q \in Requests : AtWork(q) => target[q] # v
    BY <1>0, <1>2 DEF CreateCount, Exclusive
  <2>2. ~AtWork(r)'
    BY <1>0, <1>2 DEF CreateCount, End, AtWork, VoucherTypeOK
  <2>3. QED
    BY <1>0, <1>2, <2>1, <2>2, FreshFrom DEF CreateCount, End, bookVars, VoucherTypeOK
<1>3. ASSUME NEW r \in Requests, NEW v \in Vouchers, NEW o \in {"edit", "post", "cancel"}, NEW l,
             o = "edit" => l \in LinesOf[v], o # "edit" => l = Nothing, Read(r, v, o, l)
      PROVE  Fresh'
  <2>1. /\ pc'[r] = "read" /\ op'[r] = o /\ target'[r] = v /\ next'[r] = l
        /\ seen'[r] = [status |-> status[v], revision |-> revision[v], lines |-> lines[v]]
        /\ status[v] \in {"draft", "posted"}
        /\ o = "post" => status[v] = "draft"
        /\ revision[v] \in Nat
        /\ UNCHANGED <<status, lines, revision, ledger>>
    BY <1>0, <1>3 DEF Read, ReadRow, rowVars, bookVars, VoucherTypeOK
  <2>2. PostFresh(r)'
    BY <1>3, <2>1 DEF PostFresh, Posts
  <2>3. ChangeFresh(r)'
    BY <1>3, <2>1 DEF ChangeFresh, Posts, Locked
  <2>4. QED
    BY <1>0, <1>3, <2>1, <2>2, <2>3, FreshFrom DEF Read, ReadRow, VoucherTypeOK
<1>4. ASSUME NEW r \in Requests, ReadOwnDraft(r)
      PROVE  Fresh'
  <2> DEFINE v == target[r]
  <2>1. pc[r] = "drafted" /\ AtWork(r) /\ op[r] = "create" /\ status[v] = "draft"
    BY <1>0, <1>4 DEF ReadOwnDraft, AtWork, Fresh, PostFresh
  <2>2. /\ pc'[r] = "read" /\ op'[r] = "create" /\ target'[r] = v
        /\ seen'[r] = [status |-> status[v], revision |-> revision[v], lines |-> lines[v]]
        /\ UNCHANGED <<status, lines, revision, ledger>>
    BY <1>0, <1>4, <2>1 DEF ReadOwnDraft, ReadRow, rowVars, bookVars, VoucherTypeOK
  <2>3. PostFresh(r)' /\ ChangeFresh(r)'
    BY <2>1, <2>2 DEF PostFresh, ChangeFresh, Posts
  <2>4. QED
    BY <1>0, <1>4, <2>2, <2>3, FreshFrom DEF ReadOwnDraft, ReadRow, VoucherTypeOK
<1>5. ASSUME NEW r \in Requests, LockOnHand(r)
      PROVE  Fresh'
  <2>1. pc[r] = "read" /\ AtWork(r) /\ UNCHANGED <<status, lines, revision, ledger, torn>>
    BY <1>5 DEF LockOnHand, AtWork, rowVars, bookVars
  <2>2. PostFresh(r) /\ ChangeFresh(r)
    BY <1>0, <2>1 DEF Fresh
  <2>3. Goto(r, "checked") \/ Goto(r, "failed")
    BY <1>5 DEF LockOnHand
  <2>4. PostFresh(r)' /\ ChangeFresh(r)'
    BY <1>0, <2>1, <2>2, <2>3 DEF PostFresh, ChangeFresh, Posts, Locked, Goto, VoucherTypeOK
  <2>5. QED
    BY <1>0, <2>1, <2>3, <2>4, FreshFrom DEF Goto, VoucherTypeOK
<1>6. ASSUME NEW r \in Requests, CommitPost(r)
      PROVE  Fresh'
  <2>1. AtWork(r) /\ Goto(r, "written") /\ Write(r) /\ target[r] \in Vouchers
    BY <1>0, <1>6 DEF CommitPost, Ready, AtWork
  <2>2. status[target[r]] = "draft"
    BY <1>0, <1>6, <2>1 DEF CommitPost, Ready, Fresh, PostFresh
  <2>3. \A q \in Requests \ {r} : AtWork(q) => target[q] # target[r]
    BY <2>1, <2>2, PostsAlone
  <2>4. PostFresh(r)' /\ ChangeFresh(r)'
    BY <1>0, <2>1 DEF PostFresh, ChangeFresh, Goto, VoucherTypeOK
  <2>5. QED
    BY <1>0, <1>6, <2>1, <2>3, <2>4, FreshFrom DEF CommitPost, Write, Goto, VoucherTypeOK
<1>7. ASSUME NEW r \in Requests, NEW q \in Requests, q # r, AtWork(q), CommitEdit(r)
      PROVE  PostFresh(q)' /\ ChangeFresh(q)'
  <2>1. AtWork(r) /\ End(r) /\ Write(r) /\ Unchanged(r) /\ target[r] \in Vouchers /\ ~Posts(r)
        /\ pc[r] \in {"read", "checked"} /\ UNCHANGED status
    BY <1>0, <1>7 DEF CommitEdit, Ready, AtWork, Posts
  <2>2. pc'[q] = pc[q] /\ op'[q] = op[q] /\ target'[q] = target[q] /\ seen'[q] = seen[q]
        /\ next'[q] = next[q]
    BY <1>0, <1>7, <2>1 DEF End, VoucherTypeOK
  <2>3. CASE target[q] = target[r]
    <3>1. Locked(target[r]) /\ status[target[r]] # "draft" /\ ChangeFresh(r)
      BY <1>0, <1>7, <2>1, <2>3 DEF Exclusive, Fresh
    <3>2. status'[target[r]] = "posted"
      BY <2>1, <3>1 DEF ChangeFresh, Unchanged
    <3>3. revision'[target[r]] = IF Locked(target[r]) /\ seen[r].status = "posted"
                                 THEN seen[r].revision + 1 ELSE revision[target[r]]
      BY <1>0, <1>7, <2>1 DEF CommitEdit, VoucherTypeOK
    <3>4. QED
      BY <1>7, <2>1, <2>2, <2>3, <3>2, <3>3, OvertakenStaysFresh
  <2>4. CASE target[q] # target[r]
    BY <1>0, <1>7, <2>1, <2>2, <2>4, UntouchedStaysFresh DEF CommitEdit, Write, VoucherTypeOK
  <2>5. QED
    BY <2>3, <2>4
<1>8. ASSUME NEW r \in Requests, NEW q \in Requests, q # r, AtWork(q), CommitCancel(r)
      PROVE  PostFresh(q)' /\ ChangeFresh(q)'
  <2>1. AtWork(r) /\ End(r) /\ Write(r) /\ Unchanged(r) /\ target[r] \in Vouchers /\ ~Posts(r)
        /\ pc[r] \in {"read", "checked"} /\ UNCHANGED lines
    BY <1>0, <1>8 DEF CommitCancel, Ready, AtWork, Posts
  <2>2. pc'[q] = pc[q] /\ op'[q] = op[q] /\ target'[q] = target[q] /\ seen'[q] = seen[q]
        /\ next'[q] = next[q]
    BY <1>0, <1>8, <2>1 DEF End, VoucherTypeOK
  <2>3. CASE target[q] = target[r]
    <3>1. status'[target[r]] = "cancelled"
      BY <1>0, <1>8, <2>1 DEF CommitCancel, VoucherTypeOK
    <3>2. revision'[target[r]] = IF Locked(target[r]) /\ seen[r].status = "posted"
                                 THEN seen[r].revision + 1 ELSE revision[target[r]]
      BY <1>0, <1>8, <2>1 DEF CommitCancel, VoucherTypeOK
    <3>3. QED
      BY <1>8, <2>1, <2>2, <2>3, <3>1, <3>2, OvertakenStaysFresh
  <2>4. CASE target[q] # target[r]
    BY <1>0, <1>8, <2>1, <2>2, <2>4, UntouchedStaysFresh DEF CommitCancel, Write, VoucherTypeOK
  <2>5. QED
    BY <2>3, <2>4
<1>9. ASSUME NEW r \in Requests, CommitEdit(r) \/ CommitCancel(r)
      PROVE  Fresh'
  <2>1. End(r)
    BY <1>9 DEF CommitEdit, CommitCancel
  <2>2. ~AtWork(r)' /\ \A q \in Requests \ {r} : AtWork(q)' => AtWork(q)
    BY <1>0, <2>1 DEF End, AtWork, VoucherTypeOK
  <2>3. QED
    BY <1>7, <1>8, <1>9, <2>2 DEF Fresh
<1>10. ASSUME NEW r \in Requests, WriteInner(r)
       PROVE  Fresh'
  <2> DEFINE v == target[r]
  <2>1. AtWork(r) /\ Goto(r, "inner") /\ Write(r) /\ v \in Vouchers /\ Posts(r)
        /\ pc[r] = "read" /\ UNCHANGED <<status, lines, revision, torn>>
    BY <1>0, <1>10 DEF WriteInner, AtWork, Nested, rowVars
  <2>2. status[v] = "draft" /\ seen[r].status = "draft" /\ seen[r].lines = lines[v]
    BY <1>0, <2>1 DEF Fresh, PostFresh
  <2>3. \A q \in Requests \ {r} : AtWork(q) => target[q] # v
    BY <2>1, <2>2, PostsAlone
  <2>4. v \notin torn => ledger[v] = Nothing
    BY <1>0, <2>1, <2>2, <2>3 DEF BooksAgree, Halfway, AtWork
  <2>5. v \notin torn => ledger'[v] = lines[v]
    <3>1. ledger'[v] = Plus(ledger[v], seen[r].lines)
      BY <1>0, <2>1 DEF Write, Change, VoucherTypeOK
    <3>2. lines[v] \in Quantities
      BY <1>0, <2>1 DEF VoucherTypeOK, Quantities
    <3>3. QED
      BY <2>2, <2>4, <3>1, <3>2, Sums
  <2>6. PostFresh(r)' /\ ChangeFresh(r)'
    BY <1>0, <2>1, <2>2, <2>5 DEF PostFresh, ChangeFresh, Posts, Goto, VoucherTypeOK
  <2>7. QED
    BY <1>0, <2>1, <2>3, <2>6, FreshFrom DEF Write, Goto, VoucherTypeOK
<1>11. ASSUME NEW r \in Requests, CommitOuter(r)
       PROVE  Fresh'
  <2>1. AtWork(r) /\ End(r) /\ target[r] \in Vouchers /\ UNCHANGED <<lines, revision, ledger>>
        /\ status[target[r]] = "draft"
    BY <1>0, <1>11 DEF CommitOuter, AtWork, bookVars, Fresh, PostFresh
  <2>2. \A q \in Requests \ {r} : AtWork(q) => target[q] # target[r]
    BY <2>1, PostsAlone
  <2>3. ~AtWork(r)'
    BY <1>0, <2>1 DEF End, AtWork, VoucherTypeOK
  <2>4. QED
    BY <1>0, <1>11, <2>1, <2>2, <2>3, FreshFrom DEF CommitOuter, End, VoucherTypeOK
<1>12. ASSUME NEW r \in Requests, CleanUp(r)
       PROVE  Fresh'
  <2>1. AtWork(r) /\ End(r) /\ target[r] \in Vouchers /\ UNCHANGED <<lines, revision, ledger>>
        /\ torn \subseteq torn'
    BY <1>0, <1>12 DEF CleanUp, AtWork, bookVars
  <2>2. ~AtWork(r)' /\ \A q \in Requests \ {r} : AtWork(q)' => AtWork(q)
    BY <1>0, <2>1 DEF End, AtWork, VoucherTypeOK
  <2>3. ASSUME NEW q \in Requests, q # r, AtWork(q)
        PROVE  PostFresh(q)' /\ ChangeFresh(q)'
    <3>1. /\ pc'[q] = pc[q] /\ op'[q] = op[q] /\ target'[q] = target[q]
          /\ seen'[q] = seen[q] /\ next'[q] = next[q]
      BY <1>0, <2>1, <2>3 DEF End, VoucherTypeOK
    <3>2. CASE status'[target[q]] = status[target[q]]
      BY <2>1, <2>3, <3>1, <3>2, UntouchedStaysFresh
    <3>3. CASE status'[target[q]] # status[target[q]]
      <4>1. target[q] = target[r] /\ status'[target[q]] = "deleted"
        BY <1>0, <1>12, <2>1, <2>3, <3>3 DEF CleanUp, VoucherTypeOK
      <4>2. status[target[q]] # "draft"
        BY <1>0, <2>1, <2>3, <4>1 DEF Exclusive
      <4>3. PostFresh(q) /\ ChangeFresh(q) /\ Locked(target[q])
        BY <1>0, <2>1, <2>3, <4>1 DEF Fresh, Exclusive
      <4>4. PostFresh(q)'
        BY <3>1, <4>2, <4>3 DEF PostFresh, Posts
      <4>5. ChangeFresh(q)'
        BY <2>1, <3>1, <4>1, <4>2, <4>3 DEF ChangeFresh, Posts, Locked
      <4> QED
        BY <4>4, <4>5
    <3> QED
      BY <3>2, <3>3
  <2> QED
    BY <2>2, <2>3 DEF Fresh
<1>13. ASSUME NEW r \in Requests, Refused(r) \/ Publish(r) \/ Crash(r)
       PROVE  Fresh'
  <2>1. End(r) /\ UNCHANGED <<status, lines, revision, ledger>> /\ torn \subseteq torn'
    BY <1>13 DEF Refused, Publish, Crash, rowVars, bookVars
  <2>2. ~AtWork(r)'
    BY <1>0, <2>1 DEF End, AtWork, VoucherTypeOK
  <2>3. QED
    BY <1>0, <2>1, <2>2, FreshFrom DEF End, VoucherTypeOK
<1>14. ASSUME NEW r \in Requests, Abort(r)
       PROVE  Fresh'
  <2>1. AtWork(r) /\ Goto(r, "failed") /\ UNCHANGED <<status, lines, revision, ledger, torn>>
        /\ pc[r] \in {"drafted", "read", "checked"}
    BY <1>14 DEF Abort, AtWork, rowVars, bookVars
  <2>2. PostFresh(r)
    BY <1>0, <2>1 DEF Fresh
  <2>3. PostFresh(r)' /\ ChangeFresh(r)'
    BY <1>0, <2>1, <2>2 DEF PostFresh, ChangeFresh, Posts, Goto, VoucherTypeOK
  <2>4. QED
    BY <1>0, <2>1, <2>3, FreshFrom DEF Goto, VoucherTypeOK
<1>17. ASSUME NEW r \in Requests, OuterFails(r) \/ PublishFails(r)
       PROVE  Fresh'
  <2>1. AtWork(r) /\ Goto(r, "failed") /\ UNCHANGED <<status, lines, revision, ledger>>
        /\ torn \subseteq torn'
    BY <1>17 DEF OuterFails, PublishFails, AtWork, rowVars, bookVars
  <2>2. PostFresh(r)' /\ ChangeFresh(r)'
    BY <1>0, <2>1 DEF PostFresh, ChangeFresh, Posts, Goto, VoucherTypeOK
  <2>3. QED
    BY <1>0, <2>1, <2>2, FreshFrom DEF Goto, VoucherTypeOK
<1>15. CASE UNCHANGED vars
  BY <1>0, <1>15 DEF vars, rowVars, bookVars, requestVars, Fresh, PostFresh, ChangeFresh, Posts,
     Locked, AtWork
<1>16. QED
  BY <1>1, <1>2, <1>3, <1>4, <1>5, <1>6, <1>9, <1>10, <1>11, <1>12, <1>13, <1>14, <1>15, <1>17
  DEF Next, RequestStep

-----------------------------------------------------------------------------
(* A voucher is out of step with its ledger rows only while its request is *)
(* between its two transactions: an action of another request, or of one   *)
(* that is not there, leaves it so.                                        *)
LEMMA HalfwayStays ==
    ASSUME NEW v \in Vouchers, NEW r \in Requests,
           pc[r] # "inner" \/ target[r] # v,
           \A q \in Requests \ {r} : pc'[q] = pc[q] /\ target'[q] = target[q],
           Halfway(v)
    PROVE  Halfway(v)'
  BY DEF Halfway

(* The books of a voucher that nobody touches still agree.                 *)
LEMMA UntouchedStaysInBooks ==
    ASSUME BooksAgree, NEW v \in Vouchers, NEW r \in Requests,
           pc[r] # "inner" \/ target[r] # v,
           \A q \in Requests \ {r} : pc'[q] = pc[q] /\ target'[q] = target[q],
           status'[v] = status[v] \/ {status[v], status'[v]} \subseteq {"none", "draft", "cancelled", "deleted"},
           status[v] = "posted" => lines'[v] = lines[v],
           ledger'[v] = ledger[v],
           v \notin torn',
           torn \subseteq torn',
           ~Halfway(v)'
    PROVE  ledger'[v] = IF status'[v] = "posted" THEN lines'[v] ELSE Nothing
<1>1. ~Halfway(v)
  BY HalfwayStays
<1>2. ledger[v] = IF status[v] = "posted" THEN lines[v] ELSE Nothing
  BY <1>1 DEF BooksAgree
<1>3. QED
  BY <1>2

(* What an edit or a cancellation puts in the books: the new lines, or     *)
(* nothing, when the voucher was posted.                                   *)
LEMMA ChangedInBooks ==
    ASSUME VoucherInv, NEW r \in Requests, AtWork(r), target[r] \in Vouchers,
           pc[r] \in {"read", "checked"}, ~Posts(r), Unchanged(r), Write(r)
    PROVE  /\ status[target[r]] \in {"draft", "posted"}
           /\ status[target[r]] = seen[r].status
           /\ target[r] \notin torn =>
                ledger'[target[r]] = IF status[target[r]] = "posted" THEN next[r] ELSE Nothing
           /\ Change(r) = IF status[target[r]] = "posted"
                          THEN Minus(next[r], lines[target[r]]) ELSE Nothing
<1> DEFINE v == target[r]
<1>1. VoucherTypeOK /\ BooksAgree /\ ChangeFresh(r)
  BY DEF VoucherInv, Fresh
<1>2. ~Halfway(v)
  <2>1. SUFFICES ASSUME NEW q \in Requests, target[q] = v, pc[q] = "inner"
                 PROVE  FALSE
    BY DEF Halfway
  <2>2. PostFresh(q) /\ q # r /\ AtWork(q) /\ Posts(q)
    BY <2>1 DEF VoucherInv, Fresh, AtWork, PostFresh
  <2>3. status[v] = "draft"
    BY <2>1, <2>2 DEF PostFresh
  <2>4. QED
    BY <2>1, <2>2, <2>3 DEF VoucherInv, Exclusive
<1>3. v \notin torn => ledger[v] = IF status[v] = "posted" THEN lines[v] ELSE Nothing
  BY <1>1, <1>2 DEF BooksAgree
<1>4. status[v] \in {"draft", "posted"} /\ status[v] = seen[r].status /\ seen[r].lines = lines[v]
  BY <1>1 DEF ChangeFresh, Unchanged
<1>5. lines[v] \in Quantities /\ next[r] \in Quantities /\ Nothing \in Quantities
  BY <1>1 DEF VoucherTypeOK, Quantities, Nothing
<1>6. ledger'[v] = Plus(ledger[v], Change(r))
  BY <1>1, WriteType DEF VoucherTypeOK
<1>7. Change(r) = IF status[v] = "posted" THEN Minus(next[r], lines[v]) ELSE Nothing
  BY <1>4 DEF Change
<1>8. v \notin torn => ledger'[v] = IF status[v] = "posted" THEN next[r] ELSE Nothing
  BY <1>3, <1>4, <1>5, <1>6, <1>7, Sums
<1>9. QED
  BY <1>4, <1>7, <1>8

(* A draft that is posted in one transaction was not in the books, and is  *)
(* in them with its lines.                                                 *)
LEMMA PostedInBooks ==
    ASSUME VoucherInv, NEW r \in Requests, AtWork(r), target[r] \in Vouchers,
           pc[r] \in {"read", "checked"}, Posts(r), Write(r)
    PROVE  /\ status[target[r]] = "draft" /\ ~Halfway(target[r])
           /\ Change(r) = lines[target[r]]
           /\ target[r] \notin torn => ledger'[target[r]] = lines[target[r]]
<1> DEFINE v == target[r]
<1>1. VoucherTypeOK /\ BooksAgree /\ PostFresh(r)
  BY DEF VoucherInv, Fresh
<1>2. status[v] = "draft" /\ seen[r].lines = lines[v]
  BY <1>1 DEF PostFresh
<1>3. ~Halfway(v)
  BY <1>2, PostsAlone DEF Halfway, AtWork
<1>4. (v \notin torn => ledger[v] = Nothing) /\ lines[v] \in Quantities
  BY <1>1, <1>2, <1>3 DEF BooksAgree, VoucherTypeOK, Quantities
<1>5. ledger'[v] = Plus(ledger[v], Change(r)) /\ Change(r) = lines[v]
  BY <1>1, <1>2, WriteType DEF VoucherTypeOK, Change
<1>6. QED
  BY <1>2, <1>3, <1>4, <1>5, Sums

(* Every action keeps the books in agreement with the vouchers.            *)
LEMMA BooksStep ==
    ASSUME VoucherInv, [Next]_vars
    PROVE  BooksAgree'
<1>0. VoucherTypeOK /\ Exclusive /\ Fresh /\ BooksAgree
      /\ \A r \in Requests : AtWork(r) => target[r] \in Vouchers
  BY DEF VoucherInv, VoucherTypeOK, AtWork
<1> DEFINE Agrees(v) == ledger[v] = IF status[v] = "posted" THEN lines[v] ELSE Nothing
<1>1. ASSUME NEW r \in Requests, NEW v \in Vouchers, NEW l \in LinesOf[v],
             CreateDraft(r, v, l) \/ CreateCount(r, v, l), NEW w \in Vouchers, w \notin torn', ~Halfway(w)'
      PROVE  Agrees(w)'
  <2>1. \A q \in Requests \ {r} : pc'[q] = pc[q] /\ target'[q] = target[q]
    BY <1>0, <1>1 DEF CreateDraft, CreateCount, End, VoucherTypeOK
  <2>2. status'[w] = status[w] \/ {status[w], status'[w]} \subseteq {"none", "draft"}
    BY <1>0, <1>1 DEF CreateDraft, CreateCount, VoucherTypeOK
  <2>3. pc[r] # "inner" /\ ledger'[w] = ledger[w] /\ (status[w] = "posted" => lines'[w] = lines[w])
        /\ torn' = torn
    BY <1>0, <1>1 DEF CreateDraft, CreateCount, bookVars, VoucherTypeOK
  <2>4. QED
    BY <1>0, <1>1, <2>1, <2>2, <2>3, UntouchedStaysInBooks
<1>2. ASSUME NEW r \in Requests, pc[r] # "inner", UNCHANGED <<status, lines, ledger, torn>>,
             \A q \in Requests \ {r} : pc'[q] = pc[q] /\ target'[q] = target[q]
      PROVE  BooksAgree'
  BY <1>0, <1>2, UntouchedStaysInBooks DEF BooksAgree
<1>3. ASSUME NEW r \in Requests, NEW v \in Vouchers, NEW o \in {"edit", "post", "cancel"}, NEW l,
             Read(r, v, o, l)
      PROVE  BooksAgree'
  BY <1>0, <1>2, <1>3 DEF Read, rowVars, bookVars, VoucherTypeOK
<1>4. ASSUME NEW r \in Requests, ReadOwnDraft(r)
      PROVE  BooksAgree'
  BY <1>0, <1>2, <1>4 DEF ReadOwnDraft, rowVars, bookVars, VoucherTypeOK
<1>5. ASSUME NEW r \in Requests, LockOnHand(r)
      PROVE  BooksAgree'
  <2>1. Goto(r, "checked") \/ Goto(r, "failed")
    BY <1>5 DEF LockOnHand
  <2>2. QED
    BY <1>0, <1>2, <1>5, <2>1 DEF LockOnHand, Goto, rowVars, bookVars, VoucherTypeOK
<1>6. ASSUME NEW r \in Requests, CommitPost(r), NEW w \in Vouchers, w \notin torn', ~Halfway(w)'
      PROVE  Agrees(w)'
  <2>1. AtWork(r) /\ Goto(r, "written") /\ Write(r) /\ target[r] \in Vouchers /\ Posts(r)
        /\ UNCHANGED torn
        /\ pc[r] \in {"read", "checked"}
    BY <1>0, <1>6 DEF CommitPost, Ready, AtWork
  <2>2. CASE w = target[r]
    <3>1. status[w] = "draft" /\ ledger'[w] = lines[w]
      BY <1>6, <2>1, <2>2, PostedInBooks
    <3>2. QED
      BY <1>0, <1>6, <2>2, <3>1 DEF CommitPost, VoucherTypeOK
  <2>3. CASE w # target[r]
    BY <1>0, <1>6, <2>1, <2>3, UntouchedStaysInBooks DEF CommitPost, Write, Goto, VoucherTypeOK
  <2>4. QED
    BY <2>2, <2>3
<1>7. ASSUME NEW r \in Requests, CommitEdit(r), NEW w \in Vouchers, w \notin torn', ~Halfway(w)'
      PROVE  Agrees(w)'
  <2>1. AtWork(r) /\ End(r) /\ Write(r) /\ Unchanged(r) /\ target[r] \in Vouchers /\ ~Posts(r)
        /\ pc[r] \in {"read", "checked"} /\ UNCHANGED <<status, torn>>
    BY <1>0, <1>7 DEF CommitEdit, Ready, AtWork, Posts
  <2>2. CASE w = target[r]
    <3>1. ledger'[w] = IF status[w] = "posted" THEN next[r] ELSE Nothing
      BY <1>7, <2>1, <2>2, ChangedInBooks
    <3>2. QED
      BY <1>0, <1>7, <2>1, <2>2, <3>1 DEF CommitEdit, VoucherTypeOK
  <2>3. CASE w # target[r]
    BY <1>0, <1>7, <2>1, <2>3, UntouchedStaysInBooks DEF CommitEdit, Write, End, VoucherTypeOK
  <2>4. QED
    BY <2>2, <2>3
<1>8. ASSUME NEW r \in Requests, CommitCancel(r), NEW w \in Vouchers, w \notin torn', ~Halfway(w)'
      PROVE  Agrees(w)'
  <2>1. AtWork(r) /\ End(r) /\ Write(r) /\ Unchanged(r) /\ target[r] \in Vouchers /\ ~Posts(r)
        /\ pc[r] \in {"read", "checked"} /\ UNCHANGED <<lines, torn>>
    BY <1>0, <1>8 DEF CommitCancel, Ready, AtWork, Posts
  <2>2. CASE w = target[r]
    <3>1. next[r] = Nothing
      BY <1>0, <1>8, <2>1 DEF CommitCancel, Fresh, ChangeFresh
    <3>2. ledger'[w] = Nothing
      BY <1>8, <2>1, <2>2, <3>1, ChangedInBooks
    <3>3. QED
      BY <1>0, <1>8, <2>2, <3>2 DEF CommitCancel, VoucherTypeOK
  <2>3. CASE w # target[r]
    BY <1>0, <1>8, <2>1, <2>3, UntouchedStaysInBooks DEF CommitCancel, Write, End, VoucherTypeOK
  <2>4. QED
    BY <2>2, <2>3
<1>9. ASSUME NEW r \in Requests, WriteInner(r), NEW w \in Vouchers, w \notin torn', ~Halfway(w)'
      PROVE  Agrees(w)'
  <2>1. AtWork(r) /\ Goto(r, "inner") /\ Write(r) /\ target[r] \in Vouchers
        /\ UNCHANGED <<status, lines, torn>>
    BY <1>0, <1>9 DEF WriteInner, AtWork, rowVars
  <2>2. w # target[r]
    BY <1>0, <1>9, <2>1 DEF Goto, Halfway, VoucherTypeOK
  <2>3. QED
    BY <1>0, <1>9, <2>1, <2>2, UntouchedStaysInBooks DEF Write, Goto, VoucherTypeOK
<1>10. ASSUME NEW r \in Requests, CommitOuter(r), NEW w \in Vouchers, w \notin torn', ~Halfway(w)'
       PROVE  Agrees(w)'
  <2>1. AtWork(r) /\ End(r) /\ target[r] \in Vouchers /\ UNCHANGED <<lines, ledger, torn>>
        /\ (target[r] \notin torn => ledger[target[r]] = lines[target[r]])
    BY <1>0, <1>10 DEF CommitOuter, AtWork, bookVars, Fresh, PostFresh
  <2>2. CASE w = target[r]
    BY <1>0, <1>10, <2>1, <2>2 DEF CommitOuter, VoucherTypeOK
  <2>3. CASE w # target[r]
    BY <1>0, <1>10, <2>1, <2>3, UntouchedStaysInBooks DEF CommitOuter, End, VoucherTypeOK
  <2>4. QED
    BY <2>2, <2>3
<1>11. ASSUME NEW r \in Requests, CleanUp(r), NEW w \in Vouchers, w \notin torn', ~Halfway(w)'
       PROVE  Agrees(w)'
  <2>1. AtWork(r) /\ pc[r] = "failed" /\ End(r) /\ target[r] \in Vouchers /\ UNCHANGED <<lines, ledger>>
        /\ torn \subseteq torn'
    BY <1>0, <1>11 DEF CleanUp, AtWork, bookVars
  <2>2. status[w] \in Statuses /\ (status'[w] = "deleted" \/ status'[w] = status[w])
    BY <1>0, <1>11 DEF CleanUp, VoucherTypeOK
  <2>3. status'[w] = status[w] \/ {status[w], status'[w]} \subseteq {"none", "draft", "cancelled", "deleted"}
    BY <1>0, <1>11, <2>1, <2>2 DEF CleanUp, VoucherTypeOK, Statuses
  <2>4. \A q \in Requests \ {r} : pc'[q] = pc[q] /\ target'[q] = target[q]
    BY <1>0, <2>1 DEF End, VoucherTypeOK
  <2>5. QED
    BY <1>0, <1>11, <2>1, <2>3, <2>4, UntouchedStaysInBooks
<1>12. ASSUME NEW r \in Requests, Refused(r) \/ Publish(r) \/ PublishFails(r)
       PROVE  BooksAgree'
  <2>1. (End(r) \/ Goto(r, "failed")) /\ pc[r] # "inner" /\ UNCHANGED <<status, lines, ledger, torn>>
    BY <1>12 DEF Refused, Publish, PublishFails, Ready, rowVars, bookVars
  <2>2. QED
    BY <1>0, <1>2, <2>1 DEF End, Goto, VoucherTypeOK
<1>18. ASSUME NEW r \in Requests, Crash(r) \/ OuterFails(r), NEW w \in Vouchers, w \notin torn',
              ~Halfway(w)'
       PROVE  Agrees(w)'
  <2>1. (End(r) \/ Goto(r, "failed")) /\ UNCHANGED <<status, lines, ledger>> /\ torn \subseteq torn'
        /\ (pc[r] = "inner" => target[r] \in torn')
    BY <1>18 DEF Crash, OuterFails, rowVars, bookVars
  <2>2. \A q \in Requests \ {r} : pc'[q] = pc[q] /\ target'[q] = target[q]
    BY <1>0, <2>1 DEF End, Goto, VoucherTypeOK
  <2>3. QED
    BY <1>0, <1>18, <2>1, <2>2, UntouchedStaysInBooks
<1>19. ASSUME NEW r \in Requests, Crash(r) \/ OuterFails(r)
       PROVE  BooksAgree'
  BY <1>18, <1>19 DEF BooksAgree
<1>13. ASSUME NEW r \in Requests, Abort(r)
       PROVE  BooksAgree'
  BY <1>0, <1>2, <1>13 DEF Abort, Goto, rowVars, bookVars, VoucherTypeOK
<1>14. CASE UNCHANGED vars
  BY <1>0, <1>14 DEF vars, rowVars, bookVars, requestVars, BooksAgree, Halfway
<1>15. ASSUME NEW r \in Requests, RequestStep(r)
       PROVE  BooksAgree'
  BY <1>4, <1>5, <1>6, <1>7, <1>8, <1>9, <1>10, <1>11, <1>12, <1>15, <1>19 DEF RequestStep, BooksAgree
<1>16. ASSUME NEW r \in Requests, NEW v \in Vouchers, NEW l \in LinesOf[v],
              CreateDraft(r, v, l) \/ CreateCount(r, v, l)
       PROVE  BooksAgree'
  BY <1>1, <1>16 DEF BooksAgree
<1>17. QED
  BY <1>3, <1>13, <1>14, <1>15, <1>16, <1>19 DEF Next

-----------------------------------------------------------------------------
(* The inductive invariant holds initially and of every step.              *)
LEMMA VoucherInvariant == Spec => []VoucherInv
<1>1. Init => VoucherInv
  <2> SUFFICES ASSUME Init
               PROVE  VoucherInv
    OBVIOUS
  <2>1. \A r \in Requests : ~AtWork(r)
    BY DEF Init, AtWork
  <2>2. VoucherTypeOK
    <3>1. Nothing \in [Places -> Int]
      BY DEF Nothing
    <3>2. Unread \in [status : Statuses, revision : Nat, lines : [Places -> Int]]
      BY <3>1 DEF Unread, Statuses
    <3>3. QED
      BY <3>1, <3>2 DEF Init, VoucherTypeOK, Statuses
  <2>3. Exclusive /\ Fresh
    BY <2>1 DEF Exclusive, Fresh
  <2>4. BooksAgree
    BY DEF Init, BooksAgree
  <2>5. QED
    BY <2>2, <2>3, <2>4 DEF VoucherInv
<1>2. VoucherInv /\ [Next]_vars => VoucherInv'
  BY TypeStep, ExclusiveStep, FreshStep, BooksStep DEF VoucherInv
<1>3. QED
  BY <1>1, <1>2, PTL DEF Spec

(* The type invariant of the vouchers.                                     *)
THEOREM VouchersTypeCorrect == Spec => []VoucherTypeOK
<1>1. VoucherInv => VoucherTypeOK
  BY DEF VoucherInv
<1>2. QED
  BY <1>1, VoucherInvariant, PTL

(* The ledger rows of a voucher add up to its lines while it is posted,    *)
(* and to nothing otherwise: for any number of concurrent edits and        *)
(* cancellations of receipts and issues, with update and cancel comparing  *)
(* the revision under the row lock.                                        *)
THEOREM VouchersBooksAgree == Spec => []BooksAgree
<1>1. VoucherInv => BooksAgree
  BY DEF VoucherInv
<1>2. QED
  BY <1>1, VoucherInvariant, PTL

-----------------------------------------------------------------------------
\* The balances a checked move takes from are locked, and enough.
MovesInv == VoucherTypeOK /\ CheckedHeld /\ CheckedMovesCovered

(* Another request's action leaves a checked move covered: it does not     *)
(* take the move's locks, nor write where they are.                        *)
LEMMA CoveredStays ==
    ASSUME MovesInv, NEW r \in Requests, NEW q \in Requests, q # r, pc[q] = "checked",
           op'[q] = op[q], target'[q] = target[q], seen'[q] = seen[q], next'[q] = next[q],
           Write(r) \/ UNCHANGED balance,
           \A p \in Places : held[p] = q => held'[p] = q
    PROVE  \A p \in Drained(q)' :
              held'[p] = q /\ balance'[p] + Change(q)'[p] >= 0
<1>1. Change(q)' = Change(q)
  BY DEF Change, Posts
<1>2. Drained(q)' = Drained(q)
  BY <1>1 DEF Drained
<1>3. SUFFICES ASSUME NEW p \in Drained(q)
               PROVE  held'[p] = q /\ balance'[p] + Change(q)[p] >= 0
  BY <1>1, <1>2
<1>4. p \in Places /\ held[p] = q /\ balance[p] + Change(q)[p] >= 0
  BY DEF MovesInv, CheckedHeld, CheckedMovesCovered, Drained
<1>5. balance'[p] = balance[p]
  <2>1. CASE Write(r)
    <3>1. Change(r)[p] = 0
      BY <1>4, <2>1, VoucherAssumption DEF Write, Unheld
    <3>2. balance \in [Places -> Int]
      BY DEF MovesInv, VoucherTypeOK
    <3>3. QED
      BY <1>4, <2>1, <3>1, <3>2 DEF Write, Plus
  <2>2. QED
    BY <2>1
<1>6. QED
  BY <1>4, <1>5

(* Every action keeps the checked moves covered.                           *)
LEMMA CoveredStep ==
    ASSUME MovesInv, [Next]_vars
    PROVE  CheckedHeld' /\ CheckedMovesCovered'
<1> DEFINE Covered(q) == \A p \in Drained(q) : held[p] = q /\ balance[p] + Change(q)[p] >= 0
<1>0. VoucherTypeOK
  BY DEF MovesInv
<1>1. ASSUME NEW r \in Requests,
             \A q \in Requests \ {r} :
                /\ pc'[q] = pc[q] /\ op'[q] = op[q] /\ target'[q] = target[q]
                /\ seen'[q] = seen[q] /\ next'[q] = next[q],
             Write(r) \/ UNCHANGED balance,
             \A q \in Requests \ {r}, p \in Places : held[p] = q => held'[p] = q,
             pc'[r] = "checked" => Covered(r)'
      PROVE  CheckedHeld' /\ CheckedMovesCovered'
  <2>1. ASSUME NEW q \in Requests, pc'[q] = "checked"
        PROVE  Covered(q)'
    BY <1>1, <2>1, CoveredStays
  <2>2. QED
    BY <2>1 DEF CheckedHeld, CheckedMovesCovered
<1>2. ASSUME NEW r \in Requests, NEW v \in Vouchers, NEW o, NEW l,
             CreateDraft(r, v, l) \/ CreateCount(r, v, l) \/ Read(r, v, o, l)
      PROVE  CheckedHeld' /\ CheckedMovesCovered'
  BY <1>0, <1>1, <1>2 DEF CreateDraft, CreateCount, Read, ReadRow, End, bookVars, VoucherTypeOK
<1>3. ASSUME NEW r \in Requests, ReadOwnDraft(r)
      PROVE  CheckedHeld' /\ CheckedMovesCovered'
  BY <1>0, <1>1, <1>3 DEF ReadOwnDraft, ReadRow, bookVars, VoucherTypeOK
<1>4. ASSUME NEW r \in Requests, LockOnHand(r)
      PROVE  CheckedHeld' /\ CheckedMovesCovered'
  <2>1. UNCHANGED <<balance, op, target, seen, next>>
    BY <1>4 DEF LockOnHand, Goto, bookVars
  <2>2. Drained(r)' = Drained(r) /\ Change(r)' = Change(r)
    BY <2>1 DEF Drained, Change, Posts
  <2>3. \A q \in Requests \ {r} : pc'[q] = pc[q]
    BY <1>0, <1>4 DEF LockOnHand, Goto, VoucherTypeOK
  <2>4. \A q \in Requests, p \in Places : held[p] = q => held'[p] = q
    BY <1>0, <1>4, VoucherAssumption DEF LockOnHand, VoucherTypeOK
  <2>5. ASSUME pc'[r] = "checked"
        PROVE  \A p \in Drained(r) : held'[p] = r /\ balance[p] + Change(r)[p] >= 0
    <3>1. \A p \in Drained(r) : balance[p] + Change(r)[p] >= 0
      BY <1>0, <1>4, <2>5 DEF LockOnHand, Goto, VoucherTypeOK
    <3>2. held' = [p \in Places |-> IF p \in Drained(r) THEN r ELSE held[p]]
      BY <1>4, <3>1 DEF LockOnHand
    <3>3. QED
      BY <3>1, <3>2 DEF Drained
  <2>6. QED
    BY <1>1, <2>1, <2>2, <2>3, <2>4, <2>5
<1>5. ASSUME NEW r \in Requests, CommitPost(r) \/ WriteInner(r)
      PROVE  CheckedHeld' /\ CheckedMovesCovered'
  <2>1. Write(r) /\ (Goto(r, "written") \/ Goto(r, "inner")) /\ (Release(r) \/ UNCHANGED held)
    BY <1>5 DEF CommitPost, WriteInner
  <2>2. QED
    BY <1>0, <1>1, <2>1 DEF Goto, Release, VoucherTypeOK
<1>6. ASSUME NEW r \in Requests, CommitEdit(r) \/ CommitCancel(r)
      PROVE  CheckedHeld' /\ CheckedMovesCovered'
  <2>1. Write(r) /\ End(r) /\ (Release(r) \/ UNCHANGED held)
    BY <1>6 DEF CommitEdit, CommitCancel
  <2>2. QED
    BY <1>0, <1>1, <2>1 DEF End, Release, VoucherTypeOK
<1>7. ASSUME NEW r \in Requests,
             \/ Refused(r) \/ CommitOuter(r) \/ OuterFails(r) \/ Publish(r) \/ PublishFails(r)
             \/ CleanUp(r) \/ Crash(r) \/ Abort(r)
      PROVE  CheckedHeld' /\ CheckedMovesCovered'
  <2>1. /\ End(r) \/ Goto(r, "failed")
        /\ Release(r) \/ UNCHANGED held
        /\ UNCHANGED balance
    BY <1>7 DEF Refused, CommitOuter, OuterFails, Publish, PublishFails, CleanUp, Crash, Abort, bookVars
  <2>2. QED
    BY <1>0, <1>1, <2>1 DEF End, Goto, Release, VoucherTypeOK
<1>8. CASE UNCHANGED vars
  BY <1>8 DEF MovesInv, vars, bookVars, requestVars, CheckedHeld, CheckedMovesCovered, Drained, Change,
     Posts
<1>9. QED
  BY <1>2, <1>3, <1>4, <1>5, <1>6, <1>7, <1>8 DEF Next, RequestStep

(* What a move was found able to take is there when it takes it, with any  *)
(* number of moves, receipts, issues and counts at the same places: the    *)
(* balances it takes from are locked from the check to its commit.         *)
THEOREM MovesCovered == Spec => []CheckedMovesCovered
<1>1. Init => CheckedHeld /\ CheckedMovesCovered
  BY DEF Init, CheckedHeld, CheckedMovesCovered
<1>2. VoucherTypeOK /\ CheckedHeld /\ CheckedMovesCovered /\ [Next]_vars
        => CheckedHeld' /\ CheckedMovesCovered'
  BY CoveredStep DEF MovesInv
<1>3. QED
  BY <1>1, <1>2, VouchersTypeCorrect, PTL DEF Spec

-----------------------------------------------------------------------------
\* What the vouchers of T have put in books led.
AstrayIn(led, T) == [p \in Places |-> Sum([v \in Vouchers |-> led[v][p]], T)]

\* The stock without what is nobody's, and what VoucherContract sees of a step.
Rest == Minus(balance, Astray)
ContractStep == [Contract!Next]_<<Entry, Rest>>

(* The vouchers are finitely many.                                         *)
LEMMA FewVouchers == ASSUME NEW T, T \subseteq Vouchers PROVE IsFiniteSet(T)
  BY VoucherAssumption, FS_Subset

(* What is astray is a quantity at each place.                             *)
LEMMA AstrayType ==
    ASSUME NEW led \in [Vouchers -> Quantities], NEW T, T \subseteq Vouchers
    PROVE  AstrayIn(led, T) \in Quantities
<1>1. ASSUME NEW p \in Places PROVE Sum([v \in Vouchers |-> led[v][p]], T) \in Int
  <2> DEFINE f == [v \in Vouchers |-> led[v][p]]
  <2>1. \A v \in T : f[v] \in Int
    BY DEF Quantities
  <2> HIDE DEF f
  <2>2. Sum(f, T) \in Int
    BY <2>1, FewVouchers, SumInt
  <2> QED
    BY <2>2 DEF f
<1> QED
  BY <1>1 DEF AstrayIn, Quantities

(* It does not change with the books of other vouchers,                    *)
LEMMA AstrayApart ==
    ASSUME NEW led, NEW led2, NEW T, T \subseteq Vouchers, \A v \in T : led2[v] = led[v]
    PROVE  AstrayIn(led2, T) = AstrayIn(led, T)
<1>1. ASSUME NEW p \in Places
      PROVE  Sum([v \in Vouchers |-> led2[v][p]], T) = Sum([v \in Vouchers |-> led[v][p]], T)
  <2> DEFINE f == [v \in Vouchers |-> led[v][p]]
             g == [v \in Vouchers |-> led2[v][p]]
  <2>1. \A v \in T : g[v] = f[v]
    OBVIOUS
  <2> HIDE DEF f, g
  <2>2. Sum(g, T) = Sum(f, T)
    BY <2>1, FewVouchers, SumAgrees
  <2> QED
    BY <2>2 DEF f, g
<1> QED
  BY <1>1 DEF AstrayIn

(* changes with those of one of its own,                                   *)
LEMMA AstrayWritten ==
    ASSUME NEW led \in [Vouchers -> Quantities], NEW T, T \subseteq Vouchers, NEW v \in T,
           NEW more \in Quantities
    PROVE  AstrayIn([led EXCEPT ![v] = Plus(@, more)], T) = Plus(AstrayIn(led, T), more)
<1> DEFINE led2 == [led EXCEPT ![v] = Plus(@, more)]
<1>1. ASSUME NEW p \in Places
      PROVE  Sum([w \in Vouchers |-> led2[w][p]], T) = Sum([w \in Vouchers |-> led[w][p]], T) + more[p]
  <2> DEFINE f == [w \in Vouchers |-> led[w][p]]
             g == [w \in Vouchers |-> led2[w][p]]
  <2>1. \A w \in T : f[w] \in Int
    BY DEF Quantities
  <2>2. \A w \in T \ {v} : g[w] = f[w]
    OBVIOUS
  <2>3. g[v] = f[v] + more[p] /\ more[p] \in Int /\ f[v] \in Int
    BY DEF Plus, Quantities
  <2> HIDE DEF f, g
  <2>a. g[v] \in Int /\ IsFiniteSet(T)
    BY <2>3, FewVouchers
  <2>b. Sum(f, T) \in Int
    BY <2>1, <2>a, SumInt
  <2>c. Sum(g, T) = Sum(f, T) - f[v] + g[v]
    BY <2>1, <2>2, <2>a, SumChange
  <2>4. Sum(g, T) = Sum(f, T) - f[v] + g[v] /\ Sum(f, T) \in Int
    BY <2>b, <2>c
  <2>5. Sum(g, T) = Sum(f, T) + more[p]
    BY <2>3, <2>4
  <2> QED
    BY <2>5 DEF f, g
<1> HIDE DEF led2
<1>2. AstrayIn(led2, T) = Plus(AstrayIn(led, T), more)
  BY <1>1 DEF AstrayIn, Plus
<1> QED
  BY <1>2 DEF led2

(* and grows by the books of one that joins.                               *)
LEMMA AstrayJoined ==
    ASSUME NEW led \in [Vouchers -> Quantities], NEW T, T \subseteq Vouchers,
           NEW v \in Vouchers, v \notin T
    PROVE  AstrayIn(led, T \cup {v}) = Plus(AstrayIn(led, T), led[v])
<1>1. ASSUME NEW p \in Places
      PROVE  Sum([w \in Vouchers |-> led[w][p]], T \cup {v})
                 = Sum([w \in Vouchers |-> led[w][p]], T) + led[v][p]
  <2> DEFINE f == [w \in Vouchers |-> led[w][p]]
  <2>1. (\A w \in T : f[w] \in Int) /\ f[v] \in Int /\ f[v] = led[v][p]
    BY DEF Quantities
  <2> HIDE DEF f
  <2>2. Sum(f, T \cup {v}) = Sum(f, T) + f[v]
    BY <2>1, FewVouchers, SumAdd
  <2> QED
    BY <2>1, <2>2 DEF f
<1> QED
  BY <1>1 DEF AstrayIn, Plus

(* Astray, before and after a step.                                        *)
LEMMA AstrayIs ==
    Astray = AstrayIn(ledger, torn) /\ Astray' = AstrayIn(ledger', torn')
  BY DEF Astray, RowsAt, AstrayIn, Sum, MapThenSumSet, MapThenFoldSet

(* A step that leaves the books alone leaves the rest as it is.            *)
LEMMA RestStays ==
    ASSUME UNCHANGED <<ledger, balance, torn>>
    PROVE  Rest' = Rest
  BY AstrayIs DEF Rest, Minus

(* What is written for a voucher goes to the rest, unless it is torn.      *)
LEMMA RestWritten ==
    ASSUME VoucherTypeOK, NEW r \in Requests, AtWork(r), target[r] \in Vouchers, Write(r), torn' = torn
    PROVE  /\ target[r] \in torn => Rest' = Rest
           /\ target[r] \notin torn => Rest' = Plus(Rest, Change(r))
           /\ Rest \in Quantities
<1> DEFINE v == target[r]
           more == Change(r)
<1>1. balance \in Quantities /\ more \in Quantities /\ ledger \in [Vouchers -> Quantities]
      /\ torn \subseteq Vouchers
  BY ChangeType DEF VoucherTypeOK, Quantities
<1>2. balance' = Plus(balance, more) /\ ledger' = [ledger EXCEPT ![v] = Plus(@, more)]
  BY DEF Write
<1> HIDE DEF v, more
<1>3. AstrayIn(ledger, torn) \in Quantities
  BY <1>1, AstrayType
<1>4. CASE v \in torn
  <2>1. Astray' = Plus(Astray, more)
    BY <1>1, <1>2, <1>4, AstrayIs, AstrayWritten
  <2>2. Minus(Plus(balance, more), Plus(Astray, more)) = Minus(balance, Astray)
    BY <1>1, <1>3, AstrayIs DEF Plus, Minus, Quantities
  <2>3. Rest' = Rest
    BY <1>2, <2>1, <2>2 DEF Rest, Minus
  <2> QED
    BY <1>1, <1>3, <1>4, <2>3, AstrayIs, Sums DEF Rest, v
<1>5. CASE v \notin torn
  <2>1. Astray' = Astray
    <3>1. \A w \in torn : ledger'[w] = ledger[w]
      BY <1>1, <1>2, <1>5
    <3> QED
      BY <1>1, <3>1, AstrayIs, AstrayApart
  <2>2. Minus(Plus(balance, more), Astray) = Plus(Minus(balance, Astray), more)
    BY <1>1, <1>3, AstrayIs DEF Plus, Minus, Quantities
  <2>3. Rest' = Plus(Rest, more)
    BY <1>2, <2>1, <2>2 DEF Rest, Minus
  <2> QED
    BY <1>1, <1>3, <1>5, <2>3, AstrayIs, Sums DEF Rest, v, more
<1> QED
  BY <1>4, <1>5

(* A voucher that is torn takes its rows along.                            *)
LEMMA RestTorn ==
    ASSUME VoucherTypeOK, NEW v \in Vouchers, v \notin torn, torn' = torn \cup {v},
           UNCHANGED <<ledger, balance>>
    PROVE  Rest' = Minus(Rest, ledger[v])
<1>1. balance \in Quantities /\ ledger \in [Vouchers -> Quantities] /\ ledger[v] \in Quantities
      /\ torn \subseteq Vouchers
  BY DEF VoucherTypeOK, Quantities
<1>2. AstrayIn(ledger, torn) \in Quantities
  BY <1>1, AstrayType
<1>3. Astray' = Plus(Astray, ledger[v])
  BY <1>1, AstrayIs, AstrayJoined
<1>4. Minus(balance, Plus(Astray, ledger[v])) = Minus(Minus(balance, Astray), ledger[v])
  BY <1>1, <1>2, AstrayIs DEF Plus, Minus, Quantities
<1> QED
  BY <1>3, <1>4 DEF Rest, Minus

(* A step that changes nobody's being between two transactions changes     *)
(* only its own voucher's entry.                                           *)
LEMMA OtherEntries ==
    ASSUME NEW r \in Requests, NEW v,
           \A q \in Requests \ {r} : pc'[q] = pc[q] /\ target'[q] = target[q],
           \A w \in Vouchers \ {v} :
               status'[w] = status[w] /\ lines'[w] = lines[w] /\ (w \in torn' <=> w \in torn),
           pc[r] = "inner" => target[r] = v,
           pc'[r] = "inner" => target'[r] = v
    PROVE  \A w \in Vouchers \ {v} : Entry'[w] = Entry[w]
<1>1. \A w \in Vouchers \ {v} : Halfway(w)' <=> Halfway(w)
  BY DEF Halfway
<1>2. QED
  BY <1>1 DEF Entry

(* A step that touches no voucher and no balance is none of the contract's. *)
LEMMA QuietStep ==
    ASSUME NEW r \in Requests, pc[r] # "inner", pc'[r] # "inner",
           \A q \in Requests \ {r} : pc'[q] = pc[q] /\ target'[q] = target[q],
           UNCHANGED <<status, lines, ledger, balance, torn>>
    PROVE  ContractStep
<1>1. \A w \in Vouchers : Halfway(w)' <=> Halfway(w)
  BY DEF Halfway
<1>2. Entry' = Entry
  BY <1>1 DEF Entry
<1>3. QED
  BY <1>2, RestStays DEF ContractStep

(* Nor is one that works on a voucher already torn.                        *)
LEMMA TornStep ==
    ASSUME NEW v \in torn, torn' = torn, \A w \in Vouchers \ {v} : Entry'[w] = Entry[w], Rest' = Rest
    PROVE  ContractStep
<1>1. v \in Vouchers => Entry[v] = Closed /\ Entry'[v] = Closed
  BY DEF Entry
<1>2. Entry' = Entry
  BY <1>1 DEF Entry
<1> QED
  BY <1>2 DEF ContractStep

(* What is in the books of a voucher whose request is at its one           *)
(* transaction.                                                            *)
LEMMA EntryAtWork ==
    ASSUME VoucherInv, NEW r \in Requests, AtWork(r), target[r] \in Vouchers,
           status[target[r]] \in {"draft", "posted"}, pc[r] # "inner", target[r] \notin torn
    PROVE  Entry[target[r]] = IF status[target[r]] = "posted" THEN lines[target[r]] ELSE Open
<1>1. status[target[r]] = "draft" => ~Halfway(target[r])
  BY PostsAlone DEF Halfway, AtWork
<1>2. QED
  BY <1>1 DEF Entry

(* A function that differs at one argument.                                *)
LEMMA EntryUpdate ==
    ASSUME NEW v \in Vouchers, \A w \in Vouchers \ {v} : Entry'[w] = Entry[w]
    PROVE  Entry' = [Entry EXCEPT ![v] = Entry'[v]]
  BY DEF Entry

(* Every step is one of the contract, or changes nothing the contract sees. *)
LEMMA ContractStepping ==
    ASSUME VoucherInv, [Next]_vars
    PROVE  ContractStep
<1>0. VoucherTypeOK /\ Exclusive /\ Fresh /\ BooksAgree
      /\ \A r \in Requests : AtWork(r) => target[r] \in Vouchers
  BY DEF VoucherInv, VoucherTypeOK, AtWork
<1>1. ASSUME NEW r \in Requests, NEW v \in Vouchers, NEW l \in LinesOf[v],
             CreateDraft(r, v, l) \/ CreateCount(r, v, l)
      PROVE  ContractStep
  <2>1. status[v] = "none" /\ status'[v] = "draft" /\ ~AtWork(r)
        /\ \A w \in Vouchers \ {v} : status'[w] = status[w] /\ lines'[w] = lines[w]
    BY <1>0, <1>1 DEF CreateDraft, CreateCount, AtWork, VoucherTypeOK
  <2>2. pc'[r] # "inner" /\ \A q \in Requests \ {r} : pc'[q] = pc[q] /\ target'[q] = target[q]
    BY <1>0, <1>1 DEF CreateDraft, CreateCount, End, VoucherTypeOK
  <2>3. ~Halfway(v) /\ ~Halfway(v)'
    BY <1>0, <2>1, <2>2 DEF Halfway, Exclusive, AtWork
  <2>4. Entry'[v] = Entry[v]
    BY <1>1, <2>1, <2>3 DEF Entry, CreateDraft, CreateCount
  <2>5. \A w \in Vouchers \ {v} : Entry'[w] = Entry[w]
    BY <1>1, <2>1, <2>2, OtherEntries DEF AtWork, CreateDraft, CreateCount
  <2>6. Entry' = Entry
    BY <2>4, <2>5 DEF Entry
  <2>7. QED
    BY <1>1, <2>6, RestStays DEF ContractStep, CreateDraft, CreateCount, bookVars
<1>2. ASSUME NEW r \in Requests, NEW v \in Vouchers, NEW o, NEW l, Read(r, v, o, l)
      PROVE  ContractStep
  BY <1>0, <1>2, QuietStep DEF Read, rowVars, bookVars, VoucherTypeOK
<1>3. ASSUME NEW r \in Requests, ReadOwnDraft(r)
      PROVE  ContractStep
  BY <1>0, <1>3, QuietStep DEF ReadOwnDraft, rowVars, bookVars, VoucherTypeOK
<1>4. ASSUME NEW r \in Requests, LockOnHand(r)
      PROVE  ContractStep
  <2>1. Goto(r, "checked") \/ Goto(r, "failed")
    BY <1>4 DEF LockOnHand
  <2>2. QED
    BY <1>0, <1>4, <2>1, QuietStep DEF LockOnHand, Goto, rowVars, bookVars, VoucherTypeOK
<1>5. ASSUME NEW r \in Requests, CommitPost(r) \/ WriteInner(r)
      PROVE  ContractStep
  <2> DEFINE v == target[r]
  <2>1. /\ AtWork(r) /\ Write(r) /\ v \in Vouchers /\ Posts(r) /\ pc[r] \in {"read", "checked"}
        /\ Goto(r, "written") \/ Goto(r, "inner")
        /\ UNCHANGED <<lines, torn>>
        /\ \A w \in Vouchers \ {v} : status'[w] = status[w]
    BY <1>0, <1>5 DEF CommitPost, WriteInner, Ready, AtWork, Nested, rowVars, VoucherTypeOK
  <2>2. status[v] = "draft" /\ ~Halfway(v) /\ Change(r) = lines[v]
    BY <2>1, PostedInBooks
  <2>3. target'[r] = v /\ \A q \in Requests \ {r} : pc'[q] = pc[q] /\ target'[q] = target[q]
    BY <1>0, <2>1 DEF Goto, VoucherTypeOK
  <2>4. \A w \in Vouchers \ {v} : Entry'[w] = Entry[w]
    BY <2>1, <2>3, OtherEntries
  <2>5. CASE v \in torn
    BY <1>0, <2>1, <2>4, <2>5, RestWritten, TornStep
  <2>6. CASE v \notin torn
    <3>1. /\ Entry[v] = Open
          /\ Rest' = Plus(Rest, lines[v])
          /\ lines[v] \in LinesOf[v]
      BY <1>0, <2>1, <2>2, <2>6, RestWritten DEF Entry, VoucherTypeOK
    <3>2. Entry'[v] = lines[v]
      <4>1. CASE CommitPost(r)
        <5>1. status'[v] = "posted"
          BY <1>0, <2>1, <2>2, <4>1 DEF CommitPost, VoucherTypeOK
        <5>2. QED
          BY <2>1, <2>6, <5>1 DEF Entry
      <4>2. CASE WriteInner(r)
        <5>1. status'[v] = "draft" /\ pc'[r] = "inner"
          BY <1>0, <2>2, <4>2 DEF WriteInner, Goto, rowVars, VoucherTypeOK
        <5>2. QED
          BY <2>1, <2>3, <2>6, <5>1 DEF Entry, Halfway
      <4>3. QED
        BY <1>5, <4>1, <4>2
    <3>3. Entry' = [Entry EXCEPT ![v] = lines[v]]
      BY <2>1, <2>4, <3>2, EntryUpdate
    <3>4. Contract!Enter(v, lines[v])
      BY <3>1, <3>3 DEF Contract!Enter, Contract!Plus, Plus, Rest
    <3>5. QED
      BY <2>1, <3>1, <3>4 DEF ContractStep, Contract!Next
  <2>7. QED
    BY <2>5, <2>6
<1>6. ASSUME NEW r \in Requests, CommitEdit(r)
      PROVE  ContractStep
  <2> DEFINE v == target[r]
  <2>1. AtWork(r) /\ End(r) /\ Write(r) /\ Unchanged(r) /\ v \in Vouchers /\ ~Posts(r)
        /\ pc[r] \in {"read", "checked"} /\ UNCHANGED <<status, torn>>
        /\ lines' = [lines EXCEPT ![v] = next[r]]
    BY <1>0, <1>6 DEF CommitEdit, Ready, AtWork, Posts
  <2>2. /\ status[v] \in {"draft", "posted"}
        /\ Change(r) = IF status[v] = "posted" THEN Minus(next[r], lines[v]) ELSE Nothing
    BY <2>1, ChangedInBooks
  <2>3. next[r] \in LinesOf[v] /\ lines[v] \in LinesOf[v] /\ lines'[v] = next[r]
    BY <1>0, <1>6, <2>1, <2>2 DEF CommitEdit, Fresh, ChangeFresh, VoucherTypeOK
  <2>4. pc'[r] # "inner" /\ \A q \in Requests \ {r} : pc'[q] = pc[q] /\ target'[q] = target[q]
    BY <1>0, <2>1 DEF End, VoucherTypeOK
  <2>5. \A w \in Vouchers \ {v} : Entry'[w] = Entry[w]
    BY <1>0, <2>1, <2>4, OtherEntries DEF VoucherTypeOK
  <2>6. CASE v \in torn
    BY <1>0, <2>1, <2>5, <2>6, RestWritten, TornStep
  <2>7. CASE v \notin torn
    <3>1. Entry[v] = IF status[v] = "posted" THEN lines[v] ELSE Open
      BY <2>1, <2>2, <2>7, EntryAtWork
    <3>2. Rest' = Plus(Rest, Change(r)) /\ Rest \in Quantities
      BY <1>0, <2>1, <2>7, RestWritten
    <3>3. CASE status[v] = "posted"
      <4>1. Entry'[v] = next[r] /\ Entry[v] = lines[v]
        BY <2>1, <2>3, <2>7, <3>1, <3>3 DEF Entry
      <4>2. Entry' = [Entry EXCEPT ![v] = next[r]]
        BY <2>1, <2>5, <4>1, EntryUpdate
      <4>3. Rest' = Plus(Rest, Minus(next[r], Entry[v]))
        BY <2>2, <3>2, <3>3, <4>1
      <4>4. Contract!Amend(v, next[r])
        BY <2>3, <4>1, <4>2, <4>3 DEF Contract!Amend, Contract!Plus, Contract!Minus, Plus, Minus, Rest
      <4>5. QED
        BY <2>1, <2>3, <4>4 DEF ContractStep, Contract!Next
    <3>4. CASE status[v] = "draft"
      <4>1. \A q \in Requests : pc'[q] = "inner" => target'[q] # v
        BY <2>1, <2>4, <3>4, PostsAlone DEF AtWork
      <4>2. Entry'[v] = Entry[v]
        BY <2>1, <2>7, <3>1, <3>4, <4>1 DEF Entry, Halfway
      <4>3. Entry' = Entry
        BY <2>5, <4>2 DEF Entry
      <4>4. Rest' = Rest
        BY <2>2, <3>2, <3>4, Sums
      <4>5. QED
        BY <4>3, <4>4 DEF ContractStep
    <3>5. QED
      BY <2>2, <3>3, <3>4
  <2>8. QED
    BY <2>6, <2>7
<1>7. ASSUME NEW r \in Requests, CommitCancel(r)
      PROVE  ContractStep
  <2> DEFINE v == target[r]
  <2>1. AtWork(r) /\ End(r) /\ Write(r) /\ Unchanged(r) /\ v \in Vouchers /\ ~Posts(r)
        /\ pc[r] \in {"read", "checked"} /\ UNCHANGED <<lines, torn>>
        /\ status' = [status EXCEPT ![v] = "cancelled"]
    BY <1>0, <1>7 DEF CommitCancel, Ready, AtWork, Posts
  <2>2. next[r] = Nothing
    BY <1>0, <1>7, <2>1 DEF CommitCancel, Fresh, ChangeFresh
  <2>3. /\ status[v] \in {"draft", "posted"}
        /\ Change(r) = IF status[v] = "posted" THEN Minus(Nothing, lines[v]) ELSE Nothing
    BY <2>1, <2>2, ChangedInBooks
  <2>4. pc'[r] # "inner" /\ \A q \in Requests \ {r} : pc'[q] = pc[q] /\ target'[q] = target[q]
    BY <1>0, <2>1 DEF End, VoucherTypeOK
  <2>5. \A w \in Vouchers \ {v} : Entry'[w] = Entry[w]
    BY <1>0, <2>1, <2>4, OtherEntries DEF VoucherTypeOK
  <2>6. CASE v \in torn
    BY <1>0, <2>1, <2>5, <2>6, RestWritten, TornStep
  <2>7. CASE v \notin torn
    <3>1. Entry[v] = IF status[v] = "posted" THEN lines[v] ELSE Open
      BY <2>1, <2>3, <2>7, EntryAtWork
    <3>2. Entry'[v] = Closed
      BY <1>0, <2>1 DEF Entry, VoucherTypeOK
    <3>3. Entry' = [Entry EXCEPT ![v] = Closed]
      BY <2>1, <2>5, <3>2, EntryUpdate
    <3>4. lines[v] \in LinesOf[v] /\ lines[v] \in Quantities
      BY <1>0, <2>1, <2>3 DEF VoucherTypeOK, Quantities
    <3>5. Rest' = IF status[v] = "posted" THEN Minus(Rest, lines[v]) ELSE Rest
      <4>1. Rest' = Plus(Rest, Change(r)) /\ Rest \in Quantities
        BY <1>0, <2>1, <2>7, RestWritten
      <4>2. Plus(Rest, Minus(Nothing, lines[v])) = Minus(Rest, lines[v])
        BY <3>4, <4>1 DEF Plus, Minus, Nothing, Quantities
      <4>3. QED
        BY <2>3, <3>4, <4>1, <4>2, Sums
    <3>6. Entry[v] # Closed /\ (Entry[v] = Open <=> status[v] # "posted")
      BY <2>1, <3>1, <3>4, VoucherAssumption
    <3>7. Contract!Leave(v)
      BY <3>1, <3>3, <3>5, <3>6 DEF Contract!Leave, Contract!Minus, Minus, Rest
    <3>8. QED
      BY <2>1, <3>7 DEF ContractStep, Contract!Next
  <2>8. QED
    BY <2>6, <2>7
<1>8. ASSUME NEW r \in Requests, CommitOuter(r)
      PROVE  ContractStep
  <2> DEFINE v == target[r]
  <2>1. AtWork(r) /\ End(r) /\ v \in Vouchers /\ pc[r] = "inner"
        /\ UNCHANGED <<lines, ledger, balance, torn>>
        /\ status' = [status EXCEPT ![v] = "posted"] /\ status[v] = "draft"
    BY <1>0, <1>8 DEF CommitOuter, AtWork, bookVars, Fresh, PostFresh
  <2>2. pc'[r] # "inner" /\ \A q \in Requests \ {r} : pc'[q] = pc[q] /\ target'[q] = target[q]
    BY <1>0, <2>1 DEF End, VoucherTypeOK
  <2>3. \A w \in Vouchers \ {v} : Entry'[w] = Entry[w]
    BY <1>0, <2>1, <2>2, OtherEntries DEF VoucherTypeOK
  <2>4. Halfway(v) /\ status'[v] = "posted"
    BY <1>0, <2>1 DEF Halfway, VoucherTypeOK
  <2>5. Entry'[v] = Entry[v]
    BY <2>1, <2>4 DEF Entry
  <2>6. Entry' = Entry
    BY <2>3, <2>5 DEF Entry
  <2>7. QED
    BY <2>1, <2>6, RestStays DEF ContractStep
<1>14. ASSUME NEW v \in Vouchers, v \notin torn, torn' = torn \cup {v}, UNCHANGED <<lines, ledger, balance>>,
              status[v] \in {"draft", "posted"}, ledger[v] = lines[v],
              status[v] = "posted" \/ Halfway(v),
              \A w \in Vouchers \ {v} : Entry'[w] = Entry[w]
       PROVE  ContractStep
  <2>1. lines[v] \in LinesOf[v] /\ Entry[v] = lines[v] /\ Entry'[v] = Closed
    BY <1>0, <1>14 DEF Entry, VoucherTypeOK
  <2>2. Entry[v] # Closed /\ Entry[v] # Open
    BY <2>1, VoucherAssumption
  <2>3. Entry' = [Entry EXCEPT ![v] = Closed]
    BY <1>14, <2>1, EntryUpdate
  <2>4. Rest' = Minus(Rest, Entry[v])
    BY <1>0, <1>14, <2>1, RestTorn
  <2>5. Contract!Leave(v)
    BY <2>2, <2>3, <2>4 DEF Contract!Leave, Contract!Minus, Minus, Rest
  <2> QED
    BY <2>5 DEF ContractStep, Contract!Next
<1>9. ASSUME NEW r \in Requests, CleanUp(r)
      PROVE  ContractStep
  <2> DEFINE v == target[r]
  <2>1. AtWork(r) /\ End(r) /\ v \in Vouchers /\ pc[r] = "failed" /\ UNCHANGED <<lines, ledger, balance>>
        /\ status[v] # "none"
    BY <1>0, <1>9 DEF CleanUp, AtWork, bookVars, Exclusive
  <2>2. pc'[r] # "inner" /\ \A q \in Requests \ {r} : pc'[q] = pc[q] /\ target'[q] = target[q]
    BY <1>0, <2>1 DEF End, VoucherTypeOK
  <2>3. CASE op[r] # "create"
    BY <1>9, <2>1, <2>2, <2>3, QuietStep DEF CleanUp
  <2>4. CASE op[r] = "create"
    <3>1. status' = [status EXCEPT ![v] = "deleted"]
          /\ torn' = IF status[v] = "posted" THEN torn \cup {v} ELSE torn
      BY <1>9, <2>4 DEF CleanUp
    <3>2. /\ status'[v] = "deleted"
          /\ \A w \in Vouchers \ {v} :
                status'[w] = status[w] /\ lines'[w] = lines[w] /\ (w \in torn' <=> w \in torn)
      BY <1>0, <2>1, <3>1 DEF VoucherTypeOK
    <3>3. Entry'[v] = Closed
      BY <2>1, <3>2 DEF Entry
    <3>4. \A w \in Vouchers \ {v} : Entry'[w] = Entry[w]
      BY <2>1, <2>2, <3>2, OtherEntries
    <3>5. Entry' = [Entry EXCEPT ![v] = Closed]
      BY <2>1, <3>3, <3>4, EntryUpdate
    <3>6. CASE v \in torn
      <4>1. torn' = torn
        BY <3>1, <3>6
      <4> QED
        BY <2>1, <3>4, <3>6, <4>1, RestStays, TornStep
    <3>7. CASE v \notin torn /\ status[v] = "posted"
      <4>1. ~Halfway(v)
        <5>1. SUFFICES ASSUME NEW q \in Requests, target[q] = v, pc[q] = "inner"
                       PROVE  FALSE
          BY DEF Halfway
        <5> QED
          BY <1>0, <3>7, <5>1 DEF Fresh, PostFresh, AtWork
      <4>2. ledger[v] = lines[v]
        BY <1>0, <2>1, <3>7, <4>1 DEF BooksAgree
      <4> QED
        BY <1>14, <2>1, <3>1, <3>4, <3>7, <4>2
    <3>8. CASE v \notin torn /\ status[v] = "draft"
      <4>1. Entry[v] = Open /\ Entry[v] # Closed
        BY <2>1, <3>8, EntryAtWork, VoucherAssumption
      <4>2. Rest' = Rest
        BY <2>1, <3>1, <3>8, RestStays
      <4>3. Contract!Leave(v)
        BY <2>1, <3>5, <4>1, <4>2 DEF Contract!Leave, Rest
      <4> QED
        BY <2>1, <4>3 DEF ContractStep, Contract!Next
    <3>9. CASE v \notin torn /\ status[v] \in {"cancelled", "deleted"}
      <4>1. Entry[v] = Closed /\ torn' = torn
        BY <2>1, <3>1, <3>9 DEF Entry
      <4>2. Entry' = Entry
        BY <3>3, <3>4, <4>1 DEF Entry
      <4> QED
        BY <2>1, <4>1, <4>2, RestStays DEF ContractStep
    <3> QED
      BY <1>0, <2>1, <3>6, <3>7, <3>8, <3>9 DEF VoucherTypeOK, Statuses
  <2>5. QED
    BY <2>3, <2>4
<1>10. ASSUME NEW r \in Requests, Refused(r) \/ Publish(r) \/ PublishFails(r)
       PROVE  ContractStep
  <2>1. (End(r) \/ Goto(r, "failed")) /\ pc[r] # "inner"
        /\ UNCHANGED <<status, lines, ledger, balance, torn>>
    BY <1>10 DEF Refused, Publish, PublishFails, Ready, rowVars, bookVars
  <2>2. QED
    BY <1>0, <2>1, QuietStep DEF End, Goto, VoucherTypeOK
<1>15. ASSUME NEW r \in Requests, Crash(r) \/ OuterFails(r)
       PROVE  ContractStep
  <2> DEFINE v == target[r]
  <2>1. /\ AtWork(r) /\ v \in Vouchers /\ (End(r) \/ Goto(r, "failed"))
        /\ UNCHANGED <<status, lines, ledger, balance>>
        /\ torn' = IF pc[r] = "inner" THEN torn \cup {v} ELSE torn
    BY <1>0, <1>15 DEF Crash, OuterFails, AtWork, rowVars, bookVars
  <2>2. pc'[r] # "inner" /\ \A q \in Requests \ {r} : pc'[q] = pc[q] /\ target'[q] = target[q]
    BY <1>0, <2>1 DEF End, Goto, VoucherTypeOK
  <2>3. CASE pc[r] # "inner"
    BY <2>1, <2>2, <2>3, QuietStep
  <2>4. CASE pc[r] = "inner"
    <3>1. \A w \in Vouchers \ {v} : Entry'[w] = Entry[w]
      BY <2>1, <2>2, <2>4, OtherEntries
    <3>2. status[v] = "draft" /\ Halfway(v) /\ (v \notin torn => ledger[v] = lines[v])
      BY <1>0, <2>1, <2>4 DEF Fresh, PostFresh, Halfway
    <3>3. CASE v \in torn
      <4>1. torn' = torn
        BY <2>1, <3>3
      <4> QED
        BY <2>1, <3>1, <3>3, <4>1, RestStays, TornStep
    <3>4. CASE v \notin torn
      BY <1>14, <2>1, <2>4, <3>1, <3>2, <3>4
    <3> QED
      BY <3>3, <3>4
  <2> QED
    BY <2>3, <2>4
<1>11. ASSUME NEW r \in Requests, Abort(r)
       PROVE  ContractStep
  BY <1>0, <1>11, QuietStep DEF Abort, Goto, rowVars, bookVars, VoucherTypeOK
<1>12. CASE UNCHANGED vars
  <2>1. Entry' = Entry /\ UNCHANGED <<ledger, balance, torn>>
    BY <1>12 DEF vars, rowVars, bookVars, requestVars, Entry, Halfway
  <2>2. QED
    BY <2>1, RestStays DEF ContractStep
<1>13. QED
  BY <1>1, <1>2, <1>3, <1>4, <1>5, <1>6, <1>7, <1>8, <1>9, <1>10, <1>11, <1>12, <1>15
  DEF Next, RequestStep

(* The vouchers implement their contract: however requests interleave, the *)
(* stock on hand moves only by a voucher entering the books with its       *)
(* lines, having them replaced, or leaving, each as one step.              *)
THEOREM VouchersImplementContract == Spec => ImplementsContract
<1>1. Init => Contract!Init
  <2> SUFFICES ASSUME Init
               PROVE  Contract!Init
    OBVIOUS
  <2>1. Entry = [v \in Vouchers |-> Open]
    BY DEF Init, Entry, Halfway
  <2>2. Rest = Nothing
    <3>1. \A p \in Places : Sum(RowsAt(p), {}) = 0
      BY SumEmpty
    <3>2. Astray = Nothing /\ balance = Nothing
      BY <3>1 DEF Init, Astray, Sum, Nothing
    <3> QED
      BY <3>2 DEF Rest, Minus, Nothing
  <2>3. QED
    BY <2>1, <2>2 DEF Contract!Init, Contract!Nothing, Nothing, Rest
<1>2. VoucherInv /\ [Next]_vars => [Contract!Next]_<<Entry, Minus(balance, Astray)>>
  BY ContractStepping DEF ContractStep, Rest
<1>3. QED
  BY <1>1, <1>2, VoucherInvariant, PTL DEF Spec, ImplementsContract, Contract!Spec
=============================================================================
