---------------------------- MODULE TransferOrders ----------------------------
(***************************************************************************)
(* Transfer orders between branches: the order's own state and its two     *)
(* legs, a goods issue at the source and a goods receipt at the            *)
(* destination, each a voucher that is also edited and cancelled from its  *)
(* own page, which cascades to the order and to the other leg.             *)
(*                                                                         *)
(* Abstracted: one item; a leg is the quantity it has in the books (what a *)
(* voucher does with the ledger is StockVouchers); the requests of one     *)
(* order come one at a time and complete, so that a handler is one action. *)
(* createAndPost failing leaves nothing, its caller cancels the issue it   *)
(* made: such a handler changes nothing.                                   *)
(***************************************************************************)
EXTENDS Integers

CONSTANTS
    Orders, Vouchers,
    MaxQty,            \* bound: quantity of a leg or an order
    Open, Closed,      \* a voucher not created yet, and a cancelled one
    None

Qty == 1 .. MaxQty

VARIABLES
    status, requested,   \* of each order
    issue, receipt,      \* its legs: exportGoodsIssueId, importGoodsReceiptId
    entry                \* by voucher: Open, Closed or its quantity in the books

vars == <<status, requested, issue, receipt, entry>>

(* create: an order in DRAFT.                                              *)
Init ==
    /\ status = [o \in Orders |-> "draft"]
    /\ requested \in [Orders -> Qty]
    /\ issue = [o \in Orders |-> None]
    /\ receipt = [o \in Orders |-> None]
    /\ entry = [v \in Vouchers |-> Open]

(* update of an order in DRAFT replaces its lines.                         *)
EditOrder(o, q) ==
    /\ status[o] = "draft"
    /\ requested' = [requested EXCEPT ![o] = q]
    /\ UNCHANGED <<status, issue, receipt, entry>>

(* confirmExport with the lines of the form, or startOrderImmediately with *)
(* those of the order: the goods issue is created and posted.              *)
ConfirmExport(o, v, q) ==
    /\ status[o] = "draft"
    /\ entry[v] = Open
    /\ entry' = [entry EXCEPT ![v] = q]
    /\ issue' = [issue EXCEPT ![o] = v]
    /\ status' = [status EXCEPT ![o] = "in_progress"]
    /\ UNCHANGED <<requested, receipt>>

(* confirmImport without lines of a form, and completeOrderImmediately of  *)
(* an order that is under way: the goods receipt is derived from the       *)
(* order's lines.                                                          *)
Import(o, w) ==
    /\ status[o] \in {"in_progress", "completed"}
    /\ receipt[o] = None
    /\ requested[o] > 0
    /\ entry[w] = Open
    /\ entry' = [entry EXCEPT ![w] = requested[o]]
    /\ receipt' = [receipt EXCEPT ![o] = w]
    /\ status' = [status EXCEPT ![o] = "completed"]
    /\ UNCHANGED <<requested, issue>>

(* completeOrderImmediately of a DRAFT: both legs from the order's lines.  *)
Complete(o, v, w) ==
    /\ status[o] = "draft"
    /\ v # w /\ entry[v] = Open /\ entry[w] = Open
    /\ entry' = [entry EXCEPT ![v] = requested[o], ![w] = requested[o]]
    /\ issue' = [issue EXCEPT ![o] = v]
    /\ receipt' = [receipt EXCEPT ![o] = w]
    /\ status' = [status EXCEPT ![o] = "completed"]
    /\ UNCHANGED requested

AtLeastZero(n) == IF n < 0 THEN 0 ELSE n

(* GoodsIssueService.update of an export leg, refused once it is imported; *)
(* adjustRequestedQty changes the order's line by the same difference.     *)
EditIssue(o, q) ==
    LET v == issue[o]
    IN  /\ status[o] = "in_progress"
        /\ v # None /\ receipt[o] = None
        /\ entry' = [entry EXCEPT ![v] = q]
        /\ requested' = [requested EXCEPT ![o] = AtLeastZero(@ + q - entry[v])]
        /\ UNCHANGED <<status, issue, receipt>>

(* GoodsReceiptService.update of an import leg: applyLegRevision changes   *)
(* the export leg by the same difference, or throws when it is too small,  *)
(* after the receipt's transaction.                                        *)
EditReceipt(o, q) ==
    LET v == issue[o]
        w == receipt[o]
        n == entry[v] + q - entry[w]
    IN  /\ status[o] = "completed"
        /\ v # None /\ w # None
        /\ entry' = [entry EXCEPT ![w] = q, ![v] = IF n < 0 THEN @ ELSE n]
        /\ UNCHANGED <<status, requested, issue, receipt>>

(* GoodsReceiptService.cancel of an import leg: the order is under way     *)
(* again.                                                                  *)
CancelReceipt(o) ==
    /\ receipt[o] # None
    /\ entry' = [entry EXCEPT ![receipt[o]] = Closed]
    /\ receipt' = [receipt EXCEPT ![o] = None]
    /\ status' = [status EXCEPT ![o] = "in_progress"]
    /\ UNCHANGED <<requested, issue>>

(* cancel of an order, and GoodsIssueService.cancel of its export leg with *)
(* cancelFromExportIssue, refused once it is imported.                     *)
CancelOrder(o) ==
    /\ status[o] \in {"draft", "in_progress"}
    /\ receipt[o] = None
    /\ entry' = IF issue[o] = None THEN entry ELSE [entry EXCEPT ![issue[o]] = Closed]
    /\ status' = [status EXCEPT ![o] = "cancelled"]
    /\ UNCHANGED <<requested, issue, receipt>>

Next ==
    \E o \in Orders :
        \/ CancelReceipt(o)
        \/ CancelOrder(o)
        \/ \E q \in Qty : EditOrder(o, q) \/ EditIssue(o, q) \/ EditReceipt(o, q)
        \/ \E v \in Vouchers :
              \/ Import(o, v)
              \/ \E q \in Qty : ConfirmExport(o, v, q)
              \/ \E w \in Vouchers : Complete(o, v, w)

Spec == Init /\ [][Next]_vars

-----------------------------------------------------------------------------
(* What arrives is what left: a completed order's receipt mirrors its      *)
(* issue, as the comment on assertExportIssueNotImported says.             *)
LegsMirror ==
    \A o \in Orders :
        status[o] = "completed" => entry[receipt[o]] = entry[issue[o]]
=============================================================================
