--------------------------- MODULE MCCheckoutSaga ---------------------------
(* Small instances of CheckoutSaga for TLC. *)
EXTENDS CheckoutSaga, TLC

CONSTANTS
    i1, i2, i3, i4, v1, c1, a, b, inv1, inv2, gl1, gl2, k1, k2, k3, k4,
    r1, r2, r3, r4, bank1, bank2, nttk

\* Four invoices, two in each of two branches.  i1 and i2 share a branch and
\* its stock, i2 and i3 a customer, i1 and i3 a bank account, i1 and i4 a voucher.
OwnInvoice == [r \in Requests |->
                  CASE r = r1 -> i1 [] r = r2 -> i2 [] r = r3 -> i3 [] OTHER -> i4]
OwnKey == [r \in Requests |->
                  CASE r = r1 -> k1 [] r = r2 -> k2 [] r = r3 -> k3 [] OTHER -> k4]
TwoBranches == [i \in Invoices |-> IF i \in {i1, i2} THEN inv1 ELSE inv2]
TwoJournals == [i \in Invoices |-> IF i \in {i1, i2} THEN gl1 ELSE gl2]
SharedVoucher == [r \in Requests |-> IF r \in {r1, r4} THEN v1 ELSE None]
Crossed == [i \in Invoices |-> CASE i = i1 -> <<a, b>> [] i = i2 -> <<b, a>> [] OTHER -> <<>>]

\* A balance of 4 pays for i2 or for i3, not for both.
SameCard == [i \in Invoices |-> IF i \in {i2, i3} THEN c1 ELSE None]
OneCard == [i \in Invoices |-> c1]
Points == [i \in Invoices |-> IF i = i3 THEN 3 ELSE 2]

\* Each payment raises its account and then nttk, the counter of bank receipts,
\* which all branches share.  i1 pays into both accounts: nttk between the two.
WithReceipts == [i \in Invoices |->
                    CASE i = i1 -> <<bank1, nttk, bank2, nttk>>
                      [] i = i2 -> <<bank1, nttk>>
                      [] i = i3 -> <<bank2, nttk>>
                      [] OTHER -> <<>>]

\* r1 and r2 send the same request; r3 checks out the same invoice under a
\* key of its own.
SameInvoice == [r \in Requests |-> i1]
Resent == [r \in Requests |-> IF r = r3 THEN k3 ELSE k1]
ResentVoucher == [r \in Requests |-> IF r = r3 THEN v1 ELSE None]
SameBranch == [i \in Invoices |-> inv1]
SameJournal == [i \in Invoices |-> gl1]

\* The first invoice of a period; journals have begun.
NewPeriod == [c \in Counters |-> IF c \in {gl1, gl2} THEN 1 ELSE 0]
=============================================================================
