\* One request at a time on a sale and a return of it, left to the users' care.
CONSTANTS
    ret = ret
    exc = exc
    crd = crd
    Sale = Sale
    Returns = {ret}
    Sold = 3
    Back <- Backs
    Extra <- Extras
    Method <- Methods
    Receipts = {c1}
    Requests = {q1}
    Careful = FALSE
SPECIFICATION Spec
INVARIANTS
    PayoutWithinCollected
CHECK_DEADLOCK FALSE
