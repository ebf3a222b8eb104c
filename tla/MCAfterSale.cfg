\* A sale of three, a return of two, an exchange and a return for store credit.
CONSTANTS
    ret = ret
    exc = exc
    crd = crd
    Sale = Sale
    Returns = {ret, exc, crd}
    Sold = 3
    Back <- Backs
    Extra <- Extras
    Method <- Methods
    Receipts = {c1, c2}
    Requests = {q1, q2}
    Careful = TRUE
SPECIFICATION Spec
SYMMETRY Symmetry
INVARIANTS
    AfterSaleTypeOK
    ReturnsAddUp
    DebtsAddUp
    MoneyAddsUp
CHECK_DEADLOCK FALSE
