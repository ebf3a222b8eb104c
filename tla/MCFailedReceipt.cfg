\* Two requests on the vouchers, and a broker that may be down.
CONSTANTS
    rec = rec
    iss = iss
    mov = mov
    cnt = cnt
    shelf = shelf
    store = store
    None = None
    Open = Open
    Closed = Closed
    Vouchers = {rec, iss, mov, cnt}
    Places = {shelf, store}
    Requests = {r1, r2}
    KindOf <- Kinds
    LinesOf <- Lines
SPECIFICATION Spec
SYMMETRY Symmetry
INVARIANTS
    FailedCreateLeftNothing
CHECK_DEADLOCK FALSE
