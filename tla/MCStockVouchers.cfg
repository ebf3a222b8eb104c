\* Four requests on a receipt, an issue, a move and a count.
CONSTANTS
    rec = rec
    iss = iss
    mov = mov
    cnt = cnt
    shelf = shelf
    store = store
    None = None
    Open = Open
    Closed = Closed
    Vouchers = {rec, iss, mov, cnt}
    Places = {shelf, store}
    Requests = {r1, r2, r3, r4}
    KindOf <- Kinds
    LinesOf <- Lines
SPECIFICATION Spec
SYMMETRY Symmetry
INVARIANTS
    VoucherTypeOK
    BooksAgree
    CheckedMovesCovered
PROPERTIES
    ImplementsContract
CHECK_DEADLOCK FALSE
