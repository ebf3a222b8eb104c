\* A request, its resend and a competing one for a single invoice.
CONSTANTS
    i1 = i1  i2 = i2  i3 = i3  i4 = i4  v1 = v1  c1 = c1  a = a  b = b  bank1 = bank1  bank2 = bank2  nttk = nttk
    inv1 = inv1  inv2 = inv2  gl1 = gl1  gl2 = gl2  k1 = k1  k2 = k2  k3 = k3  k4 = k4
    r1 = r1  r2 = r2  r3 = r3  r4 = r4
    None = None
    Requests = {r1, r2, r3}
    Invoices = {i1}
    Keys = {k1, k3}
    Counters = {inv1, gl1}
    Vouchers = {v1}
    Cards = {c1}
    Items = {a, b}
    Tills = {bank1, bank2, nttk}
    InvoiceOf <- SameInvoice
    KeyOf <- Resent
    VoucherOf <- ResentVoucher
    CardOf <- OneCard
    Wished <- Points
    LinesOf <- Crossed
    CounterOf <- SameBranch
    JournalOf <- SameJournal
    PaymentsOf <- WithReceipts
    StartNumber <- NewPeriod
    StartPoints = 4
    Edited = {}
    FaultKinds = {"crash", "ack", "recorder"}
    MaxFaults = 2
SPECIFICATION FairSpec
INVARIANTS
    OneSalePerInvoice
    AnswerIsTrue
PROPERTIES
    ImplementsContract
    EveryRequestAnswered
CHECK_DEADLOCK FALSE
