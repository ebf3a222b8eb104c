\* Four checkouts racing for a voucher, a card, stock, numbers, accounts, and an edit.
CONSTANTS
    i1 = i1  i2 = i2  i3 = i3  i4 = i4  v1 = v1  c1 = c1  a = a  b = b  bank1 = bank1  bank2 = bank2  nttk = nttk
    inv1 = inv1  inv2 = inv2  gl1 = gl1  gl2 = gl2  k1 = k1  k2 = k2  k3 = k3  k4 = k4
    r1 = r1  r2 = r2  r3 = r3  r4 = r4
    None = None
    Requests = {r1, r2, r3, r4}
    Invoices = {i1, i2, i3, i4}
    Keys = {k1, k2, k3, k4}
    Counters = {inv1, inv2, gl1, gl2}
    Vouchers = {v1}
    Cards = {c1}
    Items = {a, b}
    Tills = {bank1, bank2, nttk}
    InvoiceOf <- OwnInvoice
    KeyOf <- OwnKey
    VoucherOf <- SharedVoucher
    CardOf <- SameCard
    Wished <- Points
    LinesOf <- Crossed
    CounterOf <- TwoBranches
    JournalOf <- TwoJournals
    PaymentsOf <- WithReceipts
    StartNumber <- NewPeriod
    StartPoints = 4
    Edited = {i1}
    FaultKinds = {}
    MaxFaults = 0
SPECIFICATION Spec
INVARIANTS
    SagaTypeOK
    NumbersGapFree
    VoucherRedeemedOnce
    PointsAddUp
    TillsAddUp
    CirclesOnlyAtTills
CHECK_DEADLOCK FALSE
