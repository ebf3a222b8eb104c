\* A receipt written by hand, a wire between branches and a swap into cash, all reversible.
CONSTANTS
    drawer = drawer
    bank1 = bank1
    bank2 = bank2
    receipt = receipt
    wire = wire
    swap = swap
    None = None
    CashFunds = {drawer}
    DepositFunds = {bank1, bank2}
    MayOverdraw = {bank2}
    Opening <- Openings
    Vouchers = {receipt}
    Sign <- Signs
    FundsOf <- MayName
    Amounts = {1, 2}
    MayClear = {receipt}
    Transfers = {wire}
    Swaps = {swap}
    From <- Source
    To <- Target
    Amount <- Sums
    Requests = {q1, q2}
    MaxMoved = 1
    MaxBack = 2
SPECIFICATION Spec
SYMMETRY Symmetry
INVARIANTS
    FundsTypeOK
    BalancesAddUp
    VouchersAddUp
    TransitAddsUp
CHECK_DEADLOCK FALSE
