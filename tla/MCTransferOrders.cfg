\* One order, three vouchers, quantities of at most two.
CONSTANTS
    None = None
    Open = Open
    Closed = Closed
    Orders = {o1}
    Vouchers = {v1, v2, v3}
    MaxQty = 2
SPECIFICATION Spec
INVARIANTS
    LegsMirror
CHECK_DEADLOCK FALSE
