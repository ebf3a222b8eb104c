\* Every fault: one group, two processes, two copies, one operator.
CONSTANTS
    e1 = e1
    s1 = s1
    NoNode = NoNode
    Nodes = {n1, n2}
    Operators = {o1}
    Subs = {s1}
    Events = {e1}
    EventOf <- OneGroup
    MaxCopies = 2
    MaxPublished = 2
    MaxRetries = 1
    FaultKinds = {"crash", "rebalance", "claim", "release", "dlq", "recorder"}
    MaxFaults = 2
SPECIFICATION Spec
SYMMETRY Symmetry
INVARIANTS
    ConsumerTypeOK
    OneHandlerAtATime
    EffectAtMostOnce
    NothingLost
    ResolvedWasReplayed
CHECK_DEADLOCK FALSE
