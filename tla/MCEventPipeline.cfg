\* Two processes, an operator, one event, one group: a relay fault and any
\* one fault of the consumers but the recorder's; the contract kept, every event to its end.
CONSTANTS
    e1 = e1
    s1 = s1
    NoNode = NoNode
    Nodes = {n1, n2}
    Operators = {o1}
    Subs = {s1}
    Events = {e1}
    EventOf <- OneGroup
    BatchSize = 1
    MaxCopies = 2
    MaxPublished = 2
    MaxRelayFaults = 1
    MaxRetries = 0
    FaultKinds = {"crash", "rebalance", "claim", "release", "dlq"}
    MaxFaults = 1
SPECIFICATION PipelineFairSpec
INVARIANTS
    MarkedAfterDelivery
PROPERTIES
    ImplementsContract
    EndToEnd
CHECK_DEADLOCK FALSE
