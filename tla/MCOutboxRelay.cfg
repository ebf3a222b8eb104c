\* Two processes drain three rows, two at a time, with two faults.
CONSTANTS
    Events = {e1, e2, e3}
    Relays = {r1, r2}
    BatchSize = 2
    MaxCopies = 4
    MaxRelayFaults = 2
SPECIFICATION FairSpec
INVARIANTS
    RelayTypeOK
    LocksExclusive
    PublishedIsInLog
    DuplicatesNeedFaults
PROPERTIES
    EventuallyPublished
CHECK_DEADLOCK FALSE
