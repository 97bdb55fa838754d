SPECIFICATION FairSpec
CONSTANTS
    EventCount = 3
    Poison = {1}
    Relay = {r1, r2}
    BatchSize = 2
    MaxAttempts = 2
    MaxFaults = 1
INVARIANTS
    OutboxInv
PROPERTIES
    EventsAreSettled
CHECK_DEADLOCK FALSE
