SPECIFICATION FairSpec
CONSTANTS
    EventCount = 3
    Poison = {}
    Relay = {r1, r2}
    BatchSize = 2
    MaxAttempts = 2
    MaxFaults = 4
PROPERTIES
    EventsAreSettled
CHECK_DEADLOCK FALSE
