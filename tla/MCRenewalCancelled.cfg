SPECIFICATION Spec
CONSTANTS
    alice = alice
    Account = {alice}
    Amount = {100}
    Ref = {s1, s2, s3}
    Code = {}
    RewardType <- MCNone
    RewardValue <- MCNone
    MaxUses <- MCNone
    MaxEntries <- MCMaxEntries
    Sub = {s1, s2, s3}
    AutoRenew = {s1}
    Owner <- MCOwner
    Price = 100
    Pod = {p1}
    NoSub = NoSub
    NoPod = NoPod
    MaxAttempts = 2
    MaxOthers = 2
    MaxOverruns = 0
    MaxCrashes = 0
    MaxFailures = 0
PROPERTIES
    CancelledNotCharged
CHECK_DEADLOCK FALSE
