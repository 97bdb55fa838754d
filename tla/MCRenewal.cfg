SPECIFICATION FairSpec
CONSTANTS
    alice = alice
    Account = {alice}
    Amount = {100}
    Ref = {s1, s2, s3}
    Code = {}
    RewardType <- MCNone
    RewardValue <- MCNone
    MaxUses <- MCNone
    MaxEntries <- MCMaxEntries
    Sub = {s1, s2, s3}
    AutoRenew = {s1}
    Owner <- MCOwner
    Price = 100
    Pod = {p1, p2}
    NoSub = NoSub
    NoPod = NoPod
    MaxAttempts = 2
    MaxOthers = 2
    MaxOverruns = 1
    MaxCrashes = 1
    MaxFailures = 1
INVARIANTS
    RenewalInv
PROPERTIES
    DueIsHandled
    EndedIsNotListed
CHECK_DEADLOCK FALSE
