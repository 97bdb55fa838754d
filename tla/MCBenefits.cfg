SPECIFICATION Spec
CONSTANTS
    alice = alice
    bob = bob
    Account = {alice, bob}
    Referee = {alice}
    Amount = {1500, 1800, 50000}
    Ref <- MCRef
    Code = {}
    RewardType <- MCNone
    RewardValue <- MCNone
    MaxUses <- MCNone
    MaxEntries <- MCMaxEntries
    Session = {s1, s2}
    NoAccount = NoAccount
    CheckinRef <- MCCheckinRef
    RefereeRef <- MCRefereeRef
    BaseReward = 1000
    StreakStep = 1
    MaxReward = 1800
    LookBack = 1
    RewardSignup = 50000
    Visitor = {alice}
    MaxDay = 3
    MaxFailures = 1
    Level = {0, 1, 2}
    MinSpend <- MCMinSpend
    MaxTopups = 2
    Worker = {w1, w2}
    UsageEvent = {e1}
    MaxDeliver = 2
    Viewer = {v1}
    NoRow = NoRow
    NoView = NoView
    NoEvent = NoEvent
    MaxViewFaults = 1
INVARIANTS
    RewardsInv
    ViewsInv
PROPERTIES
    RewardsArePaid
    ViewsSettle
CHECK_DEADLOCK FALSE
