SPECIFICATION FairSpec
CONSTANTS
    alice = alice
    bob = bob
    sub1 = sub1
    Account = {alice, bob}
    Amount = {100}
    Ref = {r1, r2}
    Code = {}
    RewardType <- MCNone
    RewardValue <- MCNone
    MaxUses <- MCNone
    MaxEntries <- MCMaxEntries
    Order = {sub1}
    OrderAccount <- MCOrderAccount
    OrderType <- MCOrderType
    AmountCNY <- MCAmountCNY
    Refund = {r1, r2}
    Customer = {c1, c2}
    Admin = {a1, a2}
    NoOrder = NoOrder
    NoRefund = NoRefund
    MaxFaults = 1
INVARIANTS
    RefundsInv
PROPERTIES
    RefundLifecycle
    ApprovalEnds
CHECK_DEADLOCK FALSE
