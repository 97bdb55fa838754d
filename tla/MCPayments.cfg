SPECIFICATION FairSpec
CONSTANTS
    alice = alice
    topup1 = topup1
    sub1 = sub1
    Account = {alice}
    Amount = {200}
    Ref <- MCOrder
    Code = {}
    RewardType <- MCNone
    RewardValue <- MCNone
    MaxUses <- MCNone
    MaxEntries <- MCMaxEntries
    Order <- MCOrder
    OrderAccount <- MCOrderAccount
    OrderType <- MCOrderType
    AmountCNY <- MCAmountCNY
    NoEventID = {sub1}
    EarlyNotice = {topup1}
    Handler = {h1, h2}
    NoOrder = NoOrder
    MaxFaults = 1
    MaxActivations = 2
INVARIANTS
    CreditedAtMostOnce
    CreditsAreBacked
    ActivationsAreBacked
PROPERTIES
    ChargeIsSettled
    ImplementsOrderBook
CHECK_DEADLOCK FALSE
