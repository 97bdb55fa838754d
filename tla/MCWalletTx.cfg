SPECIFICATION TxSpec
CONSTANTS
    alice = alice
    bob = bob
    promo = promo
    trial = trial
    Account <- MCAccount
    Code <- MCCode
    RewardType <- MCRewardType
    RewardValue <- MCRewardValue
    MaxUses <- MCMaxUses
    Amount = {70}
    Ref = {}
    MaxEntries <- MCMaxEntries
    Session = {s1, s2}
    NoSession = NoSession
INVARIANTS
    TxInv
    BalanceNeverNegative
    LedgerExplainsBalance
    TotalsAgree
PROPERTIES
    WalletSpec
    EveryTxEnds
CHECK_DEADLOCK FALSE
