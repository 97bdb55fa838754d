SPECIFICATION Spec
CONSTANTS
    Identity = {ann, wei}
    Wechat = {wei}
    Empty = Empty
    WithZitadel = TRUE
    Parallel = {ann}
    Request = {q1, q2}
    MaxAccounts = 2
    MaxFaults = 1
SYMMETRY MCCalls
INVARIANTS
    AccountsInv
PROPERTIES
    OneAccountForGood
CHECK_DEADLOCK FALSE
