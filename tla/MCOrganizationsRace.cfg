SPECIFICATION OrgsSpec
CONSTANTS
    Org = {acme}
    Account = {a1, a2}
    Key = {}
    Request = {q1, q2}
    NoOrg = NoOrg
    NoAccount = NoAccount
    NoKey = NoKey
    MaxOrgFaults = 0
SYMMETRY MCSymmetry
PROPERTIES
    LastOwnerNotRemoved
CHECK_DEADLOCK FALSE
