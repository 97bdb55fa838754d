SPECIFICATION OrgsSpec
CONSTANTS
    Org = {acme, globex}
    Account = {a1, a2}
    Key = {k1}
    Request = {q1, q2}
    NoOrg = NoOrg
    NoAccount = NoAccount
    NoKey = NoKey
    MaxOrgFaults = 1
SYMMETRY MCSymmetry
INVARIANTS
    OrganizationsInv
PROPERTIES
    RevokedForGood
CHECK_DEADLOCK FALSE
