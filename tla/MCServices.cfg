SPECIFICATION Spec
CONSTANTS
    x1 = x1
    x2 = x2
    u1 = u1
    k1 = k1
    k2 = k2
    p1 = p1
    ann = ann
    bob = bob
    annName = annName
    annMail = annMail
    bobMail = bobMail
    f1 = f1
    Phone = {p1, p2}
    Registered = {}
    SMS = TRUE
    Asker = {a1, a2}
    Enterer = {e1}
    Mail = Mail
    NoPhone = NoPhone
    MaxCodes = 3
    MaxCodeFaults = 1
    Kid = {k1, k2}
    Published <- MCPublished
    TTL = 1
    Timeout = 1
    Call <- MCCall
    Caller = {q1, q2}
    Secret = Secret
    Issuer = Issuer
    SessionIssuer = SessionIssuer
    NoCall = NoCall
    NoCaller = NoCaller
    MaxTime = 3
    MaxKeyFaults = 1
    Expiring = {x1, x2}
    DaysAtStart <- MCDaysAtStart
    ReminderDays <- MCReminderDays
    NotifPod = {n1, n2}
    NoNotifPod = NoNotifPod
    MaxNotifFaults = 1
    Billed = {o1, o2}
    Buyer <- MCBuyer
    Customer = {u1, u2}
    Biller = {b1, b2}
    InvoiceNo = {7, 8}
    NoOrder = NoOrder
    NoCustomer = NoCustomer
    Years = {2023, 2024, 2099, 2100}
    Shoppers = 2
    Prices = {0, 2}
    Funds = 5
    MaxSold = 3
    MaxShopFaults = 1
    Limit = 2
    Window = 2
    Client = {i1, i2}
    MaxSeconds = 3
    MaxTries = 2
    User = {ann, bob}
    LoginName <- MCLoginName
    MailAddress = {annMail, bobMail}
    PhoneNumber = {f1}
    AccountID = {1, 2}
    Edit = {d1}
    NewName = {f1}
    LoginRequest = {l1, l2}
    Attempt = {t1, t2}
    BridgeCall = {c1, c2}
    NoAccountRow = NoAccountRow
    NoName = NoName
    NoUser = NoUser
    NoAttempt = NoAttempt
    MaxLoginFaults = 1
    MaxBegun = 4
    MaxBridgeFaults = 1
INVARIANTS
    CodesInv
    TokensAreJudged
    RemindersInv
    InvoicesInv
    TermsAreRight
    CheckoutSettles
    LimitHolds
    SignInInv
PROPERTIES
    KeysNeverGoBack
CHECK_DEADLOCK FALSE
